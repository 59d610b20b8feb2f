---------------------------- MODULE MCEventStream ----------------------------
(* Instances of EventStream for TLC. *)
EXTENDS EventStream

CONSTANTS
  e1, o1,   \* an event of a turn and one of the outbox
  k1, k2    \* a terminal client and a browser page
=============================================================================
