--------------------------- MODULE MCSessionTurns ---------------------------
(* Instances of SessionTurns for TLC. *)
EXTENDS SessionTurns, TLC

CONSTANTS c1, c2, c3, c4, s1, s2

AllKinds == CommandKinds

\* Without session.rename, which is session.set without a lookup.
RaceKinds == CommandKinds \ {"session.rename"}

Symmetry == Permutations(Sessions) \cup Permutations(Commands)
=============================================================================
