SPECIFICATION Spec
CONSTANTS
  Clis = {p1, p2}
  Gateways = {g1, g2, g3}
  Turns = {t1, t2}
  None = None
  Dead = Dead
  MaxDeltas <- Streams
  Scenes <- MCScenes
CHECK_DEADLOCK FALSE
INVARIANTS
  ReadyIsInstalled
  AnswerIsOwn
