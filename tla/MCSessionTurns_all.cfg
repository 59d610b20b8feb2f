SPECIFICATION Spec
CONSTANTS
  s1 = s1
  s2 = s2
  c1 = c1
  c2 = c2
  c3 = c3
  c4 = c4
  None = None
  Sessions = {s1, s2}
  Commands = {c1, c2, c3, c4}
  Kinds <- AllKinds
  Lookups = {"remote"}
  Keep = 1
SYMMETRY Symmetry
INVARIANTS
  OneTurnPerSession
  InterruptedOnlyIfKilled
  TerminalIsLast
  PromptLast
  OneAnswerPerTurn
