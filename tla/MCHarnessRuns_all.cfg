SPECIFICATION FairSpec
CONSTANTS
  Scenes = {"offline", "acceptance", "pilot"}
  Units <- MCUnits
  MaxStarts = 2
  MaxKills = 1
  MaxChanges = 1
  NoFile = NoFile
  Services = {s1, s2}
  TurnsOf <- MCTurnsOf
  TurnKinds <- MCTurnKinds
  MaxBatches = 1
  MaxBreaks = 2
  NoBatch = NoBatch
  CellCount = 2
  Groups = 1
  Budget = 2
  Expected = 1
  StopOnFailed = TRUE
  Replies = {"stop", "length", "failed"}
  MaxCalls = 2
  MaxRunnerStarts = 2
  MaxStops = 1
INVARIANTS NeverResent RowsHonest SameAnswersRated PassedIsAnswered
PROPERTY EveryStartEnds
CHECK_DEADLOCK FALSE
