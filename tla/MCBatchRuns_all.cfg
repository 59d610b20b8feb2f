SPECIFICATION Spec
CONSTANTS
  Measures = {"m1"}
  Campaigns = {"c1", "c2"}
  Repairs = {"r1"}
  Base = "c1"
  Planned <- MCPlanned
  RagReserve = 2
  RepairCeiling = 4
  Authorized = 6
  MaxRounds = 2
  Outcomes <- MCOutcomes
  MaxStarts = 4
  MaxBreaks = 1
  Legs <- MCLegs
  Ceilings <- MCCeilings
  Requests <- MCRequests
  PairsOf <- MCPairs
  FileOrder <- MCFileOrder
  BlockSize = 2
  Wanted <- MCWanted
  MaxAsks = 2
  MaxRuns = 2
  MaxMishaps = 1
  MaxReviews = 2
  Scenes = {"campaign", "fulltext"}
INVARIANTS WithinAuthorization GatesHold OneOpenEach TablesOfOneInput CompletedIsClean
CHECK_DEADLOCK FALSE
