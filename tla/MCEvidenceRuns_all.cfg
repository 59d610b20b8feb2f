CONSTANTS
  Scenes = {"library", "grounding", "research"}
  Nobody = Nobody
  loop = loop
  ann = ann
  bob = bob
  text = text
  scan = scan
  char = char
  para = para
  pool = pool
  Loop = loop
  Pool = {pool}
  LegacyProfile = char
  Learners = {ann, bob}
  Contents = {text, scan}
  Unreliable = {scan}
  Profiles = {char, para}
  Strategies = {"dense", "hybrid_rrf"}
  Textbook <- MCTextbook
  Imports <- MCImports
  MaxResources = 2
  None = None
  first = first
  second = second
  shared = shared
  private = private
  stack = stack
  stackOnly = stackOnly
  Turns = {first, second}
  Chunks = {shared, private}
  Queries = {stack, stackOnly}
  Readable <- MCReadable
  Hits <- MCHits
  AssessQuery <- MCAssessQuery
  NodeQuery <- MCNodeQuery
  Situations <- MCSituations
  Conditions <- MCConditions
  MaxTurns = 3
  HintMaxLevel = 3
  CorrectWrongStreak = 2
  MisconceptionLimit = 2
  QuizAfterAttempts = 3
  u1 = u1
  u2 = u2
  u3 = u3
  q1 = q1
  q2 = q2
  q3 = q3
  q4 = q4
  Urls = {u1, u2, u3}
  WebQueries = {q1, q2, q3, q4}
  Found <- MCFound
  Plans <- MCPlans
  Settings <- MCSettings
  MaxRounds = 2
  MaxSearches = 3
  MaxSources = 2
  PerRound = 2
  Slots = 1
  MaxTraces = 2
  MaxKills = 1
SPECIFICATION FairSpec
INVARIANTS WholeImports EvidenceStands OwnEvidence ModelOnlyWithEvidence Assembled RunningExplained
PROPERTIES SourcesKept ResearchEnds
CHECK_DEADLOCK FALSE
