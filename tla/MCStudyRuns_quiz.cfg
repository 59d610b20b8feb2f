SPECIFICATION Spec
CONSTANTS
  s1 = s1  s2 = s2  s3 = s3
  r1 = r1  r2 = r2
  q1 = q1  q2 = q2  q3 = q3
  c1 = c1
  None = None
  NoConcept = NoConcept
  Concepts = {c1}
  Initial = 20  Transit = 10  Guess = 20  Slip = 10
  MaxTurns = 6
  HintMaxLevel = 3
  CorrectWrongStreak = 2
  MisconceptionLimit = 2
  QuizAfterAttempts = 3
  MaxIssued = 2
  MaxHints = 4
  HintCounts = {0}
  Sessions = {s1}
  Items = {q1, q2}
  Versions = {1}
  Hashes = {1}
  MinEvidence = 1
  MaxAttempts = 2
  Readers = {r1}
  GroupC = {s1}
  Scenes = {"quiz"}
CONSTANT Bank <- MCBank
CONSTANT Experiments <- MCExperiments
CONSTANT Questions <- MCQuestions
CONSTANT SnapshotOf <- MCSnapshotOf
CHECK_DEADLOCK FALSE
INVARIANTS
  CountsAgree LadderInOrder
PROPERTY HintedNotEvidence
