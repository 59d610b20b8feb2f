CONSTANTS
  None = None
  NoModel = NoModel
  p1 = p1
  p2 = p2
  mA = mA
  mB = mB
  k1 = k1
  Profiles = {p1, p2}
  Models = {mA, mB}
  Refs = {k1}
  Contents <- MCContents
  Installed <- MCInstalledOne
  Chains <- MCChains
  Options <- MCOptions
  MaxEdits = 1
  MaxCalls = 1
  Callers = {c1, c2}
  Room = 1
  Listed <- MCListed
  Edited <- MCEdited
SPECIFICATION ServicesSpec
INVARIANTS OneVoice AttemptsClosed NoSilentFallback CurrentLockAsksCurrent
CHECK_DEADLOCK FALSE
