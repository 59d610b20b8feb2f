SPECIFICATION FairSpec
CONSTANTS
  e1 = e1
  o1 = o1
  k1 = k1
  k2 = k2
  None = None
  Events = {e1, o1}
  Outbox = {o1}
  Clients = {k1, k2}
  Browsers = {k2}
  QueueSize = 1
  MaxAttempts = 2
INVARIANTS
  SentOnce
PROPERTIES
  ReadsTheFeed
  Reached
