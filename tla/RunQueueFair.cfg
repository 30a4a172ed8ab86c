CONSTANTS
  Workers = {w1, w2}
  Runs = {r1}
  Clients = {c1}
  None = None
  MaxAttempts = 2
  MaxClaims = 3
  MaxActive = 1
  Concurrency = 2
  Timely = TRUE
  Reliable = {w1}
  MaxCancels = 2
  MaxRetries = 0
  MaxOutages = 2
SPECIFICATION FairSpec
CHECK_DEADLOCK FALSE
INVARIANTS ExclusiveExecution LedgerAgrees LastRunSucceeded
PROPERTIES WorkEnds ImplementsLifecycle
