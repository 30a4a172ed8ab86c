CONSTANTS
  Workers = {w1, w2}
  Runs = {r1}
  Clients = {c1, c2}
  None = None
  MaxAttempts = 2
  MaxClaims = 2
  MaxActive = 1
  Concurrency = 2
  Timely = FALSE
  Reliable = {}
  MaxCancels = 1
  MaxRetries = 1
  MaxOutages = 1
SPECIFICATION Spec
SYMMETRY Symmetry
CHECK_DEADLOCK FALSE
PROPERTY StaleWorkerCannotOverwrite
