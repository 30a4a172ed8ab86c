CONSTANTS
  Runs = {r1, r2, r3}
  Keys = {k1, k2}
  Durable = {k1}
  Artifacts = {1, 2, 3}
  None = None
  MaxBytes = 1
  MaxDeletions = 1
SPECIFICATION Spec
CHECK_DEADLOCK FALSE
INVARIANTS TypeOK DurableKept PinnedReachable
PROPERTY MaintenanceConverges
