CONSTANTS
  Artifacts = {a1, a2}
  Projects = {p1, p2}
  Kinds = {"dataset", "run"}
  None = None
  OwnerQuota = 1
  ProjectQuota = 1
  Timely = TRUE
  MaxFaults = 1
  MaxCrashes = 1
SPECIFICATION Spec
CHECK_DEADLOCK FALSE
INVARIANTS QuotaKept StoreIsConsistent UploadUndisturbed
PROPERTIES ImplementsPromise CleanupConverges
