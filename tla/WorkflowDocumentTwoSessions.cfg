SPECIFICATION Spec
CONSTANTS
  Editors = {e1,e2}
  Graphs = {g1,g2,g3}
  Names = {n1}
  None = None
  VersionLimit = 1
  MaxInFlight = 2
  MaxRevision = 3
  MaxNumber = 1
PROPERTY NoStaleOverwrite
CHECK_DEADLOCK FALSE
