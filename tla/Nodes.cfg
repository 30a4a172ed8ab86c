CONSTANTS
  None = None
  Sessions = {s1, s2}
SPECIFICATION Spec
SYMMETRY Symmetry
CHECK_DEADLOCK FALSE
INVARIANTS
  ImportsHold
  ReviewHolds
  TablesHold
