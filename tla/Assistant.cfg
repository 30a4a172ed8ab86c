CONSTANTS
  None = None
SPECIFICATION Spec
CHECK_DEADLOCK FALSE
INVARIANTS
  EditsAreSound
  OldGraphsLive
  AdviceHolds
PROPERTY
  InsertionKeepsPaths
