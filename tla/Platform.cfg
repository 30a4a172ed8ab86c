CONSTANTS
  None = None
  Gone = Gone
  Sessions = {s1, s2}
  Names = {"root", "ann"}
  Root = "root"
  Roles = {"admin", "manager", "guest"}
  MaxCommits = 2
  Owner = "owner"
  Member = "member"
  Workflows = {1, 2}
  Runs = {1, 2}
  Projects = {1}
  RunKeys = {"k"}
  MaxActive = 1
  MaxRequests = 3
  Graphs = {x1, x2}
  VersionNames = {"n1", "n2"}
  VersionLimit = 1
  MaxInFlight = 2
  MaxRevision = 3
  MaxNumber = 1
  Review <- MCReview
  Relaunch <- MCRelaunch
  NodeNames = {"n1"}
  Texts <- MCTexts
  Batches <- MCBatches
  MaxRounds = 2
  MaxEdits = 3
  Panel <- MCPanel
  Batch <- MCBatch
  Crossing <- MCCrossing
  Long <- MCLong
  Short <- MCShort
SPECIFICATION Spec
SYMMETRY Symmetry
CHECK_DEADLOCK FALSE
INVARIANTS
  AccessHolds
  AdmissionHolds
  DocumentHolds
  AnswersHold
  ScoringIsReviewed
  ChatIsHonest
  WatchHolds
  ProgressHolds
PROPERTIES
  NoStaleOverwriteInTurn
  AnswersAreFinal
