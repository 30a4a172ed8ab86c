CONSTANTS
  Reviewers = {u1, u2}
  Contexts = {c1}
  Answers = {a1}
  Launchers = {l1}
  Requests = {q1, q2}
  None = None
  MaxLaunches = 1
  MaxRetries = 0
  MaxOutages = 0
SPECIFICATION Spec
CHECK_DEADLOCK FALSE
INVARIANT LastAnswerScores
