CONSTANTS
  a = a  b = b  c = c  t = t
  Ids <- MCIds
  Graphs <- ReadingGraphs
  Selections = {None, b, t}
  Bypasses = {FALSE}
  Uncached = {t}
  Awaiting = {t}
  Failing = {}
  Streams = {editor}
  None = None
  MaxRuns = 2
  MaxAnswers = 1
  MaxExpiries = 0
SPECIFICATION Spec
CHECK_DEADLOCK FALSE
INVARIANT NoStaleResultRetained
