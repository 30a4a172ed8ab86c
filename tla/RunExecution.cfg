CONSTANTS
  a = a  b = b  c = c  t = t
  Ids <- MCIds
  Graphs <- MCGraphs
  Selections = {None, b, c}
  Bypasses = {FALSE, TRUE}
  Uncached = {t}
  Awaiting = {t}
  Failing = {b}
  Streams = {editor}
  None = None
  MaxRuns = 2
  MaxAnswers = 1
  MaxExpiries = 1
SPECIFICATION Spec
CHECK_DEADLOCK FALSE
INVARIANTS WellFormed ViewIsCoherent NothingBeforeAnswers UnchangedIsRestored
