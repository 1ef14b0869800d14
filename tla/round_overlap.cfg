SPECIFICATION Spec
CONSTANTS
  Cases = {c1}
  Excepted = {}
  Diffed = {}
  NoTree = none
  MaxRuns = 3
  Evaluators = {}
  MaxEdits = 0
  Departures = {"overlap"}
PROPERTIES ClosedResultsKept
CHECK_DEADLOCK FALSE
