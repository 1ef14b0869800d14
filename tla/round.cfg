SPECIFICATION Spec
CONSTANTS
  Cases = {c1, c2}
  Excepted = {c1}
  Diffed = {c2}
  NoTree = none
  MaxRuns = 3
  Evaluators = {e1}
  MaxEdits = 2
  Departures = {"orphans"}
INVARIANTS SidecarVouches PublishedComplete
PROPERTIES ResultsKept VerifiedWhole ImplementsWriteOnce
CHECK_DEADLOCK FALSE
