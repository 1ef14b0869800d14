SPECIFICATION Spec
CONSTANTS
  Cases = {c1}
  Invocations = {p1, p2}
  Target = 2
  MaxRuns = 3
  MaxAttempts = 2
  PageSize = 1
  MaxPages = 3
INVARIANTS EligibleMeasured InvalidUnmeasured
PROPERTIES ImplementsWriteOnce FirstUnlessGrown
CHECK_DEADLOCK FALSE
