SPECIFICATION Spec
CONSTANTS
  Cases = {c1, c2}
  SourceOnly = {c1}
  Writers = {w1, w2}
  Checkers = {k1}
  MaxEdits = 2
  MaxFailures = 1
  Forgeries <- Successes
SYMMETRY WriterSymmetry
INVARIANTS RunnerAndEvaluatorAgree DenominatorsHonest
PROPERTIES AcceptedIsWhole ImplementsWriteOnce
CHECK_DEADLOCK FALSE
