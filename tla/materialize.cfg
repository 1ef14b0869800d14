\* Two invocations are made: they race for the results of one run, or results
\* that may have been edited are verified against the live API.
SPECIFICATION Spec
CONSTANTS
  Cases = {c1, c2}
  Materializers = {m1, m2}
  Verifiers = {v1}
  MaxAttempts = 2
  MaxInvocations = 2
SYMMETRY Symmetry
INVARIANTS MeasuredOnly
PROPERTIES ImplementsWriteOnce AcceptedIsGenuine
CHECK_DEADLOCK FALSE
