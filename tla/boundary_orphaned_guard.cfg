\* Guard outlives the harness that the cleanup step was to clean up after.
SPECIFICATION Spec
CONSTANTS
  MaxPhases = 1
  Slots = {1}
  HostPids = {1}
  Orphans = TRUE
INVARIANTS ReleasedQuiet
CHECK_DEADLOCK FALSE
