\* Guard and its wrapper end before the cleanup starts.
SPECIFICATION FairSpec
CONSTANTS
  MaxPhases = 2
  Slots = {1, 2}
  HostPids = {1, 2}
  Orphans = FALSE
INVARIANTS ReleasedQuiet ReleasedSettled
PROPERTIES CleanupEnds ReapEnds
CHECK_DEADLOCK FALSE
