\* Two partitions, either of which may become a mount point, and two workers.
SPECIFICATION FairSpec
CONSTANTS
  Paths = {p1, p2}
  RootFps = {1}
  MountFps = {3}
  Workers = 2
  MaxAttempts = 2
  MaxPartitions = 2
INVARIANTS NoPreexisting CompletePass CollisionReported
PROPERTIES RetryDiscardsNothing ScanEnds
CHECK_DEADLOCK FALSE
