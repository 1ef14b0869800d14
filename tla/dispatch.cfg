\* Dispatches may become visible in any order; none is deleted.
SPECIFICATION FairSpec
CONSTANTS
  MaxRuns = 2
  Jobs = {1, 2}
  Commits = {"frozen", "other"}
  PageSize = 1
  MaxPages = 3
  MaxTries = 2
  Deletions = FALSE
INVARIANTS OneCanonical JobsAgree ProofAgrees
PROPERTIES CheckEnds
CHECK_DEADLOCK FALSE
