\* The owner deletes completed runs while the materializer pages.
SPECIFICATION Spec
CONSTANTS
  MaxRuns = 5
  Jobs = {}
  Commits = {"frozen"}
  PageSize = 1
  MaxPages = 4
  MaxTries = 1
  Deletions = TRUE
INVARIANTS ProofMissesNone
CHECK_DEADLOCK FALSE
