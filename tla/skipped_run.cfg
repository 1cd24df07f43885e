SPECIFICATION Spec
CONSTANTS
  Trackings = {1}
  MaxJobs = 2
  None = None
  Workers = {loop}
  Loops = {loop}
  Fallback = {}
  Rank <- MCRank
  MaxConcurrent = 1
  OperatorStatus = {"active", "paused"}
  MaxMishaps = 1
PROPERTIES SkippedKeepsLastSync
CHECK_DEADLOCK FALSE
