SPECIFICATION Spec
CONSTANTS
  Trackings = {1}
  MaxJobs = 3
  None = None
  Workers = {loop, req}
  Loops = {loop}
  Fallback = {}
  Rank <- MCRank
  MaxConcurrent = 1
  OperatorStatus = {"active", "paused"}
  MaxMishaps = 1
INVARIANTS TypeOK NoOrphanJob ActiveBound
CHECK_DEADLOCK FALSE
