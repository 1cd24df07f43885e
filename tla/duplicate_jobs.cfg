SPECIFICATION Spec
CONSTANTS
  Trackings = {1}
  MaxJobs = 2
  None = None
  Workers = {loop, req}
  Loops = {loop}
  Fallback = {}
  Rank <- MCRank
  MaxConcurrent = 1
  OperatorStatus = {"active", "paused"}
  MaxMishaps = 0
INVARIANTS OneActiveJob
CHECK_DEADLOCK FALSE
