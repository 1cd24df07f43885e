SPECIFICATION Spec
CONSTANTS
  Trackings = {1, 2}
  MaxJobs = 2
  None = None
  Workers = {loop, req}
  Loops = {loop}
  Fallback = {2}
  Rank <- MCRank
  MaxConcurrent = 1
  OperatorStatus = {"active", "paused"}
  MaxMishaps = 0
PROPERTIES PauseSticks
CHECK_DEADLOCK FALSE
