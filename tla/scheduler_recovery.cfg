SPECIFICATION LiveSpec
CONSTANTS
  Trackings = {1, 2}
  MaxJobs = 2
  None = None
  Workers = {loop}
  Loops = {loop}
  Fallback = {}
  Rank <- MCRank
  MaxConcurrent = 2
  OperatorStatus = {"active", "paused"}
  MaxMishaps = 1
INVARIANTS FinishedWasAttempted OneActiveJob
PROPERTIES LedgerSpec JobSettles
CHECK_DEADLOCK FALSE
