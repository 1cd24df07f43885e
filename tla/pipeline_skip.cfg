SPECIFICATION Spec
CONSTANTS
  Executors = {e1}
  Commits = {1}
  Bots = {}
  Release <- MCRelease
  MaxCancels = 0
  MaxMishaps = 0
INVARIANTS SkipLosesNothing
CHECK_DEADLOCK FALSE
