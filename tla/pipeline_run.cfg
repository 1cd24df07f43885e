SPECIFICATION Spec
CONSTANTS
  Executors = {e1, e2}
  Commits = {1, 2}
  Bots = {2}
  Release <- MCRelease
  MaxCancels = 1
  MaxMishaps = 1
SYMMETRY MCSymmetry
INVARIANTS TypeOK CancelStops RunningIsExecuted StoredGetsClassified
PROPERTIES OutcomeEarned
CHECK_DEADLOCK FALSE
