SPECIFICATION MCSpec
CONSTANTS
  Commits = {1, 2}
  Releases = {"1.0-1"}
  ReleaseOf <- MCReleaseOf
  Bots = {1, 2}
  Importers = {i1, i2}
  Pushers = {p1}
  Stores = {s1}
  Runners = {r1, r2}
  Stages = {g1}
  MaxClassJobs = 3
  Limit = 1
  MaxMishaps = 1
  MaxCrew = 3
  NoCommit = NoCommit
  NoJob = NoJob
  Shas = {c1}
  Watchers = {w1}
  Pollers = {q1}
  L0Pushers = {u1}
  Advisors = {a1, a2}
  Distros = {d1, d2}
  MaxL0Mishaps = 1
  MaxL0Crew = 3
  NoItem = NoItem
  Trackings = {1}
  MaxJobs = 3
  None = None
  Executors = {e1, e2}
  MaxTasks = 1
  MaxSyncMishaps = 1
  OperatorWords = {"active", "paused"}
SYMMETRY MCSymmetry
INVARIANTS
  RecordsTypeOK ImportedIsCovered StartsBounded OpenJobsBounded OneVerdictEach ReleasesKept
  WritersTypeOK OneRowPerWriter OneCandidatePerAdvisor AdvisorCovers
  SyncingHasExecutor
PROPERTIES
  ExecutorPauseSticks
CHECK_DEADLOCK FALSE
