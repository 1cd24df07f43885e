SPECIFICATION MCSpec
CONSTANTS
  Pipelines = {p1, p2}
  PrimaryLine <- MCPrimaryLine
  FallbackLine <- MCFallbackLine
  L2Line <- MCL2Line
  PageSize = 2
  MaxStarts = 2
  MaxMishaps = 1
  NoSnapshot = NoSnapshot
  NoReport = NoReport
  Patches = {"CVE-2024-1.patch", "feature-x.diff", "fix-exploit.patch"}
  Sources = {"a.conf", "a.tar.gz"}
  Words <- MCWords
  Contents = {c1, c2}
  MaxEdits = 3
  Absent = Absent
  Tags <- MCTags
  MaxTags = 3
  Intervals <- MCIntervals
  CreatedAt = 2
  MaxTime = 9
  Never = Never
  Users = {u1, u2}
  Branches = {"main", "dev"}
  InitBranch = "main"
  MaxMoves = 2
  MaxTroubles = 1
  NoBranch = NoBranch
  Failed = Failed
  NoResult = NoResult
SYMMETRY MCSymmetry
INVARIANTS
  ReportsTypeOK LatestCovers BehindIsNewer ComparedWithRightLine FallbackRowsBounded
  AdviceKept
  LatestIsNewest
  DueOncePerSlot
  MetricsCurrent AloneSucceeds NothingRetained
CHECK_DEADLOCK FALSE
