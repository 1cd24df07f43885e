SPECIFICATION Spec
CONSTANTS
  TaskCount = 2
  DepLists <- MCDepLists
INVARIANTS DagSkipsAfterFailure
CHECK_DEADLOCK FALSE
