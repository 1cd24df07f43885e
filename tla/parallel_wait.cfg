SPECIFICATION Spec
CONSTANTS
  TaskCount = 2
  DepLists <- MCDepLists
INVARIANTS ParallelWaitsForAll
CHECK_DEADLOCK FALSE
