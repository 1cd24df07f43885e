SPECIFICATION LiveSpec
CONSTANTS
  TaskCount = 3
  DepLists <- MCDepLists
INVARIANTS TypeOK SequentialNeedsSuccess DagOrder
PROPERTIES Completes
CHECK_DEADLOCK FALSE
