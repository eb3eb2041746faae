CONSTANT Jobs <- MCJobs
SPECIFICATION Spec
INVARIANTS
  CancelsNameLiveOrders
  CountsExact
  OnLadder
CHECK_DEADLOCK FALSE
