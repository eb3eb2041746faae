CONSTANT Jobs <- MCTickJobs
SPECIFICATION Spec
INVARIANT OnLadder
CHECK_DEADLOCK FALSE
