\* Two threads and two blocks; a write fails.
SPECIFICATION Spec
CONSTANTS
  ThreadCounts = {2}
  Sizes = {2}
  NumCalls = 1
  Faults = {"WRITE"}
CHECK_DEADLOCK FALSE
PROPERTY EveryCallReturns
