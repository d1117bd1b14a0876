\* The input ends before the end mark.
SPECIFICATION Spec
CONSTANTS
  NumThreads = 2
  ThreadCounts = {2}
  BufSize = 2
  Streams <- CutOff
  NumCalls = 1
  Faults = {}
INVARIANT FinishedOrError
