\* One or two threads, two calls, valid and broken streams, and every fault.
SPECIFICATION Spec
CONSTANTS
  NumThreads = 2
  ThreadCounts = {1, 2}
  BufSize = 2
  Streams <- Everything
  NumCalls = 2
  Faults = {"alloc", "allocST", "thread", "read", "write", "progress"}
INVARIANT TypeOK
INVARIANT OutInOrder
INVARIANT NothingLost
INVARIANT AllParked
INVARIANT OkMeansDone
