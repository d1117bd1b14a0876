\* Lack of memory and of threads, and oversized blocks, on valid streams.
SPECIFICATION Spec
CONSTANTS
  NumThreads = 3
  ThreadCounts = {1, 3}
  BufSize = 2
  Streams <- Valid
  NumCalls = 2
  Faults = {"alloc", "thread"}
PROPERTY ImplementsSequentialDecoder
PROPERTY EveryDecodeReturns
INVARIANT ProcessedIsWritten
INVARIANT OneTokenEach
