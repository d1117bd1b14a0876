\* Two threads, three slots, a call of one block and then one of four; reading,
\* thread creation, coding and writing may all fail; fair scheduling.
SPECIFICATION FairSpec
CONSTANTS
  ThreadsMax = 2
  NumThreads = 2
  SizeClass = 0
  Inputs <- SmallThenLarge
  ExpectedBlocks <- Unknown
  Faults = {"read", "create", "code", "write"}
INVARIANT OkIffComplete
INVARIANT ResourcesKept
INVARIANT OneReader
INVARIANT OneWriter
INVARIANT FinishedMeansDone
PROPERTY PendingStable
PROPERTY ImplementsOrderedOutput
PROPERTY EveryCallReturns
