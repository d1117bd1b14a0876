\* Two calls on one CMtCoder, of two blocks and of three, without failures.
SPECIFICATION Spec
CONSTANTS
  ThreadsMax = 2
  NumThreads = 2
  SizeClass = 0
  Inputs <- LargeThenLarge
  ExpectedBlocks <- Unknown
  Faults = {}
INVARIANT OkIffComplete
