\* Two threads, four items, and memory from none to enough.
SPECIFICATION Spec
CONSTANTS
  NumThreads = 2
  Works <- Mixed
  Pools = {0, 1, 3}
  BlockSize = 2
  Faults = {"thread", "gone", "open", "code", "write"}
INVARIANT ResultIsRight
INVARIANT BlocksKept
PROPERTY OneArchiveUser
PROPERTY EveryUpdateEnds
