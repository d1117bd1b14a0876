\* One or three threads, up to four blocks (the ring wraps round), two calls, any fault.
\* After a failed write the encoder may stop for ever, see OnlyLeftBlocksHang.
SPECIFICATION Spec
CONSTANTS
  ThreadCounts = {1, 3}
  Sizes = {0, 1, 4}
  NumCalls = 2
  Faults = {"READ", "WRITE", "ABORT", "MEM"}
CHECK_DEADLOCK FALSE
INVARIANT StreamIsWhole
PROPERTY OnlyLeftBlocksHang
