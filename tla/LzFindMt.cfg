\* Two encodings of a stream that does not fit in the window.
SPECIFICATION Spec
CONSTANTS
  StreamSize = 22
  NumHashBytes = 2
  HistorySize = 1
  MatchMaxLen = 2
  HashBlockSize = 3
  HashNumBlocks = 2
  BtBlockSize = 3
  BtNumBlocks = 2
  MoveAlign = 2
  NumEncodes = 2
  Faults = {"thread", "read", "data", "stop"}
INVARIANT LzSeesItsBytes
INVARIANT BtSeesItsBytes
INVARIANT OkMeansWhole
INVARIANT StoppedMeansParked
PROPERTY EveryThreadEnds
