\* Three coders, four graphs, two calls; streams of one or two units.
SPECIFICATION Spec
CONSTANTS
  NumCoders = 3
  Graphs <- Mixed
  NumCalls = 2
  Unset = {"ABORT"}
  Faults = {"WRITE", "thread", "throw"}
INVARIANT Consistent
INVARIANT OkMeansWhole
INVARIANT CauseNamed
PROPERTY EveryCodeReturns
