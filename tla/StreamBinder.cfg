\* Two runs of a stream of at most four bytes, buffers of at most three.
SPECIFICATION BinderFairSpec
CONSTANTS
  Total = 4
  MaxWrite = 3
  MaxRead = 2
  NumRuns = 2
INVARIANT ReaderGotWhatWriterSent
INVARIANT BufferLent
INVARIANT ReleaseNeverFails
PROPERTY EveryRunEnds
PROPERTY ImplementsPipe
