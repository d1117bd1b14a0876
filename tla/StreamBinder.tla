---------------------------- MODULE StreamBinder ----------------------------
(***************************************************************************)
(* CStreamBinder of CPP/7zip/Common/StreamBinder.{h,cpp}: the pipe without *)
(* a buffer of its own that joins the output of one coder thread to the    *)
(* input of the next.  Write lends the caller's buffer to the reader and   *)
(* waits until it has been read or the reader is gone.  Either side may    *)
(* close first, at any moment between its calls.                           *)
(*                                                                         *)
(* Bytes are represented by their position in the stream, and _buf by the  *)
(* position of the byte it points at.                                      *)
(***************************************************************************)
EXTENDS Naturals, Sequences

CONSTANTS
  Total,      \* how many bytes the writer has to offer in one run
  MaxWrite,   \* the largest size passed to Write
  MaxRead,    \* the largest size passed to Read
  NumRuns     \* how many times Create_ReInit starts a run

ASSUME BinderAssumption ==
  /\ Total \in Nat
  /\ MaxWrite \in Nat \ {0}
  /\ MaxRead \in Nat \ {0}
  /\ NumRuns \in Nat

VARIABLES
  rpc, rsize,        \* the reader: where it is, and the size it asked for
  wpc, wsize,        \* the writer: where it is, and the size of its data
  canRead,           \* _canRead_Event, an auto-reset event
  canWrite,          \* _canWrite_Semaphore
  waitWrite,         \* _waitWrite, used by the reader only
  readingWasClosed,  \* _readingWasClosed2, used by the writer only
  buf, bufSize,      \* _buf and _bufSize, used by both
  processedSize,     \* ProcessedSize
  got,               \* the bytes Read has handed to the reader
  accepted,          \* how many bytes Write has reported as processed
  eof,               \* whether Read has returned no data
  cut,               \* whether Write has returned k_My_HRESULT_WritingWasCut
  runs

readerVars == <<rpc, rsize, waitWrite, processedSize, got, eof>>
writerVars == <<wpc, wsize, readingWasClosed, accepted, cut>>
binderVars == <<readerVars, writerVars, canRead, canWrite, buf, bufSize, runs>>

\* The maximum count of _canWrite_Semaphore.  Mutant: no room for the count
\* that Read released just before the stream is closed.
SmallCount == 2
MaxCount   == 3

\* CSemaphore::Release fails, and changes nothing, beyond the maximum count.
Release(n) == canWrite' = IF canWrite + n > MaxCount THEN canWrite ELSE canWrite + n

BinderInit ==
  /\ rpc = "closed" /\ rsize = 0
  /\ wpc = "closed" /\ wsize = 0
  /\ canRead = FALSE
  /\ canWrite = 0
  /\ waitWrite = TRUE
  /\ readingWasClosed = FALSE
  /\ buf = 0 /\ bufSize = 0
  /\ processedSize = 0
  /\ got = <<>>
  /\ accepted = 0
  /\ eof = FALSE /\ cut = FALSE
  /\ runs = 0

\* Mutant: the count left by the previous run is kept.
OldCount   == canWrite
FirstCount == 0

\* Create_ReInit, when both streams of the previous run have been released.
Create_ReInit ==
  /\ rpc = "closed" /\ wpc = "closed"
  /\ runs < NumRuns
  /\ runs' = runs + 1
  /\ rpc' = "out" /\ wpc' = "out"
  /\ canRead' = FALSE
  /\ canWrite' = FirstCount
  /\ waitWrite' = TRUE
  /\ readingWasClosed' = FALSE
  /\ buf' = 0 /\ bufSize' = 0
  /\ processedSize' = 0
  /\ got' = <<>> /\ accepted' = 0 /\ eof' = FALSE /\ cut' = FALSE
  /\ UNCHANGED <<rsize, wsize>>

-----------------------------------------------------------------------------
(* The reader *)

ReadCall ==
  /\ rpc = "out"
  /\ \E n \in 1 .. MaxRead : rsize' = n
  /\ rpc' = IF waitWrite THEN "lock" ELSE "copy"
  /\ UNCHANGED <<waitWrite, processedSize, got, eof, writerVars, canRead,
                 canWrite, buf, bufSize, runs>>

ReadLock ==
  /\ rpc = "lock"
  /\ canRead
  /\ canRead' = FALSE
  /\ waitWrite' = FALSE
  /\ rpc' = "copy"
  /\ UNCHANGED <<rsize, processedSize, got, eof, writerVars, canWrite, buf,
                 bufSize, runs>>

\* How much Read takes.
ReadSize == IF rsize > bufSize THEN bufSize ELSE rsize

\* Whether Read has emptied the buffer.
WholeRead(k) == k = bufSize

ReadCopy ==
  LET k == ReadSize IN
  /\ rpc = "copy"
  /\ got' = got \o [i \in 1 .. k |-> buf + i - 1]
  /\ buf' = buf + k
  /\ processedSize' = processedSize + k
  /\ bufSize' = bufSize - k
  /\ eof' = (eof \/ k = 0)
  /\ rpc' = IF k # 0 /\ WholeRead(k) THEN "signal" ELSE "out"
  /\ waitWrite' = (waitWrite \/ (k # 0 /\ WholeRead(k)))
  /\ UNCHANGED <<rsize, writerVars, canRead, canWrite, runs>>

ReadSignal ==
  /\ rpc = "signal"
  /\ Release(1)
  /\ rpc' = "out"
  /\ UNCHANGED <<rsize, waitWrite, processedSize, got, eof, writerVars, canRead,
                 buf, bufSize, runs>>

\* One count unlocks a Write whose data was read in part, the other makes the
\* next Write find that nothing was read.  Mutant: only one.
OneItem    == 1
CloseItems == 2

CloseRead_CallOnce ==
  /\ rpc = "out"
  /\ Release(CloseItems)
  /\ rpc' = "closed"
  /\ UNCHANGED <<rsize, waitWrite, processedSize, got, eof, writerVars, canRead,
                 buf, bufSize, runs>>

-----------------------------------------------------------------------------
(* The writer *)

\* The next bytes of the stream, after those the reader has accepted.
WriteCall ==
  /\ wpc = "out"
  /\ ~readingWasClosed
  /\ \E n \in 1 .. MaxWrite :
        /\ accepted + n <= Total
        /\ wsize' = n
        /\ bufSize' = n
  /\ buf' = accepted
  /\ wpc' = "set"
  /\ UNCHANGED <<readerVars, readingWasClosed, accepted, cut, canRead, canWrite,
                 runs>>

WriteSignal ==
  /\ wpc = "set"
  /\ canRead' = TRUE
  /\ wpc' = "lock"
  /\ UNCHANGED <<readerVars, wsize, readingWasClosed, accepted, cut, canWrite,
                 buf, bufSize, runs>>

WriteLock ==
  /\ wpc = "lock"
  /\ canWrite > 0
  /\ canWrite' = canWrite - 1
  /\ wpc' = "return"
  /\ UNCHANGED <<readerVars, wsize, readingWasClosed, accepted, cut, canRead,
                 buf, bufSize, runs>>

\* Mutant: a Write that was read in part is reported as cut.
CutUnlessAll(n) == n # wsize
CutIfNone(n)    == n = 0

WriteReturn ==
  LET n == wsize - bufSize IN
  /\ wpc = "return"
  /\ wpc' = "out"
  /\ IF CutIfNone(n)
     THEN /\ readingWasClosed' = TRUE
          /\ cut' = TRUE
          /\ UNCHANGED accepted
     ELSE /\ accepted' = accepted + n
          /\ UNCHANGED <<readingWasClosed, cut>>
  /\ UNCHANGED <<readerVars, wsize, canRead, canWrite, buf, bufSize, runs>>

\* A Write after the reader was found gone.
WriteCut ==
  /\ wpc = "out"
  /\ readingWasClosed
  /\ cut' = TRUE
  /\ UNCHANGED <<readerVars, wpc, wsize, readingWasClosed, accepted, canRead,
                 canWrite, buf, bufSize, runs>>

CloseWrite ==
  /\ wpc = "out"
  /\ buf' = 0 /\ bufSize' = 0
  /\ wpc' = "closeSet"
  /\ UNCHANGED <<readerVars, wsize, readingWasClosed, accepted, cut, canRead,
                 canWrite, runs>>

CloseWriteSignal ==
  /\ wpc = "closeSet"
  /\ canRead' = TRUE
  /\ wpc' = "closed"
  /\ UNCHANGED <<readerVars, wsize, readingWasClosed, accepted, cut, canWrite,
                 buf, bufSize, runs>>

-----------------------------------------------------------------------------
Reader == ReadCall \/ ReadLock \/ ReadCopy \/ ReadSignal \/ CloseRead_CallOnce
Writer == \/ WriteCall \/ WriteSignal \/ WriteLock \/ WriteReturn \/ WriteCut
          \/ CloseWrite \/ CloseWriteSignal

BinderFinished == rpc = "closed" /\ wpc = "closed" /\ runs = NumRuns /\ UNCHANGED binderVars

BinderNext == Create_ReInit \/ Reader \/ Writer \/ BinderFinished

BinderSpec == BinderInit /\ [][BinderNext]_binderVars

\* A coder neither stops inside a call of the binder nor keeps its stream
\* forever, and one that has seen the end of the data lets its stream go.
BinderFairSpec ==
  /\ BinderSpec
  /\ WF_binderVars(ReadLock \/ ReadCopy \/ ReadSignal)
  /\ WF_binderVars(ReadCall \/ CloseRead_CallOnce)
  /\ SF_binderVars(eof /\ CloseRead_CallOnce)
  /\ WF_binderVars(WriteSignal \/ WriteLock \/ WriteReturn \/ CloseWriteSignal)
  /\ WF_binderVars(CloseWrite)

-----------------------------------------------------------------------------
(* Properties *)

\* Type correctness of the whole state.
BinderTypeOK ==
  /\ rpc \in {"out", "lock", "copy", "signal", "closed"}
  /\ wpc \in {"out", "set", "lock", "return", "closeSet", "closed"}
  /\ rsize \in 0 .. MaxRead /\ wsize \in 0 .. MaxWrite
  /\ canRead \in BOOLEAN /\ canWrite \in 0 .. 3
  /\ waitWrite \in BOOLEAN /\ readingWasClosed \in BOOLEAN
  /\ buf \in 0 .. Total /\ bufSize \in 0 .. MaxWrite
  /\ processedSize \in Nat /\ accepted \in 0 .. Total
  /\ got \in Seq(Nat)
  /\ eof \in BOOLEAN /\ cut \in BOOLEAN
  /\ runs \in 0 .. NumRuns

(* Whenever the writer is not inside Write, the bytes it was told of are      *)
(* exactly the bytes the reader got, in order, also after the reader left in  *)
(* the middle of a buffer.                                                    *)
ReaderGotWhatWriterSent ==
  /\ got = [i \in 1 .. processedSize |-> i - 1]
  /\ wpc \in {"out", "closeSet", "closed"} => accepted = Len(got)

(* The reader touches the lent buffer only while its owner is blocked inside  *)
(* Write: data that Write has returned is never read, and _bufSize is never   *)
(* changed by both at once.                                                   *)
BufferLent == rpc = "copy" => wpc = "lock" \/ (wpc = "closed" /\ bufSize = 0)

(* No Release exceeds the maximum count of the semaphore, its result being    *)
(* ignored: "we need at least 3 items of maxCount".                           *)
ReleaseNeverFails ==
  /\ rpc = "signal" => canWrite + 1 <= MaxCount
  /\ rpc = "out" => canWrite + 2 <= MaxCount

(* "(_canRead_Event && _bufSize == 0) means that stream is finished": Read    *)
(* returns no data only when the writer has closed.                           *)
EofIsEnd == eof => wpc = "closed"

(* A Write is refused only when the reader has closed, never because a buffer *)
(* happened not to be read yet.                                               *)
CutIsClosed == cut \/ readingWasClosed => rpc = "closed"

(* Whichever side closes first, neither is left waiting inside Read or Write. *)
EveryRunEnds == []<>(rpc = "closed" /\ wpc = "closed")

(* The binder implements the abstract pipe. *)
Abstract == INSTANCE Pipe WITH
  readerOpen <- rpc # "closed",
  writerOpen <- wpc # "closed"

ImplementsPipe == Abstract!Spec
=============================================================================
