------------------------------ MODULE BZip2Enc ------------------------------
(***************************************************************************)
(* The threads of the bzip2 encoder (BZip2Encoder.cpp).  A thread reads a  *)
(* block under the critical section, encodes it alone, waits for the       *)
(* event of the block's place in a ring and then writes it and wakes the   *)
(* next place.  The first thread that meets the end of the input or an     *)
(* error ends the stream for all of them, and all meet the caller twice    *)
(* before the next call may start.                                         *)
(*                                                                         *)
(* A block is its number in the input, and what is written of it is that   *)
(* number too; a block's CRCs are one.  Creating and resetting events does *)
(* not fail; the caller gives the encoder up after a failed call.          *)
(***************************************************************************)
EXTENDS Naturals, Sequences

CONSTANTS
  ThreadCounts,   \* what SetNumberOfThreads may have been given
  Sizes,          \* how many blocks an input may have
  NumCalls,       \* how often Code is called
  Faults          \* which of FaultKinds may happen

FaultKinds == {"READ", "WRITE", "ABORT", "MEM"}

ASSUME ConstantsAssumption ==
  /\ ThreadCounts \subseteq Nat \ {0} /\ Sizes \subseteq Nat /\ NumCalls \in Nat
  /\ Faults \subseteq FaultKinds

VARIABLES
  numThreads,
  mpc, idx, calls, ret,            \* the caller
  pc, block, blockIndex, res,      \* the threads: place, m_Block, m_BlockIndex, res
  canProcess, canStartWaiting,     \* manual-reset events
  finishedEvent, waitingEvent,     \* StreamWasFinishedEvent, WaitingWasStartedEvent
  canWrite,                        \* CanWriteEvent of each place of the ring
  cs, closeThreads, streamWasFinished, nextBlockIndex, result,
  size, taken,                     \* the blocks of the input, and how many were read
  out, crc,                        \* the blocks written, those in CombinedCrc
  failed                           \* history: what went wrong in this call

callerVars == <<mpc, idx, calls, ret>>
threadVars == <<pc, block, blockIndex, res>>
eventVars  == <<canProcess, canStartWaiting, finishedEvent, waitingEvent, canWrite>>
sharedVars == <<cs, closeThreads, streamWasFinished, nextBlockIndex, result>>
streamVars == <<size, taken, out, crc, failed>>
vars == <<numThreads, callerVars, threadVars, eventVars, sharedVars, streamVars>>

Threads == 0 .. numThreads - 1
MtMode  == numThreads > 1
Nobody  == numThreads              \* no thread has this index
\* the next place of the ring
Next1(i) == IF i + 1 = numThreads THEN 0 ELSE i + 1
Off     == [t \in Threads |-> FALSE]

Init ==
  /\ numThreads \in ThreadCounts
  /\ mpc = "idle" /\ idx = 0 /\ calls = 0 /\ ret = "OK"
  /\ pc = [t \in Threads |-> "none"] /\ block = [t \in Threads |-> 0]
  /\ blockIndex = [t \in Threads |-> 0] /\ res = [t \in Threads |-> "OK"]
  /\ canProcess = FALSE /\ canStartWaiting = FALSE
  /\ finishedEvent = Off /\ waitingEvent = Off /\ canWrite = Off
  /\ cs = Nobody /\ closeThreads = FALSE /\ streamWasFinished = FALSE
  /\ nextBlockIndex = 0 /\ result = "OK"
  /\ size = 0 /\ taken = 0 /\ out = <<>> /\ crc = <<>> /\ failed = {}

\* A fault of kind f happens.
Fault(f) == f \in Faults /\ failed' = failed \cup {f}

-----------------------------------------------------------------------------
(* The caller: CEncoder::Code and the destructor *)

Call ==
  /\ mpc = "idle" /\ calls < NumCalls /\ ret = "OK"
  /\ calls' = calls + 1 /\ size' \in Sizes
  /\ taken' = 0 /\ out' = <<>> /\ crc' = <<>> /\ failed' = {}
  /\ canProcess' = FALSE /\ canStartWaiting' = FALSE
  /\ mpc' = IF MtMode /\ pc[0] = "none" THEN "create" ELSE "start"
  /\ idx' = 0
  /\ UNCHANGED <<numThreads, ret, threadVars, finishedEvent, waitingEvent, canWrite,
                 sharedVars>>

CreateThread ==
  /\ mpc = "create" /\ idx < numThreads
  /\ pc' = [pc EXCEPT ![idx] = "canProcess"] /\ idx' = idx + 1
  /\ UNCHANGED <<numThreads, mpc, calls, ret, block, blockIndex, res, eventVars,
                 sharedVars, streamVars>>

Created ==
  /\ mpc = "create" /\ idx = numThreads
  /\ mpc' = "start" /\ idx' = 0
  /\ UNCHANGED <<numThreads, calls, ret, threadVars, eventVars, sharedVars, streamVars>>

\* CEncoder::Free: the threads there are find CloseThreads set.
Free(answer) ==
  /\ closeThreads' = TRUE /\ canProcess' = TRUE
  /\ mpc' = "join" /\ idx' = 0 /\ ret' = answer
  /\ UNCHANGED <<numThreads, calls, threadVars, canStartWaiting, finishedEvent,
                 waitingEvent, canWrite, cs, streamWasFinished, nextBlockIndex, result>>

CreateFails == mpc = "create" /\ idx < numThreads /\ Fault("MEM") /\ Free("MEM")
               /\ UNCHANGED <<size, taken, out, crc>>

Destroy == mpc = "idle" /\ Free(ret) /\ UNCHANGED streamVars

Join ==
  /\ mpc = "join"
  /\ \A t \in Threads : pc[t] \in {"none", "ended"}
  /\ mpc' = "gone"
  /\ UNCHANGED <<numThreads, idx, calls, ret, threadVars, eventVars, sharedVars,
                 streamVars>>

\* A buffer of a thread or of a stream cannot be allocated.
AllocFails ==
  /\ mpc = "start" /\ Fault("MEM")
  /\ ret' = "MEM" /\ mpc' = "idle"
  /\ UNCHANGED <<numThreads, idx, calls, threadVars, eventVars, sharedVars, size, taken,
                 out, crc>>

\* CanWriteEvent of the ring's places: the last block of the call before has left the
\* event of the next place set.  Mutant: without the reset.
FirstPlaceToo == IF MtMode THEN [canWrite EXCEPT ![0] = TRUE] ELSE Off
FirstPlace    == IF MtMode THEN [Off EXCEPT ![0] = TRUE] ELSE Off

Start ==
  /\ mpc = "start"
  /\ finishedEvent' = Off /\ waitingEvent' = Off /\ canWrite' = FirstPlace
  /\ nextBlockIndex' = 0 /\ streamWasFinished' = FALSE /\ closeThreads' = FALSE
  /\ canStartWaiting' = FALSE
  /\ result' = IF MtMode THEN "OK" ELSE result
  /\ canProcess' = MtMode
  /\ mpc' = (IF MtMode THEN "gather" ELSE "single") /\ idx' = 0
  /\ UNCHANGED <<numThreads, calls, ret, threadVars, cs, streamVars>>

\* StreamWasFinishedEvent.Lock of every thread
Gather ==
  /\ mpc = "gather" /\ idx < numThreads /\ finishedEvent[idx]
  /\ finishedEvent' = [finishedEvent EXCEPT ![idx] = FALSE] /\ idx' = idx + 1
  /\ UNCHANGED <<numThreads, mpc, calls, ret, threadVars, canProcess, canStartWaiting,
                 waitingEvent, canWrite, sharedVars, streamVars>>

\* Mutant: the door for the next round stays open during the rendezvous.
GatheredOpen ==
  /\ mpc = "gather" /\ idx = numThreads
  /\ mpc' = "release"
  /\ UNCHANGED <<numThreads, idx, calls, ret, threadVars, eventVars, sharedVars, streamVars>>

Gathered ==
  /\ mpc = "gather" /\ idx = numThreads
  /\ canProcess' = FALSE /\ mpc' = "release"
  /\ UNCHANGED <<numThreads, idx, calls, ret, threadVars, canStartWaiting,
                 finishedEvent, waitingEvent, canWrite, sharedVars, streamVars>>

Release ==
  /\ mpc = "release" /\ canStartWaiting' = TRUE
  /\ mpc' = "drain" /\ idx' = 0
  /\ UNCHANGED <<numThreads, calls, ret, threadVars, canProcess, finishedEvent,
                 waitingEvent, canWrite, sharedVars, streamVars>>

\* WaitingWasStartedEvent.Lock of every thread
Drain ==
  /\ mpc = "drain" /\ idx < numThreads /\ waitingEvent[idx]
  /\ waitingEvent' = [waitingEvent EXCEPT ![idx] = FALSE] /\ idx' = idx + 1
  /\ UNCHANGED <<numThreads, mpc, calls, ret, threadVars, canProcess, canStartWaiting,
                 finishedEvent, canWrite, sharedVars, streamVars>>

Drained ==
  /\ mpc = "drain" /\ idx = numThreads
  /\ canStartWaiting' = FALSE
  /\ ret' = result /\ mpc' = IF result = "OK" THEN "footer" ELSE "idle"
  /\ UNCHANGED <<numThreads, idx, calls, threadVars, canProcess, finishedEvent,
                 waitingEvent, canWrite, sharedVars, streamVars>>

\* One turn of the loop of an encoder with one thread
SingleBlock ==
  /\ mpc = "single" /\ taken < size
  /\ taken' = taken + 1 /\ crc' = Append(crc, taken')
  /\ \/ out' = Append(out, taken') /\ UNCHANGED <<mpc, ret, failed>>
     \/ \E f \in {"WRITE", "ABORT"} :
          /\ Fault(f) /\ ret' = f /\ mpc' = "idle"
          /\ out' = IF f = "ABORT" THEN Append(out, taken') ELSE out
  /\ UNCHANGED <<numThreads, idx, calls, threadVars, eventVars, sharedVars, size>>

SingleReadFails ==
  /\ mpc = "single" /\ Fault("READ") /\ ret' = "READ" /\ mpc' = "idle"
  /\ UNCHANGED <<numThreads, idx, calls, threadVars, eventVars, sharedVars, size, taken,
                 out, crc>>

SingleEnd ==
  /\ mpc = "single" /\ taken = size /\ mpc' = "footer" /\ ret' = "OK"
  /\ UNCHANGED <<numThreads, idx, calls, threadVars, eventVars, sharedVars, streamVars>>

\* The end mark, the combined CRC and Flush.  CInBuffer::WasFinished is true here.
Footer ==
  /\ mpc = "footer" /\ mpc' = "idle"
  /\ \/ ret' = "OK" /\ UNCHANGED failed
     \/ ret' = "WRITE" /\ Fault("WRITE")
  /\ UNCHANGED <<numThreads, idx, calls, threadVars, eventVars, sharedVars, size, taken,
                 out, crc>>

Caller ==
  \/ CreateThread \/ Created \/ CreateFails \/ Destroy \/ Join \/ AllocFails \/ Start
  \/ Gather \/ Gathered \/ Release \/ Drain \/ Drained
  \/ SingleBlock \/ SingleReadFails \/ SingleEnd \/ Footer

-----------------------------------------------------------------------------
(* CThreadInfo::ThreadFunc of thread t *)

At(t, p)   == t \in Threads /\ pc[t] = p
GoTo(t, p) == pc' = [pc EXCEPT ![t] = p]

\* CThreadInfo::FinishStream, up to the wait for canStartWaiting; it leaves the
\* critical section if the thread is in it.
FinishStream(t) ==
  /\ streamWasFinished' = TRUE
  /\ finishedEvent' = [finishedEvent EXCEPT ![t] = TRUE]
  /\ cs' = IF cs = t THEN Nobody ELSE cs
  /\ GoTo(t, "finished")

PassCanProcess(t) ==
  /\ At(t, "canProcess") /\ canProcess /\ GoTo(t, "enter")
  /\ UNCHANGED <<numThreads, callerVars, block, blockIndex, res, eventVars, sharedVars,
                 streamVars>>

Enter(t) ==
  /\ At(t, "enter") /\ cs = Nobody /\ cs' = t /\ GoTo(t, "inside")
  /\ UNCHANGED <<numThreads, callerVars, block, blockIndex, res, eventVars, closeThreads,
                 streamWasFinished, nextBlockIndex, result, streamVars>>

ThreadEnds(t) ==
  /\ At(t, "inside") /\ closeThreads /\ cs' = Nobody /\ GoTo(t, "ended")
  /\ UNCHANGED <<numThreads, callerVars, block, blockIndex, res, eventVars, closeThreads,
                 streamWasFinished, nextBlockIndex, result, streamVars>>

SeesFinished(t) ==
  /\ At(t, "inside") /\ ~closeThreads /\ streamWasFinished /\ FinishStream(t)
  /\ UNCHANGED <<numThreads, callerVars, block, blockIndex, res, canProcess,
                 canStartWaiting, waitingEvent, canWrite, closeThreads, nextBlockIndex,
                 result, streamVars>>

\* The thread may look at streamWasFinished before another thread sets it outside of
\* the critical section, and read afterwards.
LooksAtEnd(t) ==
  /\ At(t, "inside") /\ ~closeThreads /\ ~streamWasFinished /\ GoTo(t, "read")
  /\ UNCHANGED <<numThreads, callerVars, block, blockIndex, res, eventVars, sharedVars,
                 streamVars>>

TakeIndex(t) ==
  /\ blockIndex' = [blockIndex EXCEPT ![t] = nextBlockIndex]
  /\ nextBlockIndex' = Next1(nextBlockIndex)

ReadBlock(t) ==
  /\ At(t, "read") /\ taken < size
  /\ taken' = taken + 1 /\ block' = [block EXCEPT ![t] = taken']
  /\ TakeIndex(t) /\ cs' = Nobody /\ GoTo(t, "encode")
  /\ UNCHANGED <<numThreads, callerVars, res, eventVars, closeThreads,
                 streamWasFinished, result, size, out, crc, failed>>

ReadEnd(t) ==
  /\ At(t, "read") /\ taken = size /\ TakeIndex(t) /\ FinishStream(t)
  /\ UNCHANGED <<numThreads, callerVars, block, res, canProcess, canStartWaiting,
                 waitingEvent, canWrite, closeThreads, result, streamVars>>

ReadFails(t) ==
  /\ At(t, "read") /\ Fault("READ") /\ result' = "READ" /\ FinishStream(t)
  /\ UNCHANGED <<numThreads, callerVars, block, blockIndex, res, canProcess,
                 canStartWaiting, waitingEvent, canWrite, closeThreads, nextBlockIndex,
                 size, taken, out, crc>>

\* EncodeBlock3 up to the return of CanWriteEvent.Lock
TakeTurn(t) ==
  /\ At(t, "encode") /\ canWrite[blockIndex[t]]
  /\ canWrite' = [canWrite EXCEPT ![blockIndex[t]] = FALSE] /\ GoTo(t, "write")
  /\ UNCHANGED <<numThreads, callerVars, block, blockIndex, res, canProcess,
                 canStartWaiting, finishedEvent, waitingEvent, sharedVars, streamVars>>

Combine(t) == crc' = Append(crc, block[t])

Write(t) ==
  /\ At(t, "write") /\ Combine(t) /\ out' = Append(out, block[t])
  /\ GoTo(t, "report")
  /\ UNCHANGED <<numThreads, callerVars, block, blockIndex, res, eventVars, sharedVars,
                 size, taken, failed>>

\* COutBuffer throws when a full buffer cannot be written: the rest of EncodeBlock3,
\* the event of the next place included, is left out.
WriteFails(t) ==
  /\ At(t, "write") /\ Combine(t) /\ Fault("WRITE")
  /\ res' = [res EXCEPT ![t] = "WRITE"] /\ GoTo(t, "failed")
  /\ UNCHANGED <<numThreads, callerVars, block, blockIndex, eventVars, sharedVars,
                 size, taken, out>>

WakeNext(t) == canWrite' = [canWrite EXCEPT ![Next1(blockIndex[t])] = TRUE]

\* SetRatioInfo may ask to stop; the next place is woken even then.
Report(t) ==
  /\ At(t, "report") /\ WakeNext(t)
  /\ \/ GoTo(t, "canProcess") /\ UNCHANGED <<res, failed>>
     \/ Fault("ABORT") /\ res' = [res EXCEPT ![t] = "ABORT"] /\ GoTo(t, "failed")
  /\ UNCHANGED <<numThreads, callerVars, block, blockIndex, canProcess, canStartWaiting,
                 finishedEvent, waitingEvent, sharedVars, size, taken, out, crc>>

\* Result is written without a lock; the last thread that fails wins.
Failed(t) ==
  /\ At(t, "failed") /\ result' = res[t] /\ FinishStream(t)
  /\ UNCHANGED <<numThreads, callerVars, block, blockIndex, res, canProcess,
                 canStartWaiting, waitingEvent, canWrite, closeThreads, nextBlockIndex,
                 streamVars>>

\* The second half of FinishStream.  What the thread held is forgotten.
StartWaiting(t) ==
  /\ At(t, "finished") /\ canStartWaiting
  /\ waitingEvent' = [waitingEvent EXCEPT ![t] = TRUE] /\ GoTo(t, "canProcess")
  /\ block' = [block EXCEPT ![t] = 0] /\ blockIndex' = [blockIndex EXCEPT ![t] = 0]
  /\ res' = [res EXCEPT ![t] = "OK"]
  /\ UNCHANGED <<numThreads, callerVars, canProcess, canStartWaiting, finishedEvent,
                 canWrite, sharedVars, streamVars>>

Thread(t) ==
  \/ PassCanProcess(t) \/ Enter(t) \/ ThreadEnds(t) \/ SeesFinished(t) \/ LooksAtEnd(t)
  \/ ReadBlock(t) \/ ReadEnd(t) \/ ReadFails(t) \/ TakeTurn(t) \/ Write(t)
  \/ WriteFails(t) \/ Report(t) \/ Failed(t) \/ StartWaiting(t)

\* The encoder is gone.
Stopped == mpc = "gone" /\ UNCHANGED vars

Next == Call \/ Caller \/ (\E t \in Threads : Thread(t)) \/ Stopped

AnyThread == UNION {0 .. n - 1 : n \in ThreadCounts}

\* A step a thread or the caller inside Code can do is done some time; the faults are
\* the environment's, and so is the next call.
Fairness == WF_vars(Caller) /\ \A t \in AnyThread : WF_vars(Thread(t))
Spec == Init /\ [][Next]_vars /\ Fairness

-----------------------------------------------------------------------------
Places == {"none", "canProcess", "enter", "inside", "read", "encode", "write", "report",
           "failed", "finished", "ended"}
CallerPlaces == {"idle", "create", "start", "gather", "release", "drain", "single",
                 "footer", "join", "gone"}

CallerTypes ==
  /\ mpc \in CallerPlaces /\ idx \in 0 .. numThreads /\ calls \in Nat
  /\ ret \in FaultKinds \cup {"OK"}
ThreadTypes ==
  /\ pc \in [Threads -> Places] /\ block \in [Threads -> Nat]
  /\ blockIndex \in [Threads -> Threads] /\ res \in [Threads -> FaultKinds \cup {"OK"}]
EventTypes ==
  /\ canProcess \in BOOLEAN /\ canStartWaiting \in BOOLEAN
  /\ finishedEvent \in [Threads -> BOOLEAN] /\ waitingEvent \in [Threads -> BOOLEAN]
  /\ canWrite \in [Threads -> BOOLEAN]
SharedTypes ==
  /\ cs \in Threads \cup {Nobody} /\ nextBlockIndex \in Threads
  /\ closeThreads \in BOOLEAN /\ streamWasFinished \in BOOLEAN
  /\ result \in FaultKinds \cup {"OK"}
StreamTypes ==
  /\ size \in Nat /\ taken \in Nat /\ out \in Seq(Nat) /\ crc \in Seq(Nat)
  /\ failed \subseteq FaultKinds

\* Every variable stays within its type.
TypeOK ==
  /\ numThreads \in ThreadCounts
  /\ CallerTypes /\ ThreadTypes /\ EventTypes /\ SharedTypes /\ StreamTypes

InCall == mpc \notin {"idle", "join", "gone"}

\* However the threads interleave, at every moment the output is the first blocks of
\* the input in their order and the combined CRC is made of the same blocks (one
\* more after a failed write); S_OK is returned just when nothing failed and all
\* blocks are there, and an error that is returned is one that happened.
StreamIsWhole ==
  /\ out = [i \in 1 .. Len(out) |-> i]
  /\ \/ crc = out
     \/ crc = Append(out, Len(out) + 1) /\ "WRITE" \in failed
  /\ mpc = "idle" /\ calls > 0 =>
       IF ret = "OK" THEN failed = {} /\ Len(out) = size /\ crc = out
                     ELSE ret \in failed

\* A write failed while another thread holds a later block: that thread waits for an
\* event that nobody will set.
BlockLeftBehind == "WRITE" \in failed /\ \E t \in Threads : pc[t] = "encode"

\* The calls end and the threads are joined, in whatever way reading and writing fail
\* and however often the events are used again, unless a block is left behind a
\* failed write.
OnlyLeftBlocksHang == (InCall \/ mpc = "join") ~> (mpc \in {"idle", "gone"} \/ BlockLeftBehind)

\* "It can be error code received from inStream or outStream function" (ICoder.h):
\* Code returns, also when a write fails.
EveryCallReturns == InCall ~> ~InCall
=============================================================================
