------------------------------ MODULE MtCoder ------------------------------
(***************************************************************************)
(* The multithreaded block encoder of C/MtCoder.c, used by the LZMA2 and   *)
(* xz encoders.  Threads take turns reading one input block each (the      *)
(* token is readEvent), encode in parallel into a buffer from a shared     *)
(* pool, and write in input order: block k goes through slot k modulo      *)
(* NumBlocksMax, and the thread whose slot is writeIndex becomes the       *)
(* writer and drains every slot that became ready behind it.               *)
(*                                                                         *)
(* A block of input is represented by its number, and an output buffer by  *)
(* the number of the block encoded in it.  Calls on valid synchronization  *)
(* objects do not fail; reading (or the allocation of the input buffer),   *)
(* thread creation, Code and Write may, as Faults says.                    *)
(***************************************************************************)
EXTENDS Integers, Sequences, FiniteSets

CONSTANTS
  ThreadsMax,       \* MTCODER_THREADS_MAX
  NumThreads,       \* numThreadsMax, as capped by MtCoder_Code
  SizeClass,        \* how many of the three blockSize thresholds hold: 0 .. 3
  Inputs,           \* Inputs[c] is the number of the last block of call c
  ExpectedBlocks,   \* expectedDataSize in blocks, or -1 when it is unknown
  Faults            \* which of "read", "create", "code", "write" may fail

ASSUME ConstantsAssumption ==
  /\ ThreadsMax \in Nat \ {0}
  /\ NumThreads \in 1 .. ThreadsMax
  /\ SizeClass \in 0 .. 3
  /\ Inputs \in Seq(Nat)
  /\ ExpectedBlocks \in Nat \cup {-1}
  /\ Faults \subseteq {"read", "create", "code", "write"}

NumBlocksFromThreads(n) == n + n \div 8 + 1

BlocksMax == NumBlocksFromThreads(ThreadsMax) + 3      \* MTCODER_BLOCKS_MAX

NumBlocksMax ==
  LET n == NumBlocksFromThreads(NumThreads) + SizeClass
  IN  IF n > BlocksMax THEN BlocksMax ELSE n

Threads == 0 .. NumThreads - 1
Slots   == 0 .. NumBlocksMax - 1
Buffers == 0 .. BlocksMax - 1
None    == -1                                            \* (unsigned)(int)-1
Results == {"OK", "READ", "THREAD", "CODE", "WRITE"}

VARIABLES
  mpc,            \* where the calling thread is in MtCoder_Code or MtCoder_Free
  call,           \* calls of MtCoder_Code made so far
  result,         \* what the last call returned
  freeIdx,        \* the loop counter of MtCoder_Free
  destroyed,      \* whether MtCoder_Destruct was called
  pc,             \* where each worker thread is; "none" before it is created
  local,          \* the local variables of each worker thread
  startEvent, stop,                    \* CMtCoderThread
  readEvent, finishedEvent, semaphore, \* the shared synchronization objects
  nextBlock,      \* readProcessed, in blocks
  readRes, writeRes, progressRes,
  stopReading, blockIndex, numStarted, numFinished,
  writeIndex, readyBlocks, blocks,     \* the ring of slots
  freeBlocks,     \* the free list of output buffers, its head first
  outBuf,         \* the number of the block encoded in each buffer
  written         \* the blocks passed to the Write callback, in order

callVars   == <<call, result, freeIdx, destroyed>>
eventVars  == <<startEvent, stop, readEvent, finishedEvent, semaphore>>
resVars    == <<readRes, writeRes, progressRes>>
readerVars == <<nextBlock, stopReading, blockIndex, numStarted>>
ringVars   == <<writeIndex, readyBlocks, blocks>>
bufVars    == <<freeBlocks, outBuf, written>>
vars == <<mpc, callVars, pc, local, eventVars, resVars, readerVars,
          numFinished, ringVars, bufVars>>

NewLocal == [res |-> "OK", block |-> 0, bi |-> 0, wi |-> 0, bufIndex |-> None,
             finished |-> FALSE, isReady |-> FALSE, numFinished |-> 0]

NoBlock == [res |-> "OK", bufIndex |-> None, finished |-> FALSE]

LastBlock == Inputs[call]

\* Mutant: the ring index wraps one slot too early.
EarlyWrap(i) == IF i + 2 >= NumBlocksMax THEN 0 ELSE i + 1
NextSlot(i)  == IF i + 1 >= NumBlocksMax THEN 0 ELSE i + 1

\* MtProgress_SetError: the first error stays.  Mutant: the error is dropped.
DropError(r) == progressRes' = progressRes
SetError(r)  == progressRes' = IF progressRes = "OK" THEN r ELSE progressRes

\* What Event_Wait leaves of an auto-reset event.  Mutant: manual reset.
ManualReset == TRUE
AutoReset   == FALSE

\* The count the semaphore starts with.
InitialPermits == NumBlocksMax

Init ==
  /\ mpc = "ready"
  /\ call = 0
  /\ result = "OK"
  /\ freeIdx = 0
  /\ destroyed = FALSE
  /\ pc = [t \in Threads |-> "none"]
  /\ local = [t \in Threads |-> NewLocal]
  /\ startEvent = [t \in Threads |-> FALSE]
  /\ stop = [t \in Threads |-> FALSE]
  /\ readEvent = FALSE
  /\ finishedEvent = FALSE
  /\ semaphore = 0
  /\ nextBlock = 0
  /\ readRes = "OK" /\ writeRes = "OK" /\ progressRes = "OK"
  /\ stopReading = FALSE
  /\ blockIndex = 0
  /\ numStarted = 0
  /\ numFinished = 0
  /\ writeIndex = 0
  /\ readyBlocks = [s \in Slots |-> FALSE]
  /\ blocks = [s \in Slots |-> NoBlock]
  /\ freeBlocks = <<>>
  /\ outBuf = [b \in Buffers |-> 0]
  /\ written = <<>>

-----------------------------------------------------------------------------
(* The calling thread: MtCoder_Code *)

\* Mutant: a second call goes on in the ring where the first one stopped.
SameSlot  == blockIndex
FirstSlot == 0

\* Everything MtCoder_Code resets before it starts the first thread.
MainInit ==
  /\ mpc = "ready"
  /\ call < Len(Inputs)
  /\ call' = call + 1
  /\ mpc' = "create"
  /\ readRes' = "OK" /\ writeRes' = "OK" /\ progressRes' = "OK"
  /\ finishedEvent' = FALSE
  /\ readEvent' = FALSE
  /\ semaphore' = InitialPermits
  /\ freeBlocks' = [i \in 1 .. BlocksMax |-> i - 1]
  /\ nextBlock' = 0
  /\ blockIndex' = FirstSlot
  /\ stopReading' = FALSE
  /\ writeIndex' = 0
  /\ readyBlocks' = [s \in Slots |-> FALSE]
  /\ numFinished' = 0
  /\ numStarted' = 1
  /\ written' = <<>>
  /\ UNCHANGED <<result, freeIdx, destroyed, pc, local, startEvent, stop, blocks, outBuf>>

\* MtCoderThread_CreateAndStart: a thread that exists is only woken up.
CreateAndStart(t) ==
  /\ startEvent' = [startEvent EXCEPT ![t] = TRUE]
  /\ stop' = [stop EXCEPT ![t] = FALSE]

MainCreate ==
  /\ mpc = "create"
  /\ \/ /\ CreateAndStart(0)
        /\ pc' = [pc EXCEPT ![0] = IF @ = "none" THEN "idle" ELSE @]
        /\ mpc' = "kick"
        /\ UNCHANGED result
     \/ /\ "create" \in Faults
        /\ pc[0] = "none"
        /\ mpc' = "ready"
        /\ result' = "THREAD"
        /\ UNCHANGED <<pc, startEvent, stop>>
  /\ UNCHANGED <<call, freeIdx, destroyed, local, readEvent, finishedEvent, semaphore,
                 resVars, readerVars, numFinished, ringVars, bufVars>>

MainKick ==
  /\ mpc = "kick"
  /\ readEvent' = TRUE
  /\ mpc' = "wait"
  /\ UNCHANGED <<callVars, pc, local, startEvent, stop, finishedEvent,
                 semaphore, resVars, readerVars, numFinished, ringVars, bufVars>>

MainWake ==
  /\ mpc = "wait"
  /\ finishedEvent
  /\ finishedEvent' = AutoReset
  /\ mpc' = "collect"
  /\ UNCHANGED <<callVars, pc, local, startEvent, stop, readEvent, semaphore,
                 resVars, readerVars, numFinished, ringVars, bufVars>>

FinalResult == IF readRes # "OK" THEN readRes
               ELSE IF progressRes # "OK" THEN progressRes ELSE writeRes

MainCollect ==
  /\ mpc = "collect"
  /\ result' = FinalResult
  /\ mpc' = IF result' = "OK" THEN "ready" ELSE "free"
  /\ freeIdx' = 0
  /\ UNCHANGED <<call, destroyed, pc, local, eventVars, resVars, readerVars, numFinished,
                 ringVars, bufVars>>

(* MtCoder_Destruct and MtCoder_Free *)

MainDestruct ==
  /\ mpc = "ready"
  /\ destroyed' = TRUE
  /\ mpc' = "free"
  /\ freeIdx' = 0
  /\ UNCHANGED <<call, result, pc, local, eventVars, resVars, readerVars,
                 numFinished, ringVars, bufVars>>

MainFree ==
  /\ mpc = "free"
  /\ freeIdx < NumThreads
  /\ IF pc[freeIdx] = "none"
     THEN /\ freeIdx' = freeIdx + 1
          /\ UNCHANGED <<mpc, startEvent, stop>>
     ELSE /\ stop' = [stop EXCEPT ![freeIdx] = TRUE]
          /\ startEvent' = [startEvent EXCEPT ![freeIdx] = TRUE]
          /\ mpc' = "join"
          /\ UNCHANGED freeIdx
  /\ UNCHANGED <<call, result, destroyed, pc, local, readEvent, finishedEvent, semaphore,
                 resVars, readerVars, numFinished, ringVars, bufVars>>

MainJoin ==
  /\ mpc = "join"
  /\ pc[freeIdx] = "dead"
  /\ pc' = [pc EXCEPT ![freeIdx] = "none"]
  /\ freeIdx' = freeIdx + 1
  /\ mpc' = "free"
  /\ UNCHANGED <<call, result, destroyed, local, eventVars, resVars, readerVars,
                 numFinished, ringVars, bufVars>>

MainFreed ==
  /\ mpc = "free"
  /\ freeIdx = NumThreads
  /\ mpc' = IF destroyed THEN "end" ELSE "ready"
  /\ UNCHANGED <<callVars, pc, local, eventVars, resVars, readerVars,
                 numFinished, ringVars, bufVars>>

-----------------------------------------------------------------------------
(* A worker thread: ThreadFunc *)

Goto(t, l) == pc' = [pc EXCEPT ![t] = l]

WaitStart(t) ==
  /\ pc[t] = "idle"
  /\ startEvent[t]
  /\ startEvent' = [startEvent EXCEPT ![t] = AutoReset]
  /\ Goto(t, IF stop[t] THEN "dead" ELSE "read")
  /\ UNCHANGED <<mpc, callVars, local, stop, readEvent, finishedEvent,
                 semaphore, resVars, readerVars, numFinished, ringVars, bufVars>>

CountExit(t) ==
  /\ pc[t] = "exit"
  /\ numFinished' = numFinished + 1
  /\ local' = [local EXCEPT ![t].numFinished = numFinished + 1]
  /\ Goto(t, "compare")
  /\ UNCHANGED <<mpc, callVars, eventVars, resVars, readerVars, ringVars,
                 bufVars>>

\* The comparison reads numStartedThreads outside any lock, after the increment.
\* Mutants: off by one; the count is compared with the limit.
AlmostOut(t) == local[t].numFinished + 1 >= numStarted
LimitOut(t)  == local[t].numFinished = NumThreads
AllOut(t)    == local[t].numFinished = numStarted

CompareExit(t) ==
  /\ pc[t] = "compare"
  /\ finishedEvent' = (finishedEvent \/ AllOut(t))
  /\ Goto(t, "idle")
  /\ UNCHANGED <<mpc, callVars, local, startEvent, stop, readEvent, semaphore,
                 resVars, readerVars, numFinished, ringVars, bufVars>>

(* ThreadFunc2, the part that holds readEvent *)

WaitRead(t) ==
  /\ pc[t] = "read"
  /\ readEvent
  /\ readEvent' = AutoReset
  /\ Goto(t, IF stopReading THEN "pass" ELSE "check")
  /\ UNCHANGED <<mpc, callVars, local, startEvent, stop, finishedEvent,
                 semaphore, resVars, readerVars, numFinished, ringVars, bufVars>>

PassOn(t) ==
  /\ pc[t] = "pass"
  /\ readEvent' = TRUE
  /\ Goto(t, "exit")
  /\ UNCHANGED <<mpc, callVars, local, startEvent, stop, finishedEvent,
                 semaphore, resVars, readerVars, numFinished, ringVars, bufVars>>

CheckError(t) ==
  /\ pc[t] = "check"
  /\ local' = [local EXCEPT ![t].res = progressRes, ![t].finished = TRUE,
                            ![t].bufIndex = None]
  /\ Goto(t, IF progressRes = "OK" THEN "fill" ELSE "acquire")
  /\ UNCHANGED <<mpc, callVars, eventVars, resVars, readerVars, numFinished,
                 ringVars, bufVars>>

ReadBlock(t) ==
  /\ pc[t] = "fill"
  /\ \/ /\ local' = [local EXCEPT ![t].block = nextBlock,
                                  ![t].finished = (nextBlock = LastBlock)]
        /\ nextBlock' = nextBlock + 1
        /\ UNCHANGED <<readRes, progressRes>>
     \/ /\ "read" \in Faults
        /\ local' = [local EXCEPT ![t].res = "READ"]
        /\ readRes' = "READ"
        /\ SetError("READ")
        /\ UNCHANGED nextBlock
  /\ Goto(t, "acquire")
  /\ UNCHANGED <<mpc, callVars, eventVars, writeRes, stopReading, blockIndex,
                 numStarted, numFinished, ringVars, bufVars>>

AcquireSlot(t) ==
  /\ pc[t] = "acquire"
  /\ semaphore > 0
  /\ semaphore' = semaphore - 1
  /\ Goto(t, "claim")
  /\ UNCHANGED <<mpc, callVars, local, startEvent, stop, readEvent,
                 finishedEvent, resVars, readerVars, numFinished, ringVars,
                 bufVars>>

ClaimSlot(t) ==
  LET r == IF local[t].res = "OK" THEN progressRes ELSE local[t].res
      f == local[t].finished \/ r # "OK"
  IN  /\ pc[t] = "claim"
      /\ blockIndex' = NextSlot(blockIndex)
      /\ local' = [local EXCEPT ![t].bi = blockIndex, ![t].res = r,
                                ![t].finished = f]
      /\ Goto(t, IF ~f /\ numStarted < NumThreads /\ ExpectedBlocks # nextBlock
                 THEN "spawn" ELSE "unlock")
      /\ UNCHANGED <<mpc, callVars, eventVars, resVars, nextBlock, stopReading,
                     numStarted, numFinished, ringVars, bufVars>>

Spawn(t) ==
  /\ pc[t] = "spawn"
  /\ \/ /\ CreateAndStart(numStarted)
        /\ pc' = [pc EXCEPT ![t] = "count",
                            ![numStarted] = IF @ = "none" THEN "idle" ELSE @]
        /\ UNCHANGED <<local, progressRes>>
     \/ /\ "create" \in Faults
        /\ pc[numStarted] = "none"
        /\ SetError("THREAD")
        /\ local' = [local EXCEPT ![t].res = "THREAD", ![t].finished = TRUE]
        /\ Goto(t, "unlock")
        /\ UNCHANGED <<startEvent, stop>>
  /\ UNCHANGED <<mpc, callVars, readEvent, finishedEvent, semaphore, readRes,
                 writeRes, readerVars, numFinished, ringVars, bufVars>>

CountStarted(t) ==
  /\ pc[t] = "count"
  /\ numStarted' = numStarted + 1
  /\ Goto(t, "unlock")
  /\ UNCHANGED <<mpc, callVars, local, eventVars, resVars, nextBlock,
                 stopReading, blockIndex, numFinished, ringVars, bufVars>>

UnlockRead(t) ==
  /\ pc[t] = "unlock"
  /\ stopReading' = (stopReading \/ local[t].finished)
  /\ readEvent' = TRUE
  /\ Goto(t, IF local[t].res = "OK" THEN "take" ELSE "record")
  /\ UNCHANGED <<mpc, callVars, local, startEvent, stop, finishedEvent,
                 semaphore, resVars, nextBlock, blockIndex, numStarted,
                 numFinished, ringVars, bufVars>>

(* ThreadFunc2, encoding *)

TakeBuffer(t) ==
  /\ pc[t] = "take"
  /\ freeBlocks # <<>>
  /\ local' = [local EXCEPT ![t].bufIndex = Head(freeBlocks)]
  /\ freeBlocks' = Tail(freeBlocks)
  /\ Goto(t, "code")
  /\ UNCHANGED <<mpc, callVars, eventVars, resVars, readerVars, numFinished,
                 ringVars, outBuf, written>>

\* The coder may fail by itself, or stop because MtProgress_ProgressAdd handed
\* it the error of another thread.
Code(t) ==
  /\ pc[t] = "code"
  /\ \E r \in {"OK", progressRes} \cup (IF "code" \in Faults THEN {"CODE"} ELSE {}) :
        /\ local' = [local EXCEPT ![t].res = r]
        /\ IF r = "OK" THEN UNCHANGED progressRes ELSE SetError(r)
  /\ outBuf' = [outBuf EXCEPT ![local[t].bufIndex] = local[t].block]
  /\ Goto(t, "record")
  /\ UNCHANGED <<mpc, callVars, eventVars, readRes, writeRes, readerVars,
                 numFinished, ringVars, freeBlocks, written>>

RecordBlock(t) ==
  /\ pc[t] = "record"
  /\ blocks' = [blocks EXCEPT ![local[t].bi] =
                  [res |-> local[t].res, bufIndex |-> local[t].bufIndex,
                   finished |-> local[t].finished]]
  /\ Goto(t, "publish")
  /\ UNCHANGED <<mpc, callVars, local, eventVars, resVars, readerVars,
                 numFinished, writeIndex, readyBlocks, bufVars>>

(* ThreadFunc2, writing *)

\* A thread goes on with the next block unless it met the end or an error.
Leaves(t) == local[t].finished \/ local[t].res # "OK"

MyTurn(t) == writeIndex = local[t].bi

BecomeWriter(t) ==
  /\ pc[t] = "publish"
  /\ MyTurn(t)
  /\ writeIndex' = None
  /\ local' = [local EXCEPT ![t].wi = local[t].bi,
                            ![t].res = IF writeRes # "OK" THEN writeRes ELSE @]
  /\ Goto(t, "write")
  /\ UNCHANGED <<mpc, callVars, eventVars, resVars, readerVars, numFinished,
                 readyBlocks, blocks, bufVars>>

LeaveReady(t) ==
  /\ pc[t] = "publish"
  /\ ~MyTurn(t)
  /\ readyBlocks' = [readyBlocks EXCEPT ![local[t].bi] = TRUE]
  /\ Goto(t, IF Leaves(t) THEN "exit" ELSE "read")
  /\ UNCHANGED <<mpc, callVars, local, eventVars, resVars, readerVars,
                 numFinished, writeIndex, blocks, bufVars>>

WriteBlock(t) ==
  /\ pc[t] = "write"
  /\ IF local[t].res = "OK" /\ local[t].bufIndex # None
     THEN \/ /\ written' = Append(written, outBuf[local[t].bufIndex])
             /\ UNCHANGED <<local, writeRes, progressRes>>
          \/ /\ "write" \in Faults
             /\ local' = [local EXCEPT ![t].res = "WRITE"]
             /\ writeRes' = "WRITE"
             /\ SetError("WRITE")
             /\ UNCHANGED written
     ELSE UNCHANGED <<local, writeRes, progressRes, written>>
  /\ Goto(t, "advance")
  /\ UNCHANGED <<mpc, callVars, eventVars, readRes, readerVars, numFinished,
                 ringVars, freeBlocks, outBuf>>

\* The critical section that gives the buffer back and either takes the next
\* slot, if it is ready, or leaves the role of writer to the owner of it.
\* Mutants: the buffer is lost; the role of writer is given up although the
\* next slot was taken.
LeakBuffer(b) == freeBlocks
GiveBack(b)   == IF b = None THEN freeBlocks ELSE <<b>> \o freeBlocks
GiveUpRole(next)     == next
NextWriteIndex(next) == IF readyBlocks[next] THEN writeIndex ELSE next

AdvanceWriter(t) ==
  LET next == NextSlot(local[t].wi) IN
  /\ pc[t] = "advance"
  /\ local' = [local EXCEPT ![t].wi = next, ![t].isReady = readyBlocks[next]]
  /\ freeBlocks' = GiveBack(local[t].bufIndex)
  /\ readyBlocks' = [readyBlocks EXCEPT ![next] = FALSE]
  /\ writeIndex' = NextWriteIndex(next)
  /\ Goto(t, "release")
  /\ UNCHANGED <<mpc, callVars, eventVars, resVars, readerVars, numFinished,
                 blocks, outBuf, written>>

Released(t) == semaphore + 1

ReleaseSlot(t) ==
  /\ pc[t] = "release"
  /\ semaphore' = Released(t)
  /\ Goto(t, IF local[t].isReady THEN "load"
             ELSE IF Leaves(t) THEN "exit" ELSE "read")
  /\ UNCHANGED <<mpc, callVars, local, startEvent, stop, readEvent,
                 finishedEvent, resVars, readerVars, numFinished, ringVars,
                 bufVars>>

LoadBlock(t) ==
  LET b == blocks[local[t].wi] IN
  /\ pc[t] = "load"
  /\ local' = [local EXCEPT ![t].res = IF @ = "OK" THEN b.res ELSE @,
                            ![t].bufIndex = b.bufIndex,
                            ![t].finished = b.finished]
  /\ Goto(t, "write")
  /\ UNCHANGED <<mpc, callVars, eventVars, resVars, readerVars, numFinished,
                 ringVars, bufVars>>

-----------------------------------------------------------------------------
Main ==
  \/ MainInit \/ MainCreate \/ MainKick \/ MainWake \/ MainCollect
  \/ MainDestruct \/ MainFree \/ MainJoin \/ MainFreed

Thread(t) ==
  \/ WaitStart(t) \/ CountExit(t) \/ CompareExit(t)
  \/ WaitRead(t) \/ PassOn(t) \/ CheckError(t) \/ ReadBlock(t)
  \/ AcquireSlot(t) \/ ClaimSlot(t) \/ Spawn(t) \/ CountStarted(t)
  \/ UnlockRead(t) \/ TakeBuffer(t) \/ Code(t) \/ RecordBlock(t)
  \/ BecomeWriter(t) \/ LeaveReady(t) \/ WriteBlock(t) \/ AdvanceWriter(t)
  \/ ReleaseSlot(t) \/ LoadBlock(t)

Terminated == mpc = "end" /\ UNCHANGED vars

Next == Main \/ (\E t \in Threads : Thread(t)) \/ Terminated

Spec == Init /\ [][Next]_vars

\* Every thread that can run is eventually scheduled.
FairSpec == Spec /\ WF_vars(Main) /\ \A t \in Threads : WF_vars(Thread(t))

-----------------------------------------------------------------------------
(* Properties *)

ReaderPcs == {"pass", "check", "fill", "acquire", "claim", "spawn", "count",
              "unlock"}
CoderPcs  == {"take", "code", "record", "publish"}
WriterPcs == {"write", "advance", "release", "load"}
RestPcs   == {"none", "idle", "dead", "exit", "compare", "read"}

Pcs       == ReaderPcs \cup CoderPcs \cup WriterPcs \cup RestPcs

LocalType == [res : Results, block : Nat, bi : Slots, wi : Slots,
              bufIndex : Buffers \cup {None}, finished : BOOLEAN,
              isReady : BOOLEAN, numFinished : Nat]
BlockType == [res : Results, bufIndex : Buffers \cup {None}, finished : BOOLEAN]

\* Type correctness of the whole state.
TypeOK ==
  /\ mpc \in {"ready", "create", "kick", "wait", "collect", "free", "join", "end"}
  /\ call \in 0 .. Len(Inputs) /\ result \in Results /\ destroyed \in BOOLEAN
  /\ freeIdx \in 0 .. NumThreads
  /\ mpc = "join" => freeIdx < NumThreads
  /\ pc \in [Threads -> Pcs]
  /\ local \in [Threads -> LocalType]
  /\ startEvent \in [Threads -> BOOLEAN] /\ stop \in [Threads -> BOOLEAN]
  /\ readEvent \in BOOLEAN /\ finishedEvent \in BOOLEAN /\ semaphore \in Nat
  /\ readRes \in Results /\ writeRes \in Results /\ progressRes \in Results
  /\ nextBlock \in Nat /\ stopReading \in BOOLEAN /\ blockIndex \in Slots
  /\ numStarted \in Nat /\ numFinished \in Nat
  /\ writeIndex \in Slots \cup {None}
  /\ readyBlocks \in [Slots -> BOOLEAN]
  /\ blocks \in [Slots -> BlockType]
  /\ freeBlocks \in Seq(Buffers)
  /\ outBuf \in [Buffers -> Nat]
  /\ written \in Seq(Nat)

Busy == mpc \in {"create", "kick", "wait", "collect"}

Complete == [i \in 1 .. LastBlock + 1 |-> i - 1]

(* MtCoder_Code answers SZ_OK exactly when every block of the input went to   *)
(* the Write callback once and in input order: no error is lost on its way    *)
(* through slots and writers, and no call returns while blocks are missing.   *)
OkIffComplete ==
  mpc = "ready" /\ call > 0 => (result = "OK" <=> written = Complete)

\* The slots whose block waits for a writer or has just been taken by one.
Pending(s) ==
  \/ readyBlocks[s]
  \/ \E t \in Threads : /\ pc[t] = "load" \/ (pc[t] = "release" /\ local[t].isReady)
                        /\ local[t].wi = s

Holds(t, b) ==
  /\ pc[t] \in {"code", "record", "publish", "write", "advance"}
  /\ local[t].bufIndex = b

(* An output buffer is at every moment in exactly one place: once on the free *)
(* list, with one thread, or in one slot.  So no coder overwrites a buffer    *)
(* that waits to be written, and none is lost on an error path.               *)
OneOwner ==
  call > 0 =>
    \A b \in Buffers :
      Cardinality({i \in DOMAIN freeBlocks : freeBlocks[i] = b})
      + Cardinality({t \in Threads : Holds(t, b)})
      + Cardinality({s \in Slots : Pending(s) /\ blocks[s].bufIndex = b}) = 1

\* A thread owns the slot it claimed until it releases it; a writer that took
\* the next ready slot owns that one too.
OwnsSlot(t) ==
  pc[t] \in {"claim", "spawn", "count", "unlock", "take", "code", "record",
             "publish", "write", "advance", "release", "load"}
OwnsNext(t) == pc[t] = "release" /\ local[t].isReady

(* Every slot is accounted for: available in the semaphore, ready, or with a  *)
(* thread.  So Semaphore_Release1 never exceeds the maximum count (which      *)
(* would end a thread with SZ_ERROR_THREAD), and no slot leaks.               *)
SlotsConserved ==
  call > 0 =>
    semaphore + Cardinality({s \in Slots : readyBlocks[s]})
      + Cardinality({t \in Threads : OwnsSlot(t)})
      + Cardinality({t \in Threads : OwnsNext(t)}) = NumBlocksMax

(* Buffers and slots together: what an error path of ThreadFunc2 forgets to   *)
(* give back, or gives back twice, is missing from one of the two sums.       *)
ResourcesKept == OneOwner /\ SlotsConserved

(* finishedEvent wakes the caller only when no thread is inside ThreadFunc2,  *)
(* although threads create each other and each counts its own exit.           *)
FinishedMeansDone ==
  finishedEvent => \A t \in Threads : pc[t] \in {"none", "idle", "dead", "compare"}

(* At most one thread at a time is between Event_Wait and Event_Set of        *)
(* readEvent, and none while the event is set: the stream and the reader's    *)
(* half of CMtCoder need no other lock.                                       *)
OneReader ==
  \A t \in Threads : pc[t] \in ReaderPcs =>
    /\ ~readEvent
    /\ \A u \in Threads \ {t} : pc[u] \notin ReaderPcs

\* A thread is the writer from the moment it takes writeIndex until it puts it
\* back.
Writing(t) ==
  \/ pc[t] \in {"write", "advance", "load"}
  \/ pc[t] = "release" /\ local[t].isReady

(* Only one thread at a time writes, and none while writeIndex names a slot. *)
OneWriter ==
  \A t \in Threads : Writing(t) =>
    /\ writeIndex = None
    /\ \A u \in Threads \ {t} : ~Writing(u)

(* A block that waits in its slot is left alone until a writer has loaded it, *)
(* although ring positions are reused.                                        *)
PendingStable ==
  [][\A s \in Slots : Pending(s) /\ Pending(s)' => blocks'[s] = blocks[s]]_vars

(* Every call returns and every join ends: no thread is left waiting for a   *)
(* slot, for readEvent or for startEvent, whatever fails.                     *)
EveryCallReturns == []<>(mpc \in {"ready", "end"})

(* The threads together do what one sequential encoder would: the refinement *)
(* of OrderedOutput.                                                          *)
Abstract == INSTANCE OrderedOutput WITH
  out    <- written,
  failed <- progressRes # "OK",
  status <- IF call = 0 THEN "new" ELSE IF Busy THEN "busy"
            ELSE IF result = "OK" THEN "ok" ELSE "failed"

ImplementsOrderedOutput == Abstract!Spec
=============================================================================
