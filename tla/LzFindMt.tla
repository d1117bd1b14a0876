------------------------------ MODULE LzFindMt ------------------------------
(***************************************************************************)
(* The multithreaded match finder of C/LzFindMt.c: the hash thread reads   *)
(* the input into a sliding window and hashes it, the tree (BT) thread     *)
(* searches matches, the LZ thread (the LZMA encoder) consumes them.  Each *)
(* pair of neighbours shares a CMtSync: a ring of blocks counted by two    *)
(* semaphores, two events to start and stop the producer, and a critical   *)
(* section that the consumer holds from one GetNextBlock to the next, so   *)
(* that the hash thread cannot move the window under it.                   *)
(*                                                                         *)
(* A byte is its position in the stream.  A block is the range of the      *)
(* positions it describes; hash values and matches are left out, and so    *)
(* are the normalisations that keep them in 32 bits.                       *)
(***************************************************************************)
EXTENDS Integers

CONSTANTS
  StreamSize,     \* how many bytes the input has
  NumHashBytes,   \* CMatchFinder::numHashBytes
  HistorySize,    \* the dictionary: how far back a match may start
  MatchMaxLen,
  HashBlockSize,  \* kMtHashBlockSize, in words: two of header, one per position
  HashNumBlocks,  \* kMtHashNumBlocks
  BtBlockSize,    \* kMtBtBlockSize, in words: two of header, one or more per position
  BtNumBlocks,    \* kMtBtNumBlocks
  MoveAlign,      \* kBlockMoveAlign
  NumEncodes,     \* how many times the encoder is used
  Faults          \* of "thread", "read", "data" and "stop"

ASSUME ConstantsAssumption ==
  /\ {StreamSize, NumEncodes} \subseteq Nat
  /\ {NumHashBytes, HistorySize, MatchMaxLen, MoveAlign, HashNumBlocks, BtNumBlocks}
       \subseteq Nat \ {0}
  /\ {HashBlockSize, BtBlockSize} \subseteq Nat \ 0 .. 2
  /\ Faults \subseteq {"thread", "read", "data", "stop"}

\* "lz" consumes what "bt" produces, "bt" consumes what "hash" produces.  A CMtSync
\* is named after its producer.
Threads     == {"lz", "bt", "hash"}
Syncs       == {"bt", "hash"}
Consumer(s) == IF s = "bt" THEN "lz" ELSE "bt"
NumBlocks(s) == IF s = "bt" THEN BtNumBlocks ELSE HashNumBlocks
Nobody      == "nobody"

Min(a, b) == IF a < b THEN a ELSE b

\* The window.  Mutant: without the room for what lies in the two rings.
NoKeepAdd      == 0
KeepAddBefore  == HashNumBlocks * HashBlockSize + BtNumBlocks * BtBlockSize
KeepSizeBefore == HistorySize + KeepAddBefore + 1
KeepAddAfter   == HashBlockSize + MatchMaxLen
KeepSizeAfter  == IF KeepAddAfter < NumHashBytes THEN NumHashBytes ELSE KeepAddAfter
BlockSize      == KeepSizeBefore + KeepSizeAfter + MoveAlign   \* GetBlockSize adds more

VARIABLES
  pc,       \* where each thread is
  sync,     \* the two CMtSync
  mf,       \* CMatchFinder: pos, buffer - bufBase, and what ReadBlock has found;
            \* base is the position of the byte at bufBase
  hashBuf, hashIndex,   \* the ring of hash blocks, and HashThreadFunc's blockIndex
  btBuf, btIndex,       \* the ring of tree blocks, and BtThreadFunc's blockIndex
  bt,       \* CMatchFinderMt, fields of the tree thread
  lz,       \* CMatchFinderMt, fields of the LZ thread
  offset,   \* the local variable of HashThreadFunc
  encodes, result       \* calls of LzmaEnc_Encode, and the result of the last one

vars == <<pc, sync, mf, hashBuf, hashIndex, btBuf, btIndex, bt, lz, offset, encodes, result>>

\* MatchFinder_Init_4
StartOfWindow == [pos |-> 0, ptr |-> 0, base |-> 0, streamPos |-> 0, end |-> FALSE, ok |-> TRUE]
NoBlock       == [first |-> -1, num |-> 0, avail |-> 0, failed |-> FALSE]

\* left: hashBufPosLimit - hashBufPos or btBufPosLimit - btBufPos; done: numProcessed.
StartOfBt == [pos |-> 0, ptr |-> 0, left |-> 0, avail |-> 0, failed |-> FALSE, done |-> 0]
StartOfLz == [pos |-> 0, ptr |-> 0, left |-> 0, avail |-> 0, failed |-> FALSE]

NewSync == [created |-> FALSE, needStart |-> FALSE, exit |-> FALSE, stopWriting |-> FALSE,
            numProcessed |-> 0, canStart |-> FALSE, wasStopped |-> FALSE,
            free |-> 0, filled |-> 0, cs |-> Nobody]

\* The rings before they are filled.
StaleRing(s) == [i \in 0 .. NumBlocks(s) - 1 |-> NoBlock]

Init ==
  /\ pc = [t \in Threads |-> IF t = "lz" THEN "idle" ELSE "none"]
  /\ sync = [s \in Syncs |-> NewSync]
  /\ mf = StartOfWindow
  /\ hashBuf = StaleRing("hash") /\ hashIndex = 0
  /\ btBuf = StaleRing("bt") /\ btIndex = 0
  /\ bt = StartOfBt /\ lz = StartOfLz
  /\ offset = 0
  /\ encodes = 0 /\ result = "none"

Goto(t, l)        == pc' = [pc EXCEPT ![t] = l]
Move(t, from, to) == pc[t] = from /\ Goto(t, to)

dataVars == <<mf, hashBuf, hashIndex, btBuf, btIndex, bt, lz, offset>>
runVars  == <<encodes, result>>

-----------------------------------------------------------------------------
(* CMtSync, called by the consumer *)

\* MtSync_GetNextBlock, when the producer is parked.  Mutant: exit keeps the value
\* it has had since MtSync_Create.
StillExit(y) == [y EXCEPT !.numProcessed = 1, !.needStart = FALSE, !.stopWriting = FALSE,
                          !.wasStopped = FALSE, !.canStart = TRUE]
Started(y)   == [y EXCEPT !.numProcessed = 1, !.needStart = FALSE, !.stopWriting = FALSE,
                          !.exit = FALSE, !.wasStopped = FALSE, !.canStart = TRUE]

NextStart(s) ==
  /\ sync[s].needStart
  /\ sync' = [sync EXCEPT ![s] = Started(@)]
  /\ Goto(Consumer(s), "filled")
  /\ UNCHANGED <<dataVars, runVars>>

\* MtSync_GetNextBlock, when the producer runs: the current block is freed.
NextFree(s) ==
  /\ ~sync[s].needStart
  /\ sync' = [sync EXCEPT ![s].cs = Nobody, ![s].numProcessed = @ + 1, ![s].free = @ + 1]
  /\ Goto(Consumer(s), "filled")
  /\ UNCHANGED <<dataVars, runVars>>

GetNextBlock(s) == NextStart(s) \/ NextFree(s)

FilledWait(s) ==
  /\ Move(Consumer(s), "filled", "lock")
  /\ sync[s].filled > 0
  /\ sync' = [sync EXCEPT ![s].filled = @ - 1]
  /\ UNCHANGED <<dataVars, runVars>>

\* The block that the consumer holds.
SlotOf(s) == (sync[s].numProcessed - 1) % NumBlocks(s)

\* MtSync_StopWriting.
StopRelease == 1

StopSkip(s) ==
  /\ Move(Consumer(s), "stop", "stopped")
  /\ ~sync[s].created \/ sync[s].needStart
  /\ UNCHANGED <<sync, dataVars, runVars>>

StopFlag(s) ==
  /\ Move(Consumer(s), "stop", "release")
  /\ sync[s].created /\ ~sync[s].needStart
  /\ sync' = [sync EXCEPT ![s].cs = IF @ = Consumer(s) THEN Nobody ELSE @,
                            ![s].stopWriting = TRUE]
  /\ UNCHANGED <<dataVars, runVars>>

StopReleaseFree(s) ==
  /\ Move(Consumer(s), "release", "waitstop")
  /\ sync' = [sync EXCEPT ![s].free = @ + StopRelease]
  /\ UNCHANGED <<dataVars, runVars>>

StopWait(s) ==
  /\ Move(Consumer(s), "waitstop", "stopped")
  /\ sync[s].wasStopped
  /\ sync' = [sync EXCEPT ![s].wasStopped = FALSE, ![s].needStart = TRUE]
  /\ UNCHANGED <<dataVars, runVars>>

SyncNext(s) ==
  FilledWait(s) \/ StopSkip(s) \/ StopFlag(s) \/ StopReleaseFree(s) \/ StopWait(s)

\* The producer, before and after its loop.
CanStart(s, to) ==
  /\ pc[s] = "wait"
  /\ sync[s].canStart
  /\ sync' = [sync EXCEPT ![s].canStart = FALSE]
  /\ Goto(s, IF sync[s].exit THEN "done" ELSE to)

FreeWait(s) ==
  /\ Move(s, "free", "check")
  /\ sync[s].free > 0
  /\ sync' = [sync EXCEPT ![s].free = @ - 1]
  /\ UNCHANGED <<dataVars, runVars>>

\* The released block is published.
Send(s) ==
  /\ Move(s, "send", "loop")
  /\ sync' = [sync EXCEPT ![s].filled = @ + 1]
  /\ UNCHANGED <<dataVars, runVars>>

SetStopped(s) ==
  /\ sync' = [sync EXCEPT ![s].wasStopped = TRUE]
  /\ Goto(s, "wait")
  /\ UNCHANGED <<dataVars, runVars>>

-----------------------------------------------------------------------------
(* HashThreadFunc *)

HashStart ==
  /\ CanStart("hash", "loop")
  /\ hashIndex' = 0
  /\ UNCHANGED <<mf, hashBuf, btBuf, btIndex, bt, lz, offset, runVars>>

\* MatchFinder_NeedMove
NeedMove == ~mf.end /\ mf.ok /\ BlockSize - mf.ptr <= KeepSizeAfter

\* The section that a move enters first.  Mutant: the LZ thread is forgotten.
HashOnly  == "hash"
FirstLock == "bt"

HashLoop ==
  /\ pc["hash"] = "loop"
  /\ Goto("hash", IF ~NeedMove THEN "free" ELSE IF FirstLock = "bt" THEN "enterBt" ELSE "enterHash")
  /\ UNCHANGED <<sync, dataVars, runVars>>

Enter(s, from, to) ==
  /\ Move("hash", from, to)
  /\ sync[s].cs = Nobody
  /\ sync' = [sync EXCEPT ![s].cs = "hash"]
  /\ UNCHANGED <<dataVars, runVars>>

\* MatchFinder_MoveBlock
HashMove ==
  LET gap == mf.ptr - KeepSizeBefore
      rem == gap % MoveAlign
  IN
  /\ Move("hash", "move", "adjust")
  /\ mf' = [mf EXCEPT !.ptr = KeepSizeBefore + rem, !.base = @ + gap - rem]
  /\ offset' = gap - rem
  /\ UNCHANGED <<sync, hashBuf, hashIndex, btBuf, btIndex, bt, lz, runVars>>

\* The pointers of the other threads follow.  Both sections are left.
HashAdjust ==
  /\ Move("hash", "adjust", "loop")
  /\ lz' = [lz EXCEPT !.ptr = @ - offset]
  /\ bt' = [bt EXCEPT !.ptr = @ - offset]
  /\ sync' = [s \in Syncs |-> [sync[s] EXCEPT !.cs = IF @ = "hash" THEN Nobody ELSE @]]
  /\ offset' = 0
  /\ UNCHANGED <<mf, hashBuf, hashIndex, btBuf, btIndex, runVars>>

\* The result of MatchFinder_ReadIfRequired: a read may stop as soon as there is
\* more than KeepSizeAfter, or fill the window; it may find the end, or fail, also after
\* a part of what is required was read.
MostRead  == Min(StreamSize, mf.base + BlockSize)
HasEnough == mf.streamPos - mf.pos > KeepSizeAfter
ReadIfRequired ==
  IF HasEnough \/ mf.end \/ ~mf.ok THEN {mf}
  ELSE (IF MostRead > mf.pos + KeepSizeAfter
        THEN {[mf EXCEPT !.streamPos = n] : n \in {mf.pos + KeepSizeAfter + 1, MostRead}}
        ELSE {[mf EXCEPT !.streamPos = MostRead, !.end = (MostRead = StreamSize)]})
       \cup (IF "read" \in Faults
              THEN {[mf EXCEPT !.streamPos = n, !.ok = FALSE] :
                   n \in mf.streamPos .. Min(MostRead, mf.pos + KeepSizeAfter)}
              ELSE {})

\* One block of hash values: how many positions it holds, and how far it moves pos.
HashBlock(m) ==
  LET avail == m.streamPos - m.pos IN
  [first |-> m.pos, avail |-> avail, failed |-> FALSE,
   num |-> IF avail < NumHashBytes THEN 0
           ELSE Min(avail - NumHashBytes + 1, HashBlockSize - 2)]
Step(h) == IF h.avail < NumHashBytes THEN h.avail ELSE h.num

HashFill ==
  /\ Move("hash", "check", "send")
  /\ ~sync["hash"].exit /\ ~sync["hash"].stopWriting
  /\ \E m \in ReadIfRequired :
       LET h == HashBlock(m) IN
       /\ hashBuf' = [hashBuf EXCEPT ![hashIndex % HashNumBlocks] = h]
       /\ mf' = [m EXCEPT !.pos = @ + Step(h), !.ptr = @ + Step(h)]
  /\ hashIndex' = hashIndex + 1
  /\ UNCHANGED <<sync, btBuf, btIndex, bt, lz, offset, runVars>>

HashStop ==
  /\ pc["hash"] = "check"
  /\ IF sync["hash"].exit
     THEN Goto("hash", "done") /\ UNCHANGED <<sync, dataVars, runVars>>
     ELSE sync["hash"].stopWriting /\ SetStopped("hash")

HashNext ==
  \/ HashStart \/ HashLoop \/ FreeWait("hash") \/ HashMove \/ HashAdjust
  \/ Enter("bt", "enterBt", "enterHash") \/ Enter("hash", "enterHash", "move")
  \/ HashFill \/ Send("hash") \/ HashStop

-----------------------------------------------------------------------------
(* BtThreadFunc *)

BtStart ==
  /\ CanStart("bt", "free")
  /\ btIndex' = 0
  /\ UNCHANGED <<mf, hashBuf, hashIndex, btBuf, bt, lz, offset, runVars>>

BtLoop ==
  /\ pc["bt"] = "loop"
  /\ Goto("bt", IF sync["bt"].exit THEN "done" ELSE "free")
  /\ UNCHANGED <<sync, dataVars, runVars>>

\* The test of stopWriting that lets the thread fill a block.
BtGoOn ==
  /\ Move("bt", "check", "fill")
  /\ ~sync["bt"].stopWriting
  /\ UNCHANGED <<sync, dataVars, runVars>>

\* BtFillBlock, up to the loop of BtGetMatches.
BtSlot == btIndex % BtNumBlocks
BtFillBlock ==
  /\ Move("bt", "fill", IF bt.failed THEN "filledUp" ELSE "match")
  /\ sync["hash"].needStart \/ sync["hash"].cs = Nobody
  /\ sync' = IF sync["hash"].needStart THEN sync ELSE [sync EXCEPT !["hash"].cs = "bt"]
  /\ btBuf' = [btBuf EXCEPT ![BtSlot] = [first |-> bt.pos, num |-> 0, avail |-> bt.avail,
                                         failed |-> bt.failed]]
  /\ bt' = [bt EXCEPT !.done = 0]
  /\ UNCHANGED <<mf, hashBuf, hashIndex, btIndex, lz, offset, runVars>>

\* GetMatchesSpecN_2 for one position.  The matches fill the block, at the latest
\* with one word per position.
BtMatch ==
  /\ pc["bt"] = "match" /\ bt.left > 0
  /\ bt' = [bt EXCEPT !.pos = @ + 1, !.ptr = @ + 1, !.left = @ - 1, !.avail = @ - 1, !.done = @ + 1]
  /\ btBuf' = [btBuf EXCEPT ![BtSlot].num = @ + 1]
  /\ \E full \in BOOLEAN :
       /\ btBuf[BtSlot].num + 1 = BtBlockSize - 2 => full
       /\ Goto("bt", IF full THEN "filledUp" ELSE "match")
  /\ UNCHANGED <<sync, mf, hashBuf, hashIndex, btIndex, lz, offset, runVars>>

\* GetMatchesSpecN_2 finds its tables inconsistent.
BtFailure ==
  /\ "data" \in Faults
  /\ pc["bt"] = "match" /\ bt.left > 0
  /\ bt' = [bt EXCEPT !.failed = TRUE]
  /\ btBuf' = [btBuf EXCEPT ![BtSlot].failed = TRUE]
  /\ Goto("bt", "filledUp")
  /\ UNCHANGED <<sync, mf, hashBuf, hashIndex, btIndex, lz, offset, runVars>>

BtGetNextBlock ==
  /\ pc["bt"] = "match" /\ bt.left = 0
  /\ GetNextBlock("hash")

\* How many bytes the tree block says are available at its first position.
AvailSum(h) == bt.done + h.avail

\* The end of MtSync_GetNextBlock in BtGetMatches, and what is made of the block.
BtTake ==
  LET h == hashBuf[SlotOf("hash")] IN
  /\ pc["bt"] = "lock"
  /\ sync["hash"].cs = Nobody
  /\ sync' = [sync EXCEPT !["hash"].cs = "bt"]
  /\ IF h.avail >= NumHashBytes
     THEN /\ bt' = [bt EXCEPT !.left = h.num, !.avail = h.avail]
          /\ btBuf' = [btBuf EXCEPT ![BtSlot].avail = AvailSum(h)]
          /\ Goto("bt", "match")
     ELSE /\ bt' = [bt EXCEPT !.left = 0, !.avail = 0]
          /\ btBuf' = [btBuf EXCEPT ![BtSlot].avail = AvailSum(h), ![BtSlot].num = @ + h.avail]
          /\ Goto("bt", "filledUp")
  /\ UNCHANGED <<mf, hashBuf, hashIndex, btIndex, lz, offset, runVars>>

\* The end of BtFillBlock.
BtFilled ==
  /\ Move("bt", "filledUp", "send")
  /\ sync' = [sync EXCEPT !["hash"].cs = Nobody]
  /\ btIndex' = btIndex + 1
  /\ UNCHANGED <<mf, hashBuf, hashIndex, btBuf, bt, lz, offset, runVars>>

\* Mutant: the hash thread is left running.
LeaveHash == "stopped"
StopHash  == "stop"

BtBreak ==
  /\ Move("bt", "check", StopHash)
  /\ sync["bt"].stopWriting
  /\ UNCHANGED <<sync, dataVars, runVars>>

BtStopped == pc["bt"] = "stopped" /\ SetStopped("bt")

BtNext ==
  \/ BtStart \/ BtLoop \/ FreeWait("bt") \/ BtGoOn \/ BtFillBlock \/ BtMatch \/ BtFailure
  \/ BtGetNextBlock \/ BtTake \/ BtFilled \/ Send("bt") \/ BtBreak \/ BtStopped
  \/ SyncNext("hash")

-----------------------------------------------------------------------------
(* The LZ thread: LzmaEnc_Encode around the match finder *)

\* MatchFinderMt_Create, which keeps the threads that exist.
Created == [NewSync EXCEPT !.created = TRUE, !.needStart = TRUE, !.exit = TRUE]
Create ==
  /\ pc["lz"] = "idle" /\ encodes < NumEncodes
  /\ encodes' = encodes + 1
  /\ \E failed \in {{}} \cup (IF "thread" \in Faults THEN {{"bt"}, Syncs} ELSE {}) :
       LET new == {s \in Syncs \ failed : ~sync[s].created} IN
       /\ \A s \in failed : ~sync[s].created
       /\ sync' = [s \in Syncs |-> IF s \in new THEN Created ELSE sync[s]]
       /\ pc' = [t \in Threads |-> IF t \in new THEN "wait"
                                   ELSE IF t = "lz" /\ failed = {} THEN "init" ELSE pc[t]]
       /\ result' = IF failed = {} THEN "none" ELSE "error"
  /\ UNCHANGED dataVars

\* MatchFinderMt_InitMt (MtSync_Init for each) and MatchFinderMt_Init.  What the last run left in the rings
\* is forgotten: no reader may depend on it.
InitMt ==
  /\ pc["lz"] = "init"
  /\ IF \A s \in Syncs : sync[s].needStart /\ sync[s].cs # Consumer(s)
     THEN /\ sync' = [s \in Syncs |-> [sync[s] EXCEPT !.free = NumBlocks(s), !.filled = 0]]
          /\ mf' = StartOfWindow /\ bt' = StartOfBt /\ lz' = StartOfLz
          /\ Goto("lz", "run")
          /\ UNCHANGED result
     ELSE /\ result' = "error"
          /\ Goto("lz", "stop")
          /\ UNCHANGED <<sync, mf, bt, lz>>
  /\ hashBuf' = StaleRing("hash") /\ btBuf' = StaleRing("bt")
  /\ UNCHANGED <<hashIndex, btIndex, offset, encodes>>

\* MatchFinderMt_GetNumAvailableBytes, when the block is used up.
LzGetNextBlock ==
  /\ pc["lz"] = "run"
  /\ lz.left = 0 /\ ~lz.failed
  /\ GetNextBlock("bt")

\* MatchFinderMt_GetNextBlock_Bt.  A failed block is not looked into, and replaced
\* by failureBuf for the rest of the run.
LzTake ==
  LET b == btBuf[SlotOf("bt")] IN
  /\ Move("lz", "lock", "use")
  /\ sync["bt"].cs = Nobody
  /\ sync' = [sync EXCEPT !["bt"].cs = "lz"]
  /\ lz' = [lz EXCEPT !.left = IF b.failed THEN 0 ELSE b.num, !.avail = b.avail,
                      !.failed = b.failed]
  /\ UNCHANGED <<mf, hashBuf, hashIndex, btBuf, btIndex, bt, offset, runVars>>

HasBlock == pc["lz"] = "use" \/ (pc["lz"] = "run" /\ (lz.left > 0 \/ lz.failed))

\* MatchFinderMt_GetMatches, or one round of MatchFinderMt_Skip.
LzGetMatches ==
  /\ HasBlock /\ lz.avail > 0
  /\ Goto("lz", "run")
  /\ lz' = [lz EXCEPT !.pos = @ + 1, !.ptr = @ + 1, !.avail = @ - 1,
                      !.left = IF lz.failed THEN 0 ELSE @ - 1]
  /\ UNCHANGED <<sync, mf, hashBuf, hashIndex, btBuf, btIndex, bt, offset, runVars>>

\* CheckErrors.  Mutant: an error of the input is not looked at.
IgnoresRead == ~lz.failed
NoErrors    == mf.ok /\ ~lz.failed

\* LzmaEnc_CodeOneBlock has no more input: Flush, then MatchFinderMt_ReleaseStream.
LzFlush ==
  /\ HasBlock /\ lz.avail = 0
  /\ Goto("lz", "stop")
  /\ result' = IF NoErrors THEN "ok" ELSE "error"
  /\ UNCHANGED <<sync, dataVars, encodes>>

\* CheckErrors has found an error in the middle of the input, or writing the output
\* or the progress callback has failed.
LzGivesUp ==
  /\ Move("lz", "run", "stop")
  /\ ~NoErrors \/ "stop" \in Faults
  /\ result' = "error"
  /\ UNCHANGED <<sync, dataVars, encodes>>

LzStopped ==
  /\ Move("lz", "stopped", IF result = "closing" THEN "exitBt" ELSE "idle")
  /\ UNCHANGED <<sync, dataVars, runVars>>

\* MatchFinderMt_Destruct: MatchFinderMt_ReleaseStream, then MtSync_Destruct for each.
Destruct ==
  /\ Move("lz", "idle", "stop")
  /\ result' = "closing"
  /\ UNCHANGED <<sync, dataVars, encodes>>

\* MtSync_Destruct, after a StopWriting that finds the thread parked.
ExitThread(s, from, to) ==
  /\ Move("lz", from, to)
  /\ sync' = IF sync[s].created
             THEN [sync EXCEPT ![s].exit = TRUE, ![s].canStart = TRUE] ELSE sync
  /\ UNCHANGED <<dataVars, runVars>>

JoinThread(s, from, to) ==
  /\ Move("lz", from, to)
  /\ sync[s].created => pc[s] = "done"
  /\ sync' = [sync EXCEPT ![s] = NewSync]
  /\ UNCHANGED <<dataVars, runVars>>

LzNext ==
  \/ Create \/ InitMt \/ LzGetNextBlock \/ LzTake \/ LzGetMatches \/ LzFlush
  \/ LzGivesUp \/ LzStopped \/ Destruct \/ SyncNext("bt")
  \/ ExitThread("bt", "exitBt", "joinBt") \/ JoinThread("bt", "joinBt", "exitHash")
  \/ ExitThread("hash", "exitHash", "joinHash") \/ JoinThread("hash", "joinHash", "destroyed")

-----------------------------------------------------------------------------
Destroyed == pc["lz"] = "destroyed" /\ UNCHANGED vars

Next == LzNext \/ BtNext \/ HashNext \/ Destroyed

\* Each thread runs until it returns or waits.
Fairness == WF_vars(LzNext) /\ WF_vars(BtNext) /\ WF_vars(HashNext)

Spec == Init /\ [][Next]_vars /\ Fairness

-----------------------------------------------------------------------------
(* Properties *)

\* Every variable has its type.  The count of a semaphore never passes the maximum
\* that Semaphore_OptCreateInit gave it: MtSync_StopWriting releases freeSemaphore
\* once more than there are blocks to free ("check semaphore count !!!"), and the
\* result of Semaphore_Release1 is ignored.
TypeOK ==
  /\ pc["lz"] \in {"idle", "init", "run", "filled", "lock", "use", "stop", "release", "waitstop",
                   "stopped", "exitBt", "joinBt", "exitHash", "joinHash", "destroyed"}
  /\ pc["bt"] \in {"none", "wait", "loop", "free", "check", "fill", "match", "filled", "lock", "filledUp",
                   "send", "stop", "release", "waitstop", "stopped", "done"}
  /\ pc["hash"] \in {"none", "wait", "loop", "free", "check", "enterBt", "enterHash", "move",
                     "adjust", "send", "done"}
  /\ \A s \in Syncs : /\ sync[s].free \in 0 .. NumBlocks(s)
                      /\ sync[s].filled \in 0 .. NumBlocks(s)
                      /\ sync[s].cs \in {Nobody, "hash", Consumer(s)}
  /\ mf.pos \in 0 .. StreamSize /\ mf.streamPos \in mf.pos .. StreamSize
  /\ result \in {"none", "ok", "error", "closing"}

\* While the LZ thread uses a block, its pointer points at its position although the
\* hash thread moves the window, the block describes that position, nothing a match
\* may refer to has been dropped from the window, and all the bytes that are said to
\* be available have been read.  If some are, the block has an item for them.
LzSeesItsBytes ==
  pc["lz"] \in {"use", "run"} /\ HasBlock /\ ~lz.failed =>
    LET b == btBuf[SlotOf("bt")] IN
    /\ lz.ptr + mf.base = lz.pos
    /\ lz.left > 0 => b.first + b.num - lz.left = lz.pos
    /\ mf.base <= 0 \/ mf.base <= lz.pos - HistorySize
    /\ lz.pos + lz.avail <= mf.streamPos
    /\ lz.avail > 0 => lz.left > 0

\* The same for the tree thread, which runs ahead of the LZ thread.
BtSeesItsBytes ==
  pc["bt"] = "match" /\ bt.left > 0 =>
    LET h == hashBuf[SlotOf("hash")] IN
    /\ bt.ptr + mf.base = bt.pos
    /\ h.first + h.num - bt.left = bt.pos
    /\ mf.base <= 0 \/ mf.base <= bt.pos - HistorySize
    /\ bt.pos + bt.avail <= mf.streamPos

\* An encoding that succeeds has seen every byte of the input: a read error of the
\* hash thread, or a failure of the tree thread, is not taken for the end.
OkMeansWhole == result = "ok" => lz.pos = StreamSize

\* When the LZ thread takes the threads for stopped (it initialises their variables
\* and semaphores next, or sends them the exit command), both are parked at canStart
\* and nobody is in a critical section; and no semaphore has passed its maximum.
StoppedMeansParked ==
  /\ TypeOK
  /\ sync["bt"].created /\ sync["bt"].needStart =>
    /\ pc["bt"] \in {"wait", "done"} /\ pc["hash"] \in {"wait", "done"}
    /\ \A s \in Syncs : sync[s].cs = Nobody

\* The encoder does not wait forever, whenever it stops the threads.
EveryThreadEnds == <>(pc["lz"] = "destroyed")
=============================================================================
