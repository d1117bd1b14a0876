--------------------------- MODULE LzFindMtProofs ---------------------------
(* Proofs about the multithreaded match finder (LzFindMt), for any sizes of  *)
(* the input, the window and the rings, any number of encodings and any      *)
(* faults.                                                                   *)
EXTENDS LzFindMt, TLAPS

LzPcs == {"idle", "init", "run", "filled", "lock", "use", "stop", "release", "waitstop",
          "stopped", "exitBt", "joinBt", "exitHash", "joinHash", "destroyed"}
BtPcs == {"none", "wait", "loop", "free", "check", "fill", "match", "filled", "lock", "filledUp",
          "send", "stop", "release", "waitstop", "stopped", "done"}
HashPcs == {"none", "wait", "loop", "free", "check", "enterBt", "enterHash", "move",
            "adjust", "send", "done"}

SyncFields  == DOMAIN NewSync
MfFields    == DOMAIN StartOfWindow
BlockFields == DOMAIN NoBlock
BtFields    == DOMAIN StartOfBt
LzFields    == DOMAIN StartOfLz

SyncType(s) ==
  /\ DOMAIN sync[s] = SyncFields
  /\ sync[s].created \in BOOLEAN /\ sync[s].needStart \in BOOLEAN /\ sync[s].exit \in BOOLEAN
  /\ sync[s].stopWriting \in BOOLEAN /\ sync[s].canStart \in BOOLEAN
  /\ sync[s].wasStopped \in BOOLEAN
  /\ sync[s].numProcessed \in Nat /\ sync[s].free \in Nat /\ sync[s].filled \in Nat
  /\ sync[s].cs \in {Nobody, "hash", "lz", "bt"}

SyncTypes ==
  /\ pc \in [Threads -> LzPcs \cup BtPcs \cup HashPcs]
  /\ pc["lz"] \in LzPcs /\ pc["bt"] \in BtPcs /\ pc["hash"] \in HashPcs
  /\ DOMAIN sync = Syncs /\ SyncType("bt") /\ SyncType("hash")
  /\ hashIndex \in Nat /\ btIndex \in Nat
  /\ result \in {"none", "ok", "error", "closing"} /\ encodes \in Nat

-----------------------------------------------------------------------------
(* The life of a CMtSync *)

Running(s) == sync[s].created /\ ~sync[s].needStart

\* The places of a producer that has been started.
Loop(s) == pc[s] \notin {"none", "wait", "done"}

Starting(s) == /\ pc[s] = "wait" /\ sync[s].canStart /\ ~sync[s].wasStopped
               /\ pc[Consumer(s)] = "filled" /\ sync[s].numProcessed = 1
               /\ sync[s].free = NumBlocks(s) /\ sync[s].filled = 0
Active(s)   == Loop(s) /\ ~sync[s].canStart /\ ~sync[s].wasStopped
Stopped(s)  == /\ pc[s] = "wait" /\ ~sync[s].canStart /\ sync[s].wasStopped
               /\ pc[Consumer(s)] \in {"release", "waitstop"}

\* Nothing runs: the producer does not exist, waits, or is told to return.
Exiting(s) == IF s = "bt" THEN "joinBt" ELSE "joinHash"
Resting(s) ==
  /\ ~sync[s].wasStopped /\ sync[s].cs = Nobody
  /\ sync[s].created => pc[s] \in {"wait", "done"}
  /\ ~sync[s].created => pc[s] \in {"none", "done"} /\ ~sync[s].canStart /\ ~sync[s].needStart
  /\ sync[s].created /\ pc["lz"] # Exiting(s) => pc[s] = "wait" /\ ~sync[s].canStart
  /\ sync[s].created /\ pc["lz"] = Exiting(s) => sync[s].exit

Lives(s) ==
  IF Running(s)
  THEN /\ ~sync[s].exit /\ sync[s].numProcessed >= 1
       /\ Starting(s) \/ Active(s) \/ Stopped(s)
       /\ sync[s].stopWriting <=> pc[Consumer(s)] \in {"release", "waitstop"}
  ELSE Resting(s)

\* Where the consumers are.
BtWorking == {"loop", "free", "check", "fill", "match", "filled", "lock", "filledUp", "send"}
BtStops   == {"stop", "release", "waitstop", "stopped"}
Fresh(s)  == sync[s].free = NumBlocks(s) /\ sync[s].filled = 0

LzPlaces ==
  /\ pc["lz"] \in {"filled", "lock", "use", "release", "waitstop"} => Running("bt")
  /\ pc["lz"] \notin {"run", "filled", "lock", "use", "stop", "release", "waitstop"} => ~Running("bt")
  /\ pc["lz"] \in {"init", "run"} => sync["bt"].created /\ sync["hash"].created
  /\ pc["lz"] = "run" /\ ~Running("bt") => Fresh("bt")
  /\ pc["lz"] \in {"exitHash", "joinHash", "destroyed"} => ~sync["bt"].created

BtPlaces ==
  /\ sync["bt"].created => sync["hash"].created
  /\ Running("hash") => pc["bt"] \in BtWorking \cup {"stop", "release", "waitstop"} /\ Running("bt")
  /\ pc["bt"] \in {"filled", "lock", "release", "waitstop"} => Running("hash")
  /\ pc["bt"] \in BtStops => sync["bt"].stopWriting
  /\ ~Running("hash") /\ \/ pc["bt"] \in BtWorking
                         \/ Running("bt") /\ Starting("bt")
                         \/ pc["lz"] = "run" /\ ~Running("bt")
       => Fresh("hash")

\* Who is in the critical sections.
Sections ==
  /\ sync["bt"].cs = IF pc["hash"] \in {"enterHash", "move", "adjust"} THEN "hash"
                     ELSE IF Running("bt") /\ pc["lz"] \in {"run", "use", "stop"} THEN "lz"
                     ELSE Nobody
  /\ Running("bt") /\ pc["lz"] \in {"run", "use", "stop"} => sync["bt"].cs = "lz"
  /\ sync["hash"].cs = IF pc["hash"] \in {"move", "adjust"} THEN "hash"
                       ELSE IF Running("hash") /\ pc["bt"] \in {"match", "filledUp"} THEN "bt"
                       ELSE Nobody
  /\ Running("hash") /\ pc["bt"] \in {"match", "filledUp"} => sync["hash"].cs = "bt"

\* The blocks that were sent, the number of blocks that the producer fills, and the
\* first block that is not free again.
Index(s) == IF pc[s] = "wait" THEN 0 ELSE IF s = "bt" THEN btIndex ELSE hashIndex
Sent(s)  == IF pc[s] = "send" THEN Index(s) - 1 ELSE Index(s)
Claims   == {"check", "fill", "match", "filled", "lock", "filledUp", "send"}
Claimed(s) == IF pc[s] \in Claims THEN 1 ELSE 0
First(s) == sync[s].numProcessed - 1

Counts(s) ==
  LET y == sync[s]
      c == pc[Consumer(s)]
  IN
  /\ y.free <= NumBlocks(s) /\ y.filled <= NumBlocks(s)
  /\ Running(s) /\ c = "release" => y.free + Claimed(s) + y.filled + 1 <= NumBlocks(s)
  /\ Running(s) /\ c = "waitstop" => y.free + Claimed(s) + y.filled <= NumBlocks(s)
  /\ Running(s) /\ c \notin {"release", "waitstop"} =>
       /\ y.filled = Sent(s) - First(s) - (IF c = "filled" THEN 0 ELSE 1)
       /\ y.free + Claimed(s) + Sent(s) - First(s) <= NumBlocks(s)

SyncInv ==
  /\ SyncTypes
  /\ Lives("bt") /\ Lives("hash") /\ Counts("bt") /\ Counts("hash")
  /\ LzPlaces /\ BtPlaces /\ Sections

-----------------------------------------------------------------------------
(* The window *)

WindowTypes ==
  /\ DOMAIN mf = MfFields /\ mf.end \in BOOLEAN /\ mf.ok \in BOOLEAN
  /\ mf.pos \in 0 .. StreamSize /\ mf.streamPos \in mf.pos .. StreamSize
  /\ mf.base \in Nat /\ mf.ptr \in Int /\ offset \in Int
  /\ DOMAIN bt = BtFields /\ DOMAIN lz = LzFields
  /\ bt.failed \in BOOLEAN /\ lz.failed \in BOOLEAN
  /\ bt.pos \in Int /\ bt.ptr \in Int /\ bt.left \in Int /\ bt.avail \in Int /\ bt.done \in Int
  /\ lz.pos \in Int /\ lz.ptr \in Int /\ lz.left \in Int /\ lz.avail \in Int

\* Nothing more will be read; and all that was read is hashed.
Ended(m)  == m.end \/ ~m.ok
Frozen(m) == Ended(m) /\ m.pos = m.streamPos

Window ==
  /\ mf.ptr + mf.base = mf.pos
  /\ pc["hash"] # "adjust" => offset = 0
  /\ bt.ptr + mf.base = bt.pos + offset
  /\ lz.ptr + mf.base = lz.pos + offset
  /\ mf.end => mf.streamPos = StreamSize
  /\ pc["hash"] \in {"free", "check"} => ~NeedMove
  /\ pc["hash"] \in {"enterBt", "enterHash", "move"} => NeedMove

\* The blocks of the two rings.
BlockTypes(h) == /\ DOMAIN h = BlockFields /\ h.first \in Int /\ h.num \in Int /\ h.avail \in Int
                 /\ h.failed \in BOOLEAN

HashTypes == /\ DOMAIN hashBuf = 0 .. HashNumBlocks - 1
             /\ \A i \in 0 .. HashNumBlocks - 1 : BlockTypes(hashBuf[i])

BtTypes == /\ DOMAIN btBuf = 0 .. BtNumBlocks - 1
           /\ \A i \in 0 .. BtNumBlocks - 1 : BlockTypes(btBuf[i])

WindowInv == WindowTypes /\ Window /\ HashTypes /\ BtTypes

-----------------------------------------------------------------------------
(* The ring of hash blocks *)

HashAt(i) == hashBuf[i % HashNumBlocks]

GoodHash(m, h) ==
  /\ h.avail >= 0 /\ h.num >= 0 /\ h.first + h.avail <= m.streamPos
  /\ h.avail >= NumHashBytes =>
       h.num >= 1 /\ h.num <= h.avail - NumHashBytes + 1 /\ h.num <= HashBlockSize - 2
  /\ h.avail < NumHashBytes => Frozen(m) /\ h.num = 0 /\ h.first + h.avail = m.streamPos

\* The position at which the block behind block i begins.
HashNextFirst(i) == IF i + 1 = Index("hash") THEN mf.pos ELSE HashAt(i + 1).first

\* Each block describes the positions up to the next block, and none describes more
\* of them than fit in it.
HashItem(i) ==
  /\ GoodHash(mf, HashAt(i))
  /\ HashAt(i).first + Step(HashAt(i)) = HashNextFirst(i)
  /\ ~Ended(mf) => mf.pos - HashAt(i).first <= (Index("hash") - i) * (HashBlockSize - 2)

HashRing ==
  Running("hash") /\ pc["bt"] \notin {"release", "waitstop"} =>
    \A i \in First("hash") .. Index("hash") - 1 : HashItem(i)

-----------------------------------------------------------------------------
(* The tree thread *)

HashHeld  == HashAt(First("hash"))
HashFront == IF First("hash") = Index("hash") THEN mf.pos ELSE HashHeld.first

\* The position up to which the tree thread has described the input.
BtAt == IF ~Running("hash") THEN bt.pos
        ELSE IF pc["bt"] \in {"filled", "lock"} THEN HashFront
        ELSE HashHeld.first + Step(HashHeld) - bt.left

\* It stays behind when the last bytes are too few to be hashed.
BtEnded == /\ bt.left = 0 /\ bt.avail = 0 /\ Frozen(mf) /\ BtAt = mf.streamPos
           /\ bt.pos <= mf.streamPos
InMatch == pc["bt"] \in {"match", "filled", "lock"}
BtBlock == btBuf[BtSlot]

BtData ==
  pc["bt"] \in BtWorking =>
    /\ ~Running("hash") => mf = StartOfWindow /\ bt = StartOfBt
    /\ Running("hash") /\ pc["bt"] \notin {"filled", "lock"} => bt.left <= HashHeld.num
    /\ pc["bt"] \in {"filled", "lock"} => bt.left = 0
    /\ bt.failed => bt.left > 0 /\ ~InMatch
    /\ bt.pos = BtAt \/ BtEnded
    /\ bt.left >= 0 /\ bt.avail >= 0 /\ bt.done >= 0 /\ bt.pos + bt.avail <= mf.streamPos
    /\ bt.left > 0 => bt.left <= bt.avail
    /\ mf.base = 0 \/ mf.base + HistorySize <= BtAt

\* A finished block of the tree thread.
StartOf(m, b) == IF b.avail = 0 THEN m.streamPos ELSE b.first
GoodBt(m, b) ==
  /\ b.num >= 0 /\ b.avail >= 0 /\ b.num <= b.avail
  /\ b.first + b.avail <= m.streamPos
  /\ ~b.failed /\ b.avail > 0 => b.num > 0
  /\ b.avail = 0 => Frozen(m)
  /\ ~Ended(m) => b.num <= BtBlockSize - 2

BtFilling ==
  /\ InMatch =>
       /\ ~BtBlock.failed
       /\ BtBlock.num = bt.done /\ BtBlock.num < BtBlockSize - 2
       /\ BtBlock.first + BtBlock.num = bt.pos
       /\ bt.pos = BtAt \/ bt.done = 0
       /\ bt.left > 0 => BtBlock.first + BtBlock.avail = bt.pos + bt.avail
  /\ pc["bt"] = "filledUp" => GoodBt(mf, BtBlock) /\ StartOf(mf, BtBlock) + BtBlock.num = BtAt

-----------------------------------------------------------------------------
(* The ring of tree blocks *)

BtAtIndex(j) == btBuf[j % BtNumBlocks]

\* The position behind the finished blocks.
BtSent == IF InMatch \/ pc["bt"] = "filledUp" THEN BtAt - BtBlock.num ELSE BtAt
BtNextFirst(j) == IF j + 1 = Index("bt") THEN BtSent ELSE StartOf(mf, BtAtIndex(j + 1))

BtItem(j) ==
  /\ GoodBt(mf, BtAtIndex(j))
  /\ StartOf(mf, BtAtIndex(j)) + BtAtIndex(j).num = BtNextFirst(j)
  /\ ~Ended(mf) => BtSent - StartOf(mf, BtAtIndex(j)) <= (Index("bt") - j) * (BtBlockSize - 2)

BtRing ==
  Running("bt") /\ pc["lz"] \notin {"release", "waitstop"} =>
    \A j \in First("bt") .. Index("bt") - 1 : BtItem(j)

-----------------------------------------------------------------------------
(* The LZ thread *)

BtHeld  == BtAtIndex(First("bt"))
BtFront == IF First("bt") = Index("bt") THEN BtSent ELSE StartOf(mf, BtHeld)

LzHolds ==
  /\ StartOf(mf, BtHeld) + BtHeld.num - lz.left = lz.pos
  /\ lz.pos + lz.avail <= mf.streamPos
  /\ ~BtHeld.failed /\ lz.left <= BtHeld.num
  /\ pc["lz"] = "use" /\ lz.avail = 0 => Frozen(mf) /\ lz.pos = mf.streamPos
  /\ pc["lz"] = "use" /\ lz.avail > 0 => lz.left > 0

LzData ==
  /\ pc["lz"] \in {"run", "filled", "lock", "use"} =>
       /\ ~Running("bt") => lz = StartOfLz /\ bt = StartOfBt /\ mf = StartOfWindow
       /\ Running("bt") /\ pc["bt"] = "wait" => bt = StartOfBt /\ mf = StartOfWindow
       /\ pc["lz"] \in {"filled", "lock"} => ~lz.failed /\ lz.left = 0 /\ lz.pos = BtFront
       /\ ~lz.failed => mf.base = 0 \/ mf.base + HistorySize <= lz.pos
       /\ lz.left >= 0 /\ lz.avail >= 0 /\ (lz.left <= lz.avail \/ lz.failed)
       /\ Running("bt") /\ pc["lz"] \in {"run", "use"} /\ ~lz.failed => LzHolds
  /\ result = "ok" => lz.pos = StreamSize
                        /\ pc["lz"] \in {"stop", "release", "waitstop", "stopped", "idle"}

Data == HashRing /\ BtData /\ BtFilling /\ BtRing /\ LzData

IInv == SyncInv /\ WindowInv /\ Data

-----------------------------------------------------------------------------
(* The control of the threads through their steps *)

\* A ring has at least one block.
LEMMA NumBlocksType == \A s \in Syncs : NumBlocks(s) \in Nat \ {0}
BY ConstantsAssumption DEF NumBlocks

\* What a step does to the places of the threads and to the two CMtSync.
Places(l, b, h)  == pc'["lz"] = l /\ pc'["bt"] = b /\ pc'["hash"] = h
SyncsTo(b, h)    == sync'["bt"] = b /\ sync'["hash"] = h
SameIndices      == UNCHANGED <<hashIndex, btIndex>>

\* The LZ thread, but for MatchFinderMt_Create.
LEMMA LzSync ==
  ASSUME SyncInv, LzNext, ~Create PROVE SyncInv'
<1> USE DEF SyncType, Syncs, SyncFields, NewSync, Running, Consumer, Nobody, Places, SyncsTo,
    SameIndices
<1>t. SyncTypes
  BY DEF SyncInv
<1>l. Lives("bt") /\ Lives("hash") /\ LzPlaces /\ BtPlaces /\ Sections
  BY DEF SyncInv
<1>c. /\ Counts("bt") /\ Counts("hash")
      /\ NumBlocks("bt") \in Nat \ {0} /\ NumBlocks("hash") \in Nat \ {0}
  BY NumBlocksType DEF SyncInv
<1>1. CASE FilledWait("bt")
  <2>1. /\ pc["lz"] = "filled" /\ Places("lock", pc["bt"], pc["hash"])
        /\ SyncsTo([sync["bt"] EXCEPT !.filled = @ - 1], sync["hash"])
        /\ sync["bt"].filled > 0
        /\ SameIndices
    BY <1>1, <1>t DEF SyncTypes, Threads, FilledWait, Move, Goto, runVars, dataVars
  <2>2. SyncTypes'
    <3>1. /\ pc' \in [Threads -> LzPcs \cup BtPcs \cup HashPcs] /\ DOMAIN sync' = Syncs
          /\ result' \in {"none", "ok", "error", "closing"} /\ encodes' \in Nat
      BY <1>1, <1>t DEF LzPcs, BtPcs, HashPcs, SyncTypes, Threads, FilledWait, Move, Goto, runVars, dataVars
    <3>2. SyncType("bt")' /\ SyncType("hash")'
      BY <1>t, <2>1 DEF SyncTypes
    <3> QED BY <1>t, <2>1, <3>1, <3>2 DEF SyncTypes, LzPcs, BtPcs, HashPcs
  <2>3. Lives("bt")' /\ Lives("hash")'
    BY <1>t, <1>l, <2>1 DEF SyncTypes, Lives, Starting, Active, Stopped, Resting, Exiting, Loop,
      LzPlaces, BtPlaces, Sections, Fresh, BtWorking, BtStops
  <2>4. Counts("bt")'
    BY <1>t, <1>l, <1>c, <2>1 DEF SyncTypes, Counts, Lives, Starting, Active, Stopped, Loop,
      Index, Sent, Claimed, Claims, First, LzPlaces, BtPlaces, Fresh, BtWorking, BtStops
  <2>5. Counts("hash")'
    BY <1>t, <1>l, <1>c, <2>1 DEF SyncTypes, Counts, Lives, Starting, Active, Stopped, Loop,
      Index, Sent, Claimed, Claims, First, LzPlaces, BtPlaces, Fresh, BtWorking, BtStops
  <2>6. LzPlaces' /\ BtPlaces' /\ Sections'
    BY <1>t, <1>l, <2>1 DEF SyncTypes, LzPlaces, BtPlaces, Sections, Lives, Starting, Active,
      Stopped, Resting, Loop, Exiting, Fresh, BtWorking, BtStops
  <2> QED BY <2>2, <2>3, <2>4, <2>5, <2>6 DEF SyncInv
<1>2. CASE StopSkip("bt")
  <2>1. /\ pc["lz"] = "stop" /\ Places("stopped", pc["bt"], pc["hash"])
        /\ SyncsTo(sync["bt"], sync["hash"])
        /\ ~sync["bt"].created \/ sync["bt"].needStart
        /\ SameIndices
    BY <1>2, <1>t DEF SyncTypes, Threads, StopSkip, Move, Goto, runVars, dataVars
  <2>2. SyncTypes'
    <3>1. /\ pc' \in [Threads -> LzPcs \cup BtPcs \cup HashPcs] /\ DOMAIN sync' = Syncs
          /\ result' \in {"none", "ok", "error", "closing"} /\ encodes' \in Nat
      BY <1>2, <1>t DEF LzPcs, BtPcs, HashPcs, SyncTypes, Threads, StopSkip, Move, Goto, runVars, dataVars
    <3>2. SyncType("bt")' /\ SyncType("hash")'
      BY <1>t, <2>1 DEF SyncTypes
    <3> QED BY <1>t, <2>1, <3>1, <3>2 DEF SyncTypes, LzPcs, BtPcs, HashPcs
  <2>3. Lives("bt")' /\ Lives("hash")'
    BY <1>t, <1>l, <2>1 DEF SyncTypes, Lives, Starting, Active, Stopped, Resting, Exiting, Loop,
      LzPlaces, BtPlaces, Sections, Fresh, BtWorking, BtStops
  <2>4. Counts("bt")'
    BY <1>t, <1>l, <1>c, <2>1 DEF SyncTypes, Counts, Lives, Starting, Active, Stopped, Loop,
      Index, Sent, Claimed, Claims, First, LzPlaces, BtPlaces, Fresh, BtWorking, BtStops
  <2>5. Counts("hash")'
    BY <1>t, <1>l, <1>c, <2>1 DEF SyncTypes, Counts, Lives, Starting, Active, Stopped, Loop,
      Index, Sent, Claimed, Claims, First, LzPlaces, BtPlaces, Fresh, BtWorking, BtStops
  <2>6. LzPlaces' /\ BtPlaces' /\ Sections'
    BY <1>t, <1>l, <2>1 DEF SyncTypes, LzPlaces, BtPlaces, Sections, Lives, Starting, Active,
      Stopped, Resting, Loop, Exiting, Fresh, BtWorking, BtStops
  <2> QED BY <2>2, <2>3, <2>4, <2>5, <2>6 DEF SyncInv
<1>3. CASE StopFlag("bt")
  <2>1. /\ pc["lz"] = "stop" /\ Places("release", pc["bt"], pc["hash"])
        /\ SyncsTo([sync["bt"] EXCEPT !.cs = IF @ = "lz" THEN Nobody ELSE @, !.stopWriting = TRUE], sync["hash"])
        /\ sync["bt"].created /\ ~sync["bt"].needStart
        /\ SameIndices
    BY <1>3, <1>t DEF SyncTypes, Threads, StopFlag, Move, Goto, runVars, dataVars
  <2>2. SyncTypes'
    <3>1. /\ pc' \in [Threads -> LzPcs \cup BtPcs \cup HashPcs] /\ DOMAIN sync' = Syncs
          /\ result' \in {"none", "ok", "error", "closing"} /\ encodes' \in Nat
      BY <1>3, <1>t DEF LzPcs, BtPcs, HashPcs, SyncTypes, Threads, StopFlag, Move, Goto, runVars, dataVars
    <3>2. SyncType("hash")'
      BY <1>t, <2>1 DEF SyncTypes
    <3>3. /\ DOMAIN sync'["bt"] = SyncFields /\ sync'["bt"].stopWriting = TRUE
          /\ sync'["bt"].cs \in {Nobody, sync["bt"].cs}
          /\ \A f \in SyncFields \ {"cs", "stopWriting"} : sync'["bt"][f] = sync["bt"][f]
      BY <1>t, <2>1 DEF SyncTypes
    <3>4. SyncType("bt")'
      BY <1>t, <3>3 DEF SyncTypes
    <3> QED BY <1>t, <2>1, <3>1, <3>2, <3>4 DEF SyncTypes, LzPcs, BtPcs, HashPcs
  <2>3. Lives("bt")' /\ Lives("hash")'
    BY <1>t, <1>l, <2>1 DEF SyncTypes, Lives, Starting, Active, Stopped, Resting, Exiting, Loop,
      LzPlaces, BtPlaces, Sections, Fresh, BtWorking, BtStops
  <2>4. Counts("bt")'
    BY <1>t, <1>l, <1>c, <2>1 DEF SyncTypes, Counts, Lives, Starting, Active, Stopped, Loop,
      Index, Sent, Claimed, Claims, First, LzPlaces, BtPlaces, Fresh, BtWorking, BtStops
  <2>5. Counts("hash")'
    BY <1>t, <1>l, <1>c, <2>1 DEF SyncTypes, Counts, Lives, Starting, Active, Stopped, Loop,
      Index, Sent, Claimed, Claims, First, LzPlaces, BtPlaces, Fresh, BtWorking, BtStops
  <2>6. LzPlaces' /\ BtPlaces' /\ Sections'
    BY <1>t, <1>l, <2>1 DEF SyncTypes, LzPlaces, BtPlaces, Sections, Lives, Starting, Active,
      Stopped, Resting, Loop, Exiting, Fresh, BtWorking, BtStops
  <2> QED BY <2>2, <2>3, <2>4, <2>5, <2>6 DEF SyncInv
<1>4. CASE StopReleaseFree("bt")
  <2>1. /\ pc["lz"] = "release" /\ Places("waitstop", pc["bt"], pc["hash"])
        /\ SyncsTo([sync["bt"] EXCEPT !.free = @ + 1], sync["hash"])
        /\ SameIndices
    BY <1>4, <1>t DEF SyncTypes, Threads, StopReleaseFree, StopRelease, Move, Goto, runVars, dataVars
  <2>2. SyncTypes'
    <3>1. /\ pc' \in [Threads -> LzPcs \cup BtPcs \cup HashPcs] /\ DOMAIN sync' = Syncs
          /\ result' \in {"none", "ok", "error", "closing"} /\ encodes' \in Nat
      BY <1>4, <1>t DEF LzPcs, BtPcs, HashPcs, SyncTypes, Threads, StopReleaseFree, StopRelease, Move, Goto, runVars, dataVars
    <3>2. SyncType("bt")' /\ SyncType("hash")'
      BY <1>t, <2>1 DEF SyncTypes
    <3> QED BY <1>t, <2>1, <3>1, <3>2 DEF SyncTypes, LzPcs, BtPcs, HashPcs
  <2>3. Lives("bt")' /\ Lives("hash")'
    BY <1>t, <1>l, <2>1 DEF SyncTypes, Lives, Starting, Active, Stopped, Resting, Exiting, Loop,
      LzPlaces, BtPlaces, Sections, Fresh, BtWorking, BtStops
  <2>4. Counts("bt")'
    BY <1>t, <1>l, <1>c, <2>1 DEF SyncTypes, Counts, Lives, Starting, Active, Stopped, Loop,
      Index, Sent, Claimed, Claims, First, LzPlaces, BtPlaces, Fresh, BtWorking, BtStops
  <2>5. Counts("hash")'
    BY <1>t, <1>l, <1>c, <2>1 DEF SyncTypes, Counts, Lives, Starting, Active, Stopped, Loop,
      Index, Sent, Claimed, Claims, First, LzPlaces, BtPlaces, Fresh, BtWorking, BtStops
  <2>6. LzPlaces' /\ BtPlaces' /\ Sections'
    BY <1>t, <1>l, <2>1 DEF SyncTypes, LzPlaces, BtPlaces, Sections, Lives, Starting, Active,
      Stopped, Resting, Loop, Exiting, Fresh, BtWorking, BtStops
  <2> QED BY <2>2, <2>3, <2>4, <2>5, <2>6 DEF SyncInv
<1>5. CASE StopWait("bt")
  <2>1. /\ pc["lz"] = "waitstop" /\ Places("stopped", pc["bt"], pc["hash"])
        /\ SyncsTo([sync["bt"] EXCEPT !.wasStopped = FALSE, !.needStart = TRUE], sync["hash"])
        /\ sync["bt"].wasStopped
        /\ SameIndices
    BY <1>5, <1>t DEF SyncTypes, Threads, StopWait, Move, Goto, runVars, dataVars
  <2>2. SyncTypes'
    <3>1. /\ pc' \in [Threads -> LzPcs \cup BtPcs \cup HashPcs] /\ DOMAIN sync' = Syncs
          /\ result' \in {"none", "ok", "error", "closing"} /\ encodes' \in Nat
      BY <1>5, <1>t DEF LzPcs, BtPcs, HashPcs, SyncTypes, Threads, StopWait, Move, Goto, runVars, dataVars
    <3>2. SyncType("bt")' /\ SyncType("hash")'
      BY <1>t, <2>1 DEF SyncTypes
    <3> QED BY <1>t, <2>1, <3>1, <3>2 DEF SyncTypes, LzPcs, BtPcs, HashPcs
  <2>3. Lives("bt")' /\ Lives("hash")'
    BY <1>t, <1>l, <2>1 DEF SyncTypes, Lives, Starting, Active, Stopped, Resting, Exiting, Loop,
      LzPlaces, BtPlaces, Sections, Fresh, BtWorking, BtStops
  <2>4. Counts("bt")'
    BY <1>t, <1>l, <1>c, <2>1 DEF SyncTypes, Counts, Lives, Starting, Active, Stopped, Loop,
      Index, Sent, Claimed, Claims, First, LzPlaces, BtPlaces, Fresh, BtWorking, BtStops
  <2>5. Counts("hash")'
    BY <1>t, <1>l, <1>c, <2>1 DEF SyncTypes, Counts, Lives, Starting, Active, Stopped, Loop,
      Index, Sent, Claimed, Claims, First, LzPlaces, BtPlaces, Fresh, BtWorking, BtStops
  <2>6. LzPlaces' /\ BtPlaces' /\ Sections'
    BY <1>t, <1>l, <2>1 DEF SyncTypes, LzPlaces, BtPlaces, Sections, Lives, Starting, Active,
      Stopped, Resting, Loop, Exiting, Fresh, BtWorking, BtStops
  <2> QED BY <2>2, <2>3, <2>4, <2>5, <2>6 DEF SyncInv
<1>6. CASE LzGetNextBlock /\ NextStart("bt")
  <2>1. /\ pc["lz"] = "run" /\ Places("filled", pc["bt"], pc["hash"])
        /\ SyncsTo([sync["bt"] EXCEPT !.numProcessed = 1, !.needStart = FALSE, !.stopWriting = FALSE,
                           !.exit = FALSE, !.wasStopped = FALSE, !.canStart = TRUE], sync["hash"])
        /\ sync["bt"].needStart
        /\ SameIndices
    BY <1>6, <1>t DEF SyncTypes, Threads, LzGetNextBlock, NextStart, Started, Goto, runVars, dataVars
  <2>2. SyncTypes'
    <3>1. /\ pc' \in [Threads -> LzPcs \cup BtPcs \cup HashPcs] /\ DOMAIN sync' = Syncs
          /\ result' \in {"none", "ok", "error", "closing"} /\ encodes' \in Nat
      BY <1>6, <1>t DEF LzPcs, BtPcs, HashPcs, SyncTypes, Threads, LzGetNextBlock, NextStart, Started, Goto, runVars, dataVars
    <3>2. SyncType("bt")' /\ SyncType("hash")'
      BY <1>t, <2>1 DEF SyncTypes
    <3> QED BY <1>t, <2>1, <3>1, <3>2 DEF SyncTypes, LzPcs, BtPcs, HashPcs
  <2>3. Lives("bt")' /\ Lives("hash")'
    BY <1>t, <1>l, <2>1 DEF SyncTypes, Lives, Starting, Active, Stopped, Resting, Exiting, Loop,
      LzPlaces, BtPlaces, Sections, Fresh, BtWorking, BtStops
  <2>4. Counts("bt")'
    <3>1. /\ pc["bt"] = "wait" /\ sync'["bt"].numProcessed = 1
          /\ sync'["bt"].free = NumBlocks("bt") /\ sync'["bt"].filled = 0
      BY <1>t, <1>l, <2>1 DEF SyncTypes, Lives, Starting, Active, Stopped, Resting, Exiting,
        Loop, LzPlaces, BtPlaces, Sections, Fresh, BtWorking, BtStops
    <3> QED BY <1>t, <1>c, <2>1, <3>1 DEF SyncTypes, Counts, Index, Sent, Claimed, Claims, First
  <2>5. Counts("hash")'
    BY <1>t, <1>l, <1>c, <2>1 DEF SyncTypes, Counts, Lives, Starting, Active, Stopped, Loop,
      Index, Sent, Claimed, Claims, First, LzPlaces, BtPlaces, Fresh, BtWorking, BtStops
  <2>6. LzPlaces' /\ BtPlaces' /\ Sections'
    BY <1>t, <1>l, <2>1 DEF SyncTypes, LzPlaces, BtPlaces, Sections, Lives, Starting, Active,
      Stopped, Resting, Loop, Exiting, Fresh, BtWorking, BtStops
  <2> QED BY <2>2, <2>3, <2>4, <2>5, <2>6 DEF SyncInv
<1>7. CASE LzGetNextBlock /\ NextFree("bt")
  <2>1. /\ pc["lz"] = "run" /\ Places("filled", pc["bt"], pc["hash"])
        /\ SyncsTo([sync["bt"] EXCEPT !.cs = Nobody, !.numProcessed = @ + 1, !.free = @ + 1], sync["hash"])
        /\ ~sync["bt"].needStart
        /\ SameIndices
    BY <1>7, <1>t DEF SyncTypes, Threads, LzGetNextBlock, NextFree, Goto, runVars, dataVars
  <2>2. SyncTypes'
    <3>1. /\ pc' \in [Threads -> LzPcs \cup BtPcs \cup HashPcs] /\ DOMAIN sync' = Syncs
          /\ result' \in {"none", "ok", "error", "closing"} /\ encodes' \in Nat
      BY <1>7, <1>t DEF LzPcs, BtPcs, HashPcs, SyncTypes, Threads, LzGetNextBlock, NextFree, Goto, runVars, dataVars
    <3>2. SyncType("bt")' /\ SyncType("hash")'
      BY <1>t, <2>1 DEF SyncTypes
    <3> QED BY <1>t, <2>1, <3>1, <3>2 DEF SyncTypes, LzPcs, BtPcs, HashPcs
  <2>3. Lives("bt")' /\ Lives("hash")'
    BY <1>t, <1>l, <2>1 DEF SyncTypes, Lives, Starting, Active, Stopped, Resting, Exiting, Loop,
      LzPlaces, BtPlaces, Sections, Fresh, BtWorking, BtStops
  <2>4. Counts("bt")'
    <3>1. /\ Running("bt") /\ sync'["bt"].numProcessed = sync["bt"].numProcessed + 1
          /\ sync'["bt"].free = sync["bt"].free + 1 /\ sync'["bt"].filled = sync["bt"].filled
      BY <1>t, <1>l, <2>1 DEF SyncTypes, Lives, Starting, Active, Stopped, Resting, Exiting,
        Loop, LzPlaces, BtPlaces, Sections, Fresh, BtWorking, BtStops
    <3> QED BY <1>t, <1>c, <2>1, <3>1 DEF SyncTypes, Counts, Index, Sent, Claimed, Claims, First
  <2>5. Counts("hash")'
    BY <1>t, <1>l, <1>c, <2>1 DEF SyncTypes, Counts, Lives, Starting, Active, Stopped, Loop,
      Index, Sent, Claimed, Claims, First, LzPlaces, BtPlaces, Fresh, BtWorking, BtStops
  <2>6. LzPlaces' /\ BtPlaces' /\ Sections'
    BY <1>t, <1>l, <2>1 DEF SyncTypes, LzPlaces, BtPlaces, Sections, Lives, Starting, Active,
      Stopped, Resting, Loop, Exiting, Fresh, BtWorking, BtStops
  <2> QED BY <2>2, <2>3, <2>4, <2>5, <2>6 DEF SyncInv
<1>8. CASE LzTake
  <2>1. /\ pc["lz"] = "lock" /\ Places("use", pc["bt"], pc["hash"])
        /\ SyncsTo([sync["bt"] EXCEPT !.cs = "lz"], sync["hash"])
        /\ sync["bt"].cs = Nobody
        /\ SameIndices
    BY <1>8, <1>t DEF SyncTypes, Threads, LzTake, Move, Goto, runVars, dataVars
  <2>2. SyncTypes'
    <3>1. /\ pc' \in [Threads -> LzPcs \cup BtPcs \cup HashPcs] /\ DOMAIN sync' = Syncs
          /\ result' \in {"none", "ok", "error", "closing"} /\ encodes' \in Nat
      BY <1>8, <1>t DEF LzPcs, BtPcs, HashPcs, SyncTypes, Threads, LzTake, Move, Goto, runVars, dataVars
    <3>2. SyncType("bt")' /\ SyncType("hash")'
      BY <1>t, <2>1 DEF SyncTypes
    <3> QED BY <1>t, <2>1, <3>1, <3>2 DEF SyncTypes, LzPcs, BtPcs, HashPcs
  <2>3. Lives("bt")' /\ Lives("hash")'
    BY <1>t, <1>l, <2>1 DEF SyncTypes, Lives, Starting, Active, Stopped, Resting, Exiting, Loop,
      LzPlaces, BtPlaces, Sections, Fresh, BtWorking, BtStops
  <2>4. Counts("bt")'
    BY <1>t, <1>l, <1>c, <2>1 DEF SyncTypes, Counts, Lives, Starting, Active, Stopped, Loop,
      Index, Sent, Claimed, Claims, First, LzPlaces, BtPlaces, Fresh, BtWorking, BtStops
  <2>5. Counts("hash")'
    BY <1>t, <1>l, <1>c, <2>1 DEF SyncTypes, Counts, Lives, Starting, Active, Stopped, Loop,
      Index, Sent, Claimed, Claims, First, LzPlaces, BtPlaces, Fresh, BtWorking, BtStops
  <2>6. LzPlaces' /\ BtPlaces' /\ Sections'
    BY <1>t, <1>l, <2>1 DEF SyncTypes, LzPlaces, BtPlaces, Sections, Lives, Starting, Active,
      Stopped, Resting, Loop, Exiting, Fresh, BtWorking, BtStops
  <2> QED BY <2>2, <2>3, <2>4, <2>5, <2>6 DEF SyncInv
<1>9. CASE LzGetMatches
  <2>1. /\ pc["lz"] \in {"use", "run"} /\ Places("run", pc["bt"], pc["hash"])
        /\ pc["lz"] = "run" => UNCHANGED pc
        /\ SyncsTo(sync["bt"], sync["hash"])
        /\ SameIndices
    BY <1>9, <1>t DEF SyncTypes, Threads, LzGetMatches, HasBlock, Goto, runVars, dataVars
  <2>2. SyncTypes'
    <3>1. /\ pc' \in [Threads -> LzPcs \cup BtPcs \cup HashPcs] /\ DOMAIN sync' = Syncs
          /\ result' \in {"none", "ok", "error", "closing"} /\ encodes' \in Nat
      BY <1>9, <1>t DEF LzPcs, BtPcs, HashPcs, SyncTypes, Threads, LzGetMatches, HasBlock, Goto, runVars, dataVars
    <3>2. SyncType("bt")' /\ SyncType("hash")'
      BY <1>t, <2>1 DEF SyncTypes
    <3> QED BY <1>t, <2>1, <3>1, <3>2 DEF SyncTypes, LzPcs, BtPcs, HashPcs
  <2>3. Lives("bt")' /\ Lives("hash")'
    BY <1>t, <1>l, <2>1 DEF SyncTypes, Lives, Starting, Active, Stopped, Resting, Exiting, Loop,
      LzPlaces, BtPlaces, Sections, Fresh, BtWorking, BtStops
  <2>4. Counts("bt")'
    BY <1>t, <1>l, <1>c, <2>1 DEF SyncTypes, Counts, Lives, Starting, Active, Stopped, Loop,
      Index, Sent, Claimed, Claims, First, LzPlaces, BtPlaces, Fresh, BtWorking, BtStops
  <2>5. Counts("hash")'
    BY <1>t, <1>l, <1>c, <2>1 DEF SyncTypes, Counts, Lives, Starting, Active, Stopped, Loop,
      Index, Sent, Claimed, Claims, First, LzPlaces, BtPlaces, Fresh, BtWorking, BtStops
  <2>6. LzPlaces' /\ BtPlaces' /\ Sections'
    BY <1>t, <1>l, <2>1 DEF SyncTypes, LzPlaces, BtPlaces, Sections, Lives, Starting, Active,
      Stopped, Resting, Loop, Exiting, Fresh, BtWorking, BtStops
  <2> QED BY <2>2, <2>3, <2>4, <2>5, <2>6 DEF SyncInv
<1>10. CASE LzFlush
  <2>1. /\ pc["lz"] \in {"use", "run"} /\ Places("stop", pc["bt"], pc["hash"])
        /\ SyncsTo(sync["bt"], sync["hash"])
        /\ SameIndices
    BY <1>10, <1>t DEF SyncTypes, Threads, LzFlush, HasBlock, Goto, runVars, dataVars
  <2>2. SyncTypes'
    <3>1. /\ pc' \in [Threads -> LzPcs \cup BtPcs \cup HashPcs] /\ DOMAIN sync' = Syncs
          /\ result' \in {"none", "ok", "error", "closing"} /\ encodes' \in Nat
      BY <1>10, <1>t DEF LzPcs, BtPcs, HashPcs, SyncTypes, Threads, LzFlush, HasBlock, Goto, runVars, dataVars
    <3>2. SyncType("bt")' /\ SyncType("hash")'
      BY <1>t, <2>1 DEF SyncTypes
    <3> QED BY <1>t, <2>1, <3>1, <3>2 DEF SyncTypes, LzPcs, BtPcs, HashPcs
  <2>3. Lives("bt")' /\ Lives("hash")'
    BY <1>t, <1>l, <2>1 DEF SyncTypes, Lives, Starting, Active, Stopped, Resting, Exiting, Loop,
      LzPlaces, BtPlaces, Sections, Fresh, BtWorking, BtStops
  <2>4. Counts("bt")'
    BY <1>t, <1>l, <1>c, <2>1 DEF SyncTypes, Counts, Lives, Starting, Active, Stopped, Loop,
      Index, Sent, Claimed, Claims, First, LzPlaces, BtPlaces, Fresh, BtWorking, BtStops
  <2>5. Counts("hash")'
    BY <1>t, <1>l, <1>c, <2>1 DEF SyncTypes, Counts, Lives, Starting, Active, Stopped, Loop,
      Index, Sent, Claimed, Claims, First, LzPlaces, BtPlaces, Fresh, BtWorking, BtStops
  <2>6. LzPlaces' /\ BtPlaces' /\ Sections'
    BY <1>t, <1>l, <2>1 DEF SyncTypes, LzPlaces, BtPlaces, Sections, Lives, Starting, Active,
      Stopped, Resting, Loop, Exiting, Fresh, BtWorking, BtStops
  <2> QED BY <2>2, <2>3, <2>4, <2>5, <2>6 DEF SyncInv
<1>11. CASE LzGivesUp
  <2>1. /\ pc["lz"] = "run" /\ Places("stop", pc["bt"], pc["hash"])
        /\ SyncsTo(sync["bt"], sync["hash"])
        /\ SameIndices
    BY <1>11, <1>t DEF SyncTypes, Threads, LzGivesUp, Move, Goto, runVars, dataVars
  <2>2. SyncTypes'
    <3>1. /\ pc' \in [Threads -> LzPcs \cup BtPcs \cup HashPcs] /\ DOMAIN sync' = Syncs
          /\ result' \in {"none", "ok", "error", "closing"} /\ encodes' \in Nat
      BY <1>11, <1>t DEF LzPcs, BtPcs, HashPcs, SyncTypes, Threads, LzGivesUp, Move, Goto, runVars, dataVars
    <3>2. SyncType("bt")' /\ SyncType("hash")'
      BY <1>t, <2>1 DEF SyncTypes
    <3> QED BY <1>t, <2>1, <3>1, <3>2 DEF SyncTypes, LzPcs, BtPcs, HashPcs
  <2>3. Lives("bt")' /\ Lives("hash")'
    BY <1>t, <1>l, <2>1 DEF SyncTypes, Lives, Starting, Active, Stopped, Resting, Exiting, Loop,
      LzPlaces, BtPlaces, Sections, Fresh, BtWorking, BtStops
  <2>4. Counts("bt")'
    BY <1>t, <1>l, <1>c, <2>1 DEF SyncTypes, Counts, Lives, Starting, Active, Stopped, Loop,
      Index, Sent, Claimed, Claims, First, LzPlaces, BtPlaces, Fresh, BtWorking, BtStops
  <2>5. Counts("hash")'
    BY <1>t, <1>l, <1>c, <2>1 DEF SyncTypes, Counts, Lives, Starting, Active, Stopped, Loop,
      Index, Sent, Claimed, Claims, First, LzPlaces, BtPlaces, Fresh, BtWorking, BtStops
  <2>6. LzPlaces' /\ BtPlaces' /\ Sections'
    BY <1>t, <1>l, <2>1 DEF SyncTypes, LzPlaces, BtPlaces, Sections, Lives, Starting, Active,
      Stopped, Resting, Loop, Exiting, Fresh, BtWorking, BtStops
  <2> QED BY <2>2, <2>3, <2>4, <2>5, <2>6 DEF SyncInv
<1>12. CASE LzStopped
  <2>1. /\ pc["lz"] = "stopped" /\ Places(pc'["lz"], pc["bt"], pc["hash"])
        /\ pc'["lz"] \in {"exitBt", "idle"}
        /\ SyncsTo(sync["bt"], sync["hash"])
        /\ SameIndices
    BY <1>12, <1>t DEF SyncTypes, Threads, LzStopped, Move, Goto, runVars, dataVars
  <2>2. SyncTypes'
    <3>1. /\ pc' \in [Threads -> LzPcs \cup BtPcs \cup HashPcs] /\ DOMAIN sync' = Syncs
          /\ result' \in {"none", "ok", "error", "closing"} /\ encodes' \in Nat
      BY <1>12, <1>t DEF LzPcs, BtPcs, HashPcs, SyncTypes, Threads, LzStopped, Move, Goto, runVars, dataVars
    <3>2. SyncType("bt")' /\ SyncType("hash")'
      BY <1>t, <2>1 DEF SyncTypes
    <3> QED BY <1>t, <2>1, <3>1, <3>2 DEF SyncTypes, LzPcs, BtPcs, HashPcs
  <2>3. Lives("bt")' /\ Lives("hash")'
    BY <1>t, <1>l, <2>1 DEF SyncTypes, Lives, Starting, Active, Stopped, Resting, Exiting, Loop,
      LzPlaces, BtPlaces, Sections, Fresh, BtWorking, BtStops
  <2>4. Counts("bt")'
    BY <1>t, <1>l, <1>c, <2>1 DEF SyncTypes, Counts, Lives, Starting, Active, Stopped, Loop,
      Index, Sent, Claimed, Claims, First, LzPlaces, BtPlaces, Fresh, BtWorking, BtStops
  <2>5. Counts("hash")'
    BY <1>t, <1>l, <1>c, <2>1 DEF SyncTypes, Counts, Lives, Starting, Active, Stopped, Loop,
      Index, Sent, Claimed, Claims, First, LzPlaces, BtPlaces, Fresh, BtWorking, BtStops
  <2>6. LzPlaces' /\ BtPlaces' /\ Sections'
    BY <1>t, <1>l, <2>1 DEF SyncTypes, LzPlaces, BtPlaces, Sections, Lives, Starting, Active,
      Stopped, Resting, Loop, Exiting, Fresh, BtWorking, BtStops
  <2> QED BY <2>2, <2>3, <2>4, <2>5, <2>6 DEF SyncInv
<1>13. CASE Destruct
  <2>1. /\ pc["lz"] = "idle" /\ Places("stop", pc["bt"], pc["hash"])
        /\ SyncsTo(sync["bt"], sync["hash"])
        /\ SameIndices
    BY <1>13, <1>t DEF SyncTypes, Threads, Destruct, Move, Goto, runVars, dataVars
  <2>2. SyncTypes'
    <3>1. /\ pc' \in [Threads -> LzPcs \cup BtPcs \cup HashPcs] /\ DOMAIN sync' = Syncs
          /\ result' \in {"none", "ok", "error", "closing"} /\ encodes' \in Nat
      BY <1>13, <1>t DEF LzPcs, BtPcs, HashPcs, SyncTypes, Threads, Destruct, Move, Goto, runVars, dataVars
    <3>2. SyncType("bt")' /\ SyncType("hash")'
      BY <1>t, <2>1 DEF SyncTypes
    <3> QED BY <1>t, <2>1, <3>1, <3>2 DEF SyncTypes, LzPcs, BtPcs, HashPcs
  <2>3. Lives("bt")' /\ Lives("hash")'
    BY <1>t, <1>l, <2>1 DEF SyncTypes, Lives, Starting, Active, Stopped, Resting, Exiting, Loop,
      LzPlaces, BtPlaces, Sections, Fresh, BtWorking, BtStops
  <2>4. Counts("bt")'
    BY <1>t, <1>l, <1>c, <2>1 DEF SyncTypes, Counts, Lives, Starting, Active, Stopped, Loop,
      Index, Sent, Claimed, Claims, First, LzPlaces, BtPlaces, Fresh, BtWorking, BtStops
  <2>5. Counts("hash")'
    BY <1>t, <1>l, <1>c, <2>1 DEF SyncTypes, Counts, Lives, Starting, Active, Stopped, Loop,
      Index, Sent, Claimed, Claims, First, LzPlaces, BtPlaces, Fresh, BtWorking, BtStops
  <2>6. LzPlaces' /\ BtPlaces' /\ Sections'
    BY <1>t, <1>l, <2>1 DEF SyncTypes, LzPlaces, BtPlaces, Sections, Lives, Starting, Active,
      Stopped, Resting, Loop, Exiting, Fresh, BtWorking, BtStops
  <2> QED BY <2>2, <2>3, <2>4, <2>5, <2>6 DEF SyncInv
<1>14. CASE ExitThread("bt", "exitBt", "joinBt")
  <2>1. /\ pc["lz"] = "exitBt" /\ Places("joinBt", pc["bt"], pc["hash"])
        /\ SyncsTo(IF sync["bt"].created THEN [sync["bt"] EXCEPT !.exit = TRUE, !.canStart = TRUE] ELSE sync["bt"], sync["hash"])
        /\ SameIndices
    BY <1>14, <1>t DEF SyncTypes, Threads, ExitThread, Move, Goto, runVars, dataVars
  <2>2. SyncTypes'
    <3>1. /\ pc' \in [Threads -> LzPcs \cup BtPcs \cup HashPcs] /\ DOMAIN sync' = Syncs
          /\ result' \in {"none", "ok", "error", "closing"} /\ encodes' \in Nat
      BY <1>14, <1>t DEF LzPcs, BtPcs, HashPcs, SyncTypes, Threads, ExitThread, Move, Goto, runVars, dataVars
    <3>2. SyncType("hash")'
      BY <1>t, <2>1 DEF SyncTypes
    <3>3. /\ DOMAIN sync'["bt"] = SyncFields
          /\ sync'["bt"].exit \in BOOLEAN /\ sync'["bt"].canStart \in BOOLEAN
          /\ \A f \in SyncFields \ {"exit", "canStart"} : sync'["bt"][f] = sync["bt"][f]
      BY <1>t, <2>1 DEF SyncTypes
    <3>4. SyncType("bt")'
      BY <1>t, <3>3 DEF SyncTypes
    <3> QED BY <1>t, <2>1, <3>1, <3>2, <3>4 DEF SyncTypes, LzPcs, BtPcs, HashPcs
  <2>3. Lives("bt")' /\ Lives("hash")'
    BY <1>t, <1>l, <2>1 DEF SyncTypes, Lives, Starting, Active, Stopped, Resting, Exiting, Loop,
      LzPlaces, BtPlaces, Sections, Fresh, BtWorking, BtStops
  <2>4. Counts("bt")'
    BY <1>t, <1>l, <1>c, <2>1 DEF SyncTypes, Counts, Lives, Starting, Active, Stopped, Loop,
      Index, Sent, Claimed, Claims, First, LzPlaces, BtPlaces, Fresh, BtWorking, BtStops
  <2>5. Counts("hash")'
    BY <1>t, <1>l, <1>c, <2>1 DEF SyncTypes, Counts, Lives, Starting, Active, Stopped, Loop,
      Index, Sent, Claimed, Claims, First, LzPlaces, BtPlaces, Fresh, BtWorking, BtStops
  <2>6. LzPlaces' /\ BtPlaces' /\ Sections'
    BY <1>t, <1>l, <2>1 DEF SyncTypes, LzPlaces, BtPlaces, Sections, Lives, Starting, Active,
      Stopped, Resting, Loop, Exiting, Fresh, BtWorking, BtStops
  <2> QED BY <2>2, <2>3, <2>4, <2>5, <2>6 DEF SyncInv
<1>15. CASE JoinThread("bt", "joinBt", "exitHash")
  <2>1. /\ pc["lz"] = "joinBt" /\ Places("exitHash", pc["bt"], pc["hash"])
        /\ SyncsTo(NewSync, sync["hash"])
        /\ sync["bt"].created => pc["bt"] = "done"
        /\ SameIndices
    BY <1>15, <1>t DEF SyncTypes, Threads, JoinThread, Move, Goto, runVars, dataVars
  <2>2. SyncTypes'
    <3>1. /\ pc' \in [Threads -> LzPcs \cup BtPcs \cup HashPcs] /\ DOMAIN sync' = Syncs
          /\ result' \in {"none", "ok", "error", "closing"} /\ encodes' \in Nat
      BY <1>15, <1>t DEF LzPcs, BtPcs, HashPcs, SyncTypes, Threads, JoinThread, Move, Goto, runVars, dataVars
    <3>2. SyncType("bt")' /\ SyncType("hash")'
      BY <1>t, <2>1 DEF SyncTypes
    <3> QED BY <1>t, <2>1, <3>1, <3>2 DEF SyncTypes, LzPcs, BtPcs, HashPcs
  <2>3. Lives("bt")' /\ Lives("hash")'
    BY <1>t, <1>l, <2>1 DEF SyncTypes, Lives, Starting, Active, Stopped, Resting, Exiting, Loop,
      LzPlaces, BtPlaces, Sections, Fresh, BtWorking, BtStops
  <2>4. Counts("bt")'
    BY <1>t, <1>l, <1>c, <2>1 DEF SyncTypes, Counts, Lives, Starting, Active, Stopped, Loop,
      Index, Sent, Claimed, Claims, First, LzPlaces, BtPlaces, Fresh, BtWorking, BtStops
  <2>5. Counts("hash")'
    BY <1>t, <1>l, <1>c, <2>1 DEF SyncTypes, Counts, Lives, Starting, Active, Stopped, Loop,
      Index, Sent, Claimed, Claims, First, LzPlaces, BtPlaces, Fresh, BtWorking, BtStops
  <2>6. LzPlaces' /\ BtPlaces' /\ Sections'
    BY <1>t, <1>l, <2>1 DEF SyncTypes, LzPlaces, BtPlaces, Sections, Lives, Starting, Active,
      Stopped, Resting, Loop, Exiting, Fresh, BtWorking, BtStops
  <2> QED BY <2>2, <2>3, <2>4, <2>5, <2>6 DEF SyncInv
<1>16. CASE ExitThread("hash", "exitHash", "joinHash")
  <2>1. /\ pc["lz"] = "exitHash" /\ Places("joinHash", pc["bt"], pc["hash"])
        /\ SyncsTo(sync["bt"], IF sync["hash"].created THEN [sync["hash"] EXCEPT !.exit = TRUE, !.canStart = TRUE] ELSE sync["hash"])
        /\ SameIndices
    BY <1>16, <1>t DEF SyncTypes, Threads, ExitThread, Move, Goto, runVars, dataVars
  <2>2. SyncTypes'
    <3>1. /\ pc' \in [Threads -> LzPcs \cup BtPcs \cup HashPcs] /\ DOMAIN sync' = Syncs
          /\ result' \in {"none", "ok", "error", "closing"} /\ encodes' \in Nat
      BY <1>16, <1>t DEF LzPcs, BtPcs, HashPcs, SyncTypes, Threads, ExitThread, Move, Goto, runVars, dataVars
    <3>2. SyncType("bt")'
      BY <1>t, <2>1 DEF SyncTypes
    <3>3. /\ DOMAIN sync'["hash"] = SyncFields
          /\ sync'["hash"].exit \in BOOLEAN /\ sync'["hash"].canStart \in BOOLEAN
          /\ \A f \in SyncFields \ {"exit", "canStart"} : sync'["hash"][f] = sync["hash"][f]
      BY <1>t, <2>1 DEF SyncTypes
    <3>4. SyncType("hash")'
      BY <1>t, <3>3 DEF SyncTypes
    <3> QED BY <1>t, <2>1, <3>1, <3>2, <3>4 DEF SyncTypes, LzPcs, BtPcs, HashPcs
  <2>3. Lives("bt")' /\ Lives("hash")'
    BY <1>t, <1>l, <2>1 DEF SyncTypes, Lives, Starting, Active, Stopped, Resting, Exiting, Loop,
      LzPlaces, BtPlaces, Sections, Fresh, BtWorking, BtStops
  <2>4. Counts("bt")'
    BY <1>t, <1>l, <1>c, <2>1 DEF SyncTypes, Counts, Lives, Starting, Active, Stopped, Loop,
      Index, Sent, Claimed, Claims, First, LzPlaces, BtPlaces, Fresh, BtWorking, BtStops
  <2>5. Counts("hash")'
    BY <1>t, <1>l, <1>c, <2>1 DEF SyncTypes, Counts, Lives, Starting, Active, Stopped, Loop,
      Index, Sent, Claimed, Claims, First, LzPlaces, BtPlaces, Fresh, BtWorking, BtStops
  <2>6. LzPlaces' /\ BtPlaces' /\ Sections'
    BY <1>t, <1>l, <2>1 DEF SyncTypes, LzPlaces, BtPlaces, Sections, Lives, Starting, Active,
      Stopped, Resting, Loop, Exiting, Fresh, BtWorking, BtStops
  <2> QED BY <2>2, <2>3, <2>4, <2>5, <2>6 DEF SyncInv
<1>17. CASE JoinThread("hash", "joinHash", "destroyed")
  <2>1. /\ pc["lz"] = "joinHash" /\ Places("destroyed", pc["bt"], pc["hash"])
        /\ SyncsTo(sync["bt"], NewSync)
        /\ sync["hash"].created => pc["hash"] = "done"
        /\ SameIndices
    BY <1>17, <1>t DEF SyncTypes, Threads, JoinThread, Move, Goto, runVars, dataVars
  <2>2. SyncTypes'
    <3>1. /\ pc' \in [Threads -> LzPcs \cup BtPcs \cup HashPcs] /\ DOMAIN sync' = Syncs
          /\ result' \in {"none", "ok", "error", "closing"} /\ encodes' \in Nat
      BY <1>17, <1>t DEF LzPcs, BtPcs, HashPcs, SyncTypes, Threads, JoinThread, Move, Goto, runVars, dataVars
    <3>2. SyncType("bt")' /\ SyncType("hash")'
      BY <1>t, <2>1 DEF SyncTypes
    <3> QED BY <1>t, <2>1, <3>1, <3>2 DEF SyncTypes, LzPcs, BtPcs, HashPcs
  <2>3. Lives("bt")' /\ Lives("hash")'
    BY <1>t, <1>l, <2>1 DEF SyncTypes, Lives, Starting, Active, Stopped, Resting, Exiting, Loop,
      LzPlaces, BtPlaces, Sections, Fresh, BtWorking, BtStops
  <2>4. Counts("bt")'
    BY <1>t, <1>l, <1>c, <2>1 DEF SyncTypes, Counts, Lives, Starting, Active, Stopped, Loop,
      Index, Sent, Claimed, Claims, First, LzPlaces, BtPlaces, Fresh, BtWorking, BtStops
  <2>5. Counts("hash")'
    BY <1>t, <1>l, <1>c, <2>1 DEF SyncTypes, Counts, Lives, Starting, Active, Stopped, Loop,
      Index, Sent, Claimed, Claims, First, LzPlaces, BtPlaces, Fresh, BtWorking, BtStops
  <2>6. LzPlaces' /\ BtPlaces' /\ Sections'
    BY <1>t, <1>l, <2>1 DEF SyncTypes, LzPlaces, BtPlaces, Sections, Lives, Starting, Active,
      Stopped, Resting, Loop, Exiting, Fresh, BtWorking, BtStops
  <2> QED BY <2>2, <2>3, <2>4, <2>5, <2>6 DEF SyncInv
<1>18. CASE InitMt
  <2>0. /\ pc["lz"] = "init" /\ ~Running("bt") /\ sync["bt"].created /\ sync["hash"].created
        /\ ~Running("hash") /\ sync["bt"].cs = Nobody /\ sync["hash"].cs = Nobody
    BY <1>18, <1>t, <1>l DEF SyncTypes, InitMt, LzPlaces, BtPlaces, Lives, Resting
  <2>1. /\ pc["lz"] = "init" /\ Places("run", pc["bt"], pc["hash"])
        /\ SyncsTo([sync["bt"] EXCEPT !.free = NumBlocks("bt"), !.filled = 0], [sync["hash"] EXCEPT !.free = NumBlocks("hash"), !.filled = 0])
        /\ SameIndices
    BY <1>18, <1>t, <2>0 DEF SyncTypes, Threads, InitMt, NumBlocks, Goto, runVars, dataVars
  <2>2. SyncTypes'
    <3>1. /\ pc' \in [Threads -> LzPcs \cup BtPcs \cup HashPcs] /\ DOMAIN sync' = Syncs
          /\ result' \in {"none", "ok", "error", "closing"} /\ encodes' \in Nat
      BY <1>18, <1>t, <2>0 DEF LzPcs, BtPcs, HashPcs, SyncTypes, Threads, InitMt, NumBlocks, Goto, runVars, dataVars
    <3>2. SyncType("bt")'
      BY <1>t, <1>c, <2>1 DEF SyncTypes
    <3>3. SyncType("hash")'
      BY <1>t, <1>c, <2>1 DEF SyncTypes
    <3> QED BY <1>t, <2>1, <3>1, <3>2, <3>3 DEF SyncTypes, LzPcs, BtPcs, HashPcs
  <2>3. Lives("bt")' /\ Lives("hash")'
    BY <1>t, <1>l, <2>1 DEF SyncTypes, Lives, Starting, Active, Stopped, Resting, Exiting, Loop,
      LzPlaces, BtPlaces, Sections, Fresh, BtWorking, BtStops
  <2>4. Counts("bt")'
    BY <1>t, <1>l, <1>c, <2>1 DEF SyncTypes, Counts, Lives, Starting, Active, Stopped, Loop,
      Index, Sent, Claimed, Claims, First, LzPlaces, BtPlaces, Fresh, BtWorking, BtStops
  <2>5. Counts("hash")'
    BY <1>t, <1>l, <1>c, <2>1 DEF SyncTypes, Counts, Lives, Starting, Active, Stopped, Loop,
      Index, Sent, Claimed, Claims, First, LzPlaces, BtPlaces, Fresh, BtWorking, BtStops
  <2>6. LzPlaces' /\ BtPlaces' /\ Sections'
    BY <1>t, <1>l, <2>1 DEF SyncTypes, LzPlaces, BtPlaces, Sections, Lives, Starting, Active,
      Stopped, Resting, Loop, Exiting, Fresh, BtWorking, BtStops
  <2> QED BY <2>2, <2>3, <2>4, <2>5, <2>6 DEF SyncInv
<1> QED BY <1>1, <1>2, <1>3, <1>4, <1>5, <1>6, <1>7, <1>8, <1>9, <1>10, <1>11, <1>12, <1>13, <1>14, <1>15, <1>16, <1>17, <1>18 DEF LzNext, SyncNext, LzGetNextBlock, GetNextBlock

\* The tree thread.
LEMMA BtSync ==
  ASSUME SyncInv, BtNext PROVE SyncInv'
<1> USE DEF SyncType, Syncs, SyncFields, NewSync, Running, Consumer, Nobody, Places, SyncsTo,
    SameIndices
<1>t. SyncTypes
  BY DEF SyncInv
<1>l. Lives("bt") /\ Lives("hash") /\ LzPlaces /\ BtPlaces /\ Sections
  BY DEF SyncInv
<1>c. /\ Counts("bt") /\ Counts("hash")
      /\ NumBlocks("bt") \in Nat \ {0} /\ NumBlocks("hash") \in Nat \ {0}
  BY NumBlocksType DEF SyncInv
<1>1. CASE FilledWait("hash")
  <2>1. /\ pc["bt"] = "filled" /\ Places(pc["lz"], "lock", pc["hash"])
        /\ SyncsTo(sync["bt"], [sync["hash"] EXCEPT !.filled = @ - 1])
        /\ sync["hash"].filled > 0
        /\ SameIndices
    BY <1>1, <1>t DEF SyncTypes, Threads, FilledWait, Move, Goto, runVars, dataVars
  <2>2. SyncTypes'
    <3>1. /\ pc' \in [Threads -> LzPcs \cup BtPcs \cup HashPcs] /\ DOMAIN sync' = Syncs
          /\ result' \in {"none", "ok", "error", "closing"} /\ encodes' \in Nat
      BY <1>1, <1>t DEF LzPcs, BtPcs, HashPcs, SyncTypes, Threads, FilledWait, Move, Goto, runVars, dataVars
    <3>2. SyncType("bt")' /\ SyncType("hash")'
      BY <1>t, <2>1 DEF SyncTypes
    <3> QED BY <1>t, <2>1, <3>1, <3>2 DEF SyncTypes, LzPcs, BtPcs, HashPcs
  <2>3. Lives("bt")' /\ Lives("hash")'
    BY <1>t, <1>l, <2>1 DEF SyncTypes, Lives, Starting, Active, Stopped, Resting, Exiting, Loop,
      LzPlaces, BtPlaces, Sections, Fresh, BtWorking, BtStops
  <2>4. Counts("bt")'
    BY <1>t, <1>l, <1>c, <2>1 DEF SyncTypes, Counts, Lives, Starting, Active, Stopped, Loop,
      Index, Sent, Claimed, Claims, First, LzPlaces, BtPlaces, Fresh, BtWorking, BtStops
  <2>5. Counts("hash")'
    BY <1>t, <1>l, <1>c, <2>1 DEF SyncTypes, Counts, Lives, Starting, Active, Stopped, Loop,
      Index, Sent, Claimed, Claims, First, LzPlaces, BtPlaces, Fresh, BtWorking, BtStops
  <2>6. LzPlaces' /\ BtPlaces' /\ Sections'
    BY <1>t, <1>l, <2>1 DEF SyncTypes, LzPlaces, BtPlaces, Sections, Lives, Starting, Active,
      Stopped, Resting, Loop, Exiting, Fresh, BtWorking, BtStops
  <2> QED BY <2>2, <2>3, <2>4, <2>5, <2>6 DEF SyncInv
<1>2. CASE StopSkip("hash")
  <2>1. /\ pc["bt"] = "stop" /\ Places(pc["lz"], "stopped", pc["hash"])
        /\ SyncsTo(sync["bt"], sync["hash"])
        /\ ~sync["hash"].created \/ sync["hash"].needStart
        /\ SameIndices
    BY <1>2, <1>t DEF SyncTypes, Threads, StopSkip, Move, Goto, runVars, dataVars
  <2>2. SyncTypes'
    <3>1. /\ pc' \in [Threads -> LzPcs \cup BtPcs \cup HashPcs] /\ DOMAIN sync' = Syncs
          /\ result' \in {"none", "ok", "error", "closing"} /\ encodes' \in Nat
      BY <1>2, <1>t DEF LzPcs, BtPcs, HashPcs, SyncTypes, Threads, StopSkip, Move, Goto, runVars, dataVars
    <3>2. SyncType("bt")' /\ SyncType("hash")'
      BY <1>t, <2>1 DEF SyncTypes
    <3> QED BY <1>t, <2>1, <3>1, <3>2 DEF SyncTypes, LzPcs, BtPcs, HashPcs
  <2>3. Lives("bt")' /\ Lives("hash")'
    BY <1>t, <1>l, <2>1 DEF SyncTypes, Lives, Starting, Active, Stopped, Resting, Exiting, Loop,
      LzPlaces, BtPlaces, Sections, Fresh, BtWorking, BtStops
  <2>4. Counts("bt")'
    BY <1>t, <1>l, <1>c, <2>1 DEF SyncTypes, Counts, Lives, Starting, Active, Stopped, Loop,
      Index, Sent, Claimed, Claims, First, LzPlaces, BtPlaces, Fresh, BtWorking, BtStops
  <2>5. Counts("hash")'
    BY <1>t, <1>l, <1>c, <2>1 DEF SyncTypes, Counts, Lives, Starting, Active, Stopped, Loop,
      Index, Sent, Claimed, Claims, First, LzPlaces, BtPlaces, Fresh, BtWorking, BtStops
  <2>6. LzPlaces' /\ BtPlaces' /\ Sections'
    BY <1>t, <1>l, <2>1 DEF SyncTypes, LzPlaces, BtPlaces, Sections, Lives, Starting, Active,
      Stopped, Resting, Loop, Exiting, Fresh, BtWorking, BtStops
  <2> QED BY <2>2, <2>3, <2>4, <2>5, <2>6 DEF SyncInv
<1>3. CASE StopFlag("hash")
  <2>1. /\ pc["bt"] = "stop" /\ Places(pc["lz"], "release", pc["hash"])
        /\ SyncsTo(sync["bt"], [sync["hash"] EXCEPT !.cs = IF @ = "bt" THEN Nobody ELSE @, !.stopWriting = TRUE])
        /\ sync["hash"].created /\ ~sync["hash"].needStart
        /\ SameIndices
    BY <1>3, <1>t DEF SyncTypes, Threads, StopFlag, Move, Goto, runVars, dataVars
  <2>2. SyncTypes'
    <3>1. /\ pc' \in [Threads -> LzPcs \cup BtPcs \cup HashPcs] /\ DOMAIN sync' = Syncs
          /\ result' \in {"none", "ok", "error", "closing"} /\ encodes' \in Nat
      BY <1>3, <1>t DEF LzPcs, BtPcs, HashPcs, SyncTypes, Threads, StopFlag, Move, Goto, runVars, dataVars
    <3>2. SyncType("bt")'
      BY <1>t, <2>1 DEF SyncTypes
    <3>3. /\ DOMAIN sync'["hash"] = SyncFields /\ sync'["hash"].stopWriting = TRUE
          /\ sync'["hash"].cs \in {Nobody, sync["hash"].cs}
          /\ \A f \in SyncFields \ {"cs", "stopWriting"} : sync'["hash"][f] = sync["hash"][f]
      BY <1>t, <2>1 DEF SyncTypes
    <3>4. SyncType("hash")'
      BY <1>t, <3>3 DEF SyncTypes
    <3> QED BY <1>t, <2>1, <3>1, <3>2, <3>4 DEF SyncTypes, LzPcs, BtPcs, HashPcs
  <2>3. Lives("bt")' /\ Lives("hash")'
    BY <1>t, <1>l, <2>1 DEF SyncTypes, Lives, Starting, Active, Stopped, Resting, Exiting, Loop,
      LzPlaces, BtPlaces, Sections, Fresh, BtWorking, BtStops
  <2>4. Counts("bt")'
    BY <1>t, <1>l, <1>c, <2>1 DEF SyncTypes, Counts, Lives, Starting, Active, Stopped, Loop,
      Index, Sent, Claimed, Claims, First, LzPlaces, BtPlaces, Fresh, BtWorking, BtStops
  <2>5. Counts("hash")'
    BY <1>t, <1>l, <1>c, <2>1 DEF SyncTypes, Counts, Lives, Starting, Active, Stopped, Loop,
      Index, Sent, Claimed, Claims, First, LzPlaces, BtPlaces, Fresh, BtWorking, BtStops
  <2>6. LzPlaces' /\ BtPlaces' /\ Sections'
    BY <1>t, <1>l, <2>1 DEF SyncTypes, LzPlaces, BtPlaces, Sections, Lives, Starting, Active,
      Stopped, Resting, Loop, Exiting, Fresh, BtWorking, BtStops
  <2> QED BY <2>2, <2>3, <2>4, <2>5, <2>6 DEF SyncInv
<1>4. CASE StopReleaseFree("hash")
  <2>1. /\ pc["bt"] = "release" /\ Places(pc["lz"], "waitstop", pc["hash"])
        /\ SyncsTo(sync["bt"], [sync["hash"] EXCEPT !.free = @ + 1])
        /\ SameIndices
    BY <1>4, <1>t DEF SyncTypes, Threads, StopReleaseFree, StopRelease, Move, Goto, runVars, dataVars
  <2>2. SyncTypes'
    <3>1. /\ pc' \in [Threads -> LzPcs \cup BtPcs \cup HashPcs] /\ DOMAIN sync' = Syncs
          /\ result' \in {"none", "ok", "error", "closing"} /\ encodes' \in Nat
      BY <1>4, <1>t DEF LzPcs, BtPcs, HashPcs, SyncTypes, Threads, StopReleaseFree, StopRelease, Move, Goto, runVars, dataVars
    <3>2. SyncType("bt")' /\ SyncType("hash")'
      BY <1>t, <2>1 DEF SyncTypes
    <3> QED BY <1>t, <2>1, <3>1, <3>2 DEF SyncTypes, LzPcs, BtPcs, HashPcs
  <2>3. Lives("bt")' /\ Lives("hash")'
    BY <1>t, <1>l, <2>1 DEF SyncTypes, Lives, Starting, Active, Stopped, Resting, Exiting, Loop,
      LzPlaces, BtPlaces, Sections, Fresh, BtWorking, BtStops
  <2>4. Counts("bt")'
    BY <1>t, <1>l, <1>c, <2>1 DEF SyncTypes, Counts, Lives, Starting, Active, Stopped, Loop,
      Index, Sent, Claimed, Claims, First, LzPlaces, BtPlaces, Fresh, BtWorking, BtStops
  <2>5. Counts("hash")'
    BY <1>t, <1>l, <1>c, <2>1 DEF SyncTypes, Counts, Lives, Starting, Active, Stopped, Loop,
      Index, Sent, Claimed, Claims, First, LzPlaces, BtPlaces, Fresh, BtWorking, BtStops
  <2>6. LzPlaces' /\ BtPlaces' /\ Sections'
    BY <1>t, <1>l, <2>1 DEF SyncTypes, LzPlaces, BtPlaces, Sections, Lives, Starting, Active,
      Stopped, Resting, Loop, Exiting, Fresh, BtWorking, BtStops
  <2> QED BY <2>2, <2>3, <2>4, <2>5, <2>6 DEF SyncInv
<1>5. CASE StopWait("hash")
  <2>1. /\ pc["bt"] = "waitstop" /\ Places(pc["lz"], "stopped", pc["hash"])
        /\ SyncsTo(sync["bt"], [sync["hash"] EXCEPT !.wasStopped = FALSE, !.needStart = TRUE])
        /\ sync["hash"].wasStopped
        /\ SameIndices
    BY <1>5, <1>t DEF SyncTypes, Threads, StopWait, Move, Goto, runVars, dataVars
  <2>2. SyncTypes'
    <3>1. /\ pc' \in [Threads -> LzPcs \cup BtPcs \cup HashPcs] /\ DOMAIN sync' = Syncs
          /\ result' \in {"none", "ok", "error", "closing"} /\ encodes' \in Nat
      BY <1>5, <1>t DEF LzPcs, BtPcs, HashPcs, SyncTypes, Threads, StopWait, Move, Goto, runVars, dataVars
    <3>2. SyncType("bt")' /\ SyncType("hash")'
      BY <1>t, <2>1 DEF SyncTypes
    <3> QED BY <1>t, <2>1, <3>1, <3>2 DEF SyncTypes, LzPcs, BtPcs, HashPcs
  <2>3. Lives("bt")' /\ Lives("hash")'
    BY <1>t, <1>l, <2>1 DEF SyncTypes, Lives, Starting, Active, Stopped, Resting, Exiting, Loop,
      LzPlaces, BtPlaces, Sections, Fresh, BtWorking, BtStops
  <2>4. Counts("bt")'
    BY <1>t, <1>l, <1>c, <2>1 DEF SyncTypes, Counts, Lives, Starting, Active, Stopped, Loop,
      Index, Sent, Claimed, Claims, First, LzPlaces, BtPlaces, Fresh, BtWorking, BtStops
  <2>5. Counts("hash")'
    BY <1>t, <1>l, <1>c, <2>1 DEF SyncTypes, Counts, Lives, Starting, Active, Stopped, Loop,
      Index, Sent, Claimed, Claims, First, LzPlaces, BtPlaces, Fresh, BtWorking, BtStops
  <2>6. LzPlaces' /\ BtPlaces' /\ Sections'
    BY <1>t, <1>l, <2>1 DEF SyncTypes, LzPlaces, BtPlaces, Sections, Lives, Starting, Active,
      Stopped, Resting, Loop, Exiting, Fresh, BtWorking, BtStops
  <2> QED BY <2>2, <2>3, <2>4, <2>5, <2>6 DEF SyncInv
<1>6. CASE BtStart
  <2>1. /\ pc["bt"] = "wait" /\ sync["bt"].canStart /\ Places(pc["lz"], IF sync["bt"].exit THEN "done" ELSE "free", pc["hash"])
        /\ SyncsTo([sync["bt"] EXCEPT !.canStart = FALSE], sync["hash"])
        /\ btIndex' = 0 /\ UNCHANGED hashIndex
    BY <1>6, <1>t DEF SyncTypes, Threads, BtStart, CanStart, Goto, runVars
  <2>2. SyncTypes'
    <3>1. /\ pc' \in [Threads -> LzPcs \cup BtPcs \cup HashPcs] /\ DOMAIN sync' = Syncs
          /\ result' \in {"none", "ok", "error", "closing"} /\ encodes' \in Nat
      BY <1>6, <1>t DEF LzPcs, BtPcs, HashPcs, SyncTypes, Threads, BtStart, CanStart, Goto, runVars
    <3>2. SyncType("bt")' /\ SyncType("hash")'
      BY <1>t, <2>1 DEF SyncTypes
    <3> QED BY <1>t, <2>1, <3>1, <3>2 DEF SyncTypes, LzPcs, BtPcs, HashPcs
  <2>3. Lives("bt")' /\ Lives("hash")'
    BY <1>t, <1>l, <2>1 DEF SyncTypes, Lives, Starting, Active, Stopped, Resting, Exiting, Loop,
      LzPlaces, BtPlaces, Sections, Fresh, BtWorking, BtStops
  <2>4. Counts("bt")'
    BY <1>t, <1>l, <1>c, <2>1 DEF SyncTypes, Counts, Lives, Starting, Active, Stopped, Loop,
      Index, Sent, Claimed, Claims, First, LzPlaces, BtPlaces, Fresh, BtWorking, BtStops
  <2>5. Counts("hash")'
    BY <1>t, <1>l, <1>c, <2>1 DEF SyncTypes, Counts, Lives, Starting, Active, Stopped, Loop,
      Index, Sent, Claimed, Claims, First, LzPlaces, BtPlaces, Fresh, BtWorking, BtStops
  <2>6. LzPlaces' /\ BtPlaces' /\ Sections'
    BY <1>t, <1>l, <2>1 DEF SyncTypes, LzPlaces, BtPlaces, Sections, Lives, Starting, Active,
      Stopped, Resting, Loop, Exiting, Fresh, BtWorking, BtStops
  <2> QED BY <2>2, <2>3, <2>4, <2>5, <2>6 DEF SyncInv
<1>7. CASE BtLoop
  <2>1. /\ pc["bt"] = "loop" /\ Places(pc["lz"], IF sync["bt"].exit THEN "done" ELSE "free", pc["hash"])
        /\ SyncsTo(sync["bt"], sync["hash"])
        /\ SameIndices
    BY <1>7, <1>t DEF SyncTypes, Threads, BtLoop, Goto, runVars, dataVars
  <2>2. SyncTypes'
    <3>1. /\ pc' \in [Threads -> LzPcs \cup BtPcs \cup HashPcs] /\ DOMAIN sync' = Syncs
          /\ result' \in {"none", "ok", "error", "closing"} /\ encodes' \in Nat
      BY <1>7, <1>t DEF LzPcs, BtPcs, HashPcs, SyncTypes, Threads, BtLoop, Goto, runVars, dataVars
    <3>2. SyncType("bt")' /\ SyncType("hash")'
      BY <1>t, <2>1 DEF SyncTypes
    <3> QED BY <1>t, <2>1, <3>1, <3>2 DEF SyncTypes, LzPcs, BtPcs, HashPcs
  <2>3. Lives("bt")' /\ Lives("hash")'
    BY <1>t, <1>l, <2>1 DEF SyncTypes, Lives, Starting, Active, Stopped, Resting, Exiting, Loop,
      LzPlaces, BtPlaces, Sections, Fresh, BtWorking, BtStops
  <2>4. Counts("bt")'
    BY <1>t, <1>l, <1>c, <2>1 DEF SyncTypes, Counts, Lives, Starting, Active, Stopped, Loop,
      Index, Sent, Claimed, Claims, First, LzPlaces, BtPlaces, Fresh, BtWorking, BtStops
  <2>5. Counts("hash")'
    BY <1>t, <1>l, <1>c, <2>1 DEF SyncTypes, Counts, Lives, Starting, Active, Stopped, Loop,
      Index, Sent, Claimed, Claims, First, LzPlaces, BtPlaces, Fresh, BtWorking, BtStops
  <2>6. LzPlaces' /\ BtPlaces' /\ Sections'
    BY <1>t, <1>l, <2>1 DEF SyncTypes, LzPlaces, BtPlaces, Sections, Lives, Starting, Active,
      Stopped, Resting, Loop, Exiting, Fresh, BtWorking, BtStops
  <2> QED BY <2>2, <2>3, <2>4, <2>5, <2>6 DEF SyncInv
<1>8. CASE FreeWait("bt")
  <2>1. /\ pc["bt"] = "free" /\ Places(pc["lz"], "check", pc["hash"])
        /\ SyncsTo([sync["bt"] EXCEPT !.free = @ - 1], sync["hash"])
        /\ sync["bt"].free > 0
        /\ SameIndices
    BY <1>8, <1>t DEF SyncTypes, Threads, FreeWait, Move, Goto, runVars, dataVars
  <2>2. SyncTypes'
    <3>1. /\ pc' \in [Threads -> LzPcs \cup BtPcs \cup HashPcs] /\ DOMAIN sync' = Syncs
          /\ result' \in {"none", "ok", "error", "closing"} /\ encodes' \in Nat
      BY <1>8, <1>t DEF LzPcs, BtPcs, HashPcs, SyncTypes, Threads, FreeWait, Move, Goto, runVars, dataVars
    <3>2. SyncType("bt")' /\ SyncType("hash")'
      BY <1>t, <2>1 DEF SyncTypes
    <3> QED BY <1>t, <2>1, <3>1, <3>2 DEF SyncTypes, LzPcs, BtPcs, HashPcs
  <2>3. Lives("bt")' /\ Lives("hash")'
    BY <1>t, <1>l, <2>1 DEF SyncTypes, Lives, Starting, Active, Stopped, Resting, Exiting, Loop,
      LzPlaces, BtPlaces, Sections, Fresh, BtWorking, BtStops
  <2>4. Counts("bt")'
    BY <1>t, <1>l, <1>c, <2>1 DEF SyncTypes, Counts, Lives, Starting, Active, Stopped, Loop,
      Index, Sent, Claimed, Claims, First, LzPlaces, BtPlaces, Fresh, BtWorking, BtStops
  <2>5. Counts("hash")'
    BY <1>t, <1>l, <1>c, <2>1 DEF SyncTypes, Counts, Lives, Starting, Active, Stopped, Loop,
      Index, Sent, Claimed, Claims, First, LzPlaces, BtPlaces, Fresh, BtWorking, BtStops
  <2>6. LzPlaces' /\ BtPlaces' /\ Sections'
    BY <1>t, <1>l, <2>1 DEF SyncTypes, LzPlaces, BtPlaces, Sections, Lives, Starting, Active,
      Stopped, Resting, Loop, Exiting, Fresh, BtWorking, BtStops
  <2> QED BY <2>2, <2>3, <2>4, <2>5, <2>6 DEF SyncInv
<1>9. CASE BtFillBlock
  <2>1. /\ pc["bt"] = "fill" /\ Places(pc["lz"], pc'["bt"], pc["hash"])
        /\ pc'["bt"] \in {"match", "filledUp"}
        /\ sync["hash"].needStart \/ sync["hash"].cs = Nobody
        /\ sync'["bt"] = sync["bt"]
        /\ sync'["hash"] = IF sync["hash"].needStart THEN sync["hash"] ELSE [sync["hash"] EXCEPT !.cs = "bt"]
        /\ SameIndices
    BY <1>9, <1>t DEF SyncTypes, Threads, BtFillBlock, Move, Goto, runVars
  <2>2. SyncTypes'
    <3>1. /\ pc' \in [Threads -> LzPcs \cup BtPcs \cup HashPcs] /\ DOMAIN sync' = Syncs
          /\ result' \in {"none", "ok", "error", "closing"} /\ encodes' \in Nat
      BY <1>9, <1>t DEF LzPcs, BtPcs, HashPcs, SyncTypes, Threads, BtFillBlock, Move, Goto, runVars
    <3>2. SyncType("bt")' /\ SyncType("hash")'
      BY <1>t, <2>1 DEF SyncTypes
    <3> QED BY <1>t, <2>1, <3>1, <3>2 DEF SyncTypes, LzPcs, BtPcs, HashPcs
  <2>3. Lives("bt")' /\ Lives("hash")'
    BY <1>t, <1>l, <2>1 DEF SyncTypes, Lives, Starting, Active, Stopped, Resting, Exiting, Loop,
      LzPlaces, BtPlaces, Sections, Fresh, BtWorking, BtStops
  <2>4. Counts("bt")'
    BY <1>t, <1>l, <1>c, <2>1 DEF SyncTypes, Counts, Lives, Starting, Active, Stopped, Loop,
      Index, Sent, Claimed, Claims, First, LzPlaces, BtPlaces, Fresh, BtWorking, BtStops
  <2>5. Counts("hash")'
    BY <1>t, <1>l, <1>c, <2>1 DEF SyncTypes, Counts, Lives, Starting, Active, Stopped, Loop,
      Index, Sent, Claimed, Claims, First, LzPlaces, BtPlaces, Fresh, BtWorking, BtStops
  <2>6. LzPlaces' /\ BtPlaces' /\ Sections'
    BY <1>t, <1>l, <2>1 DEF SyncTypes, LzPlaces, BtPlaces, Sections, Lives, Starting, Active,
      Stopped, Resting, Loop, Exiting, Fresh, BtWorking, BtStops
  <2> QED BY <2>2, <2>3, <2>4, <2>5, <2>6 DEF SyncInv
<1>10. CASE BtMatch
  <2>1. /\ pc["bt"] = "match" /\ Places(pc["lz"], pc'["bt"], pc["hash"])
        /\ pc'["bt"] \in {"match", "filledUp"}
        /\ SyncsTo(sync["bt"], sync["hash"])
        /\ SameIndices
    BY <1>10, <1>t DEF SyncTypes, Threads, BtMatch, Goto, runVars, dataVars
  <2>2. SyncTypes'
    <3>1. /\ pc' \in [Threads -> LzPcs \cup BtPcs \cup HashPcs] /\ DOMAIN sync' = Syncs
          /\ result' \in {"none", "ok", "error", "closing"} /\ encodes' \in Nat
      BY <1>10, <1>t DEF LzPcs, BtPcs, HashPcs, SyncTypes, Threads, BtMatch, Goto, runVars, dataVars
    <3>2. SyncType("bt")' /\ SyncType("hash")'
      BY <1>t, <2>1 DEF SyncTypes
    <3> QED BY <1>t, <2>1, <3>1, <3>2 DEF SyncTypes, LzPcs, BtPcs, HashPcs
  <2>3. Lives("bt")' /\ Lives("hash")'
    BY <1>t, <1>l, <2>1 DEF SyncTypes, Lives, Starting, Active, Stopped, Resting, Exiting, Loop,
      LzPlaces, BtPlaces, Sections, Fresh, BtWorking, BtStops
  <2>4. Counts("bt")'
    BY <1>t, <1>l, <1>c, <2>1 DEF SyncTypes, Counts, Lives, Starting, Active, Stopped, Loop,
      Index, Sent, Claimed, Claims, First, LzPlaces, BtPlaces, Fresh, BtWorking, BtStops
  <2>5. Counts("hash")'
    BY <1>t, <1>l, <1>c, <2>1 DEF SyncTypes, Counts, Lives, Starting, Active, Stopped, Loop,
      Index, Sent, Claimed, Claims, First, LzPlaces, BtPlaces, Fresh, BtWorking, BtStops
  <2>6. LzPlaces' /\ BtPlaces' /\ Sections'
    BY <1>t, <1>l, <2>1 DEF SyncTypes, LzPlaces, BtPlaces, Sections, Lives, Starting, Active,
      Stopped, Resting, Loop, Exiting, Fresh, BtWorking, BtStops
  <2> QED BY <2>2, <2>3, <2>4, <2>5, <2>6 DEF SyncInv
<1>11. CASE BtFailure
  <2>1. /\ pc["bt"] = "match" /\ Places(pc["lz"], "filledUp", pc["hash"])
        /\ SyncsTo(sync["bt"], sync["hash"])
        /\ SameIndices
    BY <1>11, <1>t DEF SyncTypes, Threads, BtFailure, Goto, runVars, dataVars
  <2>2. SyncTypes'
    <3>1. /\ pc' \in [Threads -> LzPcs \cup BtPcs \cup HashPcs] /\ DOMAIN sync' = Syncs
          /\ result' \in {"none", "ok", "error", "closing"} /\ encodes' \in Nat
      BY <1>11, <1>t DEF LzPcs, BtPcs, HashPcs, SyncTypes, Threads, BtFailure, Goto, runVars, dataVars
    <3>2. SyncType("bt")' /\ SyncType("hash")'
      BY <1>t, <2>1 DEF SyncTypes
    <3> QED BY <1>t, <2>1, <3>1, <3>2 DEF SyncTypes, LzPcs, BtPcs, HashPcs
  <2>3. Lives("bt")' /\ Lives("hash")'
    BY <1>t, <1>l, <2>1 DEF SyncTypes, Lives, Starting, Active, Stopped, Resting, Exiting, Loop,
      LzPlaces, BtPlaces, Sections, Fresh, BtWorking, BtStops
  <2>4. Counts("bt")'
    BY <1>t, <1>l, <1>c, <2>1 DEF SyncTypes, Counts, Lives, Starting, Active, Stopped, Loop,
      Index, Sent, Claimed, Claims, First, LzPlaces, BtPlaces, Fresh, BtWorking, BtStops
  <2>5. Counts("hash")'
    BY <1>t, <1>l, <1>c, <2>1 DEF SyncTypes, Counts, Lives, Starting, Active, Stopped, Loop,
      Index, Sent, Claimed, Claims, First, LzPlaces, BtPlaces, Fresh, BtWorking, BtStops
  <2>6. LzPlaces' /\ BtPlaces' /\ Sections'
    BY <1>t, <1>l, <2>1 DEF SyncTypes, LzPlaces, BtPlaces, Sections, Lives, Starting, Active,
      Stopped, Resting, Loop, Exiting, Fresh, BtWorking, BtStops
  <2> QED BY <2>2, <2>3, <2>4, <2>5, <2>6 DEF SyncInv
<1>12. CASE BtGetNextBlock /\ NextStart("hash")
  <2>1. /\ pc["bt"] = "match" /\ Places(pc["lz"], "filled", pc["hash"])
        /\ SyncsTo(sync["bt"], [sync["hash"] EXCEPT !.numProcessed = 1, !.needStart = FALSE, !.stopWriting = FALSE,
                           !.exit = FALSE, !.wasStopped = FALSE, !.canStart = TRUE])
        /\ sync["hash"].needStart
        /\ SameIndices
    BY <1>12, <1>t DEF SyncTypes, Threads, BtGetNextBlock, NextStart, Started, Goto, runVars, dataVars
  <2>2. SyncTypes'
    <3>1. /\ pc' \in [Threads -> LzPcs \cup BtPcs \cup HashPcs] /\ DOMAIN sync' = Syncs
          /\ result' \in {"none", "ok", "error", "closing"} /\ encodes' \in Nat
      BY <1>12, <1>t DEF LzPcs, BtPcs, HashPcs, SyncTypes, Threads, BtGetNextBlock, NextStart, Started, Goto, runVars, dataVars
    <3>2. SyncType("bt")' /\ SyncType("hash")'
      BY <1>t, <2>1 DEF SyncTypes
    <3> QED BY <1>t, <2>1, <3>1, <3>2 DEF SyncTypes, LzPcs, BtPcs, HashPcs
  <2>3. Lives("bt")' /\ Lives("hash")'
    BY <1>t, <1>l, <2>1 DEF SyncTypes, Lives, Starting, Active, Stopped, Resting, Exiting, Loop,
      LzPlaces, BtPlaces, Sections, Fresh, BtWorking, BtStops
  <2>4. Counts("bt")'
    BY <1>t, <1>l, <1>c, <2>1 DEF SyncTypes, Counts, Lives, Starting, Active, Stopped, Loop,
      Index, Sent, Claimed, Claims, First, LzPlaces, BtPlaces, Fresh, BtWorking, BtStops
  <2>5. Counts("hash")'
    <3>1. /\ pc["hash"] = "wait" /\ sync'["hash"].numProcessed = 1
          /\ sync'["hash"].free = NumBlocks("hash") /\ sync'["hash"].filled = 0
      BY <1>t, <1>l, <2>1 DEF SyncTypes, Lives, Starting, Active, Stopped, Resting, Exiting,
        Loop, LzPlaces, BtPlaces, Sections, Fresh, BtWorking, BtStops
    <3> QED BY <1>t, <1>c, <2>1, <3>1 DEF SyncTypes, Counts, Index, Sent, Claimed, Claims, First
  <2>6. LzPlaces' /\ BtPlaces' /\ Sections'
    BY <1>t, <1>l, <2>1 DEF SyncTypes, LzPlaces, BtPlaces, Sections, Lives, Starting, Active,
      Stopped, Resting, Loop, Exiting, Fresh, BtWorking, BtStops
  <2> QED BY <2>2, <2>3, <2>4, <2>5, <2>6 DEF SyncInv
<1>13. CASE BtGetNextBlock /\ NextFree("hash")
  <2>1. /\ pc["bt"] = "match" /\ Places(pc["lz"], "filled", pc["hash"])
        /\ SyncsTo(sync["bt"], [sync["hash"] EXCEPT !.cs = Nobody, !.numProcessed = @ + 1, !.free = @ + 1])
        /\ ~sync["hash"].needStart
        /\ SameIndices
    BY <1>13, <1>t DEF SyncTypes, Threads, BtGetNextBlock, NextFree, Goto, runVars, dataVars
  <2>2. SyncTypes'
    <3>1. /\ pc' \in [Threads -> LzPcs \cup BtPcs \cup HashPcs] /\ DOMAIN sync' = Syncs
          /\ result' \in {"none", "ok", "error", "closing"} /\ encodes' \in Nat
      BY <1>13, <1>t DEF LzPcs, BtPcs, HashPcs, SyncTypes, Threads, BtGetNextBlock, NextFree, Goto, runVars, dataVars
    <3>2. SyncType("bt")' /\ SyncType("hash")'
      BY <1>t, <2>1 DEF SyncTypes
    <3> QED BY <1>t, <2>1, <3>1, <3>2 DEF SyncTypes, LzPcs, BtPcs, HashPcs
  <2>3. Lives("bt")' /\ Lives("hash")'
    BY <1>t, <1>l, <2>1 DEF SyncTypes, Lives, Starting, Active, Stopped, Resting, Exiting, Loop,
      LzPlaces, BtPlaces, Sections, Fresh, BtWorking, BtStops
  <2>4. Counts("bt")'
    BY <1>t, <1>l, <1>c, <2>1 DEF SyncTypes, Counts, Lives, Starting, Active, Stopped, Loop,
      Index, Sent, Claimed, Claims, First, LzPlaces, BtPlaces, Fresh, BtWorking, BtStops
  <2>5. Counts("hash")'
    <3>1. /\ Running("hash") /\ sync'["hash"].numProcessed = sync["hash"].numProcessed + 1
          /\ sync'["hash"].free = sync["hash"].free + 1 /\ sync'["hash"].filled = sync["hash"].filled
      BY <1>t, <1>l, <2>1 DEF SyncTypes, Lives, Starting, Active, Stopped, Resting, Exiting,
        Loop, LzPlaces, BtPlaces, Sections, Fresh, BtWorking, BtStops
    <3> QED BY <1>t, <1>c, <2>1, <3>1 DEF SyncTypes, Counts, Index, Sent, Claimed, Claims, First
  <2>6. LzPlaces' /\ BtPlaces' /\ Sections'
    BY <1>t, <1>l, <2>1 DEF SyncTypes, LzPlaces, BtPlaces, Sections, Lives, Starting, Active,
      Stopped, Resting, Loop, Exiting, Fresh, BtWorking, BtStops
  <2> QED BY <2>2, <2>3, <2>4, <2>5, <2>6 DEF SyncInv
<1>14. CASE BtTake
  <2>1. /\ pc["bt"] = "lock" /\ Places(pc["lz"], pc'["bt"], pc["hash"])
        /\ pc'["bt"] \in {"match", "filledUp"}
        /\ SyncsTo(sync["bt"], [sync["hash"] EXCEPT !.cs = "bt"])
        /\ sync["hash"].cs = Nobody
        /\ SameIndices
    BY <1>14, <1>t DEF SyncTypes, Threads, BtTake, Move, Goto, runVars, dataVars
  <2>2. SyncTypes'
    <3>1. /\ pc' \in [Threads -> LzPcs \cup BtPcs \cup HashPcs] /\ DOMAIN sync' = Syncs
          /\ result' \in {"none", "ok", "error", "closing"} /\ encodes' \in Nat
      BY <1>14, <1>t DEF LzPcs, BtPcs, HashPcs, SyncTypes, Threads, BtTake, Move, Goto, runVars, dataVars
    <3>2. SyncType("bt")' /\ SyncType("hash")'
      BY <1>t, <2>1 DEF SyncTypes
    <3> QED BY <1>t, <2>1, <3>1, <3>2 DEF SyncTypes, LzPcs, BtPcs, HashPcs
  <2>3. Lives("bt")' /\ Lives("hash")'
    BY <1>t, <1>l, <2>1 DEF SyncTypes, Lives, Starting, Active, Stopped, Resting, Exiting, Loop,
      LzPlaces, BtPlaces, Sections, Fresh, BtWorking, BtStops
  <2>4. Counts("bt")'
    BY <1>t, <1>l, <1>c, <2>1 DEF SyncTypes, Counts, Lives, Starting, Active, Stopped, Loop,
      Index, Sent, Claimed, Claims, First, LzPlaces, BtPlaces, Fresh, BtWorking, BtStops
  <2>5. Counts("hash")'
    BY <1>t, <1>l, <1>c, <2>1 DEF SyncTypes, Counts, Lives, Starting, Active, Stopped, Loop,
      Index, Sent, Claimed, Claims, First, LzPlaces, BtPlaces, Fresh, BtWorking, BtStops
  <2>6. LzPlaces' /\ BtPlaces' /\ Sections'
    BY <1>t, <1>l, <2>1 DEF SyncTypes, LzPlaces, BtPlaces, Sections, Lives, Starting, Active,
      Stopped, Resting, Loop, Exiting, Fresh, BtWorking, BtStops
  <2> QED BY <2>2, <2>3, <2>4, <2>5, <2>6 DEF SyncInv
<1>15. CASE BtFilled
  <2>1. /\ pc["bt"] = "filledUp" /\ Places(pc["lz"], "send", pc["hash"])
        /\ SyncsTo(sync["bt"], [sync["hash"] EXCEPT !.cs = Nobody])
        /\ btIndex' = btIndex + 1 /\ UNCHANGED hashIndex
    BY <1>15, <1>t DEF SyncTypes, Threads, BtFilled, Move, Goto, runVars, dataVars
  <2>2. SyncTypes'
    <3>1. /\ pc' \in [Threads -> LzPcs \cup BtPcs \cup HashPcs] /\ DOMAIN sync' = Syncs
          /\ result' \in {"none", "ok", "error", "closing"} /\ encodes' \in Nat
      BY <1>15, <1>t DEF LzPcs, BtPcs, HashPcs, SyncTypes, Threads, BtFilled, Move, Goto, runVars, dataVars
    <3>2. SyncType("bt")' /\ SyncType("hash")'
      BY <1>t, <2>1 DEF SyncTypes
    <3> QED BY <1>t, <2>1, <3>1, <3>2 DEF SyncTypes, LzPcs, BtPcs, HashPcs
  <2>3. Lives("bt")' /\ Lives("hash")'
    BY <1>t, <1>l, <2>1 DEF SyncTypes, Lives, Starting, Active, Stopped, Resting, Exiting, Loop,
      LzPlaces, BtPlaces, Sections, Fresh, BtWorking, BtStops
  <2>4. Counts("bt")'
    BY <1>t, <1>l, <1>c, <2>1 DEF SyncTypes, Counts, Lives, Starting, Active, Stopped, Loop,
      Index, Sent, Claimed, Claims, First, LzPlaces, BtPlaces, Fresh, BtWorking, BtStops
  <2>5. Counts("hash")'
    BY <1>t, <1>l, <1>c, <2>1 DEF SyncTypes, Counts, Lives, Starting, Active, Stopped, Loop,
      Index, Sent, Claimed, Claims, First, LzPlaces, BtPlaces, Fresh, BtWorking, BtStops
  <2>6. LzPlaces' /\ BtPlaces' /\ Sections'
    BY <1>t, <1>l, <2>1 DEF SyncTypes, LzPlaces, BtPlaces, Sections, Lives, Starting, Active,
      Stopped, Resting, Loop, Exiting, Fresh, BtWorking, BtStops
  <2> QED BY <2>2, <2>3, <2>4, <2>5, <2>6 DEF SyncInv
<1>16. CASE Send("bt")
  <2>1. /\ pc["bt"] = "send" /\ Places(pc["lz"], "loop", pc["hash"])
        /\ SyncsTo([sync["bt"] EXCEPT !.filled = @ + 1], sync["hash"])
        /\ SameIndices
    BY <1>16, <1>t DEF SyncTypes, Threads, Send, Move, Goto, runVars, dataVars
  <2>2. SyncTypes'
    <3>1. /\ pc' \in [Threads -> LzPcs \cup BtPcs \cup HashPcs] /\ DOMAIN sync' = Syncs
          /\ result' \in {"none", "ok", "error", "closing"} /\ encodes' \in Nat
      BY <1>16, <1>t DEF LzPcs, BtPcs, HashPcs, SyncTypes, Threads, Send, Move, Goto, runVars, dataVars
    <3>2. SyncType("bt")' /\ SyncType("hash")'
      BY <1>t, <2>1 DEF SyncTypes
    <3> QED BY <1>t, <2>1, <3>1, <3>2 DEF SyncTypes, LzPcs, BtPcs, HashPcs
  <2>3. Lives("bt")' /\ Lives("hash")'
    BY <1>t, <1>l, <2>1 DEF SyncTypes, Lives, Starting, Active, Stopped, Resting, Exiting, Loop,
      LzPlaces, BtPlaces, Sections, Fresh, BtWorking, BtStops
  <2>4. Counts("bt")'
    <3>1. /\ Running("bt") /\ Running("bt")' /\ sync'["bt"].numProcessed = sync["bt"].numProcessed
          /\ sync'["bt"].free = sync["bt"].free /\ sync'["bt"].filled = sync["bt"].filled + 1
          /\ pc[Consumer("bt")]' = pc[Consumer("bt")]
      BY <1>t, <1>l, <2>1 DEF SyncTypes, Lives, Starting, Active, Stopped, Resting, Exiting,
        Loop, LzPlaces, BtPlaces, Sections, Fresh, BtWorking, BtStops
    <3> QED BY <1>t, <1>c, <2>1, <3>1 DEF SyncTypes, Counts, Index, Sent, Claimed, Claims, First
  <2>5. Counts("hash")'
    BY <1>t, <1>l, <1>c, <2>1 DEF SyncTypes, Counts, Lives, Starting, Active, Stopped, Loop,
      Index, Sent, Claimed, Claims, First, LzPlaces, BtPlaces, Fresh, BtWorking, BtStops
  <2>6. LzPlaces' /\ BtPlaces' /\ Sections'
    BY <1>t, <1>l, <2>1 DEF SyncTypes, LzPlaces, BtPlaces, Sections, Lives, Starting, Active,
      Stopped, Resting, Loop, Exiting, Fresh, BtWorking, BtStops
  <2> QED BY <2>2, <2>3, <2>4, <2>5, <2>6 DEF SyncInv
<1>17. CASE BtBreak
  <2>1. /\ pc["bt"] = "check" /\ Places(pc["lz"], "stop", pc["hash"])
        /\ SyncsTo(sync["bt"], sync["hash"])
        /\ sync["bt"].stopWriting
        /\ SameIndices
    BY <1>17, <1>t DEF SyncTypes, Threads, BtBreak, StopHash, Move, Goto, runVars, dataVars
  <2>2. SyncTypes'
    <3>1. /\ pc' \in [Threads -> LzPcs \cup BtPcs \cup HashPcs] /\ DOMAIN sync' = Syncs
          /\ result' \in {"none", "ok", "error", "closing"} /\ encodes' \in Nat
      BY <1>17, <1>t DEF LzPcs, BtPcs, HashPcs, SyncTypes, Threads, BtBreak, StopHash, Move, Goto, runVars, dataVars
    <3>2. SyncType("bt")' /\ SyncType("hash")'
      BY <1>t, <2>1 DEF SyncTypes
    <3> QED BY <1>t, <2>1, <3>1, <3>2 DEF SyncTypes, LzPcs, BtPcs, HashPcs
  <2>3. Lives("bt")' /\ Lives("hash")'
    BY <1>t, <1>l, <2>1 DEF SyncTypes, Lives, Starting, Active, Stopped, Resting, Exiting, Loop,
      LzPlaces, BtPlaces, Sections, Fresh, BtWorking, BtStops
  <2>4. Counts("bt")'
    BY <1>t, <1>l, <1>c, <2>1 DEF SyncTypes, Counts, Lives, Starting, Active, Stopped, Loop,
      Index, Sent, Claimed, Claims, First, LzPlaces, BtPlaces, Fresh, BtWorking, BtStops
  <2>5. Counts("hash")'
    BY <1>t, <1>l, <1>c, <2>1 DEF SyncTypes, Counts, Lives, Starting, Active, Stopped, Loop,
      Index, Sent, Claimed, Claims, First, LzPlaces, BtPlaces, Fresh, BtWorking, BtStops
  <2>6. LzPlaces' /\ BtPlaces' /\ Sections'
    BY <1>t, <1>l, <2>1 DEF SyncTypes, LzPlaces, BtPlaces, Sections, Lives, Starting, Active,
      Stopped, Resting, Loop, Exiting, Fresh, BtWorking, BtStops
  <2> QED BY <2>2, <2>3, <2>4, <2>5, <2>6 DEF SyncInv
<1>18. CASE BtStopped
  <2>1. /\ pc["bt"] = "stopped" /\ Places(pc["lz"], "wait", pc["hash"])
        /\ SyncsTo([sync["bt"] EXCEPT !.wasStopped = TRUE], sync["hash"])
        /\ SameIndices
    BY <1>18, <1>t DEF SyncTypes, Threads, BtStopped, SetStopped, Goto, runVars, dataVars
  <2>2. SyncTypes'
    <3>1. /\ pc' \in [Threads -> LzPcs \cup BtPcs \cup HashPcs] /\ DOMAIN sync' = Syncs
          /\ result' \in {"none", "ok", "error", "closing"} /\ encodes' \in Nat
      BY <1>18, <1>t DEF LzPcs, BtPcs, HashPcs, SyncTypes, Threads, BtStopped, SetStopped, Goto, runVars, dataVars
    <3>2. SyncType("bt")' /\ SyncType("hash")'
      BY <1>t, <2>1 DEF SyncTypes
    <3> QED BY <1>t, <2>1, <3>1, <3>2 DEF SyncTypes, LzPcs, BtPcs, HashPcs
  <2>3. Lives("bt")' /\ Lives("hash")'
    BY <1>t, <1>l, <2>1 DEF SyncTypes, Lives, Starting, Active, Stopped, Resting, Exiting, Loop,
      LzPlaces, BtPlaces, Sections, Fresh, BtWorking, BtStops
  <2>4. Counts("bt")'
    BY <1>t, <1>l, <1>c, <2>1 DEF SyncTypes, Counts, Lives, Starting, Active, Stopped, Loop,
      Index, Sent, Claimed, Claims, First, LzPlaces, BtPlaces, Fresh, BtWorking, BtStops
  <2>5. Counts("hash")'
    BY <1>t, <1>l, <1>c, <2>1 DEF SyncTypes, Counts, Lives, Starting, Active, Stopped, Loop,
      Index, Sent, Claimed, Claims, First, LzPlaces, BtPlaces, Fresh, BtWorking, BtStops
  <2>6. LzPlaces' /\ BtPlaces' /\ Sections'
    BY <1>t, <1>l, <2>1 DEF SyncTypes, LzPlaces, BtPlaces, Sections, Lives, Starting, Active,
      Stopped, Resting, Loop, Exiting, Fresh, BtWorking, BtStops
  <2> QED BY <2>2, <2>3, <2>4, <2>5, <2>6 DEF SyncInv
<1>19. CASE BtGoOn
  <2>1. /\ pc["bt"] = "check" /\ Places(pc["lz"], "fill", pc["hash"])
        /\ SyncsTo(sync["bt"], sync["hash"])
        /\ SameIndices
    BY <1>19, <1>t DEF SyncTypes, Threads, BtGoOn, Move, Goto, runVars, dataVars
  <2>2. SyncTypes'
    <3>1. /\ pc' \in [Threads -> LzPcs \cup BtPcs \cup HashPcs] /\ DOMAIN sync' = Syncs
          /\ result' \in {"none", "ok", "error", "closing"} /\ encodes' \in Nat
      BY <1>19, <1>t DEF LzPcs, BtPcs, HashPcs, SyncTypes, Threads, BtGoOn, Move, Goto, runVars, dataVars
    <3>2. SyncType("bt")' /\ SyncType("hash")'
      BY <1>t, <2>1 DEF SyncTypes
    <3> QED BY <1>t, <2>1, <3>1, <3>2 DEF SyncTypes, LzPcs, BtPcs, HashPcs
  <2>3. Lives("bt")' /\ Lives("hash")'
    BY <1>t, <1>l, <2>1 DEF SyncTypes, Lives, Starting, Active, Stopped, Resting, Exiting, Loop,
      LzPlaces, BtPlaces, Sections, Fresh, BtWorking, BtStops
  <2>4. Counts("bt")'
    BY <1>t, <1>l, <1>c, <2>1 DEF SyncTypes, Counts, Lives, Starting, Active, Stopped, Loop,
      Index, Sent, Claimed, Claims, First, LzPlaces, BtPlaces, Fresh, BtWorking, BtStops
  <2>5. Counts("hash")'
    BY <1>t, <1>l, <1>c, <2>1 DEF SyncTypes, Counts, Lives, Starting, Active, Stopped, Loop,
      Index, Sent, Claimed, Claims, First, LzPlaces, BtPlaces, Fresh, BtWorking, BtStops
  <2>6. LzPlaces' /\ BtPlaces' /\ Sections'
    BY <1>t, <1>l, <2>1 DEF SyncTypes, LzPlaces, BtPlaces, Sections, Lives, Starting, Active,
      Stopped, Resting, Loop, Exiting, Fresh, BtWorking, BtStops
  <2> QED BY <2>2, <2>3, <2>4, <2>5, <2>6 DEF SyncInv
<1> QED BY <1>1, <1>2, <1>3, <1>4, <1>5, <1>6, <1>7, <1>8, <1>9, <1>10, <1>11, <1>12, <1>13, <1>14, <1>15, <1>16, <1>17, <1>18, <1>19 DEF BtNext, SyncNext, BtGetNextBlock, GetNextBlock

\* The hash thread.
LEMMA HashSync ==
  ASSUME SyncInv, HashNext PROVE SyncInv'
<1> USE DEF SyncType, Syncs, SyncFields, NewSync, Running, Consumer, Nobody, Places, SyncsTo,
    SameIndices
<1>t. SyncTypes
  BY DEF SyncInv
<1>l. Lives("bt") /\ Lives("hash") /\ LzPlaces /\ BtPlaces /\ Sections
  BY DEF SyncInv
<1>c. /\ Counts("bt") /\ Counts("hash")
      /\ NumBlocks("bt") \in Nat \ {0} /\ NumBlocks("hash") \in Nat \ {0}
  BY NumBlocksType DEF SyncInv
<1>1. CASE HashStart
  <2>1. /\ pc["hash"] = "wait" /\ sync["hash"].canStart /\ Places(pc["lz"], pc["bt"], IF sync["hash"].exit THEN "done" ELSE "loop")
        /\ SyncsTo(sync["bt"], [sync["hash"] EXCEPT !.canStart = FALSE])
        /\ hashIndex' = 0 /\ UNCHANGED btIndex
    BY <1>1, <1>t DEF SyncTypes, Threads, HashStart, CanStart, Goto, runVars
  <2>2. SyncTypes'
    <3>1. /\ pc' \in [Threads -> LzPcs \cup BtPcs \cup HashPcs] /\ DOMAIN sync' = Syncs
          /\ result' \in {"none", "ok", "error", "closing"} /\ encodes' \in Nat
      BY <1>1, <1>t DEF LzPcs, BtPcs, HashPcs, SyncTypes, Threads, HashStart, CanStart, Goto, runVars
    <3>2. SyncType("bt")' /\ SyncType("hash")'
      BY <1>t, <2>1 DEF SyncTypes
    <3> QED BY <1>t, <2>1, <3>1, <3>2 DEF SyncTypes, LzPcs, BtPcs, HashPcs
  <2>3. Lives("bt")' /\ Lives("hash")'
    BY <1>t, <1>l, <2>1 DEF SyncTypes, Lives, Starting, Active, Stopped, Resting, Exiting, Loop,
      LzPlaces, BtPlaces, Sections, Fresh, BtWorking, BtStops
  <2>4. Counts("bt")'
    BY <1>t, <1>l, <1>c, <2>1 DEF SyncTypes, Counts, Lives, Starting, Active, Stopped, Loop,
      Index, Sent, Claimed, Claims, First, LzPlaces, BtPlaces, Fresh, BtWorking, BtStops
  <2>5. Counts("hash")'
    BY <1>t, <1>l, <1>c, <2>1 DEF SyncTypes, Counts, Lives, Starting, Active, Stopped, Loop,
      Index, Sent, Claimed, Claims, First, LzPlaces, BtPlaces, Fresh, BtWorking, BtStops
  <2>6. LzPlaces' /\ BtPlaces' /\ Sections'
    BY <1>t, <1>l, <2>1 DEF SyncTypes, LzPlaces, BtPlaces, Sections, Lives, Starting, Active,
      Stopped, Resting, Loop, Exiting, Fresh, BtWorking, BtStops
  <2> QED BY <2>2, <2>3, <2>4, <2>5, <2>6 DEF SyncInv
<1>2. CASE HashLoop
  <2>1. /\ pc["hash"] = "loop" /\ Places(pc["lz"], pc["bt"], pc'["hash"])
        /\ pc'["hash"] \in {"free", "enterBt"}
        /\ SyncsTo(sync["bt"], sync["hash"])
        /\ SameIndices
    BY <1>2, <1>t DEF SyncTypes, Threads, HashLoop, FirstLock, Goto, runVars, dataVars
  <2>2. SyncTypes'
    <3>1. /\ pc' \in [Threads -> LzPcs \cup BtPcs \cup HashPcs] /\ DOMAIN sync' = Syncs
          /\ result' \in {"none", "ok", "error", "closing"} /\ encodes' \in Nat
      BY <1>2, <1>t DEF LzPcs, BtPcs, HashPcs, SyncTypes, Threads, HashLoop, FirstLock, Goto, runVars, dataVars
    <3>2. SyncType("bt")' /\ SyncType("hash")'
      BY <1>t, <2>1 DEF SyncTypes
    <3> QED BY <1>t, <2>1, <3>1, <3>2 DEF SyncTypes, LzPcs, BtPcs, HashPcs
  <2>3. Lives("bt")' /\ Lives("hash")'
    BY <1>t, <1>l, <2>1 DEF SyncTypes, Lives, Starting, Active, Stopped, Resting, Exiting, Loop,
      LzPlaces, BtPlaces, Sections, Fresh, BtWorking, BtStops
  <2>4. Counts("bt")'
    BY <1>t, <1>l, <1>c, <2>1 DEF SyncTypes, Counts, Lives, Starting, Active, Stopped, Loop,
      Index, Sent, Claimed, Claims, First, LzPlaces, BtPlaces, Fresh, BtWorking, BtStops
  <2>5. Counts("hash")'
    BY <1>t, <1>l, <1>c, <2>1 DEF SyncTypes, Counts, Lives, Starting, Active, Stopped, Loop,
      Index, Sent, Claimed, Claims, First, LzPlaces, BtPlaces, Fresh, BtWorking, BtStops
  <2>6. LzPlaces' /\ BtPlaces' /\ Sections'
    BY <1>t, <1>l, <2>1 DEF SyncTypes, LzPlaces, BtPlaces, Sections, Lives, Starting, Active,
      Stopped, Resting, Loop, Exiting, Fresh, BtWorking, BtStops
  <2> QED BY <2>2, <2>3, <2>4, <2>5, <2>6 DEF SyncInv
<1>3. CASE FreeWait("hash")
  <2>1. /\ pc["hash"] = "free" /\ Places(pc["lz"], pc["bt"], "check")
        /\ SyncsTo(sync["bt"], [sync["hash"] EXCEPT !.free = @ - 1])
        /\ sync["hash"].free > 0
        /\ SameIndices
    BY <1>3, <1>t DEF SyncTypes, Threads, FreeWait, Move, Goto, runVars, dataVars
  <2>2. SyncTypes'
    <3>1. /\ pc' \in [Threads -> LzPcs \cup BtPcs \cup HashPcs] /\ DOMAIN sync' = Syncs
          /\ result' \in {"none", "ok", "error", "closing"} /\ encodes' \in Nat
      BY <1>3, <1>t DEF LzPcs, BtPcs, HashPcs, SyncTypes, Threads, FreeWait, Move, Goto, runVars, dataVars
    <3>2. SyncType("bt")' /\ SyncType("hash")'
      BY <1>t, <2>1 DEF SyncTypes
    <3> QED BY <1>t, <2>1, <3>1, <3>2 DEF SyncTypes, LzPcs, BtPcs, HashPcs
  <2>3. Lives("bt")' /\ Lives("hash")'
    BY <1>t, <1>l, <2>1 DEF SyncTypes, Lives, Starting, Active, Stopped, Resting, Exiting, Loop,
      LzPlaces, BtPlaces, Sections, Fresh, BtWorking, BtStops
  <2>4. Counts("bt")'
    BY <1>t, <1>l, <1>c, <2>1 DEF SyncTypes, Counts, Lives, Starting, Active, Stopped, Loop,
      Index, Sent, Claimed, Claims, First, LzPlaces, BtPlaces, Fresh, BtWorking, BtStops
  <2>5. Counts("hash")'
    BY <1>t, <1>l, <1>c, <2>1 DEF SyncTypes, Counts, Lives, Starting, Active, Stopped, Loop,
      Index, Sent, Claimed, Claims, First, LzPlaces, BtPlaces, Fresh, BtWorking, BtStops
  <2>6. LzPlaces' /\ BtPlaces' /\ Sections'
    BY <1>t, <1>l, <2>1 DEF SyncTypes, LzPlaces, BtPlaces, Sections, Lives, Starting, Active,
      Stopped, Resting, Loop, Exiting, Fresh, BtWorking, BtStops
  <2> QED BY <2>2, <2>3, <2>4, <2>5, <2>6 DEF SyncInv
<1>4. CASE Enter("bt", "enterBt", "enterHash")
  <2>1. /\ pc["hash"] = "enterBt" /\ Places(pc["lz"], pc["bt"], "enterHash")
        /\ SyncsTo([sync["bt"] EXCEPT !.cs = "hash"], sync["hash"])
        /\ sync["bt"].cs = Nobody
        /\ SameIndices
    BY <1>4, <1>t DEF SyncTypes, Threads, Enter, Move, Goto, runVars, dataVars
  <2>2. SyncTypes'
    <3>1. /\ pc' \in [Threads -> LzPcs \cup BtPcs \cup HashPcs] /\ DOMAIN sync' = Syncs
          /\ result' \in {"none", "ok", "error", "closing"} /\ encodes' \in Nat
      BY <1>4, <1>t DEF LzPcs, BtPcs, HashPcs, SyncTypes, Threads, Enter, Move, Goto, runVars, dataVars
    <3>2. SyncType("bt")' /\ SyncType("hash")'
      BY <1>t, <2>1 DEF SyncTypes
    <3> QED BY <1>t, <2>1, <3>1, <3>2 DEF SyncTypes, LzPcs, BtPcs, HashPcs
  <2>3. Lives("bt")' /\ Lives("hash")'
    BY <1>t, <1>l, <2>1 DEF SyncTypes, Lives, Starting, Active, Stopped, Resting, Exiting, Loop,
      LzPlaces, BtPlaces, Sections, Fresh, BtWorking, BtStops
  <2>4. Counts("bt")'
    BY <1>t, <1>l, <1>c, <2>1 DEF SyncTypes, Counts, Lives, Starting, Active, Stopped, Loop,
      Index, Sent, Claimed, Claims, First, LzPlaces, BtPlaces, Fresh, BtWorking, BtStops
  <2>5. Counts("hash")'
    BY <1>t, <1>l, <1>c, <2>1 DEF SyncTypes, Counts, Lives, Starting, Active, Stopped, Loop,
      Index, Sent, Claimed, Claims, First, LzPlaces, BtPlaces, Fresh, BtWorking, BtStops
  <2>6. LzPlaces' /\ BtPlaces' /\ Sections'
    BY <1>t, <1>l, <2>1 DEF SyncTypes, LzPlaces, BtPlaces, Sections, Lives, Starting, Active,
      Stopped, Resting, Loop, Exiting, Fresh, BtWorking, BtStops
  <2> QED BY <2>2, <2>3, <2>4, <2>5, <2>6 DEF SyncInv
<1>5. CASE Enter("hash", "enterHash", "move")
  <2>1. /\ pc["hash"] = "enterHash" /\ Places(pc["lz"], pc["bt"], "move")
        /\ SyncsTo(sync["bt"], [sync["hash"] EXCEPT !.cs = "hash"])
        /\ sync["hash"].cs = Nobody
        /\ SameIndices
    BY <1>5, <1>t DEF SyncTypes, Threads, Enter, Move, Goto, runVars, dataVars
  <2>2. SyncTypes'
    <3>1. /\ pc' \in [Threads -> LzPcs \cup BtPcs \cup HashPcs] /\ DOMAIN sync' = Syncs
          /\ result' \in {"none", "ok", "error", "closing"} /\ encodes' \in Nat
      BY <1>5, <1>t DEF LzPcs, BtPcs, HashPcs, SyncTypes, Threads, Enter, Move, Goto, runVars, dataVars
    <3>2. SyncType("bt")' /\ SyncType("hash")'
      BY <1>t, <2>1 DEF SyncTypes
    <3> QED BY <1>t, <2>1, <3>1, <3>2 DEF SyncTypes, LzPcs, BtPcs, HashPcs
  <2>3. Lives("bt")' /\ Lives("hash")'
    BY <1>t, <1>l, <2>1 DEF SyncTypes, Lives, Starting, Active, Stopped, Resting, Exiting, Loop,
      LzPlaces, BtPlaces, Sections, Fresh, BtWorking, BtStops
  <2>4. Counts("bt")'
    BY <1>t, <1>l, <1>c, <2>1 DEF SyncTypes, Counts, Lives, Starting, Active, Stopped, Loop,
      Index, Sent, Claimed, Claims, First, LzPlaces, BtPlaces, Fresh, BtWorking, BtStops
  <2>5. Counts("hash")'
    BY <1>t, <1>l, <1>c, <2>1 DEF SyncTypes, Counts, Lives, Starting, Active, Stopped, Loop,
      Index, Sent, Claimed, Claims, First, LzPlaces, BtPlaces, Fresh, BtWorking, BtStops
  <2>6. LzPlaces' /\ BtPlaces' /\ Sections'
    BY <1>t, <1>l, <2>1 DEF SyncTypes, LzPlaces, BtPlaces, Sections, Lives, Starting, Active,
      Stopped, Resting, Loop, Exiting, Fresh, BtWorking, BtStops
  <2> QED BY <2>2, <2>3, <2>4, <2>5, <2>6 DEF SyncInv
<1>6. CASE HashMove
  <2>1. /\ pc["hash"] = "move" /\ Places(pc["lz"], pc["bt"], "adjust")
        /\ SyncsTo(sync["bt"], sync["hash"])
        /\ SameIndices
    BY <1>6, <1>t DEF SyncTypes, Threads, HashMove, Move, Goto, runVars
  <2>2. SyncTypes'
    <3>1. /\ pc' \in [Threads -> LzPcs \cup BtPcs \cup HashPcs] /\ DOMAIN sync' = Syncs
          /\ result' \in {"none", "ok", "error", "closing"} /\ encodes' \in Nat
      BY <1>6, <1>t DEF LzPcs, BtPcs, HashPcs, SyncTypes, Threads, HashMove, Move, Goto, runVars
    <3>2. SyncType("bt")' /\ SyncType("hash")'
      BY <1>t, <2>1 DEF SyncTypes
    <3> QED BY <1>t, <2>1, <3>1, <3>2 DEF SyncTypes, LzPcs, BtPcs, HashPcs
  <2>3. Lives("bt")' /\ Lives("hash")'
    BY <1>t, <1>l, <2>1 DEF SyncTypes, Lives, Starting, Active, Stopped, Resting, Exiting, Loop,
      LzPlaces, BtPlaces, Sections, Fresh, BtWorking, BtStops
  <2>4. Counts("bt")'
    BY <1>t, <1>l, <1>c, <2>1 DEF SyncTypes, Counts, Lives, Starting, Active, Stopped, Loop,
      Index, Sent, Claimed, Claims, First, LzPlaces, BtPlaces, Fresh, BtWorking, BtStops
  <2>5. Counts("hash")'
    BY <1>t, <1>l, <1>c, <2>1 DEF SyncTypes, Counts, Lives, Starting, Active, Stopped, Loop,
      Index, Sent, Claimed, Claims, First, LzPlaces, BtPlaces, Fresh, BtWorking, BtStops
  <2>6. LzPlaces' /\ BtPlaces' /\ Sections'
    BY <1>t, <1>l, <2>1 DEF SyncTypes, LzPlaces, BtPlaces, Sections, Lives, Starting, Active,
      Stopped, Resting, Loop, Exiting, Fresh, BtWorking, BtStops
  <2> QED BY <2>2, <2>3, <2>4, <2>5, <2>6 DEF SyncInv
<1>7. CASE HashAdjust
  <2>1. /\ pc["hash"] = "adjust" /\ Places(pc["lz"], pc["bt"], "loop")
        /\ SyncsTo([sync["bt"] EXCEPT !.cs = IF @ = "hash" THEN Nobody ELSE @], [sync["hash"] EXCEPT !.cs = IF @ = "hash" THEN Nobody ELSE @])
        /\ SameIndices
    BY <1>7, <1>t DEF SyncTypes, Threads, HashAdjust, Move, Goto, runVars
  <2>2. SyncTypes'
    <3>1. /\ pc' \in [Threads -> LzPcs \cup BtPcs \cup HashPcs] /\ DOMAIN sync' = Syncs
          /\ result' \in {"none", "ok", "error", "closing"} /\ encodes' \in Nat
      BY <1>7, <1>t DEF LzPcs, BtPcs, HashPcs, SyncTypes, Threads, HashAdjust, Move, Goto, runVars
    <3>2. SyncType("bt")' /\ SyncType("hash")'
      BY <1>t, <2>1 DEF SyncTypes
    <3> QED BY <1>t, <2>1, <3>1, <3>2 DEF SyncTypes, LzPcs, BtPcs, HashPcs
  <2>3. Lives("bt")' /\ Lives("hash")'
    BY <1>t, <1>l, <2>1 DEF SyncTypes, Lives, Starting, Active, Stopped, Resting, Exiting, Loop,
      LzPlaces, BtPlaces, Sections, Fresh, BtWorking, BtStops
  <2>4. Counts("bt")'
    BY <1>t, <1>l, <1>c, <2>1 DEF SyncTypes, Counts, Lives, Starting, Active, Stopped, Loop,
      Index, Sent, Claimed, Claims, First, LzPlaces, BtPlaces, Fresh, BtWorking, BtStops
  <2>5. Counts("hash")'
    BY <1>t, <1>l, <1>c, <2>1 DEF SyncTypes, Counts, Lives, Starting, Active, Stopped, Loop,
      Index, Sent, Claimed, Claims, First, LzPlaces, BtPlaces, Fresh, BtWorking, BtStops
  <2>6. LzPlaces' /\ BtPlaces' /\ Sections'
    BY <1>t, <1>l, <2>1 DEF SyncTypes, LzPlaces, BtPlaces, Sections, Lives, Starting, Active,
      Stopped, Resting, Loop, Exiting, Fresh, BtWorking, BtStops
  <2> QED BY <2>2, <2>3, <2>4, <2>5, <2>6 DEF SyncInv
<1>8. CASE HashFill
  <2>1. /\ pc["hash"] = "check" /\ Places(pc["lz"], pc["bt"], "send")
        /\ SyncsTo(sync["bt"], sync["hash"])
        /\ hashIndex' = hashIndex + 1 /\ UNCHANGED btIndex
    BY <1>8, <1>t DEF SyncTypes, Threads, HashFill, Move, Goto, runVars
  <2>2. SyncTypes'
    <3>1. /\ pc' \in [Threads -> LzPcs \cup BtPcs \cup HashPcs] /\ DOMAIN sync' = Syncs
          /\ result' \in {"none", "ok", "error", "closing"} /\ encodes' \in Nat
      BY <1>8, <1>t DEF LzPcs, BtPcs, HashPcs, SyncTypes, Threads, HashFill, Move, Goto, runVars
    <3>2. SyncType("bt")' /\ SyncType("hash")'
      BY <1>t, <2>1 DEF SyncTypes
    <3> QED BY <1>t, <2>1, <3>1, <3>2 DEF SyncTypes, LzPcs, BtPcs, HashPcs
  <2>3. Lives("bt")' /\ Lives("hash")'
    BY <1>t, <1>l, <2>1 DEF SyncTypes, Lives, Starting, Active, Stopped, Resting, Exiting, Loop,
      LzPlaces, BtPlaces, Sections, Fresh, BtWorking, BtStops
  <2>4. Counts("bt")'
    BY <1>t, <1>l, <1>c, <2>1 DEF SyncTypes, Counts, Lives, Starting, Active, Stopped, Loop,
      Index, Sent, Claimed, Claims, First, LzPlaces, BtPlaces, Fresh, BtWorking, BtStops
  <2>5. Counts("hash")'
    BY <1>t, <1>l, <1>c, <2>1 DEF SyncTypes, Counts, Lives, Starting, Active, Stopped, Loop,
      Index, Sent, Claimed, Claims, First, LzPlaces, BtPlaces, Fresh, BtWorking, BtStops
  <2>6. LzPlaces' /\ BtPlaces' /\ Sections'
    BY <1>t, <1>l, <2>1 DEF SyncTypes, LzPlaces, BtPlaces, Sections, Lives, Starting, Active,
      Stopped, Resting, Loop, Exiting, Fresh, BtWorking, BtStops
  <2> QED BY <2>2, <2>3, <2>4, <2>5, <2>6 DEF SyncInv
<1>9. CASE Send("hash")
  <2>1. /\ pc["hash"] = "send" /\ Places(pc["lz"], pc["bt"], "loop")
        /\ SyncsTo(sync["bt"], [sync["hash"] EXCEPT !.filled = @ + 1])
        /\ SameIndices
    BY <1>9, <1>t DEF SyncTypes, Threads, Send, Move, Goto, runVars, dataVars
  <2>2. SyncTypes'
    <3>1. /\ pc' \in [Threads -> LzPcs \cup BtPcs \cup HashPcs] /\ DOMAIN sync' = Syncs
          /\ result' \in {"none", "ok", "error", "closing"} /\ encodes' \in Nat
      BY <1>9, <1>t DEF LzPcs, BtPcs, HashPcs, SyncTypes, Threads, Send, Move, Goto, runVars, dataVars
    <3>2. SyncType("bt")' /\ SyncType("hash")'
      BY <1>t, <2>1 DEF SyncTypes
    <3> QED BY <1>t, <2>1, <3>1, <3>2 DEF SyncTypes, LzPcs, BtPcs, HashPcs
  <2>3. Lives("bt")' /\ Lives("hash")'
    BY <1>t, <1>l, <2>1 DEF SyncTypes, Lives, Starting, Active, Stopped, Resting, Exiting, Loop,
      LzPlaces, BtPlaces, Sections, Fresh, BtWorking, BtStops
  <2>4. Counts("bt")'
    BY <1>t, <1>l, <1>c, <2>1 DEF SyncTypes, Counts, Lives, Starting, Active, Stopped, Loop,
      Index, Sent, Claimed, Claims, First, LzPlaces, BtPlaces, Fresh, BtWorking, BtStops
  <2>5. Counts("hash")'
    <3>1. /\ Running("hash") /\ Running("hash")' /\ sync'["hash"].numProcessed = sync["hash"].numProcessed
          /\ sync'["hash"].free = sync["hash"].free /\ sync'["hash"].filled = sync["hash"].filled + 1
          /\ pc[Consumer("hash")]' = pc[Consumer("hash")]
      BY <1>t, <1>l, <2>1 DEF SyncTypes, Lives, Starting, Active, Stopped, Resting, Exiting,
        Loop, LzPlaces, BtPlaces, Sections, Fresh, BtWorking, BtStops
    <3> QED BY <1>t, <1>c, <2>1, <3>1 DEF SyncTypes, Counts, Index, Sent, Claimed, Claims, First
  <2>6. LzPlaces' /\ BtPlaces' /\ Sections'
    BY <1>t, <1>l, <2>1 DEF SyncTypes, LzPlaces, BtPlaces, Sections, Lives, Starting, Active,
      Stopped, Resting, Loop, Exiting, Fresh, BtWorking, BtStops
  <2> QED BY <2>2, <2>3, <2>4, <2>5, <2>6 DEF SyncInv
<1>10. CASE HashStop
  <2>1. /\ pc["hash"] = "check" /\ ~sync["hash"].exit /\ sync["hash"].stopWriting /\ Places(pc["lz"], pc["bt"], "wait")
        /\ SyncsTo(sync["bt"], [sync["hash"] EXCEPT !.wasStopped = TRUE])
        /\ SameIndices
    BY <1>10, <1>t, <1>l DEF SyncTypes, Threads, HashStop, SetStopped, Lives, Loop, Resting, Exiting, LzPlaces, BtPlaces, Goto, runVars, dataVars
  <2>2. SyncTypes'
    <3>1. /\ pc' \in [Threads -> LzPcs \cup BtPcs \cup HashPcs] /\ DOMAIN sync' = Syncs
          /\ result' \in {"none", "ok", "error", "closing"} /\ encodes' \in Nat
      BY <1>10, <1>t, <1>l DEF LzPcs, BtPcs, HashPcs, SyncTypes, Threads, HashStop, SetStopped, Lives, Loop, Resting, Exiting, LzPlaces, BtPlaces, Goto, runVars, dataVars
    <3>2. SyncType("bt")' /\ SyncType("hash")'
      BY <1>t, <2>1 DEF SyncTypes
    <3> QED BY <1>t, <2>1, <3>1, <3>2 DEF SyncTypes, LzPcs, BtPcs, HashPcs
  <2>3. Lives("bt")' /\ Lives("hash")'
    BY <1>t, <1>l, <2>1 DEF SyncTypes, Lives, Starting, Active, Stopped, Resting, Exiting, Loop,
      LzPlaces, BtPlaces, Sections, Fresh, BtWorking, BtStops
  <2>4. Counts("bt")'
    BY <1>t, <1>l, <1>c, <2>1 DEF SyncTypes, Counts, Lives, Starting, Active, Stopped, Loop,
      Index, Sent, Claimed, Claims, First, LzPlaces, BtPlaces, Fresh, BtWorking, BtStops
  <2>5. Counts("hash")'
    BY <1>t, <1>l, <1>c, <2>1 DEF SyncTypes, Counts, Lives, Starting, Active, Stopped, Loop,
      Index, Sent, Claimed, Claims, First, LzPlaces, BtPlaces, Fresh, BtWorking, BtStops
  <2>6. LzPlaces' /\ BtPlaces' /\ Sections'
    BY <1>t, <1>l, <2>1 DEF SyncTypes, LzPlaces, BtPlaces, Sections, Lives, Starting, Active,
      Stopped, Resting, Loop, Exiting, Fresh, BtWorking, BtStops
  <2> QED BY <2>2, <2>3, <2>4, <2>5, <2>6 DEF SyncInv
<1> QED BY <1>1, <1>2, <1>3, <1>4, <1>5, <1>6, <1>7, <1>8, <1>9, <1>10 DEF HashNext

\* MatchFinderMt_Create, when both threads, one or none of them can be created.
LEMMA CreateSync ==
  ASSUME SyncInv, Create PROVE SyncInv'
<1> USE DEF SyncType, Syncs, SyncFields, NewSync, Created, Running, Consumer, Nobody, Places, SyncsTo,
    SameIndices
<1>t. SyncTypes
  BY DEF SyncInv
<1>l. Lives("bt") /\ Lives("hash") /\ LzPlaces /\ BtPlaces /\ Sections
  BY DEF SyncInv
<1>c. /\ Counts("bt") /\ Counts("hash")
      /\ NumBlocks("bt") \in Nat \ {0} /\ NumBlocks("hash") \in Nat \ {0}
  BY NumBlocksType DEF SyncInv
<1>1. /\ pc["lz"] = "idle" /\ pc'["lz"] \in {"idle", "init"} /\ ~Running("bt") /\ ~Running("hash")
      /\ \E new \in SUBSET Syncs :
           /\ \A s \in new : ~sync[s].created
           /\ pc'["lz"] = "init" => \A s \in Syncs \ new : sync[s].created
           /\ "bt" \in new => "hash" \in new \/ sync["hash"].created
           /\ \A s \in Syncs : /\ pc'[s] = IF s \in new THEN "wait" ELSE pc[s]
                               /\ sync'[s] = IF s \in new THEN Created ELSE sync[s]
      /\ pc' \in [Threads -> LzPcs \cup BtPcs \cup HashPcs] /\ DOMAIN sync' = Syncs
      /\ encodes' \in Nat /\ result' \in {"none", "error"} /\ SameIndices
  <2>1. PICK failed \in {{}} \cup (IF "thread" \in Faults THEN {{"bt"}, Syncs} ELSE {}) :
          LET new == {s \in Syncs \ failed : ~sync[s].created} IN
          /\ \A s \in failed : ~sync[s].created
          /\ sync' = [s \in Syncs |-> IF s \in new THEN Created ELSE sync[s]]
          /\ pc' = [t \in Threads |-> IF t \in new THEN "wait"
                                      ELSE IF t = "lz" /\ failed = {} THEN "init" ELSE pc[t]]
          /\ result' = IF failed = {} THEN "none" ELSE "error"
    BY DEF Create
  <2> DEFINE new == {s \in Syncs \ failed : ~sync[s].created}
  <2>2. pc["lz"] = "idle" /\ encodes' = encodes + 1 /\ SameIndices
    BY DEF Create, dataVars
  <2>3. ~Running("bt") /\ ~Running("hash")
    BY <1>l, <2>2 DEF LzPlaces, BtPlaces
  <2>4. /\ pc' \in [Threads -> LzPcs \cup BtPcs \cup HashPcs]
        /\ pc'["lz"] = (IF failed = {} THEN "init" ELSE "idle")
    BY <1>t, <2>1, <2>2 DEF SyncTypes, Threads, LzPcs, BtPcs, HashPcs
  <2>5. \A s \in Syncs : /\ pc'[s] = IF s \in new THEN "wait" ELSE pc[s]
                         /\ sync'[s] = IF s \in new THEN Created ELSE sync[s]
    BY <2>1 DEF Threads
  <2>6. new \in SUBSET Syncs /\ \A s \in new : ~sync[s].created
    OBVIOUS
  <2>7. pc'["lz"] = "init" => \A s \in Syncs \ new : sync[s].created
    BY <2>4
  <2>9. "bt" \in new => "hash" \in new \/ sync["hash"].created
    BY <2>1
  <2>8. encodes' \in Nat /\ result' \in {"none", "error"} /\ DOMAIN sync' = Syncs
    BY <1>t, <2>1, <2>2 DEF SyncTypes
  <2> HIDE DEF new
  <2> QED BY <2>2, <2>3, <2>4, <2>5, <2>6, <2>7, <2>8, <2>9
<1>2. PICK new \in SUBSET Syncs :
           /\ \A s \in new : ~sync[s].created
           /\ pc'["lz"] = "init" => \A s \in Syncs \ new : sync[s].created
           /\ "bt" \in new => "hash" \in new \/ sync["hash"].created
           /\ \A s \in Syncs : /\ pc'[s] = IF s \in new THEN "wait" ELSE pc[s]
                               /\ sync'[s] = IF s \in new THEN Created ELSE sync[s]
  BY <1>1
<1>3. /\ SyncType("bt")' /\ pc'["bt"] \in BtPcs /\ (pc'["bt"] = pc["bt"] \/ pc'["bt"] = "wait")
      /\ Resting("bt")' /\ ~Running("bt")' /\ Counts("bt")'
      /\ pc'["lz"] = "init" => sync'["bt"].created
      /\ ~sync'["bt"].created => sync'["bt"] = sync["bt"] /\ pc'["bt"] = pc["bt"]
  <2>1. CASE "bt" \in new
    <3>1. sync'["bt"] = Created /\ pc'["bt"] = "wait"
      BY <1>2, <2>1
    <3> QED BY <1>1, <1>c, <3>1 DEF BtPcs, Resting, Exiting, Counts
  <2>2. CASE "bt" \notin new
    <3>1. sync'["bt"] = sync["bt"] /\ pc'["bt"] = pc["bt"]
      BY <1>2, <2>2
    <3>2. pc'["lz"] = "init" => sync["bt"].created
      BY <1>2, <2>2
    <3> QED BY <1>1, <1>t, <1>l, <1>c, <3>1, <3>2 DEF SyncTypes, Lives, Resting, Exiting, Counts
  <2> QED BY <2>1, <2>2
<1>4. /\ SyncType("hash")' /\ pc'["hash"] \in HashPcs /\ (pc'["hash"] = pc["hash"] \/ pc'["hash"] = "wait")
      /\ Resting("hash")' /\ ~Running("hash")' /\ Counts("hash")'
      /\ pc'["lz"] = "init" => sync'["hash"].created
  <2>1. CASE "hash" \in new
    <3>1. sync'["hash"] = Created /\ pc'["hash"] = "wait"
      BY <1>2, <2>1
    <3> QED BY <1>1, <1>c, <3>1 DEF HashPcs, Resting, Exiting, Counts
  <2>2. CASE "hash" \notin new
    <3>1. sync'["hash"] = sync["hash"] /\ pc'["hash"] = pc["hash"]
      BY <1>2, <2>2
    <3>2. pc'["lz"] = "init" => sync["hash"].created
      BY <1>2, <2>2
    <3> QED BY <1>1, <1>t, <1>l, <1>c, <3>1, <3>2 DEF SyncTypes, Lives, Resting, Exiting, Counts
  <2> QED BY <2>1, <2>2
<1>9. sync'["bt"].created => sync'["hash"].created
  <2>1. sync["hash"].created => sync'["hash"].created
    BY <1>2
  <2>2. "hash" \in new => sync'["hash"] = Created
    BY <1>2
  <2>3. "bt" \in new => sync'["hash"].created
    BY <1>2, <2>1, <2>2
  <2>4. "bt" \notin new => sync'["bt"] = sync["bt"]
    BY <1>2
  <2> QED BY <1>l, <2>1, <2>3, <2>4 DEF BtPlaces
<1>5. SyncTypes'
  BY <1>1, <1>3, <1>4, <1>t DEF SyncTypes, LzPcs
<1>6. pc["bt"] \in {"none", "wait", "done"} /\ pc["hash"] \in {"none", "wait", "done"}
  BY <1>1, <1>l DEF Lives, Resting
<1>7. Lives("bt")' /\ Lives("hash")'
  BY <1>3, <1>4 DEF Lives
<1>8. LzPlaces' /\ BtPlaces' /\ Sections'
  BY <1>1, <1>3, <1>4, <1>6, <1>9 DEF LzPlaces, BtPlaces, Sections, Resting, BtWorking, BtStops
<1> QED BY <1>3, <1>4, <1>5, <1>7, <1>8 DEF SyncInv

\* Before the match finder is created.
LEMMA InitSync == Init => SyncInv
<1> SUFFICES ASSUME Init PROVE SyncInv
  OBVIOUS
<1> USE DEF Init, Syncs, NewSync, SyncFields, Threads, Running, Consumer, Nobody
<1>1. SyncTypes
  BY ConstantsAssumption DEF SyncTypes, SyncType, LzPcs, BtPcs, HashPcs
<1>2. Lives("bt") /\ Lives("hash")
  BY DEF Lives, Resting, Exiting
<1>3. Counts("bt") /\ Counts("hash")
  BY NumBlocksType DEF Counts
<1>4. LzPlaces /\ BtPlaces /\ Sections
  BY DEF LzPlaces, BtPlaces, Sections, BtWorking, BtStops
<1> QED BY <1>1, <1>2, <1>3, <1>4 DEF SyncInv

\* A step in which nothing changes.
LEMMA SyncStutter == SyncInv /\ UNCHANGED vars => SyncInv'
BY DEF vars, SyncInv, SyncTypes, SyncType, Lives, Running, Starting, Active, Stopped, Resting,
  Exiting, Loop, Counts, Index, Sent, Claimed, First, Fresh, LzPlaces, BtPlaces, Sections, Consumer

\* The control of the threads, whatever their data are.
LEMMA SyncStep == SyncInv /\ [Next]_vars => SyncInv'
<1> SUFFICES ASSUME SyncInv, [Next]_vars PROVE SyncInv'
  OBVIOUS
<1>1. CASE LzNext
  BY <1>1, LzSync, CreateSync
<1>2. CASE BtNext
  BY <1>2, BtSync
<1>3. CASE HashNext
  BY <1>3, HashSync
<1>4. CASE Destroyed \/ UNCHANGED vars
  BY <1>4, SyncStutter DEF Destroyed
<1> QED BY <1>1, <1>2, <1>3, <1>4 DEF Next

(* Every thread is where the state of the CMtSync that it shares with its neighbour  *)
(* says, each critical section has one owner, and the semaphores count the blocks.   *)
THEOREM Control == Spec => []SyncInv
<1> QED BY InitSync, SyncStep, PTL DEF Spec

-----------------------------------------------------------------------------
(* The window through the steps of the threads *)

\* The sizes of the window.
LEMMA Sizes ==
  /\ StreamSize \in Nat /\ NumHashBytes \in Nat \ {0} /\ HistorySize \in Nat \ {0}
  /\ MoveAlign \in Nat \ {0} /\ HashNumBlocks \in Nat \ {0} /\ BtNumBlocks \in Nat \ {0}
  /\ HashBlockSize \in Nat /\ HashBlockSize > 2 /\ BtBlockSize \in Nat /\ BtBlockSize > 2
  /\ KeepAddBefore \in Nat /\ KeepSizeBefore = HistorySize + KeepAddBefore + 1
  /\ KeepSizeAfter \in Nat /\ KeepSizeAfter >= NumHashBytes
  /\ BlockSize = KeepSizeBefore + KeepSizeAfter + MoveAlign
<1>1. /\ StreamSize \in Nat /\ NumHashBytes \in Nat \ {0} /\ HistorySize \in Nat \ {0}
      /\ MoveAlign \in Nat \ {0} /\ HashNumBlocks \in Nat \ {0} /\ BtNumBlocks \in Nat \ {0}
      /\ MatchMaxLen \in Nat
      /\ HashBlockSize \in Nat /\ HashBlockSize > 2 /\ BtBlockSize \in Nat /\ BtBlockSize > 2
  BY ConstantsAssumption
<1>2. HashNumBlocks * HashBlockSize \in Nat /\ BtNumBlocks * BtBlockSize \in Nat
  BY <1>1
<1>3. KeepAddBefore \in Nat
  BY <1>2 DEF KeepAddBefore
<1>4. KeepSizeAfter \in Nat /\ KeepSizeAfter >= NumHashBytes
  BY <1>1 DEF KeepSizeAfter, KeepAddAfter
<1> QED BY <1>1, <1>3, <1>4 DEF KeepSizeBefore, BlockSize

\* What MatchFinder_ReadIfRequired finds: it only appends to the window, sees the end
\* only when everything is read, and leaves less than a hash value only at the end or
\* after an error.
LEMMA ReadFacts ==
  ASSUME WindowInv, ~NeedMove, NEW m \in ReadIfRequired
  PROVE  /\ DOMAIN m = MfFields /\ m.end \in BOOLEAN /\ m.ok \in BOOLEAN
         /\ m.pos = mf.pos /\ m.ptr = mf.ptr /\ m.base = mf.base
         /\ m.streamPos \in mf.streamPos .. StreamSize
         /\ (mf.end => m.end) /\ (~mf.ok => ~m.ok) /\ (Ended(mf) => m = mf)
         /\ m.end => m.streamPos = StreamSize
         /\ m.streamPos - m.pos < NumHashBytes => m.end \/ ~m.ok
<1>1. /\ DOMAIN mf = MfFields /\ mf.end \in BOOLEAN /\ mf.ok \in BOOLEAN
      /\ mf.pos \in Nat /\ mf.pos <= StreamSize
      /\ mf.streamPos \in Nat /\ mf.pos <= mf.streamPos /\ mf.streamPos <= StreamSize
      /\ mf.base \in Nat /\ mf.ptr \in Int /\ mf.ptr + mf.base = mf.pos
      /\ mf.end => mf.streamPos = StreamSize
  BY Sizes DEF WindowInv, WindowTypes, Window
<1>2. CASE HasEnough \/ mf.end \/ ~mf.ok
  <2>1. m = mf
    BY <1>2 DEF ReadIfRequired
  <2> QED BY <1>1, <1>2, <2>1, Sizes DEF HasEnough, Ended
<1>3. CASE ~(HasEnough \/ mf.end \/ ~mf.ok)
  <2>1. mf.base + BlockSize > mf.pos + KeepSizeAfter /\ mf.streamPos <= mf.pos + KeepSizeAfter
    BY <1>1, <1>3, Sizes DEF NeedMove, HasEnough
  <2>2. /\ MostRead \in mf.streamPos .. StreamSize
        /\ MostRead <= mf.pos + KeepSizeAfter => MostRead = StreamSize
    BY <1>1, <2>1, Sizes DEF MostRead, Min
  <2>3. PICK n \in Int, e \in BOOLEAN, k \in BOOLEAN :
          /\ m = [mf EXCEPT !.streamPos = n, !.end = e, !.ok = k]
          /\ \/ n \in {mf.pos + KeepSizeAfter + 1, MostRead} /\ MostRead > mf.pos + KeepSizeAfter /\ ~e /\ k
             \/ n = MostRead /\ MostRead = StreamSize /\ e /\ k
             \/ n \in mf.streamPos .. StreamSize /\ ~e /\ ~k
    <3>1. CASE /\ MostRead > mf.pos + KeepSizeAfter
               /\ m \in {[mf EXCEPT !.streamPos = n] : n \in {mf.pos + KeepSizeAfter + 1, MostRead}}
      <4>1. PICK n \in {mf.pos + KeepSizeAfter + 1, MostRead} : m = [mf EXCEPT !.streamPos = n]
        BY <3>1
      <4>2. n \in Int
        BY <1>1, <2>2, <4>1, Sizes
      <4>3. m = [mf EXCEPT !.streamPos = n, !.end = FALSE, !.ok = TRUE]
        BY <1>1, <1>3, <4>1 DEF MfFields, StartOfWindow
      <4> QED BY <3>1, <4>1, <4>2, <4>3
    <3>2. CASE /\ MostRead <= mf.pos + KeepSizeAfter
               /\ m = [mf EXCEPT !.streamPos = MostRead, !.end = (MostRead = StreamSize)]
      <4>1. m = [mf EXCEPT !.streamPos = MostRead, !.end = TRUE, !.ok = TRUE]
        BY <1>1, <1>3, <2>2, <3>2 DEF MfFields, StartOfWindow
      <4>2. MostRead \in Int /\ MostRead = StreamSize
        BY <2>2, <3>2, Sizes
      <4> QED BY <4>1, <4>2
    <3>3. CASE \E n \in mf.streamPos .. Min(MostRead, mf.pos + KeepSizeAfter) :
                 m = [mf EXCEPT !.streamPos = n, !.ok = FALSE]
      <4>1. PICK n \in mf.streamPos .. Min(MostRead, mf.pos + KeepSizeAfter) :
              m = [mf EXCEPT !.streamPos = n, !.ok = FALSE]
        BY <3>3
      <4>2. m = [mf EXCEPT !.streamPos = n, !.end = FALSE, !.ok = FALSE]
        BY <1>1, <1>3, <4>1 DEF MfFields, StartOfWindow
      <4>3. n \in Int /\ n \in mf.streamPos .. StreamSize
        BY <1>1, <2>2, <4>1, Sizes DEF Min
      <4> HIDE DEF MostRead
      <4> QED BY <4>2, <4>3
    <3>4. MostRead > mf.pos + KeepSizeAfter \/ MostRead <= mf.pos + KeepSizeAfter
      BY <1>1, <2>2, Sizes
    <3>5. \/ <3>1!1 \/ <3>2!1 \/ <3>3!1
      BY ONLY <1>3, <3>4, m \in ReadIfRequired DEF ReadIfRequired
    <3> QED BY <3>1, <3>2, <3>3, <3>5
  <2>4. /\ DOMAIN m = MfFields /\ m.end = e /\ m.ok = k /\ m.streamPos = n
        /\ m.pos = mf.pos /\ m.ptr = mf.ptr /\ m.base = mf.base
    BY <1>1, <2>3 DEF MfFields, StartOfWindow
  <2> QED BY <1>1, <1>3, <2>1, <2>2, <2>3, <2>4, Sizes DEF Ended
<1> QED BY <1>2, <1>3

\* The step of a hash block does not pass what has been read.
LEMMA StepFacts ==
  ASSUME NEW m, m.pos \in Int, m.streamPos \in Int, m.pos <= m.streamPos
  PROVE  LET h == HashBlock(m) IN
         /\ BlockTypes(h) /\ Step(h) \in Nat /\ m.pos + Step(h) <= m.streamPos
         /\ h.first = m.pos /\ h.avail = m.streamPos - m.pos /\ h.num \in Nat
         /\ h.num <= HashBlockSize - 2
         /\ h.avail >= NumHashBytes =>
              h.num >= 1 /\ h.num <= h.avail - NumHashBytes + 1 /\ Step(h) = h.num
         /\ h.avail < NumHashBytes => h.num = 0 /\ Step(h) = h.avail
BY Sizes DEF HashBlock, Step, Min, BlockTypes, BlockFields, NoBlock

\* A step that leaves the window and the rings alone.
LEMMA WindowFrame ==
  ASSUME WindowInv, UNCHANGED <<mf, hashBuf, btBuf, bt, lz, offset>>,
         pc'["hash"] # "adjust" => offset = 0,
         pc'["hash"] \in {"free", "check"} => ~NeedMove,
         pc'["hash"] \in {"enterBt", "enterHash", "move"} => NeedMove
  PROVE  WindowInv'
BY DEF WindowInv, WindowTypes, Window, HashTypes, BtTypes, NeedMove

\* A step that leaves the window alone.
LEMMA WindowKept ==
  ASSUME WindowInv, UNCHANGED <<mf, offset>>, pc'["hash"] = pc["hash"],
         DOMAIN bt' = BtFields, DOMAIN lz' = LzFields, bt'.failed \in BOOLEAN, lz'.failed \in BOOLEAN,
         bt'.pos \in Int, bt'.ptr \in Int, bt'.left \in Int, bt'.avail \in Int, bt'.done \in Int,
         lz'.pos \in Int, lz'.ptr \in Int, lz'.left \in Int, lz'.avail \in Int,
         bt'.ptr - bt'.pos = bt.ptr - bt.pos, lz'.ptr - lz'.pos = lz.ptr - lz.pos,
         HashTypes', BtTypes'
  PROVE  WindowInv'
<1>1. WindowTypes'
  BY DEF WindowInv, WindowTypes
<1>2. bt'.ptr + mf'.base = bt'.pos + offset' /\ lz'.ptr + mf'.base = lz'.pos + offset'
  BY DEF WindowInv, WindowTypes, Window
<1> QED BY <1>1, <1>2 DEF WindowInv, Window, NeedMove

\* MatchFinder_MoveBlock does not reach behind the window.
LEMMA MoveFacts ==
  ASSUME WindowInv, HashMove
  PROVE  /\ \A f \in MfFields \ {"ptr", "base"} : mf'[f] = mf[f]
         /\ DOMAIN mf' = MfFields
         /\ offset' \in Nat \ {0} /\ offset = 0
         /\ mf'.ptr = mf.ptr - offset' /\ mf'.base = mf.base + offset'
         /\ mf'.base <= mf.pos - KeepSizeBefore
<1>1. /\ DOMAIN mf = MfFields /\ mf.base \in Nat /\ mf.ptr \in Int /\ mf.ptr + mf.base = mf.pos
      /\ mf.pos \in Int /\ pc["hash"] = "move" /\ offset = 0 /\ NeedMove
  BY Sizes DEF WindowInv, WindowTypes, Window, HashMove, Move
<1> DEFINE gap == mf.ptr - KeepSizeBefore
           rem == gap % MoveAlign
<1>2. gap \in Nat /\ gap >= MoveAlign
  BY <1>1, Sizes DEF NeedMove
<1>3. rem \in 0 .. MoveAlign - 1
  BY <1>2, Sizes
<1>4. offset' = gap - rem /\ mf' = [mf EXCEPT !.ptr = KeepSizeBefore + rem, !.base = @ + gap - rem]
  BY DEF HashMove
<1>5. /\ \A f \in MfFields \ {"ptr", "base"} : mf'[f] = mf[f]
      /\ DOMAIN mf' = MfFields /\ mf'.ptr = KeepSizeBefore + rem /\ mf'.base = mf.base + gap - rem
  BY <1>1, <1>4 DEF MfFields, StartOfWindow
<1> HIDE DEF rem
<1> QED BY <1>1, <1>2, <1>3, <1>4, <1>5, Sizes

\* MatchFinder_MoveBlock: until the pointers follow, offset is what they lack.
LEMMA MoveWindow ==
  ASSUME WindowInv, SyncTypes, HashMove PROVE WindowInv'
<1>1. /\ \A f \in MfFields \ {"ptr", "base"} : mf'[f] = mf[f]
      /\ DOMAIN mf' = MfFields /\ offset' \in Nat \ {0} /\ offset = 0
      /\ mf'.ptr = mf.ptr - offset' /\ mf'.base = mf.base + offset'
  BY MoveFacts
<1>2. pc'["hash"] = "adjust" /\ UNCHANGED <<hashBuf, btBuf, bt, lz>>
  BY DEF HashMove, Move, Goto, SyncTypes, Threads
<1>3. mf'.pos = mf.pos /\ mf'.streamPos = mf.streamPos /\ mf'.end = mf.end /\ mf'.ok = mf.ok
  BY <1>1 DEF MfFields, StartOfWindow
<1>4. WindowTypes'
  BY <1>1, <1>2, <1>3 DEF WindowInv, WindowTypes
<1>5. Window'
  BY <1>1, <1>2, <1>3 DEF WindowInv, WindowTypes, Window
<1>6. HashTypes' /\ BtTypes'
  BY <1>2 DEF WindowInv, HashTypes, BtTypes
<1> QED BY <1>4, <1>5, <1>6 DEF WindowInv

\* HashThreadFunc lets the pointers of the other threads follow.
LEMMA AdjustWindow ==
  ASSUME WindowInv, SyncTypes, HashAdjust PROVE WindowInv'
<1>1. /\ DOMAIN bt' = BtFields /\ \A f \in BtFields \ {"ptr"} : bt'[f] = bt[f]
      /\ DOMAIN lz' = LzFields /\ \A f \in LzFields \ {"ptr"} : lz'[f] = lz[f]
      /\ bt'.ptr = bt.ptr - offset /\ lz'.ptr = lz.ptr - offset
  BY DEF WindowInv, WindowTypes, HashAdjust, BtFields, LzFields, StartOfBt, StartOfLz
<1>2. offset' = 0 /\ pc'["hash"] = "loop" /\ UNCHANGED <<mf, hashBuf, btBuf>>
  BY DEF HashAdjust, Move, Goto, SyncTypes, Threads
<1>3. /\ bt'.pos = bt.pos /\ bt'.left = bt.left /\ bt'.avail = bt.avail
      /\ bt'.failed = bt.failed /\ bt'.done = bt.done
      /\ lz'.pos = lz.pos /\ lz'.left = lz.left /\ lz'.avail = lz.avail /\ lz'.failed = lz.failed
  BY <1>1 DEF BtFields, LzFields, StartOfBt, StartOfLz
<1>4. WindowTypes'
  BY <1>1, <1>2, <1>3 DEF WindowInv, WindowTypes
<1>5. Window'
  <2>1. bt.ptr + mf.base = bt.pos + offset /\ lz.ptr + mf.base = lz.pos + offset
    BY DEF WindowInv, Window
  <2>2. bt'.ptr + mf'.base = bt'.pos + offset' /\ lz'.ptr + mf'.base = lz'.pos + offset'
    <3>1. /\ bt.ptr \in Int /\ lz.ptr \in Int /\ bt.pos \in Int /\ lz.pos \in Int
          /\ mf.base \in Int /\ offset \in Int /\ mf' = mf
      BY <1>2 DEF WindowInv, WindowTypes
    <3> QED BY <1>1, <1>2, <1>3, <2>1, <3>1
  <2> QED BY <1>2, <2>2 DEF WindowInv, Window
<1>6. HashTypes' /\ BtTypes'
  BY <1>2 DEF WindowInv, HashTypes, BtTypes
<1> QED BY <1>4, <1>5, <1>6 DEF WindowInv

\* A read and the block of hash values made of it stay inside the input and the window.
LEMMA FillWindow ==
  ASSUME WindowInv, SyncTypes, HashFill PROVE WindowInv'
<1>1. PICK m \in ReadIfRequired :
        /\ hashBuf' = [hashBuf EXCEPT ![hashIndex % HashNumBlocks] = HashBlock(m)]
        /\ mf' = [m EXCEPT !.pos = @ + Step(HashBlock(m)), !.ptr = @ + Step(HashBlock(m))]
  BY DEF HashFill
<1>2. /\ pc["hash"] = "check" /\ pc'["hash"] = "send" /\ UNCHANGED <<btBuf, bt, lz, offset>>
      /\ ~NeedMove /\ offset = 0
  BY DEF HashFill, Move, Goto, SyncTypes, Threads, WindowInv, Window
<1>3. /\ DOMAIN m = MfFields /\ m.end \in BOOLEAN /\ m.ok \in BOOLEAN
      /\ m.pos = mf.pos /\ m.ptr = mf.ptr /\ m.base = mf.base
      /\ m.streamPos \in mf.streamPos .. StreamSize
      /\ m.end => m.streamPos = StreamSize
  BY <1>2, ReadFacts
<1>t. /\ mf.pos \in 0 .. StreamSize /\ mf.streamPos \in mf.pos .. StreamSize
      /\ mf.base \in Nat /\ mf.ptr \in Int /\ mf.ptr + mf.base = mf.pos
  BY DEF WindowInv, WindowTypes, Window
<1>4. /\ BlockTypes(HashBlock(m)) /\ Step(HashBlock(m)) \in Nat
      /\ m.pos + Step(HashBlock(m)) <= m.streamPos
  BY <1>3, <1>t, StepFacts, Sizes
<1>5. /\ DOMAIN mf' = MfFields /\ mf'.pos = mf.pos + Step(HashBlock(m))
      /\ mf'.ptr = mf.ptr + Step(HashBlock(m)) /\ mf'.base = mf.base
      /\ mf'.streamPos = m.streamPos /\ mf'.end = m.end /\ mf'.ok = m.ok
  BY <1>1, <1>3 DEF MfFields, StartOfWindow
<1>6. HashTypes'
  BY <1>1, <1>4 DEF WindowInv, HashTypes, BlockTypes
<1>7. WindowTypes'
  BY <1>2, <1>3, <1>4, <1>5, <1>t, Sizes DEF WindowInv, WindowTypes
<1>8. Window'
  BY <1>2, <1>3, <1>4, <1>5, <1>t, Sizes DEF WindowInv, WindowTypes, Window
<1> QED BY <1>2, <1>6, <1>7, <1>8 DEF WindowInv, BtTypes

\* The two rings while they are empty.
LEMMA StaleTypes ==
  /\ hashBuf' = StaleRing("hash") => HashTypes'
  /\ btBuf' = StaleRing("bt") => BtTypes'
<1>1. BlockTypes(NoBlock)
  BY DEF BlockTypes, BlockFields, NoBlock
<1>2. /\ StaleRing("hash") = [i \in 0 .. HashNumBlocks - 1 |-> NoBlock]
      /\ StaleRing("bt") = [i \in 0 .. BtNumBlocks - 1 |-> NoBlock]
  BY DEF StaleRing, NumBlocks
<1> HIDE DEF NoBlock
<1>3. hashBuf' = StaleRing("hash") => HashTypes'
  BY <1>1, <1>2 DEF HashTypes, BlockTypes
<1>4. btBuf' = StaleRing("bt") => BtTypes'
  BY <1>1, <1>2 DEF BtTypes, BlockTypes
<1> QED BY <1>3, <1>4

\* What MatchFinder_Init and MatchFinderMt_Init set.
LEMMA StartTypes ==
  ASSUME mf' = StartOfWindow, bt' = StartOfBt, lz' = StartOfLz, offset' = 0
  PROVE  WindowTypes'
BY Sizes DEF WindowTypes, MfFields, BtFields, LzFields, StartOfWindow, StartOfBt, StartOfLz

\* MatchFinderMt_InitMt and MatchFinderMt_Init.
LEMMA InitWindow ==
  ASSUME WindowInv, SyncInv, InitMt PROVE WindowInv'
<1>1. /\ pc["lz"] = "init" /\ pc'["hash"] = pc["hash"] /\ offset' = offset
      /\ hashBuf' = StaleRing("hash") /\ btBuf' = StaleRing("bt")
  BY DEF InitMt, SyncInv, SyncTypes, Threads, Goto
<1>2. HashTypes' /\ BtTypes'
  BY <1>1, StaleTypes
<1>3. pc["hash"] \in {"none", "wait", "done"}
  BY <1>1 DEF SyncInv, Lives, Resting, LzPlaces, BtPlaces
<1>4. offset = 0
  BY <1>3 DEF WindowInv, Window
<1>5. CASE mf' = StartOfWindow /\ bt' = StartOfBt /\ lz' = StartOfLz
  <2>1. WindowTypes'
    BY <1>1, <1>4, <1>5, StartTypes
  <2>2. Window'
    BY <1>1, <1>3, <1>4, <1>5 DEF Window, StartOfWindow, StartOfBt, StartOfLz
  <2> QED BY <1>2, <2>1, <2>2 DEF WindowInv
<1>6. CASE UNCHANGED <<mf, bt, lz>>
  BY <1>1, <1>2, <1>6 DEF WindowInv, WindowTypes, Window, NeedMove
<1> QED BY <1>5, <1>6 DEF InitMt

\* A consumer's block is a block of its ring.
LEMMA SlotTypes ==
  ASSUME SyncTypes
  PROVE  SlotOf("hash") \in 0 .. HashNumBlocks - 1 /\ SlotOf("bt") \in 0 .. BtNumBlocks - 1
<1>1. sync["hash"].numProcessed \in Nat /\ sync["bt"].numProcessed \in Nat
  BY DEF SyncTypes, SyncType
<1>2. /\ SlotOf("hash") = (sync["hash"].numProcessed - 1) % HashNumBlocks
      /\ SlotOf("bt") = (sync["bt"].numProcessed - 1) % BtNumBlocks
  BY DEF SlotOf, NumBlocks
<1> QED BY <1>1, <1>2, Sizes

\* The tree thread changes its own fields and the block that it fills.
LEMMA BtWindow ==
  ASSUME WindowInv, SyncTypes, BtFillBlock \/ BtMatch \/ BtFailure \/ BtTake
  PROVE  WindowInv'
<1>1. pc'["hash"] = pc["hash"] /\ UNCHANGED <<mf, offset, hashBuf, lz>>
  BY DEF BtFillBlock, BtMatch, BtFailure, BtTake, Move, Goto, SyncTypes, Threads
<1>t. /\ DOMAIN bt = BtFields /\ bt.failed \in BOOLEAN
      /\ bt.pos \in Int /\ bt.ptr \in Int /\ bt.left \in Int /\ bt.avail \in Int /\ bt.done \in Int
  BY DEF WindowInv, WindowTypes
<1>b. BtSlot \in 0 .. BtNumBlocks - 1 /\ BlockTypes(btBuf[BtSlot]) /\ DOMAIN btBuf = 0 .. BtNumBlocks - 1
  BY Sizes DEF WindowInv, BtTypes, BtSlot, SyncTypes
<1>2. /\ DOMAIN bt' = BtFields /\ bt'.failed \in BOOLEAN
      /\ bt'.pos \in Int /\ bt'.ptr \in Int /\ bt'.left \in Int /\ bt'.avail \in Int /\ bt'.done \in Int
      /\ bt'.ptr - bt'.pos = bt.ptr - bt.pos
      /\ BlockTypes(btBuf'[BtSlot]) /\ DOMAIN btBuf' = DOMAIN btBuf
      /\ \A i \in DOMAIN btBuf \ {BtSlot} : btBuf'[i] = btBuf[i]
  <2> USE DEF BtFields, StartOfBt, BlockTypes, BlockFields, NoBlock
  <2>1. CASE BtFillBlock
    BY <1>t, <1>b, <2>1 DEF BtFillBlock
  <2>2. CASE BtMatch
    <3>1. /\ bt' = [bt EXCEPT !.pos = @ + 1, !.ptr = @ + 1, !.left = @ - 1, !.avail = @ - 1, !.done = @ + 1]
          /\ btBuf' = [btBuf EXCEPT ![BtSlot].num = @ + 1]
      BY <2>2 DEF BtMatch
    <3>2. /\ BlockTypes(btBuf'[BtSlot]) /\ DOMAIN btBuf' = DOMAIN btBuf
          /\ \A i \in DOMAIN btBuf \ {BtSlot} : btBuf'[i] = btBuf[i]
      BY <1>b, <3>1
    <3> QED BY <1>t, <3>1, <3>2
  <2>3. CASE BtFailure
    BY <1>t, <1>b, <2>3 DEF BtFailure
  <2>4. CASE BtTake
    <3> DEFINE h == hashBuf[SlotOf("hash")]
    <3>1. BlockTypes(h)
      BY SlotTypes DEF WindowInv, HashTypes
    <3>2. bt.done + h.avail \in Int
      BY <1>t, <3>1
    <3>3. CASE h.avail >= NumHashBytes
      <4>1. /\ bt' = [bt EXCEPT !.left = h.num, !.avail = h.avail]
            /\ btBuf' = [btBuf EXCEPT ![BtSlot].avail = bt.done + h.avail]
        BY <2>4, <3>3 DEF BtTake, AvailSum
      <4> HIDE DEF h
      <4> QED BY <1>t, <1>b, <3>1, <3>2, <4>1
    <3>4. CASE ~(h.avail >= NumHashBytes)
      <4>1. /\ bt' = [bt EXCEPT !.left = 0, !.avail = 0]
            /\ btBuf' = [btBuf EXCEPT ![BtSlot].avail = bt.done + h.avail, ![BtSlot].num = @ + h.avail]
        BY <2>4, <3>4 DEF BtTake, AvailSum
      <4> HIDE DEF h
      <4> QED BY <1>t, <1>b, <3>1, <3>2, <4>1
    <3> QED BY <3>3, <3>4
  <2> QED BY <2>1, <2>2, <2>3, <2>4
<1>3. BtTypes'
  <2> HIDE DEF BtSlot
  <2> QED BY <1>b, <1>2 DEF WindowInv, BtTypes, BlockTypes
<1>4. HashTypes' /\ lz' = lz
  BY <1>1 DEF WindowInv, HashTypes
<1>5. /\ DOMAIN lz = LzFields /\ lz.failed \in BOOLEAN
      /\ lz.pos \in Int /\ lz.ptr \in Int /\ lz.left \in Int /\ lz.avail \in Int
  BY DEF WindowInv, WindowTypes
<1>6. lz'.ptr - lz'.pos = lz.ptr - lz.pos
  BY <1>4
<1> QED BY <1>1, <1>2, <1>3, <1>4, <1>5, <1>6, WindowKept

\* The LZ thread moves its pointer and its position together.
LEMMA LzWindow ==
  ASSUME WindowInv, SyncTypes, LzTake \/ LzGetMatches
  PROVE  WindowInv'
<1>1. pc'["hash"] = pc["hash"] /\ UNCHANGED <<mf, offset, hashBuf, btBuf, bt>>
  BY DEF LzTake, LzGetMatches, Move, Goto, SyncTypes, Threads
<1>t. /\ DOMAIN lz = LzFields /\ lz.failed \in BOOLEAN
      /\ lz.pos \in Int /\ lz.ptr \in Int /\ lz.left \in Int /\ lz.avail \in Int
      /\ DOMAIN bt = BtFields /\ bt.failed \in BOOLEAN
      /\ bt.pos \in Int /\ bt.ptr \in Int /\ bt.left \in Int /\ bt.avail \in Int /\ bt.done \in Int
  BY DEF WindowInv, WindowTypes
<1>2. /\ DOMAIN lz' = LzFields /\ lz'.failed \in BOOLEAN
      /\ lz'.pos \in Int /\ lz'.ptr \in Int /\ lz'.left \in Int /\ lz'.avail \in Int
      /\ lz'.ptr - lz'.pos = lz.ptr - lz.pos
  <2> USE DEF LzFields, StartOfLz
  <2>1. CASE LzTake
    <3> DEFINE b == btBuf[SlotOf("bt")]
    <3>1. BlockTypes(b)
      BY SlotTypes DEF WindowInv, BtTypes
    <3>2. lz' = [lz EXCEPT !.left = IF b.failed THEN 0 ELSE b.num, !.avail = b.avail, !.failed = b.failed]
      BY <2>1 DEF LzTake
    <3> HIDE DEF b
    <3> QED BY <1>t, <3>1, <3>2 DEF BlockTypes
  <2>2. CASE LzGetMatches
    BY <1>t, <2>2 DEF LzGetMatches
  <2> QED BY <2>1, <2>2
<1>3. HashTypes' /\ BtTypes' /\ bt'.ptr - bt'.pos = bt.ptr - bt.pos
  BY <1>1 DEF WindowInv, HashTypes, BtTypes
<1>4. bt' = bt
  BY <1>1
<1> QED BY <1>1, <1>t, <1>2, <1>3, <1>4, WindowKept

\* The steps that change neither the window nor the rings.
LEMMA IdleWindow ==
  ASSUME WindowInv, SyncInv, UNCHANGED <<mf, hashBuf, btBuf, bt, lz, offset>>, [Next]_vars,
         ~HashMove, ~HashAdjust, ~HashFill
  PROVE  WindowInv'
<1>w. /\ pc["hash"] # "adjust" => offset = 0
      /\ pc["hash"] \in {"free", "check"} => ~NeedMove
      /\ pc["hash"] \in {"enterBt", "enterHash", "move"} => NeedMove
      /\ pc \in [Threads -> LzPcs \cup BtPcs \cup HashPcs]
  BY DEF WindowInv, Window, SyncInv, SyncTypes
<1>1. CASE pc'["hash"] = pc["hash"]
  BY <1>1, <1>w, WindowFrame
<1>2. CASE pc'["hash"] # pc["hash"]
  <2>1. Create \/ HashNext
    BY <1>2, <1>w DEF Next, LzNext, BtNext, Destroyed, InitMt, LzGetNextBlock, LzTake, LzGetMatches,
      LzFlush, LzGivesUp, LzStopped, Destruct, SyncNext, ExitThread, JoinThread, BtStart, BtLoop, BtGoOn, FreeWait,
      BtFillBlock, BtMatch, BtFailure, BtGetNextBlock, BtTake, BtFilled, Send, BtBreak, BtStopped,
      GetNextBlock, NextStart, NextFree, FilledWait, StopSkip, StopFlag, StopReleaseFree, StopWait,
      CanStart, SetStopped, Move, Goto, Consumer, Threads, StopHash, vars
  <2>2. CASE Create
    <3>1. pc'["hash"] = "wait" /\ pc["hash"] \in {"none", "wait", "done"}
      <4>1. pc["lz"] = "idle" /\ (pc'["hash"] = "wait" \/ pc'["hash"] = pc["hash"])
        BY <2>2, <1>w DEF Create, Threads, Syncs
      <4> QED BY <1>2, <4>1 DEF SyncInv, LzPlaces, BtPlaces, Lives, Resting
    <3> QED BY <3>1, <1>w, WindowFrame
  <2>3. CASE HashNext
    <3>1. /\ pc["hash"] # "adjust"
          /\ pc'["hash"] \in {"free", "check"} => pc["hash"] = "free" \/ ~NeedMove
          /\ pc'["hash"] \in {"enterBt", "enterHash", "move"} =>
               pc["hash"] \in {"enterBt", "enterHash"} \/ NeedMove
          /\ pc'["hash"] # "adjust"
      BY <2>3, <1>w DEF HashNext, HashStart, HashLoop, FreeWait, Enter, Send, HashStop, CanStart,
        SetStopped, Move, Goto, Threads, FirstLock
    <3> QED BY <3>1, <1>w, WindowFrame
  <2> QED BY <2>1, <2>2, <2>3
<1> QED BY <1>1, <1>2

\* The steps that change the data of the threads.
DataStep == \/ HashMove \/ HashAdjust \/ HashFill \/ InitMt
            \/ BtFillBlock \/ BtMatch \/ BtFailure \/ BtTake \/ LzTake \/ LzGetMatches

\* The other steps leave the window and the rings alone.
LEMMA OtherSteps ==
  ASSUME [Next]_vars, ~DataStep
  PROVE  UNCHANGED <<mf, hashBuf, btBuf, bt, lz, offset>>
BY DEF DataStep, Next, LzNext, BtNext, HashNext, Destroyed, Create, LzGetNextBlock, LzFlush, LzGivesUp,
  LzStopped, Destruct, SyncNext, ExitThread, JoinThread, BtStart, BtLoop, BtGoOn, FreeWait, BtGetNextBlock,
  BtFilled, Send, BtBreak, BtStopped, HashStart, HashLoop, Enter, HashStop, GetNextBlock, NextStart,
  NextFree, FilledWait, StopSkip, StopFlag, StopReleaseFree, StopWait, SetStopped, dataVars, vars

\* The window and the pointers into it, at every step.
LEMMA WindowStep == SyncInv /\ WindowInv /\ [Next]_vars => WindowInv'
<1> SUFFICES ASSUME SyncInv, WindowInv, [Next]_vars PROVE WindowInv'
  OBVIOUS
<1>t. SyncTypes
  BY DEF SyncInv
<1>1. CASE DataStep
  BY <1>1, <1>t, MoveWindow, AdjustWindow, FillWindow, InitWindow, BtWindow, LzWindow DEF DataStep
<1>2. CASE ~DataStep
  BY <1>2, OtherSteps, IdleWindow DEF DataStep
<1> QED BY <1>1, <1>2

\* The window before anything has run.
LEMMA WindowInit == Init => WindowInv
<1> SUFFICES ASSUME Init PROVE WindowInv
  OBVIOUS
<1>1. WindowTypes
  BY Sizes DEF Init, WindowTypes, MfFields, BtFields, LzFields, StartOfWindow, StartOfBt, StartOfLz
<1>2. Window
  BY DEF Init, Window, StartOfWindow, StartOfBt, StartOfLz, Threads
<1>3. HashTypes /\ BtTypes
  <2>1. BlockTypes(NoBlock)
    BY DEF BlockTypes, BlockFields, NoBlock
  <2>2. /\ hashBuf = [i \in 0 .. HashNumBlocks - 1 |-> NoBlock]
        /\ btBuf = [i \in 0 .. BtNumBlocks - 1 |-> NoBlock]
    BY DEF Init, StaleRing, NumBlocks
  <2> HIDE DEF NoBlock
  <2> QED BY <2>1, <2>2 DEF HashTypes, BtTypes, BlockTypes
<1> QED BY <1>1, <1>2, <1>3 DEF WindowInv

\* What is known when the LZ thread finds the tree thread stopped.
LEMMA StoppedIsParked == SyncInv /\ WindowInv => StoppedMeansParked
<1> SUFFICES ASSUME SyncInv, WindowInv PROVE StoppedMeansParked
  OBVIOUS
<1>1. TypeOK
  <2>1. /\ pc["lz"] \in LzPcs /\ pc["bt"] \in BtPcs /\ pc["hash"] \in HashPcs
        /\ result \in {"none", "ok", "error", "closing"}
    BY DEF SyncInv, SyncTypes
  <2>2. \A s \in Syncs : /\ sync[s].free \in 0 .. NumBlocks(s)
                         /\ sync[s].filled \in 0 .. NumBlocks(s)
    BY NumBlocksType DEF SyncInv, SyncTypes, SyncType, Counts, Syncs
  <2>3. \A s \in Syncs : sync[s].cs \in {Nobody, "hash", Consumer(s)}
    BY DEF SyncInv, Sections, Syncs, Consumer
  <2>4. mf.pos \in 0 .. StreamSize /\ mf.streamPos \in mf.pos .. StreamSize
    BY DEF WindowInv, WindowTypes
  <2> QED BY <2>1, <2>2, <2>3, <2>4 DEF TypeOK, LzPcs, BtPcs, HashPcs
<1>2. ASSUME sync["bt"].created, sync["bt"].needStart
      PROVE  /\ pc["bt"] \in {"wait", "done"} /\ pc["hash"] \in {"wait", "done"}
             /\ \A s \in Syncs : sync[s].cs = Nobody
  <2>1. ~Running("bt") /\ ~Running("hash")
    BY <1>2 DEF SyncInv, BtPlaces, Running
  <2>2. Resting("bt") /\ Resting("hash")
    BY <2>1 DEF SyncInv, Lives
  <2>3. sync["hash"].created
    BY <1>2 DEF SyncInv, BtPlaces
  <2> QED BY <1>2, <2>2, <2>3 DEF Resting, Syncs
<1> QED BY <1>1, <1>2 DEF StoppedMeansParked

(* When the LZ thread takes the threads for stopped, both are parked and nobody is in *)
(* a critical section; every variable has its type, and no semaphore has passed the   *)
(* maximum it was created with.                                                       *)
THEOREM StoppedThreads == Spec => []StoppedMeansParked
<1>1. Init => SyncInv /\ WindowInv
  BY InitSync, WindowInit
<1>2. SyncInv /\ WindowInv /\ [Next]_vars => SyncInv' /\ WindowInv'
  BY SyncStep, WindowStep
<1> QED BY <1>1, <1>2, StoppedIsParked, PTL DEF Spec

-----------------------------------------------------------------------------
(* The rings *)

\* Two blocks of a ring that are less than a round apart have different slots.
LEMMA RingApart ==
  ASSUME NEW N \in Nat \ {0}, NEW i \in Nat, NEW j \in Nat, i < j, j - i < N
  PROVE  i % N # j % N
<1>1. PICK q \in Nat, r \in 0 .. N - 1 : i = N * q + r /\ r = i % N
  <2>1. i = N * (i \div N) + (i % N) /\ i % N \in 0 .. N - 1 /\ i \div N \in Nat
    OBVIOUS
  <2> QED BY <2>1
<1>2. PICK p \in Nat, s \in 0 .. N - 1 : j = N * p + s /\ s = j % N
  <2>1. j = N * (j \div N) + (j % N) /\ j % N \in 0 .. N - 1 /\ j \div N \in Nat
    OBVIOUS
  <2> QED BY <2>1
<1>3. ASSUME r = s PROVE FALSE
  <2>1. j - i = N * (p - q)
    BY <1>1, <1>2, <1>3
  <2>2. p - q >= 1
    <3>1. CASE p - q <= 0
      <4>1. N * (p - q) <= 0
        BY <3>1
      <4> QED BY <2>1, <4>1
    <3> QED BY <3>1
  <2>3. N * (p - q) >= N
    BY <2>2
  <2> QED BY <2>1, <2>3
<1> QED BY <1>1, <1>2, <1>3

\* A multiple grows with its factor.
LEMMA MoreBlocks ==
  ASSUME NEW K \in Nat, NEW m \in Int, NEW n \in Int, m <= n
  PROVE  m * K <= n * K /\ m * K \in Int /\ n * K \in Int /\ (m + 1) * K = m * K + K
<1>1. (n - m) * K >= 0
  OBVIOUS
<1> QED BY <1>1

\* The blocks that lie in a ring, from the one that the consumer holds or asks for.
LEMMA HashIndices ==
  ASSUME SyncInv, Running("hash"), pc["bt"] \notin {"release", "waitstop"}
  PROVE  /\ First("hash") \in Nat /\ Index("hash") \in Nat /\ First("hash") <= Index("hash")
         /\ Index("hash") - First("hash") <= HashNumBlocks
         /\ pc["bt"] # "filled" => First("hash") < Index("hash")
         /\ pc["hash"] = "check" => /\ Index("hash") = hashIndex
                                    /\ Index("hash") - First("hash") < HashNumBlocks
<1>1. /\ First("hash") \in Nat /\ Index("hash") \in Nat /\ Sent("hash") \in Int
      /\ sync["hash"].free \in Nat /\ sync["hash"].filled \in Nat
  BY DEF SyncInv, SyncTypes, SyncType, Lives, First, Index, Sent
<1>2. NumBlocks("hash") = HashNumBlocks /\ Consumer("hash") = "bt"
  BY DEF NumBlocks, Consumer
<1>3. /\ sync["hash"].filled = Sent("hash") - First("hash") - (IF pc["bt"] = "filled" THEN 0 ELSE 1)
      /\ sync["hash"].free + Claimed("hash") + Sent("hash") - First("hash") <= HashNumBlocks
  BY <1>2 DEF SyncInv, Counts
<1>4. /\ Sent("hash") <= Index("hash") /\ Index("hash") - Sent("hash") <= Claimed("hash")
      /\ pc["hash"] = "check" => Claimed("hash") = 1 /\ Sent("hash") = Index("hash") /\ Index("hash") = hashIndex
      /\ Claimed("hash") \in {0, 1}
  BY <1>1 DEF Sent, Claimed, Claims, Index
<1> HIDE DEF First, Index, Sent, Claimed
<1> QED BY <1>1, <1>3, <1>4, Sizes

\* The blocks of the tree thread that are not free, and their order.
LEMMA BtIndices ==
  ASSUME SyncInv, Running("bt"), pc["lz"] \notin {"release", "waitstop"}
  PROVE  /\ First("bt") \in Nat /\ Index("bt") \in Nat /\ First("bt") <= Index("bt")
         /\ Index("bt") - First("bt") <= BtNumBlocks
         /\ pc["lz"] # "filled" => First("bt") < Index("bt")
         /\ pc["bt"] \in Claims \ {"send"} => /\ Index("bt") = btIndex
                                              /\ Index("bt") - First("bt") < BtNumBlocks
<1>1. /\ First("bt") \in Nat /\ Index("bt") \in Nat /\ Sent("bt") \in Int
      /\ sync["bt"].free \in Nat /\ sync["bt"].filled \in Nat
  BY DEF SyncInv, SyncTypes, SyncType, Lives, First, Index, Sent
<1>2. NumBlocks("bt") = BtNumBlocks /\ Consumer("bt") = "lz"
  BY DEF NumBlocks, Consumer
<1>3. /\ sync["bt"].filled = Sent("bt") - First("bt") - (IF pc["lz"] = "filled" THEN 0 ELSE 1)
      /\ sync["bt"].free + Claimed("bt") + Sent("bt") - First("bt") <= BtNumBlocks
  BY <1>2 DEF SyncInv, Counts
<1>4. /\ Sent("bt") <= Index("bt") /\ Index("bt") - Sent("bt") <= Claimed("bt")
      /\ pc["bt"] \in Claims \ {"send"} =>
           Claimed("bt") = 1 /\ Sent("bt") = Index("bt") /\ Index("bt") = btIndex
      /\ Claimed("bt") \in {0, 1}
  BY <1>1 DEF Sent, Claimed, Claims, Index
<1> HIDE DEF First, Index, Sent, Claimed
<1> QED BY <1>1, <1>3, <1>4, Sizes

\* When a thread is not started, the others do not use its ring.
LEMMA NotStarted ==
  ASSUME SyncInv
  PROVE  /\ ~Running("hash") => pc["hash"] \in {"none", "wait", "done"}
         /\ ~Running("bt") => pc["bt"] \in {"none", "wait", "done"} /\ ~Running("hash")
         /\ pc["bt"] \in BtWorking => Running("bt")
         /\ pc["bt"] \in BtWorking /\ ~Running("hash") =>
              /\ sync["hash"].created /\ sync["hash"].needStart
              /\ pc["hash"] = "wait" /\ pc["bt"] \notin {"filled", "lock"}
BY DEF SyncInv, Lives, Resting, Running, BtPlaces, LzPlaces, BtWorking, Exiting

\* The LZ thread initialises the threads and ends them while they are stopped, and
\* leaves the data of the others alone in all its other steps.
LzAdmin == \/ Create \/ InitMt
           \/ ExitThread("bt", "exitBt", "joinBt") \/ JoinThread("bt", "joinBt", "exitHash")
           \/ ExitThread("hash", "exitHash", "joinHash") \/ JoinThread("hash", "joinHash", "destroyed")

\* While the threads are created, initialised or destroyed, neither runs.
LEMMA AdminFacts ==
  ASSUME SyncInv, SyncInv', LzAdmin
  PROVE  /\ pc["lz"] \in {"idle", "init", "exitBt", "joinBt", "exitHash", "joinHash"}
         /\ ~Running("hash") /\ ~Running("hash")' /\ ~Running("bt") /\ ~Running("bt")'
         /\ pc["bt"] \in {"none", "wait", "done"} /\ pc'["bt"] \in {"none", "wait", "done"}
<1>1. /\ pc["lz"] \in {"idle", "init", "exitBt", "joinBt", "exitHash", "joinHash"}
      /\ pc'["lz"] \in {"idle", "init", "run", "stop", "joinBt", "exitHash", "joinHash", "destroyed"}
  BY DEF LzAdmin, Create, InitMt, ExitThread, JoinThread, Move, Goto, SyncInv, SyncTypes, Threads, Syncs
<1>2. ~Running("bt")
  BY <1>1 DEF SyncInv, LzPlaces
<1>3. ~Running("bt")'
  <2>1. pc'["lz"] \notin {"run", "stop"} => ~Running("bt")'
    BY <1>1 DEF SyncInv, LzPlaces
  <2>2. CASE pc'["lz"] \in {"run", "stop"}
    <3>1. InitMt
      BY <2>2 DEF LzAdmin, Create, ExitThread, JoinThread, Move, Goto, SyncInv, SyncTypes, Threads, Syncs
    <3>2. sync'["bt"].needStart = sync["bt"].needStart /\ sync'["bt"].created = sync["bt"].created
      <4>1. \/ sync' = sync
            \/ sync'["bt"] = [sync["bt"] EXCEPT !.free = NumBlocks("bt"), !.filled = 0]
        BY <3>1 DEF InitMt, Syncs
      <4>2. DOMAIN sync["bt"] = SyncFields
        BY DEF SyncInv, SyncTypes, SyncType
      <4> QED BY <4>1, <4>2 DEF SyncFields, NewSync
    <3> QED BY <1>2, <3>2 DEF Running
  <2> QED BY <2>1, <2>2
<1> QED BY <1>1, <1>2, <1>3, NotStarted DEF SyncInv, Lives, Resting, BtPlaces

\* The other steps of the LZ thread leave the hash thread and all data but its own alone.
LEMMA LzFrame ==
  ASSUME SyncInv, LzNext, ~LzAdmin
  PROVE  /\ pc'["bt"] = pc["bt"] /\ pc'["hash"] = pc["hash"] /\ sync'["hash"] = sync["hash"]
         /\ UNCHANGED <<mf, hashBuf, hashIndex, btBuf, btIndex, bt, offset>>
<1> USE DEF SyncInv, SyncTypes, Threads, Syncs, Move, Goto, Consumer, dataVars
<1>1. CASE LzGetNextBlock
  BY <1>1 DEF LzGetNextBlock, GetNextBlock, NextStart, NextFree
<1>2. CASE LzTake \/ LzGetMatches
  BY <1>2 DEF LzTake, LzGetMatches
<1>3. CASE LzFlush \/ LzGivesUp \/ LzStopped \/ Destruct
  BY <1>3 DEF LzFlush, LzGivesUp, LzStopped, Destruct
<1>4. CASE SyncNext("bt")
  BY <1>4 DEF SyncNext, FilledWait, StopSkip, StopFlag, StopReleaseFree, StopWait
<1> QED BY <1>1, <1>2, <1>3, <1>4 DEF LzNext, LzAdmin

-----------------------------------------------------------------------------
(* The ring of hash blocks through the steps *)

\* The blocks stay described when only the consumer's index grows.
LEMMA HashRingFrame ==
  ASSUME HashRing, UNCHANGED hashBuf, mf'.pos = mf.pos, mf'.streamPos = mf.streamPos,
         mf'.end = mf.end, mf'.ok = mf.ok,
         Running("hash")' /\ pc'["bt"] \notin {"release", "waitstop"} =>
           /\ Running("hash") /\ pc["bt"] \notin {"release", "waitstop"}
           /\ First("hash") \in Int /\ Index("hash") \in Int /\ Index("hash")' = Index("hash")
           /\ First("hash")' \in Int /\ First("hash")' >= First("hash")
  PROVE  HashRing'
<1> SUFFICES ASSUME Running("hash")', pc'["bt"] \notin {"release", "waitstop"},
                    NEW i \in First("hash")' .. Index("hash")' - 1
             PROVE  HashItem(i)'
  BY DEF HashRing
<1>1. i \in First("hash") .. Index("hash") - 1
  OBVIOUS
<1>2. HashItem(i)
  BY <1>1 DEF HashRing
<1> QED BY <1>2 DEF HashItem, HashAt, HashNextFirst, GoodHash, Frozen, Ended

\* The LZ thread leaves the hash blocks as they are.
LEMMA LzHashRing ==
  ASSUME SyncInv, SyncInv', WindowInv, HashRing, LzNext PROVE HashRing'
<1>1. CASE LzAdmin
  BY <1>1, AdminFacts DEF HashRing
<1>2. CASE ~LzAdmin
  <2>1. /\ pc'["bt"] = pc["bt"] /\ pc'["hash"] = pc["hash"] /\ sync'["hash"] = sync["hash"]
        /\ UNCHANGED <<mf, hashBuf, hashIndex>>
    BY <1>2, LzFrame
  <2>2. /\ Running("hash")' = Running("hash") /\ First("hash")' = First("hash")
        /\ Index("hash")' = Index("hash")
    BY <2>1 DEF Running, First, Index
  <2>3. First("hash") \in Int /\ Index("hash") \in Int
    BY DEF First, Index, SyncInv, SyncTypes, SyncType
  <2> QED BY <2>1, <2>2, <2>3, HashRingFrame
<1> QED BY <1>1, <1>2

\* The tree thread frees hash blocks and changes none.
LEMMA BtHashRing ==
  ASSUME SyncInv, SyncInv', WindowInv, HashRing, BtNext PROVE HashRing'
<1>t. /\ SyncTypes /\ First("hash") \in Int /\ Index("hash") \in Int /\ First("hash")' \in Int
      /\ pc["bt"] \in BtPcs /\ pc \in [Threads -> LzPcs \cup BtPcs \cup HashPcs]
      /\ DOMAIN sync = Syncs /\ DOMAIN sync["hash"] = SyncFields
  BY DEF First, Index, SyncInv, SyncTypes, SyncType
<1>1. /\ UNCHANGED <<mf, hashBuf, hashIndex>> /\ pc'["hash"] = pc["hash"]
      /\ Index("hash")' = Index("hash")
  BY <1>t DEF BtNext, BtStart, CanStart, BtLoop, BtGoOn, FreeWait, BtFillBlock, BtMatch, BtFailure, BtGetNextBlock,
    BtTake, BtFilled, Send, BtBreak, BtStopped, SetStopped, GetNextBlock, NextStart, NextFree, SyncNext,
    FilledWait, StopSkip, StopFlag, StopReleaseFree, StopWait, Move, Goto, Consumer, Threads, StopHash,
    dataVars, Index
<1>2. CASE BtGetNextBlock
  <2>1. pc["bt"] = "match" /\ pc'["bt"] = "filled"
    BY <1>2, <1>t DEF BtGetNextBlock, GetNextBlock, NextStart, NextFree, Goto, Consumer, Threads
  <2>2. CASE NextStart("hash")
    <3>1. First("hash")' = 0
      BY <2>2, <1>t DEF NextStart, Started, First, SyncFields, NewSync, Syncs
    <3>2. pc["hash"] = "wait"
      BY <2>1, <2>2, NotStarted DEF NextStart, Running, BtWorking
    <3>3. Index("hash")' = 0
      BY <1>1, <3>2 DEF Index
    <3> QED BY <3>1, <3>3 DEF HashRing
  <2>3. CASE NextFree("hash")
    <3>1. First("hash")' = First("hash") + 1 /\ (Running("hash")' => Running("hash"))
      BY <2>3, <1>t DEF NextFree, First, Running, SyncFields, NewSync, Syncs, SyncTypes, SyncType
    <3> QED BY <1>1, <1>t, <2>1, <3>1, HashRingFrame
  <2> QED BY <1>2, <2>2, <2>3 DEF BtGetNextBlock, GetNextBlock
<1>3. CASE StopWait("hash")
  BY <1>3, <1>t DEF HashRing, StopWait, Running, SyncFields, NewSync, Syncs
<1>4. CASE ~BtGetNextBlock /\ ~StopWait("hash")
  <2>1. /\ First("hash")' = First("hash") /\ Running("hash")' = Running("hash")
        /\ pc["bt"] \in {"release", "waitstop"} => pc'["bt"] \in {"release", "waitstop"}
    <3> USE <1>t DEF First, Running, Move, Goto, Consumer, Threads, Syncs, SyncFields, NewSync, dataVars
    <3>1. CASE BtStart \/ BtLoop \/ BtGoOn \/ FreeWait("bt") \/ BtMatch \/ BtFailure \/ BtFilled \/ Send("bt")
      BY <3>1 DEF BtStart, CanStart, BtLoop, BtGoOn, FreeWait, BtMatch, BtFailure, BtFilled, Send
    <3>2. CASE BtFillBlock \/ BtTake
      BY <3>2 DEF BtFillBlock, BtTake
    <3>3. CASE BtBreak \/ BtStopped
      BY <3>3 DEF BtBreak, BtStopped, SetStopped, StopHash
    <3>4. CASE FilledWait("hash") \/ StopSkip("hash") \/ StopFlag("hash") \/ StopReleaseFree("hash")
      BY <3>4 DEF FilledWait, StopSkip, StopFlag, StopReleaseFree
    <3> QED BY <1>4, <3>1, <3>2, <3>3, <3>4 DEF BtNext, SyncNext
  <2> QED BY <1>1, <1>t, <2>1, HashRingFrame
<1> QED BY <1>2, <1>3, <1>4

\* What one round of HashThreadFunc finds and writes.
NewHash(h) == /\ hashBuf' = [hashBuf EXCEPT ![hashIndex % HashNumBlocks] = h]
              /\ BlockTypes(h) /\ GoodHash(mf', h) /\ Step(h) \in Nat
              /\ h.first = mf.pos /\ mf'.pos = mf.pos + Step(h)
              /\ ~Ended(mf') => Step(h) <= HashBlockSize - 2

\* One round of HashThreadFunc: what it reads, and the block it makes of it.
LEMMA FillFacts ==
  ASSUME SyncInv, WindowInv, HashFill
  PROVE  /\ pc["hash"] = "check" /\ pc'["hash"] = "send" /\ pc'["bt"] = pc["bt"] /\ pc'["lz"] = pc["lz"]
         /\ Running("hash") /\ Running("bt") /\ hashIndex' = hashIndex + 1
         /\ UNCHANGED <<sync, btBuf, btIndex, bt, lz, offset, encodes, result>>
         /\ mf'.base = mf.base /\ mf'.pos \in Int /\ mf'.streamPos \in Int /\ mf.streamPos <= mf'.streamPos
         /\ Ended(mf) => Ended(mf')
         /\ Frozen(mf) => Frozen(mf') /\ mf'.pos = mf.pos /\ mf'.streamPos = mf.streamPos
         /\ \E h : NewHash(h)
<1>1. PICK m \in ReadIfRequired :
        /\ hashBuf' = [hashBuf EXCEPT ![hashIndex % HashNumBlocks] = HashBlock(m)]
        /\ mf' = [m EXCEPT !.pos = @ + Step(HashBlock(m)), !.ptr = @ + Step(HashBlock(m))]
  BY DEF HashFill
<1>2. /\ pc["hash"] = "check" /\ pc'["hash"] = "send" /\ pc'["bt"] = pc["bt"] /\ pc'["lz"] = pc["lz"]
      /\ UNCHANGED <<sync, btBuf, btIndex, bt, lz, offset, encodes, result>>
      /\ hashIndex' = hashIndex + 1
  BY DEF HashFill, Move, Goto, SyncInv, SyncTypes, Threads, runVars
<1>3. Running("hash") /\ Running("bt") /\ ~NeedMove
  BY <1>2, NotStarted DEF WindowInv, Window
<1>4. /\ DOMAIN m = MfFields /\ m.end \in BOOLEAN /\ m.ok \in BOOLEAN
      /\ m.pos = mf.pos /\ m.ptr = mf.ptr /\ m.base = mf.base
      /\ m.streamPos \in mf.streamPos .. StreamSize
      /\ (mf.end => m.end) /\ (~mf.ok => ~m.ok) /\ (Ended(mf) => m = mf)
      /\ m.streamPos - m.pos < NumHashBytes => m.end \/ ~m.ok
  BY <1>3, ReadFacts
<1>5. mf.pos \in Int /\ mf.streamPos \in Int /\ mf.pos <= mf.streamPos
  BY Sizes DEF WindowInv, WindowTypes
<1>6. m.pos \in Int /\ m.streamPos \in Int /\ m.pos <= m.streamPos
  BY <1>4, <1>5, Sizes
<1> DEFINE h == HashBlock(m)
<1>7. /\ BlockTypes(h) /\ Step(h) \in Nat /\ m.pos + Step(h) <= m.streamPos
      /\ h.first = m.pos /\ h.avail = m.streamPos - m.pos /\ h.num \in Nat
      /\ h.num <= HashBlockSize - 2
      /\ h.avail >= NumHashBytes =>
           h.num >= 1 /\ h.num <= h.avail - NumHashBytes + 1 /\ Step(h) = h.num
      /\ h.avail < NumHashBytes => h.num = 0 /\ Step(h) = h.avail
  BY <1>6, StepFacts
<1>8. /\ hashBuf' = [hashBuf EXCEPT ![hashIndex % HashNumBlocks] = h]
      /\ DOMAIN mf' = MfFields /\ mf'.pos = mf.pos + Step(h) /\ mf'.base = mf.base
      /\ mf'.streamPos = m.streamPos /\ mf'.end = m.end /\ mf'.ok = m.ok
  BY <1>1, <1>4 DEF MfFields, StartOfWindow
<1> HIDE DEF h
<1>9. Ended(mf) => Ended(mf')
  BY <1>4, <1>8 DEF Ended
<1>10. Frozen(mf) => Frozen(mf') /\ mf'.pos = mf.pos /\ mf'.streamPos = mf.streamPos
  BY <1>4, <1>5, <1>7, <1>8 DEF Ended, Frozen
<1>11. GoodHash(mf', h)
  BY <1>4, <1>5, <1>6, <1>7, <1>8, Sizes DEF GoodHash, Frozen, Ended
<1>12. ~Ended(mf') => Step(h) <= HashBlockSize - 2
  BY <1>4, <1>6, <1>7, <1>8, Sizes DEF Ended
<1>13. mf'.pos \in Int /\ mf'.streamPos \in Int /\ mf.streamPos <= mf'.streamPos
  BY <1>4, <1>5, <1>6, <1>7, <1>8, Sizes
<1>14. NewHash(h)
  BY <1>4, <1>7, <1>8, <1>11, <1>12 DEF NewHash
<1> QED BY <1>2, <1>3, <1>8, <1>9, <1>10, <1>13, <1>14

\* A block that is good stays good while the hash thread goes on.
LEMMA HashGood ==
  ASSUME NEW h, BlockTypes(h), GoodHash(mf, h), mf.streamPos \in Int, mf'.streamPos \in Int,
         mf.streamPos <= mf'.streamPos,
         Frozen(mf) => Frozen(mf') /\ mf'.pos = mf.pos /\ mf'.streamPos = mf.streamPos
  PROVE  GoodHash(mf', h)
BY Sizes DEF GoodHash, BlockTypes

\* A hash block has its type.
LEMMA HashTyped ==
  ASSUME WindowInv, NEW i \in Nat
  PROVE  BlockTypes(HashAt(i)) /\ Step(HashAt(i)) \in Int /\ i % HashNumBlocks \in 0 .. HashNumBlocks - 1
<1>1. i % HashNumBlocks \in 0 .. HashNumBlocks - 1
  BY Sizes
<1>2. BlockTypes(HashAt(i))
  BY <1>1 DEF WindowInv, HashTypes, HashAt
<1> QED BY <1>1, <1>2 DEF Step, BlockTypes

\* The block that the hash thread fills is not one that the tree thread may read.
LEMMA FillKeeps ==
  ASSUME SyncInv, WindowInv, HashFill, pc["bt"] \notin {"release", "waitstop"},
         NEW i \in First("hash") .. Index("hash") - 1
  PROVE  i \in Nat /\ HashAt(i)' = HashAt(i)
<1>1. /\ First("hash") \in Nat /\ Index("hash") = hashIndex /\ hashIndex \in Nat
      /\ hashIndex - First("hash") < HashNumBlocks
  BY FillFacts, HashIndices
<1>2. i \in Nat /\ i < hashIndex /\ hashIndex - i < HashNumBlocks
  BY <1>1, Sizes
<1>3. i % HashNumBlocks # hashIndex % HashNumBlocks
  BY <1>1, <1>2, RingApart, Sizes
<1>4. i % HashNumBlocks \in DOMAIN hashBuf
  BY <1>2, HashTyped DEF WindowInv, HashTypes
<1>5. PICK h : NewHash(h)
  BY FillFacts
<1> QED BY <1>2, <1>3, <1>4, <1>5 DEF HashAt, NewHash

\* A new hash block begins where the last one ended, and overwrites none that is held.
LEMMA FillHashRing ==
  ASSUME SyncInv, SyncInv', WindowInv, WindowInv', HashRing, HashFill PROVE HashRing'
<1> SUFFICES ASSUME pc'["bt"] \notin {"release", "waitstop"},
                    NEW i \in First("hash")' .. Index("hash")' - 1
             PROVE  HashItem(i)'
  BY DEF HashRing
<1>1. /\ pc["hash"] = "check" /\ pc'["hash"] = "send" /\ pc'["bt"] = pc["bt"]
      /\ Running("hash") /\ hashIndex' = hashIndex + 1 /\ sync' = sync
      /\ mf'.pos \in Int /\ mf'.streamPos \in Int /\ mf.streamPos <= mf'.streamPos
      /\ Ended(mf) => Ended(mf')
      /\ Frozen(mf) => Frozen(mf') /\ mf'.pos = mf.pos /\ mf'.streamPos = mf.streamPos
  BY FillFacts
<1>2. PICK h : NewHash(h)
  BY FillFacts
<1>3. /\ First("hash") \in Nat /\ Index("hash") = hashIndex /\ hashIndex \in Nat
      /\ First("hash") <= hashIndex
      /\ First("hash")' = First("hash") /\ Index("hash")' = hashIndex + 1
  <2>1. /\ First("hash") \in Nat /\ Index("hash") = hashIndex /\ First("hash") <= hashIndex
    BY <1>1, HashIndices
  <2> QED BY <1>1, <2>1 DEF First, Index, SyncInv, SyncTypes
<1>4. mf.pos \in Int /\ mf.streamPos \in Int
  BY Sizes DEF WindowInv, WindowTypes
<1>5. PICK k \in Nat : k = hashIndex
  BY <1>3
<1>6. HashAt(k)' = h
  <2>1. k % HashNumBlocks \in DOMAIN hashBuf
    BY HashTyped DEF WindowInv, HashTypes
  <2> QED BY <1>2, <1>5, <2>1 DEF HashAt, NewHash
<1>7. i \in Nat /\ i <= k
  BY <1>3, <1>5
<1> DEFINE K == HashBlockSize - 2
<1>8. CASE i = k
  <2>1. HashAt(i)' = h /\ HashNextFirst(i)' = mf'.pos
    BY <1>3, <1>5, <1>6, <1>8 DEF HashNextFirst
  <2>2. (Index("hash")' - i) * K = K
    BY <1>3, <1>5, <1>8, Sizes
  <2> QED BY <1>1, <1>2, <1>4, <2>1, <2>2, Sizes DEF HashItem, NewHash
<1>9. CASE i < k
  <2>1. i \in First("hash") .. Index("hash") - 1
    BY <1>3, <1>5, <1>7, <1>9
  <2>2. HashItem(i) /\ HashAt(i)' = HashAt(i) /\ BlockTypes(HashAt(i)) /\ Step(HashAt(i)) \in Int
    BY <1>1, <1>7, <2>1, FillKeeps, HashTyped DEF HashRing
  <2>3. GoodHash(mf', HashAt(i))
    BY <1>1, <1>4, <2>2, HashGood DEF HashItem
  <2>4. HashNextFirst(i)' = HashNextFirst(i)
    <3>1. CASE i + 1 = k
      <4>1. HashNextFirst(i) = mf.pos
        BY <1>3, <1>5, <3>1 DEF HashNextFirst
      <4>2. HashNextFirst(i)' = HashAt(k)'.first
        BY <1>3, <1>5, <3>1 DEF HashNextFirst
      <4> QED BY <1>2, <1>6, <4>1, <4>2 DEF NewHash
    <3>2. CASE i + 1 < k
      <4>1. i + 1 \in First("hash") .. Index("hash") - 1
        BY <1>3, <1>5, <1>7, <2>1, <3>2
      <4>2. HashAt(i + 1)' = HashAt(i + 1)
        BY <1>1, <4>1, FillKeeps
      <4>3. i + 1 # Index("hash") /\ i + 1 # Index("hash")'
        BY <1>3, <1>5, <1>7, <3>2
      <4> QED BY <4>2, <4>3 DEF HashNextFirst
    <3> QED BY <1>3, <1>5, <1>7, <1>9, <3>1, <3>2
  <2>5. ~Ended(mf') => mf'.pos - HashAt(i)'.first <= (Index("hash")' - i) * K
    <3>1. (Index("hash")' - i) * K = (Index("hash") - i) * K + K /\ (Index("hash") - i) * K \in Int
      <4>1. K \in Nat /\ k - i \in Int /\ k - i <= k - i
        BY <1>7, Sizes
      <4>2. Index("hash")' - i = (k - i) + 1 /\ Index("hash") - i = k - i
        BY <1>3, <1>5, <1>7
      <4> HIDE DEF K
      <4>3. ((k - i) + 1) * K = (k - i) * K + K /\ (k - i) * K \in Int
        BY <4>1, MoreBlocks
      <4> QED BY <4>2, <4>3
    <3>2. ~Ended(mf') => mf.pos - HashAt(i).first <= (Index("hash") - i) * K
      BY <1>1, <2>2 DEF HashItem
    <3>3. HashAt(i).first \in Int
      BY <2>2 DEF BlockTypes
    <3> HIDE DEF K
    <3>4. ~Ended(mf') => Step(h) <= K /\ Step(h) \in Int /\ K \in Int
      BY <1>2, Sizes DEF NewHash, K
    <3>5. mf'.pos = mf.pos + Step(h) /\ Step(h) \in Nat
      BY <1>2 DEF NewHash
    <3> QED BY <1>4, <2>2, <3>1, <3>2, <3>3, <3>4, <3>5
  <2> QED BY <2>2, <2>3, <2>4, <2>5 DEF HashItem
<1> QED BY <1>5, <1>7, <1>8, <1>9

\* The hash thread keeps the ring of hash blocks.
LEMMA HashHashRing ==
  ASSUME SyncInv, SyncInv', WindowInv, WindowInv', HashRing, HashNext PROVE HashRing'
<1>t. /\ SyncTypes /\ First("hash") \in Int /\ Index("hash") \in Int /\ First("hash")' \in Int
      /\ pc["bt"] \in BtPcs /\ pc \in [Threads -> LzPcs \cup BtPcs \cup HashPcs]
      /\ DOMAIN sync = Syncs /\ DOMAIN sync["hash"] = SyncFields
  BY DEF First, Index, SyncInv, SyncTypes, SyncType
<1>1. CASE HashFill
  BY <1>1, FillHashRing
<1>2. CASE HashMove
  <2>1. /\ mf'.pos = mf.pos /\ mf'.streamPos = mf.streamPos /\ mf'.end = mf.end /\ mf'.ok = mf.ok
    BY <1>2, MoveFacts DEF MfFields, StartOfWindow
  <2>2. /\ sync' = sync /\ pc'["bt"] = pc["bt"] /\ UNCHANGED <<hashBuf, hashIndex>>
        /\ pc["hash"] = "move" /\ pc'["hash"] = "adjust"
    BY <1>2, <1>t DEF HashMove, Move, Goto, Threads
  <2>3. Index("hash")' = Index("hash") /\ First("hash")' = First("hash") /\ Running("hash")' = Running("hash")
    BY <2>2 DEF Index, First, Running
  <2> QED BY <1>t, <2>1, <2>2, <2>3, HashRingFrame
<1>3. CASE HashStop
  <2>1. pc["hash"] = "check" /\ (sync["hash"].exit \/ sync["hash"].stopWriting)
    BY <1>3 DEF HashStop
  <2>2. pc["bt"] \in {"release", "waitstop"}
    BY <2>1, NotStarted DEF SyncInv, Lives, Consumer
  <2>3. pc'["bt"] = pc["bt"]
    BY <1>3, <1>t DEF HashStop, SetStopped, Goto, Threads
  <2> QED BY <2>2, <2>3 DEF HashRing
<1>4. CASE ~HashFill /\ ~HashMove /\ ~HashStop
  <2>1. /\ UNCHANGED <<mf, hashBuf>> /\ pc'["bt"] = pc["bt"]
        /\ First("hash")' = First("hash") /\ Running("hash")' = Running("hash")
        /\ Running("hash") => Index("hash")' = Index("hash")
    <3> USE <1>t DEF First, Running, Index, Move, Goto, Threads, Syncs, SyncFields, NewSync, dataVars
    <3>1. CASE HashStart
      <4>1. Running("hash") => ~sync["hash"].exit
        BY DEF SyncInv, Lives
      <4> QED BY <3>1, <4>1 DEF HashStart, CanStart
    <3>2. CASE HashLoop \/ FreeWait("hash") \/ Send("hash")
      BY <3>2 DEF HashLoop, FreeWait, Send
    <3>3. CASE HashAdjust
      BY <3>3 DEF HashAdjust
    <3>4. CASE Enter("bt", "enterBt", "enterHash") \/ Enter("hash", "enterHash", "move")
      BY <3>4 DEF Enter
    <3> QED BY <1>4, <3>1, <3>2, <3>3, <3>4 DEF HashNext
  <2> QED BY <1>t, <2>1, HashRingFrame
<1> QED BY <1>1, <1>2, <1>3, <1>4

-----------------------------------------------------------------------------
(* What the hash thread changes for the others *)

\* The positions and counts are integers.
LEMMA Ints ==
  ASSUME WindowInv
  PROVE  /\ mf.pos \in Int /\ mf.streamPos \in Int /\ mf.base \in Int /\ mf.pos <= mf.streamPos
         /\ mf.streamPos <= StreamSize /\ mf.base >= 0
         /\ bt.pos \in Int /\ bt.left \in Int /\ bt.avail \in Int /\ bt.done \in Int /\ bt.failed \in BOOLEAN
         /\ lz.pos \in Int /\ lz.left \in Int /\ lz.avail \in Int /\ lz.failed \in BOOLEAN
BY Sizes DEF WindowInv, WindowTypes

\* A tree block has its type.
LEMMA BtTyped ==
  ASSUME WindowInv, NEW j \in Nat
  PROVE  /\ BlockTypes(BtAtIndex(j)) /\ j % BtNumBlocks \in 0 .. BtNumBlocks - 1
         /\ StartOf(mf, BtAtIndex(j)) \in Int
<1>1. j % BtNumBlocks \in 0 .. BtNumBlocks - 1
  BY Sizes
<1>2. BlockTypes(BtAtIndex(j))
  BY <1>1 DEF WindowInv, BtTypes, BtAtIndex
<1> QED BY <1>1, <1>2, Ints DEF StartOf, BlockTypes

\* The block that the tree thread fills.
LEMMA BtBlockTyped ==
  ASSUME SyncInv, WindowInv
  PROVE  /\ btIndex \in Nat /\ BtBlock = BtAtIndex(btIndex) /\ BlockTypes(BtBlock)
         /\ BtBlock.first \in Int /\ BtBlock.num \in Int /\ BtBlock.avail \in Int
         /\ BtBlock.failed \in BOOLEAN /\ DOMAIN BtBlock = BlockFields
         /\ BtSlot \in DOMAIN btBuf /\ StartOf(mf, BtBlock) \in Int
<1>1. btIndex \in Nat
  BY DEF SyncInv, SyncTypes
<1>2. BtBlock = BtAtIndex(btIndex) /\ BtSlot = btIndex % BtNumBlocks
  BY DEF BtBlock, BtSlot, BtAtIndex
<1>3. BlockTypes(BtBlock) /\ BtSlot \in DOMAIN btBuf /\ StartOf(mf, BtBlock) \in Int
  BY <1>1, <1>2, BtTyped DEF WindowInv, BtTypes
<1> QED BY <1>1, <1>2, <1>3 DEF BlockTypes

\* The hash block that the tree thread holds, or waits for, if it is there.
LEMMA HashHeldFacts ==
  ASSUME SyncInv, WindowInv, HashRing, Running("hash"), pc["bt"] \notin {"release", "waitstop"}
  PROVE  /\ First("hash") \in Nat /\ BlockTypes(HashHeld)
         /\ HashHeld.first \in Int /\ HashHeld.num \in Int /\ HashHeld.avail \in Int
         /\ Step(HashHeld) \in Int
         /\ First("hash") < Index("hash") =>
              /\ HashItem(First("hash")) /\ GoodHash(mf, HashHeld)
              /\ Step(HashHeld) >= 0 /\ Step(HashHeld) >= HashHeld.num
              /\ HashHeld.avail >= NumHashBytes => Step(HashHeld) = HashHeld.num
              /\ HashHeld.avail < NumHashBytes => Step(HashHeld) = HashHeld.avail
<1>1. First("hash") \in Nat /\ Index("hash") \in Nat
  BY HashIndices
<1>2. BlockTypes(HashHeld) /\ Step(HashHeld) \in Int
  BY <1>1, HashTyped DEF HashHeld
<1>3. HashHeld.first \in Int /\ HashHeld.num \in Int /\ HashHeld.avail \in Int
  BY <1>2 DEF BlockTypes
<1>4. ASSUME First("hash") < Index("hash")
      PROVE  HashItem(First("hash")) /\ GoodHash(mf, HashHeld)
  <2>1. First("hash") \in First("hash") .. Index("hash") - 1
    BY <1>1, <1>4
  <2> QED BY <2>1 DEF HashRing, HashItem, HashHeld
<1>5. GoodHash(mf, HashHeld) =>
              /\ Step(HashHeld) >= 0 /\ Step(HashHeld) >= HashHeld.num
              /\ HashHeld.avail >= NumHashBytes => Step(HashHeld) = HashHeld.num
              /\ HashHeld.avail < NumHashBytes => Step(HashHeld) = HashHeld.avail
  BY <1>2, <1>3, Sizes DEF GoodHash, Step
<1> QED BY <1>1, <1>2, <1>3, <1>4, <1>5

\* The hash thread runs only for a tree thread that runs, but for its end.
LEMMA HashRuns ==
  ASSUME SyncInv, HashNext
  PROVE  \/ /\ Running("hash") /\ Running("bt")
            /\ pc["bt"] \in BtWorking \cup {"stop", "release", "waitstop"}
         \/ pc["lz"] = "joinHash" /\ ~Running("bt") /\ ~Running("hash") /\ pc["bt"] \notin BtWorking
<1>1. CASE Running("hash")
  BY <1>1 DEF SyncInv, BtPlaces
<1>2. CASE ~Running("hash")
  <2>1. pc["hash"] \in {"none", "wait", "done"}
    BY <1>2, NotStarted
  <2>2. HashStart
    BY <2>1 DEF HashNext, HashLoop, FreeWait, HashMove, HashAdjust, Enter, HashFill, Send, HashStop, Move
  <2>3. sync["hash"].canStart
    BY <2>2 DEF HashStart, CanStart
  <2>4. pc["lz"] = "joinHash"
    BY <1>2, <2>3 DEF SyncInv, Lives, Resting, Exiting
  <2>5. ~Running("bt")
    BY <2>4 DEF SyncInv, LzPlaces
  <2> QED BY <1>2, <2>4, <2>5, NotStarted DEF BtWorking
<1> QED BY <1>1, <1>2

\* Other than by its own data, the hash thread moves on only by what it reads.
Grows ==
  /\ mf'.pos \in Int /\ mf'.streamPos \in Int /\ mf.streamPos <= mf'.streamPos
  /\ mf'.base \in Int
  /\ Ended(mf) => Ended(mf')
  /\ Frozen(mf) => Frozen(mf') /\ mf'.pos = mf.pos /\ mf'.streamPos = mf.streamPos

\* What the tree thread and the LZ thread see of a step of the hash thread.
LEMMA HashFrame ==
  ASSUME SyncInv, SyncInv', WindowInv, WindowInv', HashNext
  PROVE  /\ pc'["bt"] = pc["bt"] /\ pc'["lz"] = pc["lz"]
         /\ First("hash")' = First("hash") /\ Running("hash")' = Running("hash")
         /\ First("bt")' = First("bt") /\ Running("bt")' = Running("bt") /\ Index("bt")' = Index("bt")
         /\ UNCHANGED <<btBuf, btIndex, encodes, result>>
         /\ bt'.pos = bt.pos /\ bt'.left = bt.left /\ bt'.avail = bt.avail /\ bt'.done = bt.done
         /\ bt'.failed = bt.failed
         /\ lz'.pos = lz.pos /\ lz'.left = lz.left /\ lz'.avail = lz.avail /\ lz'.failed = lz.failed
         /\ Grows
         /\ ~HashMove => mf'.base = mf.base
<1>t. /\ SyncTypes /\ pc \in [Threads -> LzPcs \cup BtPcs \cup HashPcs]
      /\ DOMAIN sync = Syncs /\ DOMAIN sync["hash"] = SyncFields /\ DOMAIN sync["bt"] = SyncFields
  BY DEF SyncInv, SyncTypes, SyncType
<1>g. (mf'.pos = mf.pos /\ mf'.streamPos = mf.streamPos /\ mf'.end = mf.end /\ mf'.ok = mf.ok) => Grows
  <2>1. mf'.base \in Int
    BY Sizes DEF WindowInv, WindowTypes
  <2> QED BY <2>1, Ints DEF Grows, Frozen, Ended
<1>1. CASE HashFill
  <2>1. Grows
    <3>1. mf'.base \in Int
      BY Sizes DEF WindowInv, WindowTypes
    <3> QED BY <1>1, <3>1, FillFacts DEF Grows
  <2>2. /\ pc'["bt"] = pc["bt"] /\ pc'["lz"] = pc["lz"] /\ mf'.base = mf.base
        /\ UNCHANGED <<sync, btBuf, btIndex, encodes, result, bt, lz>>
    BY <1>1, FillFacts
  <2> QED BY <2>1, <2>2 DEF First, Running, Index
<1>2. CASE HashMove
  <2>1. /\ mf'.pos = mf.pos /\ mf'.streamPos = mf.streamPos /\ mf'.end = mf.end /\ mf'.ok = mf.ok
    BY <1>2, MoveFacts DEF MfFields, StartOfWindow
  <2>2. /\ pc'["bt"] = pc["bt"] /\ pc'["lz"] = pc["lz"]
        /\ UNCHANGED <<sync, btBuf, btIndex, encodes, result, bt, lz>>
    BY <1>2, <1>t DEF HashMove, Move, Goto, Threads, runVars
  <2> QED BY <1>2, <1>g, <2>1, <2>2 DEF First, Running, Index
<1>3. CASE HashAdjust
  <2>1. /\ pc'["bt"] = pc["bt"] /\ pc'["lz"] = pc["lz"]
        /\ UNCHANGED <<mf, btBuf, btIndex, encodes, result>>
        /\ bt' = [bt EXCEPT !.ptr = @ - offset] /\ lz' = [lz EXCEPT !.ptr = @ - offset]
    BY <1>3, <1>t DEF HashAdjust, Move, Goto, Threads, runVars
  <2>2. /\ bt'.pos = bt.pos /\ bt'.left = bt.left /\ bt'.avail = bt.avail /\ bt'.done = bt.done
        /\ bt'.failed = bt.failed
        /\ lz'.pos = lz.pos /\ lz'.left = lz.left /\ lz'.avail = lz.avail /\ lz'.failed = lz.failed
    BY <2>1 DEF WindowInv, WindowTypes, BtFields, LzFields, StartOfBt, StartOfLz
  <2>3. \A s \in Syncs : /\ sync'[s].numProcessed = sync[s].numProcessed
                         /\ sync'[s].needStart = sync[s].needStart /\ sync'[s].created = sync[s].created
    BY <1>3, <1>t DEF HashAdjust, Syncs, SyncFields, NewSync
  <2> QED BY <1>3, <1>g, <2>1, <2>2, <2>3 DEF First, Running, Index, Syncs, HashMove, Move
<1>4. CASE ~HashFill /\ ~HashMove /\ ~HashAdjust
  <2>1. /\ pc'["bt"] = pc["bt"] /\ pc'["lz"] = pc["lz"]
        /\ UNCHANGED <<mf, btBuf, btIndex, encodes, result, bt, lz>>
        /\ \A s \in Syncs : /\ sync'[s].numProcessed = sync[s].numProcessed
                            /\ sync'[s].needStart = sync[s].needStart /\ sync'[s].created = sync[s].created
    <3> USE <1>t DEF Move, Goto, Threads, Syncs, SyncFields, NewSync, dataVars, runVars
    <3>1. CASE HashStart
      BY <3>1 DEF HashStart, CanStart
    <3>2. CASE HashLoop \/ FreeWait("hash") \/ Send("hash")
      BY <3>2 DEF HashLoop, FreeWait, Send
    <3>3. CASE HashStop
      BY <3>3 DEF HashStop, SetStopped
    <3>4. CASE Enter("bt", "enterBt", "enterHash") \/ Enter("hash", "enterHash", "move")
      BY <3>4 DEF Enter
    <3> QED BY <1>4, <3>1, <3>2, <3>3, <3>4 DEF HashNext
  <2> QED BY <1>4, <1>g, <2>1 DEF First, Running, Index, Syncs
<1> QED BY <1>1, <1>2, <1>3, <1>4

\* The hash thread does not disturb the block that the tree thread holds.
LEMMA HashKeeps ==
  ASSUME SyncInv, SyncInv', WindowInv, WindowInv', HashRing, HashNext, pc["bt"] \in BtWorking
  PROVE  /\ Running("hash") /\ Running("bt")
         /\ pc["bt"] \notin {"filled"} => HashHeld' = HashHeld
         /\ BtAt' = BtAt
<1>1. Running("hash") /\ Running("bt") /\ pc["bt"] \notin {"release", "waitstop"}
  BY HashRuns DEF BtWorking
<1>2. /\ pc'["bt"] = pc["bt"] /\ First("hash")' = First("hash") /\ Running("hash")' = Running("hash")
      /\ bt'.left = bt.left
  BY HashFrame
<1>3. /\ First("hash") \in Nat /\ Index("hash") \in Nat /\ First("hash") <= Index("hash")
      /\ pc["bt"] # "filled" => First("hash") < Index("hash")
  BY <1>1, HashIndices
<1>4. CASE HashFill
  <2>1. hashIndex = Index("hash") /\ Index("hash")' = Index("hash") + 1
    BY <1>1, <1>4, FillFacts, HashIndices DEF Index
  <2>2. First("hash") < Index("hash") => HashHeld' = HashHeld
    <3>1. ASSUME First("hash") < Index("hash") PROVE HashAt(First("hash"))' = HashAt(First("hash"))
      <4>1. PICK k \in Nat : k = First("hash")
        BY <1>3
      <4>2. HashAt(k)' = HashAt(k)
        BY <1>1, <1>3, <1>4, <3>1, <4>1, FillKeeps
      <4> QED BY <1>2, <4>1, <4>2 DEF HashAt
    <3> QED BY <3>1 DEF HashHeld
  <2>3. First("hash") = Index("hash") => HashHeld'.first = mf.pos
    <3>1. ASSUME First("hash") = Index("hash") PROVE HashHeld'.first = mf.pos
      <4>1. PICK h : NewHash(h)
        BY <1>4, FillFacts
      <4>2. hashIndex % HashNumBlocks \in DOMAIN hashBuf
        BY <1>3, <2>1, HashTyped DEF WindowInv, HashTypes
      <4>3. HashHeld' = hashBuf'[hashIndex % HashNumBlocks]
        BY <1>2, <2>1, <3>1 DEF HashHeld, HashAt
      <4> QED BY <4>1, <4>2, <4>3 DEF NewHash
    <3> QED BY <3>1
  <2>4. HashFront' = HashFront
    BY <1>2, <1>3, <2>1, <2>2, <2>3 DEF HashFront
  <2> QED BY <1>1, <1>2, <1>3, <2>2, <2>4 DEF BtAt
<1>5. CASE ~HashFill
  <2>1. hashBuf' = hashBuf /\ mf'.pos = mf.pos
    <3>1. HashMove => hashBuf' = hashBuf /\ mf'.pos = mf.pos
      BY MoveFacts DEF HashMove, MfFields, StartOfWindow
    <3> QED BY <1>5, <3>1 DEF HashNext, HashStart, HashLoop, FreeWait, HashAdjust, Enter, Send, HashStop,
          SetStopped, dataVars
  <2>2. Index("hash")' = Index("hash")
    <3>1. HashNext /\ ~HashFill => hashIndex' = hashIndex \/ HashStart
      BY DEF HashNext, HashStart, HashLoop, FreeWait, HashMove, HashAdjust, Enter, Send, HashStop, SetStopped, dataVars
    <3>2. HashStart => Index("hash")' = Index("hash")
      <4>1. ~sync["hash"].exit
        BY <1>1 DEF SyncInv, Lives
      <4> QED BY <4>1 DEF HashStart, CanStart, Goto, Index, SyncInv, SyncTypes, Threads
    <3>3. pc["hash"] # "wait" /\ ~HashStart => pc'["hash"] # "wait"
      <4>1. ~sync["hash"].exit /\ ~sync["hash"].stopWriting
        BY <1>1 DEF SyncInv, Lives, Consumer
      <4> QED BY <1>5, <4>1 DEF HashNext, HashLoop, FreeWait, HashMove, HashAdjust, Enter, Send, HashStop,
            Move, Goto, SyncInv, SyncTypes, Threads
    <3>4. pc["hash"] = "wait" => HashStart
      BY DEF HashNext, HashLoop, FreeWait, HashMove, HashAdjust, Enter, HashFill, Send, HashStop, Move
    <3> QED BY <1>5, <3>1, <3>2, <3>3, <3>4 DEF Index
  <2>3. HashHeld' = HashHeld /\ HashFront' = HashFront
    BY <1>2, <2>1, <2>2 DEF HashHeld, HashFront, HashAt
  <2> QED BY <1>1, <1>2, <2>3 DEF BtAt
<1> QED BY <1>1, <1>4, <1>5

-----------------------------------------------------------------------------
(* The tree thread through the steps of the others *)

\* The position that the tree thread has reached is a number, and while there is more
\* to read it is at most a ring of blocks behind the hash thread.
LEMMA BtAtFacts ==
  ASSUME SyncInv, WindowInv, HashRing, BtData, pc["bt"] \in BtWorking
  PROVE  /\ BtAt \in Int /\ BtAt <= mf.streamPos
         /\ ~Ended(mf) => mf.pos - BtAt <= HashNumBlocks * (HashBlockSize - 2)
<1>i. /\ mf.pos \in Int /\ mf.streamPos \in Int /\ mf.pos <= mf.streamPos
      /\ bt.pos \in Int /\ bt.left \in Int /\ bt.avail \in Int
  BY Ints
<1>1. /\ bt.left >= 0 /\ bt.avail >= 0 /\ bt.pos + bt.avail <= mf.streamPos
      /\ bt.pos = BtAt \/ BtEnded
  BY DEF BtData
<1>2. BtAt \in Int /\ BtAt <= mf.streamPos
  BY <1>i, <1>1 DEF BtEnded
<1>k. HashNumBlocks * (HashBlockSize - 2) \in Nat
  BY Sizes
<1>3. CASE ~Running("hash")
  <2>1. mf.pos = 0 /\ bt.pos = 0
    BY <1>3 DEF BtData, StartOfWindow, StartOfBt
  <2>2. BtAt = 0
    BY <1>3, <2>1 DEF BtAt
  <2> QED BY <1>2, <1>k, <2>1, <2>2
<1>4. CASE Running("hash")
  <2>1. /\ First("hash") \in Nat /\ Index("hash") \in Nat /\ First("hash") <= Index("hash")
        /\ Index("hash") - First("hash") <= HashNumBlocks
        /\ pc["bt"] # "filled" => First("hash") < Index("hash")
    BY <1>4, HashIndices DEF BtWorking
  <2>2. CASE First("hash") = Index("hash")
    <3>1. BtAt = mf.pos
      BY <1>4, <2>1, <2>2 DEF BtAt, HashFront
    <3> QED BY <1>i, <1>2, <1>k, <3>1
  <2>3. CASE First("hash") < Index("hash")
    <3>1. /\ HashItem(First("hash")) /\ HashHeld.first \in Int /\ Step(HashHeld) \in Int
          /\ Step(HashHeld) >= 0 /\ Step(HashHeld) >= HashHeld.num /\ HashHeld.num \in Int
      BY <1>4, <2>3, HashHeldFacts DEF BtWorking
    <3>2. BtAt >= HashHeld.first
      BY <1>i, <1>4, <2>1, <2>3, <3>1 DEF BtAt, HashFront, BtData
    <3>3. ~Ended(mf) => mf.pos - HashHeld.first <= (Index("hash") - First("hash")) * (HashBlockSize - 2)
      BY <3>1 DEF HashItem, HashHeld
    <3>4. /\ (Index("hash") - First("hash")) * (HashBlockSize - 2) <= HashNumBlocks * (HashBlockSize - 2)
          /\ (Index("hash") - First("hash")) * (HashBlockSize - 2) \in Int
      <4>1. /\ HashBlockSize - 2 \in Nat /\ HashNumBlocks \in Int
            /\ Index("hash") - First("hash") \in Int
        BY <2>1, Sizes
      <4> QED BY <2>1, <4>1, MoreBlocks
    <3> DEFINE A == (Index("hash") - First("hash")) * (HashBlockSize - 2)
               B == HashNumBlocks * (HashBlockSize - 2)
    <3>5. A \in Int /\ B \in Int /\ A <= B /\ (~Ended(mf) => mf.pos - HashHeld.first <= A)
      BY <1>k, <3>3, <3>4
    <3> HIDE DEF A, B
    <3>6. ~Ended(mf) => mf.pos - BtAt <= B
      BY <1>i, <1>2, <3>1, <3>2, <3>5
    <3> QED BY <1>2, <3>6 DEF B
  <2> QED BY <2>1, <2>2, <2>3
<1> QED BY <1>3, <1>4

\* The LZ thread leaves the tree thread's data as they are, but for a new run.
LEMMA LzBt ==
  ASSUME SyncInv, SyncInv', WindowInv, BtData, BtFilling, LzNext
  PROVE  /\ BtData' /\ BtFilling'
         /\ ~LzAdmin => BtAt' = BtAt /\ BtSent' = BtSent
<1>1. CASE LzAdmin
  <2>1. pc'["bt"] \in {"none", "wait", "done"}
    BY <1>1, AdminFacts
  <2> QED BY <1>1, <2>1 DEF BtData, BtFilling, BtWorking, InMatch
<1>2. CASE ~LzAdmin
  <2>1. /\ pc'["bt"] = pc["bt"] /\ pc'["hash"] = pc["hash"] /\ sync'["hash"] = sync["hash"]
        /\ mf' = mf /\ hashBuf' = hashBuf /\ hashIndex' = hashIndex /\ btBuf' = btBuf
        /\ btIndex' = btIndex /\ bt' = bt
    BY <1>2, LzFrame
  <2>2. /\ Running("hash")' = Running("hash") /\ First("hash")' = First("hash")
        /\ Index("hash")' = Index("hash")
    BY <2>1 DEF Running, First, Index
  <2>3. HashHeld' = HashHeld /\ HashFront' = HashFront
    BY <2>1, <2>2 DEF HashHeld, HashFront, HashAt
  <2>4. BtAt' = BtAt
    BY <2>1, <2>2, <2>3 DEF BtAt
  <2>5. BtBlock' = BtBlock /\ InMatch' = InMatch
    BY <2>1 DEF BtBlock, BtSlot, InMatch
  <2>6. BtSent' = BtSent
    BY <2>1, <2>4, <2>5 DEF BtSent
  <2>7. BtData'
    BY <2>1, <2>2, <2>3, <2>4, <2>5 DEF BtData, BtEnded
  <2>8. BtFilling'
    BY <2>1, <2>4, <2>5 DEF BtFilling
  <2> QED BY <1>2, <2>4, <2>6, <2>7, <2>8
<1> QED BY <1>1, <1>2

\* A tree block that is good stays good while the hash thread goes on.
LEMMA BtGood ==
  ASSUME NEW b, BlockTypes(b), GoodBt(mf, b), mf.streamPos \in Int, Grows
  PROVE  GoodBt(mf', b) /\ StartOf(mf', b) = StartOf(mf, b)
BY Sizes DEF GoodBt, BlockTypes, StartOf, Grows

\* A move drops nothing that the tree thread may still refer to.
LEMMA MoveBt ==
  ASSUME SyncInv, WindowInv, HashRing, BtData, HashMove, pc["bt"] \in BtWorking
  PROVE  mf'.base + HistorySize <= BtAt
<1>1. mf'.base <= mf.pos - KeepSizeBefore /\ NeedMove /\ mf'.base \in Int
  BY MoveFacts, Ints DEF WindowInv, Window, HashMove, Move
<1>2. ~Ended(mf)
  BY <1>1 DEF NeedMove, Ended
<1>3. BtAt \in Int /\ mf.pos - BtAt <= HashNumBlocks * (HashBlockSize - 2)
  BY <1>2, BtAtFacts
<1>4. HashNumBlocks * (HashBlockSize - 2) <= KeepAddBefore /\ HashNumBlocks * (HashBlockSize - 2) \in Int
  <2>1. HashNumBlocks * (HashBlockSize - 2) = HashNumBlocks * HashBlockSize - 2 * HashNumBlocks
    BY Sizes
  <2>2. HashNumBlocks * HashBlockSize \in Nat /\ BtNumBlocks * BtBlockSize \in Nat
    BY Sizes
  <2> QED BY <2>1, <2>2, Sizes DEF KeepAddBefore
<1> DEFINE B == HashNumBlocks * (HashBlockSize - 2)
<1>5. B \in Int /\ B <= KeepAddBefore /\ mf.pos - BtAt <= B
  BY <1>3, <1>4
<1> HIDE DEF B
<1> QED BY <1>1, <1>3, <1>5, Sizes, Ints

\* The tree thread's data while the hash thread goes on.
LEMMA HashBt ==
  ASSUME SyncInv, SyncInv', WindowInv, WindowInv', HashRing, BtData, BtFilling, HashNext
  PROVE  BtData' /\ BtFilling'
<1>1. /\ pc'["bt"] = pc["bt"] /\ Running("hash")' = Running("hash")
      /\ btBuf' = btBuf /\ btIndex' = btIndex
      /\ bt'.pos = bt.pos /\ bt'.left = bt.left /\ bt'.avail = bt.avail /\ bt'.done = bt.done
      /\ bt'.failed = bt.failed /\ Grows
      /\ ~HashMove => mf'.base = mf.base
  BY HashFrame
<1> SUFFICES ASSUME pc["bt"] \in BtWorking PROVE BtData' /\ BtFilling'
  BY <1>1 DEF BtData, BtFilling, BtWorking, InMatch
<1>2. /\ Running("hash") /\ (pc["bt"] \notin {"filled"} => HashHeld' = HashHeld) /\ BtAt' = BtAt
  BY HashKeeps
<1>3. BtBlock' = BtBlock /\ InMatch' = InMatch
  BY <1>1 DEF BtBlock, BtSlot, InMatch
<1>4. BlockTypes(BtBlock) /\ mf.streamPos \in Int
  BY BtBlockTyped, Ints
<1>5. BtFilling'
  <2>1. InMatch' => /\ ~BtBlock'.failed
                    /\ BtBlock'.num = bt'.done /\ BtBlock'.num < BtBlockSize - 2
                    /\ BtBlock'.first + BtBlock'.num = bt'.pos
                    /\ bt'.pos = BtAt' \/ bt'.done = 0
                    /\ bt'.left > 0 => BtBlock'.first + BtBlock'.avail = bt'.pos + bt'.avail
    BY <1>1, <1>2, <1>3 DEF BtFilling
  <2>2. ASSUME pc["bt"] = "filledUp"
        PROVE  GoodBt(mf', BtBlock) /\ StartOf(mf', BtBlock) + BtBlock.num = BtAt
    BY <1>1, <1>4, <2>2, BtGood DEF BtFilling
  <2>3. pc'["bt"] = "filledUp" => GoodBt(mf', BtBlock') /\ StartOf(mf', BtBlock') + BtBlock'.num = BtAt'
    BY <1>1, <1>2, <1>3, <2>2
  <2> HIDE DEF GoodBt, StartOf, BtBlock, BtAt
  <2> QED BY <2>1, <2>3 DEF BtFilling
<1>6. BtData'
  <2>1. bt'.pos = BtAt' \/ BtEnded'
    BY <1>1, <1>2 DEF BtData, BtEnded, Grows
  <2>2. bt'.pos + bt'.avail <= mf'.streamPos
    BY <1>1, Ints DEF BtData, Grows
  <2>3. mf'.base = 0 \/ mf'.base + HistorySize <= BtAt'
    BY <1>1, <1>2, MoveBt DEF BtData
  <2>4. Running("hash")' /\ pc'["bt"] \notin {"filled", "lock"} => bt'.left <= HashHeld'.num
    BY <1>1, <1>2 DEF BtData
  <2> QED BY <1>1, <1>2, <1>3, <2>1, <2>2, <2>3, <2>4 DEF BtData
<1> QED BY <1>5, <1>6

-----------------------------------------------------------------------------
(* The tree thread through its own steps *)

\* All that its steps leave alone.
LEMMA BtLeaves ==
  ASSUME SyncInv, BtNext
  PROVE  /\ UNCHANGED <<mf, hashBuf, hashIndex, lz, encodes, result>>
         /\ pc'["hash"] = pc["hash"] /\ Index("hash")' = Index("hash")
         /\ sync'["bt"].numProcessed = sync["bt"].numProcessed
         /\ sync'["bt"].created = sync["bt"].created /\ sync'["bt"].needStart = sync["bt"].needStart
<1>t. /\ SyncTypes /\ pc \in [Threads -> LzPcs \cup BtPcs \cup HashPcs]
      /\ DOMAIN sync = Syncs /\ DOMAIN sync["hash"] = SyncFields /\ DOMAIN sync["bt"] = SyncFields
  BY DEF SyncInv, SyncTypes, SyncType
<1>1. /\ UNCHANGED <<mf, hashBuf, hashIndex, lz, encodes, result>> /\ pc'["hash"] = pc["hash"]
  BY <1>t DEF BtNext, BtStart, CanStart, BtLoop, BtGoOn, FreeWait, BtFillBlock, BtMatch, BtFailure, BtGetNextBlock,
    BtTake, BtFilled, Send, BtBreak, BtStopped, SetStopped, GetNextBlock, NextStart, NextFree, SyncNext,
    FilledWait, StopSkip, StopFlag, StopReleaseFree, StopWait, Move, Goto, Consumer, Threads, StopHash,
    dataVars, runVars
<1>2. /\ sync'["bt"].numProcessed = sync["bt"].numProcessed
      /\ sync'["bt"].created = sync["bt"].created /\ sync'["bt"].needStart = sync["bt"].needStart
  <2> USE <1>t DEF Syncs, SyncFields, NewSync, dataVars
  <2>1. CASE BtStart \/ FreeWait("bt") \/ Send("bt") \/ BtStopped
    BY <2>1 DEF BtStart, CanStart, FreeWait, Send, BtStopped, SetStopped
  <2>2. CASE BtLoop \/ BtGoOn \/ BtMatch \/ BtFailure \/ BtBreak
    BY <2>2 DEF BtLoop, BtGoOn, BtMatch, BtFailure, BtBreak
  <2>3. CASE BtFillBlock \/ BtTake \/ BtFilled
    BY <2>3 DEF BtFillBlock, BtTake, BtFilled
  <2>4. CASE BtGetNextBlock
    BY <2>4 DEF BtGetNextBlock, GetNextBlock, NextStart, NextFree
  <2>5. CASE SyncNext("hash")
    BY <2>5 DEF SyncNext, FilledWait, StopSkip, StopFlag, StopReleaseFree, StopWait
  <2> QED BY <2>1, <2>2, <2>3, <2>4, <2>5 DEF BtNext
<1> QED BY <1>1, <1>2 DEF Index

\* The steps between which the data of the tree thread stay the same.
BtQuiet == BtLoop \/ BtGoOn \/ FreeWait("bt") \/ Send("bt") \/ FilledWait("hash") \/ BtFilled

\* The tree thread's steps that only wait, send or release.
LEMMA QuietBt ==
  ASSUME SyncInv, SyncInv', WindowInv, WindowInv', HashRing, BtData, BtFilling, BtQuiet
  PROVE  /\ BtData' /\ BtFilling'
         /\ ~BtFilled => BtSent' = BtSent /\ btIndex' = btIndex
         /\ btBuf' = btBuf /\ BtAt' = BtAt
<1>t. /\ SyncTypes /\ pc \in [Threads -> LzPcs \cup BtPcs \cup HashPcs]
      /\ DOMAIN sync = Syncs /\ DOMAIN sync["hash"] = SyncFields /\ DOMAIN sync["bt"] = SyncFields
  BY DEF SyncInv, SyncTypes, SyncType
<1>n. BtNext
  BY DEF BtQuiet, BtNext, SyncNext
<1>0. /\ mf' = mf /\ hashBuf' = hashBuf /\ pc'["hash"] = pc["hash"] /\ Index("hash")' = Index("hash")
  BY <1>n, BtLeaves
<1>1. /\ bt' = bt /\ btBuf' = btBuf
      /\ \/ pc["bt"] = "filled" /\ pc'["bt"] = "lock"
         \/ pc["bt"] \in {"loop", "free", "check", "send"} /\ pc'["bt"] \in {"free", "check", "fill", "loop", "done"}
         \/ BtFilled /\ pc["bt"] = "filledUp" /\ pc'["bt"] = "send"
      /\ sync'["hash"].numProcessed = sync["hash"].numProcessed
      /\ sync'["hash"].created = sync["hash"].created /\ sync'["hash"].needStart = sync["hash"].needStart
      /\ ~BtFilled => btIndex' = btIndex
  <2> USE <1>t DEF Syncs, SyncFields, NewSync, dataVars, Move, Goto, Consumer, Threads
  <2>1. CASE BtLoop \/ BtGoOn \/ FreeWait("bt") \/ Send("bt")
    BY <2>1 DEF BtLoop, BtGoOn, FreeWait, Send
  <2>2. CASE FilledWait("hash")
    BY <2>2 DEF FilledWait
  <2>3. CASE BtFilled
    BY <2>3 DEF BtFilled
  <2> QED BY <2>1, <2>2, <2>3 DEF BtQuiet
<1>2. Running("hash")' = Running("hash") /\ First("hash")' = First("hash")
  BY <1>1 DEF Running, First
<1>3. HashHeld' = HashHeld /\ HashFront' = HashFront
  BY <1>0, <1>2 DEF HashHeld, HashFront, HashAt
<1>4. BtAt' = BtAt
  BY <1>1, <1>2, <1>3 DEF BtAt
<1>5. BtData'
  BY <1>0, <1>1, <1>2, <1>3, <1>4 DEF BtData, BtEnded, BtWorking, InMatch
<1>6. BtFilling' /\ (~BtFilled => BtSent' = BtSent)
  <2>1. CASE pc["bt"] = "filled" /\ pc'["bt"] = "lock"
    <3>1. BtBlock' = BtBlock /\ ~BtFilled
      BY <1>1, <2>1 DEF BtBlock, BtSlot, BtFilled, Move
    <3> QED BY <1>1, <1>4, <2>1, <3>1 DEF BtFilling, InMatch, BtSent
  <2>2. CASE ~(pc["bt"] = "filled" /\ pc'["bt"] = "lock")
    BY <1>1, <1>4, <2>2 DEF BtFilling, InMatch, BtSent
  <2> QED BY <2>1, <2>2
<1> QED BY <1>1, <1>4, <1>5, <1>6

\* BtThreadFunc is started on data that MatchFinderMt_Init has set.
LEMMA StartBt ==
  ASSUME SyncInv, SyncInv', WindowInv, WindowInv', LzData, BtStart
  PROVE  /\ BtData' /\ BtFilling'
         /\ BtSent' = BtSent /\ btBuf' = btBuf
<1>t. /\ SyncTypes /\ pc \in [Threads -> LzPcs \cup BtPcs \cup HashPcs]
      /\ DOMAIN sync = Syncs /\ DOMAIN sync["hash"] = SyncFields
  BY DEF SyncInv, SyncTypes, SyncType
<1>1. /\ mf' = mf /\ bt' = bt /\ sync'["hash"] = sync["hash"] /\ pc["bt"] = "wait"
      /\ pc'["bt"] \in {"free", "done"} /\ btBuf' = btBuf
      /\ sync["bt"].canStart /\ (~sync["bt"].exit => pc'["bt"] = "free")
      /\ (sync["bt"].exit => pc'["bt"] = "done")
  BY <1>t DEF BtStart, CanStart, Goto, Threads, Syncs
<1>2. ~Running("hash") /\ ~Running("hash")'
  BY <1>1 DEF SyncInv, BtPlaces, BtWorking, Running
<1>3. BtAt = bt.pos /\ BtAt' = bt.pos
  BY <1>1, <1>2 DEF BtAt
<1>4. BtSent' = BtSent /\ BtFilling'
  BY <1>1, <1>3 DEF BtSent, InMatch, BtFilling
<1>5. BtData'
  <2>1. CASE pc'["bt"] = "done"
    BY <2>1 DEF BtData, BtWorking
  <2>2. CASE pc'["bt"] = "free"
    <3>1. Running("bt") /\ pc["lz"] = "filled"
      <4>1. Running("bt")
        <5>1. pc'["lz"] = pc["lz"] /\ Running("bt")' = Running("bt")
          <6>1. BtNext
            BY DEF BtNext
          <6>2. pc'["lz"] = pc["lz"]
            BY <1>t DEF BtStart, CanStart, Goto, Threads
          <6> QED BY <6>1, <6>2, BtLeaves DEF Running
        <5> QED BY <2>2, <5>1, NotStarted DEF SyncInv, Lives, Resting, Running
      <4> QED BY <1>1, <4>1 DEF SyncInv, Lives, Starting, Active, Stopped, Loop, Consumer
    <3>2. bt = StartOfBt /\ mf = StartOfWindow
      BY <1>1, <3>1 DEF LzData
    <3>3. bt.pos = 0 /\ bt.left = 0 /\ bt.avail = 0 /\ bt.done = 0 /\ ~bt.failed
          /\ mf.base = 0 /\ mf.streamPos = 0
      BY <3>2 DEF StartOfBt, StartOfWindow
    <3> QED BY <1>1, <1>2, <1>3, <2>2, <3>2, <3>3 DEF BtData
  <2> QED BY <1>1, <2>1, <2>2
<1> QED BY <1>1, <1>4, <1>5

\* MtSync_GetNextBlock in BtGetMatches.
LEMMA NextBt ==
  ASSUME SyncInv, SyncInv', WindowInv, WindowInv', HashRing, BtData, BtFilling, BtGetNextBlock
  PROVE  /\ BtData' /\ BtFilling'
         /\ BtSent' = BtSent /\ btBuf' = btBuf /\ btIndex' = btIndex
<1>t. /\ SyncTypes /\ pc \in [Threads -> LzPcs \cup BtPcs \cup HashPcs]
      /\ DOMAIN sync = Syncs /\ DOMAIN sync["hash"] = SyncFields
      /\ sync["hash"].created \in BOOLEAN /\ sync["hash"].numProcessed \in Nat
  BY DEF SyncInv, SyncTypes, SyncType
<1>n. BtNext
  BY DEF BtNext
<1>0. /\ mf' = mf /\ hashBuf' = hashBuf /\ pc'["hash"] = pc["hash"] /\ Index("hash")' = Index("hash")
  BY <1>n, BtLeaves
<1>1. /\ pc["bt"] = "match" /\ bt.left = 0 /\ pc'["bt"] = "filled" /\ bt' = bt /\ btBuf' = btBuf
      /\ btIndex' = btIndex
  BY <1>t DEF BtGetNextBlock, GetNextBlock, NextStart, NextFree, Goto, Consumer, Threads, dataVars
<1>i. bt.pos \in Int /\ bt.left \in Int /\ mf.streamPos \in Int /\ mf.pos \in Int
  BY Ints
<1>2. Running("hash")' /\ BtAt' = BtAt
  <2>1. CASE NextStart("hash")
    <3>1. /\ sync'["hash"].numProcessed = 1 /\ ~sync'["hash"].needStart
          /\ sync'["hash"].created = sync["hash"].created /\ sync["hash"].needStart
      BY <1>t, <2>1 DEF NextStart, Started, SyncFields, NewSync, Syncs
    <3>2. ~Running("hash") /\ pc["hash"] = "wait" /\ sync["hash"].created
      BY <1>1, <3>1, NotStarted DEF Running, BtWorking
    <3>3. mf.pos = 0 /\ bt.pos = 0
      BY <1>1, <3>2 DEF BtData, BtWorking, StartOfWindow, StartOfBt
    <3>4. Running("hash")' /\ First("hash")' = 0 /\ Index("hash")' = 0
      BY <1>0, <3>1, <3>2 DEF Running, First, Index
    <3>5. BtAt' = mf'.pos
      BY <1>1, <3>4 DEF BtAt, HashFront
    <3>6. BtAt = bt.pos
      BY <3>2 DEF BtAt
    <3> QED BY <1>0, <3>3, <3>4, <3>5, <3>6
  <2>2. CASE NextFree("hash")
    <3>1. /\ sync'["hash"].numProcessed = sync["hash"].numProcessed + 1
          /\ sync'["hash"].needStart = sync["hash"].needStart
          /\ sync'["hash"].created = sync["hash"].created /\ ~sync["hash"].needStart
      BY <1>t, <2>2 DEF NextFree, SyncFields, NewSync, Syncs
    <3>2. Running("hash")
      BY <1>1, <3>1, NotStarted DEF Running, BtWorking
    <3>3. Running("hash")' /\ First("hash")' = First("hash") + 1
      BY <1>t, <3>1, <3>2 DEF Running, First
    <3>4. First("hash") \in Nat /\ First("hash") < Index("hash") /\ Index("hash") \in Nat
      BY <1>1, <3>2, HashIndices
    <3>5. HashItem(First("hash")) /\ HashHeld.first \in Int /\ Step(HashHeld) \in Int
      BY <1>1, <3>2, <3>4, HashHeldFacts
    <3>6. BtAt = HashNextFirst(First("hash"))
      <4>1. BtAt = HashHeld.first + Step(HashHeld) - bt.left
        BY <1>1, <3>2 DEF BtAt
      <4>2. HashHeld.first + Step(HashHeld) = HashNextFirst(First("hash"))
        BY <3>5 DEF HashItem, HashHeld
      <4> QED BY <1>1, <3>5, <4>1, <4>2
    <3>7. BtAt' = HashNextFirst(First("hash"))
      <4>1. BtAt' = HashFront'
        BY <1>1, <3>3 DEF BtAt
      <4>2. PICK k \in Nat : k = First("hash")
        BY <3>4
      <4>3. First("hash")' = k + 1
        BY <3>3, <4>2
      <4>4. HashFront' = HashNextFirst(k)
        BY <1>0, <3>4, <4>2, <4>3 DEF HashFront, HashNextFirst, HashHeld, HashAt
      <4> QED BY <4>1, <4>2, <4>4
    <3> QED BY <3>3, <3>6, <3>7
  <2> QED BY <2>1, <2>2 DEF BtGetNextBlock, GetNextBlock
<1>3. BtBlock' = BtBlock /\ InMatch /\ InMatch'
  BY <1>1 DEF BtBlock, BtSlot, InMatch
<1>4. BtSent' = BtSent
  BY <1>2, <1>3 DEF BtSent
<1>5. BtFilling'
  BY <1>1, <1>2, <1>3 DEF BtFilling
<1>6. BtData'
  BY <1>0, <1>1, <1>2, <1>3 DEF BtData, BtEnded, BtWorking
<1> QED BY <1>1, <1>4, <1>5, <1>6

\* A step that writes the block that the tree thread fills: the others stay.
OnlyBtSlot == /\ DOMAIN btBuf' = DOMAIN btBuf /\ btIndex' = btIndex
              /\ \A i \in DOMAIN btBuf : i # BtSlot => btBuf'[i] = btBuf[i]

\* BtFillBlock, up to the loop of BtGetMatches.
LEMMA FillBlockBt ==
  ASSUME SyncInv, SyncInv', WindowInv, WindowInv', HashRing, BtData, BtFilling, BtFillBlock
  PROVE  BtData' /\ BtFilling' /\ BtSent' = BtSent /\ OnlyBtSlot
<1>t. /\ SyncTypes /\ pc \in [Threads -> LzPcs \cup BtPcs \cup HashPcs]
      /\ DOMAIN sync = Syncs /\ DOMAIN sync["hash"] = SyncFields
  BY DEF SyncInv, SyncTypes, SyncType
<1>n. BtNext
  BY DEF BtNext
<1>0. /\ mf' = mf /\ hashBuf' = hashBuf /\ pc'["hash"] = pc["hash"] /\ Index("hash")' = Index("hash")
  BY <1>n, BtLeaves
<1>1. /\ pc["bt"] = "fill" /\ pc'["bt"] = (IF bt.failed THEN "filledUp" ELSE "match")
      /\ bt' = [bt EXCEPT !.done = 0] /\ btIndex' = btIndex
      /\ btBuf' = [btBuf EXCEPT ![BtSlot] = [first |-> bt.pos, num |-> 0, avail |-> bt.avail,
                                             failed |-> bt.failed]]
      /\ sync'["hash"].numProcessed = sync["hash"].numProcessed
      /\ sync'["hash"].created = sync["hash"].created /\ sync'["hash"].needStart = sync["hash"].needStart
  BY <1>t DEF BtFillBlock, Move, Goto, Threads, Syncs, SyncFields, NewSync
<1>2. Running("hash")' = Running("hash") /\ First("hash")' = First("hash")
  BY <1>1 DEF Running, First
<1>3. HashHeld' = HashHeld
  BY <1>0, <1>2 DEF HashHeld, HashAt
<1>4. /\ bt'.pos = bt.pos /\ bt'.left = bt.left /\ bt'.avail = bt.avail /\ bt'.failed = bt.failed
      /\ bt'.done = 0
  BY <1>1 DEF WindowInv, WindowTypes, BtFields, StartOfBt
<1>5. BtAt' = BtAt
  BY <1>1, <1>2, <1>3, <1>4 DEF BtAt
<1>6. /\ BtBlock'.first = bt.pos /\ BtBlock'.num = 0 /\ BtBlock'.avail = bt.avail
      /\ BtBlock'.failed = bt.failed
  <2>1. BtBlock' = btBuf'[BtSlot] /\ BtSlot \in DOMAIN btBuf
    BY <1>1, BtBlockTyped DEF BtBlock, BtSlot
  <2> QED BY <1>1, <2>1
<1>b. BtAt \in Int /\ BtAt <= mf.streamPos
  BY <1>1, BtAtFacts DEF BtWorking
<1>i. /\ bt.pos \in Int /\ bt.left \in Int /\ bt.avail \in Int /\ mf.streamPos \in Int
      /\ bt.failed \in BOOLEAN
  BY Ints
<1>d. /\ bt.failed => bt.left > 0
      /\ bt.pos = BtAt \/ BtEnded
      /\ bt.left >= 0 /\ bt.avail >= 0 /\ bt.done >= 0 /\ bt.pos + bt.avail <= mf.streamPos
      /\ bt.left > 0 => bt.left <= bt.avail
  BY <1>1 DEF BtData, BtWorking
<1>7. BtSent' = BtSent
  <2>1. BtSent = BtAt
    BY <1>1 DEF BtSent, InMatch
  <2>2. BtSent' = BtAt'
    BY <1>1, <1>5, <1>6, <1>b DEF BtSent, InMatch
  <2> QED BY <1>5, <2>1, <2>2
<1>8. OnlyBtSlot
  BY <1>1 DEF OnlyBtSlot
<1>9. BtData'
  <2>1. (~Running("hash"))' => mf' = StartOfWindow /\ bt' = StartOfBt
    <3>1. ~Running("hash") => mf = StartOfWindow /\ bt = StartOfBt
      BY <1>1 DEF BtData, BtWorking
    <3>2. bt = StartOfBt => bt' = StartOfBt
      BY <1>1 DEF StartOfBt
    <3> QED BY <1>0, <1>2, <3>1, <3>2
  <2>2. bt'.pos = BtAt' \/ BtEnded'
    BY <1>0, <1>4, <1>5, <1>d DEF BtEnded
  <2>3. (Running("hash") /\ pc["bt"] \notin {"filled", "lock"} => bt.left <= HashHeld.num)'
    BY <1>1, <1>2, <1>3, <1>4 DEF BtData, BtWorking
  <2>4. (mf.base = 0 \/ mf.base + HistorySize <= BtAt)'
    BY <1>0, <1>1, <1>5 DEF BtData, BtWorking
  <2> QED BY <1>0, <1>1, <1>4, <1>d, <1>i, <2>1, <2>2, <2>3, <2>4 DEF BtData, InMatch
<1>10. BtFilling'
  <2>1. CASE bt.failed
    <3>1. bt.pos = BtAt /\ bt.avail > 0
      BY <1>d, <1>i, <2>1 DEF BtEnded
    <3>2. GoodBt(mf', BtBlock') /\ StartOf(mf', BtBlock') + BtBlock'.num = BtAt'
      BY <1>0, <1>5, <1>6, <1>d, <1>i, <2>1, <3>1, Sizes DEF GoodBt, StartOf
    <3>3. pc'["bt"] = "filledUp"
      BY <1>1, <2>1
    <3> HIDE DEF GoodBt, StartOf, BtBlock
    <3> QED BY <3>2, <3>3 DEF BtFilling, InMatch
  <2>2. CASE ~bt.failed
    <3>1. pc'["bt"] = "match"
      BY <1>1, <2>2
    <3> QED BY <1>4, <1>5, <1>6, <1>i, <2>2, <3>1, Sizes DEF BtFilling, InMatch
  <2> QED BY <2>1, <2>2
<1> QED BY <1>7, <1>8, <1>9, <1>10

\* The tree thread describes one position, or finds its tables inconsistent.
LEMMA MatchBt ==
  ASSUME SyncInv, SyncInv', WindowInv, WindowInv', HashRing, BtData, BtFilling, BtMatch \/ BtFailure
  PROVE  BtData' /\ BtFilling' /\ BtSent' = BtSent /\ OnlyBtSlot
<1>t. /\ SyncTypes /\ pc \in [Threads -> LzPcs \cup BtPcs \cup HashPcs]
  BY DEF SyncInv, SyncTypes, SyncType
<1>n. BtNext
  BY DEF BtNext
<1>0. /\ mf' = mf /\ hashBuf' = hashBuf /\ pc'["hash"] = pc["hash"] /\ Index("hash")' = Index("hash")
  BY <1>n, BtLeaves
<1>1. pc["bt"] = "match" /\ bt.left > 0 /\ sync' = sync /\ btIndex' = btIndex
  BY DEF BtMatch, BtFailure
<1>2. Running("hash")' = Running("hash") /\ First("hash")' = First("hash")
  BY <1>1 DEF Running, First
<1>3. HashHeld' = HashHeld
  BY <1>0, <1>2 DEF HashHeld, HashAt
<1>b. /\ BtBlock.first \in Int /\ BtBlock.num \in Int /\ BtBlock.avail \in Int
      /\ BtBlock.failed \in BOOLEAN /\ DOMAIN BtBlock = BlockFields /\ BtSlot \in DOMAIN btBuf
      /\ BtBlock' = btBuf'[BtSlot] /\ BtBlock = btBuf[BtSlot]
  BY <1>1, BtBlockTyped DEF BtBlock, BtSlot
<1>i. /\ bt.pos \in Int /\ bt.left \in Int /\ bt.avail \in Int /\ bt.done \in Int /\ mf.streamPos \in Int
      /\ mf.base \in Int /\ DOMAIN bt = BtFields
  BY Ints DEF WindowInv, WindowTypes
<1>d. /\ ~bt.failed /\ bt.pos = BtAt /\ bt.done >= 0 /\ bt.pos + bt.avail <= mf.streamPos
      /\ bt.left <= bt.avail
      /\ mf.base = 0 \/ mf.base + HistorySize <= BtAt
  BY <1>1, <1>i DEF BtData, BtEnded, BtWorking, InMatch
<1>f. /\ ~BtBlock.failed /\ BtBlock.num = bt.done /\ BtBlock.num < BtBlockSize - 2
      /\ BtBlock.first + BtBlock.num = bt.pos
      /\ BtBlock.first + BtBlock.avail = bt.pos + bt.avail
  BY <1>1 DEF BtFilling, InMatch
<1>r. Running("hash") /\ bt.left <= HashHeld.num
  BY <1>1, <1>i DEF BtData, BtWorking, StartOfBt
<1>h. HashHeld.first \in Int /\ Step(HashHeld) \in Int /\ HashHeld.num \in Int
  BY <1>1, <1>r, HashHeldFacts
<1>a. BtAt = HashHeld.first + Step(HashHeld) - bt.left
  BY <1>1, <1>r DEF BtAt
<1>4. CASE BtMatch
  <2>1. /\ bt'.pos = bt.pos + 1 /\ bt'.left = bt.left - 1 /\ bt'.avail = bt.avail - 1
        /\ bt'.done = bt.done + 1 /\ bt'.failed = bt.failed
    BY <1>4, <1>i DEF BtMatch, BtFields, StartOfBt
  <2>2. /\ BtBlock'.first = BtBlock.first /\ BtBlock'.num = BtBlock.num + 1
        /\ BtBlock'.avail = BtBlock.avail /\ BtBlock'.failed = BtBlock.failed /\ OnlyBtSlot
    BY <1>1, <1>4, <1>b DEF BtMatch, OnlyBtSlot, BlockFields, NoBlock
  <2>3. /\ pc'["bt"] \in {"match", "filledUp"}
        /\ pc'["bt"] = "match" => BtBlock.num + 1 # BtBlockSize - 2
    BY <1>4, <1>t, <1>b DEF BtMatch, Goto, Threads
  <2>4. BtAt' = BtAt + 1
    <3>1. BtAt' = HashHeld'.first + Step(HashHeld') - bt'.left
      BY <1>2, <1>r, <2>3 DEF BtAt
    <3> QED BY <1>3, <1>a, <1>h, <1>i, <2>1, <3>1
  <2>5. BtSent' = BtSent
    <3>1. BtSent = BtAt - BtBlock.num /\ BtSent' = BtAt' - BtBlock'.num
      BY <1>1, <2>3 DEF BtSent, InMatch
    <3> QED BY <1>b, <1>d, <1>i, <2>2, <2>4, <3>1
  <2>6. BtData'
    <3>1. bt'.left <= HashHeld'.num
      BY <1>3, <1>h, <1>i, <1>r, <2>1
    <3>2. bt'.pos = BtAt' /\ (mf'.base = 0 \/ mf'.base + HistorySize <= BtAt')
      BY <1>0, <1>d, <1>i, <2>1, <2>4, Sizes
    <3>3. bt'.left >= 0 /\ bt'.avail >= 0 /\ bt'.done >= 0 /\ bt'.pos + bt'.avail <= mf'.streamPos
          /\ bt'.left <= bt'.avail /\ ~bt'.failed
      BY <1>0, <1>1, <1>d, <1>i, <2>1
    <3> QED BY <1>2, <1>r, <2>3, <3>1, <3>2, <3>3 DEF BtData
  <2>7. BtFilling'
    <3>1. CASE pc'["bt"] = "match"
      BY <1>b, <1>d, <1>f, <1>i, <2>1, <2>2, <2>3, <2>4, <3>1, Sizes DEF BtFilling, InMatch
    <3>2. CASE pc'["bt"] = "filledUp"
      <4>1. /\ BtBlock'.num > 0 /\ BtBlock'.avail >= BtBlock'.num /\ BtBlock'.num <= BtBlockSize - 2
            /\ BtBlock'.first + BtBlock'.avail <= mf'.streamPos
            /\ BtBlock'.first + BtBlock'.num = BtAt'
        BY <1>0, <1>1, <1>b, <1>d, <1>f, <1>i, <2>1, <2>2, <2>4, Sizes
      <4>2. BtBlock'.num \in Int /\ BtBlock'.avail \in Int
        BY <1>b, <2>2
      <4>3. GoodBt(mf', BtBlock') /\ StartOf(mf', BtBlock') + BtBlock'.num = BtAt'
        BY <4>1, <4>2 DEF GoodBt, StartOf
      <4> HIDE DEF GoodBt, StartOf, BtBlock
      <4> QED BY <3>2, <4>3 DEF BtFilling, InMatch
    <3> QED BY <2>3, <3>1, <3>2
  <2> QED BY <2>2, <2>5, <2>6, <2>7
<1>5. CASE BtFailure
  <2>1. /\ bt'.pos = bt.pos /\ bt'.left = bt.left /\ bt'.avail = bt.avail
        /\ bt'.done = bt.done /\ bt'.failed
    BY <1>5, <1>i DEF BtFailure, BtFields, StartOfBt
  <2>2. /\ BtBlock'.first = BtBlock.first /\ BtBlock'.num = BtBlock.num
        /\ BtBlock'.avail = BtBlock.avail /\ BtBlock'.failed /\ OnlyBtSlot
    BY <1>1, <1>5, <1>b DEF BtFailure, OnlyBtSlot, BlockFields, NoBlock
  <2>3. pc'["bt"] = "filledUp"
    BY <1>5, <1>t DEF BtFailure, Goto, Threads
  <2>4. BtAt' = BtAt
    <3>1. BtAt' = HashHeld'.first + Step(HashHeld') - bt'.left
      BY <1>2, <1>r, <2>3 DEF BtAt
    <3> QED BY <1>3, <1>a, <2>1, <3>1
  <2>5. BtSent' = BtSent
    <3>1. BtSent = BtAt - BtBlock.num /\ BtSent' = BtAt' - BtBlock'.num
      BY <1>1, <2>3 DEF BtSent, InMatch
    <3> QED BY <2>2, <2>4, <3>1
  <2>6. BtData'
    <3>1. bt'.left <= HashHeld'.num
      BY <1>3, <1>r, <2>1
    <3>2. bt'.pos = BtAt' /\ (mf'.base = 0 \/ mf'.base + HistorySize <= BtAt')
      BY <1>0, <1>d, <2>1, <2>4
    <3>3. bt'.left >= 0 /\ bt'.avail >= 0 /\ bt'.done >= 0 /\ bt'.pos + bt'.avail <= mf'.streamPos
          /\ bt'.left <= bt'.avail /\ bt'.left > 0
      BY <1>0, <1>1, <1>d, <1>i, <2>1
    <3> QED BY <1>2, <1>r, <2>3, <3>1, <3>2, <3>3 DEF BtData, InMatch
  <2>7. BtFilling'
    <3>1. /\ BtBlock'.num >= 0 /\ BtBlock'.avail > 0 /\ BtBlock'.num <= BtBlock'.avail
          /\ BtBlock'.num <= BtBlockSize - 2 /\ BtBlock'.failed
          /\ BtBlock'.first + BtBlock'.avail <= mf'.streamPos
          /\ BtBlock'.first + BtBlock'.num = BtAt'
      BY <1>0, <1>1, <1>b, <1>d, <1>f, <1>i, <2>1, <2>2, <2>4, Sizes
    <3>2. BtBlock'.num \in Int /\ BtBlock'.avail \in Int
      BY <1>b, <2>2
    <3>3. GoodBt(mf', BtBlock') /\ StartOf(mf', BtBlock') + BtBlock'.num = BtAt'
      BY <3>1, <3>2 DEF GoodBt, StartOf
    <3> HIDE DEF GoodBt, StartOf, BtBlock
    <3> QED BY <2>3, <3>3 DEF BtFilling, InMatch
  <2> QED BY <2>2, <2>5, <2>6, <2>7
<1> QED BY <1>4, <1>5

\* The tree thread takes the block that it waited for.
LEMMA TakeBt ==
  ASSUME SyncInv, SyncInv', WindowInv, WindowInv', HashRing, BtData, BtFilling, BtTake
  PROVE  BtData' /\ BtFilling' /\ BtSent' = BtSent /\ OnlyBtSlot
<1>t. /\ SyncTypes /\ pc \in [Threads -> LzPcs \cup BtPcs \cup HashPcs]
      /\ DOMAIN sync = Syncs /\ DOMAIN sync["hash"] = SyncFields
  BY DEF SyncInv, SyncTypes, SyncType
<1>n. BtNext
  BY DEF BtNext
<1>0. /\ mf' = mf /\ hashBuf' = hashBuf /\ pc'["hash"] = pc["hash"] /\ Index("hash")' = Index("hash")
  BY <1>n, BtLeaves
<1>1. /\ pc["bt"] = "lock" /\ pc'["bt"] \in {"match", "filledUp"} /\ btIndex' = btIndex
      /\ sync'["hash"].numProcessed = sync["hash"].numProcessed
      /\ sync'["hash"].created = sync["hash"].created /\ sync'["hash"].needStart = sync["hash"].needStart
  BY <1>t DEF BtTake, Goto, Threads, Syncs, SyncFields, NewSync
<1>r. Running("hash")
  BY <1>1, NotStarted DEF BtWorking
<1>2. Running("hash")' = Running("hash") /\ First("hash")' = First("hash")
  BY <1>1 DEF Running, First
<1>3. HashHeld' = HashHeld
  BY <1>0, <1>2 DEF HashHeld, HashAt
<1>4. hashBuf[SlotOf("hash")] = HashHeld
  BY DEF SlotOf, HashHeld, HashAt, First, NumBlocks
<1>h. /\ HashHeld.first \in Int /\ HashHeld.num \in Int /\ HashHeld.avail \in Int
      /\ Step(HashHeld) \in Int /\ GoodHash(mf, HashHeld)
      /\ Step(HashHeld) >= 0 /\ Step(HashHeld) >= HashHeld.num
      /\ HashHeld.avail >= NumHashBytes => Step(HashHeld) = HashHeld.num
      /\ HashHeld.avail < NumHashBytes => Step(HashHeld) = HashHeld.avail
      /\ First("hash") # Index("hash")
  <2>1. First("hash") < Index("hash") /\ First("hash") \in Nat /\ Index("hash") \in Nat
    BY <1>1, <1>r, HashIndices
  <2> QED BY <1>1, <1>r, <2>1, HashHeldFacts
<1>g. /\ HashHeld.avail >= 0 /\ HashHeld.num >= 0 /\ HashHeld.first + HashHeld.avail <= mf.streamPos
      /\ HashHeld.avail >= NumHashBytes =>
           HashHeld.num >= 1 /\ HashHeld.num <= HashHeld.avail - NumHashBytes + 1
      /\ HashHeld.avail < NumHashBytes =>
           Frozen(mf) /\ HashHeld.first + HashHeld.avail = mf.streamPos
  BY <1>h DEF GoodHash
<1>a. BtAt = HashHeld.first
  BY <1>1, <1>r, <1>h DEF BtAt, HashFront
<1>b. /\ BtBlock.first \in Int /\ BtBlock.num \in Int /\ BtBlock.avail \in Int
      /\ BtBlock.failed \in BOOLEAN /\ DOMAIN BtBlock = BlockFields /\ BtSlot \in DOMAIN btBuf
      /\ BtBlock' = btBuf'[BtSlot] /\ BtBlock = btBuf[BtSlot]
  BY <1>1, BtBlockTyped DEF BtBlock, BtSlot
<1>i. /\ bt.pos \in Int /\ bt.left \in Int /\ bt.avail \in Int /\ bt.done \in Int /\ mf.streamPos \in Int
      /\ mf.base \in Int /\ DOMAIN bt = BtFields
  BY Ints DEF WindowInv, WindowTypes
<1>d. /\ ~bt.failed /\ bt.left = 0 /\ bt.done >= 0
      /\ bt.pos = BtAt \/ (Frozen(mf) /\ BtAt = mf.streamPos /\ bt.pos <= mf.streamPos)
      /\ mf.base = 0 \/ mf.base + HistorySize <= BtAt
  BY <1>1 DEF BtData, BtEnded, BtWorking, InMatch
<1>f. /\ ~BtBlock.failed /\ BtBlock.num = bt.done /\ BtBlock.num < BtBlockSize - 2
      /\ BtBlock.first + BtBlock.num = bt.pos
      /\ bt.pos = BtAt \/ bt.done = 0
  BY <1>1 DEF BtFilling, InMatch
<1>5. CASE HashHeld.avail >= NumHashBytes
  <2>1. /\ bt' = [bt EXCEPT !.left = HashHeld.num, !.avail = HashHeld.avail] /\ pc'["bt"] = "match"
        /\ btBuf' = [btBuf EXCEPT ![BtSlot].avail = bt.done + HashHeld.avail]
    BY <1>4, <1>5, <1>t DEF BtTake, AvailSum, Goto, Threads
  <2>2. /\ bt'.pos = bt.pos /\ bt'.left = HashHeld.num /\ bt'.avail = HashHeld.avail
        /\ bt'.done = bt.done /\ bt'.failed = bt.failed
    BY <2>1, <1>i DEF BtFields, StartOfBt
  <2>3. /\ BtBlock'.first = BtBlock.first /\ BtBlock'.num = BtBlock.num
        /\ BtBlock'.avail = bt.done + HashHeld.avail /\ BtBlock'.failed = BtBlock.failed /\ OnlyBtSlot
    BY <1>1, <2>1, <1>b DEF OnlyBtSlot, BlockFields, NoBlock
  <2>4. BtAt' = BtAt
    <3>1. BtAt' = HashHeld'.first + Step(HashHeld') - bt'.left
      BY <1>2, <1>r, <2>1 DEF BtAt
    <3> QED BY <1>3, <1>5, <1>a, <1>h, <2>2, <3>1
  <2>p. bt.pos = BtAt
    BY <1>5, <1>a, <1>d, <1>g, <1>h, <1>i, Sizes
  <2>5. BtSent' = BtSent
    <3>1. BtSent = BtAt - BtBlock.num /\ BtSent' = BtAt' - BtBlock'.num
      BY <1>1, <2>1 DEF BtSent, InMatch
    <3> QED BY <2>3, <2>4, <3>1
  <2>6. BtData'
    <3>1. bt'.left <= HashHeld'.num /\ bt'.pos = BtAt'
      BY <1>3, <1>h, <2>2, <2>4, <2>p
    <3>2. mf'.base = 0 \/ mf'.base + HistorySize <= BtAt'
      BY <1>0, <1>d, <2>4
    <3>3. bt'.left >= 0 /\ bt'.avail >= 0 /\ bt'.done >= 0 /\ bt'.pos + bt'.avail <= mf'.streamPos
          /\ bt'.left <= bt'.avail /\ ~bt'.failed
      BY <1>0, <1>5, <1>a, <1>d, <1>g, <1>h, <1>i, <2>2, <2>p, Sizes
    <3> QED BY <1>2, <1>r, <2>1, <3>1, <3>2, <3>3 DEF BtData
  <2>7. BtFilling'
    <3>1. /\ BtBlock'.num = bt'.done /\ BtBlock'.num < BtBlockSize - 2 /\ ~BtBlock'.failed
          /\ BtBlock'.first + BtBlock'.num = bt'.pos /\ bt'.pos = BtAt'
      BY <1>f, <2>2, <2>3, <2>4, <2>p
    <3>2. BtBlock'.first + BtBlock'.avail = bt'.pos + bt'.avail
      BY <1>b, <1>f, <1>h, <1>i, <2>2, <2>3
    <3> QED BY <2>1, <3>1, <3>2 DEF BtFilling
  <2> QED BY <2>3, <2>5, <2>6, <2>7
<1>6. CASE ~(HashHeld.avail >= NumHashBytes)
  <2>0. HashHeld.avail < NumHashBytes
    BY <1>6, <1>h, Sizes
  <2>1. /\ bt' = [bt EXCEPT !.left = 0, !.avail = 0] /\ pc'["bt"] = "filledUp"
        /\ btBuf' = [btBuf EXCEPT ![BtSlot].avail = bt.done + HashHeld.avail, ![BtSlot].num = @ + HashHeld.avail]
    BY <1>4, <1>6, <1>t DEF BtTake, AvailSum, Goto, Threads
  <2>2. /\ bt'.pos = bt.pos /\ bt'.left = 0 /\ bt'.avail = 0
        /\ bt'.done = bt.done /\ bt'.failed = bt.failed
    BY <2>1, <1>i DEF BtFields, StartOfBt
  <2>3. /\ BtBlock'.first = BtBlock.first /\ BtBlock'.num = BtBlock.num + HashHeld.avail
        /\ BtBlock'.avail = bt.done + HashHeld.avail /\ BtBlock'.failed = BtBlock.failed /\ OnlyBtSlot
    BY <1>1, <2>1, <1>b DEF OnlyBtSlot, BlockFields, NoBlock
  <2>4. BtAt' = BtAt + HashHeld.avail
    <3>1. BtAt' = HashHeld'.first + Step(HashHeld') - bt'.left
      BY <1>2, <1>r, <2>1 DEF BtAt
    <3> QED BY <1>3, <1>a, <1>h, <2>0, <2>2, <3>1
  <2>f. Frozen(mf) /\ BtAt + HashHeld.avail = mf.streamPos
    BY <1>a, <1>g, <2>0
  <2>5. BtSent' = BtSent
    <3>1. BtSent = BtAt - BtBlock.num /\ BtSent' = BtAt' - BtBlock'.num
      BY <1>1, <2>1 DEF BtSent, InMatch
    <3> QED BY <1>a, <1>b, <1>h, <2>3, <2>4, <3>1
  <2>6. BtData'
    <3>1. /\ Frozen(mf)' /\ BtAt' = mf'.streamPos
      BY <1>0, <2>4, <2>f DEF Frozen, Ended
    <3>2. bt'.pos <= mf'.streamPos
      BY <1>0, <1>a, <1>d, <1>g, <1>h, <1>i, <2>2, <2>f
    <3>3. BtEnded'
      BY <2>2, <3>1, <3>2 DEF BtEnded
    <3>4. mf'.base = 0 \/ mf'.base + HistorySize <= BtAt'
      BY <1>0, <1>a, <1>d, <1>g, <1>h, <1>i, <2>4, Sizes
    <3>5. bt'.left <= HashHeld'.num /\ ~bt'.failed /\ bt'.pos + bt'.avail <= mf'.streamPos /\ bt'.done >= 0
      BY <1>0, <1>3, <1>d, <1>g, <1>i, <2>2, <3>2
    <3> QED BY <1>2, <1>r, <2>1, <2>2, <3>3, <3>4, <3>5 DEF BtData
  <2>7. BtFilling'
    <3>1. /\ BtBlock'.num = BtBlock'.avail /\ BtBlock'.num >= 0
          /\ BtBlock'.first + BtBlock'.avail = bt.pos + HashHeld.avail
      BY <1>b, <1>d, <1>f, <1>h, <1>g, <1>i, <2>2, <2>3
    <3>2. bt.pos + HashHeld.avail <= mf.streamPos
      BY <1>a, <1>d, <1>g, <1>h, <1>i, <2>f
    <3>3. BtBlock'.avail > 0 => bt.pos = BtAt
      BY <1>a, <1>d, <1>f, <1>g, <1>h, <1>i, <2>3, <2>f
    <3>4. BtBlock'.num \in Int /\ BtBlock'.avail \in Int
      BY <1>b, <1>h, <1>i, <2>3
    <3>5. GoodBt(mf, BtBlock')
      BY <2>f, <3>1, <3>2, <3>4 DEF GoodBt, Frozen
    <3>6. StartOf(mf, BtBlock') + BtBlock'.num = BtAt + HashHeld.avail
      <4>1. CASE BtBlock'.avail = 0
        BY <1>i, <2>f, <3>1, <4>1 DEF StartOf
      <4>2. CASE BtBlock'.avail # 0
        <5>1. BtBlock'.avail > 0
          BY <3>1, <3>4, <4>2
        <5> QED BY <1>b, <2>3, <3>1, <3>3, <4>2, <5>1 DEF StartOf
      <4> QED BY <4>1, <4>2
    <3>7. (GoodBt(mf, BtBlock) /\ StartOf(mf, BtBlock) + BtBlock.num = BtAt)'
      BY <1>0, <2>4, <3>5, <3>6
    <3> HIDE DEF GoodBt, StartOf, BtBlock
    <3> QED BY <2>1, <3>7 DEF BtFilling, InMatch
  <2> QED BY <2>3, <2>5, <2>6, <2>7
<1> QED BY <1>5, <1>6

\* The tree thread as a whole.
LEMMA BtBt ==
  ASSUME SyncInv, SyncInv', WindowInv, WindowInv', HashRing, BtData, BtFilling, LzData, BtNext
  PROVE  /\ BtData' /\ BtFilling'
         /\ pc'["bt"] \in BtWorking /\ ~BtFilled => BtSent' = BtSent /\ (OnlyBtSlot \/ btBuf' = btBuf)
         /\ BtFilled => btBuf' = btBuf /\ BtAt' = BtAt
         /\ btBuf' = btBuf \/ (OnlyBtSlot /\ pc["bt"] \in {"fill", "match", "lock"})
<1>1. CASE BtQuiet
  BY <1>1, QuietBt
<1>2. CASE BtStart
  BY <1>2, StartBt DEF BtStart, BtFilled, Move, CanStart
<1>3. CASE BtGetNextBlock
  BY <1>3, NextBt DEF BtGetNextBlock, BtFilled, Move
<1>4. CASE BtFillBlock
  BY <1>4, FillBlockBt DEF BtFillBlock, BtFilled, Move
<1>5. CASE BtMatch \/ BtFailure
  BY <1>5, MatchBt DEF BtMatch, BtFailure, BtFilled, Move
<1>6. CASE BtTake
  BY <1>6, TakeBt DEF BtTake, BtFilled, Move
<1>7. CASE ~BtQuiet /\ ~BtStart /\ ~BtGetNextBlock /\ ~BtFillBlock /\ ~(BtMatch \/ BtFailure) /\ ~BtTake
  <2>1. pc'["bt"] \notin BtWorking /\ btBuf' = btBuf
    BY <1>7 DEF SyncInv, SyncTypes, BtQuiet, BtNext, SyncNext, BtBreak, BtStopped, SetStopped, StopSkip,
      StopFlag, StopReleaseFree, StopWait, Move, Goto, Threads, Consumer, StopHash, BtWorking, dataVars
  <2>2. ~BtFilled
    BY <1>7 DEF BtQuiet
  <2> QED BY <2>1, <2>2 DEF BtData, BtFilling, BtWorking, InMatch
<1> QED BY <1>1, <1>2, <1>3, <1>4, <1>5, <1>6, <1>7

-----------------------------------------------------------------------------
(* The ring of tree blocks through the steps *)

\* A window that is unchanged has grown by nothing.
LEMMA GrowsSame ==
  ASSUME WindowInv, mf' = mf PROVE Grows
BY Ints DEF Grows, Frozen, Ended

\* The tree blocks stay described when the consumer's index and the window grow.
LEMMA BtRingFrame ==
  ASSUME SyncInv, WindowInv, BtRing, Grows, BtSent' = BtSent, Index("bt")' = Index("bt"),
         First("bt")' \in Nat, First("bt")' >= First("bt"),
         Running("bt"), pc["lz"] \notin {"release", "waitstop"},
         \A j \in First("bt") .. Index("bt") - 1 : BtAtIndex(j)' = BtAtIndex(j)
  PROVE  BtRing'
<1> SUFFICES ASSUME NEW j \in First("bt")' .. Index("bt")' - 1
             PROVE  BtItem(j)'
  BY DEF BtRing
<1>1. First("bt") \in Nat /\ Index("bt") \in Nat
  BY BtIndices
<1>2. j \in First("bt") .. Index("bt") - 1 /\ j \in Nat
  BY <1>1
<1>3. BtItem(j) /\ BtAtIndex(j)' = BtAtIndex(j)
  BY <1>2 DEF BtRing
<1>4. GoodBt(mf', BtAtIndex(j)) /\ StartOf(mf', BtAtIndex(j)) = StartOf(mf, BtAtIndex(j))
  BY <1>2, <1>3, BtTyped, BtGood, Ints DEF BtItem
<1>5. BtNextFirst(j)' = BtNextFirst(j)
  <2>1. CASE j + 1 = Index("bt")
    BY <2>1 DEF BtNextFirst
  <2>2. CASE j + 1 # Index("bt")
    <3>1. j + 1 \in First("bt") .. Index("bt") - 1 /\ j + 1 \in Nat
      BY <1>1, <1>2, <2>2
    <3>2. BtItem(j + 1) /\ BtAtIndex(j + 1)' = BtAtIndex(j + 1)
      BY <3>1 DEF BtRing
    <3>3. StartOf(mf', BtAtIndex(j + 1)) = StartOf(mf, BtAtIndex(j + 1))
      BY <3>1, <3>2, BtTyped, BtGood, Ints DEF BtItem
    <3>4. BtNextFirst(j)' = StartOf(mf', BtAtIndex(j + 1)') /\ BtNextFirst(j) = StartOf(mf, BtAtIndex(j + 1))
      BY <2>2 DEF BtNextFirst
    <3> QED BY <3>2, <3>3, <3>4
  <2> QED BY <2>1, <2>2
<1>6. /\ GoodBt(mf', BtAtIndex(j)') /\ StartOf(mf', BtAtIndex(j)') = StartOf(mf, BtAtIndex(j))
      /\ BtAtIndex(j)'.num = BtAtIndex(j).num
  BY <1>3, <1>4
<1>7. ~Ended(mf)' => ~Ended(mf)
  BY DEF Grows
<1> HIDE DEF GoodBt, StartOf, BtAtIndex, BtNextFirst, BtSent
<1> QED BY <1>3, <1>5, <1>6, <1>7 DEF BtItem

\* The LZ thread frees tree blocks and changes none.
LEMMA LzBtRing ==
  ASSUME SyncInv, SyncInv', WindowInv, BtData, BtFilling, BtRing, LzNext PROVE BtRing'
<1>t. /\ SyncTypes /\ pc \in [Threads -> LzPcs \cup BtPcs \cup HashPcs] /\ pc["lz"] \in LzPcs
      /\ DOMAIN sync = Syncs /\ DOMAIN sync["bt"] = SyncFields
      /\ sync["bt"].created \in BOOLEAN /\ sync["bt"].numProcessed \in Nat
  BY DEF SyncInv, SyncTypes, SyncType
<1>1. CASE LzAdmin
  BY <1>1, AdminFacts DEF BtRing
<1>2. CASE ~LzAdmin
  <2>1. /\ pc'["bt"] = pc["bt"] /\ mf' = mf /\ btBuf' = btBuf /\ btIndex' = btIndex
    BY <1>2, LzFrame
  <2>2. /\ BtSent' = BtSent /\ Index("bt")' = Index("bt")
        /\ \A j \in First("bt") .. Index("bt") - 1 : BtAtIndex(j)' = BtAtIndex(j)
    BY <1>2, <2>1, LzBt DEF Index, BtAtIndex
  <2>3. CASE LzGetNextBlock
    <3>1. pc["lz"] = "run"
      BY <2>3 DEF LzGetNextBlock
    <3>2. CASE NextStart("bt")
      <4>1. First("bt")' = 0 /\ ~Running("bt") /\ sync["bt"].created
        <5>1. sync["bt"].created
          BY <3>1 DEF SyncInv, LzPlaces
        <5> QED BY <3>2, <1>t, <5>1 DEF NextStart, Started, First, Running, SyncFields, NewSync, Syncs
      <4>2. pc["bt"] = "wait"
        BY <3>1, <4>1 DEF SyncInv, Lives, Resting, Exiting
      <4>3. Index("bt")' = 0
        BY <2>1, <4>2 DEF Index
      <4> QED BY <4>1, <4>3 DEF BtRing
    <3>3. CASE NextFree("bt")
      <4>1. First("bt")' = First("bt") + 1 /\ Running("bt") /\ First("bt") \in Nat
        <5>1. sync["bt"].created
          BY <3>1 DEF SyncInv, LzPlaces
        <5>2. First("bt")' = First("bt") + 1 /\ Running("bt")
          BY <3>3, <1>t, <5>1 DEF NextFree, First, Running, SyncFields, NewSync, Syncs
        <5> QED BY <3>1, <5>2, BtIndices
      <4>2. Grows
        BY <2>1, GrowsSame
      <4> QED BY <2>2, <3>1, <4>1, <4>2, BtRingFrame
    <3> QED BY <2>3, <3>2, <3>3 DEF LzGetNextBlock, GetNextBlock
  <2>4. CASE StopWait("bt")
    BY <2>4, <1>t DEF BtRing, StopWait, Running, SyncFields, NewSync, Syncs
  <2>5. CASE ~LzGetNextBlock /\ ~StopWait("bt")
    <3>1. /\ First("bt")' = First("bt") /\ Running("bt")' = Running("bt")
          /\ pc["lz"] \in {"release", "waitstop"} => pc'["lz"] \in {"release", "waitstop"}
      <4> USE <1>t DEF First, Running, Move, Goto, Consumer, Threads, Syncs, SyncFields, NewSync, dataVars
      <4>1. CASE LzTake \/ LzGetMatches
        BY <4>1 DEF LzTake, LzGetMatches, HasBlock
      <4>2. CASE LzFlush \/ LzGivesUp \/ LzStopped \/ Destruct
        BY <4>2 DEF LzFlush, LzGivesUp, LzStopped, Destruct, HasBlock
      <4>3. CASE FilledWait("bt") \/ StopSkip("bt") \/ StopFlag("bt") \/ StopReleaseFree("bt")
        BY <4>3 DEF FilledWait, StopSkip, StopFlag, StopReleaseFree
      <4> QED BY <1>2, <2>5, <4>1, <4>2, <4>3 DEF LzNext, LzAdmin, SyncNext
    <3>2. CASE Running("bt")' /\ pc'["lz"] \notin {"release", "waitstop"}
      <4>1. Running("bt") /\ pc["lz"] \notin {"release", "waitstop"}
        BY <3>1, <3>2
      <4>2. First("bt") \in Nat
        BY <4>1, BtIndices
      <4>3. Grows
        BY <2>1, GrowsSame
      <4> QED BY <2>2, <3>1, <4>1, <4>2, <4>3, BtRingFrame
    <3>3. CASE ~(Running("bt")' /\ pc'["lz"] \notin {"release", "waitstop"})
      BY <3>3 DEF BtRing
    <3> QED BY <3>2, <3>3
  <2> QED BY <2>3, <2>4, <2>5
<1> QED BY <1>1, <1>2

\* Where the tree thread is while the LZ thread reads its blocks.
LEMMA BtRuns ==
  ASSUME SyncInv, Running("bt"), pc["lz"] \notin {"release", "waitstop"}
  PROVE  pc["bt"] \in BtWorking \/ (pc["bt"] = "wait" /\ pc["lz"] = "filled" /\ sync["bt"].canStart)
BY DEF SyncInv, SyncTypes, Lives, Starting, Active, Stopped, Loop, BtPlaces, BtWorking, BtStops, BtPcs, Consumer

\* The tree blocks while the hash thread goes on.
LEMMA HashBtRing ==
  ASSUME SyncInv, SyncInv', WindowInv, WindowInv', HashRing, BtData, BtFilling, BtRing, HashNext
  PROVE  /\ BtRing'
         /\ pc["bt"] \in BtWorking => BtSent' = BtSent
<1>1. /\ pc'["bt"] = pc["bt"] /\ pc'["lz"] = pc["lz"]
      /\ First("bt")' = First("bt") /\ Running("bt")' = Running("bt") /\ Index("bt")' = Index("bt")
      /\ btBuf' = btBuf /\ btIndex' = btIndex /\ Grows
  BY HashFrame
<1>2. pc["bt"] \in BtWorking => BtSent' = BtSent
  <2>1. BtBlock' = BtBlock /\ InMatch' = InMatch
    BY <1>1 DEF BtBlock, BtSlot, InMatch
  <2>2. pc["bt"] \in BtWorking => BtAt' = BtAt
    BY HashKeeps
  <2> QED BY <1>1, <2>1, <2>2 DEF BtSent
<1>3. BtRing'
  <2>1. CASE Running("bt") /\ pc["lz"] \notin {"release", "waitstop"}
    <3>1. pc["bt"] \in BtWorking
      BY <2>1, HashRuns, BtRuns
    <3>2. First("bt") \in Nat
      BY <2>1, BtIndices
    <3>3. \A j \in First("bt") .. Index("bt") - 1 : BtAtIndex(j)' = BtAtIndex(j)
      BY <1>1 DEF BtAtIndex
    <3> QED BY <1>1, <1>2, <2>1, <3>1, <3>2, <3>3, BtRingFrame
  <2>2. CASE ~(Running("bt") /\ pc["lz"] \notin {"release", "waitstop"})
    BY <1>1, <2>2 DEF BtRing
  <2> QED BY <2>1, <2>2
<1> QED BY <1>2, <1>3

\* The tree thread writes into none of the blocks that the LZ thread may read.
LEMMA BtKeeps ==
  ASSUME SyncInv, WindowInv, Running("bt"), pc["lz"] \notin {"release", "waitstop"},
         btBuf' = btBuf \/ (OnlyBtSlot /\ pc["bt"] \in {"fill", "match", "lock"})
  PROVE  \A j \in First("bt") .. Index("bt") - 1 : BtAtIndex(j)' = BtAtIndex(j)
<1>1. CASE btBuf' = btBuf
  BY <1>1 DEF BtAtIndex
<1>2. CASE OnlyBtSlot /\ pc["bt"] \in {"fill", "match", "lock"}
  <2> SUFFICES ASSUME NEW j \in First("bt") .. Index("bt") - 1
               PROVE  BtAtIndex(j)' = BtAtIndex(j)
    OBVIOUS
  <2>1. /\ First("bt") \in Nat /\ Index("bt") = btIndex /\ btIndex \in Nat
        /\ btIndex - First("bt") < BtNumBlocks
    <3>1. pc["bt"] \in Claims \ {"send"}
      BY <1>2 DEF Claims
    <3> QED BY <3>1, BtIndices
  <2>2. j \in Nat /\ j < btIndex /\ btIndex - j < BtNumBlocks
    BY <2>1, Sizes
  <2>3. j % BtNumBlocks # BtSlot
    BY <2>1, <2>2, RingApart, Sizes DEF BtSlot
  <2>4. j % BtNumBlocks \in DOMAIN btBuf
    BY <2>2, BtTyped DEF WindowInv, BtTypes
  <2> QED BY <1>2, <2>3, <2>4 DEF OnlyBtSlot, BtAtIndex
<1> QED BY <1>1, <1>2

\* A finished block joins the ring.
LEMMA FilledBtRing ==
  ASSUME SyncInv, SyncInv', WindowInv, WindowInv', HashRing, BtData, BtFilling, BtRing, LzData, BtFilled
  PROVE  BtRing'
<1> SUFFICES ASSUME Running("bt")', pc'["lz"] \notin {"release", "waitstop"},
                    NEW j \in First("bt")' .. Index("bt")' - 1
             PROVE  BtItem(j)'
  BY DEF BtRing
<1>n. BtNext
  BY DEF BtNext
<1>1. /\ mf' = mf /\ btBuf' = btBuf /\ btIndex' = btIndex + 1 /\ pc["bt"] = "filledUp" /\ pc'["bt"] = "send"
      /\ pc'["lz"] = pc["lz"] /\ BtAt' = BtAt
  BY <1>n, BtBt DEF BtFilled, Move, Goto, Threads, SyncInv, SyncTypes
<1>2. /\ Running("bt") /\ First("bt")' = First("bt")
  BY <1>n, BtLeaves DEF Running, First
<1>3. /\ First("bt") \in Nat /\ Index("bt") = btIndex /\ btIndex \in Nat /\ First("bt") <= btIndex
      /\ Index("bt")' = btIndex + 1
  <2>1. /\ First("bt") \in Nat /\ Index("bt") = btIndex /\ First("bt") <= Index("bt") /\ Index("bt") \in Nat
    BY <1>1, <1>2, BtIndices DEF Claims
  <2> QED BY <1>1, <2>1 DEF Index
<1>4. PICK k \in Nat : k = btIndex
  BY <1>3
<1>b. /\ BtBlock = BtAtIndex(k) /\ BtAtIndex(k).num \in Int /\ StartOf(mf, BtAtIndex(k)) \in Int
      /\ BtAt \in Int
  <2>1. BtBlock = BtAtIndex(k) /\ BtAtIndex(k).num \in Int
    BY <1>4, BtBlockTyped
  <2>2. StartOf(mf, BtAtIndex(k)) \in Int
    BY BtTyped
  <2>3. BtAt \in Int
    BY <1>1, BtAtFacts DEF BtWorking
  <2> QED BY <2>1, <2>2, <2>3
<1>5. /\ GoodBt(mf, BtAtIndex(k)) /\ StartOf(mf, BtAtIndex(k)) + BtAtIndex(k).num = BtAt
  BY <1>1, <1>b DEF BtFilling
<1>6. BtSent = StartOf(mf, BtAtIndex(k)) /\ BtSent' = BtAt
  <2>1. BtSent = BtAt - BtAtIndex(k).num
    BY <1>1, <1>b DEF BtSent
  <2>2. BtSent' = BtAt
    BY <1>1 DEF BtSent, InMatch
  <2> QED BY <1>b, <1>5, <2>1, <2>2
<1>7. \A i \in Nat : BtAtIndex(i)' = BtAtIndex(i)
  BY <1>1 DEF BtAtIndex
<1> DEFINE K == BtBlockSize - 2
<1>8. ~Ended(mf) => BtAtIndex(k).num <= K
  BY <1>5 DEF GoodBt
<1>9. j \in Nat /\ j <= k
  BY <1>2, <1>3, <1>4
<1>10. CASE j = k
  <2>1. BtNextFirst(j)' = BtAt
    BY <1>3, <1>4, <1>6, <1>10 DEF BtNextFirst
  <2>2. (Index("bt")' - j) * K = K
    BY <1>3, <1>4, <1>10, Sizes
  <2>3. BtAtIndex(j)' = BtAtIndex(j) /\ Ended(mf)' = Ended(mf)
    BY <1>1, <1>7, <1>9 DEF Ended
  <2>4. ~Ended(mf)' => BtSent' - StartOf(mf', BtAtIndex(j)') <= (Index("bt")' - j) * K
    <3>1. BtSent' - StartOf(mf, BtAtIndex(k)) = BtAtIndex(k).num
      BY <1>b, <1>5, <1>6
    <3> HIDE DEF StartOf, K, BtSent, BtAtIndex
    <3> QED BY <1>1, <1>8, <1>10, <2>2, <2>3, <3>1
  <2>5. GoodBt(mf', BtAtIndex(j)') /\ StartOf(mf', BtAtIndex(j)') + BtAtIndex(j)'.num = BtNextFirst(j)'
    BY <1>1, <1>5, <1>10, <2>1, <2>3
  <2> HIDE DEF GoodBt, StartOf, BtSent, BtAtIndex, BtNextFirst
  <2> QED BY <2>4, <2>5 DEF BtItem
<1>11. CASE j < k
  <2>1. j \in First("bt") .. Index("bt") - 1
    BY <1>2, <1>3, <1>4, <1>11
  <2>2. BtItem(j)
    BY <1>1, <1>2, <2>1 DEF BtRing
  <2>3. BtAtIndex(j)' = BtAtIndex(j) /\ Ended(mf)' = Ended(mf)
    BY <1>1, <1>7, <1>9 DEF Ended
  <2>4. BtNextFirst(j)' = BtNextFirst(j)
    <3>1. CASE j + 1 = k
      <4>1. BtNextFirst(j) = BtSent
        BY <1>3, <1>4, <3>1 DEF BtNextFirst
      <4>2. j + 1 # Index("bt")'
        BY <1>3, <1>4, <3>1
      <4>3. BtNextFirst(j)' = StartOf(mf', BtAtIndex(k)')
        BY <3>1, <4>2 DEF BtNextFirst
      <4> QED BY <1>1, <1>6, <1>7, <4>1, <4>3
    <3>2. CASE j + 1 # k
      <4>1. j + 1 # Index("bt") /\ j + 1 # Index("bt")' /\ j + 1 \in Nat
        BY <1>3, <1>4, <1>9, <1>11, <3>2
      <4>2. BtNextFirst(j) = StartOf(mf, BtAtIndex(j + 1)) /\ BtNextFirst(j)' = StartOf(mf', BtAtIndex(j + 1)')
        BY <4>1 DEF BtNextFirst
      <4> QED BY <1>1, <1>7, <4>1, <4>2
    <3> QED BY <3>1, <3>2
  <2>5. ~Ended(mf)' => BtSent' - StartOf(mf', BtAtIndex(j)') <= (Index("bt")' - j) * K
    <3>1. (Index("bt")' - j) * K = (Index("bt") - j) * K + K /\ (Index("bt") - j) * K \in Int
      <4>1. K \in Nat /\ k - j \in Int /\ k - j <= k - j
        BY <1>9, Sizes
      <4>2. Index("bt")' - j = (k - j) + 1 /\ Index("bt") - j = k - j
        BY <1>3, <1>4, <1>9
      <4> HIDE DEF K
      <4>3. ((k - j) + 1) * K = (k - j) * K + K /\ (k - j) * K \in Int
        BY <4>1, MoreBlocks
      <4> QED BY <4>2, <4>3
    <3>2. ~Ended(mf) => BtSent - StartOf(mf, BtAtIndex(j)) <= (Index("bt") - j) * K
      BY <2>2 DEF BtItem
    <3>3. StartOf(mf, BtAtIndex(j)) \in Int /\ StartOf(mf', BtAtIndex(j)') = StartOf(mf, BtAtIndex(j))
      BY <1>1, <1>9, <2>3, BtTyped
    <3>4. BtSent' = BtSent + BtAtIndex(k).num
      BY <1>5, <1>6
    <3>5. BtSent \in Int /\ BtAtIndex(k).num \in Int /\ K \in Int
      BY <1>b, <1>6, Sizes
    <3> HIDE DEF StartOf, K, BtSent, BtAtIndex
    <3> QED BY <1>8, <2>3, <3>1, <3>2, <3>3, <3>4, <3>5
  <2>6. GoodBt(mf', BtAtIndex(j)') /\ StartOf(mf', BtAtIndex(j)') + BtAtIndex(j)'.num = BtNextFirst(j)'
    BY <1>1, <2>2, <2>3, <2>4 DEF BtItem
  <2> HIDE DEF GoodBt, StartOf, BtSent, BtAtIndex, BtNextFirst
  <2> QED BY <2>5, <2>6 DEF BtItem
<1> QED BY <1>4, <1>9, <1>10, <1>11

\* The tree thread keeps the ring of tree blocks.
LEMMA BtBtRing ==
  ASSUME SyncInv, SyncInv', WindowInv, WindowInv', HashRing, BtData, BtFilling, BtRing, LzData, BtNext
  PROVE  BtRing'
<1> SUFFICES ASSUME Running("bt")', pc'["lz"] \notin {"release", "waitstop"}, ~BtFilled
             PROVE  BtRing'
  BY FilledBtRing DEF BtRing
<1>1. /\ mf' = mf /\ First("bt")' = First("bt") /\ Running("bt")
  BY BtLeaves DEF First, Running
<1>2. pc'["lz"] = pc["lz"]
  BY DEF SyncInv, SyncTypes, BtNext, BtStart, CanStart, BtLoop, BtGoOn, FreeWait, BtFillBlock, BtMatch, BtFailure,
    BtGetNextBlock, BtTake, BtFilled, Send, BtBreak, BtStopped, SetStopped, GetNextBlock, NextStart,
    NextFree, SyncNext, FilledWait, StopSkip, StopFlag, StopReleaseFree, StopWait, Move, Goto, Consumer,
    Threads, StopHash, dataVars
<1>3. pc["bt"] \in BtWorking \/ (pc["bt"] = "wait" /\ pc["lz"] = "filled" /\ sync["bt"].canStart)
  BY <1>1, <1>2, BtRuns
<1>4. pc'["bt"] \in BtWorking /\ Index("bt")' = Index("bt")
  <2>1. pc'["bt"] \in BtWorking \/ (pc'["bt"] = "wait" /\ sync'["bt"].canStart)
    BY DEF SyncInv, SyncTypes, Lives, Starting, Active, Stopped, Loop, BtPlaces, BtWorking, BtStops, BtPcs,
      Consumer
  <2>2. CASE BtStart
    <3>1. ~sync["bt"].exit
      BY <1>1 DEF SyncInv, Lives
    <3>2. pc["bt"] = "wait" /\ pc'["bt"] = "free" /\ btIndex' = 0
      BY <2>2, <3>1 DEF BtStart, CanStart, Goto, SyncInv, SyncTypes, Threads
    <3> QED BY <3>2 DEF Index, BtWorking
  <2>3. CASE ~BtStart
    <3>1. pc["bt"] # "wait"
      BY <2>3 DEF BtNext, BtLoop, BtGoOn, FreeWait, BtFillBlock, BtMatch, BtFailure,
        BtGetNextBlock, BtTake, BtFilled, Send, BtBreak, BtStopped,
        SyncNext, FilledWait, StopSkip, StopFlag, StopReleaseFree, StopWait, Move, Consumer
    <3>2. pc["bt"] \in BtWorking /\ pc["bt"] # "stopped"
      BY <1>3, <3>1 DEF BtWorking
    <3>3. pc'["bt"] # "wait" /\ btIndex' = btIndex
      BY <2>3, <3>2 DEF SyncInv, SyncTypes, BtNext, BtLoop, BtGoOn, FreeWait, BtFillBlock, BtMatch, BtFailure,
        BtGetNextBlock, BtTake, BtFilled, Send, BtBreak, BtStopped, GetNextBlock, NextStart,
        NextFree, SyncNext, FilledWait, StopSkip, StopFlag, StopReleaseFree, StopWait, Move, Goto, Consumer,
        Threads, StopHash, dataVars
    <3> QED BY <2>1, <3>1, <3>3 DEF Index
  <2> QED BY <2>2, <2>3
<1>5. BtSent' = BtSent /\ (btBuf' = btBuf \/ (OnlyBtSlot /\ pc["bt"] \in {"fill", "match", "lock"}))
  BY <1>4, BtBt
<1>6. \A j \in First("bt") .. Index("bt") - 1 : BtAtIndex(j)' = BtAtIndex(j)
  BY <1>1, <1>2, <1>5, BtKeeps
<1>7. Grows /\ First("bt") \in Nat
  BY <1>1, <1>2, GrowsSame, BtIndices
<1> QED BY <1>1, <1>2, <1>4, <1>5, <1>6, <1>7, BtRingFrame

-----------------------------------------------------------------------------
(* The LZ thread *)

\* The block that the LZ thread holds, or waits for, if it is there.
LEMMA BtHeldFacts ==
  ASSUME SyncInv, WindowInv, BtRing, Running("bt"), pc["lz"] \notin {"release", "waitstop"}
  PROVE  /\ First("bt") \in Nat /\ Index("bt") \in Nat /\ First("bt") <= Index("bt")
         /\ pc["lz"] # "filled" => First("bt") < Index("bt")
         /\ BtHeld.num \in Int /\ BtHeld.avail \in Int /\ BtHeld.failed \in BOOLEAN
         /\ StartOf(mf, BtHeld) \in Int
         /\ First("bt") < Index("bt") => GoodBt(mf, BtHeld) /\ BtItem(First("bt"))
<1>1. /\ First("bt") \in Nat /\ Index("bt") \in Nat /\ First("bt") <= Index("bt")
      /\ pc["lz"] # "filled" => First("bt") < Index("bt")
  BY BtIndices
<1>2. /\ BtHeld.num \in Int /\ BtHeld.avail \in Int /\ BtHeld.failed \in BOOLEAN
      /\ StartOf(mf, BtHeld) \in Int
  BY <1>1, BtTyped DEF BtHeld, BlockTypes
<1>3. ASSUME First("bt") < Index("bt") PROVE GoodBt(mf, BtHeld) /\ BtItem(First("bt"))
  <2>1. First("bt") \in First("bt") .. Index("bt") - 1
    BY <1>1, <1>3
  <2>2. BtItem(First("bt"))
    BY <2>1 DEF BtRing
  <2> QED BY <2>2 DEF BtItem, BtHeld
<1> QED BY <1>1, <1>2, <1>3

\* While there is more to read, all that lies in the two rings is at most what the window
\* keeps for them.
LEMMA MoveLz ==
  ASSUME SyncInv, WindowInv, HashRing, BtData, BtFilling, BtRing, LzData, HashMove,
         pc["lz"] \in {"run", "filled", "lock", "use"}, Running("bt")
  PROVE  mf'.base + HistorySize <= lz.pos
<1>1. mf'.base <= mf.pos - KeepSizeBefore /\ NeedMove /\ mf'.base \in Int /\ pc["hash"] = "move"
  BY MoveFacts, Ints DEF WindowInv, Window, HashMove, Move
<1>2. ~Ended(mf)
  BY <1>1 DEF NeedMove, Ended
<1>3. /\ pc["lz"] \in {"filled", "lock"} /\ pc["bt"] \notin {"match", "filledUp"}
      /\ pc["bt"] \in BtWorking /\ Running("hash")
  <2>1. pc["lz"] \in {"filled", "lock"}
    BY <1>1 DEF SyncInv, Sections, Nobody
  <2>2. Running("hash")
    BY <1>1, NotStarted
  <2>3. pc["bt"] \notin {"match", "filledUp"}
    BY <1>1, <2>2 DEF SyncInv, Sections, Nobody
  <2>4. pc["bt"] \in BtWorking
    <3>1. HashNext
      BY DEF HashNext
    <3> QED BY <2>1, <3>1, HashRuns, BtRuns
  <2> QED BY <2>1, <2>2, <2>3, <2>4
<1>4. BtAt \in Int /\ mf.pos - BtAt <= HashNumBlocks * (HashBlockSize - 2)
  BY <1>2, <1>3, BtAtFacts
<1>5. lz.pos = BtFront
  BY <1>3 DEF LzData
<1>6. /\ First("bt") \in Nat /\ Index("bt") \in Nat /\ First("bt") <= Index("bt")
      /\ Index("bt") - First("bt") <= BtNumBlocks
      /\ pc["bt"] \in Claims \ {"send"} => Index("bt") - First("bt") < BtNumBlocks
  BY <1>3, BtIndices
<1>b. BtBlock.num \in Int
  BY BtBlockTyped
<1> DEFINE K == BtBlockSize - 2
           n == Index("bt") - First("bt")
<1>k. K \in Nat /\ n \in Int /\ n >= 0 /\ BtNumBlocks \in Int
  BY <1>6, Sizes
<1>7. BtSent \in Int /\ lz.pos \in Int /\ BtSent - lz.pos <= n * K
  <2>1. BtSent \in Int
    BY <1>4, <1>b DEF BtSent
  <2>2. CASE First("bt") = Index("bt")
    <3>1. lz.pos = BtSent
      BY <1>5, <2>2 DEF BtFront
    <3>2. n * K = 0
      BY <1>6, <1>k, <2>2
    <3> HIDE DEF BtSent, K, n
    <3> QED BY <2>1, <3>1, <3>2
  <2>3. CASE First("bt") # Index("bt")
    <3>1. lz.pos = StartOf(mf, BtHeld)
      BY <1>5, <2>3 DEF BtFront
    <3>2. BtItem(First("bt")) /\ StartOf(mf, BtHeld) \in Int
      BY <1>3, <1>6, <2>3, BtHeldFacts
    <3>3. BtSent - StartOf(mf, BtHeld) <= n * K
      BY <1>2, <3>2 DEF BtItem, BtHeld
    <3> HIDE DEF BtSent, K, n, StartOf
    <3> QED BY <2>1, <3>1, <3>2, <3>3
  <2> QED BY <2>2, <2>3
<1>8. BtAt - BtSent <= (BtNumBlocks - n) * K /\ (BtNumBlocks - n) * K \in Int
  <2>1. CASE InMatch
    <3>1. BtBlock.num <= K
      BY <1>b, <1>k, <2>1, Sizes DEF BtFilling
    <3>2. BtAt - BtSent = BtBlock.num
      BY <1>4, <1>b, <2>1 DEF BtSent
    <3>3. n < BtNumBlocks
      BY <1>6, <2>1 DEF InMatch, Claims
    <3>4. K = 1 * K /\ 1 * K <= (BtNumBlocks - n) * K /\ (BtNumBlocks - n) * K \in Int
      <4>1. 1 <= BtNumBlocks - n /\ BtNumBlocks - n \in Int
        BY <1>k, <3>3
      <4> HIDE DEF K, n
      <4>2. 1 * K <= (BtNumBlocks - n) * K /\ (BtNumBlocks - n) * K \in Int
        BY <1>k, <4>1, MoreBlocks
      <4> QED BY <1>k, <4>2
    <3> DEFINE P == (BtNumBlocks - n) * K
    <3>5. P \in Int /\ K <= P
      BY <1>k, <3>4
    <3> HIDE DEF P, K, n, BtSent
    <3>6. BtAt - BtSent <= P
      BY <1>4, <1>7, <1>b, <1>k, <3>1, <3>2, <3>5
    <3> QED BY <3>5, <3>6 DEF P
  <2>2. CASE ~InMatch
    <3>1. BtAt - BtSent = 0
      BY <1>3, <1>4, <2>2 DEF BtSent
    <3>2. 0 * K <= (BtNumBlocks - n) * K /\ (BtNumBlocks - n) * K \in Int /\ 0 * K = 0
      <4>1. 0 <= BtNumBlocks - n /\ BtNumBlocks - n \in Int
        BY <1>6, <1>k
      <4> HIDE DEF K, n
      <4>2. 0 * K <= (BtNumBlocks - n) * K /\ (BtNumBlocks - n) * K \in Int
        BY <1>k, <4>1, MoreBlocks
      <4> QED BY <1>k, <4>2
    <3> HIDE DEF BtSent
    <3> QED BY <3>1, <3>2
  <2> QED BY <2>1, <2>2
<1>9. n * K + (BtNumBlocks - n) * K = BtNumBlocks * K /\ n * K \in Int /\ BtNumBlocks * K \in Int
  <2> HIDE DEF K, n
  <2> QED BY <1>k
<1>10. HashNumBlocks * (HashBlockSize - 2) + BtNumBlocks * K <= KeepAddBefore
       /\ HashNumBlocks * (HashBlockSize - 2) \in Int
  <2>1. HashNumBlocks * (HashBlockSize - 2) = HashNumBlocks * HashBlockSize - 2 * HashNumBlocks
    BY Sizes
  <2>2. BtNumBlocks * K = BtNumBlocks * BtBlockSize - 2 * BtNumBlocks
    BY Sizes
  <2>3. HashNumBlocks * HashBlockSize \in Nat /\ BtNumBlocks * BtBlockSize \in Nat
    BY Sizes
  <2> QED BY <2>1, <2>2, <2>3, Sizes DEF KeepAddBefore
<1> DEFINE A == HashNumBlocks * (HashBlockSize - 2)
           B == n * K
           C == (BtNumBlocks - n) * K
           D == BtNumBlocks * K
<1>11. /\ A \in Int /\ B \in Int /\ C \in Int /\ D \in Int
       /\ mf.pos - BtAt <= A /\ BtSent - lz.pos <= B /\ BtAt - BtSent <= C /\ B + C = D /\ A + D <= KeepAddBefore
  BY <1>4, <1>7, <1>8, <1>9, <1>10
<1>12. mf.pos \in Int /\ mf'.base \in Int /\ lz.pos \in Int /\ BtAt \in Int /\ BtSent \in Int
  BY <1>1, <1>4, <1>7, Ints
<1> HIDE DEF A, B, C, D, BtSent, BtAt
<1> QED BY <1>1, <1>11, <1>12, Sizes

\* The LZ thread does not see what the hash thread does.
LEMMA HashLz ==
  ASSUME SyncInv, SyncInv', WindowInv, WindowInv', HashRing, BtData, BtFilling, BtRing, LzData, HashNext
  PROVE  LzData'
<1>1. /\ pc'["bt"] = pc["bt"] /\ pc'["lz"] = pc["lz"] /\ result' = result
      /\ First("bt")' = First("bt") /\ Running("bt")' = Running("bt") /\ Index("bt")' = Index("bt")
      /\ lz'.pos = lz.pos /\ lz'.left = lz.left /\ lz'.avail = lz.avail /\ lz'.failed = lz.failed
      /\ btBuf' = btBuf /\ Grows /\ (~HashMove => mf'.base = mf.base)
  BY HashFrame
<1> SUFFICES ASSUME pc["lz"] \in {"run", "filled", "lock", "use"} PROVE LzData'
  BY <1>1 DEF LzData
<1>2. Running("bt") /\ pc["bt"] \in BtWorking
  BY HashRuns, BtRuns
<1>3. BtHeld' = BtHeld /\ BtSent' = BtSent
  BY <1>1, <1>2, HashBtRing DEF BtHeld, BtAtIndex
<1>4. First("bt") < Index("bt") =>
        StartOf(mf', BtHeld) = StartOf(mf, BtHeld) /\ GoodBt(mf', BtHeld)
  <2>1. BlockTypes(BtHeld)
    BY <1>2, BtIndices, BtTyped DEF BtHeld
  <2>2. First("bt") < Index("bt") => GoodBt(mf, BtHeld)
    BY <1>2, BtHeldFacts
  <2> QED BY <1>1, <2>1, <2>2, BtGood, Ints
<1>5. First("bt") \in Nat /\ Index("bt") \in Nat /\ First("bt") <= Index("bt")
      /\ (pc["lz"] # "filled" => First("bt") < Index("bt"))
  BY <1>2, BtIndices
<1>6. BtFront' = BtFront
  <2>1. CASE First("bt") = Index("bt")
    BY <1>1, <1>3, <2>1 DEF BtFront
  <2>2. CASE First("bt") # Index("bt")
    <3>1. StartOf(mf, BtHeld)' = StartOf(mf, BtHeld)
      BY <1>3, <1>4, <1>5, <2>2
    <3> HIDE DEF StartOf
    <3> QED BY <1>1, <2>2, <3>1 DEF BtFront
  <2> QED BY <2>1, <2>2
<1>7. ~lz'.failed => mf'.base = 0 \/ mf'.base + HistorySize <= lz'.pos
  BY <1>1, <1>2, MoveLz DEF LzData
<1>8. pc["lz"] \in {"run", "use"} /\ ~lz.failed => LzHolds'
  <2> SUFFICES ASSUME pc["lz"] \in {"run", "use"}, ~lz.failed PROVE LzHolds'
    OBVIOUS
  <2>1. LzHolds
    BY <1>2 DEF LzData
  <2>2. StartOf(mf, BtHeld)' = StartOf(mf, BtHeld)
    BY <1>3, <1>4, <1>5
  <2>3. lz'.pos + lz'.avail <= mf'.streamPos
    BY <1>1, <2>1, Ints DEF LzHolds, Grows
  <2>4. pc'["lz"] = "use" /\ lz'.avail = 0 => Frozen(mf') /\ lz'.pos = mf'.streamPos
    BY <1>1, <2>1 DEF LzHolds, Grows
  <2> HIDE DEF StartOf, BtHeld, Frozen
  <2> QED BY <1>1, <1>3, <2>1, <2>2, <2>3, <2>4 DEF LzHolds
<1> HIDE DEF BtFront, LzHolds
<1> QED BY <1>1, <1>2, <1>6, <1>7, <1>8 DEF LzData, BtWorking

\* Nor does it see the tree thread at work.
LEMMA BtLz ==
  ASSUME SyncInv, SyncInv', WindowInv, WindowInv', HashRing, BtData, BtFilling, BtRing, LzData, BtNext
  PROVE  LzData'
<1>1. /\ mf' = mf /\ lz' = lz /\ result' = result /\ First("bt")' = First("bt")
      /\ Running("bt")' = Running("bt")
  BY BtLeaves DEF First, Running
<1>2. pc'["lz"] = pc["lz"]
  BY DEF SyncInv, SyncTypes, BtNext, BtStart, CanStart, BtLoop, BtGoOn, FreeWait, BtFillBlock, BtMatch, BtFailure,
    BtGetNextBlock, BtTake, BtFilled, Send, BtBreak, BtStopped, SetStopped, GetNextBlock, NextStart,
    NextFree, SyncNext, FilledWait, StopSkip, StopFlag, StopReleaseFree, StopWait, Move, Goto, Consumer,
    Threads, StopHash, dataVars
<1> SUFFICES ASSUME pc["lz"] \in {"run", "filled", "lock", "use"} PROVE LzData'
  BY <1>1, <1>2 DEF LzData
<1>3. Running("bt")
  <2>1. CASE ~Running("bt")
    <3>1. pc["bt"] \in {"none", "wait", "done"}
      BY <2>1, NotStarted
    <3>2. BtStart
      BY <3>1 DEF BtNext, BtLoop, BtGoOn, FreeWait, BtFillBlock, BtMatch, BtFailure, BtGetNextBlock, BtTake,
        BtFilled, Send, BtBreak, BtStopped, SyncNext, FilledWait, StopSkip, StopFlag, StopReleaseFree,
        StopWait, Move, Consumer
    <3>3. sync["bt"].canStart
      BY <3>2 DEF BtStart, CanStart
    <3> QED BY <2>1, <3>3 DEF SyncInv, Lives, Resting, Exiting
  <2> QED BY <2>1
<1>4. First("bt") \in Nat /\ Index("bt") \in Nat /\ First("bt") <= Index("bt")
      /\ (pc["lz"] # "filled" => First("bt") < Index("bt"))
  BY <1>3, BtIndices
<1>5. /\ pc'["bt"] \in BtWorking
      /\ BtFilled \/ Index("bt")' = Index("bt")
  <2>1. pc["bt"] \in BtWorking \/ (pc["bt"] = "wait" /\ pc["lz"] = "filled" /\ sync["bt"].canStart)
    BY <1>3, BtRuns
  <2>2. CASE BtStart
    <3>1. ~sync["bt"].exit
      BY <1>3 DEF SyncInv, Lives
    <3>2. pc["bt"] = "wait" /\ pc'["bt"] = "free" /\ btIndex' = 0
      BY <2>2, <3>1 DEF BtStart, CanStart, Goto, SyncInv, SyncTypes, Threads
    <3> QED BY <3>2 DEF Index, BtWorking
  <2>3. CASE ~BtStart
    <3>1. pc["bt"] # "wait"
      BY <2>3 DEF BtNext, BtLoop, BtGoOn, FreeWait, BtFillBlock, BtMatch, BtFailure,
        BtGetNextBlock, BtTake, BtFilled, Send, BtBreak, BtStopped,
        SyncNext, FilledWait, StopSkip, StopFlag, StopReleaseFree, StopWait, Move, Consumer
    <3>2. pc["bt"] \in BtWorking
      BY <2>1, <3>1
    <3>3. ~sync["bt"].exit /\ ~sync["bt"].stopWriting
      BY <1>3 DEF SyncInv, Lives, Consumer
    <3>4. pc'["bt"] \in BtWorking /\ (BtFilled \/ btIndex' = btIndex)
      BY <2>3, <3>2, <3>3 DEF SyncInv, SyncTypes, BtNext, BtLoop, BtGoOn, FreeWait, BtFillBlock, BtMatch, BtFailure,
        BtGetNextBlock, BtTake, BtFilled, Send, BtBreak, BtStopped, GetNextBlock, NextStart,
        NextFree, SyncNext, FilledWait, StopSkip, StopFlag, StopReleaseFree, StopWait, Move, Goto, Consumer,
        Threads, StopHash, dataVars, BtWorking
    <3> QED BY <3>2, <3>4 DEF Index, BtWorking
  <2> QED BY <2>2, <2>3
<1>6. \A j \in First("bt") .. Index("bt") - 1 : BtAtIndex(j)' = BtAtIndex(j)
  BY <1>3, BtBt, BtKeeps
<1>7. First("bt") < Index("bt") => BtHeld' = BtHeld
  <2>1. ASSUME First("bt") < Index("bt") PROVE BtHeld' = BtHeld
    <3>1. PICK k \in Nat : k = First("bt")
      BY <1>4
    <3>2. BtAtIndex(k)' = BtAtIndex(k)
      BY <1>4, <1>6, <2>1, <3>1
    <3> QED BY <1>1, <3>1, <3>2 DEF BtHeld, BtAtIndex
  <2> QED BY <2>1
<1>8. BtFront' = BtFront
  <2>1. CASE BtFilled
    <3>1. /\ btBuf' = btBuf /\ btIndex' = btIndex + 1 /\ pc["bt"] = "filledUp" /\ pc'["bt"] = "send"
      BY <2>1, BtBt DEF BtFilled, Move, Goto, Threads, SyncInv, SyncTypes
    <3>2. Index("bt") = btIndex /\ Index("bt")' = btIndex + 1
      BY <3>1 DEF Index
    <3>3. BtFront' = StartOf(mf, BtHeld')
      BY <1>1, <1>4, <3>2 DEF BtFront
    <3>4. CASE First("bt") = Index("bt")
      <4>1. BtHeld' = BtBlock
        BY <1>1, <3>1, <3>2, <3>4 DEF BtHeld, BtAtIndex, BtBlock, BtSlot
      <4>2. BtSent = StartOf(mf, BtBlock)
        <5>1. StartOf(mf, BtBlock) + BtBlock.num = BtAt /\ BtSent = BtAt - BtBlock.num
          BY <3>1 DEF BtFilling, BtSent
        <5>2. StartOf(mf, BtBlock) \in Int /\ BtBlock.num \in Int
          BY BtBlockTyped
        <5> HIDE DEF StartOf, BtBlock, BtSent
        <5> QED BY <5>1, <5>2
      <4> QED BY <3>3, <3>4, <4>1, <4>2 DEF BtFront
    <3>5. CASE First("bt") < Index("bt")
      BY <1>7, <3>3, <3>5, <1>4 DEF BtFront
    <3> QED BY <1>4, <3>4, <3>5
  <2>2. CASE ~BtFilled
    <3>1. BtSent' = BtSent
      BY <1>5, <2>2, BtBt
    <3>2. CASE First("bt") = Index("bt")
      BY <1>1, <1>5, <2>2, <3>1, <3>2 DEF BtFront
    <3>3. CASE First("bt") < Index("bt")
      BY <1>1, <1>4, <1>5, <1>7, <2>2, <3>3 DEF BtFront
    <3> QED BY <1>4, <3>2, <3>3
  <2> QED BY <2>1, <2>2
<1>9. pc["lz"] \in {"run", "use"} /\ ~lz.failed => LzHolds'
  <2> SUFFICES ASSUME pc["lz"] \in {"run", "use"}, ~lz.failed PROVE LzHolds'
    OBVIOUS
  <2>1. LzHolds /\ BtHeld' = BtHeld
    BY <1>3, <1>4, <1>7 DEF LzData
  <2> HIDE DEF BtHeld
  <2> QED BY <1>1, <1>2, <2>1 DEF LzHolds, StartOf, Frozen, Ended
<1> HIDE DEF BtFront, LzHolds
<1> QED BY <1>1, <1>2, <1>3, <1>5, <1>8, <1>9 DEF LzData, BtWorking

\* MatchFinderMt_InitMt and MatchFinderMt_Init.
LEMMA AdminLz ==
  ASSUME SyncInv, SyncInv', WindowInv, WindowInv', LzData, LzAdmin
  PROVE  LzData'
<1>1. /\ pc["lz"] \in {"idle", "init", "exitBt", "joinBt", "exitHash", "joinHash"}
      /\ ~Running("bt") /\ ~Running("bt")'
  BY AdminFacts
<1>2. CASE InitMt
  <2>1. /\ pc["lz"] = "init" /\ pc'["lz"] \in {"run", "stop"}
        /\ pc'["lz"] = "run" => mf' = StartOfWindow /\ bt' = StartOfBt /\ lz' = StartOfLz /\ result' = result
        /\ pc'["lz"] = "stop" => result' = "error"
    BY <1>2 DEF InitMt, Goto, SyncInv, SyncTypes, Threads
  <2>2. result' # "ok"
    BY <2>1 DEF LzData
  <2>3. CASE pc'["lz"] = "run"
    BY <1>1, <2>1, <2>2, <2>3 DEF LzData, StartOfWindow, StartOfLz
  <2>4. CASE pc'["lz"] = "stop"
    BY <2>2, <2>4 DEF LzData
  <2> QED BY <2>1, <2>3, <2>4
<1>3. CASE ~InitMt
  <2>1. /\ lz' = lz /\ pc'["lz"] \notin {"run", "filled", "lock", "use"}
        /\ \/ result' \in {"none", "error"}
           \/ result' = result /\ pc["lz"] \in {"exitBt", "joinBt", "exitHash", "joinHash"}
    BY <1>3 DEF LzAdmin, Create, ExitThread, JoinThread, Move, Goto, SyncInv, SyncTypes, Threads, Syncs,
      dataVars, runVars
  <2>2. result' # "ok"
    BY <2>1 DEF LzData
  <2> QED BY <2>1, <2>2 DEF LzData
<1> QED BY <1>2, <1>3

\* MatchFinderMt_GetNumAvailableBytes asks for the next block.
LEMMA NextLz ==
  ASSUME SyncInv, SyncInv', WindowInv, WindowInv', BtData, BtFilling, BtRing, LzData, LzGetNextBlock
  PROVE  LzData'
<1>t. /\ SyncTypes /\ pc \in [Threads -> LzPcs \cup BtPcs \cup HashPcs]
      /\ DOMAIN sync = Syncs /\ DOMAIN sync["bt"] = SyncFields
      /\ sync["bt"].created \in BOOLEAN /\ sync["bt"].numProcessed \in Nat
  BY DEF SyncInv, SyncTypes, SyncType
<1>n. LzNext /\ ~LzAdmin
  BY DEF LzNext, LzGetNextBlock, LzAdmin, Create, InitMt, ExitThread, JoinThread, Move
<1>1. /\ pc["lz"] = "run" /\ pc'["lz"] = "filled" /\ lz.left = 0 /\ ~lz.failed
      /\ lz' = lz /\ result' = result /\ mf' = mf /\ bt' = bt /\ btBuf' = btBuf /\ pc'["bt"] = pc["bt"]
      /\ btIndex' = btIndex
  BY <1>t DEF LzGetNextBlock, GetNextBlock, NextStart, NextFree, Goto, Consumer, Threads, dataVars, runVars
<1>2. BtSent' = BtSent /\ Index("bt")' = Index("bt")
  BY <1>1, <1>n, LzBt DEF Index
<1>3. sync["bt"].created
  BY <1>1 DEF SyncInv, LzPlaces
<1>4. Running("bt")' /\ lz.pos = BtFront' /\ (pc["bt"] = "wait" => bt = StartOfBt /\ mf = StartOfWindow)
  <2>1. CASE NextStart("bt")
    <3>1. First("bt")' = 0 /\ ~Running("bt") /\ Running("bt")'
      BY <2>1, <1>t, <1>3 DEF NextStart, Started, First, Running, SyncFields, NewSync, Syncs
    <3>2. pc["bt"] = "wait"
      BY <1>1, <1>3, <3>1 DEF SyncInv, Lives, Resting, Exiting
    <3>3. Index("bt")' = 0
      BY <1>2, <3>2 DEF Index
    <3>4. lz = StartOfLz /\ bt = StartOfBt /\ mf = StartOfWindow /\ lz.pos = 0 /\ bt.pos = 0
      BY <1>1, <3>1 DEF LzData, StartOfLz, StartOfBt
    <3>5. BtSent = bt.pos
      <4>1. ~Running("hash")
        BY <3>1, NotStarted
      <4> QED BY <3>2, <4>1 DEF BtSent, InMatch, BtAt
    <3>6. BtFront' = BtSent
      BY <1>2, <3>1, <3>3 DEF BtFront
    <3> QED BY <3>1, <3>4, <3>5, <3>6
  <2>2. CASE NextFree("bt")
    <3>1. First("bt")' = First("bt") + 1 /\ Running("bt") /\ Running("bt")'
      BY <2>2, <1>t, <1>3 DEF NextFree, First, Running, SyncFields, NewSync, Syncs
    <3>2. /\ First("bt") \in Nat /\ Index("bt") \in Nat /\ First("bt") < Index("bt")
          /\ BtHeld.num \in Int /\ StartOf(mf, BtHeld) \in Int /\ BtItem(First("bt"))
      BY <1>1, <3>1, BtHeldFacts
    <3>3. lz.pos = StartOf(mf, BtHeld) + BtHeld.num
      <4>1. StartOf(mf, BtHeld) + BtHeld.num - lz.left = lz.pos
        BY <1>1, <3>1 DEF LzData, LzHolds
      <4> HIDE DEF StartOf, BtHeld
      <4> QED BY <1>1, <3>2, <4>1
    <3>4. PICK k \in Nat : k = First("bt")
      BY <3>2
    <3>5. lz.pos = BtNextFirst(k)
      BY <3>2, <3>3, <3>4 DEF BtItem, BtHeld
    <3>6. BtFront' = BtNextFirst(k)
      <4>1. First("bt")' = k + 1
        BY <3>1, <3>4
      <4>2. BtHeld' = BtAtIndex(k + 1)
        BY <1>1, <4>1 DEF BtHeld, BtAtIndex
      <4> QED BY <1>1, <1>2, <4>1, <4>2 DEF BtFront, BtNextFirst
    <3>7. pc["bt"] # "wait"
      BY <1>1, <3>1, BtRuns DEF BtWorking
    <3> QED BY <3>1, <3>5, <3>6, <3>7
  <2> QED BY <2>1, <2>2 DEF LzGetNextBlock, GetNextBlock
<1>5. /\ lz.avail >= 0 /\ (mf.base = 0 \/ mf.base + HistorySize <= lz.pos) /\ result # "ok"
  BY <1>1 DEF LzData
<1> HIDE DEF BtFront, LzHolds
<1> QED BY <1>1, <1>4, <1>5, Ints DEF LzData

\* MatchFinderMt_GetNextBlock_Bt takes it.
LEMMA TakeLz ==
  ASSUME SyncInv, SyncInv', WindowInv, WindowInv', BtRing, LzData, LzTake
  PROVE  LzData'
<1>t. /\ SyncTypes /\ pc \in [Threads -> LzPcs \cup BtPcs \cup HashPcs]
      /\ DOMAIN sync = Syncs /\ DOMAIN sync["bt"] = SyncFields
  BY DEF SyncInv, SyncTypes, SyncType
<1>1. /\ pc["lz"] = "lock" /\ pc'["lz"] = "use"
      /\ result' = result /\ mf' = mf /\ bt' = bt /\ btBuf' = btBuf /\ pc'["bt"] = pc["bt"]
      /\ sync'["bt"].numProcessed = sync["bt"].numProcessed
      /\ sync'["bt"].created = sync["bt"].created /\ sync'["bt"].needStart = sync["bt"].needStart
  BY <1>t DEF LzTake, Move, Goto, Threads, runVars, Syncs, SyncFields, NewSync
<1>2. Running("bt") /\ Running("bt")' /\ First("bt")' = First("bt")
  <2>1. Running("bt")
    BY <1>1 DEF SyncInv, LzPlaces
  <2> QED BY <1>1, <2>1 DEF Running, First
<1>3. btBuf[SlotOf("bt")] = BtHeld /\ BtHeld' = BtHeld
  BY <1>1, <1>2 DEF SlotOf, BtHeld, BtAtIndex, First, NumBlocks
<1>4. /\ First("bt") # Index("bt") /\ GoodBt(mf, BtHeld)
      /\ BtHeld.num \in Int /\ BtHeld.avail \in Int /\ BtHeld.failed \in BOOLEAN
      /\ StartOf(mf, BtHeld) \in Int
  BY <1>1, <1>2, BtHeldFacts
<1>5. /\ lz'.pos = lz.pos /\ lz'.avail = BtHeld.avail /\ lz'.failed = BtHeld.failed
      /\ lz'.left = IF BtHeld.failed THEN 0 ELSE BtHeld.num
  <2>1. lz' = [lz EXCEPT !.left = IF BtHeld.failed THEN 0 ELSE BtHeld.num, !.avail = BtHeld.avail,
                         !.failed = BtHeld.failed]
    BY <1>3 DEF LzTake
  <2> HIDE DEF BtHeld
  <2> QED BY <2>1 DEF WindowInv, WindowTypes, LzFields, StartOfLz
<1>6. lz.pos = StartOf(mf, BtHeld) /\ (mf.base = 0 \/ mf.base + HistorySize <= lz.pos)
      /\ (pc["bt"] = "wait" => bt = StartOfBt /\ mf = StartOfWindow) /\ result # "ok"
  BY <1>1, <1>2, <1>4 DEF LzData, BtFront
<1>7. /\ BtHeld.num >= 0 /\ BtHeld.avail >= 0 /\ BtHeld.num <= BtHeld.avail
      /\ ~BtHeld.failed /\ BtHeld.avail > 0 => BtHeld.num > 0
      /\ BtHeld.avail = 0 => Frozen(mf) /\ StartOf(mf, BtHeld) = mf.streamPos
      /\ StartOf(mf, BtHeld) + BtHeld.avail <= mf.streamPos
  BY <1>4, Ints DEF GoodBt, StartOf
<1>8. ~BtHeld.failed => LzHolds'
  <2> SUFFICES ASSUME ~BtHeld.failed PROVE LzHolds'
    OBVIOUS
  <2>1. lz'.left = BtHeld.num
    BY <1>5
  <2>2. StartOf(mf, BtHeld)' = StartOf(mf, BtHeld) /\ Frozen(mf)' = Frozen(mf) /\ mf'.streamPos = mf.streamPos
    BY <1>1, <1>3 DEF StartOf, Frozen, Ended
  <2> HIDE DEF BtHeld, StartOf, Frozen
  <2> QED BY <1>1, <1>3, <1>4, <1>5, <1>6, <1>7, <2>1, <2>2 DEF LzHolds
<1>9. lz'.left >= 0 /\ lz'.avail >= 0 /\ (lz'.left <= lz'.avail \/ lz'.failed)
  <2> HIDE DEF BtHeld
  <2> QED BY <1>4, <1>5, <1>7
<1> HIDE DEF LzHolds, BtHeld, StartOf
<1> QED BY <1>1, <1>2, <1>5, <1>6, <1>8, <1>9 DEF LzData

\* MatchFinderMt_GetMatches or MatchFinderMt_Skip.
LEMMA GetMatchesLz ==
  ASSUME SyncInv, SyncInv', WindowInv, WindowInv', BtRing, LzData, LzGetMatches
  PROVE  LzData'
<1>1. /\ pc["lz"] \in {"use", "run"} /\ pc'["lz"] = "run" /\ lz.avail > 0
      /\ pc["lz"] = "use" \/ lz.left > 0 \/ lz.failed
      /\ result' = result /\ mf' = mf /\ bt' = bt /\ btBuf' = btBuf /\ pc'["bt"] = pc["bt"] /\ sync' = sync
  BY DEF LzGetMatches, HasBlock, Goto, Threads, runVars, SyncInv, SyncTypes
<1>2. Running("bt")' = Running("bt") /\ First("bt")' = First("bt") /\ BtHeld' = BtHeld
  BY <1>1 DEF Running, First, BtHeld, BtAtIndex
<1>i. lz.pos \in Int /\ lz.left \in Int /\ lz.avail \in Int /\ lz.failed \in BOOLEAN /\ mf.base \in Int
      /\ mf.streamPos \in Int
  BY Ints
<1>5. /\ lz'.pos = lz.pos + 1 /\ lz'.avail = lz.avail - 1 /\ lz'.failed = lz.failed
      /\ lz'.left = IF lz.failed THEN 0 ELSE lz.left - 1
  <2>1. lz' = [lz EXCEPT !.pos = @ + 1, !.ptr = @ + 1, !.avail = @ - 1,
                      !.left = IF lz.failed THEN 0 ELSE @ - 1]
    BY DEF LzGetMatches
  <2> QED BY <2>1 DEF WindowInv, WindowTypes, LzFields, StartOfLz
<1>3. Running("bt")
  <2>1. ASSUME ~Running("bt") PROVE FALSE
    <3>1. pc["lz"] = "run" /\ lz = StartOfLz
      BY <1>1, <2>1 DEF SyncInv, LzPlaces, LzData
    <3> QED BY <1>1, <3>1 DEF StartOfLz
  <2> QED BY <2>1
<1>6. /\ ~lz.failed => LzHolds /\ lz.left > 0 /\ (mf.base = 0 \/ mf.base + HistorySize <= lz.pos)
      /\ lz.left >= 0 /\ (lz.left <= lz.avail \/ lz.failed) /\ result # "ok"
      /\ pc["bt"] = "wait" => bt = StartOfBt /\ mf = StartOfWindow
  BY <1>1, <1>3 DEF LzData, LzHolds
<1>7. ~lz'.failed => LzHolds'
  <2> SUFFICES ASSUME ~lz.failed PROVE LzHolds'
    BY <1>5
  <2>1. LzHolds
    BY <1>6
  <2>2. StartOf(mf, BtHeld)' = StartOf(mf, BtHeld) /\ mf'.streamPos = mf.streamPos
    BY <1>1, <1>2 DEF StartOf
  <2>3. BtHeld.num \in Int /\ StartOf(mf, BtHeld) \in Int
    BY <1>1, <1>3, BtHeldFacts
  <2> HIDE DEF BtHeld, StartOf, Frozen
  <2> QED BY <1>1, <1>2, <1>5, <1>i, <2>1, <2>2, <2>3 DEF LzHolds
<1>8. /\ lz'.left >= 0 /\ lz'.avail >= 0 /\ (lz'.left <= lz'.avail \/ lz'.failed)
      /\ ~lz'.failed => mf'.base = 0 \/ mf'.base + HistorySize <= lz'.pos
  BY <1>1, <1>5, <1>6, <1>i, Sizes
<1> HIDE DEF LzHolds
<1> QED BY <1>1, <1>2, <1>3, <1>6, <1>7, <1>8 DEF LzData

\* The other steps of the LZ thread: the results it gives.
LEMMA OtherLz ==
  ASSUME SyncInv, SyncInv', WindowInv, WindowInv', LzData, BtRing, BtData, BtFilling,
         LzNext, ~LzAdmin, ~LzGetNextBlock, ~LzTake, ~LzGetMatches
  PROVE  LzData'
<1>t. /\ SyncTypes /\ pc \in [Threads -> LzPcs \cup BtPcs \cup HashPcs]
      /\ DOMAIN sync = Syncs /\ DOMAIN sync["bt"] = SyncFields
  BY DEF SyncInv, SyncTypes, SyncType
<1>0. pc'["bt"] = pc["bt"] /\ mf' = mf /\ bt' = bt /\ btBuf' = btBuf /\ btIndex' = btIndex
  BY LzFrame
<1>1. CASE LzFlush
  <2>1. /\ HasBlock /\ lz.avail = 0 /\ pc'["lz"] = "stop" /\ lz' = lz
        /\ result' = IF mf.ok /\ ~lz.failed THEN "ok" ELSE "error"
    BY <1>1, <1>t DEF LzFlush, NoErrors, Goto, Threads, dataVars
  <2>2. ASSUME result' = "ok" PROVE lz.pos = StreamSize
    <3>1. mf.ok /\ ~lz.failed
      BY <2>1, <2>2
    <3>2. pc["lz"] = "use"
      <4>1. pc["lz"] = "use" \/ (pc["lz"] = "run" /\ lz.left > 0)
        BY <2>1, <3>1 DEF HasBlock
      <4> QED BY <2>1, <3>1, <4>1, Ints DEF LzData
    <3>3. Running("bt")
      BY <3>2 DEF SyncInv, LzPlaces
    <3>4. LzHolds
      BY <3>1, <3>2, <3>3 DEF LzData
    <3>5. Frozen(mf) /\ lz.pos = mf.streamPos
      BY <2>1, <3>2, <3>4 DEF LzHolds
    <3> QED BY <3>1, <3>5 DEF Frozen, Ended, WindowInv, Window
  <2> QED BY <2>1, <2>2 DEF LzData
<1>2. CASE LzGivesUp \/ Destruct
  <2>1. result' \in {"error", "closing"} /\ pc'["lz"] = "stop"
    BY <1>2, <1>t DEF LzGivesUp, Destruct, Move, Goto, Threads
  <2> QED BY <2>1 DEF LzData
<1>3. CASE FilledWait("bt")
  <2>1. /\ pc["lz"] = "filled" /\ pc'["lz"] = "lock" /\ lz' = lz /\ result' = result
        /\ sync'["bt"].numProcessed = sync["bt"].numProcessed
        /\ sync'["bt"].created = sync["bt"].created /\ sync'["bt"].needStart = sync["bt"].needStart
    BY <1>3, <1>t DEF FilledWait, Move, Goto, Threads, Syncs, SyncFields, NewSync, Consumer, dataVars, runVars
  <2>2. Running("bt")' = Running("bt") /\ First("bt")' = First("bt") /\ BtHeld' = BtHeld
        /\ Index("bt")' = Index("bt") /\ BtSent' = BtSent
    BY <1>0, <2>1, LzBt DEF Running, First, BtHeld, BtAtIndex, Index
  <2>3. BtFront' = BtFront
    BY <1>0, <2>2 DEF BtFront, StartOf
  <2> HIDE DEF BtFront, LzHolds
  <2> QED BY <1>0, <2>1, <2>2, <2>3 DEF LzData
<1>4. CASE LzStopped \/ StopSkip("bt") \/ StopFlag("bt") \/ StopReleaseFree("bt") \/ StopWait("bt")
  <2>1. /\ lz' = lz /\ result' = result
        /\ pc["lz"] \in {"stop", "release", "waitstop", "stopped"}
        /\ pc'["lz"] \in {"release", "waitstop", "stopped", "exitBt", "idle"}
        /\ pc'["lz"] = "exitBt" => result = "closing"
    BY <1>4, <1>t DEF LzStopped, StopSkip, StopFlag, StopReleaseFree, StopWait, Move, Goto, Consumer,
      Threads, dataVars, runVars
  <2> QED BY <2>1 DEF LzData
<1> QED BY <1>1, <1>2, <1>3, <1>4 DEF LzNext, LzAdmin, SyncNext

-----------------------------------------------------------------------------
(* The invariant, and what it gives *)

\* The data of the three threads before anything has run.
LEMMA DataInit == Init => Data
BY DEF Init, Data, HashRing, BtData, BtFilling, BtRing, LzData, Running, Syncs, NewSync, Threads,
  BtWorking, InMatch

\* A step of the LZ thread keeps the data.
LEMMA LzKeepsData ==
  ASSUME SyncInv, SyncInv', WindowInv, WindowInv', Data, LzNext PROVE Data'
<1> USE DEF Data
<1>1. HashRing' /\ BtData' /\ BtFilling' /\ BtRing'
  BY LzHashRing, LzBt, LzBtRing
<1>2. LzData'
  <2>1. CASE LzAdmin
    BY <2>1, AdminLz
  <2>2. CASE LzGetNextBlock
    BY <2>2, NextLz
  <2>3. CASE LzTake
    BY <2>3, TakeLz
  <2>4. CASE LzGetMatches
    BY <2>4, GetMatchesLz
  <2>5. CASE ~LzAdmin /\ ~LzGetNextBlock /\ ~LzTake /\ ~LzGetMatches
    BY <2>5, OtherLz
  <2> QED BY <2>1, <2>2, <2>3, <2>4, <2>5
<1> QED BY <1>1, <1>2

\* A step in which nothing changes keeps the data.
LEMMA DataStutter == Data /\ UNCHANGED vars => Data'
<1> SUFFICES ASSUME Data, UNCHANGED vars PROVE Data'
  OBVIOUS
<1>1. UNCHANGED <<pc, sync, mf, hashBuf, hashIndex, btBuf, btIndex, bt, lz, result>>
  BY DEF vars
<1>2. /\ Running("hash")' = Running("hash") /\ Running("bt")' = Running("bt")
      /\ First("hash")' = First("hash") /\ First("bt")' = First("bt")
      /\ Index("hash")' = Index("hash") /\ Index("bt")' = Index("bt")
  BY <1>1 DEF Running, First, Index
<1>3. /\ HashHeld' = HashHeld /\ BtBlock' = BtBlock /\ BtHeld' = BtHeld
      /\ \A i : HashAt(i)' = HashAt(i)
      /\ \A j : BtAtIndex(j)' = BtAtIndex(j)
  BY <1>1, <1>2 DEF HashHeld, HashAt, BtBlock, BtSlot, BtHeld, BtAtIndex
<1>4. BtAt' = BtAt
  BY <1>1, <1>2, <1>3 DEF BtAt, HashFront
<1>5. BtSent' = BtSent
  BY <1>1, <1>3, <1>4 DEF BtSent, InMatch
<1>6. HashRing'
  BY <1>1, <1>2, <1>3 DEF Data, HashRing, HashItem, GoodHash, HashNextFirst, Ended, Frozen, Step
<1>7. BtData'
  BY <1>1, <1>2, <1>3, <1>4 DEF Data, BtData, BtEnded, InMatch, Frozen, Ended
<1>8. BtFilling'
  BY <1>1, <1>3, <1>4 DEF Data, BtFilling, InMatch, GoodBt, StartOf, Frozen, Ended
<1>9. BtRing'
  BY <1>1, <1>2, <1>3, <1>5 DEF Data, BtRing, BtItem, BtNextFirst, GoodBt, StartOf, Frozen, Ended
<1>10. BtFront' = BtFront /\ LzHolds' = LzHolds
  BY <1>1, <1>2, <1>3, <1>5 DEF BtFront, LzHolds, StartOf, Frozen, Ended
<1>11. LzData'
  <2> HIDE DEF BtFront, LzHolds
  <2> QED BY <1>1, <1>2, <1>10 DEF Data, LzData
<1> QED BY <1>6, <1>7, <1>8, <1>9, <1>11 DEF Data

\* The invariant holds at the start.
LEMMA IInvInit == Init => IInv
BY InitSync, WindowInit, DataInit DEF IInv

\* Every step keeps it.
LEMMA IInvStep == IInv /\ [Next]_vars => IInv'
<1> SUFFICES ASSUME IInv, [Next]_vars PROVE IInv'
  OBVIOUS
<1>1. SyncInv /\ WindowInv /\ Data /\ SyncInv' /\ WindowInv'
  BY SyncStep, WindowStep DEF IInv
<1>2. CASE LzNext
  BY <1>1, <1>2, LzKeepsData DEF IInv
<1>3. CASE BtNext
  BY <1>1, <1>3, BtHashRing, BtBt, BtBtRing, BtLz DEF IInv, Data
<1>4. CASE HashNext
  BY <1>1, <1>4, HashHashRing, HashBt, HashBtRing, HashLz DEF IInv, Data
<1>5. CASE UNCHANGED vars
  BY <1>1, <1>5, DataStutter DEF IInv
<1> QED BY <1>2, <1>3, <1>4, <1>5 DEF Next, Destroyed

\* The tree thread sees the bytes of its position.
LEMMA BtSees == IInv => BtSeesItsBytes
<1> SUFFICES ASSUME IInv, pc["bt"] = "match", bt.left > 0
             PROVE  /\ bt.ptr + mf.base = bt.pos
                    /\ HashHeld.first + HashHeld.num - bt.left = bt.pos
                    /\ mf.base <= 0 \/ mf.base <= bt.pos - HistorySize
                    /\ bt.pos + bt.avail <= mf.streamPos
  BY DEF BtSeesItsBytes, SlotOf, HashHeld, HashAt, First, NumBlocks
<1>1. SyncInv /\ WindowInv /\ HashRing /\ BtData
  BY DEF IInv, Data
<1>2. Running("hash") /\ Running("bt")
  <2>1. ~Running("hash") => bt = StartOfBt
    BY <1>1 DEF BtData, BtWorking
  <2> QED BY <1>1, <2>1, NotStarted DEF StartOfBt, BtWorking
<1>3. /\ bt.left <= HashHeld.num /\ bt.pos = HashHeld.first + Step(HashHeld) - bt.left
      /\ bt.pos + bt.avail <= mf.streamPos
      /\ mf.base = 0 \/ mf.base + HistorySize <= bt.pos
  BY <1>1, <1>2, Ints DEF BtData, BtWorking, BtAt, BtEnded
<1>4. /\ HashHeld.num \in Int /\ HashHeld.first \in Int
      /\ HashHeld.avail >= NumHashBytes => Step(HashHeld) = HashHeld.num
      /\ GoodHash(mf, HashHeld) /\ HashHeld.avail \in Int
  BY <1>1, <1>2, HashHeldFacts, HashIndices
<1>5. Step(HashHeld) = HashHeld.num
  BY <1>1, <1>3, <1>4, Ints, Sizes DEF GoodHash
<1>6. offset = 0
  BY <1>1, <1>2 DEF SyncInv, Sections, WindowInv, Window
<1>7. bt.ptr + mf.base = bt.pos
  BY <1>1, <1>6 DEF WindowInv, Window, WindowTypes
<1> HIDE DEF HashHeld
<1> QED BY <1>1, <1>3, <1>4, <1>5, <1>7, Ints, Sizes

\* So does the LZ thread.
LEMMA LzSees == IInv => LzSeesItsBytes
<1> SUFFICES ASSUME IInv, pc["lz"] \in {"use", "run"}, HasBlock, ~lz.failed
             PROVE  /\ lz.ptr + mf.base = lz.pos
                    /\ lz.left > 0 => BtHeld.first + BtHeld.num - lz.left = lz.pos
                    /\ mf.base <= 0 \/ mf.base <= lz.pos - HistorySize
                    /\ lz.pos + lz.avail <= mf.streamPos
                    /\ lz.avail > 0 => lz.left > 0
  BY DEF LzSeesItsBytes, SlotOf, BtHeld, BtAtIndex, First, NumBlocks
<1>1. SyncInv /\ WindowInv /\ BtRing /\ LzData
  BY DEF IInv, Data
<1>2. pc["lz"] = "use" \/ lz.left > 0
  BY DEF HasBlock
<1>3. Running("bt")
  <2>1. pc["lz"] = "use" => Running("bt")
    BY <1>1 DEF SyncInv, LzPlaces
  <2>2. ~Running("bt") => lz = StartOfLz
    BY <1>1 DEF LzData
  <2> QED BY <1>2, <2>1, <2>2 DEF StartOfLz
<1>4. LzHolds /\ (mf.base = 0 \/ mf.base + HistorySize <= lz.pos)
  BY <1>1, <1>3 DEF LzData
<1>5. /\ BtHeld.num \in Int /\ BtHeld.avail \in Int /\ GoodBt(mf, BtHeld)
  BY <1>1, <1>3, BtHeldFacts
<1>6. lz.left > 0 => BtHeld.first + BtHeld.num - lz.left = lz.pos
  <2> SUFFICES ASSUME lz.left > 0 PROVE BtHeld.first + BtHeld.num - lz.left = lz.pos
    OBVIOUS
  <2>1. lz.left <= BtHeld.num /\ StartOf(mf, BtHeld) + BtHeld.num - lz.left = lz.pos
    BY <1>4 DEF LzHolds
  <2>2. BtHeld.avail # 0
    BY <1>1, <1>5, <2>1, Ints DEF GoodBt
  <2> QED BY <2>1, <2>2 DEF StartOf
<1>7. offset = 0
  BY <1>1, <1>3 DEF SyncInv, Sections, WindowInv, Window
<1>8. lz.ptr + mf.base = lz.pos
  BY <1>1, <1>7 DEF WindowInv, Window, WindowTypes
<1>9. lz.pos + lz.avail <= mf.streamPos /\ (lz.avail > 0 => lz.left > 0)
  BY <1>2, <1>4 DEF LzHolds
<1> HIDE DEF BtHeld
<1> QED BY <1>1, <1>4, <1>6, <1>8, <1>9, Ints, Sizes

\* The threads run in step, the rings and the window hold what their readers are told
\* (SyncInv, WindowInv and Data of C/LzFindMt.c's three threads), in every state.
THEOREM Invariant == Spec => []IInv
<1> QED BY IInvInit, IInvStep, PTL DEF Spec

\* The tree thread, in GetMatchesSpecN_2, refers to the bytes of its position, and to no
\* byte that MatchFinder_MoveBlock has dropped from the window.
THEOREM TreeSeesItsBytes == Spec => []BtSeesItsBytes
<1> QED BY Invariant, BtSees, PTL

\* The LZ thread, in MatchFinderMt_GetMatches, uses the item of its own position, with a
\* pointer that points at it, while HashThreadFunc moves the window.
THEOREM EncoderSeesItsBytes == Spec => []LzSeesItsBytes
<1> QED BY Invariant, LzSees, PTL

\* An encoding that returns SZ_OK has seen the whole input: neither a read error nor a
\* failure of the tree thread is taken for its end.
THEOREM OkIsWhole == Spec => []OkMeansWhole
<1>1. IInv => OkMeansWhole
  BY DEF IInv, Data, LzData, OkMeansWhole
<1> QED BY <1>1, Invariant, PTL
=============================================================================
