--------------------------- MODULE MtCoderProofs ---------------------------
(* What TLAPS proves about MtCoder, for every number of threads and blocks. *)
EXTENDS MtCoder, TLAPS, FiniteSetTheorems

(* The ring has at least two slots, and never more than there are buffers. *)
LEMMA RingSize ==
  /\ NumBlocksMax \in Nat /\ NumBlocksMax >= 2
  /\ BlocksMax \in Nat /\ NumBlocksMax <= BlocksMax
  /\ NumThreads \in Nat /\ NumThreads >= 1
<1>1. /\ NumThreads \in Nat /\ NumThreads >= 1
      /\ ThreadsMax \in Nat /\ NumThreads <= ThreadsMax
      /\ SizeClass \in Nat
  BY ConstantsAssumption
<1>2. \A n \in Nat : NumBlocksFromThreads(n) \in Nat /\ NumBlocksFromThreads(n) >= n + 1
  BY DEF NumBlocksFromThreads
<1>3. BlocksMax \in Nat /\ BlocksMax >= 5
  BY <1>1, <1>2 DEF BlocksMax
<1>4. NumBlocksFromThreads(NumThreads) + SizeClass \in Nat
      /\ NumBlocksFromThreads(NumThreads) + SizeClass >= 2
  BY <1>1, <1>2
<1>. QED
  BY <1>1, <1>3, <1>4 DEF NumBlocksMax

(* The ring is walked cyclically. *)
LEMMA NextSlotType == \A i \in Slots : NextSlot(i) \in Slots
  BY RingSize DEF NextSlot, Slots

LEMMA TypeInit == Init => TypeOK
<1>. SUFFICES ASSUME Init PROVE TypeOK
  OBVIOUS
<1>1. 0 \in Slots /\ 0 \in 0 .. Len(Inputs) /\ 0 \in 0 .. NumThreads
  BY RingSize, ConstantsAssumption DEF Slots
<1>2. /\ NewLocal \in LocalType
      /\ NoBlock \in BlockType
  BY <1>1 DEF NewLocal, NoBlock, LocalType, BlockType, Results
<1>. QED
  BY <1>1, <1>2 DEF Init, TypeOK, Pcs, RestPcs, Results

(* The assignments to a thread's local variables. *)
LEMMA LocalUpdate ==
  ASSUME NEW l \in LocalType
  PROVE  /\ \A r \in Results : [l EXCEPT !.res = r] \in LocalType
         /\ \A r \in Results, f \in BOOLEAN :
              [l EXCEPT !.res = r, !.finished = f] \in LocalType
         /\ \A r \in Results, f \in BOOLEAN, b \in Buffers \cup {None} :
              [l EXCEPT !.res = r, !.finished = f, !.bufIndex = b] \in LocalType
         /\ \A r \in Results, f \in BOOLEAN, b \in Buffers \cup {None} :
              [l EXCEPT !.res = r, !.bufIndex = b, !.finished = f] \in LocalType
         /\ \A n \in Nat, f \in BOOLEAN :
              [l EXCEPT !.block = n, !.finished = f] \in LocalType
         /\ \A i \in Slots, r \in Results, f \in BOOLEAN :
              [l EXCEPT !.bi = i, !.res = r, !.finished = f] \in LocalType
         /\ \A b \in Buffers : [l EXCEPT !.bufIndex = b] \in LocalType
         /\ \A i \in Slots, r \in Results :
              [l EXCEPT !.wi = i, !.res = r] \in LocalType
         /\ \A i \in Slots, f \in BOOLEAN :
              [l EXCEPT !.wi = i, !.isReady = f] \in LocalType
         /\ \A n \in Nat : [l EXCEPT !.numFinished = n] \in LocalType

<1>1. \A r \in Results : [l EXCEPT !.res = r] \in LocalType
  BY DEF LocalType
<1>2. \A r \in Results, f \in BOOLEAN :
       [l EXCEPT !.res = r, !.finished = f] \in LocalType
  BY DEF LocalType
<1>3. \A r \in Results, f \in BOOLEAN, b \in Buffers \cup {None} :
       [l EXCEPT !.res = r, !.finished = f, !.bufIndex = b] \in LocalType
  BY DEF LocalType
<1>4. \A r \in Results, f \in BOOLEAN, b \in Buffers \cup {None} :
       [l EXCEPT !.res = r, !.bufIndex = b, !.finished = f] \in LocalType
  BY DEF LocalType
<1>5. \A n \in Nat, f \in BOOLEAN :
       [l EXCEPT !.block = n, !.finished = f] \in LocalType
  BY DEF LocalType
<1>6. \A i \in Slots, r \in Results, f \in BOOLEAN :
       [l EXCEPT !.bi = i, !.res = r, !.finished = f] \in LocalType
  BY DEF LocalType
<1>7. \A b \in Buffers : [l EXCEPT !.bufIndex = b] \in LocalType
  BY DEF LocalType
<1>8. \A i \in Slots, r \in Results :
       [l EXCEPT !.wi = i, !.res = r] \in LocalType
  BY DEF LocalType
<1>9. \A i \in Slots, f \in BOOLEAN :
       [l EXCEPT !.wi = i, !.isReady = f] \in LocalType
  BY DEF LocalType
<1>10. \A n \in Nat : [l EXCEPT !.numFinished = n] \in LocalType

  BY DEF LocalType
<1>. QED
  BY ONLY <1>1, <1>2, <1>3, <1>4, <1>5, <1>6, <1>7, <1>8, <1>9, <1>10, Zenon

LEMMA LocalFields ==
  ASSUME NEW l \in LocalType
  PROVE  /\ l.res \in Results /\ l.block \in Nat /\ l.bi \in Slots
         /\ l.wi \in Slots /\ l.bufIndex \in Buffers \cup {None}
         /\ l.finished \in BOOLEAN /\ l.isReady \in BOOLEAN
         /\ l.numFinished \in Nat
  BY DEF LocalType

LEMMA BlockFields ==
  ASSUME NEW b \in BlockType
  PROVE  /\ b.res \in Results /\ b.bufIndex \in Buffers \cup {None}
         /\ b.finished \in BOOLEAN
  BY DEF BlockType

LEMMA PcsContain ==
  {"none", "idle", "dead", "exit", "compare", "read", "pass", "check", "fill",
   "acquire", "claim", "spawn", "count", "unlock", "take", "code", "record",
   "publish", "write", "advance", "release", "load"} = Pcs
  BY DEF Pcs, ReaderPcs, CoderPcs, WriterPcs, RestPcs

(* Every step keeps the types: an index that leaves its range would be an      *)
(* access outside an array of CMtCoder.                                        *)
LEMMA TypeStep == TypeOK /\ [Next]_vars => TypeOK'
<1>. SUFFICES ASSUME TypeOK, [Next]_vars PROVE TypeOK'
  OBVIOUS
<1>. USE PcsContain DEF TypeOK, callVars, eventVars, resVars, readerVars,
             ringVars, bufVars, Goto, AutoReset,
             InitialPermits, FinalResult, AllOut, MyTurn, GiveBack,
             NextWriteIndex, FirstSlot, Released
<1>1. CASE MainInit
  <2>1. freeBlocks' \in Seq(Buffers)
    BY <1>1, RingSize DEF MainInit, Buffers
  <2>2. semaphore' \in Nat /\ blockIndex' \in Slots /\ writeIndex' \in Slots
    BY <1>1, RingSize DEF MainInit, Slots
  <2>3. call' \in 0 .. Len(Inputs)
    BY <1>1, ConstantsAssumption DEF MainInit
  <2>4. readyBlocks' \in [Slots -> BOOLEAN]
    BY <1>1 DEF MainInit
  <2>5. "OK" \in Results
    BY <1>1 DEF MainInit, Results
  <2>. QED
    <3>1. mpc' = "create" /\ numStarted' = 1 /\ numFinished' = 0 /\ nextBlock' = 0
      BY <1>1 DEF MainInit
    <3>2. readRes' = "OK" /\ writeRes' = "OK" /\ progressRes' = "OK" /\ written' = <<>>
      BY <1>1 DEF MainInit
    <3>3. readEvent' = FALSE /\ finishedEvent' = FALSE /\ stopReading' = FALSE
      BY <1>1 DEF MainInit
    <3>4. UNCHANGED <<result, freeIdx, destroyed, pc, local, startEvent, stop,
                      blocks, outBuf>>
      BY <1>1 DEF MainInit
    <3>5. written' \in Seq(Nat) 
      BY <3>2
    <3>6. numStarted' \in Nat /\ numFinished' \in Nat /\ nextBlock' \in Nat
      BY <3>1
    <3>7. /\ readRes' \in Results /\ writeRes' \in Results /\ progressRes' \in Results
          /\ readEvent' \in BOOLEAN /\ finishedEvent' \in BOOLEAN /\ stopReading' \in BOOLEAN
      BY <2>5, <3>2, <3>3
    <3>8. /\ result' \in Results /\ freeIdx' \in 0 .. NumThreads /\ destroyed' \in BOOLEAN /\ pc' \in [Threads -> Pcs]
          /\ local' \in [Threads -> LocalType]
          /\ startEvent' \in [Threads -> BOOLEAN] /\ stop' \in [Threads -> BOOLEAN]
          /\ outBuf' \in [Buffers -> Nat]
      BY <3>4
    <3>9. blocks' \in [Slots -> BlockType]
      BY <3>4
    <3>. QED
      BY <2>1, <2>2, <2>3, <2>4, <3>1, <3>5, <3>6, <3>7, <3>8, <3>9
<1>2. CASE MainCreate
  <2>1. startEvent' \in [Threads -> BOOLEAN] /\ stop' \in [Threads -> BOOLEAN]
    BY <1>2 DEF MainCreate, CreateAndStart
  <2>2. pc' \in [Threads -> Pcs]
    BY <1>2 DEF MainCreate
  <2>3. result' \in Results /\ mpc' \in {"kick", "ready"}
    BY <1>2 DEF MainCreate, Results
  <2>. QED
    BY <1>2, <2>1, <2>2, <2>3 DEF MainCreate
<1>3. CASE MainKick
  BY <1>3, RingSize DEF MainKick
<1>4. CASE MainWake
  BY <1>4, RingSize DEF MainWake
<1>5. CASE MainCollect
  BY <1>5, RingSize DEF MainCollect
<1>6. CASE MainDestruct
  BY <1>6, RingSize DEF MainDestruct
<1>7. CASE MainFree
  <2>1. startEvent' \in [Threads -> BOOLEAN] /\ stop' \in [Threads -> BOOLEAN]
    BY <1>7 DEF MainFree
  <2>2. freeIdx' \in 0 .. NumThreads /\ (mpc' = "join" => freeIdx' < NumThreads)
    BY <1>7, RingSize DEF MainFree
  <2>3. mpc' \in {"free", "join"}
    BY <1>7 DEF MainFree
  <2>. QED
    BY <1>7, <2>1, <2>2, <2>3 DEF MainFree
<1>8. CASE MainJoin
  <2>1. pc' \in [Threads -> Pcs]
    BY <1>8 DEF MainJoin
  <2>2. freeIdx' \in 0 .. NumThreads
    BY <1>8, RingSize DEF MainJoin
  <2>. QED
    BY <1>8, <2>1, <2>2 DEF MainJoin
<1>9. CASE MainFreed
  BY <1>9, RingSize DEF MainFreed
<1>10. ASSUME NEW t \in Threads, WaitStart(t) PROVE TypeOK'
  BY <1>10 DEF WaitStart
<1>11. ASSUME NEW t \in Threads, CountExit(t) PROVE TypeOK'
  <2>1. [local[t] EXCEPT !.numFinished = numFinished + 1] \in LocalType
    <3>1. local[t] \in LocalType /\ numFinished + 1 \in Nat
      OBVIOUS
    <3>. QED
      BY ONLY <3>1, LocalUpdate
  <2>2. local' \in [Threads -> LocalType]
    BY <1>11, <2>1 DEF CountExit
  <2>3. pc' \in [Threads -> Pcs]
    BY <1>11 DEF CountExit
  <2>4. numFinished' \in Nat
    BY <1>11 DEF CountExit
  <2>. QED
    BY <1>11, <2>1, <2>2, <2>3, <2>4 DEF CountExit
<1>12. ASSUME NEW t \in Threads, CompareExit(t) PROVE TypeOK'
  BY <1>12 DEF CompareExit
<1>13. ASSUME NEW t \in Threads, WaitRead(t) PROVE TypeOK'
  BY <1>13 DEF WaitRead
<1>14. ASSUME NEW t \in Threads, PassOn(t) PROVE TypeOK'
  BY <1>14 DEF PassOn
<1>15. ASSUME NEW t \in Threads, CheckError(t) PROVE TypeOK'
  <2>1. [local[t] EXCEPT !.res = progressRes, !.finished = TRUE, !.bufIndex = None] \in LocalType
    BY LocalUpdate DEF Results
  <2>2. local' \in [Threads -> LocalType]
    BY <1>15, <2>1 DEF CheckError
  <2>3. pc' \in [Threads -> Pcs]
    BY <1>15 DEF CheckError
  <2>. QED
    BY <1>15, <2>1, <2>2, <2>3 DEF CheckError
<1>16. ASSUME NEW t \in Threads, ReadBlock(t) PROVE TypeOK'
  <2>1. [local[t] EXCEPT !.block = nextBlock, !.finished = (nextBlock = LastBlock)] \in LocalType
    BY LocalUpdate DEF Results
  <2>2. [local[t] EXCEPT !.res = "READ"] \in LocalType
    BY LocalUpdate DEF Results
  <2>3. local' \in [Threads -> LocalType]
    BY <1>16, <2>1, <2>2 DEF ReadBlock
  <2>4. readRes' \in Results /\ progressRes' \in Results
    BY <1>16 DEF ReadBlock, SetError, Results
  <2>5. nextBlock' \in Nat
    BY <1>16 DEF ReadBlock
  <2>6. pc' \in [Threads -> Pcs]
    BY <1>16 DEF ReadBlock
  <2>. QED
    BY <1>16, <2>1, <2>2, <2>3, <2>4, <2>5, <2>6 DEF ReadBlock
<1>17. ASSUME NEW t \in Threads, AcquireSlot(t) PROVE TypeOK'
  BY <1>17 DEF AcquireSlot
<1>18. ASSUME NEW t \in Threads, ClaimSlot(t) PROVE TypeOK'
  <2>. DEFINE r == IF local[t].res = "OK" THEN progressRes ELSE local[t].res
              f == local[t].finished \/ r # "OK"
              l == [local[t] EXCEPT !.bi = blockIndex, !.res = r, !.finished = f]
  <2>1. l \in LocalType
    <3>1. r \in Results /\ f \in BOOLEAN
      BY LocalFields
    <3>2. local[t] \in LocalType /\ blockIndex \in Slots
      OBVIOUS
    <3>. HIDE DEF r, f
    <3>. QED
      BY ONLY <3>1, <3>2, LocalUpdate
  <2>2. local' \in [Threads -> LocalType]
    <3>1. local' = [local EXCEPT ![t] = l]
      BY <1>18 DEF ClaimSlot
    <3>. HIDE DEF l
    <3>. QED
      BY <3>1, <2>1
  <2>3. blockIndex' \in Slots
    BY <1>18, NextSlotType DEF ClaimSlot
  <2>4. pc' \in [Threads -> Pcs]
    BY <1>18 DEF ClaimSlot
  <2>. QED
    BY <1>18, <2>1, <2>2, <2>3, <2>4 DEF ClaimSlot
<1>19. ASSUME NEW t \in Threads, Spawn(t) PROVE TypeOK'
  <2>1. [local[t] EXCEPT !.res = "THREAD", !.finished = TRUE] \in LocalType
    BY LocalUpdate DEF Results
  <2>2. local' \in [Threads -> LocalType]
    BY <1>19, <2>1 DEF Spawn
  <2>3. progressRes' \in Results
    BY <1>19 DEF Spawn, SetError, Results
  <2>4. pc' \in [Threads -> Pcs]
    BY <1>19 DEF Spawn
  <2>5. startEvent' \in [Threads -> BOOLEAN] /\ stop' \in [Threads -> BOOLEAN]
    BY <1>19 DEF Spawn, CreateAndStart
  <2>. QED
    BY <1>19, <2>1, <2>2, <2>3, <2>4, <2>5 DEF Spawn
<1>20. ASSUME NEW t \in Threads, CountStarted(t) PROVE TypeOK'
  BY <1>20 DEF CountStarted
<1>21. ASSUME NEW t \in Threads, UnlockRead(t) PROVE TypeOK'
  BY <1>21 DEF UnlockRead
<1>22. ASSUME NEW t \in Threads, TakeBuffer(t) PROVE TypeOK'
  <2>1. Head(freeBlocks) \in Buffers /\ Tail(freeBlocks) \in Seq(Buffers)
    BY <1>22 DEF TakeBuffer
  <2>2. [local[t] EXCEPT !.bufIndex = Head(freeBlocks)] \in LocalType
    BY LocalUpdate, <2>1 DEF Results
  <2>3. local' \in [Threads -> LocalType]
    BY <1>22, <2>1, <2>2 DEF TakeBuffer
  <2>4. pc' \in [Threads -> Pcs]
    BY <1>22 DEF TakeBuffer
  <2>. QED
    BY <1>22, <2>1, <2>2, <2>3, <2>4 DEF TakeBuffer
<1>23. ASSUME NEW t \in Threads, Code(t) PROVE TypeOK'
  <2>1. PICK r \in {"OK", progressRes} \cup (IF "code" \in Faults THEN {"CODE"} ELSE {}) :
               /\ local' = [local EXCEPT ![t].res = r]
               /\ IF r = "OK" THEN UNCHANGED progressRes ELSE SetError(r)
    BY <1>23 DEF Code
  <2>2. r \in Results
    BY <1>23 DEF Code, Results
  <2>3. [local[t] EXCEPT !.res = r] \in LocalType
    BY LocalUpdate, <2>2 DEF Results
  <2>4. local' \in [Threads -> LocalType]
    BY <1>23, <2>1, <2>2, <2>3 DEF Code
  <2>5. progressRes' \in Results
    BY <1>23, <2>1, <2>2 DEF Code, SetError
  <2>6. local[t].block \in Nat
    BY <1>23 DEF Code, LocalType
  <2>7. outBuf' \in [Buffers -> Nat]
    <3>1. outBuf' = [outBuf EXCEPT ![local[t].bufIndex] = local[t].block]
      BY <1>23 DEF Code
    <3>. QED
      BY <2>6, <3>1
  <2>8. pc' \in [Threads -> Pcs]
    BY <1>23 DEF Code
  <2>. QED
    BY <1>23, <2>1, <2>2, <2>3, <2>4, <2>5, <2>6, <2>7, <2>8 DEF Code
<1>24. ASSUME NEW t \in Threads, RecordBlock(t) PROVE TypeOK'
  <2>1. blocks' \in [Slots -> BlockType]
    BY <1>24 DEF RecordBlock, LocalType, BlockType
  <2>2. pc' \in [Threads -> Pcs]
    BY <1>24 DEF RecordBlock
  <2>. QED
    BY <1>24, <2>1, <2>2 DEF RecordBlock
<1>25. ASSUME NEW t \in Threads, BecomeWriter(t) PROVE TypeOK'
  <2>1. local[t].bi \in Slots
    BY <1>25 DEF BecomeWriter, MyTurn, LocalType
  <2>. DEFINE r == IF writeRes # "OK" THEN writeRes ELSE local[t].res
              l == [local[t] EXCEPT !.wi = local[t].bi, !.res = r]
  <2>2. l \in LocalType
    <3>1. r \in Results
      BY LocalFields
    <3>2. local[t] \in LocalType /\ local[t].bi \in Slots
      BY <1>25, <2>1 DEF BecomeWriter
    <3>. HIDE DEF r
    <3>. QED
      BY ONLY <3>1, <3>2, LocalUpdate
  <2>3. local' \in [Threads -> LocalType]
    <3>1. local' = [local EXCEPT ![t] = l]
      BY <1>25 DEF BecomeWriter
    <3>. HIDE DEF l
    <3>. QED
      BY <3>1, <2>2
  <2>4. pc' \in [Threads -> Pcs]
    BY <1>25 DEF BecomeWriter
  <2>. QED
    BY <1>25, <2>1, <2>2, <2>3, <2>4 DEF BecomeWriter
<1>26. ASSUME NEW t \in Threads, LeaveReady(t) PROVE TypeOK'
  <2>1. readyBlocks' \in [Slots -> BOOLEAN]
    BY <1>26 DEF LeaveReady
  <2>2. pc' \in [Threads -> Pcs]
    BY <1>26 DEF LeaveReady
  <2>. QED
    BY <1>26, <2>1, <2>2 DEF LeaveReady
<1>27. ASSUME NEW t \in Threads, WriteBlock(t) PROVE TypeOK'
  <2>1. [local[t] EXCEPT !.res = "WRITE"] \in LocalType
    BY LocalUpdate DEF Results
  <2>2. local' \in [Threads -> LocalType]
    BY <1>27, <2>1 DEF WriteBlock
  <2>3. writeRes' \in Results /\ progressRes' \in Results
    BY <1>27 DEF WriteBlock, SetError, Results
  <2>4. written' \in Seq(Nat)
    <3>1. local[t].bufIndex \in Buffers \cup {None}
      BY LocalFields
    <3>2. local[t].bufIndex # None => outBuf[local[t].bufIndex] \in Nat
      BY <3>1
    <3>3. \/ written' = written
          \/ /\ local[t].bufIndex # None
             /\ written' = Append(written, outBuf[local[t].bufIndex])
      BY <1>27 DEF WriteBlock
    <3>4. \A x \in Nat : Append(written, x) \in Seq(Nat)
      OBVIOUS
    <3>5. written \in Seq(Nat)
      OBVIOUS
    <3>. QED
      BY ONLY <3>2, <3>3, <3>4, <3>5
  <2>5. pc' \in [Threads -> Pcs]
    BY <1>27 DEF WriteBlock
  <2>. QED
    BY <1>27, <2>1, <2>2, <2>3, <2>4, <2>5 DEF WriteBlock
<1>28. ASSUME NEW t \in Threads, AdvanceWriter(t) PROVE TypeOK'
  <2>1. NextSlot(local[t].wi) \in Slots
    BY <1>28, NextSlotType DEF AdvanceWriter, LocalType
  <2>2. \A i \in Slots : [local[t] EXCEPT !.wi = i, !.isReady = readyBlocks[i]] \in LocalType
    BY LocalUpdate DEF Results
  <2>3. local' \in [Threads -> LocalType]
    BY <1>28, <2>1, <2>2 DEF AdvanceWriter
  <2>4. freeBlocks' \in Seq(Buffers)
    BY <1>28 DEF AdvanceWriter, LocalType, None
  <2>5. readyBlocks' \in [Slots -> BOOLEAN] /\ writeIndex' \in Slots \cup {None}
    BY <1>28, <2>1 DEF AdvanceWriter
  <2>6. pc' \in [Threads -> Pcs]
    BY <1>28 DEF AdvanceWriter
  <2>. QED
    BY <1>28, <2>1, <2>2, <2>3, <2>4, <2>5, <2>6 DEF AdvanceWriter
<1>29. ASSUME NEW t \in Threads, ReleaseSlot(t) PROVE TypeOK'
  <2>1. pc' \in [Threads -> Pcs]
    BY <1>29 DEF ReleaseSlot
  <2>2. semaphore' \in Nat
    BY <1>29 DEF ReleaseSlot
  <2>. QED
    BY <1>29, <2>1, <2>2 DEF ReleaseSlot
<1>30. ASSUME NEW t \in Threads, LoadBlock(t) PROVE TypeOK'
  <2>1. blocks[local[t].wi] \in BlockType
    BY <1>30 DEF LoadBlock, LocalType
  <2>. DEFINE b == blocks[local[t].wi]
              r == IF local[t].res = "OK" THEN b.res ELSE local[t].res
              l == [local[t] EXCEPT !.res = r, !.bufIndex = b.bufIndex,
                                    !.finished = b.finished]
  <2>2. l \in LocalType
    <3>1. b.bufIndex \in Buffers \cup {None} /\ b.finished \in BOOLEAN /\ b.res \in Results
      BY <2>1, BlockFields
    <3>2. r \in Results
      BY <3>1, LocalFields
    <3>3. local[t] \in LocalType
      OBVIOUS
    <3>. HIDE DEF r, b
    <3>. QED
      BY ONLY <3>1, <3>2, <3>3, LocalUpdate
  <2>3. local' \in [Threads -> LocalType]
    <3>1. local' = [local EXCEPT ![t] = l]
      BY <1>30 DEF LoadBlock
    <3>. HIDE DEF l
    <3>. QED
      BY <3>1, <2>2
  <2>4. pc' \in [Threads -> Pcs]
    BY <1>30 DEF LoadBlock
  <2>. QED
    BY <1>30, <2>1, <2>2, <2>3, <2>4 DEF LoadBlock
<1>31. CASE UNCHANGED vars
  BY <1>31 DEF vars
<1>. QED
  BY <1>1, <1>2, <1>3, <1>4, <1>5, <1>6, <1>7, <1>8, <1>9, <1>10, <1>11,
     <1>12, <1>13, <1>14, <1>15, <1>16, <1>17, <1>18, <1>19, <1>20, <1>21,
     <1>22, <1>23, <1>24, <1>25, <1>26, <1>27, <1>28, <1>29, <1>30, <1>31
     DEF Next, Main, Thread, Terminated

(* MtCoder keeps its types, for every number of threads, blocks and calls. *)
THEOREM Typing == Spec => []TypeOK
<1>1. Init => TypeOK
  BY TypeInit
<1>2. TypeOK /\ [Next]_vars => TypeOK'
  BY TypeStep
<1>. QED
  BY <1>1, <1>2, PTL DEF Spec

-----------------------------------------------------------------------------
(* One call of MtCoder_Code.  A second call on the same CMtCoder may begin     *)
(* while a thread of the first has counted its exit and not yet compared the   *)
(* count, so what follows holds of the first call only.                        *)

OneCall == Len(Inputs) <= 1

\* No thread exists.
Fresh == \A t \in Threads : pc[t] = "none" /\ ~startEvent[t] /\ ~stop[t]

\* No thread is inside ThreadFunc2, and only MtCoder_Free can wake one.
AtRest ==
  \A t \in Threads : /\ pc[t] \in {"none", "idle", "dead", "compare"}
                     /\ startEvent[t] => stop[t]

\* The threads that have counted their exit.
Done == {t \in Threads : pc[t] = "compare" \/ (pc[t] = "idle" /\ ~startEvent[t])}

\* A thread that was created but is not counted yet cannot get past readEvent,
\* which its creator holds.
JustStarted(t) ==
  /\ t = numStarted
  /\ \E u \in Threads : pc[u] = "count"
  /\ pc[t] = "read" \/ (pc[t] = "idle" /\ startEvent[t])

Running ==
  /\ \A t \in Threads : ~stop[t] /\ (startEvent[t] => pc[t] = "idle")
  /\ numStarted \in 1 .. NumThreads
  /\ \A t \in Threads : pc[t] \in {"spawn", "count"} => numStarted < NumThreads
  /\ \A t \in Threads : t >= numStarted => pc[t] = "none" \/ JustStarted(t)
  /\ numFinished = Cardinality(Done)
  /\ \A t \in Threads : pc[t] = "compare" => local[t].numFinished <= numFinished

IInv ==
  /\ call = 0 => Fresh /\ mpc \in {"ready", "free", "end"}
  /\ mpc = "create" => /\ Fresh /\ numStarted = 1 /\ numFinished = 0
                       /\ ~readEvent /\ ~finishedEvent
  /\ mpc = "kick" => ~readEvent /\ \A t \in Threads : pc[t] \in {"none", "idle", "read"}
  /\ mpc \in {"kick", "wait"} => Running
  /\ finishedEvent \/ mpc \notin {"kick", "wait"} => AtRest
  /\ OneReader

LEMMA FiniteDone == IsFiniteSet(Threads) /\ IsFiniteSet(Done) /\ Done \subseteq Threads
<1>1. IsFiniteSet(0 .. NumThreads - 1)
  BY RingSize, FS_Interval
<1>. QED
  BY <1>1, FS_Subset DEF Threads, Done

(* What one step of a worker does to the reader's token, whoever the worker is. *)
LEMMA OneReaderStep ==
  ASSUME TypeOK, OneReader, NEW t \in Threads, Thread(t),
         \A u \in Threads : pc[u] = "spawn" => pc[numStarted] = "none"
  PROVE  OneReader'
<1>. USE DEF TypeOK, OneReader, ReaderPcs, Goto, AutoReset, callVars, eventVars, resVars, readerVars, ringVars, bufVars
<1>1. CASE WaitStart(t)
  BY <1>1 DEF WaitStart
<1>2. CASE CountExit(t)
  BY <1>2 DEF CountExit
<1>3. CASE CompareExit(t)
  BY <1>3 DEF CompareExit
<1>4. CASE WaitRead(t)
  BY <1>4 DEF WaitRead
<1>5. CASE PassOn(t)
  BY <1>5 DEF PassOn
<1>6. CASE CheckError(t)
  BY <1>6 DEF CheckError
<1>7. CASE ReadBlock(t)
  BY <1>7 DEF ReadBlock
<1>8. CASE AcquireSlot(t)
  BY <1>8 DEF AcquireSlot
<1>9. CASE ClaimSlot(t)
  BY <1>9 DEF ClaimSlot
<1>10. CASE Spawn(t)
  BY <1>10 DEF Spawn
<1>11. CASE CountStarted(t)
  BY <1>11 DEF CountStarted
<1>12. CASE UnlockRead(t)
  BY <1>12 DEF UnlockRead
<1>13. CASE TakeBuffer(t)
  BY <1>13 DEF TakeBuffer
<1>14. CASE Code(t)
  BY <1>14 DEF Code
<1>15. CASE RecordBlock(t)
  BY <1>15 DEF RecordBlock
<1>16. CASE BecomeWriter(t)
  BY <1>16 DEF BecomeWriter
<1>17. CASE LeaveReady(t)
  BY <1>17 DEF LeaveReady
<1>18. CASE WriteBlock(t)
  BY <1>18 DEF WriteBlock
<1>19. CASE AdvanceWriter(t)
  BY <1>19 DEF AdvanceWriter
<1>20. CASE ReleaseSlot(t)
  BY <1>20 DEF ReleaseSlot
<1>21. CASE LoadBlock(t)
  BY <1>21 DEF LoadBlock
<1>. QED
  BY <1>1, <1>2, <1>3, <1>4, <1>5, <1>6, <1>7, <1>8, <1>9, <1>10, <1>11, <1>12, <1>13, <1>14, <1>15, <1>16, <1>17, <1>18, <1>19, <1>20, <1>21 DEF Thread

(* While a call runs, a worker's step keeps the set of started threads, and    *)
(* numFinished counts exactly those that have left ThreadFunc2.                *)
LEMMA RunningStep ==
  ASSUME TypeOK, TypeOK', OneReader, Running, NEW t \in Threads, Thread(t)
  PROVE  Running'
<1>. USE DEF TypeOK, Goto, AutoReset, callVars, eventVars, resVars, readerVars, ringVars, bufVars
<1>1. CASE CountExit(t)
  <2>1. t \notin Done /\ Done' = Done \cup {t}
    BY <1>1 DEF CountExit, Done, Running
  <2>2. Cardinality(Done') = Cardinality(Done) + 1
    BY <2>1, FiniteDone, FS_AddElement
  <2>3. numFinished' = Cardinality(Done')
    BY <1>1, <2>2 DEF CountExit, Running
  <2>4. \A u \in Threads : pc'[u] = "compare" => local'[u].numFinished <= numFinished'
    BY <1>1 DEF CountExit, Running, LocalType
  <2>5. \A u \in Threads : u >= numStarted => pc'[u] = "none" \/ JustStarted(u)'
    BY <1>1 DEF CountExit, Running, JustStarted
  <2>6. \A u \in Threads : /\ ~stop'[u] /\ (startEvent'[u] => pc'[u] = "idle")
                           /\ pc'[u] \in {"spawn", "count"} => numStarted' < NumThreads
    BY <1>1 DEF CountExit, Running
  <2>7. numStarted' = numStarted
    BY <1>1 DEF CountExit
  <2>. QED
    BY <2>3, <2>4, <2>5, <2>6, <2>7 DEF Running
<1>2. CASE WaitStart(t)
  <2>1. Done' = Done
    BY <1>2 DEF WaitStart, Done, Running, JustStarted
  <2>2. numFinished' = numFinished /\ \A u \in Threads : local'[u].numFinished = local[u].numFinished
    BY <1>2 DEF WaitStart, LocalType
  <2>3. \A u \in Threads : u >= numStarted' => pc'[u] = "none" \/ JustStarted(u)'
    BY <1>2 DEF WaitStart, Running, JustStarted, OneReader, ReaderPcs
  <2>4. \A u \in Threads : /\ ~stop'[u] /\ (startEvent'[u] => pc'[u] = "idle")
                           /\ pc'[u] \in {"spawn", "count"} => numStarted' < NumThreads
    BY <1>2 DEF WaitStart, Running, JustStarted, OneReader, ReaderPcs, CreateAndStart
  <2>5. numStarted' \in 1 .. NumThreads /\ \A u \in Threads : pc'[u] = "compare" => pc[u] = "compare"
    BY <1>2 DEF WaitStart, Running
  <2>. QED
    BY <2>1, <2>2, <2>3, <2>4, <2>5 DEF Running
<1>3. CASE CompareExit(t)
  <2>1. Done' = Done
    BY <1>3 DEF CompareExit, Done, Running, JustStarted
  <2>2. numFinished' = numFinished /\ \A u \in Threads : local'[u].numFinished = local[u].numFinished
    BY <1>3 DEF CompareExit, LocalType
  <2>3. \A u \in Threads : u >= numStarted' => pc'[u] = "none" \/ JustStarted(u)'
    BY <1>3 DEF CompareExit, Running, JustStarted, OneReader, ReaderPcs
  <2>4. \A u \in Threads : /\ ~stop'[u] /\ (startEvent'[u] => pc'[u] = "idle")
                           /\ pc'[u] \in {"spawn", "count"} => numStarted' < NumThreads
    BY <1>3 DEF CompareExit, Running, JustStarted, OneReader, ReaderPcs, CreateAndStart
  <2>5. numStarted' \in 1 .. NumThreads /\ \A u \in Threads : pc'[u] = "compare" => pc[u] = "compare"
    BY <1>3 DEF CompareExit, Running
  <2>. QED
    BY <2>1, <2>2, <2>3, <2>4, <2>5 DEF Running
<1>4. CASE WaitRead(t)
  <2>1. Done' = Done
    BY <1>4 DEF WaitRead, Done, Running, JustStarted
  <2>2. numFinished' = numFinished /\ \A u \in Threads : local'[u].numFinished = local[u].numFinished
    BY <1>4 DEF WaitRead, LocalType
  <2>3. \A u \in Threads : u >= numStarted' => pc'[u] = "none" \/ JustStarted(u)'
    BY <1>4 DEF WaitRead, Running, JustStarted, OneReader, ReaderPcs
  <2>4. \A u \in Threads : /\ ~stop'[u] /\ (startEvent'[u] => pc'[u] = "idle")
                           /\ pc'[u] \in {"spawn", "count"} => numStarted' < NumThreads
    BY <1>4 DEF WaitRead, Running, JustStarted, OneReader, ReaderPcs, CreateAndStart
  <2>5. numStarted' \in 1 .. NumThreads /\ \A u \in Threads : pc'[u] = "compare" => pc[u] = "compare"
    BY <1>4 DEF WaitRead, Running
  <2>. QED
    BY <2>1, <2>2, <2>3, <2>4, <2>5 DEF Running
<1>5. CASE PassOn(t)
  <2>1. Done' = Done
    BY <1>5 DEF PassOn, Done, Running, JustStarted
  <2>2. numFinished' = numFinished /\ \A u \in Threads : local'[u].numFinished = local[u].numFinished
    BY <1>5 DEF PassOn, LocalType
  <2>3. \A u \in Threads : u >= numStarted' => pc'[u] = "none" \/ JustStarted(u)'
    BY <1>5 DEF PassOn, Running, JustStarted, OneReader, ReaderPcs
  <2>4. \A u \in Threads : /\ ~stop'[u] /\ (startEvent'[u] => pc'[u] = "idle")
                           /\ pc'[u] \in {"spawn", "count"} => numStarted' < NumThreads
    BY <1>5 DEF PassOn, Running, JustStarted, OneReader, ReaderPcs, CreateAndStart
  <2>5. numStarted' \in 1 .. NumThreads /\ \A u \in Threads : pc'[u] = "compare" => pc[u] = "compare"
    BY <1>5 DEF PassOn, Running
  <2>. QED
    BY <2>1, <2>2, <2>3, <2>4, <2>5 DEF Running
<1>6. CASE CheckError(t)
  <2>1. Done' = Done
    BY <1>6 DEF CheckError, Done, Running, JustStarted
  <2>2. numFinished' = numFinished /\ \A u \in Threads : local'[u].numFinished = local[u].numFinished
    BY <1>6 DEF CheckError, LocalType
  <2>3. \A u \in Threads : u >= numStarted' => pc'[u] = "none" \/ JustStarted(u)'
    BY <1>6 DEF CheckError, Running, JustStarted, OneReader, ReaderPcs
  <2>4. \A u \in Threads : /\ ~stop'[u] /\ (startEvent'[u] => pc'[u] = "idle")
                           /\ pc'[u] \in {"spawn", "count"} => numStarted' < NumThreads
    BY <1>6 DEF CheckError, Running, JustStarted, OneReader, ReaderPcs, CreateAndStart
  <2>5. numStarted' \in 1 .. NumThreads /\ \A u \in Threads : pc'[u] = "compare" => pc[u] = "compare"
    BY <1>6 DEF CheckError, Running
  <2>. QED
    BY <2>1, <2>2, <2>3, <2>4, <2>5 DEF Running
<1>7. CASE ReadBlock(t)
  <2>1. Done' = Done
    BY <1>7 DEF ReadBlock, Done, Running, JustStarted
  <2>2. numFinished' = numFinished /\ \A u \in Threads : local'[u].numFinished = local[u].numFinished
    <3>1. local[t] \in LocalType /\ UNCHANGED numFinished
      BY <1>7 DEF ReadBlock
    <3>. DEFINE l1 == [local[t] EXCEPT !.block = nextBlock, !.finished = (nextBlock = LastBlock)]
                l2 == [local[t] EXCEPT !.res = "READ"]
    <3>2. l1.numFinished = local[t].numFinished /\ l2.numFinished = local[t].numFinished
      BY ONLY <3>1 DEF LocalType
    <3>3. \/ local' = local
          \/ local' = [local EXCEPT ![t] = l1]
          \/ local' = [local EXCEPT ![t] = l2]
      BY <1>7 DEF ReadBlock
    <3>. HIDE DEF l1, l2
    <3>. QED
      BY <3>1, <3>2, <3>3
  <2>3. \A u \in Threads : u >= numStarted' => pc'[u] = "none" \/ JustStarted(u)'
    BY <1>7 DEF ReadBlock, Running, JustStarted, OneReader, ReaderPcs
  <2>4. \A u \in Threads : /\ ~stop'[u] /\ (startEvent'[u] => pc'[u] = "idle")
                           /\ pc'[u] \in {"spawn", "count"} => numStarted' < NumThreads
    BY <1>7 DEF ReadBlock, Running, JustStarted, OneReader, ReaderPcs, CreateAndStart
  <2>5. numStarted' \in 1 .. NumThreads /\ \A u \in Threads : pc'[u] = "compare" => pc[u] = "compare"
    BY <1>7 DEF ReadBlock, Running
  <2>. QED
    BY <2>1, <2>2, <2>3, <2>4, <2>5 DEF Running
<1>8. CASE AcquireSlot(t)
  <2>1. Done' = Done
    BY <1>8 DEF AcquireSlot, Done, Running, JustStarted
  <2>2. numFinished' = numFinished /\ \A u \in Threads : local'[u].numFinished = local[u].numFinished
    BY <1>8 DEF AcquireSlot, LocalType
  <2>3. \A u \in Threads : u >= numStarted' => pc'[u] = "none" \/ JustStarted(u)'
    BY <1>8 DEF AcquireSlot, Running, JustStarted, OneReader, ReaderPcs
  <2>4. \A u \in Threads : /\ ~stop'[u] /\ (startEvent'[u] => pc'[u] = "idle")
                           /\ pc'[u] \in {"spawn", "count"} => numStarted' < NumThreads
    BY <1>8 DEF AcquireSlot, Running, JustStarted, OneReader, ReaderPcs, CreateAndStart
  <2>5. numStarted' \in 1 .. NumThreads /\ \A u \in Threads : pc'[u] = "compare" => pc[u] = "compare"
    BY <1>8 DEF AcquireSlot, Running
  <2>. QED
    BY <2>1, <2>2, <2>3, <2>4, <2>5 DEF Running
<1>9. CASE ClaimSlot(t)
  <2>1. Done' = Done
    BY <1>9 DEF ClaimSlot, Done, Running, JustStarted
  <2>2. numFinished' = numFinished /\ \A u \in Threads : local'[u].numFinished = local[u].numFinished
    BY <1>9 DEF ClaimSlot, LocalType
  <2>3. \A u \in Threads : u >= numStarted' => pc'[u] = "none" \/ JustStarted(u)'
    BY <1>9 DEF ClaimSlot, Running, JustStarted, OneReader, ReaderPcs
  <2>4. \A u \in Threads : /\ ~stop'[u] /\ (startEvent'[u] => pc'[u] = "idle")
                           /\ pc'[u] \in {"spawn", "count"} => numStarted' < NumThreads
    BY <1>9 DEF ClaimSlot, Running, JustStarted, OneReader, ReaderPcs, CreateAndStart
  <2>5. numStarted' \in 1 .. NumThreads /\ \A u \in Threads : pc'[u] = "compare" => pc[u] = "compare"
    BY <1>9 DEF ClaimSlot, Running
  <2>. QED
    BY <2>1, <2>2, <2>3, <2>4, <2>5 DEF Running
<1>10. CASE Spawn(t)
  <2>7. /\ numStarted \in Threads /\ numStarted # t
        /\ pc[numStarted] = "none"
        /\ \A u \in Threads : u >= numStarted => pc[u] = "none"
        /\ ~startEvent[numStarted]
    <3>1. numStarted \in Threads
      BY <1>10, RingSize DEF Spawn, Running, Threads
    <3>2. \A u \in Threads : pc[u] # "count"
      BY <1>10 DEF Spawn, OneReader, ReaderPcs
    <3>3. \A u \in Threads : u >= numStarted => pc[u] = "none"
      BY <3>2 DEF Running, JustStarted
    <3>4. numStarted >= numStarted
      BY <3>1
    <3>. QED
      BY <1>10, <3>1, <3>3, <3>4 DEF Spawn, Running
  <2>6. \/ /\ pc' = [pc EXCEPT ![t] = "count", ![numStarted] = "idle"]
            /\ startEvent' = [startEvent EXCEPT ![numStarted] = TRUE]
         \/ /\ pc' = [pc EXCEPT ![t] = "unlock"]
            /\ startEvent' = startEvent
    BY <1>10, <2>7 DEF Spawn, CreateAndStart
  <2>1. Done' = Done
    BY <1>10, <2>7, <2>6 DEF Spawn, Done
  <2>2. numFinished' = numFinished /\ \A u \in Threads : local'[u].numFinished = local[u].numFinished
    <3>1. local[t] \in LocalType /\ UNCHANGED numFinished
      BY <1>10 DEF Spawn
    <3>. DEFINE l1 == [local[t] EXCEPT !.res = "THREAD", !.finished = TRUE]
    <3>2. l1.numFinished = local[t].numFinished
      BY ONLY <3>1 DEF LocalType
    <3>3. \/ local' = local
          \/ local' = [local EXCEPT ![t] = l1]
      BY <1>10 DEF Spawn
    <3>. HIDE DEF l1
    <3>. QED
      BY <3>1, <3>2, <3>3
  <2>3. \A u \in Threads : u >= numStarted' => pc'[u] = "none" \/ JustStarted(u)'
    <3>1. UNCHANGED numStarted
      BY <1>10 DEF Spawn
    <3>. QED
      BY <1>10, <2>7, <2>6, <3>1 DEF Spawn, JustStarted, Threads
  <2>4. \A u \in Threads : /\ ~stop'[u] /\ (startEvent'[u] => pc'[u] = "idle")
                           /\ pc'[u] \in {"spawn", "count"} => numStarted' < NumThreads
    <3>1. UNCHANGED numStarted /\ pc[t] = "spawn"
      BY <1>10 DEF Spawn
    <3>2. numStarted < NumThreads
      BY <2>7, RingSize DEF Threads
    <3>3. \A u \in Threads : ~stop[u] /\ (startEvent[u] => pc[u] = "idle")
      BY DEF Running
    <3>4. /\ pc \in [Threads -> Pcs] /\ startEvent \in [Threads -> BOOLEAN]
          /\ stop \in [Threads -> BOOLEAN]
      BY DEF TypeOK
    <3>5. stop' = stop \/ stop' = [stop EXCEPT ![numStarted] = FALSE]
      BY <1>10 DEF Spawn, CreateAndStart
    <3>6. \A u \in Threads : ~stop'[u]
      BY <3>3, <3>4, <3>5
    <3>7. \A u \in Threads : startEvent'[u] => pc'[u] = "idle"
      BY <3>1, <3>3, <3>4, <2>6, <2>7
    <3>. QED
      BY <3>1, <3>2, <3>6, <3>7
  <2>5. numStarted' \in 1 .. NumThreads /\ \A u \in Threads : pc'[u] = "compare" => pc[u] = "compare"
    BY <1>10 DEF Spawn, Running
  <2>. QED
    BY <2>1, <2>2, <2>3, <2>4, <2>5 DEF Running
<1>11. CASE CountStarted(t)
  <2>1. Done' = Done
    BY <1>11 DEF CountStarted, Done, Running, JustStarted
  <2>2. numFinished' = numFinished /\ \A u \in Threads : local'[u].numFinished = local[u].numFinished
    BY <1>11 DEF CountStarted, LocalType
  <2>3. \A u \in Threads : u >= numStarted' => pc'[u] = "none" \/ JustStarted(u)'
    <3>1. \A u \in Threads : u >= numStarted + 1 => u >= numStarted /\ u # numStarted
      BY DEF Threads
    <3>2. \A u \in Threads : u >= numStarted + 1 => pc[u] = "none"
      BY <3>1 DEF Running, JustStarted
    <3>. QED
      BY <1>11, <3>2 DEF CountStarted
  <2>4. \A u \in Threads : /\ ~stop'[u] /\ (startEvent'[u] => pc'[u] = "idle")
                           /\ pc'[u] \in {"spawn", "count"} => numStarted' < NumThreads
    BY <1>11 DEF CountStarted, Running, JustStarted, OneReader, ReaderPcs, CreateAndStart
  <2>5. numStarted' \in 1 .. NumThreads /\ \A u \in Threads : pc'[u] = "compare" => pc[u] = "compare"
    BY <1>11, RingSize DEF CountStarted, Running
  <2>. QED
    BY <2>1, <2>2, <2>3, <2>4, <2>5 DEF Running
<1>12. CASE UnlockRead(t)
  <2>1. Done' = Done
    BY <1>12 DEF UnlockRead, Done, Running, JustStarted
  <2>2. numFinished' = numFinished /\ \A u \in Threads : local'[u].numFinished = local[u].numFinished
    BY <1>12 DEF UnlockRead, LocalType
  <2>3. \A u \in Threads : u >= numStarted' => pc'[u] = "none" \/ JustStarted(u)'
    BY <1>12 DEF UnlockRead, Running, JustStarted, OneReader, ReaderPcs
  <2>4. \A u \in Threads : /\ ~stop'[u] /\ (startEvent'[u] => pc'[u] = "idle")
                           /\ pc'[u] \in {"spawn", "count"} => numStarted' < NumThreads
    BY <1>12 DEF UnlockRead, Running, JustStarted, OneReader, ReaderPcs, CreateAndStart
  <2>5. numStarted' \in 1 .. NumThreads /\ \A u \in Threads : pc'[u] = "compare" => pc[u] = "compare"
    BY <1>12 DEF UnlockRead, Running
  <2>. QED
    BY <2>1, <2>2, <2>3, <2>4, <2>5 DEF Running
<1>13. CASE TakeBuffer(t)
  <2>1. Done' = Done
    BY <1>13 DEF TakeBuffer, Done, Running, JustStarted
  <2>2. numFinished' = numFinished /\ \A u \in Threads : local'[u].numFinished = local[u].numFinished
    BY <1>13 DEF TakeBuffer, LocalType
  <2>3. \A u \in Threads : u >= numStarted' => pc'[u] = "none" \/ JustStarted(u)'
    BY <1>13 DEF TakeBuffer, Running, JustStarted, OneReader, ReaderPcs
  <2>4. \A u \in Threads : /\ ~stop'[u] /\ (startEvent'[u] => pc'[u] = "idle")
                           /\ pc'[u] \in {"spawn", "count"} => numStarted' < NumThreads
    BY <1>13 DEF TakeBuffer, Running, JustStarted, OneReader, ReaderPcs, CreateAndStart
  <2>5. numStarted' \in 1 .. NumThreads /\ \A u \in Threads : pc'[u] = "compare" => pc[u] = "compare"
    BY <1>13 DEF TakeBuffer, Running
  <2>. QED
    BY <2>1, <2>2, <2>3, <2>4, <2>5 DEF Running
<1>14. CASE Code(t)
  <2>1. Done' = Done
    BY <1>14 DEF Code, Done, Running, JustStarted
  <2>2. numFinished' = numFinished /\ \A u \in Threads : local'[u].numFinished = local[u].numFinished
    BY <1>14 DEF Code, LocalType
  <2>3. \A u \in Threads : u >= numStarted' => pc'[u] = "none" \/ JustStarted(u)'
    BY <1>14 DEF Code, Running, JustStarted, OneReader, ReaderPcs
  <2>4. \A u \in Threads : /\ ~stop'[u] /\ (startEvent'[u] => pc'[u] = "idle")
                           /\ pc'[u] \in {"spawn", "count"} => numStarted' < NumThreads
    BY <1>14 DEF Code, Running, JustStarted, OneReader, ReaderPcs, CreateAndStart
  <2>5. numStarted' \in 1 .. NumThreads /\ \A u \in Threads : pc'[u] = "compare" => pc[u] = "compare"
    BY <1>14 DEF Code, Running
  <2>. QED
    BY <2>1, <2>2, <2>3, <2>4, <2>5 DEF Running
<1>15. CASE RecordBlock(t)
  <2>1. Done' = Done
    BY <1>15 DEF RecordBlock, Done, Running, JustStarted
  <2>2. numFinished' = numFinished /\ \A u \in Threads : local'[u].numFinished = local[u].numFinished
    BY <1>15 DEF RecordBlock, LocalType
  <2>3. \A u \in Threads : u >= numStarted' => pc'[u] = "none" \/ JustStarted(u)'
    BY <1>15 DEF RecordBlock, Running, JustStarted, OneReader, ReaderPcs
  <2>4. \A u \in Threads : /\ ~stop'[u] /\ (startEvent'[u] => pc'[u] = "idle")
                           /\ pc'[u] \in {"spawn", "count"} => numStarted' < NumThreads
    BY <1>15 DEF RecordBlock, Running, JustStarted, OneReader, ReaderPcs, CreateAndStart
  <2>5. numStarted' \in 1 .. NumThreads /\ \A u \in Threads : pc'[u] = "compare" => pc[u] = "compare"
    BY <1>15 DEF RecordBlock, Running
  <2>. QED
    BY <2>1, <2>2, <2>3, <2>4, <2>5 DEF Running
<1>16. CASE BecomeWriter(t)
  <2>1. Done' = Done
    BY <1>16 DEF BecomeWriter, Done, Running, JustStarted
  <2>2. numFinished' = numFinished /\ \A u \in Threads : local'[u].numFinished = local[u].numFinished
    BY <1>16 DEF BecomeWriter, MyTurn, LocalType
  <2>3. \A u \in Threads : u >= numStarted' => pc'[u] = "none" \/ JustStarted(u)'
    BY <1>16 DEF BecomeWriter, Running, JustStarted, OneReader, ReaderPcs
  <2>4. \A u \in Threads : /\ ~stop'[u] /\ (startEvent'[u] => pc'[u] = "idle")
                           /\ pc'[u] \in {"spawn", "count"} => numStarted' < NumThreads
    BY <1>16 DEF BecomeWriter, Running, JustStarted, OneReader, ReaderPcs, CreateAndStart
  <2>5. numStarted' \in 1 .. NumThreads /\ \A u \in Threads : pc'[u] = "compare" => pc[u] = "compare"
    BY <1>16 DEF BecomeWriter, Running
  <2>. QED
    BY <2>1, <2>2, <2>3, <2>4, <2>5 DEF Running
<1>17. CASE LeaveReady(t)
  <2>1. Done' = Done
    BY <1>17 DEF LeaveReady, Done, Running, JustStarted
  <2>2. numFinished' = numFinished /\ \A u \in Threads : local'[u].numFinished = local[u].numFinished
    BY <1>17 DEF LeaveReady, LocalType
  <2>3. \A u \in Threads : u >= numStarted' => pc'[u] = "none" \/ JustStarted(u)'
    BY <1>17 DEF LeaveReady, Running, JustStarted, OneReader, ReaderPcs
  <2>4. \A u \in Threads : /\ ~stop'[u] /\ (startEvent'[u] => pc'[u] = "idle")
                           /\ pc'[u] \in {"spawn", "count"} => numStarted' < NumThreads
    BY <1>17 DEF LeaveReady, Running, JustStarted, OneReader, ReaderPcs, CreateAndStart
  <2>5. numStarted' \in 1 .. NumThreads /\ \A u \in Threads : pc'[u] = "compare" => pc[u] = "compare"
    BY <1>17 DEF LeaveReady, Running
  <2>. QED
    BY <2>1, <2>2, <2>3, <2>4, <2>5 DEF Running
<1>18. CASE WriteBlock(t)
  <2>1. Done' = Done
    BY <1>18 DEF WriteBlock, Done, Running, JustStarted
  <2>2. numFinished' = numFinished /\ \A u \in Threads : local'[u].numFinished = local[u].numFinished
    <3>1. local[t] \in LocalType /\ UNCHANGED numFinished
      BY <1>18 DEF WriteBlock
    <3>. DEFINE l1 == [local[t] EXCEPT !.res = "WRITE"]
    <3>2. l1.numFinished = local[t].numFinished
      BY ONLY <3>1 DEF LocalType
    <3>3. \/ local' = local
          \/ local' = [local EXCEPT ![t] = l1]
      BY <1>18 DEF WriteBlock
    <3>. HIDE DEF l1
    <3>. QED
      BY <3>1, <3>2, <3>3
  <2>3. \A u \in Threads : u >= numStarted' => pc'[u] = "none" \/ JustStarted(u)'
    BY <1>18 DEF WriteBlock, Running, JustStarted, OneReader, ReaderPcs
  <2>4. \A u \in Threads : /\ ~stop'[u] /\ (startEvent'[u] => pc'[u] = "idle")
                           /\ pc'[u] \in {"spawn", "count"} => numStarted' < NumThreads
    BY <1>18 DEF WriteBlock, Running, JustStarted, OneReader, ReaderPcs, CreateAndStart
  <2>5. numStarted' \in 1 .. NumThreads /\ \A u \in Threads : pc'[u] = "compare" => pc[u] = "compare"
    BY <1>18 DEF WriteBlock, Running
  <2>. QED
    BY <2>1, <2>2, <2>3, <2>4, <2>5 DEF Running
<1>19. CASE AdvanceWriter(t)
  <2>1. Done' = Done
    BY <1>19 DEF AdvanceWriter, Done, Running, JustStarted
  <2>2. numFinished' = numFinished /\ \A u \in Threads : local'[u].numFinished = local[u].numFinished
    BY <1>19 DEF AdvanceWriter, LocalType
  <2>3. \A u \in Threads : u >= numStarted' => pc'[u] = "none" \/ JustStarted(u)'
    BY <1>19 DEF AdvanceWriter, Running, JustStarted, OneReader, ReaderPcs
  <2>4. \A u \in Threads : /\ ~stop'[u] /\ (startEvent'[u] => pc'[u] = "idle")
                           /\ pc'[u] \in {"spawn", "count"} => numStarted' < NumThreads
    BY <1>19 DEF AdvanceWriter, Running, JustStarted, OneReader, ReaderPcs, CreateAndStart
  <2>5. numStarted' \in 1 .. NumThreads /\ \A u \in Threads : pc'[u] = "compare" => pc[u] = "compare"
    BY <1>19 DEF AdvanceWriter, Running
  <2>. QED
    BY <2>1, <2>2, <2>3, <2>4, <2>5 DEF Running
<1>20. CASE ReleaseSlot(t)
  <2>1. Done' = Done
    BY <1>20 DEF ReleaseSlot, Done, Running, JustStarted
  <2>2. numFinished' = numFinished /\ \A u \in Threads : local'[u].numFinished = local[u].numFinished
    BY <1>20 DEF ReleaseSlot, LocalType
  <2>3. \A u \in Threads : u >= numStarted' => pc'[u] = "none" \/ JustStarted(u)'
    BY <1>20 DEF ReleaseSlot, Running, JustStarted, OneReader, ReaderPcs
  <2>4. \A u \in Threads : /\ ~stop'[u] /\ (startEvent'[u] => pc'[u] = "idle")
                           /\ pc'[u] \in {"spawn", "count"} => numStarted' < NumThreads
    BY <1>20 DEF ReleaseSlot, Running, JustStarted, OneReader, ReaderPcs, CreateAndStart
  <2>5. numStarted' \in 1 .. NumThreads /\ \A u \in Threads : pc'[u] = "compare" => pc[u] = "compare"
    BY <1>20 DEF ReleaseSlot, Running
  <2>. QED
    BY <2>1, <2>2, <2>3, <2>4, <2>5 DEF Running
<1>21. CASE LoadBlock(t)
  <2>1. Done' = Done
    BY <1>21 DEF LoadBlock, Done, Running, JustStarted
  <2>2. numFinished' = numFinished /\ \A u \in Threads : local'[u].numFinished = local[u].numFinished
    BY <1>21 DEF LoadBlock, LocalType
  <2>3. \A u \in Threads : u >= numStarted' => pc'[u] = "none" \/ JustStarted(u)'
    BY <1>21 DEF LoadBlock, Running, JustStarted, OneReader, ReaderPcs
  <2>4. \A u \in Threads : /\ ~stop'[u] /\ (startEvent'[u] => pc'[u] = "idle")
                           /\ pc'[u] \in {"spawn", "count"} => numStarted' < NumThreads
    BY <1>21 DEF LoadBlock, Running, JustStarted, OneReader, ReaderPcs, CreateAndStart
  <2>5. numStarted' \in 1 .. NumThreads /\ \A u \in Threads : pc'[u] = "compare" => pc[u] = "compare"
    BY <1>21 DEF LoadBlock, Running
  <2>. QED
    BY <2>1, <2>2, <2>3, <2>4, <2>5 DEF Running
<1>. QED
  BY <1>1, <1>2, <1>3, <1>4, <1>5, <1>6, <1>7, <1>8, <1>9, <1>10, <1>11,
     <1>12, <1>13, <1>14, <1>15, <1>16, <1>17, <1>18, <1>19, <1>20, <1>21 DEF Thread

(* When the count of a leaving thread equals numStartedThreads, every thread   *)
(* has left: this is what makes the unlocked comparison right.                 *)
LEMMA LastOut ==
  ASSUME TypeOK, OneReader, Running, NEW t \in Threads, CompareExit(t),
         local[t].numFinished = numStarted
  PROVE  AtRest
<1>1. pc[t] = "compare"
  BY DEF CompareExit, AllOut
<1>2. numStarted \in 1 .. NumThreads /\ Cardinality(Done) \in Nat
  BY FiniteDone, FS_CardinalityType DEF Running
<1>3. numStarted <= Cardinality(Done)
  BY <1>1 DEF Running
<1>4. Done \subseteq 0 .. numStarted - 1
  BY <1>2 DEF Done, Running, JustStarted, Threads
<1>5. IsFiniteSet(0 .. numStarted - 1) /\ Cardinality(0 .. numStarted - 1) = numStarted
  <2>1. 0 \in Int /\ numStarted - 1 \in Int /\ ~(0 > numStarted - 1)
        /\ (numStarted - 1) - 0 + 1 = numStarted
    BY <1>2, RingSize
  <2>. QED
    BY <2>1, FS_Interval
<1>6. Done = 0 .. numStarted - 1
  <2>1. Cardinality(Done) <= Cardinality(0 .. numStarted - 1)
    BY <1>4, <1>5, FS_Subset
  <2>2. Cardinality(Done) = Cardinality(0 .. numStarted - 1)
    BY <1>2, <1>3, <1>5, <2>1, RingSize
  <2>. QED
    BY <1>4, <1>5, <2>2, FS_Subset
<1>7. \A u \in Threads : pc[u] # "count"
  <2>. SUFFICES ASSUME NEW u \in Threads, pc[u] = "count" PROVE FALSE
    OBVIOUS
  <2>1. u \notin Done
    BY DEF Done
  <2>2. u >= numStarted
    BY <1>2, <1>6, <2>1 DEF Threads
  <2>. QED
    BY <2>2 DEF Running, JustStarted
<1>8. \A u \in Threads : u \in Done \/ pc[u] = "none"
  BY <1>2, <1>6, <1>7 DEF Running, JustStarted, Threads
<1>. QED
  BY <1>8 DEF AtRest, Running, Done

LEMMA ThreadStep ==
  ASSUME TypeOK, TypeOK', IInv, NEW t \in Threads, Thread(t)
  PROVE  IInv'
<1>. USE DEF Goto, AutoReset, AllOut, callVars, eventVars, resVars, readerVars, ringVars, bufVars
<1>1. UNCHANGED <<mpc, call>>
  BY DEF Thread, WaitStart, CountExit, CompareExit, WaitRead, PassOn, CheckError,
     ReadBlock, AcquireSlot, ClaimSlot, Spawn, CountStarted, UnlockRead,
     TakeBuffer, Code, RecordBlock, BecomeWriter, LeaveReady, WriteBlock,
     AdvanceWriter, ReleaseSlot, LoadBlock
<1>2. pc[t] # "none"
  BY DEF Thread, WaitStart, CountExit, CompareExit, WaitRead, PassOn, CheckError,
     ReadBlock, AcquireSlot, ClaimSlot, Spawn, CountStarted, UnlockRead,
     TakeBuffer, Code, RecordBlock, BecomeWriter, LeaveReady, WriteBlock,
     AdvanceWriter, ReleaseSlot, LoadBlock
<1>3. call # 0 /\ mpc # "create"
  BY <1>2 DEF IInv, Fresh
<1>4. AtRest => (WaitStart(t) /\ stop[t]) \/ CompareExit(t)
  BY DEF AtRest, Thread, WaitStart, CountExit, CompareExit, WaitRead, PassOn,
     CheckError, ReadBlock, AcquireSlot, ClaimSlot, Spawn, CountStarted,
     UnlockRead, TakeBuffer, Code, RecordBlock, BecomeWriter, LeaveReady,
     WriteBlock, AdvanceWriter, ReleaseSlot, LoadBlock
<1>5. AtRest => AtRest'
  BY <1>4 DEF AtRest, WaitStart, CompareExit, TypeOK
<1>6. CASE mpc \notin {"kick", "wait"}
  <2>1. AtRest'
    BY <1>5, <1>6 DEF IInv
  <2>2. OneReader'
    BY <2>1 DEF AtRest, OneReader, ReaderPcs
  <2>. QED
    BY <1>1, <1>3, <1>6, <2>1, <2>2 DEF IInv
<1>7. CASE mpc \in {"kick", "wait"}
  <2>1. Running /\ OneReader
    BY <1>7 DEF IInv
  <2>2. Running'
    BY <2>1, RunningStep
  <2>3. ASSUME NEW u \in Threads, pc[u] = "spawn" PROVE pc[numStarted] = "none"
    <3>1. numStarted \in Threads /\ numStarted >= numStarted
      BY <2>1, <2>3, RingSize DEF Running, Threads
    <3>2. \A v \in Threads : pc[v] # "count"
      BY <2>1, <2>3 DEF OneReader, ReaderPcs
    <3>. QED
      BY <2>1, <3>1, <3>2 DEF Running, JustStarted
  <2>4. OneReader'
    BY <2>1, <2>3, OneReaderStep
  <2>5. mpc = "kick" => ~readEvent' /\ \A u \in Threads : pc'[u] \in {"none", "idle", "read"}
    <3>. SUFFICES ASSUME mpc = "kick"
                  PROVE  ~readEvent' /\ \A u \in Threads : pc'[u] \in {"none", "idle", "read"}
      OBVIOUS
    <3>1. ~readEvent /\ \A u \in Threads : pc[u] \in {"none", "idle", "read"} /\ ~stop[u]
      BY <2>1 DEF IInv, Running
    <3>2. WaitStart(t)
      BY <3>1 DEF Thread, WaitStart, CountExit, CompareExit, WaitRead, PassOn,
         CheckError, ReadBlock, AcquireSlot, ClaimSlot, Spawn, CountStarted,
         UnlockRead, TakeBuffer, Code, RecordBlock, BecomeWriter, LeaveReady,
         WriteBlock, AdvanceWriter, ReleaseSlot, LoadBlock
    <3>. QED
      BY <3>1, <3>2 DEF WaitStart, TypeOK
  <2>6. finishedEvent' => AtRest'
    <3>1. CASE finishedEvent
      BY <1>5, <3>1 DEF IInv
    <3>2. CASE ~finishedEvent /\ ~CompareExit(t)
      <4>1. UNCHANGED finishedEvent
        BY <3>2 DEF Thread, WaitStart, CountExit, CompareExit, WaitRead, PassOn,
           CheckError, ReadBlock, AcquireSlot, ClaimSlot, Spawn, CountStarted,
           UnlockRead, TakeBuffer, Code, RecordBlock, BecomeWriter, LeaveReady,
           WriteBlock, AdvanceWriter, ReleaseSlot, LoadBlock
      <4>. QED
        BY <3>2, <4>1
    <3>3. CASE ~finishedEvent /\ CompareExit(t)
      BY <1>5, <2>1, <3>3, LastOut DEF CompareExit, AllOut
    <3>. QED
      BY <3>1, <3>2, <3>3
  <2>. QED
    BY <1>1, <1>3, <1>7, <2>2, <2>4, <2>5, <2>6 DEF IInv
<1>. QED
  BY <1>6, <1>7

LEMMA MainStep ==
  ASSUME OneCall, TypeOK, TypeOK', IInv, Main
  PROVE  IInv'
<1>. USE DEF TypeOK, AutoReset, callVars, eventVars, resVars, readerVars, ringVars, bufVars
<1>0. 0 \in Threads /\ NumThreads \in Nat /\ NumThreads >= 1
  BY RingSize DEF Threads
<1>1. CASE MainInit
  <2>1. call = 0
    BY <1>1, ConstantsAssumption DEF MainInit, OneCall
  <2>2. Fresh /\ Fresh'
    BY <1>1, <2>1 DEF MainInit, IInv, Fresh
  <2>. QED
    BY <1>1, <2>1, <2>2, ConstantsAssumption
    DEF MainInit, IInv, Fresh, AtRest, OneReader, ReaderPcs
<1>2. CASE MainCreate
  <2>1. Fresh /\ numStarted = 1 /\ numFinished = 0 /\ ~readEvent /\ ~finishedEvent
        /\ mpc = "create" /\ call # 0
    BY <1>2 DEF MainCreate, IInv
  <2>2. CASE mpc' = "ready"
    BY <1>2, <2>1, <2>2 DEF MainCreate, IInv, Fresh, AtRest, OneReader, ReaderPcs
  <2>3. CASE mpc' = "kick"
    <3>1. /\ pc' = [pc EXCEPT ![0] = "idle"]
          /\ startEvent' = [startEvent EXCEPT ![0] = TRUE]
          /\ stop' = [stop EXCEPT ![0] = FALSE]
          /\ UNCHANGED <<call, readEvent, finishedEvent, numStarted, numFinished, local>>
      BY <1>0, <1>2, <2>1, <2>3 DEF MainCreate, CreateAndStart, Fresh
    <3>2. Done' = {}
      BY <2>1, <3>1 DEF Done, Fresh
    <3>3. Cardinality(Done') = 0
      BY <3>2, FS_EmptySet
    <3>4. Running'
      BY <1>0, <2>1, <3>1, <3>3 DEF Running, Fresh, Threads
    <3>. QED
      BY <2>1, <2>3, <3>1, <3>4 DEF IInv, OneReader, ReaderPcs, Fresh
  <2>. QED
    BY <1>2, <2>2, <2>3 DEF MainCreate
<1>3. CASE MainKick
  BY <1>3 DEF MainKick, IInv, OneReader, ReaderPcs, Running, Done, JustStarted, AtRest
<1>4. CASE MainWake
  BY <1>4 DEF MainWake, IInv, OneReader, AtRest, Fresh
<1>5. CASE MainCollect
  BY <1>5 DEF MainCollect, IInv, OneReader, AtRest, Fresh
<1>6. CASE MainDestruct
  BY <1>6 DEF MainDestruct, IInv, OneReader, AtRest, Fresh
<1>7. CASE MainFree
  <2>1. AtRest /\ OneReader /\ mpc' \in {"free", "join"}
    BY <1>7 DEF MainFree, IInv
  <2>2. /\ UNCHANGED <<pc, call, readEvent, finishedEvent>>
        /\ \/ UNCHANGED <<startEvent, stop>>
           \/ /\ startEvent' = [startEvent EXCEPT ![freeIdx] = TRUE]
              /\ stop' = [stop EXCEPT ![freeIdx] = TRUE]
    BY <1>7 DEF MainFree
  <2>3. AtRest'
    BY <2>1, <2>2 DEF AtRest
  <2>4. OneReader'
    BY <2>3 DEF AtRest, OneReader, ReaderPcs
  <2>5. call = 0 => Fresh' /\ mpc' = "free"
    BY <1>0, <1>7 DEF MainFree, IInv, Fresh, Threads
  <2>. QED
    BY <2>1, <2>2, <2>3, <2>4, <2>5 DEF IInv
<1>8. CASE MainJoin
  BY <1>8 DEF MainJoin, IInv, OneReader, ReaderPcs, AtRest, Fresh, Threads
<1>9. CASE MainFreed
  BY <1>9 DEF MainFreed, IInv, OneReader, AtRest, Fresh
<1>. QED
  BY <1>1, <1>2, <1>3, <1>4, <1>5, <1>6, <1>7, <1>8, <1>9 DEF Main

THEOREM Invariant == ASSUME OneCall PROVE Spec => []IInv
<1>1. Init => IInv
  BY DEF Init, IInv, Fresh, AtRest, OneReader, ReaderPcs
<1>2. TypeOK /\ TypeOK' /\ IInv /\ [Next]_vars => IInv'
  <2>. SUFFICES ASSUME TypeOK, TypeOK', IInv, [Next]_vars PROVE IInv'
    OBVIOUS
  <2>1. CASE UNCHANGED vars
    BY <2>1 DEF vars, callVars, eventVars, readerVars, IInv, Fresh, AtRest,
       OneReader, Running, Done, JustStarted
  <2>. QED
    BY <2>1, MainStep, ThreadStep DEF Next, Terminated
<1>. QED
  BY <1>1, <1>2, Typing, PTL DEF Spec

(* At most one worker at a time is between Event_Wait and Event_Set of         *)
(* readEvent.                                                                  *)
THEOREM ReaderExclusion == ASSUME OneCall PROVE Spec => []OneReader
<1>1. IInv => OneReader
  BY DEF IInv
<1>. QED
  BY <1>1, Invariant, PTL

(* The caller is woken only when every thread has left ThreadFunc2.            *)
THEOREM FinishedIsDone == ASSUME OneCall PROVE Spec => []FinishedMeansDone
<1>1. IInv => FinishedMeansDone
  BY DEF IInv, AtRest, FinishedMeansDone
<1>. QED
  BY <1>1, Invariant, PTL

-----------------------------------------------------------------------------
(* The ring of slots: those in use are consecutive, each is ready or with one   *)
(* thread, and a writer is at the first of them.                                *)

\* How far slot s is from slot f along the ring, and the slot that is d slots on from f.
Dist(f, s) == IF s >= f THEN s - f ELSE s - f + NumBlocksMax
At(f, d)   == IF f + d >= NumBlocksMax THEN f + d - NumBlocksMax ELSE f + d

\* The slots that are claimed and not yet passed by a writer are counted by what is missing
\* in the semaphore, less the threads that have acquired one and not claimed it, or have
\* passed one and not released it.
AtClaim   == {t \in Threads : pc[t] = "claim"}
AtRelease == {t \in Threads : pc[t] = "release"}
Claimed   == NumBlocksMax - semaphore - Cardinality(AtClaim) - Cardinality(AtRelease)

\* The threads that have a slot of their own, and which.
Coding     == {"spawn", "count", "unlock", "take", "code", "record", "publish"}
HasSlot(t) == pc[t] \in Coding \/ Writing(t)
SlotOf(t)  == IF pc[t] \in Coding THEN local[t].bi ELSE local[t].wi

\* The slots in use are those from f on, as many as are claimed, each ready or with one
\* thread; a writer is at the first of them, and only when nobody writes has it a name.
InUse(f) ==
  /\ Claimed \in 0 .. NumBlocksMax
  /\ blockIndex = At(f, Claimed)
  /\ \A s \in Slots : Dist(f, s) < Claimed
                        <=> readyBlocks[s] \/ \E t \in Threads : HasSlot(t) /\ SlotOf(t) = s
  /\ \A t \in Threads : HasSlot(t) => ~readyBlocks[SlotOf(t)]
  /\ \A t, u \in Threads : HasSlot(t) /\ HasSlot(u) /\ t # u => SlotOf(t) # SlotOf(u)
AtFront(f) ==
  /\ writeIndex = f \/ (writeIndex = None /\ \E t \in Threads : Writing(t))
  /\ \A t \in Threads : Writing(t) => local[t].wi = f
  /\ writeIndex = f => ~readyBlocks[f]
Ring(f) == InUse(f) /\ AtFront(f) /\ OneWriter

LEMMA DistFacts ==
  ASSUME NEW f \in Slots
  PROVE  /\ \A s \in Slots : Dist(f, s) \in Int /\ 0 <= Dist(f, s) /\ Dist(f, s) < NumBlocksMax
         /\ Dist(f, f) = 0
         /\ \A s, u \in Slots : Dist(f, s) = Dist(f, u) => s = u
         /\ NextSlot(f) \in Slots /\ NextSlot(f) # f
         /\ \A s \in Slots : s # f => Dist(NextSlot(f), s) = Dist(f, s) - 1
         /\ Dist(NextSlot(f), f) = NumBlocksMax - 1
<1>1. /\ NumBlocksMax \in Nat /\ NumBlocksMax >= 2
      /\ \A s \in Slots : s \in Int /\ 0 <= s /\ s < NumBlocksMax
      /\ \A s \in Int : 0 <= s /\ s < NumBlocksMax => s \in Slots
  BY RingSize DEF Slots
<1>2. \A s \in Slots : Dist(f, s) \in Int /\ 0 <= Dist(f, s) /\ Dist(f, s) < NumBlocksMax
  BY <1>1 DEF Dist
<1>3. Dist(f, f) = 0
  BY <1>1 DEF Dist
<1>4. \A s, u \in Slots : Dist(f, s) = Dist(f, u) => s = u
  BY <1>1 DEF Dist
<1>5. NextSlot(f) \in Slots /\ NextSlot(f) # f
  BY <1>1 DEF NextSlot
<1>6. \A s \in Slots : s # f => Dist(NextSlot(f), s) = Dist(f, s) - 1
  BY <1>1 DEF Dist, NextSlot
<1>7. Dist(NextSlot(f), f) = NumBlocksMax - 1
  BY <1>1 DEF Dist, NextSlot
<1>. QED
  BY <1>2, <1>3, <1>4, <1>5, <1>6, <1>7

LEMMA AtFacts ==
  ASSUME NEW f \in Slots, NEW d \in 0 .. NumBlocksMax
  PROVE  /\ At(f, d) \in Slots
         /\ At(f, 0) = f
         /\ d < NumBlocksMax => /\ Dist(f, At(f, d)) = d
                                /\ NextSlot(At(f, d)) = At(f, d + 1)
         /\ d > 0 => At(NextSlot(f), d - 1) = At(f, d)
<1>1. /\ NumBlocksMax \in Nat /\ NumBlocksMax >= 2 /\ f \in Int /\ 0 <= f /\ f < NumBlocksMax
      /\ d \in Int /\ 0 <= d /\ d <= NumBlocksMax
      /\ \A s \in Int : 0 <= s /\ s < NumBlocksMax => s \in Slots
  BY RingSize DEF Slots
<1>2. At(f, d) \in Slots /\ At(f, 0) = f
  BY <1>1 DEF At
<1>3. d < NumBlocksMax => Dist(f, At(f, d)) = d /\ NextSlot(At(f, d)) = At(f, d + 1)
  BY <1>1 DEF At, Dist, NextSlot
<1>4. d > 0 => At(NextSlot(f), d - 1) = At(f, d)
  BY <1>1 DEF At, NextSlot
<1>. QED
  BY <1>2, <1>3, <1>4

\* A set that gains or loses one element at most.
LEMMA OneChange ==
  ASSUME NEW S, NEW T, NEW x, IsFiniteSet(S), \A u : u # x => (u \in T <=> u \in S)
  PROVE  /\ IsFiniteSet(T)
         /\ Cardinality(T) = Cardinality(S) + (IF x \in T THEN 1 ELSE 0)
                                            - (IF x \in S THEN 1 ELSE 0)
         /\ Cardinality(S) \in Nat /\ Cardinality(T) \in Nat
<1>1. Cardinality(S) \in Nat
  BY FS_CardinalityType
<1>2. CASE x \in T
  <2>1. T = S \cup {x}
    BY <1>2
  <2>. QED
    BY <1>1, <1>2, <2>1, FS_AddElement, FS_CardinalityType
<1>3. CASE x \notin T
  <2>1. T = S \ {x}
    BY <1>3
  <2>. QED
    BY <1>1, <1>3, <2>1, FS_RemoveElement, FS_CardinalityType
<1>. QED
  BY <1>2, <1>3

\* A worker moves itself only; another one may be created.
LEMMA Others ==
  ASSUME TypeOK, NEW t \in Threads, Thread(t)
  PROVE  \A u \in Threads : u # t =>
           /\ pc'[u] = pc[u] \/ (pc[u] = "none" /\ pc'[u] = "idle")
           /\ local'[u] = local[u]
<1>. USE DEF TypeOK, Goto, callVars, eventVars, resVars, readerVars, ringVars, bufVars
<1>1. CASE WaitStart(t)
  BY <1>1 DEF WaitStart
<1>2. CASE CountExit(t)
  BY <1>2 DEF CountExit
<1>3. CASE CompareExit(t)
  BY <1>3 DEF CompareExit
<1>4. CASE WaitRead(t)
  BY <1>4 DEF WaitRead
<1>5. CASE PassOn(t)
  BY <1>5 DEF PassOn
<1>6. CASE CheckError(t)
  BY <1>6 DEF CheckError
<1>7. CASE ReadBlock(t)
  BY <1>7 DEF ReadBlock
<1>8. CASE AcquireSlot(t)
  BY <1>8 DEF AcquireSlot
<1>9. CASE ClaimSlot(t)
  BY <1>9 DEF ClaimSlot
<1>10. CASE Spawn(t)
  BY <1>10 DEF Spawn
<1>11. CASE CountStarted(t)
  BY <1>11 DEF CountStarted
<1>12. CASE UnlockRead(t)
  BY <1>12 DEF UnlockRead
<1>13. CASE TakeBuffer(t)
  BY <1>13 DEF TakeBuffer
<1>14. CASE Code(t)
  BY <1>14 DEF Code
<1>15. CASE RecordBlock(t)
  BY <1>15 DEF RecordBlock
<1>16. CASE BecomeWriter(t)
  BY <1>16 DEF BecomeWriter
<1>17. CASE LeaveReady(t)
  BY <1>17 DEF LeaveReady
<1>18. CASE WriteBlock(t)
  BY <1>18 DEF WriteBlock
<1>19. CASE AdvanceWriter(t)
  BY <1>19 DEF AdvanceWriter
<1>20. CASE ReleaseSlot(t)
  BY <1>20 DEF ReleaseSlot
<1>21. CASE LoadBlock(t)
  BY <1>21 DEF LoadBlock
<1>. QED
  BY <1>1, <1>2, <1>3, <1>4, <1>5, <1>6, <1>7, <1>8, <1>9, <1>10, <1>11,
     <1>12, <1>13, <1>14, <1>15, <1>16, <1>17, <1>18, <1>19, <1>20, <1>21 DEF Thread

LEMMA FiniteAt == IsFiniteSet(AtClaim) /\ IsFiniteSet(AtRelease)
<1>1. AtClaim \subseteq Threads /\ AtRelease \subseteq Threads
  BY DEF AtClaim, AtRelease
<1>. QED
  BY <1>1, FiniteDone, FS_Subset

\* Claiming a slot adds one to the slots in use, passing one takes it away.
LEMMA Counts ==
  ASSUME TypeOK, TypeOK', NEW t \in Threads, Thread(t)
  PROVE  /\ Claimed \in Int
         /\ Claimed' = IF pc[t] = "claim" THEN Claimed + 1
                       ELSE IF pc[t] = "advance" THEN Claimed - 1 ELSE Claimed
         /\ pc[t] = "claim" => Claimed < NumBlocksMax
<1>. DEFINE in(p, q) == IF p = q THEN 1 ELSE 0
<1>a. /\ Cardinality(AtClaim') = Cardinality(AtClaim) + in(pc'[t], "claim") - in(pc[t], "claim")
      /\ Cardinality(AtClaim) \in Nat /\ Cardinality(AtClaim') \in Nat
  <2>1. \A u : u # t => (u \in AtClaim' <=> u \in AtClaim)
    BY Others DEF AtClaim
  <2>2. (t \in AtClaim' <=> pc'[t] = "claim") /\ (t \in AtClaim <=> pc[t] = "claim")
    BY DEF AtClaim
  <2>. QED
    BY <2>1, <2>2, FiniteAt, OneChange
<1>b. /\ Cardinality(AtRelease') = Cardinality(AtRelease) + in(pc'[t], "release") - in(pc[t], "release")
      /\ Cardinality(AtRelease) \in Nat /\ Cardinality(AtRelease') \in Nat
  <2>1. \A u : u # t => (u \in AtRelease' <=> u \in AtRelease)
    BY Others DEF AtRelease
  <2>2. (t \in AtRelease' <=> pc'[t] = "release") /\ (t \in AtRelease <=> pc[t] = "release")
    BY DEF AtRelease
  <2>. QED
    BY <2>1, <2>2, FiniteAt, OneChange
<1>c. semaphore \in Nat /\ semaphore' \in Nat /\ NumBlocksMax \in Nat /\ pc \in [Threads -> Pcs]
  BY RingSize DEF TypeOK
<1>d. pc[t] = "claim" => Cardinality(AtClaim) >= 1
  <2>1. pc[t] = "claim" => AtClaim # {}
    BY DEF AtClaim
  <2>. QED
    BY <1>a, <2>1, FiniteAt, FS_EmptySet
<1>e. /\ Claimed = NumBlocksMax - semaphore - Cardinality(AtClaim) - Cardinality(AtRelease)
      /\ Claimed' = NumBlocksMax - semaphore' - Cardinality(AtClaim') - Cardinality(AtRelease')
  BY DEF Claimed
<1>f. Claimed \in Int /\ Claimed' \in Int /\ (pc[t] = "claim" => Claimed < NumBlocksMax)
  BY <1>a, <1>b, <1>c, <1>d, <1>e
<1>g. Claimed' = Claimed + semaphore - semaphore' + in(pc[t], "claim") - in(pc'[t], "claim")
                         + in(pc[t], "release") - in(pc'[t], "release")
  BY <1>a, <1>b, <1>c, <1>e
<1>h. SUFFICES Claimed' = IF pc[t] = "claim" THEN Claimed + 1
                          ELSE IF pc[t] = "advance" THEN Claimed - 1 ELSE Claimed
  BY <1>f
<1>. HIDE DEF in
<1>i. \A p, q : in(p, q) = IF p = q THEN 1 ELSE 0
  BY DEF in
<1>. USE DEF Goto, Released, callVars, eventVars, resVars, readerVars, ringVars, bufVars
<1>1. CASE WaitStart(t)
  BY <1>1, <1>c, <1>f, <1>g, <1>i DEF WaitStart
<1>2. CASE CountExit(t)
  BY <1>2, <1>c, <1>f, <1>g, <1>i DEF CountExit
<1>3. CASE CompareExit(t)
  BY <1>3, <1>c, <1>f, <1>g, <1>i DEF CompareExit
<1>4. CASE WaitRead(t)
  BY <1>4, <1>c, <1>f, <1>g, <1>i DEF WaitRead
<1>5. CASE PassOn(t)
  BY <1>5, <1>c, <1>f, <1>g, <1>i DEF PassOn
<1>6. CASE CheckError(t)
  BY <1>6, <1>c, <1>f, <1>g, <1>i DEF CheckError
<1>7. CASE ReadBlock(t)
  BY <1>7, <1>c, <1>f, <1>g, <1>i DEF ReadBlock
<1>8. CASE AcquireSlot(t)
  BY <1>8, <1>c, <1>f, <1>g, <1>i DEF AcquireSlot
<1>9. CASE ClaimSlot(t)
  BY <1>9, <1>c, <1>f, <1>g, <1>i DEF ClaimSlot
<1>10. CASE Spawn(t)
  BY <1>10, <1>c, <1>f, <1>g, <1>i DEF Spawn
<1>11. CASE CountStarted(t)
  BY <1>11, <1>c, <1>f, <1>g, <1>i DEF CountStarted
<1>12. CASE UnlockRead(t)
  BY <1>12, <1>c, <1>f, <1>g, <1>i DEF UnlockRead
<1>13. CASE TakeBuffer(t)
  BY <1>13, <1>c, <1>f, <1>g, <1>i DEF TakeBuffer
<1>14. CASE Code(t)
  BY <1>14, <1>c, <1>f, <1>g, <1>i DEF Code
<1>15. CASE RecordBlock(t)
  BY <1>15, <1>c, <1>f, <1>g, <1>i DEF RecordBlock
<1>16. CASE BecomeWriter(t)
  BY <1>16, <1>c, <1>f, <1>g, <1>i DEF BecomeWriter
<1>17. CASE LeaveReady(t)
  BY <1>17, <1>c, <1>f, <1>g, <1>i DEF LeaveReady
<1>18. CASE WriteBlock(t)
  BY <1>18, <1>c, <1>f, <1>g, <1>i DEF WriteBlock
<1>19. CASE AdvanceWriter(t)
  BY <1>19, <1>c, <1>f, <1>g, <1>i DEF AdvanceWriter
<1>20. CASE ReleaseSlot(t)
  <2>1. pc'[t] = "load" \/ pc'[t] = "exit" \/ pc'[t] = "read"
    BY <1>20, <1>c DEF ReleaseSlot
  <2>2. pc[t] = "release" /\ semaphore' = semaphore + 1
    BY <1>20 DEF ReleaseSlot
  <2>. QED
    BY <1>c, <1>f, <1>g, <1>i, <2>1, <2>2
<1>21. CASE LoadBlock(t)
  BY <1>21, <1>c, <1>f, <1>g, <1>i DEF LoadBlock
<1>. QED
  BY <1>1, <1>2, <1>3, <1>4, <1>5, <1>6, <1>7, <1>8, <1>9, <1>10, <1>11,
     <1>12, <1>13, <1>14, <1>15, <1>16, <1>17, <1>18, <1>19, <1>20, <1>21 DEF Thread

\* The slots in use are the same when no slot is claimed or passed and no thread changes its
\* slot.
LEMMA InUseSame ==
  ASSUME NEW f \in Slots, InUse(f), UNCHANGED <<Claimed, blockIndex, readyBlocks>>,
         \A u \in Threads : /\ HasSlot(u)' <=> HasSlot(u)
                            /\ HasSlot(u) => SlotOf(u)' = SlotOf(u)
  PROVE  InUse(f)'
<1>1. /\ Claimed' \in 0 .. NumBlocksMax /\ blockIndex' = At(f, Claimed')
      /\ \A s : Dist(f, s) < Claimed' <=> Dist(f, s) < Claimed
  BY DEF InUse
<1>2. \A s \in Slots : (\E u \in Threads : HasSlot(u)' /\ SlotOf(u)' = s)
                       <=> (\E u \in Threads : HasSlot(u) /\ SlotOf(u) = s)
  OBVIOUS
<1>3. \A s \in Slots : Dist(f, s) < Claimed'
        <=> readyBlocks'[s] \/ \E u \in Threads : HasSlot(u)' /\ SlotOf(u)' = s
  BY <1>1, <1>2 DEF InUse
<1>4. \A u \in Threads : HasSlot(u)' => ~readyBlocks'[SlotOf(u)']
  BY DEF InUse
<1>5. \A u, v \in Threads : HasSlot(u)' /\ HasSlot(v)' /\ u # v => SlotOf(u)' # SlotOf(v)'
  BY DEF InUse
<1>. QED
  BY <1>1, <1>3, <1>4, <1>5 DEF InUse

LEMMA AtFrontSame ==
  ASSUME NEW f \in Slots, AtFront(f), OneWriter, UNCHANGED <<writeIndex, readyBlocks>>,
         \A u \in Threads : /\ Writing(u)' <=> Writing(u)
                            /\ Writing(u) => local'[u].wi = local[u].wi
  PROVE  AtFront(f)' /\ OneWriter'
<1>1. AtFront(f)'
  BY DEF AtFront
<1>2. OneWriter'
  BY DEF OneWriter
<1>. QED
  BY <1>1, <1>2

\* A step of a worker that neither claims, hands over nor passes a slot.
LEMMA RingSame ==
  ASSUME TypeOK, NEW t \in Threads, Thread(t), NEW f \in Slots, Ring(f),
         UNCHANGED <<Claimed, blockIndex, readyBlocks, writeIndex>>,
         pc'[t] \in Coding <=> pc[t] \in Coding, Writing(t)' <=> Writing(t),
         local'[t].wi = local[t].wi,
         pc[t] \in Coding => local'[t].bi = local[t].bi
  PROVE  Ring(f)'
<1>1. \A u \in Threads : pc'[u] \in Coding <=> pc[u] \in Coding
  BY Others DEF Coding
<1>2. \A u \in Threads : Writing(u)' <=> Writing(u)
  BY Others DEF Writing
<1>3. \A u \in Threads : HasSlot(u)' <=> HasSlot(u)
  BY <1>1, <1>2 DEF HasSlot
<1>4. \A u \in Threads : local'[u].wi = local[u].wi /\ (pc[u] \in Coding => local'[u].bi = local[u].bi)
  BY Others
<1>5. \A u \in Threads : HasSlot(u) => SlotOf(u)' = SlotOf(u)
  BY <1>1, <1>4 DEF SlotOf
<1>6. InUse(f)'
  BY <1>3, <1>5, InUseSame DEF Ring
<1>7. AtFront(f)' /\ OneWriter'
  BY <1>2, <1>4, AtFrontSame DEF Ring
<1>. QED
  BY <1>6, <1>7 DEF Ring

\* Every step of a worker keeps the ring; a writer that passes its slot moves the front.
LEMMA RingStep ==
  ASSUME TypeOK, TypeOK', NEW t \in Threads, Thread(t), NEW f \in Slots, Ring(f)
  PROVE  IF pc[t] = "advance" THEN Ring(NextSlot(f))' ELSE Ring(f)'
<1>a. /\ Claimed' = IF pc[t] = "claim" THEN Claimed + 1
                    ELSE IF pc[t] = "advance" THEN Claimed - 1 ELSE Claimed
  BY Counts
<1>b. \A u \in Threads : u # t =>
        /\ Writing(u)' <=> Writing(u)
        /\ local'[u].wi = local[u].wi
  BY Others DEF Writing
<1>c. \A u \in Threads : u # t =>
        /\ HasSlot(u)' <=> HasSlot(u)
        /\ HasSlot(u) => SlotOf(u)' = SlotOf(u)
  BY Others DEF HasSlot, SlotOf, Coding, Writing
<1>. USE DEF Goto, callVars, eventVars, resVars, readerVars, ringVars, bufVars
<1>1. CASE WaitStart(t)
  <2>1. /\ pc'[t] \in Coding <=> pc[t] \in Coding
        /\ Writing(t)' <=> Writing(t)
        /\ local'[t].wi = local[t].wi /\ local'[t].bi = local[t].bi
        /\ UNCHANGED <<blockIndex, readyBlocks, writeIndex>>
        /\ pc[t] # "claim" /\ pc[t] # "advance"
    BY <1>1 DEF WaitStart, Coding, Writing, TypeOK, LocalType
  <2>. QED
    BY <1>a, <2>1, RingSame
<1>2. CASE CountExit(t)
  <2>1. /\ pc'[t] \in Coding <=> pc[t] \in Coding
        /\ Writing(t)' <=> Writing(t)
        /\ local'[t].wi = local[t].wi /\ local'[t].bi = local[t].bi
        /\ UNCHANGED <<blockIndex, readyBlocks, writeIndex>>
        /\ pc[t] # "claim" /\ pc[t] # "advance"
    BY <1>2 DEF CountExit, Coding, Writing, TypeOK, LocalType
  <2>. QED
    BY <1>a, <2>1, RingSame
<1>3. CASE CompareExit(t)
  <2>1. /\ pc'[t] \in Coding <=> pc[t] \in Coding
        /\ Writing(t)' <=> Writing(t)
        /\ local'[t].wi = local[t].wi /\ local'[t].bi = local[t].bi
        /\ UNCHANGED <<blockIndex, readyBlocks, writeIndex>>
        /\ pc[t] # "claim" /\ pc[t] # "advance"
    BY <1>3 DEF CompareExit, Coding, Writing, TypeOK, LocalType
  <2>. QED
    BY <1>a, <2>1, RingSame
<1>4. CASE WaitRead(t)
  <2>1. /\ pc'[t] \in Coding <=> pc[t] \in Coding
        /\ Writing(t)' <=> Writing(t)
        /\ local'[t].wi = local[t].wi /\ local'[t].bi = local[t].bi
        /\ UNCHANGED <<blockIndex, readyBlocks, writeIndex>>
        /\ pc[t] # "claim" /\ pc[t] # "advance"
    BY <1>4 DEF WaitRead, Coding, Writing, TypeOK, LocalType
  <2>. QED
    BY <1>a, <2>1, RingSame
<1>5. CASE PassOn(t)
  <2>1. /\ pc'[t] \in Coding <=> pc[t] \in Coding
        /\ Writing(t)' <=> Writing(t)
        /\ local'[t].wi = local[t].wi /\ local'[t].bi = local[t].bi
        /\ UNCHANGED <<blockIndex, readyBlocks, writeIndex>>
        /\ pc[t] # "claim" /\ pc[t] # "advance"
    BY <1>5 DEF PassOn, Coding, Writing, TypeOK, LocalType
  <2>. QED
    BY <1>a, <2>1, RingSame
<1>6. CASE CheckError(t)
  <2>1. /\ pc'[t] \in Coding <=> pc[t] \in Coding
        /\ Writing(t)' <=> Writing(t)
        /\ local'[t].wi = local[t].wi /\ local'[t].bi = local[t].bi
        /\ UNCHANGED <<blockIndex, readyBlocks, writeIndex>>
        /\ pc[t] # "claim" /\ pc[t] # "advance"
    BY <1>6 DEF CheckError, Coding, Writing, TypeOK, LocalType
  <2>. QED
    BY <1>a, <2>1, RingSame
<1>7. CASE ReadBlock(t)
  <2>1. /\ pc'[t] \in Coding <=> pc[t] \in Coding
        /\ Writing(t)' <=> Writing(t)
        /\ local'[t].wi = local[t].wi /\ local'[t].bi = local[t].bi
        /\ UNCHANGED <<blockIndex, readyBlocks, writeIndex>>
        /\ pc[t] # "claim" /\ pc[t] # "advance"
    BY <1>7 DEF ReadBlock, Coding, Writing, TypeOK, LocalType
  <2>. QED
    BY <1>a, <2>1, RingSame
<1>8. CASE AcquireSlot(t)
  <2>1. /\ pc'[t] \in Coding <=> pc[t] \in Coding
        /\ Writing(t)' <=> Writing(t)
        /\ local'[t].wi = local[t].wi /\ local'[t].bi = local[t].bi
        /\ UNCHANGED <<blockIndex, readyBlocks, writeIndex>>
        /\ pc[t] # "claim" /\ pc[t] # "advance"
    BY <1>8 DEF AcquireSlot, Coding, Writing, TypeOK, LocalType
  <2>. QED
    BY <1>a, <2>1, RingSame
<1>9. CASE ClaimSlot(t)
  <2>1. /\ pc[t] = "claim" /\ pc'[t] \in {"spawn", "unlock"}
        /\ local'[t].bi = blockIndex /\ local'[t].wi = local[t].wi
        /\ blockIndex' = NextSlot(blockIndex) /\ UNCHANGED <<readyBlocks, writeIndex>>
    BY <1>9 DEF ClaimSlot, TypeOK, LocalType
  <2>2. /\ Claimed' = Claimed + 1 /\ Claimed < NumBlocksMax /\ Claimed \in 0 .. NumBlocksMax
        /\ blockIndex = At(f, Claimed)
    BY <1>a, <2>1, Counts DEF Ring, InUse
  <2>3. /\ Dist(f, blockIndex) = Claimed /\ blockIndex' = At(f, Claimed')
        /\ Claimed' \in 0 .. NumBlocksMax
    BY <2>1, <2>2, AtFacts, RingSize
  <2>4. /\ ~HasSlot(t) /\ HasSlot(t)' /\ SlotOf(t)' = blockIndex
        /\ ~Writing(t) /\ ~Writing(t)'
    BY <2>1 DEF HasSlot, SlotOf, Coding, Writing
  <2>5. AtFront(f)' /\ OneWriter'
    BY <1>b, <2>1, <2>4, AtFrontSame DEF Ring
  <2>6. ~(Dist(f, blockIndex) < Claimed) /\ blockIndex \in Slots
    BY <2>2, <2>3 DEF TypeOK
  <2>7. /\ ~readyBlocks[blockIndex]
        /\ \A u \in Threads : HasSlot(u) => SlotOf(u) # blockIndex
    BY <2>6 DEF Ring, InUse
  <2>8. ASSUME NEW s \in Slots
        PROVE  Dist(f, s) < Claimed'
                 <=> readyBlocks'[s] \/ \E u \in Threads : HasSlot(u)' /\ SlotOf(u)' = s
    <3>1. Dist(f, s) < Claimed' <=> Dist(f, s) < Claimed \/ s = blockIndex
      <4>1. s # blockIndex => Dist(f, s) # Claimed
        BY <2>3, <2>6, DistFacts
      <4>2. Dist(f, s) \in Int
        BY DistFacts
      <4>3. s = blockIndex => Dist(f, s) = Claimed
        BY <2>3
      <4>. QED
        BY <2>2, <4>1, <4>2, <4>3
    <3>2. (\E u \in Threads : HasSlot(u)' /\ SlotOf(u)' = s)
            <=> s = blockIndex \/ \E u \in Threads : HasSlot(u) /\ SlotOf(u) = s
      BY <1>c, <2>4
    <3>. QED
      BY <2>1, <3>1, <3>2 DEF Ring, InUse
  <2>9. \A u \in Threads : HasSlot(u)' => ~readyBlocks'[SlotOf(u)']
    BY <1>c, <2>1, <2>4, <2>7 DEF Ring, InUse
  <2>10. \A u, v \in Threads : HasSlot(u)' /\ HasSlot(v)' /\ u # v => SlotOf(u)' # SlotOf(v)'
    BY <1>c, <2>4, <2>7 DEF Ring, InUse
  <2>11. InUse(f)'
    BY <2>3, <2>8, <2>9, <2>10 DEF InUse
  <2>. QED
    BY <2>1, <2>5, <2>11 DEF Ring
<1>10. CASE Spawn(t)
  <2>1. /\ pc'[t] \in Coding <=> pc[t] \in Coding
        /\ Writing(t)' <=> Writing(t)
        /\ local'[t].wi = local[t].wi /\ local'[t].bi = local[t].bi
        /\ UNCHANGED <<blockIndex, readyBlocks, writeIndex>>
        /\ pc[t] # "claim" /\ pc[t] # "advance"
    BY <1>10 DEF Spawn, Coding, Writing, TypeOK, LocalType
  <2>. QED
    BY <1>a, <2>1, RingSame
<1>11. CASE CountStarted(t)
  <2>1. /\ pc'[t] \in Coding <=> pc[t] \in Coding
        /\ Writing(t)' <=> Writing(t)
        /\ local'[t].wi = local[t].wi /\ local'[t].bi = local[t].bi
        /\ UNCHANGED <<blockIndex, readyBlocks, writeIndex>>
        /\ pc[t] # "claim" /\ pc[t] # "advance"
    BY <1>11 DEF CountStarted, Coding, Writing, TypeOK, LocalType
  <2>. QED
    BY <1>a, <2>1, RingSame
<1>12. CASE UnlockRead(t)
  <2>1. /\ pc'[t] \in Coding <=> pc[t] \in Coding
        /\ Writing(t)' <=> Writing(t)
        /\ local'[t].wi = local[t].wi /\ local'[t].bi = local[t].bi
        /\ UNCHANGED <<blockIndex, readyBlocks, writeIndex>>
        /\ pc[t] # "claim" /\ pc[t] # "advance"
    BY <1>12 DEF UnlockRead, Coding, Writing, TypeOK, LocalType
  <2>. QED
    BY <1>a, <2>1, RingSame
<1>13. CASE TakeBuffer(t)
  <2>1. /\ pc'[t] \in Coding <=> pc[t] \in Coding
        /\ Writing(t)' <=> Writing(t)
        /\ local'[t].wi = local[t].wi /\ local'[t].bi = local[t].bi
        /\ UNCHANGED <<blockIndex, readyBlocks, writeIndex>>
        /\ pc[t] # "claim" /\ pc[t] # "advance"
    BY <1>13 DEF TakeBuffer, Coding, Writing, TypeOK, LocalType
  <2>. QED
    BY <1>a, <2>1, RingSame
<1>14. CASE Code(t)
  <2>1. /\ pc'[t] \in Coding <=> pc[t] \in Coding
        /\ Writing(t)' <=> Writing(t)
        /\ local'[t].wi = local[t].wi /\ local'[t].bi = local[t].bi
        /\ UNCHANGED <<blockIndex, readyBlocks, writeIndex>>
        /\ pc[t] # "claim" /\ pc[t] # "advance"
    BY <1>14 DEF Code, Coding, Writing, TypeOK, LocalType
  <2>. QED
    BY <1>a, <2>1, RingSame
<1>15. CASE RecordBlock(t)
  <2>1. /\ pc'[t] \in Coding <=> pc[t] \in Coding
        /\ Writing(t)' <=> Writing(t)
        /\ local'[t].wi = local[t].wi /\ local'[t].bi = local[t].bi
        /\ UNCHANGED <<blockIndex, readyBlocks, writeIndex>>
        /\ pc[t] # "claim" /\ pc[t] # "advance"
    BY <1>15 DEF RecordBlock, Coding, Writing, TypeOK, LocalType
  <2>. QED
    BY <1>a, <2>1, RingSame
<1>16. CASE BecomeWriter(t)
  <2>1. /\ pc[t] = "publish" /\ pc'[t] = "write"
        /\ local[t].bi = writeIndex /\ local'[t].wi = local[t].bi /\ local'[t].bi = local[t].bi
        /\ writeIndex' = None /\ UNCHANGED <<blockIndex, readyBlocks>>
    BY <1>16 DEF BecomeWriter, MyTurn, TypeOK, LocalType
  <2>2. writeIndex = f /\ writeIndex # None
    <3>1. local[t].bi \in Slots
      BY LocalFields DEF TypeOK
    <3>. QED
      BY <2>1, <3>1 DEF Ring, AtFront, Slots, None
  <2>3. \A u \in Threads : ~Writing(u)
    BY <2>2 DEF Ring, OneWriter
  <2>4. /\ Writing(t)' /\ HasSlot(t) /\ HasSlot(t)' /\ SlotOf(t) = f /\ SlotOf(t)' = f
    BY <2>1, <2>2 DEF HasSlot, SlotOf, Coding, Writing
  <2>5. InUse(f)'
    BY <1>a, <1>c, <2>1, <2>4, InUseSame DEF Ring
  <2>6. AtFront(f)'
    BY <1>b, <2>1, <2>2, <2>3, <2>4 DEF AtFront
  <2>7. OneWriter'
    BY <1>b, <2>1, <2>3 DEF OneWriter
  <2>. QED
    BY <2>1, <2>5, <2>6, <2>7 DEF Ring
<1>17. CASE LeaveReady(t)
  <2>1. /\ pc[t] = "publish" /\ pc'[t] \in {"exit", "read"}
        /\ local[t].bi # writeIndex /\ UNCHANGED <<blockIndex, writeIndex>>
        /\ readyBlocks' = [readyBlocks EXCEPT ![local[t].bi] = TRUE]
        /\ local[t].bi \in Slots
    BY <1>17, LocalFields DEF LeaveReady, MyTurn, TypeOK
  <2>2. /\ HasSlot(t) /\ ~HasSlot(t)' /\ SlotOf(t) = local[t].bi
        /\ ~Writing(t) /\ ~Writing(t)'
    BY <2>1 DEF HasSlot, SlotOf, Coding, Writing
  <2>3. \A s \in Slots : readyBlocks'[s] <=> readyBlocks[s] \/ s = local[t].bi
    BY <2>1 DEF TypeOK
  <2>4. Claimed' = Claimed
    BY <1>a, <2>1
  <2>5. ASSUME NEW s \in Slots
        PROVE  Dist(f, s) < Claimed'
                 <=> readyBlocks'[s] \/ \E u \in Threads : HasSlot(u)' /\ SlotOf(u)' = s
    <3>1. (\E u \in Threads : HasSlot(u) /\ SlotOf(u) = s)
            <=> s = local[t].bi \/ \E u \in Threads : HasSlot(u)' /\ SlotOf(u)' = s
      BY <1>c, <2>2
    <3>. QED
      BY <2>3, <2>4, <3>1 DEF Ring, InUse
  <2>6. \A u \in Threads : HasSlot(u)' => /\ ~readyBlocks'[SlotOf(u)'] /\ SlotOf(u)' = SlotOf(u)
                                          /\ HasSlot(u) /\ u # t
    <3>1. ASSUME NEW u \in Threads, HasSlot(u)'
          PROVE  u # t /\ HasSlot(u) /\ SlotOf(u)' = SlotOf(u)
      BY <1>c, <2>2, <3>1
    <3>2. ASSUME NEW u \in Threads, HasSlot(u), u # t
          PROVE  ~readyBlocks[SlotOf(u)] /\ SlotOf(u) # local[t].bi /\ SlotOf(u) \in Slots
      BY <2>2, <3>2, LocalFields DEF Ring, InUse, SlotOf, TypeOK
    <3>. QED
      BY <2>3, <3>1, <3>2
  <2>7. \A u, v \in Threads : HasSlot(u)' /\ HasSlot(v)' /\ u # v => SlotOf(u)' # SlotOf(v)'
    BY <2>6 DEF Ring, InUse
  <2>8. InUse(f)'
    BY <2>1, <2>4, <2>5, <2>6, <2>7 DEF Ring, InUse
  <2>9. AtFront(f)'
    <3>1. \A u \in Threads : (Writing(u)' <=> Writing(u)) /\ (Writing(u) => local'[u].wi = local[u].wi)
      BY <1>b, <2>2
    <3>2. writeIndex = f => ~readyBlocks'[f]
      BY <2>1, <2>3 DEF Ring, AtFront
    <3>. QED
      BY <2>1, <3>1, <3>2 DEF Ring, AtFront
  <2>10. OneWriter'
    BY <1>b, <2>1, <2>2 DEF Ring, OneWriter
  <2>. QED
    BY <2>1, <2>8, <2>9, <2>10 DEF Ring
<1>18. CASE WriteBlock(t)
  <2>1. /\ pc'[t] \in Coding <=> pc[t] \in Coding
        /\ Writing(t)' <=> Writing(t)
        /\ local'[t].wi = local[t].wi /\ local'[t].bi = local[t].bi
        /\ UNCHANGED <<blockIndex, readyBlocks, writeIndex>>
        /\ pc[t] # "claim" /\ pc[t] # "advance"
    BY <1>18 DEF WriteBlock, Coding, Writing, TypeOK, LocalType
  <2>. QED
    BY <1>a, <2>1, RingSame
<1>19. CASE AdvanceWriter(t)
  <2>. DEFINE g == NextSlot(f)
  <2>1. /\ pc[t] = "advance" /\ pc'[t] = "release" /\ UNCHANGED blockIndex
        /\ local[t].wi = f /\ writeIndex = None
        /\ \A u \in Threads : u # t => ~Writing(u)
    BY <1>19 DEF AdvanceWriter, Writing, Ring, AtFront, OneWriter, TypeOK
  <2>2. g \in Slots /\ g # f
    BY DistFacts
  <2>3. /\ local'[t].wi = g /\ local'[t].isReady = readyBlocks[g]
        /\ readyBlocks' = [readyBlocks EXCEPT ![g] = FALSE]
        /\ writeIndex' = IF readyBlocks[g] THEN None ELSE g
    BY <1>19, <2>1 DEF AdvanceWriter, NextWriteIndex, TypeOK, LocalType
  <2>4. \A s \in Slots : readyBlocks'[s] <=> readyBlocks[s] /\ s # g
    BY <2>2, <2>3 DEF TypeOK
  <2>5. /\ HasSlot(t) /\ SlotOf(t) = f /\ Writing(t)
        /\ HasSlot(t)' <=> readyBlocks[g]
        /\ Writing(t)' <=> readyBlocks[g]
        /\ SlotOf(t)' = g
    BY <2>1, <2>3 DEF HasSlot, SlotOf, Coding, Writing
  <2>6. /\ Claimed' = Claimed - 1 /\ Claimed \in 0 .. NumBlocksMax /\ Claimed > 0
        /\ Claimed' \in 0 .. NumBlocksMax /\ blockIndex = At(f, Claimed)
    <3>1. Dist(f, f) < Claimed /\ Dist(f, f) = 0
      BY <2>5, DistFacts DEF Ring, InUse
    <3>2. Claimed \in 0 .. NumBlocksMax /\ Claimed' = Claimed - 1 /\ NumBlocksMax \in Nat
      BY <1>a, <2>1, RingSize DEF Ring, InUse
    <3>3. blockIndex = At(f, Claimed)
      BY DEF Ring, InUse
    <3>. QED
      BY <3>1, <3>2, <3>3
  <2>7. blockIndex' = At(g, Claimed')
    BY <2>1, <2>6, AtFacts
  <2>8. \A s \in Slots : Dist(g, s) < Claimed' <=> s # f /\ Dist(f, s) < Claimed
    <3>1. ASSUME NEW s \in Slots, s # f PROVE Dist(g, s) < Claimed' <=> Dist(f, s) < Claimed
      BY <2>6, <3>1, DistFacts
    <3>2. ~(Dist(g, f) < Claimed')
      BY <2>6, DistFacts, RingSize
    <3>. QED
      BY <3>1, <3>2
  <2>9. /\ ~readyBlocks[f]
        /\ \A u \in Threads : u # t /\ HasSlot(u) =>
             SlotOf(u) # f /\ ~readyBlocks[SlotOf(u)] /\ SlotOf(u) \in Slots
    BY <2>5, LocalFields DEF Ring, InUse, SlotOf, TypeOK
  <2>10. ASSUME NEW s \in Slots
         PROVE  Dist(g, s) < Claimed'
                  <=> readyBlocks'[s] \/ \E u \in Threads : HasSlot(u)' /\ SlotOf(u)' = s
    <3>1. Dist(f, s) < Claimed <=> readyBlocks[s] \/ \E u \in Threads : HasSlot(u) /\ SlotOf(u) = s
      BY DEF Ring, InUse
    <3>2. CASE s = f
      <4>1. ~readyBlocks'[f] /\ \A u \in Threads : HasSlot(u)' => SlotOf(u)' # f
        BY <1>c, <2>2, <2>4, <2>5, <2>9
      <4>. QED
        BY <2>8, <3>2, <4>1
    <3>3. CASE s = g
      <4>1. (\E u \in Threads : HasSlot(u)' /\ SlotOf(u)' = g)
              <=> readyBlocks[g] \/ \E u \in Threads : HasSlot(u) /\ SlotOf(u) = g
        BY <1>c, <2>2, <2>5
      <4>. QED
        BY <2>2, <2>4, <2>8, <3>1, <3>3, <4>1
    <3>4. CASE s # f /\ s # g
      <4>1. (\E u \in Threads : HasSlot(u)' /\ SlotOf(u)' = s)
              <=> (\E u \in Threads : HasSlot(u) /\ SlotOf(u) = s)
        BY <1>c, <2>5, <3>4
      <4>. QED
        BY <2>4, <2>8, <3>1, <3>4, <4>1
    <3>. QED
      BY <3>2, <3>3, <3>4
  <2>11. \A u \in Threads : HasSlot(u)' => ~readyBlocks'[SlotOf(u)']
    <3>1. ASSUME NEW u \in Threads, u # t, HasSlot(u)' PROVE ~readyBlocks'[SlotOf(u)']
      BY <1>c, <2>4, <2>9, <3>1
    <3>2. ~readyBlocks'[SlotOf(t)']
      BY <2>2, <2>4, <2>5
    <3>. QED
      BY <3>1, <3>2
  <2>12. \A u, v \in Threads : HasSlot(u)' /\ HasSlot(v)' /\ u # v => SlotOf(u)' # SlotOf(v)'
    <3>1. ASSUME NEW u \in Threads, u # t, HasSlot(u)', HasSlot(t)' PROVE SlotOf(u)' # SlotOf(t)'
      BY <1>c, <2>5, <2>9, <3>1
    <3>2. ASSUME NEW u \in Threads, NEW v \in Threads, u # t, v # t, u # v, HasSlot(u)', HasSlot(v)'
          PROVE  SlotOf(u)' # SlotOf(v)'
      BY <1>c, <3>2 DEF Ring, InUse
    <3>. QED
      BY <3>1, <3>2
  <2>13. InUse(g)'
    BY <2>6, <2>7, <2>10, <2>11, <2>12 DEF InUse
  <2>14. AtFront(g)'
    <3>1. \A u \in Threads : Writing(u)' => u = t /\ readyBlocks[g]
      BY <1>b, <2>1, <2>5
    <3>2. writeIndex' = g => ~readyBlocks'[g]
      BY <2>2, <2>4
    <3>. QED
      BY <2>3, <2>5, <3>1, <3>2 DEF AtFront
  <2>15. OneWriter'
    <3>1. \A u \in Threads : Writing(u)' => u = t /\ readyBlocks[g]
      BY <1>b, <2>1, <2>5
    <3>. QED
      BY <2>3, <3>1 DEF OneWriter
  <2>. QED
    BY <2>1, <2>13, <2>14, <2>15 DEF Ring
<1>20. CASE ReleaseSlot(t)
  <2>1. /\ pc'[t] \in Coding <=> pc[t] \in Coding
        /\ Writing(t)' <=> Writing(t)
        /\ local'[t].wi = local[t].wi /\ local'[t].bi = local[t].bi
        /\ UNCHANGED <<blockIndex, readyBlocks, writeIndex>>
        /\ pc[t] # "claim" /\ pc[t] # "advance"
    BY <1>20 DEF ReleaseSlot, Coding, Writing, TypeOK, LocalType
  <2>. QED
    BY <1>a, <2>1, RingSame
<1>21. CASE LoadBlock(t)
  <2>1. /\ pc'[t] \in Coding <=> pc[t] \in Coding
        /\ Writing(t)' <=> Writing(t)
        /\ local'[t].wi = local[t].wi /\ local'[t].bi = local[t].bi
        /\ UNCHANGED <<blockIndex, readyBlocks, writeIndex>>
        /\ pc[t] # "claim" /\ pc[t] # "advance"
    BY <1>21 DEF LoadBlock, Coding, Writing, TypeOK, LocalType
  <2>. QED
    BY <1>a, <2>1, RingSame
<1>. QED
  BY <1>1, <1>2, <1>3, <1>4, <1>5, <1>6, <1>7, <1>8, <1>9, <1>10, <1>11,
     <1>12, <1>13, <1>14, <1>15, <1>16, <1>17, <1>18, <1>19, <1>20, <1>21 DEF Thread

LEMMA FiniteSlots == IsFiniteSet(Slots) /\ IsFiniteSet(Buffers)
  BY RingSize, FS_Interval DEF Slots, Buffers

\* Every step of a worker keeps the account of the slots.
LEMMA SlotsStep ==
  ASSUME TypeOK, TypeOK', NEW t \in Threads, Thread(t), NEW f \in Slots, Ring(f),
         call > 0, SlotsConserved
  PROVE  SlotsConserved'
<1>. DEFINE slot    == IF OwnsSlot(t) THEN 1 ELSE 0
            slot2   == IF OwnsSlot(t)' THEN 1 ELSE 0
            next    == IF OwnsNext(t) THEN 1 ELSE 0
            next2   == IF OwnsNext(t)' THEN 1 ELSE 0
            ready   == {s \in Slots : readyBlocks[s]}
            owners  == {u \in Threads : OwnsSlot(u)}
            nexts   == {u \in Threads : OwnsNext(u)}
<1>f. /\ IsFiniteSet(ready) /\ Cardinality(ready) \in Nat
      /\ IsFiniteSet(ready') /\ Cardinality(ready') \in Nat
  <2>1. ready \subseteq Slots /\ ready' \subseteq Slots
    OBVIOUS
  <2>. HIDE DEF ready
  <2>. QED
    BY <2>1, FiniteSlots, FS_Subset, FS_CardinalityType
<1>a. /\ Cardinality(owners') = Cardinality(owners) + slot2 - slot
      /\ Cardinality(owners) \in Nat /\ Cardinality(owners') \in Nat
  <2>1. \A u : u # t => (u \in owners' <=> u \in owners)
    BY Others DEF OwnsSlot
  <2>2. (t \in owners' <=> OwnsSlot(t)') /\ (t \in owners <=> OwnsSlot(t))
    OBVIOUS
  <2>3. IsFiniteSet(owners)
    BY FiniteDone, FS_Subset
  <2>. HIDE DEF owners
  <2>. QED
    BY <2>1, <2>2, <2>3, OneChange
<1>b. /\ Cardinality(nexts') = Cardinality(nexts) + next2 - next
      /\ Cardinality(nexts) \in Nat /\ Cardinality(nexts') \in Nat
  <2>1. \A u : u # t => (u \in nexts' <=> u \in nexts)
    BY Others DEF OwnsNext
  <2>2. (t \in nexts' <=> OwnsNext(t)') /\ (t \in nexts <=> OwnsNext(t))
    OBVIOUS
  <2>3. IsFiniteSet(nexts)
    BY FiniteDone, FS_Subset
  <2>. HIDE DEF nexts
  <2>. QED
    BY <2>1, <2>2, <2>3, OneChange
<1>c. /\ semaphore + Cardinality(ready) + Cardinality(owners) + Cardinality(nexts) = NumBlocksMax
      /\ semaphore \in Nat /\ semaphore' \in Nat
  BY DEF SlotsConserved, TypeOK
<1>d. pc \in [Threads -> Pcs] /\ local \in [Threads -> LocalType] /\ semaphore \in Nat
  BY DEF TypeOK
<1>g. SUFFICES semaphore' + Cardinality(ready') + Cardinality(owners') + Cardinality(nexts') = NumBlocksMax
  BY DEF SlotsConserved
<1>h. UNCHANGED readyBlocks => Cardinality(ready') = Cardinality(ready)
  OBVIOUS
<1>i. slot \in Nat /\ slot2 \in Nat /\ next \in Nat /\ next2 \in Nat /\ NumBlocksMax \in Nat
  BY RingSize
<1>. HIDE DEF owners, nexts, ready, slot, slot2, next, next2
<1>e. semaphore' + Cardinality(ready') + slot2 + next2
           = semaphore + Cardinality(ready) + slot + next
         => semaphore' + Cardinality(ready') + Cardinality(owners') + Cardinality(nexts') = NumBlocksMax
  BY <1>a, <1>b, <1>c, <1>f, <1>i
<1>j. Cardinality(ready') = Cardinality(ready) /\ semaphore' + slot2 + next2 = semaphore + slot + next
        => semaphore' + Cardinality(ready') + Cardinality(owners') + Cardinality(nexts') = NumBlocksMax
  <2>. SUFFICES ASSUME Cardinality(ready') = Cardinality(ready),
                       semaphore' + slot2 + next2 = semaphore + slot + next
                PROVE  semaphore' + Cardinality(ready) + slot2 + next2
                         = semaphore + Cardinality(ready) + slot + next
    BY <1>e
  <2>1. Cardinality(ready) \in Nat
    BY <1>f
  <2>2. semaphore \in Nat /\ semaphore' \in Nat
    BY <1>c
  <2>3. semaphore' + slot2 + next2 = semaphore + slot + next
    OBVIOUS
  <2>4. semaphore' + Cardinality(ready) + slot2 + next2
                         = Cardinality(ready) + (semaphore' + slot2 + next2)
    BY ONLY <1>i, <2>1, <2>2
  <2>5. semaphore + Cardinality(ready) + slot + next
                         = Cardinality(ready) + (semaphore + slot + next)
    BY ONLY <1>i, <2>1, <2>2
  <2>. QED
    BY ONLY <1>i, <2>1, <2>2, <2>3, <2>4, <2>5
<1>. USE DEF Goto, callVars, eventVars, resVars, readerVars, ringVars, bufVars
<1>1. CASE WaitStart(t)
  <2>1. /\ UNCHANGED readyBlocks
        /\ semaphore' + slot2 + next2
             = semaphore + slot + next
    BY <1>1, <1>d DEF WaitStart, OwnsSlot, OwnsNext, Released, slot, slot2, next, next2
  <2>2. Cardinality(ready') = Cardinality(ready)
    BY <1>h, <2>1
  <2>. QED
    BY <1>j, <2>1, <2>2
<1>2. CASE CountExit(t)
  <2>1. /\ UNCHANGED readyBlocks
        /\ semaphore' + slot2 + next2
             = semaphore + slot + next
    BY <1>2, <1>d DEF CountExit, OwnsSlot, OwnsNext, Released, slot, slot2, next, next2
  <2>2. Cardinality(ready') = Cardinality(ready)
    BY <1>h, <2>1
  <2>. QED
    BY <1>j, <2>1, <2>2
<1>3. CASE CompareExit(t)
  <2>1. /\ UNCHANGED readyBlocks
        /\ semaphore' + slot2 + next2
             = semaphore + slot + next
    BY <1>3, <1>d DEF CompareExit, OwnsSlot, OwnsNext, Released, slot, slot2, next, next2
  <2>2. Cardinality(ready') = Cardinality(ready)
    BY <1>h, <2>1
  <2>. QED
    BY <1>j, <2>1, <2>2
<1>4. CASE WaitRead(t)
  <2>1. /\ UNCHANGED readyBlocks
        /\ semaphore' + slot2 + next2
             = semaphore + slot + next
    BY <1>4, <1>d DEF WaitRead, OwnsSlot, OwnsNext, Released, slot, slot2, next, next2
  <2>2. Cardinality(ready') = Cardinality(ready)
    BY <1>h, <2>1
  <2>. QED
    BY <1>j, <2>1, <2>2
<1>5. CASE PassOn(t)
  <2>1. /\ UNCHANGED readyBlocks
        /\ semaphore' + slot2 + next2
             = semaphore + slot + next
    BY <1>5, <1>d DEF PassOn, OwnsSlot, OwnsNext, Released, slot, slot2, next, next2
  <2>2. Cardinality(ready') = Cardinality(ready)
    BY <1>h, <2>1
  <2>. QED
    BY <1>j, <2>1, <2>2
<1>6. CASE CheckError(t)
  <2>1. /\ UNCHANGED readyBlocks
        /\ semaphore' + slot2 + next2
             = semaphore + slot + next
    BY <1>6, <1>d DEF CheckError, OwnsSlot, OwnsNext, Released, slot, slot2, next, next2
  <2>2. Cardinality(ready') = Cardinality(ready)
    BY <1>h, <2>1
  <2>. QED
    BY <1>j, <2>1, <2>2
<1>7. CASE ReadBlock(t)
  <2>1. /\ UNCHANGED readyBlocks
        /\ semaphore' + slot2 + next2
             = semaphore + slot + next
    BY <1>7, <1>d DEF ReadBlock, OwnsSlot, OwnsNext, Released, slot, slot2, next, next2
  <2>2. Cardinality(ready') = Cardinality(ready)
    BY <1>h, <2>1
  <2>. QED
    BY <1>j, <2>1, <2>2
<1>8. CASE AcquireSlot(t)
  <2>1. /\ UNCHANGED readyBlocks
        /\ semaphore' + slot2 + next2
             = semaphore + slot + next
    BY <1>8, <1>d DEF AcquireSlot, OwnsSlot, OwnsNext, Released, slot, slot2, next, next2
  <2>2. Cardinality(ready') = Cardinality(ready)
    BY <1>h, <2>1
  <2>. QED
    BY <1>j, <2>1, <2>2
<1>9. CASE ClaimSlot(t)
  <2>1. /\ UNCHANGED readyBlocks
        /\ semaphore' + slot2 + next2
             = semaphore + slot + next
    BY <1>9, <1>d DEF ClaimSlot, OwnsSlot, OwnsNext, Released, slot, slot2, next, next2
  <2>2. Cardinality(ready') = Cardinality(ready)
    BY <1>h, <2>1
  <2>. QED
    BY <1>j, <2>1, <2>2
<1>10. CASE Spawn(t)
  <2>1. /\ UNCHANGED readyBlocks
        /\ semaphore' + slot2 + next2
             = semaphore + slot + next
    BY <1>10, <1>d DEF Spawn, OwnsSlot, OwnsNext, Released, slot, slot2, next, next2
  <2>2. Cardinality(ready') = Cardinality(ready)
    BY <1>h, <2>1
  <2>. QED
    BY <1>j, <2>1, <2>2
<1>11. CASE CountStarted(t)
  <2>1. /\ UNCHANGED readyBlocks
        /\ semaphore' + slot2 + next2
             = semaphore + slot + next
    BY <1>11, <1>d DEF CountStarted, OwnsSlot, OwnsNext, Released, slot, slot2, next, next2
  <2>2. Cardinality(ready') = Cardinality(ready)
    BY <1>h, <2>1
  <2>. QED
    BY <1>j, <2>1, <2>2
<1>12. CASE UnlockRead(t)
  <2>1. /\ UNCHANGED readyBlocks
        /\ semaphore' + slot2 + next2
             = semaphore + slot + next
    BY <1>12, <1>d DEF UnlockRead, OwnsSlot, OwnsNext, Released, slot, slot2, next, next2
  <2>2. Cardinality(ready') = Cardinality(ready)
    BY <1>h, <2>1
  <2>. QED
    BY <1>j, <2>1, <2>2
<1>13. CASE TakeBuffer(t)
  <2>1. /\ UNCHANGED readyBlocks
        /\ semaphore' + slot2 + next2
             = semaphore + slot + next
    BY <1>13, <1>d DEF TakeBuffer, OwnsSlot, OwnsNext, Released, slot, slot2, next, next2
  <2>2. Cardinality(ready') = Cardinality(ready)
    BY <1>h, <2>1
  <2>. QED
    BY <1>j, <2>1, <2>2
<1>14. CASE Code(t)
  <2>1. /\ UNCHANGED readyBlocks
        /\ semaphore' + slot2 + next2
             = semaphore + slot + next
    BY <1>14, <1>d DEF Code, OwnsSlot, OwnsNext, Released, slot, slot2, next, next2
  <2>2. Cardinality(ready') = Cardinality(ready)
    BY <1>h, <2>1
  <2>. QED
    BY <1>j, <2>1, <2>2
<1>15. CASE RecordBlock(t)
  <2>1. /\ UNCHANGED readyBlocks
        /\ semaphore' + slot2 + next2
             = semaphore + slot + next
    BY <1>15, <1>d DEF RecordBlock, OwnsSlot, OwnsNext, Released, slot, slot2, next, next2
  <2>2. Cardinality(ready') = Cardinality(ready)
    BY <1>h, <2>1
  <2>. QED
    BY <1>j, <2>1, <2>2
<1>16. CASE BecomeWriter(t)
  <2>1. /\ UNCHANGED readyBlocks
        /\ semaphore' + slot2 + next2
             = semaphore + slot + next
    BY <1>16, <1>d DEF BecomeWriter, OwnsSlot, OwnsNext, Released, slot, slot2, next, next2
  <2>2. Cardinality(ready') = Cardinality(ready)
    BY <1>h, <2>1
  <2>. QED
    BY <1>j, <2>1, <2>2
<1>17. CASE LeaveReady(t)
  <2>1. /\ pc[t] = "publish" /\ pc'[t] \in {"exit", "read"} /\ semaphore' = semaphore
        /\ readyBlocks' = [readyBlocks EXCEPT ![local[t].bi] = TRUE]
        /\ local[t].bi \in Slots
    BY <1>17, <1>d, LocalFields DEF LeaveReady, TypeOK
  <2>2. ~readyBlocks[local[t].bi]
    BY <2>1 DEF Ring, InUse, HasSlot, SlotOf, Coding
  <2>3. Cardinality(ready') = Cardinality(ready) + 1
    <3>1. \A s : s # local[t].bi => (s \in ready' <=> s \in ready)
      BY <2>1 DEF TypeOK, ready
    <3>2. local[t].bi \in ready' /\ local[t].bi \notin ready
      BY <2>1, <2>2 DEF TypeOK, ready
    <3>. QED
      BY <1>f, <3>1, <3>2, OneChange
  <2>4. OwnsSlot(t) /\ ~OwnsSlot(t)' /\ ~OwnsNext(t) /\ ~OwnsNext(t)'
    BY <2>1 DEF OwnsSlot, OwnsNext
  <2>. QED
    BY <1>c, <1>e, <1>f, <1>i, <2>1, <2>3, <2>4 DEF slot, slot2, next, next2
<1>18. CASE WriteBlock(t)
  <2>1. /\ UNCHANGED readyBlocks
        /\ semaphore' + slot2 + next2
             = semaphore + slot + next
    BY <1>18, <1>d DEF WriteBlock, OwnsSlot, OwnsNext, Released, slot, slot2, next, next2
  <2>2. Cardinality(ready') = Cardinality(ready)
    BY <1>h, <2>1
  <2>. QED
    BY <1>j, <2>1, <2>2
<1>19. CASE AdvanceWriter(t)
  <2>. DEFINE after == NextSlot(local[t].wi)
  <2>1. /\ pc[t] = "advance" /\ pc'[t] = "release" /\ semaphore' = semaphore
        /\ readyBlocks' = [readyBlocks EXCEPT ![after] = FALSE]
        /\ after \in Slots /\ local'[t].isReady = readyBlocks[after]
    BY <1>19, <1>d, LocalFields, NextSlotType DEF AdvanceWriter, TypeOK, LocalType
  <2>3. Cardinality(ready') = Cardinality(ready) - (IF readyBlocks[after] THEN 1 ELSE 0)
    <3>1. \A s : s # after => (s \in ready' <=> s \in ready)
      BY <2>1 DEF TypeOK, ready
    <3>2. after \notin ready' /\ (after \in ready <=> readyBlocks[after])
      BY <2>1 DEF TypeOK, ready
    <3>3. Cardinality(ready') = Cardinality(ready) + (IF after \in ready' THEN 1 ELSE 0)
                                                 - (IF after \in ready THEN 1 ELSE 0)
      <4>. HIDE DEF after
      <4>. QED
        BY <1>f, <3>1, OneChange
    <3>. QED
      BY <1>f, <3>2, <3>3
  <2>4. OwnsSlot(t) /\ OwnsSlot(t)' /\ ~OwnsNext(t) /\ (OwnsNext(t)' <=> readyBlocks[after])
    BY <2>1 DEF OwnsSlot, OwnsNext
  <2>. HIDE DEF after
  <2>. QED
    BY <1>c, <1>e, <1>f, <1>i, <2>1, <2>3, <2>4 DEF slot, slot2, next, next2
<1>20. CASE ReleaseSlot(t)
  <2>1. /\ UNCHANGED readyBlocks
        /\ semaphore' + slot2 + next2
             = semaphore + slot + next
    BY <1>20, <1>d DEF ReleaseSlot, OwnsSlot, OwnsNext, Released, slot, slot2, next, next2
  <2>2. Cardinality(ready') = Cardinality(ready)
    BY <1>h, <2>1
  <2>. QED
    BY <1>j, <2>1, <2>2
<1>21. CASE LoadBlock(t)
  <2>1. /\ UNCHANGED readyBlocks
        /\ semaphore' + slot2 + next2
             = semaphore + slot + next
    BY <1>21, <1>d DEF LoadBlock, OwnsSlot, OwnsNext, Released, slot, slot2, next, next2
  <2>2. Cardinality(ready') = Cardinality(ready)
    BY <1>h, <2>1
  <2>. QED
    BY <1>j, <2>1, <2>2
<1>. QED
  BY <1>1, <1>2, <1>3, <1>4, <1>5, <1>6, <1>7, <1>8, <1>9, <1>10, <1>11,
     <1>12, <1>13, <1>14, <1>15, <1>16, <1>17, <1>18, <1>19, <1>20, <1>21 DEF Thread

\* The calling thread, once a call has begun, leaves the workers' state alone, but for
\* threads it creates or joins.
LEMMA MainKeeps ==
  ASSUME OneCall, TypeOK, IInv, Main
  PROVE  \/ MainInit /\ call = 0 /\ Fresh
         \/ /\ UNCHANGED <<call, local, semaphore, resVars, readerVars, ringVars, bufVars>>
            /\ \A u \in Threads :
                 pc'[u] = pc[u] \/ {pc[u], pc'[u]} \subseteq {"none", "idle", "dead"}
<1>. USE DEF TypeOK, callVars, eventVars, resVars, readerVars, ringVars, bufVars
<1>1. CASE MainInit
  <2>1. call = 0
    BY <1>1, ConstantsAssumption DEF MainInit, OneCall
  <2>. QED
    BY <1>1, <2>1 DEF IInv
<1>2. CASE MainCreate
  BY <1>2 DEF MainCreate
<1>3. CASE MainKick
  BY <1>3 DEF MainKick
<1>4. CASE MainWake
  BY <1>4 DEF MainWake
<1>5. CASE MainCollect
  BY <1>5 DEF MainCollect
<1>6. CASE MainDestruct
  BY <1>6 DEF MainDestruct
<1>7. CASE MainFree
  BY <1>7 DEF MainFree
<1>8. CASE MainJoin
  BY <1>8 DEF MainJoin
<1>9. CASE MainFreed
  BY <1>9 DEF MainFreed
<1>. QED
  BY <1>1, <1>2, <1>3, <1>4, <1>5, <1>6, <1>7, <1>8, <1>9 DEF Main

\* A step that changes none of the workers' state but a thread at rest.
Idle(u) == pc'[u] = pc[u] \/ {pc[u], pc'[u]} \subseteq {"none", "idle", "dead"}

LEMMA RingIdle ==
  ASSUME NEW f \in Slots, Ring(f), \A u \in Threads : Idle(u),
         UNCHANGED <<local, semaphore, readerVars, ringVars>>
  PROVE  Ring(f)'
<1>1. \A u \in Threads : /\ pc'[u] \in Coding <=> pc[u] \in Coding
                         /\ Writing(u)' <=> Writing(u)
                         /\ pc'[u] = "claim" <=> pc[u] = "claim"
                         /\ pc'[u] = "release" <=> pc[u] = "release"
  BY DEF Idle, Coding, Writing
<1>2. \A u \in Threads : /\ HasSlot(u)' <=> HasSlot(u)
                         /\ SlotOf(u)' = SlotOf(u)
  BY <1>1 DEF HasSlot, SlotOf
<1>3. AtClaim' = AtClaim /\ AtRelease' = AtRelease
  BY <1>1 DEF AtClaim, AtRelease
<1>4. Claimed' = Claimed
  BY <1>3 DEF Claimed
<1>5. UNCHANGED <<blockIndex, readyBlocks, writeIndex, local>>
  BY DEF readerVars, ringVars
<1>6. InUse(f)'
  BY <1>2, <1>4, <1>5, InUseSame DEF Ring
<1>7. AtFront(f)' /\ OneWriter'
  BY <1>1, <1>5, AtFrontSame DEF Ring
<1>. QED
  BY <1>6, <1>7 DEF Ring

LEMMA RingStart ==
  ASSUME TypeOK, MainInit, Fresh
  PROVE  0 \in Slots /\ Ring(0)' /\ Claimed' = 0
<1>1. /\ semaphore' = NumBlocksMax /\ blockIndex' = 0 /\ writeIndex' = 0
      /\ readyBlocks' = [s \in Slots |-> FALSE]
      /\ \A u \in Threads : pc'[u] = "none"
  BY DEF MainInit, InitialPermits, FirstSlot, Fresh
<1>2. NumBlocksMax \in Nat /\ NumBlocksMax >= 2 /\ 0 \in Slots
  BY RingSize DEF Slots
<1>3. AtClaim' = {} /\ AtRelease' = {}
  BY <1>1 DEF AtClaim, AtRelease
<1>4. Claimed' = 0
  BY <1>1, <1>2, <1>3, FS_EmptySet DEF Claimed
<1>5. \A u \in Threads : ~HasSlot(u)' /\ ~Writing(u)'
  BY <1>1 DEF HasSlot, Writing, Coding
<1>6. \A s \in Slots : ~(Dist(0, s) < 0) /\ ~readyBlocks'[s]
  <2>1. \A s \in Slots : Dist(0, s) \in Int /\ 0 <= Dist(0, s)
    BY <1>2, DistFacts
  <2>. QED
    BY <1>1, <2>1
<1>7. InUse(0)'
  BY <1>1, <1>2, <1>4, <1>5, <1>6, AtFacts DEF InUse
<1>8. AtFront(0)' /\ OneWriter'
  BY <1>1, <1>2, <1>5, <1>6 DEF AtFront, OneWriter
<1>. QED
  BY <1>2, <1>4, <1>7, <1>8 DEF Ring

RInv == call > 0 => SlotsConserved /\ \E f \in Slots : Ring(f)

LEMMA SlotsIdle ==
  ASSUME TypeOK, SlotsConserved, \A u \in Threads : Idle(u),
         UNCHANGED <<call, local, semaphore, ringVars>>
  PROVE  SlotsConserved'
<1>1. {s \in Slots : readyBlocks'[s]} = {s \in Slots : readyBlocks[s]}
  BY DEF ringVars
<1>2. {u \in Threads : OwnsSlot(u)'} = {u \in Threads : OwnsSlot(u)}
  BY DEF Idle, OwnsSlot
<1>3. {u \in Threads : OwnsNext(u)'} = {u \in Threads : OwnsNext(u)}
  BY DEF Idle, OwnsNext
<1>. QED
  BY <1>1, <1>2, <1>3 DEF SlotsConserved

LEMMA SlotsStart == ASSUME TypeOK, MainInit, Fresh PROVE SlotsConserved'
<1>1. /\ semaphore' = NumBlocksMax /\ readyBlocks' = [s \in Slots |-> FALSE]
      /\ \A u \in Threads : pc'[u] = "none"
  BY DEF MainInit, InitialPermits, Fresh
<1>2. /\ {s \in Slots : readyBlocks'[s]} = {} /\ {u \in Threads : OwnsSlot(u)'} = {}
      /\ {u \in Threads : OwnsNext(u)'} = {}
  BY <1>1 DEF OwnsSlot, OwnsNext
<1>. QED
  BY <1>1, <1>2, RingSize, FS_EmptySet DEF SlotsConserved

LEMMA RInvStep ==
  ASSUME OneCall, TypeOK, TypeOK', IInv, RInv, [Next]_vars
  PROVE  RInv'
<1>1. CASE UNCHANGED vars
  <2>1. /\ \A u \in Threads : Idle(u)
        /\ UNCHANGED <<call, local, semaphore, readerVars, ringVars>>
    BY <1>1 DEF vars, Idle, callVars, eventVars
  <2>. QED
    BY <2>1, RingIdle, SlotsIdle DEF RInv
<1>2. CASE Main
  <2>1. CASE MainInit /\ call = 0 /\ Fresh
    BY <2>1, RingStart, SlotsStart DEF RInv
  <2>2. CASE /\ UNCHANGED <<call, local, semaphore, resVars, readerVars, ringVars, bufVars>>
             /\ \A u \in Threads : Idle(u)
    BY <2>2, RingIdle, SlotsIdle DEF RInv
  <2>. QED
    BY <1>2, <2>1, <2>2, MainKeeps DEF Idle
<1>3. ASSUME NEW t \in Threads, Thread(t) PROVE RInv'
  <2>1. call' = call
    BY <1>3 DEF Thread, callVars, WaitStart, CountExit, CompareExit, WaitRead, PassOn,
       CheckError, ReadBlock, AcquireSlot, ClaimSlot, Spawn, CountStarted, UnlockRead,
       TakeBuffer, Code, RecordBlock, BecomeWriter, LeaveReady, WriteBlock,
       AdvanceWriter, ReleaseSlot, LoadBlock
  <2>2. ASSUME call > 0 PROVE SlotsConserved' /\ \E f \in Slots : Ring(f)'
    <3>1. PICK f \in Slots : Ring(f)
      BY <2>2 DEF RInv
    <3>2. SlotsConserved'
      BY <1>3, <2>2, <3>1, SlotsStep DEF RInv
    <3>3. IF pc[t] = "advance" THEN Ring(NextSlot(f))' ELSE Ring(f)'
      BY <1>3, <3>1, RingStep
    <3>. QED
      BY <3>2, <3>3, NextSlotType
  <2>. QED
    BY <2>1, <2>2 DEF RInv
<1>. QED
  BY <1>1, <1>2, <1>3 DEF Next, Terminated

LEMMA RInvariant == ASSUME OneCall PROVE Spec => []RInv
<1>1. Init => RInv
  BY DEF Init, RInv
<1>2. TypeOK /\ TypeOK' /\ IInv /\ RInv /\ [Next]_vars => RInv'
  BY RInvStep
<1>. QED
  BY <1>1, <1>2, Typing, Invariant, PTL DEF Spec

(* Only one worker at a time has the role of writer, and only while writeIndex *)
(* names no slot.                                                              *)
THEOREM WriterExclusion == ASSUME OneCall PROVE Spec => []OneWriter
<1>1. IInv /\ RInv /\ TypeOK => OneWriter
  <2>1. IInv /\ TypeOK /\ ~(call > 0) => OneWriter
    BY DEF IInv, Fresh, OneWriter, Writing, TypeOK
  <2>2. RInv /\ call > 0 => OneWriter
    BY DEF RInv, Ring
  <2>. QED
    BY <2>1, <2>2
<1>. QED
  BY <1>1, Typing, Invariant, RInvariant, PTL

(* A block that waits in its slot is left alone until a writer has loaded it,  *)
(* although the positions of the ring are used again.                          *)
THEOREM PendingIsStable == ASSUME OneCall PROVE Spec => PendingStable
<1>. DEFINE Stable == \A s \in Slots : Pending(s) /\ Pending(s)' => blocks'[s] = blocks[s]
<1>1. ASSUME TypeOK, IInv, RInv, [Next]_vars PROVE Stable
  <2>1. CASE UNCHANGED blocks
    BY <2>1
  <2>2. ASSUME NEW t \in Threads, RecordBlock(t) PROVE Stable
    <3>1. /\ pc[t] = "record" /\ local[t].bi \in Slots
          /\ \A s \in Slots : s # local[t].bi => blocks'[s] = blocks[s]
      BY <1>1, <2>2, LocalFields DEF RecordBlock, TypeOK
    <3>2. call > 0
      BY <1>1, <3>1 DEF IInv, Fresh, TypeOK
    <3>3. PICK f \in Slots : Ring(f)
      BY <1>1, <3>2 DEF RInv
    <3>4. HasSlot(t) /\ SlotOf(t) = local[t].bi
      BY <3>1 DEF HasSlot, SlotOf, Coding
    <3>5. ~Pending(local[t].bi)
      <4>1. ASSUME NEW u \in Threads, pc[u] = "load" \/ (pc[u] = "release" /\ local[u].isReady),
                   local[u].wi = local[t].bi
            PROVE  FALSE
        <5>1. u # t /\ HasSlot(u) /\ SlotOf(u) = local[u].wi
          BY <3>1, <4>1 DEF HasSlot, SlotOf, Writing, Coding
        <5>. QED
          BY <3>3, <3>4, <4>1, <5>1 DEF Ring, InUse
      <4>2. ~readyBlocks[local[t].bi]
        BY <3>3, <3>4 DEF Ring, InUse
      <4>. QED
        BY <4>1, <4>2 DEF Pending
    <3>. QED
      BY <3>1, <3>5
  <2>3. UNCHANGED blocks \/ \E t \in Threads : RecordBlock(t)
    <3>. USE DEF callVars, ringVars
    <3>1. CASE UNCHANGED vars
      BY <3>1 DEF vars
    <3>2. CASE Main
      BY <3>2 DEF Main, MainInit, MainCreate, MainKick, MainWake, MainCollect, MainDestruct,
         MainFree, MainJoin, MainFreed
    <3>3. ASSUME NEW t \in Threads, Thread(t), ~RecordBlock(t) PROVE UNCHANGED blocks
      BY <3>3 DEF Thread, WaitStart, CountExit, CompareExit, WaitRead, PassOn, CheckError,
         ReadBlock, AcquireSlot, ClaimSlot, Spawn, CountStarted, UnlockRead, TakeBuffer, Code,
         BecomeWriter, LeaveReady, WriteBlock, AdvanceWriter, ReleaseSlot, LoadBlock
    <3>. QED
      BY <1>1, <3>1, <3>2, <3>3 DEF Next, Terminated
  <2>. QED
    BY <2>1, <2>2, <2>3
<1>2. TypeOK /\ IInv /\ RInv /\ [Next]_vars => [Stable]_vars
  BY <1>1
<1>. QED
  BY <1>2, Typing, Invariant, RInvariant, PTL DEF Spec, PendingStable

-----------------------------------------------------------------------------
(* The output buffers: each is on the free list, with one thread, or in one    *)
(* slot that waits for a writer.                                               *)

LEMMA AtMostOne ==
  ASSUME NEW S, \A x, y \in S : x = y
  PROVE  IsFiniteSet(S) /\ Cardinality(S) = IF S = {} THEN 0 ELSE 1
<1>1. CASE S = {}
  BY <1>1, FS_EmptySet
<1>2. CASE S # {}
  <2>1. PICK x : x \in S
    BY <1>2
  <2>2. S = {x}
    BY <2>1
  <2>. QED
    BY <1>2, <2>2, FS_Singleton
<1>. QED
  BY <1>1, <1>2

LEMMA TailFacts ==
  ASSUME NEW s \in Seq(Buffers), s # <<>>,
         \A i, j \in DOMAIN s : s[i] = s[j] => i = j
  PROVE  /\ Head(s) \in Buffers /\ (\E i \in DOMAIN s : s[i] = Head(s))
         /\ \A i, j \in DOMAIN Tail(s) : Tail(s)[i] = Tail(s)[j] => i = j
         /\ \A b : (\E i \in DOMAIN Tail(s) : Tail(s)[i] = b)
                     <=> (\E i \in DOMAIN s : s[i] = b) /\ b # Head(s)
<1>1. /\ Len(s) \in Nat /\ Len(s) >= 1 /\ DOMAIN s = 1 .. Len(s)
      /\ Head(s) = s[1] /\ s[1] \in Buffers
      /\ DOMAIN Tail(s) = 1 .. Len(s) - 1 /\ \A i \in 1 .. Len(s) - 1 : Tail(s)[i] = s[i + 1]
  OBVIOUS
<1>2. \A i, j \in DOMAIN Tail(s) : Tail(s)[i] = Tail(s)[j] => i = j
  BY <1>1
<1>3. ASSUME NEW b
      PROVE  (\E i \in DOMAIN Tail(s) : Tail(s)[i] = b)
                     <=> (\E i \in DOMAIN s : s[i] = b) /\ b # Head(s)
  <2>1. ASSUME NEW i \in DOMAIN Tail(s), Tail(s)[i] = b
        PROVE  (\E j \in DOMAIN s : s[j] = b) /\ b # Head(s)
    <3>1. i + 1 \in DOMAIN s /\ s[i + 1] = b /\ 1 \in DOMAIN s /\ i + 1 # 1
      BY <1>1, <2>1
    <3>. QED
      BY <1>1, <3>1
  <2>2. ASSUME NEW i \in DOMAIN s, s[i] = b, b # Head(s)
        PROVE  \E j \in DOMAIN Tail(s) : Tail(s)[j] = b
    <3>1. i - 1 \in DOMAIN Tail(s) /\ Tail(s)[i - 1] = b
      BY <1>1, <2>2
    <3>. QED
      BY <3>1
  <2>. QED
    BY <2>1, <2>2
<1>. QED
  BY <1>1, <1>2, <1>3

LEMMA ConsFacts ==
  ASSUME NEW s \in Seq(Buffers), NEW c \in Buffers,
         \A i, j \in DOMAIN s : s[i] = s[j] => i = j,
         ~\E i \in DOMAIN s : s[i] = c
  PROVE  LET r == <<c>> \o s IN
         /\ \A i, j \in DOMAIN r : r[i] = r[j] => i = j
         /\ \A b : (\E i \in DOMAIN r : r[i] = b) <=> (\E i \in DOMAIN s : s[i] = b) \/ b = c
<1>. DEFINE r == <<c>> \o s
<1>1. /\ Len(s) \in Nat /\ DOMAIN s = 1 .. Len(s)
      /\ DOMAIN r = 1 .. Len(s) + 1 /\ r[1] = c
      /\ \A i \in 1 .. Len(s) : r[i + 1] = s[i]
      /\ \A i \in 2 .. Len(s) + 1 : r[i] = s[i - 1] /\ i - 1 \in DOMAIN s
  OBVIOUS
<1>. HIDE DEF r
<1>2. \A i \in DOMAIN r : i = 1 \/ i \in 2 .. Len(s) + 1
  BY <1>1
<1>3. ASSUME NEW i \in DOMAIN r, NEW j \in DOMAIN r, r[i] = r[j] PROVE i = j
  <2>1. i # 1 => r[i] = s[i - 1] /\ i - 1 \in DOMAIN s /\ i \in Nat
    BY <1>1, <1>2
  <2>2. j # 1 => r[j] = s[j - 1] /\ j - 1 \in DOMAIN s /\ j \in Nat
    BY <1>1, <1>2
  <2>3. i # 1 /\ j # 1 => i - 1 = j - 1
    BY <1>3, <2>1, <2>2
  <2>. QED
    BY <1>1, <1>3, <2>1, <2>2, <2>3
<1>4. ASSUME NEW b
      PROVE  (\E i \in DOMAIN r : r[i] = b) <=> (\E i \in DOMAIN s : s[i] = b) \/ b = c
  <2>1. ASSUME NEW i \in DOMAIN r, r[i] = b PROVE (\E j \in DOMAIN s : s[j] = b) \/ b = c
    BY <1>1, <1>2, <2>1
  <2>2. ASSUME NEW i \in DOMAIN s, s[i] = b PROVE \E j \in DOMAIN r : r[j] = b
    <3>1. i + 1 \in DOMAIN r /\ r[i + 1] = b
      BY <1>1, <2>2
    <3>. QED
      BY <3>1
  <2>3. 1 \in DOMAIN r
    BY <1>1
  <2>. QED
    BY <1>1, <2>1, <2>2, <2>3
<1>. QED
  BY <1>3, <1>4 DEF r

\* The threads that may hold a buffer, and those that have just taken a ready slot.
Holding(t) == pc[t] \in {"code", "record", "publish", "write", "advance"} /\ local[t].bufIndex # None
Taking(t)  == pc[t] = "load" \/ (pc[t] = "release" /\ local[t].isReady)

Free(b)  == \E i \in DOMAIN freeBlocks : freeBlocks[i] = b
Waits(b) == \E s \in Slots : Pending(s) /\ blocks[s].bufIndex = b
Held(b)  == \E t \in Threads : Holding(t) /\ local[t].bufIndex = b
OnePlace ==
  /\ \A i, j \in DOMAIN freeBlocks : freeBlocks[i] = freeBlocks[j] => i = j
  /\ \A t, u \in Threads : Holding(t) /\ Holding(u) /\ t # u =>
       local[t].bufIndex # local[u].bufIndex
  /\ \A s, v \in Slots : Pending(s) /\ Pending(v) /\ blocks[s].bufIndex \in Buffers /\ s # v =>
       blocks[s].bufIndex # blocks[v].bufIndex
  /\ \A b \in Buffers : /\ Free(b) \/ Held(b) \/ Waits(b)
                        /\ ~(Free(b) /\ Held(b)) /\ ~(Free(b) /\ Waits(b))
                        /\ ~(Held(b) /\ Waits(b))

\* A thread has no buffer before it takes one, and a slot that is published says what the
\* thread holds.
NoBuffer(t) ==
  pc[t] \in {"fill", "acquire", "claim", "spawn", "count", "unlock", "take"} =>
    local[t].bufIndex = None
NotedDown(t) ==
  pc[t] = "publish" =>
    LET b == blocks[local[t].bi] IN
    b.res = local[t].res /\ b.bufIndex = local[t].bufIndex /\ b.finished = local[t].finished

BufInv == OnePlace /\ \A t \in Threads : NoBuffer(t) /\ NotedDown(t)

LEMMA PlaceSame ==
  ASSUME OnePlace, UNCHANGED freeBlocks,
         \A u \in Threads : /\ Holding(u)' <=> Holding(u)
                            /\ Holding(u) => local'[u].bufIndex = local[u].bufIndex,
         \A s \in Slots : /\ Pending(s)' <=> Pending(s)
                          /\ Pending(s) => blocks'[s] = blocks[s]
  PROVE  OnePlace'
<1>1. ASSUME NEW b PROVE (Free(b)' <=> Free(b)) /\ (Held(b)' <=> Held(b)) /\ (Waits(b)' <=> Waits(b))
  BY DEF Free, Held, Waits
<1>. QED
  BY <1>1 DEF OnePlace

\* A worker that keeps its buffer and the slot it has taken.
LEMMA PlaceQuiet ==
  ASSUME TypeOK, NEW t \in Threads, Thread(t), OnePlace,
         UNCHANGED <<freeBlocks, readyBlocks, blocks>>,
         Holding(t)' <=> Holding(t), Holding(t) => local'[t].bufIndex = local[t].bufIndex,
         Taking(t)' <=> Taking(t), Taking(t) => local'[t].wi = local[t].wi
  PROVE  OnePlace'
<1>1. \A u \in Threads : /\ Holding(u)' <=> Holding(u)
                         /\ Holding(u) => local'[u].bufIndex = local[u].bufIndex
  BY Others DEF Holding
<1>2. \A u \in Threads : /\ Taking(u)' <=> Taking(u)
                         /\ Taking(u) => local'[u].wi = local[u].wi
  BY Others DEF Taking
<1>3. \A s \in Slots : Pending(s)' <=> Pending(s)
  BY <1>2 DEF Pending, Taking
<1>. QED
  BY <1>1, <1>3, PlaceSame

\* The slot of a thread that encodes is not waiting for a writer.
LEMMA CodingNotPending ==
  ASSUME NEW f \in Slots, Ring(f), NEW t \in Threads, pc[t] \in Coding
  PROVE  ~Pending(local[t].bi)
<1>1. HasSlot(t) /\ SlotOf(t) = local[t].bi
  BY DEF HasSlot, SlotOf
<1>2. ASSUME NEW u \in Threads, Taking(u), local[u].wi = local[t].bi PROVE FALSE
  <2>1. u # t /\ HasSlot(u) /\ SlotOf(u) = local[u].wi
    BY <1>2 DEF HasSlot, SlotOf, Writing, Coding, Taking
  <2>. QED
    BY <1>1, <1>2, <2>1 DEF Ring, InUse
<1>3. ~readyBlocks[local[t].bi]
  BY <1>1 DEF Ring, InUse
<1>. QED
  BY <1>2, <1>3 DEF Pending, Taking

\* The first free buffer goes to a thread.
LEMMA PlaceTake ==
  ASSUME TypeOK, NEW t \in Threads, TakeBuffer(t), OnePlace
  PROVE  OnePlace'
<1>. DEFINE c == Head(freeBlocks)
<1>a. Thread(t)
  BY DEF Thread
<1>b. /\ pc[t] = "take" /\ pc'[t] = "code" /\ freeBlocks # <<>> /\ freeBlocks' = Tail(freeBlocks)
      /\ local'[t].bufIndex = c /\ freeBlocks \in Seq(Buffers)
      /\ UNCHANGED <<readyBlocks, blocks>>
  BY DEF TakeBuffer, Goto, TypeOK, LocalType, ringVars
<1>1. /\ c \in Buffers /\ Free(c) /\ \A b : Free(b)' <=> Free(b) /\ b # c
      /\ \A i, j \in DOMAIN freeBlocks' : freeBlocks'[i] = freeBlocks'[j] => i = j
  <2>1. \A i, j \in DOMAIN freeBlocks : freeBlocks[i] = freeBlocks[j] => i = j
    BY DEF OnePlace
  <2>. DEFINE r == Tail(freeBlocks)
  <2>2. /\ c \in Buffers /\ (\E i \in DOMAIN freeBlocks : freeBlocks[i] = c)
        /\ \A i, j \in DOMAIN r : r[i] = r[j] => i = j
        /\ \A b : (\E i \in DOMAIN r : r[i] = b)
                     <=> (\E i \in DOMAIN freeBlocks : freeBlocks[i] = b) /\ b # c
    BY <1>b, <2>1, TailFacts
  <2>3. freeBlocks' = r
    BY <1>b
  <2>. HIDE DEF r, c
  <2>. QED
    BY <2>2, <2>3 DEF Free
<1>. HIDE DEF c
<1>2. c # None
  BY <1>1 DEF Buffers, None
<1>3. Holding(t)' /\ ~Holding(t)
  BY <1>b, <1>2 DEF Holding
<1>4. \A u \in Threads : u # t => /\ Holding(u)' <=> Holding(u)
                                  /\ local'[u].bufIndex = local[u].bufIndex
  BY <1>a, Others DEF Holding
<1>5. \A b : Held(b)' <=> Held(b) \/ b = c
  BY <1>b, <1>3, <1>4 DEF Held
<1>6. \A s \in Slots : Pending(s)' <=> Pending(s)
  BY <1>a, <1>b, Others DEF Pending
<1>7. \A b : Waits(b)' <=> Waits(b)
  BY <1>b, <1>6 DEF Waits
<1>8. ~Held(c) /\ ~Waits(c)
  BY <1>1 DEF OnePlace
<1>9. \A u, v \in Threads : Holding(u)' /\ Holding(v)' /\ u # v =>
        local'[u].bufIndex # local'[v].bufIndex
  BY <1>b, <1>3, <1>4, <1>8 DEF OnePlace, Held
<1>10. \A s, v \in Slots : Pending(s)' /\ Pending(v)' /\ blocks'[s].bufIndex \in Buffers /\ s # v =>
         blocks'[s].bufIndex # blocks'[v].bufIndex
  BY <1>b, <1>6 DEF OnePlace
<1>11. \A b \in Buffers : /\ Free(b)' \/ Held(b)' \/ Waits(b)'
                          /\ ~(Free(b)' /\ Held(b)') /\ ~(Free(b)' /\ Waits(b)')
                          /\ ~(Held(b)' /\ Waits(b)')
  BY <1>1, <1>5, <1>7, <1>8 DEF OnePlace
<1>. QED
  BY <1>1, <1>9, <1>10, <1>11 DEF OnePlace

\* A thread leaves its block, and its buffer, in the slot.
LEMMA PlaceLeave ==
  ASSUME TypeOK, NEW t \in Threads, LeaveReady(t), OnePlace, NotedDown(t),
         NEW f \in Slots, Ring(f)
  PROVE  OnePlace'
<1>. DEFINE c == local[t].bufIndex
            bi == local[t].bi
<1>a. Thread(t)
  BY DEF Thread
<1>b. /\ pc[t] = "publish" /\ pc'[t] \in {"exit", "read"} /\ bi \in Slots
      /\ readyBlocks' = [readyBlocks EXCEPT ![bi] = TRUE] /\ readyBlocks \in [Slots -> BOOLEAN]
      /\ UNCHANGED <<freeBlocks, blocks>> /\ blocks[bi].bufIndex = c
      /\ c \in Buffers \cup {None}
  BY LocalFields DEF LeaveReady, Goto, TypeOK, LocalType, bufVars, NotedDown
<1>1. ~Pending(bi)
  BY <1>b, CodingNotPending DEF Coding
<1>. HIDE DEF c, bi
<1>2. ~Holding(t)' /\ (Holding(t) <=> c # None) /\ ~Taking(t) /\ ~Taking(t)'
  BY <1>b DEF Holding, Taking, c
<1>3. \A u \in Threads : u # t => /\ Holding(u)' <=> Holding(u)
                                  /\ local'[u] = local[u] /\ (Taking(u)' <=> Taking(u))
  BY <1>a, Others DEF Holding, Taking
<1>4. \A s \in Slots : Pending(s)' <=> Pending(s) \/ s = bi
  BY <1>b, <1>2, <1>3 DEF Pending, Taking
<1>5. \A b \in Buffers : Waits(b)' <=> Waits(b) \/ b = c
  BY <1>b, <1>4 DEF Waits
<1>6. None \notin Buffers
  BY DEF Buffers, None
<1>7. \A b \in Buffers : Held(b)' <=> Held(b) /\ b # c
  <2>1. \A u \in Threads : Holding(u)' <=> Holding(u) /\ u # t
    BY <1>2, <1>3
  <2>2. \A b \in Buffers : Held(b)' <=> \E u \in Threads : Holding(u) /\ u # t /\ local[u].bufIndex = b
    BY <1>3, <2>1 DEF Held
  <2>3. \A u \in Threads : Holding(u) /\ u # t /\ c # None => local[u].bufIndex # c
    BY <1>2 DEF OnePlace, c
  <2>. QED
    BY <1>6, <2>2, <2>3 DEF Held, c
<1>8. \A b \in Buffers : Free(b)' <=> Free(b)
  BY <1>b DEF Free
<1>9. c \in Buffers => ~Waits(c) /\ ~Free(c)
  BY <1>2, <1>6 DEF OnePlace, Held, c
<1>10. \A u, v \in Threads : Holding(u)' /\ Holding(v)' /\ u # v =>
         local'[u].bufIndex # local'[v].bufIndex
  BY <1>2, <1>3 DEF OnePlace
<1>11. \A s, v \in Slots : Pending(s)' /\ Pending(v)' /\ blocks'[s].bufIndex \in Buffers /\ s # v =>
         blocks'[s].bufIndex # blocks'[v].bufIndex
  BY <1>b, <1>4, <1>9 DEF OnePlace, Waits
<1>12. \A b \in Buffers : /\ Free(b)' \/ Held(b)' \/ Waits(b)'
                          /\ ~(Free(b)' /\ Held(b)') /\ ~(Free(b)' /\ Waits(b)')
                          /\ ~(Held(b)' /\ Waits(b)')
  BY <1>5, <1>7, <1>8, <1>9 DEF OnePlace
<1>. QED
  BY <1>b, <1>10, <1>11, <1>12 DEF OnePlace

\* The writer gives its buffer back and takes the next slot, if that is ready.
LEMMA PlaceAdvance ==
  ASSUME TypeOK, NEW t \in Threads, AdvanceWriter(t), OnePlace, OneWriter
  PROVE  OnePlace'
<1>. DEFINE c == local[t].bufIndex
            next == NextSlot(local[t].wi)
<1>a. Thread(t)
  BY DEF Thread
<1>b. /\ pc[t] = "advance" /\ pc'[t] = "release" /\ next \in Slots
      /\ readyBlocks' = [readyBlocks EXCEPT ![next] = FALSE] /\ readyBlocks \in [Slots -> BOOLEAN]
      /\ local'[t].isReady = readyBlocks[next] /\ local'[t].wi = next
      /\ UNCHANGED blocks /\ freeBlocks' = GiveBack(c) /\ c \in Buffers \cup {None}
      /\ freeBlocks \in Seq(Buffers)
  BY LocalFields, NextSlotType DEF AdvanceWriter, Goto, TypeOK, LocalType
<1>. HIDE DEF c, next
<1>1. ~Holding(t)' /\ (Holding(t) <=> c # None) /\ ~Taking(t) /\ (Taking(t)' <=> readyBlocks[next])
  BY <1>b DEF Holding, Taking, c
<1>2. \A u \in Threads : u # t => /\ Holding(u)' <=> Holding(u)
                                  /\ local'[u] = local[u] /\ ~Taking(u) /\ ~Taking(u)'
  <2>1. \A u \in Threads : u # t => ~Taking(u)
    BY <1>b DEF OneWriter, Writing, Taking
  <2>. QED
    BY <1>a, <2>1, Others DEF Holding, Taking
<1>3. \A s \in Slots : Pending(s)' <=> Pending(s)
  BY <1>b, <1>1, <1>2 DEF Pending, Taking
<1>4. \A b \in Buffers : Waits(b)' <=> Waits(b)
  BY <1>b, <1>3 DEF Waits
<1>5. None \notin Buffers
  BY DEF Buffers, None
<1>6. \A b \in Buffers : Held(b)' <=> Held(b) /\ b # c
  <2>1. \A u \in Threads : Holding(u)' <=> Holding(u) /\ u # t
    BY <1>1, <1>2
  <2>2. \A b \in Buffers : Held(b)' <=> \E u \in Threads : Holding(u) /\ u # t /\ local[u].bufIndex = b
    BY <1>2, <2>1 DEF Held
  <2>3. \A u \in Threads : Holding(u) /\ u # t /\ c # None => local[u].bufIndex # c
    BY <1>1 DEF OnePlace, c
  <2>. QED
    BY <1>5, <2>2, <2>3 DEF Held, c
<1>7. c \in Buffers => ~Waits(c) /\ ~Free(c)
  BY <1>1, <1>5 DEF OnePlace, Held, c
<1>8. /\ \A b \in Buffers : Free(b)' <=> Free(b) \/ b = c
      /\ \A i, j \in DOMAIN freeBlocks' : freeBlocks'[i] = freeBlocks'[j] => i = j
  <2>1. \A i, j \in DOMAIN freeBlocks : freeBlocks[i] = freeBlocks[j] => i = j
    BY DEF OnePlace
  <2>2. CASE c = None
    BY <1>b, <1>5, <2>1, <2>2 DEF GiveBack, Free
  <2>3. CASE c \in Buffers
    <3>. DEFINE r == <<c>> \o freeBlocks
    <3>1. /\ \A i, j \in DOMAIN r : r[i] = r[j] => i = j
          /\ \A b : (\E i \in DOMAIN r : r[i] = b)
                       <=> (\E i \in DOMAIN freeBlocks : freeBlocks[i] = b) \/ b = c
      BY <1>b, <1>7, <2>1, <2>3, ConsFacts DEF Free
    <3>2. freeBlocks' = r
      BY <1>b, <1>5, <2>3 DEF GiveBack
    <3>. HIDE DEF r
    <3>. QED
      BY <3>1, <3>2 DEF Free
  <2>. QED
    BY <1>b, <2>2, <2>3
<1>9. \A u, v \in Threads : Holding(u)' /\ Holding(v)' /\ u # v =>
        local'[u].bufIndex # local'[v].bufIndex
  BY <1>1, <1>2 DEF OnePlace
<1>10. \A s, v \in Slots : Pending(s)' /\ Pending(v)' /\ blocks'[s].bufIndex \in Buffers /\ s # v =>
         blocks'[s].bufIndex # blocks'[v].bufIndex
  BY <1>b, <1>3 DEF OnePlace
<1>11. \A b \in Buffers : /\ Free(b)' \/ Held(b)' \/ Waits(b)'
                          /\ ~(Free(b)' /\ Held(b)') /\ ~(Free(b)' /\ Waits(b)')
                          /\ ~(Held(b)' /\ Waits(b)')
  BY <1>4, <1>6, <1>7, <1>8 DEF OnePlace
<1>. QED
  BY <1>8, <1>9, <1>10, <1>11 DEF OnePlace

\* The writer loads the block of the slot it has taken.
LEMMA PlaceLoad ==
  ASSUME TypeOK, NEW t \in Threads, LoadBlock(t), OnePlace, NEW f \in Slots, Ring(f)
  PROVE  OnePlace'
<1>. DEFINE wi == local[t].wi
            c  == blocks[wi].bufIndex
<1>a. Thread(t)
  BY DEF Thread
<1>b. /\ pc[t] = "load" /\ pc'[t] = "write" /\ wi \in Slots
      /\ local'[t].bufIndex = c /\ c \in Buffers \cup {None}
      /\ UNCHANGED <<freeBlocks, readyBlocks, blocks>>
  BY LocalFields, BlockFields DEF LoadBlock, Goto, TypeOK, LocalType, ringVars, bufVars
<1>1. Pending(wi)
  BY <1>b DEF Pending
<1>2. /\ ~readyBlocks[wi]
      /\ \A u \in Threads : u # t => ~Taking(u)
  <2>1. HasSlot(t) /\ SlotOf(t) = wi /\ Writing(t)
    BY <1>b DEF HasSlot, SlotOf, Writing, Coding
  <2>2. \A u \in Threads : Taking(u) => Writing(u)
    BY DEF Taking, Writing
  <2>. QED
    BY <2>1, <2>2 DEF Ring, InUse, OneWriter
<1>. HIDE DEF c, wi
<1>3. (Holding(t)' <=> c # None) /\ ~Holding(t) /\ ~Taking(t)'
  BY <1>b DEF Holding, Taking
<1>4. \A u \in Threads : u # t => /\ Holding(u)' <=> Holding(u)
                                  /\ local'[u] = local[u] /\ (Taking(u)' <=> Taking(u))
  BY <1>a, Others DEF Holding, Taking
<1>5. \A s \in Slots : Pending(s)' <=> Pending(s) /\ s # wi
  BY <1>b, <1>2, <1>3, <1>4 DEF Pending, Taking, wi
<1>6. None \notin Buffers
  BY DEF Buffers, None
<1>7. \A b \in Buffers : Waits(b)' <=> Waits(b) /\ b # c
  <2>1. \A b \in Buffers : Waits(b)' <=> \E s \in Slots : Pending(s) /\ s # wi /\ blocks[s].bufIndex = b
    BY <1>b, <1>5 DEF Waits
  <2>2. \A s \in Slots : Pending(s) /\ s # wi /\ c \in Buffers => blocks[s].bufIndex # c
    BY <1>b, <1>1 DEF OnePlace, c
  <2>. QED
    BY <1>b, <1>6, <2>1, <2>2 DEF Waits, c
<1>8. \A b \in Buffers : Held(b)' <=> Held(b) \/ b = c
  BY <1>b, <1>3, <1>4, <1>6 DEF Held
<1>9. \A b \in Buffers : Free(b)' <=> Free(b)
  BY <1>b DEF Free
<1>10. c \in Buffers => Waits(c)
  BY <1>b, <1>1 DEF Waits, c
<1>11. c \in Buffers => ~Held(c) /\ ~Free(c)
  BY <1>10 DEF OnePlace
<1>12. \A u, v \in Threads : Holding(u)' /\ Holding(v)' /\ u # v =>
         local'[u].bufIndex # local'[v].bufIndex
  BY <1>b, <1>3, <1>4, <1>11 DEF OnePlace, Held
<1>13. \A s, v \in Slots : Pending(s)' /\ Pending(v)' /\ blocks'[s].bufIndex \in Buffers /\ s # v =>
         blocks'[s].bufIndex # blocks'[v].bufIndex
  BY <1>b, <1>5 DEF OnePlace
<1>14. \A b \in Buffers : /\ Free(b)' \/ Held(b)' \/ Waits(b)'
                          /\ ~(Free(b)' /\ Held(b)') /\ ~(Free(b)' /\ Waits(b)')
                          /\ ~(Held(b)' /\ Waits(b)')
  BY <1>7, <1>8, <1>9, <1>10, <1>11 DEF OnePlace
<1>. QED
  BY <1>b, <1>12, <1>13, <1>14 DEF OnePlace

\* Every step of a worker keeps each buffer in one place.
LEMMA PlaceStep ==
  ASSUME TypeOK, NEW t \in Threads, Thread(t), NEW f \in Slots, Ring(f), BufInv
  PROVE  OnePlace'
<1>. USE DEF TypeOK, Goto, callVars, eventVars, resVars, readerVars, ringVars, bufVars
<1>a. OnePlace /\ NoBuffer(t) /\ NotedDown(t)
  BY DEF BufInv
<1>1. CASE WaitStart(t)
  BY <1>a, <1>1, PlaceQuiet DEF WaitStart, Holding, Taking
<1>2. CASE CountExit(t)
  BY <1>a, <1>2, PlaceQuiet DEF CountExit, Holding, Taking
<1>3. CASE CompareExit(t)
  BY <1>a, <1>3, PlaceQuiet DEF CompareExit, Holding, Taking
<1>4. CASE WaitRead(t)
  BY <1>a, <1>4, PlaceQuiet DEF WaitRead, Holding, Taking
<1>5. CASE PassOn(t)
  BY <1>a, <1>5, PlaceQuiet DEF PassOn, Holding, Taking
<1>6. CASE CheckError(t)
  BY <1>a, <1>6, PlaceQuiet DEF CheckError, Holding, Taking
<1>7. CASE ReadBlock(t)
  BY <1>a, <1>7, PlaceQuiet DEF ReadBlock, Holding, Taking
<1>8. CASE AcquireSlot(t)
  BY <1>a, <1>8, PlaceQuiet DEF AcquireSlot, Holding, Taking
<1>9. CASE ClaimSlot(t)
  BY <1>a, <1>9, PlaceQuiet DEF ClaimSlot, Holding, Taking
<1>10. CASE Spawn(t)
  BY <1>a, <1>10, PlaceQuiet DEF Spawn, Holding, Taking
<1>11. CASE CountStarted(t)
  BY <1>a, <1>11, PlaceQuiet DEF CountStarted, Holding, Taking
<1>12. CASE UnlockRead(t)
  BY <1>a, <1>12, PlaceQuiet DEF UnlockRead, Holding, Taking, NoBuffer
<1>13. CASE TakeBuffer(t)
  BY <1>a, <1>13, PlaceTake
<1>14. CASE Code(t)
  <2>1. /\ pc[t] = "code" /\ pc'[t] = "record"
        /\ UNCHANGED <<freeBlocks, readyBlocks, blocks>>
    BY <1>14 DEF Code
  <2>2. local'[t].bufIndex = local[t].bufIndex
    BY <1>14 DEF Code, LocalType
  <2>. QED
    BY <1>a, <2>1, <2>2, PlaceQuiet DEF Holding, Taking
<1>15. CASE RecordBlock(t)
  <2>1. /\ pc[t] = "record" /\ pc'[t] = "publish" /\ local' = local
        /\ UNCHANGED <<freeBlocks, readyBlocks>>
        /\ \A s \in Slots : s # local[t].bi => blocks'[s] = blocks[s]
    BY <1>a, <1>15 DEF RecordBlock
  <2>2. ~Pending(local[t].bi)
    BY <2>1, CodingNotPending DEF Coding
  <2>3. \A u \in Threads : (Holding(u)' <=> Holding(u)) /\ (Taking(u)' <=> Taking(u))
    BY <2>1, Others DEF Holding, Taking
  <2>4. \A s \in Slots : Pending(s)' <=> Pending(s)
    BY <2>1, <2>3 DEF Pending, Taking
  <2>. QED
    <3>1. \A s \in Slots : Pending(s) => blocks'[s] = blocks[s]
      BY <2>1, <2>2
    <3>2. OnePlace /\ UNCHANGED <<freeBlocks, local>>
      BY <1>a, <2>1
    <3>. QED
      BY ONLY <2>3, <2>4, <3>1, <3>2, PlaceSame
<1>16. CASE BecomeWriter(t)
  <2>1. /\ pc[t] = "publish" /\ pc'[t] = "write"
        /\ UNCHANGED <<freeBlocks, readyBlocks, blocks>>
    BY <1>16 DEF BecomeWriter
  <2>2. local'[t].bufIndex = local[t].bufIndex
    BY <1>16 DEF BecomeWriter, LocalType
  <2>. QED
    BY <1>a, <2>1, <2>2, PlaceQuiet DEF Holding, Taking
<1>17. CASE LeaveReady(t)
  BY <1>a, <1>17, PlaceLeave
<1>18. CASE WriteBlock(t)
  <2>1. /\ pc[t] = "write" /\ pc'[t] = "advance"
        /\ UNCHANGED <<freeBlocks, readyBlocks, blocks>>
    BY <1>18 DEF WriteBlock
  <2>2. local'[t].bufIndex = local[t].bufIndex
    BY <1>18 DEF WriteBlock, LocalType
  <2>. QED
    BY <1>a, <2>1, <2>2, PlaceQuiet DEF Holding, Taking
<1>19. CASE AdvanceWriter(t)
  BY <1>a, <1>19, PlaceAdvance DEF Ring
<1>20. CASE ReleaseSlot(t)
  BY <1>a, <1>20, PlaceQuiet DEF ReleaseSlot, Holding, Taking
<1>21. CASE LoadBlock(t)
  BY <1>a, <1>21, PlaceLoad
<1>. QED
  BY <1>a, <1>1, <1>2, <1>3, <1>4, <1>5, <1>6, <1>7, <1>8, <1>9, <1>10, <1>11,
     <1>12, <1>13, <1>14, <1>15, <1>16, <1>17, <1>18, <1>19, <1>20, <1>21 DEF Thread

LEMMA NotesStep ==
  ASSUME TypeOK, NEW t \in Threads, Thread(t), NEW f \in Slots, Ring(f), BufInv
  PROVE  \A u \in Threads : NoBuffer(u)' /\ NotedDown(u)'
<1>. USE DEF TypeOK, Goto, callVars, eventVars, resVars, readerVars, ringVars, bufVars
<1>a. \A u \in Threads : NoBuffer(u) /\ NotedDown(u)
  BY DEF BufInv
<1>b. \A u \in Threads : u # t => NoBuffer(u)'
  BY <1>a, Others DEF NoBuffer
<1>c. UNCHANGED blocks \/ RecordBlock(t)
  BY DEF Thread, WaitStart, CountExit, CompareExit, WaitRead, PassOn, CheckError, ReadBlock,
     AcquireSlot, ClaimSlot, Spawn, CountStarted, UnlockRead, TakeBuffer, Code, BecomeWriter,
     LeaveReady, WriteBlock, AdvanceWriter, ReleaseSlot, LoadBlock
<1>d. \A u \in Threads : u # t => NotedDown(u)'
  <2>1. CASE UNCHANGED blocks
    <3>1. \A u \in Threads : u # t /\ pc'[u] = "publish" => pc[u] = "publish" /\ local'[u] = local[u]
      BY Others
    <3>. QED
      BY <1>a, <2>1, <3>1 DEF NotedDown
  <2>2. CASE RecordBlock(t)
    <3>1. /\ pc[t] = "record" /\ local' = local
          /\ \A s : s # local[t].bi /\ s \in Slots => blocks'[s] = blocks[s]
      BY <2>2 DEF RecordBlock
    <3>2. \A u \in Threads : u # t /\ pc[u] = "publish" => local[u].bi # local[t].bi
      <4>1. HasSlot(t) /\ SlotOf(t) = local[t].bi
        BY <3>1 DEF HasSlot, SlotOf, Coding
      <4>2. \A u \in Threads : pc[u] = "publish" => HasSlot(u) /\ SlotOf(u) = local[u].bi
        BY DEF HasSlot, SlotOf, Coding
      <4>. QED
        BY <4>1, <4>2 DEF Ring, InUse
    <3>. QED
      BY <1>a, <3>1, <3>2, Others, LocalFields DEF NotedDown
  <2>. QED
    BY <1>c, <2>1, <2>2
<1>. SUFFICES NoBuffer(t)' /\ NotedDown(t)'
  BY <1>b, <1>d
<1>1. CASE WaitStart(t)
  BY <1>a, <1>1, PcsContain DEF WaitStart, NoBuffer, NotedDown
<1>2. CASE CountExit(t)
  BY <1>a, <1>2, PcsContain DEF CountExit, NoBuffer, NotedDown
<1>3. CASE CompareExit(t)
  BY <1>a, <1>3, PcsContain DEF CompareExit, NoBuffer, NotedDown
<1>4. CASE WaitRead(t)
  BY <1>a, <1>4, PcsContain DEF WaitRead, NoBuffer, NotedDown
<1>5. CASE PassOn(t)
  BY <1>a, <1>5, PcsContain DEF PassOn, NoBuffer, NotedDown
<1>6. CASE CheckError(t)
  BY <1>a, <1>6, PcsContain DEF CheckError, NoBuffer, NotedDown
<1>7. CASE ReadBlock(t)
  <2>1. pc[t] = "fill" /\ pc'[t] \in {"acquire"}
    BY <1>7 DEF ReadBlock
  <2>2. local'[t].bufIndex = local[t].bufIndex
    BY <1>7 DEF ReadBlock, LocalType
  <2>. QED
    BY <1>a, <2>1, <2>2 DEF NoBuffer, NotedDown
<1>8. CASE AcquireSlot(t)
  BY <1>a, <1>8, PcsContain DEF AcquireSlot, NoBuffer, NotedDown
<1>9. CASE ClaimSlot(t)
  BY <1>a, <1>9, PcsContain DEF ClaimSlot, NoBuffer, NotedDown
<1>10. CASE Spawn(t)
  <2>1. pc[t] = "spawn" /\ pc'[t] \in {"count", "unlock"}
    BY <1>10 DEF Spawn
  <2>2. local'[t].bufIndex = local[t].bufIndex
    BY <1>10 DEF Spawn, LocalType
  <2>. QED
    BY <1>a, <2>1, <2>2 DEF NoBuffer, NotedDown
<1>11. CASE CountStarted(t)
  BY <1>a, <1>11, PcsContain DEF CountStarted, NoBuffer, NotedDown
<1>12. CASE UnlockRead(t)
  BY <1>a, <1>12, PcsContain DEF UnlockRead, NoBuffer, NotedDown
<1>13. CASE TakeBuffer(t)
  BY <1>a, <1>13, PcsContain DEF TakeBuffer, NoBuffer, NotedDown
<1>14. CASE Code(t)
  BY <1>a, <1>14, PcsContain DEF Code, NoBuffer, NotedDown
<1>15. CASE RecordBlock(t)
  BY <1>a, <1>15, LocalFields DEF RecordBlock, NoBuffer, NotedDown
<1>16. CASE BecomeWriter(t)
  BY <1>a, <1>16, PcsContain DEF BecomeWriter, NoBuffer, NotedDown
<1>17. CASE LeaveReady(t)
  BY <1>a, <1>17, PcsContain DEF LeaveReady, NoBuffer, NotedDown
<1>18. CASE WriteBlock(t)
  BY <1>a, <1>18, PcsContain DEF WriteBlock, NoBuffer, NotedDown
<1>19. CASE AdvanceWriter(t)
  BY <1>a, <1>19, PcsContain DEF AdvanceWriter, NoBuffer, NotedDown
<1>20. CASE ReleaseSlot(t)
  BY <1>a, <1>20, PcsContain DEF ReleaseSlot, NoBuffer, NotedDown
<1>21. CASE LoadBlock(t)
  BY <1>a, <1>21, PcsContain DEF LoadBlock, NoBuffer, NotedDown
<1>. QED
  BY <1>1, <1>2, <1>3, <1>4, <1>5, <1>6, <1>7, <1>8, <1>9, <1>10, <1>11,
     <1>12, <1>13, <1>14, <1>15, <1>16, <1>17, <1>18, <1>19, <1>20, <1>21 DEF Thread

LEMMA BufIdle ==
  ASSUME BufInv, \A u \in Threads : Idle(u),
         UNCHANGED <<local, readyBlocks, blocks, freeBlocks>>
  PROVE  BufInv'
<1>1. \A u \in Threads : (Holding(u)' <=> Holding(u)) /\ (Taking(u)' <=> Taking(u))
  BY DEF Idle, Holding, Taking
<1>2. \A s \in Slots : Pending(s)' <=> Pending(s)
  BY <1>1 DEF Pending, Taking
<1>3. OnePlace'
  BY <1>1, <1>2, PlaceSame DEF BufInv
<1>4. \A u \in Threads : NoBuffer(u)' /\ NotedDown(u)'
  BY DEF BufInv, NoBuffer, NotedDown, Idle
<1>. QED
  BY <1>3, <1>4 DEF BufInv

LEMMA BufStart == ASSUME TypeOK, MainInit, Fresh PROVE BufInv'
<1>1. /\ freeBlocks' = [i \in 1 .. BlocksMax |-> i - 1]
      /\ readyBlocks' = [s \in Slots |-> FALSE]
      /\ \A u \in Threads : pc'[u] = "none"
  BY DEF MainInit, Fresh
<1>2. \A u \in Threads : ~Holding(u)' /\ ~Taking(u)' /\ NoBuffer(u)' /\ NotedDown(u)'
  BY <1>1 DEF Holding, Taking, NoBuffer, NotedDown
<1>3. \A s \in Slots : ~Pending(s)'
  BY <1>1, <1>2 DEF Pending, Taking
<1>4. BlocksMax \in Nat
  BY RingSize
<1>5. \A i, j \in DOMAIN freeBlocks' : freeBlocks'[i] = freeBlocks'[j] => i = j
  BY <1>1, <1>4
<1>6. ASSUME NEW b \in Buffers PROVE Free(b)' /\ ~Held(b)' /\ ~Waits(b)'
  <2>1. b + 1 \in 1 .. BlocksMax /\ b \in Int
    BY <1>4 DEF Buffers
  <2>2. freeBlocks'[b + 1] = b /\ b + 1 \in DOMAIN freeBlocks'
    BY <1>1, <2>1
  <2>. QED
    BY <1>2, <1>3, <2>2 DEF Free, Held, Waits
<1>7. OnePlace'
  BY <1>2, <1>3, <1>5, <1>6 DEF OnePlace
<1>. QED
  BY <1>2, <1>7 DEF BufInv

LEMMA BufInvariant == ASSUME OneCall PROVE Spec => [](call > 0 => BufInv)
<1>. DEFINE B == call > 0 => BufInv
<1>1. Init => B
  BY DEF Init
<1>2. ASSUME TypeOK, IInv, RInv, B, [Next]_vars PROVE B'
  <2>1. CASE UNCHANGED vars
    <3>1. /\ \A u \in Threads : Idle(u)
          /\ UNCHANGED <<call, local, readyBlocks, blocks, freeBlocks>>
      BY <2>1 DEF vars, Idle, callVars, ringVars, bufVars
    <3>. QED
      BY <1>2, <3>1, BufIdle
  <2>2. CASE Main
    <3>1. CASE MainInit /\ call = 0 /\ Fresh
      BY <1>2, <3>1, BufStart
    <3>2. CASE /\ UNCHANGED <<call, local, semaphore, resVars, readerVars, ringVars, bufVars>>
               /\ \A u \in Threads : Idle(u)
      BY <1>2, <3>2, BufIdle DEF ringVars, bufVars
    <3>. QED
      BY <1>2, <2>2, <3>1, <3>2, MainKeeps DEF Idle
  <2>3. ASSUME NEW t \in Threads, Thread(t) PROVE B'
    <3>1. call' = call
      BY <2>3 DEF Thread, callVars, WaitStart, CountExit, CompareExit, WaitRead, PassOn,
         CheckError, ReadBlock, AcquireSlot, ClaimSlot, Spawn, CountStarted, UnlockRead,
         TakeBuffer, Code, RecordBlock, BecomeWriter, LeaveReady, WriteBlock,
         AdvanceWriter, ReleaseSlot, LoadBlock
    <3>2. ASSUME call > 0 PROVE BufInv'
      <4>1. PICK f \in Slots : Ring(f)
        BY <1>2, <3>2 DEF RInv
      <4>. QED
        BY <1>2, <2>3, <3>2, <4>1, PlaceStep, NotesStep DEF BufInv
    <3>. QED
      BY <3>1, <3>2
  <2>. QED
    BY <1>2, <2>1, <2>2, <2>3 DEF Next, Terminated
<1>. QED
  BY <1>1, <1>2, Typing, Invariant, RInvariant, PTL DEF Spec

LEMMA OnePlaceCount ==
  ASSUME TypeOK, OnePlace, NEW b \in Buffers
  PROVE  Cardinality({i \in DOMAIN freeBlocks : freeBlocks[i] = b})
           + Cardinality({t \in Threads : Holds(t, b)})
           + Cardinality({s \in Slots : Pending(s) /\ blocks[s].bufIndex = b}) = 1
<1>. DEFINE F == {i \in DOMAIN freeBlocks : freeBlocks[i] = b}
            H == {t \in Threads : Holds(t, b)}
            W == {s \in Slots : Pending(s) /\ blocks[s].bufIndex = b}
<1>1. b # None
  BY DEF Buffers, None
<1>2. \A t : Holds(t, b) <=> Holding(t) /\ local[t].bufIndex = b
  BY <1>1 DEF Holds, Holding
<1>3. \A x, y \in F : x = y
  BY DEF OnePlace
<1>4. \A x, y \in H : x = y
  BY <1>2 DEF OnePlace
<1>5. \A x, y \in W : x = y
  BY DEF OnePlace
<1>6. /\ F # {} <=> Free(b)
      /\ H # {} <=> Held(b)
      /\ W # {} <=> Waits(b)
  BY <1>2 DEF Free, Held, Waits
<1>7. /\ F # {} \/ H # {} \/ W # {}
      /\ ~(F # {} /\ H # {}) /\ ~(F # {} /\ W # {}) /\ ~(H # {} /\ W # {})
  BY <1>6 DEF OnePlace
<1>. HIDE DEF F, H, W
<1>8. /\ Cardinality(F) = IF F = {} THEN 0 ELSE 1
      /\ Cardinality(H) = IF H = {} THEN 0 ELSE 1
      /\ Cardinality(W) = IF W = {} THEN 0 ELSE 1
  BY <1>3, <1>4, <1>5, AtMostOne
<1>9. Cardinality(F) + Cardinality(H) + Cardinality(W) = 1
  BY <1>7, <1>8
<1>. QED
  BY <1>9 DEF F, H, W

(* Every buffer and every slot is at every moment in exactly one place, on     *)
(* error paths too: no coder is handed a buffer that waits to be written, no   *)
(* buffer or slot is lost, and Semaphore_Release1 never exceeds the maximum.   *)
THEOREM ResourcesAreKept == ASSUME OneCall PROVE Spec => []ResourcesKept
<1>1. (call > 0 => BufInv) /\ TypeOK => OneOwner
  BY OnePlaceCount DEF BufInv, OneOwner
<1>2. RInv => SlotsConserved
  BY DEF RInv, SlotsConserved
<1>3. (call > 0 => BufInv) /\ TypeOK /\ RInv => ResourcesKept
  BY <1>1, <1>2 DEF ResourcesKept
<1>. QED
  BY <1>3, Typing, RInvariant, BufInvariant, PTL

-----------------------------------------------------------------------------
(* The order of the output.  First, what each step of a worker does to its own *)
(* local variables.                                                            *)

\* The steps that only move the worker on.
Moving == {"idle", "exit", "compare", "read", "pass", "acquire", "count", "unlock", "record",
           "release"}

SameLocal(t) ==
  /\ local'[t].res = local[t].res /\ local'[t].block = local[t].block
  /\ local'[t].finished = local[t].finished /\ local'[t].bufIndex = local[t].bufIndex
  /\ local'[t].bi = local[t].bi /\ local'[t].wi = local[t].wi

LEMMA MovingEffect ==
  ASSUME TypeOK, NEW t \in Threads, Thread(t), pc[t] \in Moving \/ LeaveReady(t)
  PROVE  /\ SameLocal(t)
         /\ UNCHANGED <<resVars, nextBlock, freeBlocks, outBuf, written>>
         /\ pc[t] # "unlock" => UNCHANGED stopReading
         /\ pc[t] # "record" => UNCHANGED blocks
         /\ pc[t] # "publish" => UNCHANGED readyBlocks
         /\ pc[t] = "idle" => pc'[t] \in {"dead", "read"}
         /\ pc[t] = "exit" => pc'[t] = "compare"
         /\ pc[t] = "compare" => pc'[t] = "idle"
         /\ pc[t] = "read" => readEvent /\ pc'[t] = IF stopReading THEN "pass" ELSE "check"
         /\ pc[t] = "pass" => pc'[t] = "exit"
         /\ pc[t] = "acquire" => pc'[t] = "claim"
         /\ pc[t] = "count" => pc'[t] = "unlock"
         /\ pc[t] = "unlock" => /\ stopReading' = (stopReading \/ local[t].finished)
                                /\ pc'[t] = IF local[t].res = "OK" THEN "take" ELSE "record"
         /\ pc[t] = "record" => pc'[t] = "publish"
         /\ pc[t] = "publish" => /\ pc'[t] = IF Leaves(t) THEN "exit" ELSE "read"
                                 /\ readyBlocks' = [readyBlocks EXCEPT ![local[t].bi] = TRUE]
         /\ pc[t] = "release" => pc'[t] = IF local[t].isReady THEN "load"
                                          ELSE IF Leaves(t) THEN "exit" ELSE "read"
<1>. USE DEF TypeOK, Goto, callVars, eventVars, resVars, readerVars, ringVars, bufVars, LocalType
<1>1. CASE WaitStart(t)
  BY <1>1 DEF WaitStart, SameLocal
<1>2. CASE CountExit(t)
  BY <1>2 DEF CountExit, SameLocal
<1>3. CASE CompareExit(t)
  BY <1>3 DEF CompareExit, SameLocal
<1>4. CASE WaitRead(t)
  BY <1>4 DEF WaitRead, SameLocal
<1>5. CASE PassOn(t)
  BY <1>5 DEF PassOn, SameLocal
<1>6. CASE AcquireSlot(t)
  BY <1>6 DEF AcquireSlot, SameLocal
<1>7. CASE CountStarted(t)
  BY <1>7 DEF CountStarted, SameLocal
<1>8. CASE UnlockRead(t)
  BY <1>8 DEF UnlockRead, SameLocal
<1>9. CASE RecordBlock(t)
  BY <1>9 DEF RecordBlock, SameLocal
<1>10. CASE LeaveReady(t)
  BY <1>10 DEF LeaveReady, SameLocal
<1>11. CASE ReleaseSlot(t)
  BY <1>11 DEF ReleaseSlot, SameLocal
<1>12. WaitStart(t) \/ CountExit(t) \/ CompareExit(t) \/ WaitRead(t) \/ PassOn(t)
       \/ AcquireSlot(t) \/ CountStarted(t) \/ UnlockRead(t) \/ RecordBlock(t)
       \/ LeaveReady(t) \/ ReleaseSlot(t)
  BY DEF Moving, Thread, CheckError, ReadBlock, ClaimSlot, Spawn, TakeBuffer, Code,
     BecomeWriter, WriteBlock, AdvanceWriter, LoadBlock
<1>. QED
  BY <1>1, <1>2, <1>3, <1>4, <1>5, <1>6, <1>7, <1>8, <1>9, <1>10, <1>11, <1>12

LEMMA CheckErrorEffect ==
  ASSUME TypeOK, NEW t \in Threads, CheckError(t)
  PROVE  /\ pc[t] = "check" /\ pc'[t] = IF progressRes = "OK" THEN "fill" ELSE "acquire"
         /\ local'[t].res = progressRes
         /\ UNCHANGED <<resVars, readerVars, ringVars, bufVars>>
<1>. QED
  BY DEF CheckError, TypeOK, LocalType, Goto

LEMMA ReadBlockEffect ==
  ASSUME TypeOK, NEW t \in Threads, ReadBlock(t)
  PROVE  /\ pc[t] = "fill" /\ pc'[t] = "acquire"
         /\ \/ /\ local'[t].res = local[t].res /\ local'[t].block = nextBlock
               /\ local'[t].finished = (nextBlock = LastBlock) /\ nextBlock' = nextBlock + 1
               /\ UNCHANGED <<readRes, progressRes>>
            \/ local'[t].res # "OK" /\ progressRes' # "OK" /\ UNCHANGED nextBlock
         /\ progressRes' = "OK" => progressRes = "OK"
         /\ UNCHANGED <<writeRes, stopReading, ringVars, bufVars>>
<1>. QED
  BY DEF ReadBlock, TypeOK, LocalType, Goto, SetError

LEMMA ClaimSlotEffect ==
  ASSUME TypeOK, NEW t \in Threads, ClaimSlot(t)
  PROVE  /\ pc[t] = "claim" /\ pc'[t] \in {"spawn", "unlock"}
         /\ local'[t].bi = blockIndex /\ local'[t].block = local[t].block
         /\ local'[t].res = IF local[t].res = "OK" THEN progressRes ELSE local[t].res
         /\ local'[t].finished = (local[t].finished \/ local'[t].res # "OK")
         /\ UNCHANGED <<resVars, nextBlock, stopReading, ringVars, bufVars>>
<1>. QED
  BY DEF ClaimSlot, TypeOK, LocalType, Goto

LEMMA SpawnEffect ==
  ASSUME TypeOK, NEW t \in Threads, Spawn(t)
  PROVE  /\ pc[t] = "spawn" /\ pc'[t] \in {"count", "unlock"}
         /\ local'[t].bi = local[t].bi /\ local'[t].block = local[t].block
         /\ \/ /\ local'[t].res = local[t].res /\ local'[t].finished = local[t].finished
               /\ UNCHANGED progressRes
            \/ local'[t].res # "OK" /\ local'[t].finished /\ progressRes' # "OK"
         /\ progressRes' = "OK" => progressRes = "OK"
         /\ UNCHANGED <<readRes, writeRes, readerVars, ringVars, bufVars>>
<1>1. pc[t] = "spawn" /\ UNCHANGED <<readRes, writeRes, readerVars, ringVars, bufVars>>
  BY DEF Spawn
<1>2. CASE /\ pc' = [pc EXCEPT ![t] = "count", ![numStarted] = IF @ = "none" THEN "idle" ELSE @]
           /\ UNCHANGED <<local, progressRes>>
  <2>1. pc'[t] = "count"
    BY <1>1, <1>2 DEF TypeOK
  <2>. QED
    BY <1>1, <1>2, <2>1
<1>3. CASE /\ SetError("THREAD") /\ Goto(t, "unlock")
           /\ local' = [local EXCEPT ![t].res = "THREAD", ![t].finished = TRUE]
  BY <1>1, <1>3 DEF TypeOK, LocalType, SetError, Goto
<1>. QED
  BY <1>2, <1>3 DEF Spawn

LEMMA TakeBufferEffect ==
  ASSUME TypeOK, NEW t \in Threads, TakeBuffer(t)
  PROVE  /\ pc[t] = "take" /\ pc'[t] = "code"
         /\ local'[t].bi = local[t].bi /\ local'[t].block = local[t].block
         /\ local'[t].res = local[t].res /\ local'[t].finished = local[t].finished
         /\ local'[t].bufIndex \in Buffers
         /\ UNCHANGED <<resVars, readerVars, ringVars, outBuf, written>>
<1>1. Head(freeBlocks) \in Buffers
  BY DEF TakeBuffer, TypeOK
<1>. QED
  BY <1>1 DEF TakeBuffer, TypeOK, LocalType, Goto

LEMMA CodeEffect ==
  ASSUME TypeOK, NEW t \in Threads, Code(t)
  PROVE  /\ pc[t] = "code" /\ pc'[t] = "record"
         /\ local'[t].bi = local[t].bi /\ local'[t].block = local[t].block
         /\ local'[t].finished = local[t].finished /\ local'[t].bufIndex = local[t].bufIndex
         /\ local'[t].res = "OK" => UNCHANGED progressRes
         /\ local'[t].res # "OK" => progressRes' # "OK"
         /\ progressRes' = "OK" => progressRes = "OK"
         /\ outBuf' = [outBuf EXCEPT ![local[t].bufIndex] = local[t].block]
         /\ UNCHANGED <<readRes, writeRes, readerVars, ringVars, freeBlocks, written>>
<1>. QED
  BY DEF Code, TypeOK, LocalType, Goto, SetError

LEMMA BecomeWriterEffect ==
  ASSUME TypeOK, NEW t \in Threads, BecomeWriter(t)
  PROVE  /\ pc[t] = "publish" /\ pc'[t] = "write" /\ writeIndex = local[t].bi
         /\ local'[t].wi = local[t].bi /\ local'[t].block = local[t].block
         /\ local'[t].finished = local[t].finished /\ local'[t].bufIndex = local[t].bufIndex
         /\ local'[t].res = (IF writeRes # "OK" THEN writeRes ELSE local[t].res)
         /\ UNCHANGED <<resVars, readerVars, readyBlocks, blocks, bufVars>>
<1>. QED
  BY DEF BecomeWriter, TypeOK, LocalType, Goto, MyTurn

LEMMA WriteBlockEffect ==
  ASSUME TypeOK, NEW t \in Threads, WriteBlock(t)
  PROVE  /\ pc[t] = "write" /\ pc'[t] = "advance"
         /\ local'[t].wi = local[t].wi
         /\ local'[t].finished = local[t].finished /\ local'[t].bufIndex = local[t].bufIndex
         /\ \/ /\ local[t].res = "OK" /\ local[t].bufIndex # None
               /\ written' = Append(written, outBuf[local[t].bufIndex])
               /\ UNCHANGED <<local, writeRes, progressRes>>
            \/ /\ local[t].res = "OK" /\ local[t].bufIndex # None
               /\ local'[t].res # "OK" /\ progressRes' # "OK" /\ UNCHANGED written
            \/ /\ local[t].res # "OK" \/ local[t].bufIndex = None
               /\ UNCHANGED <<local, writeRes, progressRes, written>>
         /\ progressRes' = "OK" => progressRes = "OK"
         /\ UNCHANGED <<readRes, readerVars, ringVars, freeBlocks, outBuf>>
<1>. QED
  BY DEF WriteBlock, TypeOK, LocalType, Goto, SetError

LEMMA AdvanceWriterEffect ==
  ASSUME TypeOK, NEW t \in Threads, AdvanceWriter(t)
  PROVE  /\ pc[t] = "advance" /\ pc'[t] = "release"
         /\ local'[t].res = local[t].res /\ local'[t].finished = local[t].finished
         /\ local'[t].wi = NextSlot(local[t].wi)
         /\ UNCHANGED <<resVars, readerVars, blocks, outBuf, written>>
<1>. QED
  BY DEF AdvanceWriter, TypeOK, LocalType, Goto

LEMMA LoadBlockEffect ==
  ASSUME TypeOK, NEW t \in Threads, LoadBlock(t)
  PROVE  /\ pc[t] = "load" /\ pc'[t] = "write" /\ local'[t].wi = local[t].wi
         /\ local'[t].res = IF local[t].res = "OK" THEN blocks[local[t].wi].res ELSE local[t].res
         /\ local'[t].bufIndex = blocks[local[t].wi].bufIndex
         /\ local'[t].finished = blocks[local[t].wi].finished
         /\ UNCHANGED <<resVars, readerVars, ringVars, bufVars>>
<1>. QED
  BY DEF LoadBlock, TypeOK, LocalType, Goto

\* How the set of blocks that wait for a writer changes.
LEMMA PendingStep ==
  ASSUME TypeOK, NEW t \in Threads, Thread(t), NEW f \in Slots, Ring(f), NEW s \in Slots
  PROVE  /\ Pending(s) \/ Pending(s)' => blocks'[s] = blocks[s]
         /\ Pending(s)' => Pending(s) \/ (LeaveReady(t) /\ s = local[t].bi)
         /\ Pending(s) => Pending(s)' \/ (LoadBlock(t) /\ s = local[t].wi)
<1>. DEFINE Fine == /\ Pending(s) \/ Pending(s)' => blocks'[s] = blocks[s]
                    /\ Pending(s)' => Pending(s) \/ (LeaveReady(t) /\ s = local[t].bi)
                    /\ Pending(s) => Pending(s)' \/ (LoadBlock(t) /\ s = local[t].wi)
<1>a. \A u \in Threads : u # t => (Taking(u)' <=> Taking(u)) /\ local'[u] = local[u]
  BY Others DEF Taking
<1>b. /\ Pending(s) <=> readyBlocks[s] \/ \E u \in Threads : Taking(u) /\ local[u].wi = s
      /\ Pending(s)' <=> readyBlocks'[s] \/ \E u \in Threads : Taking(u)' /\ local'[u].wi = s
  BY DEF Pending, Taking
<1>1. CASE LeaveReady(t)
  <2>1. /\ UNCHANGED blocks /\ pc[t] = "publish" /\ pc'[t] \in {"exit", "read"}
        /\ \A v \in Slots : v # local[t].bi => readyBlocks'[v] = readyBlocks[v]
    BY <1>1, MovingEffect DEF LeaveReady, TypeOK
  <2>2. ~Taking(t) /\ ~Taking(t)'
    BY <2>1 DEF Taking
  <2>3. s # local[t].bi => (Pending(s)' <=> Pending(s))
    BY <1>a, <1>b, <2>1, <2>2
  <2>4. ~Pending(local[t].bi)
    BY <2>1, CodingNotPending DEF Coding
  <2>. QED
    BY <1>1, <2>1, <2>3, <2>4
<1>2. CASE RecordBlock(t)
  <2>1. /\ UNCHANGED readyBlocks /\ pc[t] = "record" /\ pc'[t] = "publish"
        /\ \A v \in Slots : v # local[t].bi => blocks'[v] = blocks[v]
    BY <1>2 DEF RecordBlock, TypeOK, Goto
  <2>2. ~Taking(t) /\ ~Taking(t)'
    BY <2>1 DEF Taking
  <2>3. Pending(s)' <=> Pending(s)
    BY <1>a, <1>b, <2>1, <2>2
  <2>4. ~Pending(local[t].bi)
    BY <2>1, CodingNotPending DEF Coding
  <2>. QED
    BY <2>1, <2>3, <2>4
<1>3. CASE AdvanceWriter(t)
  <2>. DEFINE next == NextSlot(local[t].wi)
  <2>1. /\ pc[t] = "advance" /\ pc'[t] = "release" /\ next \in Slots
        /\ readyBlocks' = [readyBlocks EXCEPT ![next] = FALSE] /\ readyBlocks \in [Slots -> BOOLEAN]
        /\ local'[t].isReady = readyBlocks[next] /\ local'[t].wi = next /\ UNCHANGED blocks
    BY <1>3, LocalFields, NextSlotType DEF AdvanceWriter, Goto, TypeOK, LocalType
  <2>. HIDE DEF next
  <2>2. \A u \in Threads : ~Taking(u)
    BY <2>1 DEF Ring, OneWriter, Writing, Taking
  <2>3. Taking(t)' <=> readyBlocks[next]
    BY <2>1 DEF Taking
  <2>4. Pending(s)' <=> Pending(s)
    BY <1>a, <1>b, <2>1, <2>2, <2>3
  <2>. QED
    BY <2>1, <2>4
<1>4. CASE LoadBlock(t)
  <2>1. /\ UNCHANGED <<blocks, readyBlocks>> /\ pc[t] = "load" /\ pc'[t] = "write"
    BY <1>4, LoadBlockEffect DEF ringVars
  <2>2. ~Taking(t)'
    BY <2>1 DEF Taking
  <2>. QED
    BY <1>4, <1>a, <1>b, <2>1, <2>2
<1>5. ASSUME UNCHANGED <<blocks, readyBlocks>>, Taking(t)' <=> Taking(t), local'[t].wi = local[t].wi
             \/ ~Taking(t)
      PROVE  Fine
  <2>1. Pending(s)' <=> Pending(s)
    BY <1>5, <1>a, <1>b
  <2>. QED
    BY <1>5, <2>1
<1>6. CASE \/ pc[t] \in Moving \ {"record"}
           \/ CheckError(t) \/ ReadBlock(t) \/ ClaimSlot(t) \/ Spawn(t) \/ TakeBuffer(t)
           \/ Code(t) \/ BecomeWriter(t) \/ WriteBlock(t)
  <2>1. CASE pc[t] \in Moving \ {"record", "release"}
    BY <1>5, <2>1, MovingEffect DEF Moving, Taking
  <2>2. CASE pc[t] = "release"
    <3>1. ReleaseSlot(t)
      BY <2>2 DEF Thread, WaitStart, CountExit, CompareExit, WaitRead, PassOn, CheckError,
         ReadBlock, AcquireSlot, ClaimSlot, Spawn, CountStarted, UnlockRead, TakeBuffer, Code,
         RecordBlock, BecomeWriter, LeaveReady, WriteBlock, AdvanceWriter, LoadBlock
    <3>2. Taking(t)' <=> Taking(t)
      BY <2>2, <3>1 DEF Taking, ReleaseSlot, Goto, TypeOK
    <3>. QED
      BY <1>5, <2>2, <3>2, MovingEffect DEF Moving, SameLocal
  <2>3. CASE CheckError(t) \/ ReadBlock(t) \/ ClaimSlot(t) \/ Spawn(t) \/ TakeBuffer(t) \/ Code(t)
             \/ BecomeWriter(t) \/ WriteBlock(t)
    BY <1>5, <2>3, CheckErrorEffect, ReadBlockEffect, ClaimSlotEffect, SpawnEffect,
       TakeBufferEffect, CodeEffect, BecomeWriterEffect, WriteBlockEffect DEF Taking, ringVars
  <2>. QED
    BY <1>6, <2>1, <2>2, <2>3
<1>. QED
  BY <1>1, <1>2, <1>3, <1>4, <1>6 DEF Thread, Moving, WaitStart, CountExit, CompareExit, WaitRead,
     PassOn, AcquireSlot, CountStarted, UnlockRead, ReleaseSlot

\* The steps of a worker, once more.
LEMMA ThreadActs ==
  ASSUME NEW t \in Threads, Thread(t)
  PROVE  \/ pc[t] \in Moving \/ LeaveReady(t) \/ CheckError(t) \/ ReadBlock(t) \/ ClaimSlot(t)
         \/ Spawn(t) \/ TakeBuffer(t) \/ Code(t) \/ BecomeWriter(t) \/ WriteBlock(t)
         \/ AdvanceWriter(t) \/ LoadBlock(t)
<1>. QED
  BY DEF Thread, Moving, WaitStart, CountExit, CompareExit, WaitRead, PassOn, AcquireSlot,
     CountStarted, UnlockRead, RecordBlock, ReleaseSlot

\* An error that was recorded stays, and the input that was stopped stays stopped.
LEMMA Monotone ==
  ASSUME TypeOK, NEW t \in Threads, Thread(t)
  PROVE  /\ progressRes' = "OK" => progressRes = "OK"
         /\ stopReading => stopReading'
         /\ readRes' # "OK" => readRes # "OK" \/ progressRes' # "OK"
         /\ writeRes' # "OK" => writeRes # "OK" \/ progressRes' # "OK"
         /\ finishedEvent' => finishedEvent \/ pc[t] = "compare"
         /\ UNCHANGED <<mpc, call, result>>
<1>. USE DEF callVars, eventVars, resVars, readerVars, ringVars, bufVars, SetError
<1>1. CASE WaitStart(t)
  BY <1>1 DEF WaitStart
<1>2. CASE CountExit(t)
  BY <1>2 DEF CountExit
<1>3. CASE CompareExit(t)
  BY <1>3 DEF CompareExit
<1>4. CASE WaitRead(t)
  BY <1>4 DEF WaitRead
<1>5. CASE PassOn(t)
  BY <1>5 DEF PassOn
<1>6. CASE CheckError(t)
  BY <1>6 DEF CheckError
<1>7. CASE ReadBlock(t)
  BY <1>7 DEF ReadBlock
<1>8. CASE AcquireSlot(t)
  BY <1>8 DEF AcquireSlot
<1>9. CASE ClaimSlot(t)
  BY <1>9 DEF ClaimSlot
<1>10. CASE Spawn(t)
  BY <1>10 DEF Spawn
<1>11. CASE CountStarted(t)
  BY <1>11 DEF CountStarted
<1>12. CASE UnlockRead(t)
  BY <1>12 DEF UnlockRead
<1>13. CASE TakeBuffer(t)
  BY <1>13 DEF TakeBuffer
<1>14. CASE Code(t)
  BY <1>14 DEF Code
<1>15. CASE RecordBlock(t)
  BY <1>15 DEF RecordBlock
<1>16. CASE BecomeWriter(t)
  BY <1>16 DEF BecomeWriter
<1>17. CASE LeaveReady(t)
  BY <1>17 DEF LeaveReady
<1>18. CASE WriteBlock(t)
  BY <1>18 DEF WriteBlock
<1>19. CASE AdvanceWriter(t)
  BY <1>19 DEF AdvanceWriter
<1>20. CASE ReleaseSlot(t)
  BY <1>20 DEF ReleaseSlot
<1>21. CASE LoadBlock(t)
  BY <1>21 DEF LoadBlock
<1>. QED
  BY <1>1, <1>2, <1>3, <1>4, <1>5, <1>6, <1>7, <1>8, <1>9, <1>10, <1>11,
     <1>12, <1>13, <1>14, <1>15, <1>16, <1>17, <1>18, <1>19, <1>20, <1>21 DEF Thread

Ended == stopReading \/ progressRes # "OK"

\* What a thread, or a slot, says of errors and of the end of the input is known to all.
ErrorOf(t) ==
  /\ pc[t] \in Coding \cup WriterPcs \cup {"acquire", "claim"} /\ local[t].res # "OK" =>
       progressRes # "OK"
  /\ pc[t] \in {"fill", "take", "code"} => local[t].res = "OK"
  /\ pc[t] \in {"pass", "exit", "compare"} => Ended
  /\ pc[t] \in CoderPcs \cup WriterPcs /\ local[t].finished => Ended
ErrorIn(s) ==
  Pending(s) => /\ blocks[s].res # "OK" => progressRes # "OK"
                /\ blocks[s].finished => Ended
Errors ==
  /\ readRes # "OK" \/ writeRes # "OK" => progressRes # "OK"
  /\ \A t \in Threads : ErrorOf(t)
  /\ \A s \in Slots : ErrorIn(s)
  /\ finishedEvent \/ mpc = "collect" => Ended

LEMMA ErrorsStep ==
  ASSUME TypeOK, NEW t \in Threads, Thread(t), NEW f \in Slots, Ring(f), BufInv, Errors
  PROVE  Errors'
<1>a. Ended => Ended'
  BY Monotone DEF Ended
<1>b. ErrorOf(t) /\ NotedDown(t)
  BY DEF Errors, BufInv
<1>1. readRes' # "OK" \/ writeRes' # "OK" => progressRes' # "OK"
  BY Monotone DEF Errors
<1>2. \A u \in Threads : u # t => ErrorOf(u)'
  BY <1>a, Monotone, Others DEF Errors, ErrorOf, Coding, WriterPcs, CoderPcs
<1>3. \A s \in Slots : ErrorIn(s)'
  <2>1. ASSUME NEW s \in Slots, Pending(s)'
        PROVE  /\ blocks'[s].res # "OK" => progressRes' # "OK"
               /\ blocks'[s].finished => Ended'
    <3>1. CASE Pending(s)
      <4>1. ErrorIn(s) /\ blocks'[s] = blocks[s]
        BY <3>1, PendingStep DEF Errors
      <4>. QED
        BY <1>a, <3>1, <4>1, Monotone DEF ErrorIn
    <3>2. CASE LeaveReady(t) /\ s = local[t].bi
      <4>1. pc[t] = "publish"
        BY <3>2 DEF LeaveReady
      <4>2. blocks'[s].res = local[t].res /\ blocks'[s].finished = local[t].finished
        BY <1>b, <2>1, <3>2, <4>1, PendingStep DEF NotedDown
      <4>. QED
        BY <1>a, <1>b, <4>1, <4>2, Monotone DEF ErrorOf, Coding, CoderPcs
    <3>. QED
      BY <2>1, <3>1, <3>2, PendingStep
  <2>. QED
    BY <2>1 DEF ErrorIn
<1>4. finishedEvent' \/ mpc' = "collect" => Ended'
  BY <1>a, <1>b, Monotone DEF Errors, ErrorOf
<1>5. ErrorOf(t)'
  <2>. USE DEF Coding, WriterPcs, CoderPcs
  <2>1. CASE pc[t] \in Moving \/ LeaveReady(t)
    <3>1. SameLocal(t) /\ UNCHANGED resVars
      BY <2>1, MovingEffect
    <3>2. pc[t] \in Moving \cup {"publish"}
      BY <2>1 DEF LeaveReady
    <3>3. CASE pc[t] \in {"idle", "exit", "compare", "pass", "acquire", "count"}
      BY <1>a, <1>b, <3>1, <3>3, MovingEffect DEF ErrorOf, SameLocal, Moving, resVars
    <3>4. CASE pc[t] = "read"
      BY <1>a, <1>b, <3>1, <3>4, MovingEffect DEF ErrorOf, SameLocal, Moving, Ended
    <3>5. CASE pc[t] = "unlock"
      BY <1>a, <1>b, <3>1, <3>5, MovingEffect DEF ErrorOf, SameLocal, Moving, Ended, resVars
    <3>6. CASE pc[t] = "record"
      BY <1>a, <1>b, <3>1, <3>6, MovingEffect DEF ErrorOf, SameLocal, Moving, resVars
    <3>7. CASE pc[t] = "publish"
      BY <1>a, <1>b, <2>1, <3>1, <3>7, MovingEffect
         DEF ErrorOf, SameLocal, Moving, Leaves, Ended, resVars
    <3>8. CASE pc[t] = "release"
      BY <1>a, <1>b, <3>1, <3>8, MovingEffect
         DEF ErrorOf, SameLocal, Moving, Leaves, Ended, resVars
    <3>. QED
      BY <3>2, <3>3, <3>4, <3>5, <3>6, <3>7, <3>8 DEF Moving
  <2>2. CASE CheckError(t)
    BY <2>2, CheckErrorEffect DEF ErrorOf, resVars
  <2>3. CASE ReadBlock(t)
    BY <1>b, <2>3, ReadBlockEffect DEF ErrorOf
  <2>4. CASE ClaimSlot(t)
    BY <1>b, <2>4, ClaimSlotEffect DEF ErrorOf, resVars
  <2>5. CASE Spawn(t)
    BY <1>b, <2>5, SpawnEffect DEF ErrorOf
  <2>6. CASE TakeBuffer(t)
    BY <1>a, <1>b, <2>6, TakeBufferEffect DEF ErrorOf
  <2>7. CASE Code(t)
    BY <1>a, <1>b, <2>7, CodeEffect DEF ErrorOf
  <2>8. CASE BecomeWriter(t)
    BY <1>a, <1>b, <2>8, BecomeWriterEffect DEF ErrorOf, Errors, resVars
  <2>9. CASE WriteBlock(t)
    BY <1>a, <1>b, <2>9, WriteBlockEffect DEF ErrorOf
  <2>10. CASE AdvanceWriter(t)
    BY <1>a, <1>b, <2>10, AdvanceWriterEffect DEF ErrorOf, resVars
  <2>11. CASE LoadBlock(t)
    <3>1. Pending(local[t].wi) /\ local[t].wi \in Slots
      BY <2>11, LocalFields DEF Pending, LoadBlock, TypeOK
    <3>2. /\ blocks[local[t].wi].res # "OK" => progressRes # "OK"
          /\ blocks[local[t].wi].finished => Ended
      BY <3>1 DEF Errors, ErrorIn
    <3>. QED
      BY <1>a, <1>b, <2>11, <3>2, LoadBlockEffect DEF ErrorOf, resVars
  <2>. QED
    BY <2>1, <2>2, <2>3, <2>4, <2>5, <2>6, <2>7, <2>8, <2>9, <2>10, <2>11, ThreadActs
<1>. QED
  BY <1>1, <1>2, <1>3, <1>4, <1>5 DEF Errors

\* The threads that are reading, and the block one of them has read for the next slot.
Reader(t)   == pc[t] \in ReaderPcs \ {"pass"}
Stopper(t)  == pc[t] \in {"spawn", "count", "unlock"} /\ local[t].finished
Claimer(t)  == pc[t] \in {"acquire", "claim"}
HasBlock(t) == Claimer(t) /\ local[t].res = "OK"

\* Reading goes on: no thread has met the end, or an error, and is to stop it.
Going == ~stopReading /\ \A t \in Threads : ~Stopper(t)

\* When k slots were passed by writers, and so k + Claimed were claimed, as many blocks
\* were read, and one more while a thread has it and no slot for it; at the end, all.
Reads(k) ==
  /\ k + Claimed <= LastBlock + 1
  /\ Going \/ progressRes = "OK" =>
       nextBlock = k + Claimed + (IF \E t \in Threads : HasBlock(t) THEN 1 ELSE 0)
  /\ \A t \in Threads : Claimer(t) =>
       /\ Going /\ k + Claimed <= LastBlock
       /\ local[t].res = "OK" => /\ local[t].block = k + Claimed
                                 /\ local[t].finished = (local[t].block = LastBlock)
  /\ \A t \in Threads : Reader(t) => ~stopReading
  /\ Going /\ ~(\E t \in Threads : HasBlock(t)) => nextBlock <= LastBlock
  /\ ~Going /\ progressRes = "OK" => nextBlock = LastBlock + 1

\* The same, of the only thread that may be reading.
ReadsOf(t, k) ==
  LET going == ~stopReading /\ ~Stopper(t) IN
  /\ k + Claimed <= LastBlock + 1
  /\ going \/ progressRes = "OK" => nextBlock = k + Claimed + (IF HasBlock(t) THEN 1 ELSE 0)
  /\ Claimer(t) => /\ going /\ k + Claimed <= LastBlock
                   /\ local[t].res = "OK" => /\ local[t].block = k + Claimed
                                             /\ local[t].finished = (local[t].block = LastBlock)
  /\ Reader(t) => ~stopReading
  /\ going /\ ~HasBlock(t) => nextBlock <= LastBlock
  /\ ~going /\ progressRes = "OK" => nextBlock = LastBlock + 1

LEMMA ReadsAlone ==
  ASSUME NEW t \in Threads, NEW k, \A u \in Threads : u # t => ~Reader(u)
  PROVE  Reads(k) <=> ReadsOf(t, k)
<1>1. \A u \in Threads : u # t => ~Stopper(u) /\ ~Claimer(u) /\ ~HasBlock(u)
  BY DEF Reader, Stopper, Claimer, HasBlock, ReaderPcs
<1>2. Going <=> ~stopReading /\ ~Stopper(t)
  BY <1>1 DEF Going
<1>3. (\E u \in Threads : HasBlock(u)) <=> HasBlock(t)
  BY <1>1
<1>4. \A u \in Threads : (Claimer(u) => u = t) /\ (Reader(u) => u = t)
  BY <1>1
<1>. HIDE DEF Stopper, HasBlock, Going, Claimer, Reader
<1>. QED
  BY <1>2, <1>3, <1>4 DEF Reads, ReadsOf

LEMMA ReadsAloneNext ==
  ASSUME NEW t \in Threads, NEW k, \A u \in Threads : u # t => ~Reader(u)'
  PROVE  Reads(k)' <=> ReadsOf(t, k)'
<1>1. \A u \in Threads : u # t => ~Stopper(u)' /\ ~Claimer(u)' /\ ~HasBlock(u)'
  BY DEF Reader, Stopper, Claimer, HasBlock, ReaderPcs
<1>2. Going' <=> ~stopReading' /\ ~Stopper(t)'
  BY <1>1 DEF Going
<1>3. (\E u \in Threads : HasBlock(u)') <=> HasBlock(t)'
  BY <1>1
<1>4. \A u \in Threads : (Claimer(u)' => u = t) /\ (Reader(u)' => u = t)
  BY <1>1
<1>. HIDE DEF Stopper, HasBlock, Going, Claimer, Reader
<1>. QED
  BY <1>2, <1>3, <1>4 DEF Reads, ReadsOf

\* A step that neither reads nor claims; a writer may pass a slot.
LEMMA ReadsSame ==
  ASSUME NEW k \in Nat, NEW kk \in Nat, Reads(k), kk + Claimed' = k + Claimed,
         UNCHANGED <<call, nextBlock, stopReading>>,
         progressRes' = "OK" => progressRes = "OK",
         \A u \in Threads : \/ ~Reader(u) /\ ~Reader(u)'
                            \/ pc'[u] = pc[u] /\ local'[u] = local[u]
  PROVE  Reads(kk)'
<1>1. \A u \in Threads : /\ Reader(u)' <=> Reader(u)
                         /\ Stopper(u)' <=> Stopper(u)
                         /\ Claimer(u)' <=> Claimer(u)
                         /\ HasBlock(u)' <=> HasBlock(u)
                         /\ Claimer(u) => local'[u] = local[u]
  BY DEF Reader, Stopper, Claimer, HasBlock, ReaderPcs
<1>2. Going' <=> Going
  BY <1>1 DEF Going
<1>3. LastBlock' = LastBlock
  BY DEF LastBlock
<1>4. (\E u \in Threads : HasBlock(u)') <=> \E u \in Threads : HasBlock(u)
  BY <1>1
<1>. HIDE DEF Reader, Stopper, HasBlock, Going, Claimer
<1>5. \A u \in Threads : Claimer(u)' =>
       /\ Going' /\ kk + Claimed' <= LastBlock'
       /\ local'[u].res = "OK" => /\ local'[u].block = kk + Claimed'
                                  /\ local'[u].finished = (local'[u].block = LastBlock')
  BY <1>1, <1>2, <1>3 DEF Reads
<1>6. \A u \in Threads : Reader(u)' => ~stopReading'
  BY <1>1 DEF Reads
<1>. QED
  BY <1>2, <1>3, <1>4, <1>5, <1>6 DEF Reads

LEMMA LastBlockType == TypeOK /\ call > 0 => LastBlock \in Nat
<1>. QED
  BY ConstantsAssumption DEF TypeOK, LastBlock

LEMMA ReadsStep ==
  ASSUME TypeOK, TypeOK', OneReader, NEW t \in Threads, Thread(t), Errors, call > 0,
         NEW k \in Nat, Reads(k)
  PROVE  IF pc[t] = "advance" THEN Reads(k + 1)' ELSE Reads(k)'
<1>a. /\ Claimed \in Int /\ Claimed' = IF pc[t] = "claim" THEN Claimed + 1
                    ELSE IF pc[t] = "advance" THEN Claimed - 1 ELSE Claimed
  BY Counts
<1>b. /\ nextBlock \in Nat /\ LastBlock \in Nat /\ LastBlock' = LastBlock
      /\ stopReading \in BOOLEAN /\ stopReading' \in BOOLEAN
      /\ local[t].finished \in BOOLEAN
  <2>1. call' = call
    BY Monotone
  <2>2. LastBlock \in Nat
    BY LastBlockType
  <2>. QED
    BY <2>1, <2>2, LocalFields DEF LastBlock, TypeOK
<1>c. \A u \in Threads : u # t => pc'[u] = pc[u] \/ (pc[u] = "none" /\ pc'[u] = "idle")
  BY Others
<1>d. progressRes' = "OK" => progressRes = "OK"
  BY Monotone
<1>e. ErrorOf(t)
  BY DEF Errors
<1>1. ASSUME \A u \in Threads : u # t => ~Reader(u), ReadsOf(t, k) => ReadsOf(t, k)', pc[t] # "advance"
      PROVE  Reads(k)'
  <2>1. \A u \in Threads : u # t => ~Reader(u)'
    BY <1>1, <1>c DEF Reader, ReaderPcs
  <2>2. ReadsOf(t, k)
    BY <1>1, ReadsAlone
  <2>. QED
    BY <1>1, <2>1, <2>2, ReadsAloneNext
<1>2. ASSUME Reader(t) \/ (pc[t] = "read" /\ readEvent)
      PROVE  \A u \in Threads : u # t => ~Reader(u)
  BY <1>2 DEF Reader, OneReader, ReaderPcs
<1>3. ASSUME ~Reader(t), ~Reader(t)', UNCHANGED <<nextBlock, stopReading>>
      PROVE  IF pc[t] = "advance" THEN Reads(k + 1)' ELSE Reads(k)'
  <2>1. \A u \in Threads : \/ ~Reader(u) /\ ~Reader(u)'
                           \/ pc'[u] = pc[u] /\ local'[u] = local[u]
    <3>1. ASSUME NEW u \in Threads, u # t, pc[u] = "none", pc'[u] = "idle"
          PROVE  ~Reader(u) /\ ~Reader(u)'
      BY <3>1 DEF Reader, ReaderPcs
    <3>. QED
      BY <1>3, <3>1, Others
  <2>2. UNCHANGED call
    BY Monotone
  <2>3. CASE pc[t] = "advance"
    <3>1. k + 1 \in Nat /\ (k + 1) + Claimed' = k + Claimed
      BY <1>a, <2>3
    <3>. QED
      BY <1>3, <1>d, <2>1, <2>2, <2>3, <3>1, ReadsSame
  <2>4. CASE pc[t] # "advance"
    <3>1. pc[t] # "claim"
      BY <1>3 DEF Reader, ReaderPcs
    <3>2. k + Claimed' = k + Claimed
      BY <1>a, <2>4, <3>1
    <3>. QED
      BY <1>3, <1>d, <2>1, <2>2, <2>4, <3>2, ReadsSame
  <2>. QED
    BY <2>3, <2>4
<1>. USE DEF Reader, Stopper, Claimer, HasBlock, ReaderPcs
<1>4. CASE pc[t] \in Moving \/ LeaveReady(t)
  <2>1. SameLocal(t) /\ UNCHANGED <<resVars, nextBlock>>
    BY <1>4, MovingEffect
  <2>2. pc[t] \in Moving \cup {"publish"}
    BY <1>4 DEF LeaveReady
  <2>3. CASE pc[t] \in {"idle", "exit", "compare", "pass", "record", "publish", "release"}
    <3>1. pc'[t] \in {"dead", "read", "compare", "idle", "exit", "publish", "load"}
      BY <1>4, <2>3, MovingEffect
    <3>2. UNCHANGED stopReading
      BY <1>4, <2>3, MovingEffect
    <3>. QED
      BY <1>3, <2>1, <2>3, <3>1, <3>2
  <2>4. CASE pc[t] = "read"
    <3>1. readEvent /\ UNCHANGED stopReading /\ pc'[t] = IF stopReading THEN "pass" ELSE "check"
      BY <1>4, <2>4, MovingEffect
    <3>2. ReadsOf(t, k) => ReadsOf(t, k)'
      BY <1>a, <1>b, <1>d, <2>1, <2>4, <3>1 DEF ReadsOf, resVars
    <3>. QED
      BY <1>1, <1>2, <2>4, <3>1, <3>2
  <2>5. CASE pc[t] \in {"acquire", "count"}
    <3>1. UNCHANGED stopReading /\ pc'[t] = IF pc[t] = "acquire" THEN "claim" ELSE "unlock"
      BY <1>4, <2>5, MovingEffect
    <3>2. ReadsOf(t, k) => ReadsOf(t, k)'
      BY <1>a, <1>b, <2>1, <2>5, <3>1 DEF ReadsOf, resVars, SameLocal
    <3>. QED
      BY <1>1, <1>2, <2>5, <3>2
  <2>6. CASE pc[t] = "unlock"
    <3>1. /\ stopReading' = (stopReading \/ local[t].finished)
          /\ pc'[t] \in {"take", "record"}
      BY <1>4, <2>6, MovingEffect
    <3>2. ReadsOf(t, k) => ReadsOf(t, k)'
      BY <1>a, <1>b, <2>1, <2>6, <3>1 DEF ReadsOf, resVars, SameLocal
    <3>. QED
      BY <1>1, <1>2, <2>6, <3>2
  <2>. QED
    BY <2>2, <2>3, <2>4, <2>5, <2>6 DEF Moving
<1>5. CASE CheckError(t)
  <2>1. ReadsOf(t, k) => ReadsOf(t, k)'
    BY <1>5, <1>a, <1>b, CheckErrorEffect DEF ReadsOf, resVars, readerVars
  <2>. QED
    BY <1>1, <1>2, <1>5, <2>1, CheckErrorEffect
<1>6. CASE ReadBlock(t)
  <2>1. ReadsOf(t, k) => ReadsOf(t, k)'
    BY <1>6, <1>a, <1>b, <1>e, ReadBlockEffect DEF ReadsOf, ErrorOf
  <2>. QED
    BY <1>1, <1>2, <1>6, <2>1, ReadBlockEffect
<1>7. CASE ClaimSlot(t)
  <2>1. ReadsOf(t, k) => ReadsOf(t, k)'
    <3>1. /\ pc[t] = "claim" /\ pc'[t] \in {"spawn", "unlock"} /\ Claimed' = Claimed + 1
          /\ local'[t].block = local[t].block /\ UNCHANGED <<progressRes, nextBlock, stopReading>>
          /\ local'[t].finished = (local[t].finished \/ local'[t].res # "OK")
      BY <1>7, <1>a, ClaimSlotEffect DEF resVars
    <3>2. CASE local'[t].res = "OK"
      <4>1. local[t].res = "OK" /\ progressRes = "OK" /\ local'[t].finished = local[t].finished
        BY <1>7, <1>b, <3>1, <3>2, ClaimSlotEffect
      <4>. QED
        BY <1>a, <1>b, <3>1, <3>2, <4>1 DEF ReadsOf
    <3>3. CASE local'[t].res # "OK"
      <4>1. progressRes # "OK" /\ local'[t].finished
        BY <1>7, <1>e, <3>1, <3>3, ClaimSlotEffect DEF ErrorOf
      <4>. QED
        BY <1>a, <1>b, <3>1, <3>3, <4>1 DEF ReadsOf
    <3>. QED
      BY <3>2, <3>3
  <2>. QED
    BY <1>1, <1>2, <1>7, <2>1, ClaimSlotEffect
<1>8. CASE Spawn(t)
  <2>1. ReadsOf(t, k) => ReadsOf(t, k)'
    BY <1>8, <1>a, <1>b, SpawnEffect DEF ReadsOf, readerVars
  <2>. QED
    BY <1>1, <1>2, <1>8, <2>1, SpawnEffect
<1>9. CASE \/ TakeBuffer(t) \/ Code(t) \/ BecomeWriter(t) \/ WriteBlock(t) \/ AdvanceWriter(t)
           \/ LoadBlock(t)
  <2>1. /\ pc[t] \in {"take", "code", "publish", "write", "advance", "load"}
        /\ pc'[t] \in {"code", "record", "write", "advance", "release"}
        /\ UNCHANGED <<nextBlock, stopReading>>
    BY <1>9, TakeBufferEffect, CodeEffect, BecomeWriterEffect, WriteBlockEffect,
       AdvanceWriterEffect, LoadBlockEffect DEF readerVars
  <2>. QED
    BY <1>3, <2>1
<1>. QED
  BY <1>4, <1>5, <1>6, <1>7, <1>8, <1>9, ThreadActs

\* Which block is where: a thread that encodes has the block of its slot, what it leaves or
\* writes is in its buffer, and the writer is at block k.
NumberedOf(t, f, k) ==
  /\ pc[t] \in Coding /\ local[t].res = "OK" => local[t].block = k + Dist(f, local[t].bi)
  /\ pc[t] \in {"record", "publish"} /\ local[t].res = "OK" =>
       local[t].bufIndex \in Buffers /\ outBuf[local[t].bufIndex] = local[t].block
  /\ pc[t] = "write" /\ local[t].res = "OK" =>
       local[t].bufIndex \in Buffers /\ outBuf[local[t].bufIndex] = k
  /\ pc[t] = "code" => local[t].bufIndex \in Buffers
NumberedIn(s, f, k) ==
  Pending(s) /\ blocks[s].res = "OK" =>
    blocks[s].bufIndex \in Buffers /\ outBuf[blocks[s].bufIndex] = k + Dist(f, s)
Numbered(f, k) ==
  /\ \A t \in Threads : NumberedOf(t, f, k)
  /\ \A s \in Slots : NumberedIn(s, f, k)

\* A buffer is written by the thread that encodes into it only.
LEMMA OutKept ==
  ASSUME TypeOK, NEW t \in Threads, Thread(t), OnePlace, NEW f, NEW k, Numbered(f, k)
  PROVE  /\ \A u \in Threads : u # t /\ Holding(u) =>
              outBuf'[local[u].bufIndex] = outBuf[local[u].bufIndex]
         /\ \A s \in Slots : Pending(s) /\ blocks[s].bufIndex \in Buffers =>
              outBuf'[blocks[s].bufIndex] = outBuf[blocks[s].bufIndex]
<1>1. CASE Code(t)
  <2>. DEFINE c == local[t].bufIndex
  <2>1. pc[t] = "code" /\ c \in Buffers /\ outBuf \in [Buffers -> Nat]
    BY <1>1, CodeEffect DEF Numbered, NumberedOf, TypeOK
  <2>2. \A b \in Buffers : b # c => outBuf'[b] = outBuf[b]
    BY <1>1, <2>1, CodeEffect
  <2>3. Holding(t) /\ Held(c)
    BY <2>1 DEF Holding, Held, Buffers, None
  <2>4. \A u \in Threads : u # t /\ Holding(u) => local[u].bufIndex \in Buffers \ {c}
    BY <2>3, LocalFields DEF OnePlace, Holding, TypeOK
  <2>5. \A s \in Slots : Pending(s) => blocks[s].bufIndex # c
    BY <2>1, <2>3 DEF OnePlace, Waits
  <2>. QED
    BY <2>2, <2>4, <2>5
<1>2. CASE ~Code(t)
  <2>1. UNCHANGED outBuf
    BY <1>2, ThreadActs, MovingEffect, CheckErrorEffect, ReadBlockEffect, ClaimSlotEffect,
       SpawnEffect, TakeBufferEffect, BecomeWriterEffect, WriteBlockEffect, AdvanceWriterEffect,
       LoadBlockEffect DEF bufVars
  <2>. QED
    BY <2>1
<1>. QED
  BY <1>1, <1>2

\* A writer is at the front, and its slot is nobody else's.
LEMMA WriterAtFront ==
  ASSUME NEW t \in Threads, NEW f \in Slots, Ring(f), Writing(t)
  PROVE  /\ local[t].wi = f /\ \A u \in Threads : u # t => ~Writing(u)
         /\ \A u \in Threads : pc[u] \in Coding => local[u].bi # f
         /\ ~readyBlocks[f]
         /\ pc[t] = "advance" => ~Pending(f)
<1>1. local[t].wi = f /\ \A u \in Threads : u # t => ~Writing(u)
  BY DEF Ring, AtFront, OneWriter
<1>2. HasSlot(t) /\ SlotOf(t) = f
  BY <1>1 DEF HasSlot, SlotOf, Coding, Writing
<1>3. ASSUME NEW u \in Threads, pc[u] \in Coding PROVE local[u].bi # f
  <2>1. HasSlot(u) /\ SlotOf(u) = local[u].bi /\ u # t
    BY <1>3 DEF HasSlot, SlotOf, Coding, Writing
  <2>. QED
    BY <1>2, <2>1 DEF Ring, InUse
<1>4. ~readyBlocks[f]
  BY <1>2 DEF Ring, InUse
<1>5. pc[t] = "advance" => ~Pending(f)
  BY <1>1, <1>4 DEF Pending, Writing
<1>. QED
  BY <1>1, <1>3, <1>4, <1>5

\* Passing a slot moves every other one a place nearer to the front.
LEMMA Nearer ==
  ASSUME NEW f \in Slots, NEW k \in Nat, NEW s \in Slots, s # f
  PROVE  (k + 1) + Dist(NextSlot(f), s) = k + Dist(f, s)
<1>1. Dist(NextSlot(f), s) = Dist(f, s) - 1 /\ Dist(f, s) \in Int
  BY DistFacts
<1>. QED
  BY <1>1

LEMMA NumberedOthers ==
  ASSUME TypeOK, NEW t \in Threads, Thread(t), BufInv, NEW f \in Slots, Ring(f),
         NEW k \in Nat, Numbered(f, k), NEW u \in Threads, u # t
  PROVE  IF pc[t] = "advance" THEN NumberedOf(u, NextSlot(f), k + 1)' ELSE NumberedOf(u, f, k)'
<1>1. pc'[u] = pc[u] \/ pc'[u] = "idle"
  BY Others
<1>2. local'[u] = local[u] /\ NumberedOf(u, f, k) /\ local[u].bi \in Slots
  BY Others, LocalFields DEF Numbered, TypeOK
<1>3. pc[u] \in {"record", "publish", "write"} /\ local[u].bufIndex \in Buffers =>
        outBuf'[local[u].bufIndex] = outBuf[local[u].bufIndex]
  <2>1. pc[u] \in {"record", "publish", "write"} /\ local[u].bufIndex \in Buffers => Holding(u)
    BY DEF Holding, Buffers, None
  <2>. QED
    BY <2>1, OutKept DEF BufInv
<1>4. CASE pc[t] = "advance"
  <2>1. Writing(t)
    BY <1>4 DEF Writing
  <2>2. pc[u] # "write" /\ (pc[u] \in Coding => local[u].bi # f)
    BY <2>1, WriterAtFront DEF Writing
  <2>3. pc[u] \in Coding => (k + 1) + Dist(NextSlot(f), local[u].bi) = k + Dist(f, local[u].bi)
    BY <1>2, <2>2, Nearer
  <2>4. \A d \in Int : Dist(NextSlot(f), d)' = Dist(NextSlot(f), d)
    BY DEF Dist, NextSlot
  <2>. QED
    BY <1>1, <1>2, <1>3, <1>4, <2>2, <2>3 DEF NumberedOf, Coding
<1>5. CASE pc[t] # "advance"
  BY <1>1, <1>2, <1>3, <1>5 DEF NumberedOf, Coding
<1>. QED
  BY <1>4, <1>5

LEMMA NumberedSlots ==
  ASSUME TypeOK, NEW t \in Threads, Thread(t), BufInv, NEW f \in Slots, Ring(f),
         NEW k \in Nat, Numbered(f, k), NEW s \in Slots
  PROVE  IF pc[t] = "advance" THEN NumberedIn(s, NextSlot(f), k + 1)' ELSE NumberedIn(s, f, k)'
<1>1. CASE Pending(s) /\ Pending(s)'
  <2>1. blocks'[s] = blocks[s] /\ NumberedIn(s, f, k)
    BY <1>1, PendingStep DEF Numbered
  <2>2. blocks[s].bufIndex \in Buffers => outBuf'[blocks[s].bufIndex] = outBuf[blocks[s].bufIndex]
    BY <1>1, OutKept DEF BufInv
  <2>3. CASE pc[t] = "advance"
    <3>1. s # f
      BY <1>1, <2>3, WriterAtFront DEF Writing
    <3>. QED
      BY <1>1, <2>1, <2>2, <2>3, <3>1, Nearer DEF NumberedIn
  <2>. QED
    BY <1>1, <2>1, <2>2, <2>3 DEF NumberedIn
<1>2. CASE ~Pending(s) /\ Pending(s)'
  <2>1. LeaveReady(t) /\ s = local[t].bi /\ blocks'[s] = blocks[s]
    BY <1>2, PendingStep
  <2>2. pc[t] = "publish" /\ UNCHANGED outBuf
    BY <2>1, MovingEffect DEF LeaveReady
  <2>3. blocks[s].res = local[t].res /\ blocks[s].bufIndex = local[t].bufIndex
    BY <2>1, <2>2 DEF BufInv, NotedDown
  <2>4. NumberedOf(t, f, k)
    BY DEF Numbered
  <2>. QED
    BY <2>1, <2>2, <2>3, <2>4 DEF NumberedIn, NumberedOf, Coding
<1>3. CASE ~Pending(s)'
  BY <1>3 DEF NumberedIn
<1>. QED
  BY <1>1, <1>2, <1>3

LEMMA NumberedStep ==
  ASSUME TypeOK, TypeOK', NEW t \in Threads, Thread(t), BufInv, NEW f \in Slots, Ring(f),
         NEW k \in Nat, Errors, Reads(k), Numbered(f, k)
  PROVE  IF pc[t] = "advance" THEN Numbered(NextSlot(f), k + 1)' ELSE Numbered(f, k)'
<1>. SUFFICES IF pc[t] = "advance" THEN NumberedOf(t, NextSlot(f), k + 1)' ELSE NumberedOf(t, f, k)'
  BY NumberedOthers, NumberedSlots DEF Numbered
<1>a. NumberedOf(t, f, k) /\ local[t].bi \in Slots /\ NoBuffer(t)
  BY LocalFields DEF Numbered, TypeOK, BufInv
<1>. USE DEF Coding
<1>1. CASE pc[t] \in Moving \/ LeaveReady(t)
  <2>1. SameLocal(t) /\ UNCHANGED outBuf /\ pc[t] \in Moving \cup {"publish"}
    BY <1>1, MovingEffect DEF LeaveReady
  <2>2. CASE pc[t] \in {"idle", "exit", "compare", "read", "pass", "acquire", "publish", "release"}
    <3>1. pc'[t] \in {"dead", "read", "compare", "idle", "pass", "check", "exit", "claim", "load"}
      BY <1>1, <2>2, MovingEffect
    <3>. QED
      BY <2>2, <3>1 DEF NumberedOf
  <2>3. CASE pc[t] \in {"count", "unlock", "record"}
    <3>1. \/ pc[t] = "count" /\ pc'[t] = "unlock"
          \/ pc[t] = "unlock" /\ pc'[t] = IF local[t].res = "OK" THEN "take" ELSE "record"
          \/ pc[t] = "record" /\ pc'[t] = "publish"
      BY <1>1, <2>3, MovingEffect
    <3>. QED
      BY <1>a, <2>1, <3>1 DEF NumberedOf, SameLocal
  <2>. QED
    BY <2>1, <2>2, <2>3 DEF Moving
<1>2. CASE CheckError(t) \/ ReadBlock(t) \/ WriteBlock(t) \/ AdvanceWriter(t)
  <2>1. pc'[t] \in {"fill", "acquire", "advance", "release"}
    BY <1>2, CheckErrorEffect, ReadBlockEffect, WriteBlockEffect, AdvanceWriterEffect
  <2>. QED
    BY <2>1 DEF NumberedOf
<1>3. CASE ClaimSlot(t)
  <2>1. /\ pc[t] = "claim" /\ pc'[t] \in {"spawn", "unlock"} /\ local'[t].bi = blockIndex
        /\ local'[t].block = local[t].block
        /\ local'[t].res = "OK" => local[t].res = "OK"
    BY <1>3, ClaimSlotEffect
  <2>2. Claimed \in 0 .. NumBlocksMax /\ Claimed < NumBlocksMax /\ blockIndex = At(f, Claimed)
    BY <2>1, Counts DEF Ring, InUse
  <2>3. Dist(f, blockIndex) = Claimed
    BY <2>2, AtFacts
  <2>4. local[t].res = "OK" => local[t].block = k + Claimed
    BY <2>1 DEF Reads, Claimer
  <2>. QED
    BY <2>1, <2>3, <2>4 DEF NumberedOf
<1>4. CASE Spawn(t)
  BY <1>4, <1>a, SpawnEffect DEF NumberedOf
<1>5. CASE TakeBuffer(t)
  BY <1>5, <1>a, TakeBufferEffect DEF NumberedOf
<1>6. CASE Code(t)
  <2>1. /\ pc[t] = "code" /\ pc'[t] = "record"
        /\ local'[t].bi = local[t].bi /\ local'[t].block = local[t].block
        /\ local'[t].bufIndex = local[t].bufIndex /\ local[t].bufIndex \in Buffers
    BY <1>6, <1>a, CodeEffect DEF NumberedOf
  <2>2. outBuf'[local[t].bufIndex] = local[t].block
    BY <1>6, <2>1, CodeEffect DEF TypeOK
  <2>3. local[t].res = "OK"
    BY <2>1 DEF Errors, ErrorOf
  <2>. QED
    BY <1>a, <2>1, <2>2, <2>3 DEF NumberedOf
<1>7. CASE BecomeWriter(t)
  <2>1. /\ pc[t] = "publish" /\ pc'[t] = "write" /\ writeIndex = local[t].bi
        /\ local'[t].bufIndex = local[t].bufIndex /\ UNCHANGED outBuf
        /\ local'[t].res = "OK" => local[t].res = "OK"
    BY <1>7, BecomeWriterEffect DEF bufVars
  <2>2. local[t].bi = f
    BY <1>a, <2>1 DEF Ring, AtFront, Slots, None
  <2>3. Dist(f, local[t].bi) = 0
    BY <2>2, DistFacts
  <2>. QED
    BY <1>a, <2>1, <2>3 DEF NumberedOf
<1>8. CASE LoadBlock(t)
  <2>1. /\ pc[t] = "load" /\ pc'[t] = "write" /\ UNCHANGED outBuf
        /\ local'[t].bufIndex = blocks[local[t].wi].bufIndex
        /\ local'[t].res = "OK" => blocks[local[t].wi].res = "OK"
    BY <1>8, LoadBlockEffect DEF bufVars
  <2>2. local[t].wi = f
    BY <2>1, WriterAtFront DEF Writing
  <2>3. Pending(f) /\ NumberedIn(f, f, k) /\ Dist(f, f) = 0
    BY <2>1, <2>2, DistFacts DEF Pending, Numbered
  <2>. QED
    BY <2>1, <2>2, <2>3 DEF NumberedIn, NumberedOf
<1>. QED
  BY <1>1, <1>2, <1>3, <1>4, <1>5, <1>6, <1>7, <1>8, ThreadActs

\* The slots passed, with one that a writer is about to pass; the blocks written are among
\* them, in order, and all of them as long as no error is known.
Passed(k) == IF \E t \in Threads : pc[t] = "advance" THEN k + 1 ELSE k
Emitted(k) ==
  /\ \A i \in 1 .. Len(written) : written[i] < Passed(k)
  /\ \A i, j \in 1 .. Len(written) : i < j => written[i] < written[j]
  /\ Len(written) <= Passed(k)
  /\ progressRes = "OK" => /\ Len(written) = Passed(k)
                           /\ \A i \in 1 .. Len(written) : written[i] = i - 1

\* An error that is known has cost a block, or is still with one that it will cost.
Carries(t) == pc[t] \in Coding \cup {"acquire", "claim", "write"} /\ local[t].res # "OK"
ErrorAt(k) ==
  progressRes # "OK" =>
    \/ Len(written) < Passed(k)
    \/ \E t \in Threads : Carries(t)
    \/ \E s \in Slots : Pending(s) /\ blocks[s].res # "OK"

LEMMA PassedStep ==
  ASSUME TypeOK, NEW t \in Threads, Thread(t), OneWriter, NEW k \in Nat
  PROVE  /\ pc[t] = "write" => Passed(k) = k /\ Passed(k)' = k + 1
         /\ pc[t] = "advance" => Passed(k) = k + 1 /\ Passed(k + 1)' = k + 1
         /\ pc[t] \notin {"write", "advance"} => Passed(k)' = Passed(k)
         /\ Passed(k) \in Nat
<1>1. \A u \in Threads : u # t => (pc'[u] = "advance" <=> pc[u] = "advance")
  BY Others
<1>2. CASE pc[t] = "write"
  <2>1. \A u \in Threads : pc[u] # "advance"
    BY <1>2 DEF OneWriter, Writing
  <2>2. pc'[t] = "advance"
    BY <1>2, ThreadActs, WriteBlockEffect DEF Moving, LeaveReady, CheckError, ReadBlock,
       ClaimSlot, Spawn, TakeBuffer, Code, BecomeWriter, AdvanceWriter, LoadBlock
  <2>. QED
    BY <1>2, <2>1, <2>2 DEF Passed
<1>3. CASE pc[t] = "advance"
  <2>1. \A u \in Threads : u # t => pc[u] # "advance"
    BY <1>3 DEF OneWriter, Writing
  <2>2. pc'[t] = "release"
    BY <1>3, ThreadActs, AdvanceWriterEffect DEF Moving, LeaveReady, CheckError, ReadBlock,
       ClaimSlot, Spawn, TakeBuffer, Code, BecomeWriter, WriteBlock, LoadBlock
  <2>3. \A u \in Threads : pc'[u] # "advance"
    BY <1>1, <2>1, <2>2
  <2>. QED
    BY <1>3, <2>3 DEF Passed
<1>4. CASE pc[t] \notin {"write", "advance"}
  <2>1. pc'[t] # "advance"
    <3>1. CASE pc[t] \in Moving \/ LeaveReady(t)
      BY <3>1, MovingEffect DEF Moving, LeaveReady
    <3>2. CASE ~(pc[t] \in Moving \/ LeaveReady(t))
      BY <1>4, <3>2, ThreadActs, CheckErrorEffect, ReadBlockEffect, ClaimSlotEffect, SpawnEffect,
         TakeBufferEffect, CodeEffect, BecomeWriterEffect, WriteBlockEffect, AdvanceWriterEffect,
         LoadBlockEffect
    <3>. QED
      BY <3>1, <3>2
  <2>. QED
    BY <1>1, <1>4, <2>1 DEF Passed
<1>. QED
  BY <1>2, <1>3, <1>4 DEF Passed

\* Only a writer writes.
LEMMA WrittenKept ==
  ASSUME TypeOK, NEW t \in Threads, Thread(t), pc[t] # "write"
  PROVE  UNCHANGED written
<1>1. CASE pc[t] \in Moving \/ LeaveReady(t)
  BY <1>1, MovingEffect
<1>2. CASE ~(pc[t] \in Moving \/ LeaveReady(t))
  BY <1>2, ThreadActs, CheckErrorEffect, ReadBlockEffect, ClaimSlotEffect, SpawnEffect,
     TakeBufferEffect, CodeEffect, BecomeWriterEffect, WriteBlockEffect, AdvanceWriterEffect,
     LoadBlockEffect DEF bufVars, AdvanceWriter
<1>. QED
  BY <1>1, <1>2

LEMMA EmittedStep ==
  ASSUME TypeOK, TypeOK', NEW t \in Threads, Thread(t), NEW f \in Slots, Ring(f), Errors,
         NEW k \in Nat, Numbered(f, k), Emitted(k)
  PROVE  IF pc[t] = "advance" THEN Emitted(k + 1)' ELSE Emitted(k)'
<1>a. OneWriter /\ written \in Seq(Nat) /\ Len(written) \in Nat /\ Passed(k) \in Nat
  <2>1. OneWriter
    BY DEF Ring
  <2>2. Passed(k) \in Nat
    BY <2>1, PassedStep
  <2>3. written \in Seq(Nat)
    BY DEF TypeOK
  <2>. QED
    BY <2>1, <2>2, <2>3
<1>b. progressRes' = "OK" => progressRes = "OK"
  BY Monotone
<1>1. CASE pc[t] = "advance"
  <2>1. Passed(k + 1)' = Passed(k)
    BY <1>1, <1>a, PassedStep
  <2>2. UNCHANGED written
    BY <1>1, WrittenKept
  <2>. QED
    BY <1>1, <1>b, <2>1, <2>2 DEF Emitted
<1>2. CASE pc[t] \notin {"write", "advance"}
  <2>1. Passed(k)' = Passed(k)
    BY <1>2, <1>a, PassedStep
  <2>2. UNCHANGED written
    BY <1>2, WrittenKept
  <2>. QED
    BY <1>2, <1>b, <2>1, <2>2 DEF Emitted
<1>3. CASE pc[t] = "write"
  <2>1. Passed(k) = k /\ Passed(k)' = k + 1
    BY <1>3, <1>a, PassedStep
  <2>2. WriteBlock(t)
    BY <1>3, ThreadActs DEF Moving, LeaveReady, CheckError, ReadBlock, ClaimSlot, Spawn,
       TakeBuffer, Code, BecomeWriter, AdvanceWriter, LoadBlock
  <2>3. NumberedOf(t, f, k) /\ ErrorOf(t)
    BY DEF Numbered, Errors
  <2>4. CASE written' = Append(written, k)
    <3>1. /\ Len(written') = Len(written) + 1 /\ written'[Len(written) + 1] = k
          /\ \A i \in 1 .. Len(written) : written'[i] = written[i] /\ written[i] < k
          /\ \A i \in 1 .. Len(written') : i \in 1 .. Len(written) \/ i = Len(written) + 1
      BY <1>a, <2>1, <2>4 DEF Emitted
    <3>2. \A i \in 1 .. Len(written') : written'[i] < k + 1
      <4>1. \A i \in 1 .. Len(written) : written[i] \in Nat
        BY <1>a
      <4>. QED
        BY <3>1, <4>1
    <3>3. \A i, j \in 1 .. Len(written') : i < j => written'[i] < written'[j]
      <4>1. ASSUME NEW i \in 1 .. Len(written'), NEW j \in 1 .. Len(written'), i < j
            PROVE  i \in 1 .. Len(written) /\ (j \in 1 .. Len(written) \/ j = Len(written) + 1)
        BY <1>a, <3>1, <4>1
      <4>. QED
        BY <3>1, <4>1 DEF Emitted
    <3>4. Len(written) <= k /\ (progressRes = "OK" => Len(written) = k)
      BY <2>1 DEF Emitted
    <3>5. progressRes' = "OK" => \A i \in 1 .. Len(written') : written'[i] = i - 1
      BY <1>a, <1>b, <3>1, <3>4 DEF Emitted
    <3>. QED
      BY <1>3, <1>a, <1>b, <2>1, <3>1, <3>2, <3>3, <3>4, <3>5 DEF Emitted
  <2>5. CASE written' = written /\ progressRes' # "OK"
    <3>1. \A i \in 1 .. Len(written) : written[i] \in Nat /\ written[i] < k
      BY <1>a, <2>1 DEF Emitted
    <3>. QED
      BY <1>3, <1>a, <2>1, <2>5, <3>1 DEF Emitted
  <2>6. written' = Append(written, k) \/ (written' = written /\ progressRes' # "OK")
    <3>1. CASE local[t].res = "OK"
      <4>1. local[t].bufIndex \in Buffers /\ outBuf[local[t].bufIndex] = k
        BY <1>3, <2>3, <3>1 DEF NumberedOf
      <4>2. local[t].bufIndex # None
        BY <4>1 DEF Buffers, None
      <4>. QED
        BY <2>2, <3>1, <4>1, <4>2, WriteBlockEffect
    <3>2. CASE local[t].res # "OK"
      BY <1>3, <2>2, <2>3, <3>2, WriteBlockEffect DEF ErrorOf, WriterPcs
    <3>. QED
      BY <3>1, <3>2
  <2>. QED
    BY <2>4, <2>5, <2>6
<1>. QED
  BY <1>1, <1>2, <1>3

\* A thread that carries an error keeps it, leaves it in its slot, or loses its block to it.
LEMMA CarriesStep ==
  ASSUME TypeOK, NEW t \in Threads, Thread(t), NEW f \in Slots, Ring(f), BufInv, Errors,
         Carries(t), pc[t] # "write"
  PROVE  Carries(t)' \/ \E s \in Slots : Pending(s)' /\ blocks'[s].res # "OK"
<1>a. ErrorOf(t) /\ NotedDown(t) /\ local[t].bi \in Slots
  BY LocalFields DEF Errors, BufInv, TypeOK
<1>. USE DEF Carries, Coding
<1>1. CASE pc[t] \in Moving
  BY <1>1, MovingEffect DEF Moving, SameLocal
<1>2. CASE LeaveReady(t)
  <2>1. pc[t] = "publish" /\ readyBlocks'[local[t].bi] /\ UNCHANGED blocks
    BY <1>2, <1>a, MovingEffect DEF LeaveReady, TypeOK
  <2>2. blocks[local[t].bi].res # "OK"
    BY <1>a, <2>1 DEF NotedDown
  <2>3. PICK s \in Slots : s = local[t].bi
    BY <1>a
  <2>4. Pending(s)'
    BY <2>1, <2>3 DEF Pending
  <2>. QED
    BY <2>1, <2>2, <2>3, <2>4
<1>3. CASE ClaimSlot(t)
  BY <1>3, ClaimSlotEffect
<1>4. CASE Spawn(t)
  BY <1>4, SpawnEffect
<1>5. CASE TakeBuffer(t) \/ Code(t)
  BY <1>5, <1>a, TakeBufferEffect, CodeEffect DEF ErrorOf
<1>6. CASE BecomeWriter(t)
  BY <1>6, BecomeWriterEffect
<1>7. CASE CheckError(t) \/ ReadBlock(t) \/ WriteBlock(t) \/ AdvanceWriter(t) \/ LoadBlock(t)
  BY <1>7, CheckErrorEffect, ReadBlockEffect, WriteBlockEffect, AdvanceWriterEffect, LoadBlockEffect
<1>. QED
  BY <1>1, <1>2, <1>3, <1>4, <1>5, <1>6, <1>7, ThreadActs

\* The first error is carried by the thread that records it, or costs the block it writes.
LEMMA NewError ==
  ASSUME TypeOK, NEW t \in Threads, Thread(t), progressRes = "OK", progressRes' # "OK",
         pc[t] # "write"
  PROVE  Carries(t)'
<1>1. CASE pc[t] \in Moving \/ LeaveReady(t)
  BY <1>1, MovingEffect DEF resVars
<1>2. CASE ReadBlock(t)
  BY <1>2, ReadBlockEffect DEF Carries
<1>3. CASE Spawn(t)
  BY <1>3, SpawnEffect DEF Carries, Coding
<1>4. CASE Code(t)
  BY <1>4, CodeEffect DEF Carries, Coding
<1>5. CASE CheckError(t) \/ ClaimSlot(t) \/ TakeBuffer(t) \/ BecomeWriter(t) \/ WriteBlock(t)
           \/ AdvanceWriter(t) \/ LoadBlock(t)
  BY <1>5, CheckErrorEffect, ClaimSlotEffect, TakeBufferEffect, BecomeWriterEffect,
     WriteBlockEffect, AdvanceWriterEffect, LoadBlockEffect DEF resVars
<1>. QED
  BY <1>1, <1>2, <1>3, <1>4, <1>5, ThreadActs

LEMMA ErrorAtStep ==
  ASSUME TypeOK, TypeOK', NEW t \in Threads, Thread(t), NEW f \in Slots, Ring(f), BufInv, Errors,
         NEW k \in Nat, Emitted(k), ErrorAt(k)
  PROVE  IF pc[t] = "advance" THEN ErrorAt(k + 1)' ELSE ErrorAt(k)'
<1>a. OneWriter /\ written \in Seq(Nat) /\ Len(written) \in Nat /\ Passed(k) \in Nat
  <2>1. OneWriter
    BY DEF Ring
  <2>2. Passed(k) \in Nat
    BY <2>1, PassedStep
  <2>3. written \in Seq(Nat)
    BY DEF TypeOK
  <2>. QED
    BY <2>1, <2>2, <2>3
<1>1. CASE pc[t] = "write"
  <2>1. Passed(k) = k /\ Passed(k)' = k + 1
    BY <1>1, <1>a, PassedStep
  <2>2. WriteBlock(t)
    BY <1>1, ThreadActs DEF Moving, LeaveReady, CheckError, ReadBlock, ClaimSlot, Spawn,
       TakeBuffer, Code, BecomeWriter, AdvanceWriter, LoadBlock
  <2>3. Len(written) <= k
    BY <2>1 DEF Emitted
  <2>4. CASE UNCHANGED written
    BY <1>1, <1>a, <2>1, <2>3, <2>4 DEF ErrorAt
  <2>5. CASE /\ written' = Append(written, outBuf[local[t].bufIndex]) /\ local[t].res = "OK"
             /\ UNCHANGED <<local, progressRes>>
    <3>1. Len(written') = Len(written) + 1
      BY <1>a, <2>5
    <3>2. ASSUME NEW u \in Threads, Carries(u) PROVE Carries(u)'
      <4>1. u # t
        BY <1>1, <2>5, <3>2 DEF Carries
      <4>. QED
        BY <3>2, <4>1, Others DEF Carries, Coding
    <3>3. ASSUME NEW s \in Slots, Pending(s) PROVE Pending(s)' /\ blocks'[s] = blocks[s]
      BY <1>1, <3>3, PendingStep DEF LoadBlock
    <3>4. progressRes # "OK" =>
             \/ Len(written') < Passed(k)'
             \/ \E u \in Threads : Carries(u)'
             \/ \E s \in Slots : Pending(s)' /\ blocks'[s].res # "OK"
      <4>1. Len(written) < Passed(k) => Len(written') < Passed(k)'
        BY <1>a, <2>1, <3>1
      <4>. QED
        BY <3>2, <3>3, <4>1 DEF ErrorAt
    <3>. QED
      BY <1>1, <2>5, <3>4 DEF ErrorAt
  <2>. QED
    BY <2>2, <2>4, <2>5, WriteBlockEffect
<1>2. CASE pc[t] # "write"
  <2>. DEFINE Found == \/ \E u \in Threads : Carries(u)'
                       \/ \E s \in Slots : Pending(s)' /\ blocks'[s].res # "OK"
  <2>1. UNCHANGED written
    BY <1>2, WrittenKept
  <2>2. IF pc[t] = "advance" THEN Passed(k + 1)' = Passed(k) ELSE Passed(k)' = Passed(k)
    BY <1>2, <1>a, PassedStep
  <2>3. ASSUME NEW u \in Threads, Carries(u) PROVE Found
    <3>1. CASE u = t
      BY <1>2, <2>3, <3>1, CarriesStep
    <3>2. CASE u # t
      <4>1. Carries(u)'
        BY <2>3, <3>2, Others DEF Carries, Coding
      <4>. QED
        BY <4>1
    <3>. QED
      BY <3>1, <3>2
  <2>4. ASSUME NEW s \in Slots, Pending(s), blocks[s].res # "OK" PROVE Found
    <3>1. CASE Pending(s)'
      BY <2>4, <3>1, PendingStep
    <3>2. CASE LoadBlock(t) /\ s = local[t].wi
      <4>1. pc'[t] = "write" /\ local'[t].res # "OK"
        BY <2>4, <3>2, LoadBlockEffect
      <4>2. Carries(t)'
        BY <4>1 DEF Carries
      <4>. QED
        BY <4>2
    <3>. QED
      BY <2>4, <3>1, <3>2, PendingStep
  <2>5. CASE progressRes = "OK" /\ progressRes' # "OK"
    <3>1. Carries(t)'
      BY <1>2, <2>5, NewError
    <3>. QED
      BY <3>1 DEF ErrorAt
  <2>6. CASE progressRes # "OK"
    <3>1. Len(written) < Passed(k) \/ Found
      BY <2>3, <2>4, <2>6 DEF ErrorAt
    <3>. QED
      BY <2>1, <2>2, <3>1 DEF ErrorAt
  <2>7. CASE progressRes' = "OK"
    BY <2>7 DEF ErrorAt
  <2>. QED
    BY <2>5, <2>6, <2>7
<1>. QED
  BY <1>1, <1>2

\* The whole of it: slot f is the first in use, and k slots were passed before it.
Order(f, k) == Ring(f) /\ Reads(k) /\ Numbered(f, k) /\ Emitted(k) /\ ErrorAt(k)

OrderInv == call > 0 => Errors /\ \E f \in Slots, k \in Nat : Order(f, k)

LEMMA OrderStep ==
  ASSUME TypeOK, TypeOK', OneReader, BufInv, NEW t \in Threads, Thread(t), call > 0, Errors,
         NEW f \in Slots, NEW k \in Nat, Order(f, k)
  PROVE  \E g \in Slots, m \in Nat : Order(g, m)'
<1>1. CASE pc[t] = "advance"
  <2>1. Order(NextSlot(f), k + 1)'
    BY <1>1, RingStep, ReadsStep, NumberedStep, EmittedStep, ErrorAtStep DEF Order
  <2>. QED
    BY <2>1, NextSlotType
<1>2. CASE pc[t] # "advance"
  <2>1. Order(f, k)'
    BY <1>2, RingStep, ReadsStep, NumberedStep, EmittedStep, ErrorAtStep DEF Order
  <2>. QED
    BY <2>1
<1>. QED
  BY <1>1, <1>2

\* What the calling thread does, and a thread at rest, changes nothing of this.
LEMMA OrderIdle ==
  ASSUME TypeOK, Errors, \A u \in Threads : Idle(u),
         UNCHANGED <<call, local, semaphore, resVars, readerVars, ringVars, bufVars>>,
         finishedEvent' \/ mpc' = "collect" => finishedEvent \/ mpc = "collect"
  PROVE  Errors' /\ \A f \in Slots, k \in Nat : Order(f, k) => Order(f, k)'
<1>a. UNCHANGED <<readRes, writeRes, progressRes, nextBlock, stopReading, blocks, readyBlocks,
                  outBuf, written, local, call>>
  BY DEF resVars, readerVars, ringVars, bufVars
<1>b. \A u \in Threads : \/ pc'[u] = pc[u]
                         \/ {pc[u], pc'[u]} \subseteq {"none", "idle", "dead"}
  BY DEF Idle
<1>1. \A s \in Slots : Pending(s)' <=> Pending(s)
  BY <1>a, <1>b DEF Pending
<1>2. Ended' <=> Ended
  BY <1>a DEF Ended
<1>3. \A u \in Threads : ErrorOf(u)'
  BY <1>a, <1>b, <1>2 DEF Errors, ErrorOf, Coding, WriterPcs, CoderPcs
<1>4. \A s \in Slots : ErrorIn(s)'
  BY <1>a, <1>1, <1>2 DEF Errors, ErrorIn
<1>5. Errors'
  BY <1>a, <1>2, <1>3, <1>4 DEF Errors
<1>6. ASSUME NEW f \in Slots, NEW k \in Nat, Order(f, k) PROVE Order(f, k)'
  <2>1. Ring(f)'
    BY <1>6, RingIdle DEF Order
  <2>2. AtClaim' = AtClaim /\ AtRelease' = AtRelease
    BY <1>b DEF AtClaim, AtRelease
  <2>3. Claimed' = Claimed
    BY <2>2 DEF Claimed
  <2>4. Reads(k)'
    <3>1. \A u \in Threads : \/ ~Reader(u) /\ ~Reader(u)'
                             \/ pc'[u] = pc[u] /\ local'[u] = local[u]
      BY <1>a, <1>b DEF Reader, ReaderPcs
    <3>. QED
      BY <1>6, <1>a, <2>3, <3>1, ReadsSame DEF Order
  <2>5. Numbered(f, k)'
    <3>1. \A u \in Threads : NumberedOf(u, f, k)'
      BY <1>6, <1>a, <1>b DEF Order, Numbered, NumberedOf, Coding
    <3>2. \A s \in Slots : NumberedIn(s, f, k)'
      BY <1>6, <1>a, <1>1 DEF Order, Numbered, NumberedIn
    <3>. QED
      BY <3>1, <3>2 DEF Numbered
  <2>6. Passed(k)' = Passed(k)
    BY <1>b DEF Passed
  <2>7. Emitted(k)'
    BY <1>6, <1>a, <2>6 DEF Order, Emitted
  <2>8. \A u \in Threads : Carries(u)' <=> Carries(u)
    BY <1>a, <1>b DEF Carries, Coding
  <2>9. ErrorAt(k)'
    BY <1>6, <1>a, <1>1, <2>6, <2>8 DEF Order, ErrorAt
  <2>. QED
    BY <2>1, <2>4, <2>5, <2>7, <2>9 DEF Order
<1>. QED
  BY <1>5, <1>6

LEMMA OrderStart ==
  ASSUME TypeOK, TypeOK', MainInit, call = 0, Fresh
  PROVE  Errors' /\ Order(0, 0)'
<1>1. /\ readRes' = "OK" /\ writeRes' = "OK" /\ progressRes' = "OK" /\ ~finishedEvent'
      /\ mpc' = "create" /\ nextBlock' = 0 /\ ~stopReading' /\ written' = <<>> /\ call' > 0
      /\ readyBlocks' = [s \in Slots |-> FALSE]
      /\ \A u \in Threads : pc'[u] = "none"
  BY DEF MainInit, Fresh
<1>2. Ring(0)' /\ Claimed' = 0
  BY RingStart
<1>3. LastBlock' \in Nat
  BY <1>1, ConstantsAssumption DEF TypeOK, LastBlock
<1>4. \A s \in Slots : ~Pending(s)'
  BY <1>1 DEF Pending
<1>5. \A u \in Threads : ErrorOf(u)' /\ NumberedOf(u, 0, 0)'
  BY <1>1 DEF ErrorOf, NumberedOf, Coding, CoderPcs, WriterPcs
<1>6. \A s \in Slots : ErrorIn(s)' /\ NumberedIn(s, 0, 0)'
  BY <1>4 DEF ErrorIn, NumberedIn
<1>7. Errors'
  BY <1>1, <1>5, <1>6 DEF Errors
<1>8. \A u \in Threads : ~Reader(u)' /\ ~Stopper(u)' /\ ~Claimer(u)' /\ ~HasBlock(u)'
  BY <1>1 DEF Reader, Stopper, Claimer, HasBlock, ReaderPcs
<1>9. Reads(0)'
  <2>1. Going' /\ ~\E u \in Threads : HasBlock(u)'
    BY <1>1, <1>8 DEF Going
  <2>2. 0 + Claimed' = 0
    BY <1>2
  <2>3. \A n \in Nat : 0 <= n /\ 0 <= n + 1
    OBVIOUS
  <2>4. 0 <= LastBlock' /\ 0 <= LastBlock' + 1
    BY <1>3, <2>3
  <2>. HIDE DEF Going, HasBlock, Claimer, Reader
  <2>. QED
    BY <1>1, <1>8, <2>1, <2>2, <2>4 DEF Reads
<1>10. Passed(0)' = 0 /\ Len(written') = 0
  BY <1>1 DEF Passed
<1>11. Emitted(0)' /\ ErrorAt(0)'
  BY <1>1, <1>10 DEF Emitted, ErrorAt
<1>. QED
  BY <1>2, <1>5, <1>6, <1>7, <1>9, <1>11 DEF Order, Numbered

LEMMA MainEnds ==
  ASSUME Main
  PROVE  MainInit \/ (finishedEvent' \/ mpc' = "collect" => finishedEvent \/ mpc = "collect")
<1>. QED
  BY DEF Main, MainCreate, MainKick, MainWake, MainCollect, MainDestruct, MainFree, MainJoin,
     MainFreed, eventVars, AutoReset

LEMMA OrderInvStep ==
  ASSUME OneCall, TypeOK, TypeOK', IInv, RInv, call > 0 => BufInv, OrderInv, [Next]_vars
  PROVE  OrderInv'
<1>1. CASE UNCHANGED vars
  <2>1. /\ \A u \in Threads : Idle(u)
        /\ UNCHANGED <<call, local, semaphore, resVars, readerVars, ringVars, bufVars>>
        /\ UNCHANGED <<mpc, finishedEvent>>
    BY <1>1 DEF vars, Idle, callVars, eventVars
  <2>. QED
    BY <2>1, OrderIdle DEF OrderInv
<1>2. CASE Main
  <2>1. CASE MainInit
    <3>1. call = 0 /\ Fresh
      BY <2>1, ConstantsAssumption DEF MainInit, OneCall, TypeOK, IInv
    <3>2. 0 \in Slots
      BY RingSize DEF Slots
    <3>. QED
      BY <2>1, <3>1, <3>2, OrderStart DEF OrderInv
  <2>2. CASE ~MainInit
    <3>1. /\ UNCHANGED <<call, local, semaphore, resVars, readerVars, ringVars, bufVars>>
          /\ \A u \in Threads : Idle(u)
      BY <1>2, <2>2, MainKeeps DEF Idle
    <3>. QED
      BY <1>2, <2>2, <3>1, MainEnds, OrderIdle DEF OrderInv
  <2>. QED
    BY <2>1, <2>2
<1>3. ASSUME NEW t \in Threads, Thread(t) PROVE OrderInv'
  <2>1. call' = call
    BY <1>3, Monotone
  <2>2. ASSUME call > 0 PROVE Errors' /\ \E f \in Slots, k \in Nat : Order(f, k)'
    <3>1. PICK f \in Slots, k \in Nat : Order(f, k)
      BY <2>2 DEF OrderInv
    <3>2. Errors /\ BufInv /\ OneReader /\ Ring(f)
      BY <2>2, <3>1 DEF OrderInv, IInv, Order
    <3>3. Errors'
      BY <1>3, <3>2, ErrorsStep
    <3>. QED
      BY <1>3, <2>2, <3>1, <3>2, <3>3, OrderStep
  <2>. QED
    BY <2>1, <2>2 DEF OrderInv
<1>. QED
  BY <1>1, <1>2, <1>3 DEF Next, Terminated

LEMMA OrderInvariant == ASSUME OneCall PROVE Spec => []OrderInv
<1>1. Init => OrderInv
  BY DEF Init, OrderInv
<1>2. TypeOK /\ TypeOK' /\ IInv /\ RInv /\ (call > 0 => BufInv) /\ OrderInv /\ [Next]_vars
        => OrderInv'
  BY OrderInvStep
<1>. QED
  BY <1>1, <1>2, Typing, Invariant, RInvariant, BufInvariant, PTL DEF Spec

\* When no thread is inside ThreadFunc2, every slot claimed was passed.
LEMMA NothingInUse ==
  ASSUME TypeOK, AtRest, NEW f \in Slots, Ring(f)
  PROVE  Claimed = 0 /\ \A s \in Slots : ~Pending(s)
<1>1. \A t \in Threads : pc[t] \in {"none", "idle", "dead", "compare"}
  BY DEF AtRest
<1>2. \A t \in Threads : ~HasSlot(t) /\ ~Writing(t) /\ ~Taking(t)
  BY <1>1 DEF HasSlot, Writing, Coding, Taking
<1>3. ~readyBlocks[f]
  BY <1>2 DEF Ring, AtFront
<1>4. ~(Dist(f, f) < Claimed) /\ Claimed \in 0 .. NumBlocksMax /\ Dist(f, f) = 0
  BY <1>2, <1>3, DistFacts DEF Ring, InUse
<1>5. Claimed = 0
  BY <1>4, RingSize
<1>6. \A s \in Slots : ~readyBlocks[s]
  <2>1. \A s \in Slots : ~(Dist(f, s) < Claimed)
    BY <1>5, DistFacts
  <2>. QED
    BY <2>1 DEF Ring, InUse
<1>. QED
  BY <1>2, <1>5, <1>6 DEF Pending, Taking

\* Then all blocks were written when no error is known, and one is missing otherwise.
LEMMA AllWritten ==
  ASSUME TypeOK, call > 0, AtRest, Errors, Ended, NEW f \in Slots, NEW k \in Nat, Order(f, k)
  PROVE  progressRes = "OK" <=> written = Complete
<1>a. \A t \in Threads : pc[t] \in {"none", "idle", "dead", "compare"}
  BY DEF AtRest
<1>b. Claimed = 0 /\ \A s \in Slots : ~Pending(s)
  BY NothingInUse DEF Order
<1>c. LastBlock \in Nat /\ nextBlock \in Nat /\ written \in Seq(Nat) /\ Len(written) \in Nat
  BY LastBlockType DEF TypeOK
<1>d. Passed(k) = k /\ \A t \in Threads : ~Carries(t) /\ ~HasBlock(t)
  BY <1>a DEF Passed, Carries, HasBlock, Claimer, Coding
<1>e. DOMAIN Complete = 1 .. LastBlock + 1 /\ \A i \in 1 .. LastBlock + 1 : Complete[i] = i - 1
  BY DEF Complete
<1>1. CASE progressRes = "OK"
  <2>1. ~Going
    BY <1>1 DEF Ended, Going
  <2>2. nextBlock = LastBlock + 1 /\ nextBlock = k + Claimed
    BY <1>1, <1>b, <1>d, <2>1 DEF Order, Reads
  <2>3. k = LastBlock + 1
    BY <1>b, <1>c, <2>2
  <2>4. Len(written) = LastBlock + 1 /\ \A i \in 1 .. Len(written) : written[i] = i - 1
    BY <1>1, <1>d, <2>3 DEF Order, Emitted
  <2>5. written = [i \in 1 .. Len(written) |-> written[i]]
    BY <1>c
  <2>6. written = Complete
    BY <2>4, <2>5 DEF Complete
  <2>. QED
    BY <1>1, <2>6
<1>2. CASE progressRes # "OK"
  <2>1. Len(written) < k /\ k + Claimed <= LastBlock + 1
    BY <1>2, <1>b, <1>d DEF Order, ErrorAt, Reads
  <2>2. Len(written) # LastBlock + 1
    BY <1>b, <1>c, <2>1
  <2>3. written # Complete
    <3>1. SUFFICES ASSUME written = Complete PROVE FALSE
      OBVIOUS
    <3>2. 1 .. Len(written) = 1 .. LastBlock + 1
      BY <1>c, <1>e, <3>1
    <3>3. LastBlock + 1 \in 1 .. Len(written) /\ LastBlock + 2 \notin 1 .. Len(written)
      BY <1>c, <3>2
    <3>. QED
      BY <1>c, <2>2, <3>3
  <2>. QED
    BY <1>2, <2>3
<1>. QED
  BY <1>1, <1>2

LEMMA NotComplete == TypeOK /\ call > 0 => Complete # <<>>
<1>1. TypeOK /\ call > 0 => 1 \in DOMAIN Complete
  BY LastBlockType DEF Complete
<1>. QED
  BY <1>1

\* What the caller was told, between two calls.
Returned ==
  /\ mpc = "create" => written = <<>>
  /\ call > 0 /\ ~Busy => (result = "OK" <=> written = Complete)

LEMMA AtCollect ==
  ASSUME TypeOK, IInv, OrderInv, mpc = "collect"
  PROVE  /\ FinalResult = "OK" <=> progressRes = "OK"
         /\ progressRes = "OK" <=> written = Complete
<1>1. call > 0
  BY DEF IInv, TypeOK
<1>2. PICK f \in Slots, k \in Nat : Order(f, k)
  BY <1>1 DEF OrderInv
<1>3. AtRest /\ Ended /\ Errors
  BY <1>1 DEF IInv, OrderInv, Errors
<1>4. progressRes = "OK" <=> written = Complete
  BY <1>1, <1>2, <1>3, AllWritten
<1>5. FinalResult = "OK" <=> progressRes = "OK"
  BY <1>3 DEF FinalResult, Errors
<1>. QED
  BY <1>4, <1>5

\* A worker that changes what the caller sees does so while the caller waits.
LEMMA WorkerBusy ==
  ASSUME TypeOK, IInv, NEW t \in Threads, Thread(t), pc[t] \notin {"none", "idle", "dead", "compare"}
  PROVE  mpc \in {"kick", "wait"} /\ call > 0
<1>. QED
  BY DEF IInv, AtRest, Fresh, TypeOK

LEMMA ReturnedStep ==
  ASSUME OneCall, TypeOK, TypeOK', IInv, OrderInv, Returned, [Next]_vars
  PROVE  Returned'
<1>. USE DEF callVars, bufVars
<1>1. ASSUME UNCHANGED <<call, written, result>>, mpc' = "create" => mpc = "create",
             Busy => mpc' \in {"create", "kick", "wait", "collect"}
      PROVE  Returned'
  <2>1. Complete' = Complete
    BY <1>1 DEF Complete, LastBlock
  <2>. QED
    BY <1>1, <2>1 DEF Returned, Busy
<1>2. CASE UNCHANGED vars
  BY <1>1, <1>2 DEF vars, Busy
<1>3. ASSUME NEW t \in Threads, Thread(t) PROVE Returned'
  <2>1. UNCHANGED <<mpc, call, result>>
    BY <1>3, Monotone
  <2>2. CASE pc[t] = "write"
    BY <1>3, <2>1, <2>2, WorkerBusy DEF Returned, Busy
  <2>3. CASE pc[t] # "write"
    BY <1>1, <1>3, <2>1, <2>3, WrittenKept DEF Busy
  <2>. QED
    BY <2>2, <2>3
<1>4. CASE MainInit
  BY <1>4 DEF MainInit, Returned, Busy
<1>5. CASE MainCreate
  <2>1. UNCHANGED <<call, written>> /\ mpc = "create"
    BY <1>5 DEF MainCreate
  <2>2. CASE mpc' = "kick"
    BY <2>2 DEF Returned, Busy
  <2>3. CASE mpc' = "ready" /\ result' = "THREAD"
    <3>1. call > 0
      BY <2>1 DEF IInv, TypeOK
    <3>2. written' = <<>> /\ Complete # <<>> /\ Complete' = Complete
      BY <2>1, <3>1, NotComplete DEF Returned, Complete, LastBlock
    <3>. QED
      BY <2>3, <3>2 DEF Returned
  <2>. QED
    BY <1>5, <2>2, <2>3 DEF MainCreate
<1>6. CASE MainCollect
  <2>1. result' = FinalResult /\ UNCHANGED <<call, written>> /\ mpc = "collect"
        /\ mpc' \in {"ready", "free"}
    BY <1>6 DEF MainCollect
  <2>2. Complete' = Complete
    BY <2>1 DEF Complete, LastBlock
  <2>. QED
    BY <2>1, <2>2, AtCollect DEF Returned
<1>7. CASE MainKick \/ MainWake \/ MainDestruct \/ MainFree \/ MainJoin \/ MainFreed
  BY <1>1, <1>7 DEF MainKick, MainWake, MainDestruct, MainFree, MainJoin, MainFreed, Busy
<1>. QED
  BY <1>2, <1>3, <1>4, <1>5, <1>6, <1>7 DEF Next, Main, Terminated

(* MtCoder_Code answers SZ_OK exactly when every block of the input went to    *)
(* the Write callback once and in input order: no error is lost on its way     *)
(* through slots and writers, and no call returns while blocks are missing.    *)
THEOREM OkMeansComplete == ASSUME OneCall PROVE Spec => []OkIffComplete
<1>1. Init => Returned
  BY DEF Init, Returned
<1>2. TypeOK /\ TypeOK' /\ IInv /\ OrderInv /\ Returned /\ [Next]_vars => Returned'
  BY ReturnedStep
<1>3. Returned => OkIffComplete
  BY DEF Returned, OkIffComplete, Busy
<1>. QED
  BY <1>1, <1>2, <1>3, Typing, Invariant, OrderInvariant, PTL DEF Spec

-----------------------------------------------------------------------------
(* The refinement of OrderedOutput: a block passed to the Write callback is     *)
(* an emission, the first error a failure, and the other steps of the threads   *)
(* leave what the caller sees as it is.                                         *)

Status == IF call = 0 THEN "new" ELSE IF Busy THEN "busy"
          ELSE IF result = "OK" THEN "ok" ELSE "failed"

LEMMA AbstractStutter ==
  ASSUME UNCHANGED <<call, written, progressRes>>, Status' = Status
  PROVE  UNCHANGED Abstract!vars
<1>. QED
  BY DEF Abstract!vars, Status

\* What is written is the next block, and one of the input.
LEMMA WrittenBlock ==
  ASSUME TypeOK, OrderInv, call > 0, NEW t \in Threads, WriteBlock(t), ~UNCHANGED written
  PROVE  \E k \in 0 .. Inputs[call] :
           /\ \A i \in 1 .. Len(written) : written[i] < k
           /\ progressRes = "OK" => k = Len(written)
           /\ written' = Append(written, k)
           /\ UNCHANGED progressRes
<1>1. PICK f \in Slots, k \in Nat : Order(f, k)
  BY DEF OrderInv
<1>2. /\ pc[t] = "write" /\ local[t].res = "OK" /\ UNCHANGED progressRes
      /\ written' = Append(written, outBuf[local[t].bufIndex])
  BY WriteBlockEffect
<1>3. outBuf[local[t].bufIndex] = k
  BY <1>1, <1>2 DEF Order, Numbered, NumberedOf
<1>4. Passed(k) = k
  BY <1>1, <1>2 DEF Passed, Order, Ring, OneWriter, Writing
<1>5. /\ \A i \in 1 .. Len(written) : written[i] < k
      /\ progressRes = "OK" => k = Len(written)
  BY <1>1, <1>4 DEF Order, Emitted
<1>6. Claimed > 0
  <2>1. HasSlot(t) /\ SlotOf(t) = f /\ Dist(f, f) = 0
    BY <1>1, <1>2, WriterAtFront, DistFacts DEF HasSlot, SlotOf, Coding, Writing, Order
  <2>2. Dist(f, f) < Claimed
    BY <1>1, <2>1 DEF Order, Ring, InUse
  <2>. QED
    BY <2>1, <2>2
<1>7. k \in 0 .. Inputs[call]
  <2>1. k + Claimed <= Inputs[call] + 1
    BY <1>1 DEF Order, Reads, LastBlock
  <2>2. Claimed \in Int /\ Inputs[call] \in Nat
    BY <1>1, RingSize, LastBlockType DEF Order, Ring, InUse, LastBlock
  <2>. QED
    BY <1>6, <2>1, <2>2
<1>. QED
  BY <1>2, <1>3, <1>5, <1>7

LEMMA AbstractStep ==
  ASSUME OneCall, TypeOK, IInv, OrderInv, Returned, [Next]_vars
  PROVE  Abstract!Next \/ UNCHANGED Abstract!vars
<1>. USE DEF callVars, resVars, bufVars
<1>1. CASE UNCHANGED vars
  BY <1>1, AbstractStutter DEF vars, Status, Busy
<1>2. ASSUME NEW t \in Threads, Thread(t) PROVE Abstract!Next \/ UNCHANGED Abstract!vars
  <2>1. UNCHANGED <<mpc, call, result>>
    BY <1>2, Monotone
  <2>2. UNCHANGED Status
    BY <2>1 DEF Status, Busy
  <2>3. CASE UNCHANGED <<written, progressRes>>
    BY <2>1, <2>2, <2>3, AbstractStutter
  <2>4. CASE pc[t] = "write" /\ ~UNCHANGED written
    <3>1. mpc \in {"kick", "wait"} /\ call > 0
      BY <1>2, <2>4, WorkerBusy
    <3>2. WriteBlock(t)
      BY <1>2, <2>4, ThreadActs DEF Moving, LeaveReady, CheckError, ReadBlock, ClaimSlot, Spawn,
         TakeBuffer, Code, BecomeWriter, AdvanceWriter, LoadBlock
    <3>3. PICK k \in 0 .. Inputs[call] :
            /\ \A i \in 1 .. Len(written) : written[i] < k
            /\ progressRes = "OK" => k = Len(written)
            /\ written' = Append(written, k)
            /\ UNCHANGED progressRes
      BY <2>4, <3>1, <3>2, WrittenBlock
    <3>4. Abstract!Emit(k)
      BY <2>1, <3>3 DEF Abstract!Emit, Busy
    <3>5. Abstract!EmitAny
      BY <3>1, <3>4 DEF Abstract!EmitAny, Busy, TypeOK
    <3>. QED
      BY <3>5 DEF Abstract!Next
  <2>5. CASE UNCHANGED written /\ ~UNCHANGED progressRes
    <3>1. pc[t] \notin {"none", "idle", "dead", "compare"}
      BY <1>2, <2>5, MovingEffect, ThreadActs DEF Moving, CheckError, ReadBlock, ClaimSlot, Spawn,
         TakeBuffer, Code, BecomeWriter, LeaveReady, WriteBlock, AdvanceWriter, LoadBlock
    <3>2. mpc \in {"kick", "wait"} /\ call > 0
      BY <1>2, <3>1, WorkerBusy
    <3>3. progressRes' # "OK"
      BY <1>2, <2>5, Monotone
    <3>4. Abstract!Fail
      BY <2>1, <2>5, <3>2, <3>3 DEF Abstract!Fail, Busy, TypeOK
    <3>. QED
      BY <3>4 DEF Abstract!Next
  <2>. QED
    BY <1>2, <2>3, <2>4, <2>5, WrittenKept
<1>3. CASE MainInit
  <2>1. Abstract!Begin
    BY <1>3 DEF MainInit, Abstract!Begin, Busy, TypeOK
  <2>. QED
    BY <2>1 DEF Abstract!Next
<1>4. CASE MainCreate
  <2>1. mpc = "create" /\ UNCHANGED <<call, written, progressRes>> /\ call > 0
    BY <1>4 DEF MainCreate, IInv, TypeOK
  <2>2. CASE mpc' = "kick"
    BY <2>1, <2>2, AbstractStutter DEF Status, Busy
  <2>3. CASE mpc' = "ready" /\ result' = "THREAD"
    <3>1. Abstract!GiveUp
      BY <2>1, <2>3 DEF Abstract!GiveUp, Busy, Returned
    <3>. QED
      BY <3>1 DEF Abstract!Next
  <2>. QED
    BY <1>4, <2>2, <2>3 DEF MainCreate
<1>5. CASE MainCollect
  <2>1. /\ mpc = "collect" /\ UNCHANGED <<call, written, progressRes>> /\ call > 0
        /\ result' = FinalResult /\ mpc' \in {"ready", "free"}
    BY <1>5 DEF MainCollect, IInv, TypeOK
  <2>2. /\ FinalResult = "OK" <=> progressRes = "OK"
        /\ progressRes = "OK" <=> written = Complete
    BY <2>1, AtCollect
  <2>3. CASE FinalResult = "OK"
    <3>1. Len(written) = Inputs[call] + 1
      <4>1. LastBlock \in Nat
        BY <2>1, LastBlockType
      <4>2. Len(Complete) = LastBlock + 1
        BY <4>1 DEF Complete
      <4>. QED
        BY <2>2, <2>3, <4>2 DEF LastBlock
    <3>2. Abstract!Succeed
      BY <2>1, <2>2, <2>3, <3>1 DEF Abstract!Succeed, Busy, TypeOK
    <3>. QED
      BY <3>2 DEF Abstract!Next
  <2>4. CASE FinalResult # "OK"
    <3>1. Abstract!GiveUp
      BY <2>1, <2>2, <2>4 DEF Abstract!GiveUp, Busy, TypeOK
    <3>. QED
      BY <3>1 DEF Abstract!Next
  <2>. QED
    BY <2>3, <2>4
<1>6. CASE MainKick \/ MainWake \/ MainDestruct \/ MainFree \/ MainJoin \/ MainFreed
  <2>1. UNCHANGED <<call, written, progressRes, result>> /\ (Busy' <=> Busy)
    BY <1>6 DEF MainKick, MainWake, MainDestruct, MainFree, MainJoin, MainFreed, Busy
  <2>. QED
    BY <2>1, AbstractStutter DEF Status
<1>. QED
  BY <1>1, <1>2, <1>3, <1>4, <1>5, <1>6 DEF Next, Main, Terminated

(* The threads together do what one sequential encoder would: the blocks reach  *)
(* the Write callback in input order, without a gap as long as no error is      *)
(* recorded, and the answer is "ok" only when all of them did.                  *)
THEOREM OutputIsOrdered == ASSUME OneCall PROVE Spec => ImplementsOrderedOutput
<1>1. Init => Abstract!Init
  BY DEF Init, Abstract!Init, Busy
<1>2. Init => Returned
  BY DEF Init, Returned
<1>3. TypeOK /\ TypeOK' /\ IInv /\ OrderInv /\ Returned /\ [Next]_vars => Returned'
  BY ReturnedStep
<1>4. TypeOK /\ IInv /\ OrderInv /\ Returned /\ [Next]_vars => [Abstract!Next]_(Abstract!vars)
  BY AbstractStep
<1>. QED
  BY <1>1, <1>2, <1>3, <1>4, Typing, Invariant, OrderInvariant, PTL
     DEF Spec, ImplementsOrderedOutput, Abstract!Spec

=============================================================================
