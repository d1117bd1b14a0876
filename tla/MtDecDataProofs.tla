--------------------------- MODULE MtDecDataProofs ---------------------------
(* Proofs about the data of the block decoder (MtDec), for any number of     *)
(* threads, any streams, any number of calls and any faults: what is written *)
(* and what is left to the single-thread decoder.  The invariant of the data *)
(* (DInv) and what a thread knows of its block are in MtDecProofs.           *)
EXTENDS MtDecProofs

-----------------------------------------------------------------------------
(* Writing *)

\* What a thread finds when its turn to write has come, and leaves behind.
LEMMA TakeWriteIs ==
  ASSUME ControlTypes, DataTypes, NEW t \in Threads, TakeWrite(t)
  PROVE  /\ pc[t] = "waitWrite" /\ canWrite[t]
         /\ UNCHANGED <<mainVars, cross, crossBlock, readPos, readRes, stream, interruptIndex, buf, coder,
                        filledStart, numFilled, saved, inProcessed, out, refused, blockIndex, numStarted>>
         /\ progRes' \in {"OK", "PROGRESS"} /\ (progRes # "OK" => progRes' # "OK")
         /\ ~local[t].needCode => progRes' = progRes
         /\ wasInterrupted' = (wasInterrupted \/ local[t].codeRes # "OK" \/ Failed(local[t]))
         /\ wasInterrupted => NeedContinue' = NeedContinue
         /\ ~wasInterrupted => NeedContinue' = (NeedContinue \/ local[t].thr \/ AllocError(local[t]) \/ local[t].over)
         /\ {wasInterrupted, isAllocError, overflow, threadingError}' \subseteq BOOLEAN
         /\ Keeps(t, {"interrupted", "toStream", "res", "needContinue"})
         /\ local'[t].interrupted = (local[t].interrupted \/ wasInterrupted)
         /\ local'[t].toStream = (local[t].needWrite /\
              (wasInterrupted \/ ~(local[t].thr \/ AllocError(local[t]) \/ local[t].over)))
         /\ local'[t].res = (IF local[t].needCode THEN progRes' ELSE local[t].res)
         /\ local'[t].needContinue = ~local[t].finish
         /\ pc'[t] = IF local[t].needWrite THEN "write" ELSE "register"
<1>0. /\ DOMAIN local = Threads /\ DOMAIN local[t] = FieldNames /\ pc \in [Threads -> ThreadPcs]
      /\ progRes \in {"OK", "PROGRESS"} /\ LocalType(local[t])
      /\ {wasInterrupted, isAllocError, overflow, threadingError} \subseteq BOOLEAN
  BY Fields DEF DataTypes, Typed, WriterTypes
<1>1. /\ pc[t] = "waitWrite" /\ canWrite[t]
      /\ UNCHANGED <<mainVars, cross, crossBlock, readPos, readRes, stream, interruptIndex, buf, coder,
                        filledStart, numFilled, saved, inProcessed, out, refused, blockIndex, numStarted>>
  BY DEF TakeWrite, mainVars, readerVars
<1>2. /\ progRes' \in {"OK", "PROGRESS"} /\ (progRes # "OK" => progRes' # "OK")
      /\ ~local[t].needCode => progRes' = progRes
  BY <1>0 DEF TakeWrite, ProgressCall
<1> DEFINE alloc == AllocError(local[t])
<1>3. IF wasInterrupted
      THEN UNCHANGED <<wasInterrupted, isAllocError, overflow, threadingError>>
      ELSE /\ wasInterrupted' = (local[t].codeRes # "OK" \/ local[t].thr \/ alloc \/ local[t].over)
           /\ threadingError' = (threadingError \/ local[t].thr)
           /\ isAllocError' = (isAllocError \/ alloc)
           /\ overflow' = (overflow \/ local[t].over)
  BY DEF TakeWrite
<1>4. /\ local[t].thr \in BOOLEAN /\ local[t].over \in BOOLEAN /\ alloc \in BOOLEAN
  BY <1>0 DEF LocalType, AllocError
<1>5. wasInterrupted' = (wasInterrupted \/ local[t].codeRes # "OK" \/ Failed(local[t]))
  <2>1. alloc <=> local[t].alloc \/ local[t].codeRes = "MEM" BY DEF AllocError
  <2>2. Failed(local[t]) <=> local[t].codeRes # "OK" \/ local[t].thr \/ local[t].alloc \/ local[t].over
    BY DEF Failed
  <2>3. CASE wasInterrupted BY <1>0, <1>3, <2>3
  <2>4. CASE ~wasInterrupted
    <3>1. wasInterrupted' <=> local[t].codeRes # "OK" \/ local[t].thr \/ alloc \/ local[t].over BY <1>3, <2>4
    <3>2. wasInterrupted' \in BOOLEAN BY <1>3, <2>4
    <3> HIDE DEF alloc
    <3> QED BY <2>1, <2>2, <2>4, <3>1, <3>2
  <2> QED BY <2>3, <2>4
<1>6. wasInterrupted => NeedContinue' = NeedContinue BY <1>3 DEF NeedContinue
<1>7. ~wasInterrupted => NeedContinue' = (NeedContinue \/ local[t].thr \/ alloc \/ local[t].over)
  <2> HIDE DEF alloc
  <2> QED BY <1>0, <1>3, <1>4 DEF NeedContinue
<1>8. {wasInterrupted, isAllocError, overflow, threadingError}' \subseteq BOOLEAN
  <2> HIDE DEF alloc
  <2>1. CASE wasInterrupted BY <1>0, <1>3, <2>1
  <2>2. CASE ~wasInterrupted
    <3>1. threadingError' \in BOOLEAN /\ isAllocError' \in BOOLEAN /\ overflow' \in BOOLEAN
          /\ wasInterrupted' \in BOOLEAN
      BY <1>0, <1>3, <1>4, <2>2
    <3> QED BY <3>1
  <2> QED BY <2>1, <2>2
<1> DEFINE str == local[t].needWrite /\ (wasInterrupted \/ ~(local[t].thr \/ alloc \/ local[t].over))
<1>9. local' = [local EXCEPT
       ![t].interrupted = @ \/ wasInterrupted,
       ![t].toStream = str,
       ![t].res = IF local[t].needCode THEN progRes' ELSE @,
       ![t].needContinue = ~local[t].finish]
  BY DEF TakeWrite
<1> HIDE DEF str
<1>10. /\ Keeps(t, {"interrupted", "toStream", "res", "needContinue"})
         /\ local'[t].interrupted = (local[t].interrupted \/ wasInterrupted)
         /\ local'[t].toStream = str
         /\ local'[t].res = (IF local[t].needCode THEN progRes' ELSE local[t].res)
         /\ local'[t].needContinue = ~local[t].finish
  BY <1>0, <1>9, Names DEF Keeps
<1>11. pc'[t] = IF local[t].needWrite THEN "write" ELSE "register"
  BY <1>0 DEF TakeWrite
<1> QED BY <1>1, <1>2, <1>5, <1>6, <1>7, <1>8, <1>10, <1>11 DEF str

\* A thread gets canWrite.
LEMMA TakeWriteBlock ==
  ASSUME ControlTypes, DataTypes, NEW t \in Threads, NEW p \in Nat, NEW b,
         BlockOk(t, p, b), TakeWrite(t)
  PROVE  /\ Typed(t)' /\ BlockOk(t, p, b)' /\ (LastBlock(t, p) => LastBlock(t, p)')
         /\ local'[t].size = local[t].size
<1>0. pc[t] = "waitWrite" BY TakeWriteIs
<1>1. /\ UNCHANGED <<cross, crossBlock, readPos, readRes, stream, interruptIndex, buf, coder>>
      /\ progRes' \in {"OK", "PROGRESS"} /\ (progRes # "OK" => progRes' # "OK")
      /\ ~local[t].needCode => progRes' = progRes
  BY TakeWriteIs
<1>2. wasInterrupted' = (wasInterrupted \/ local[t].codeRes # "OK" \/ Failed(local[t])) BY TakeWriteIs
<1>3. /\ Keeps(t, {"interrupted", "toStream", "res", "needContinue"})
      /\ local'[t].interrupted = (local[t].interrupted \/ wasInterrupted)
      /\ local'[t].toStream = (local[t].needWrite /\
              (wasInterrupted \/ ~(local[t].thr \/ AllocError(local[t]) \/ local[t].over)))
      /\ local'[t].res = (IF local[t].needCode THEN progRes' ELSE local[t].res)
  BY TakeWriteIs
<1>4. pc'[t] = IF local[t].needWrite THEN "write" ELSE "register" BY TakeWriteIs
<1>5. /\ local'[t].over = local[t].over
      /\ local'[t].thr = local[t].thr /\ local'[t].alloc = local[t].alloc
      /\ local'[t].canRecode = local[t].canRecode
      /\ local'[t].size = local[t].size /\ local'[t].start = local[t].start
      /\ local'[t].needWrite = local[t].needWrite /\ local'[t].codeRes = local[t].codeRes
      /\ local'[t].finish = local[t].finish /\ local'[t].needCode = local[t].needCode
      /\ local'[t].link = local[t].link /\ local'[t].src = local[t].src
      /\ local'[t].block = local[t].block /\ local'[t].isCross = local[t].isCross
  BY <1>3, Names DEF Keeps
<1>6. LastUnit' = LastUnit /\ StopAt' = StopAt BY <1>1 DEF LastUnit, StopAt
<1>7. Decoding(t, p, b) /\ p < LastUnit BY <1>0 DEF BlockOk, WorkPcs
<1>8. Facts(t, p) /\ Whole(t) BY <1>0, <1>7 DEF Decoding
<1>9. Chained(t, p)' BY <1>1, <1>5, <1>8 DEF Chained, Facts
<1>10. Facts(t, p)' BY <1>1, <1>5, <1>6, <1>8, <1>9 DEF Facts
<1>11. /\ local[t].interrupted => IsInterrupted(b)
       /\ local[t].res # "OK" => progRes # "OK"
       /\ local[t].canRecode
       /\ local[t].codeRes = "MEM" => local[t].finish
       /\ ~local[t].finish => local[t].needCode
  BY <1>0, <1>7 DEF Decoding
<1>12. Whole(t)'
  <2>1. local'[t].res = "OK" => local[t].res = "OK" BY <1>1, <1>3, <1>11
  <2>2. ~local'[t].interrupted => ~local[t].interrupted BY <1>3
  <2>3. ~local[t].needCode => local'[t].res = local[t].res BY <1>3
  <2>4. local'[t].needCode \/ Excused(local'[t]) \/ local'[t].codeRes = "MEM"
          \/ (local'[t].codeRes = "DATA" /\ coder'[t].codeRes = "DATA" /\ coder'[t].inPre = 0 /\ local'[t].size = 0)
    <3>1. ~local[t].needCode /\ Excused(local[t]) => Excused(local'[t]) BY <1>5, <2>2, <2>3 DEF Excused
    <3>2. local[t].needCode \/ Excused(local[t]) \/ local[t].codeRes = "MEM"
          \/ (local[t].codeRes = "DATA" /\ coder[t].codeRes = "DATA" /\ coder[t].inPre = 0 /\ local[t].size = 0)
      BY <1>8 DEF Whole
    <3> QED BY <1>1, <1>5, <3>1, <3>2
  <2>5. Complete' = Complete BY <1>1, <1>6 DEF Complete
  <2>6. /\ local[t].needCode /\ local[t].codeRes = "OK" /\ local[t].res = "OK" /\ ~local[t].interrupted
           /\ ~local[t].alloc => Len(coder[t].data) = coder[t].inPre
        /\ local[t].needCode /\ local[t].codeRes # "OK" => coder[t].codeRes = "DATA" \/ Len(coder[t].data) = coder[t].inPre
        /\ local[t].codeRes = "FAIL" => local[t].alloc
        /\ local[t].codeRes = "DATA" => ~Complete \/ readRes # "OK"
    BY <1>8 DEF Whole
  <2> QED BY <1>1, <1>5, <2>1, <2>2, <2>4, <2>5, <2>6 DEF Whole
<1>13. local'[t].res # "OK" => progRes' # "OK" BY <1>1, <1>3, <1>11
<1>14. pc'[t] = "write" => /\ Failed(local'[t]) => wasInterrupted'
                           /\ ~local'[t].toStream => wasInterrupted'
                           /\ local'[t].toStream /\ ~local'[t].interrupted
                                => ~(local'[t].thr \/ AllocError(local'[t]) \/ local'[t].over)
  <2> SUFFICES ASSUME pc'[t] = "write"
               PROVE /\ Failed(local'[t]) => wasInterrupted'
                     /\ ~local'[t].toStream => wasInterrupted'
                     /\ local'[t].toStream /\ ~local'[t].interrupted
                                => ~(local'[t].thr \/ AllocError(local'[t]) \/ local'[t].over)
    OBVIOUS
  <2>1. Failed(local'[t]) <=> Failed(local[t]) BY <1>5 DEF Failed
  <2>2. AllocError(local'[t]) <=> AllocError(local[t]) BY <1>5 DEF AllocError
  <2>3. local[t].thr \/ AllocError(local[t]) \/ local[t].over => Failed(local[t]) BY DEF Failed, AllocError
  <2>4. local[t].needWrite BY <1>4
  <2> QED BY <1>2, <1>3, <1>5, <2>1, <2>2, <2>3, <2>4
<1>15. IsInterrupted(b)' = IsInterrupted(b) BY <1>1 DEF IsInterrupted
<1>16. /\ coder[t].data = From(p + 1, Len(coder[t].data)) /\ Len(coder[t].data) <= coder[t].inPre
       /\ Len(coder[t].data) <= local[t].size
       /\ coder[t].data = <<>> \/ (local[t].needCode /\ Sound(p + Len(coder[t].data)))
  BY <1>7 DEF Decoding
<1>17. Sound(p + Len(coder[t].data))' <=> Sound(p + Len(coder[t].data)) BY <1>1 DEF Sound
<1>18. Decoding(t, p, b)'
  <2>1. local'[t].interrupted => IsInterrupted(b)' \/ wasInterrupted' BY <1>2, <1>3, <1>11, <1>15
  <2>2. pc'[t] \in {"write", "register"} BY <1>4
  <2>3. coder'[t].data = <<>> \/ (local'[t].needCode /\ Sound(p + Len(coder[t].data))')
    BY <1>1, <1>5, <1>16, <1>17
  <2>4. coder'[t].data = From(p + 1, Len(coder'[t].data)) /\ Len(coder'[t].data) <= coder'[t].inPre
        /\ Len(coder'[t].data) <= local'[t].size
    BY <1>1, <1>5, <1>16
  <2>5. /\ local'[t].canRecode /\ (local'[t].codeRes = "MEM" => local'[t].finish)
        /\ (~local'[t].finish => local'[t].needCode)
    BY <1>5, <1>11
  <2> QED BY <1>10, <1>12, <1>13, <1>14, <2>1, <2>2, <2>3, <2>4, <2>5 DEF Decoding
<1>19. Typed(t)'
  <2>1. LocalType(local[t]) /\ CoderType(coder[t]) /\ buf[t] \in Seq(Seq(Unit)) BY DEF DataTypes, Typed
  <2>2. wasInterrupted \in BOOLEAN BY DEF DataTypes, WriterTypes
  <2>3. local'[t].interrupted \in BOOLEAN /\ local'[t].toStream \in BOOLEAN
        /\ local'[t].res \in {"OK", "PROGRESS", "WRITE", "FAIL"}
    BY <1>1, <1>3, <2>1 DEF LocalType
  <2>4. LocalType(local'[t]) BY <1>5, <2>1, <2>3 DEF LocalType
  <2> QED BY <1>1, <2>1, <2>4 DEF Typed
<1>20. BlockOk(t, p, b)' BY <1>4, <1>6, <1>7, <1>18 DEF BlockOk, WorkPcs, WriterPcs
<1>21. LastBlock(t, p) => LastBlock(t, p)' BY <1>0, <1>1, <1>5, WorkerLast DEF WorkPcs
<1> QED BY <1>5, <1>19, <1>20, <1>21

\* The front block is only interrupted when a block before it was not written.
LEMMA FrontInterrupted ==
  ASSUME ControlTypes, DataTypes, NEW f, NEW k, RingTypes(f, k), NEW first, Numbers(f, k, first),
         Interrupts, IsInterrupted(first)
  PROVE  Broken
<1>1. first \in Nat /\ interruptIndex \in Nat /\ interruptIndex # 0 /\ interruptIndex < first
  <2>1. first \in Unit BY RingOrder
  <2>2. interruptIndex \in Nat BY DEF DataTypes, Numbered
  <2> QED BY <2>1, <2>2 DEF IsInterrupted, Unit
<1>2. ASSUME NEW u \in Threads, pc[u] = "waitWrite", local[u].block = interruptIndex PROVE FALSE
  <2>1. HasBlock(u) BY <1>2 DEF HasBlock, WorkPcs
  <2>2. local[u].block \in first .. blockIndex - 1 BY <2>1, RingOrder
  <2> QED BY <1>1, <1>2, <2>2
<1> QED BY <1>1, <1>2 DEF Interrupts

\* The block whose turn to write has come.
LEMMA TakeWriteWriting ==
  ASSUME ControlTypes, DataTypes, NEW f, NEW k, RingTypes(f, k), NEW first, Numbers(f, k, first),
         Interrupts, Flags, NEW t \in Threads, NEW p \in Nat, BlockOk(t, p, first), TakeWrite(t),
         local[t].block = first,
         ~Broken => Ready(p), NeedContinue => progRes # "OK"
  PROVE  Writing(t, p)' /\ Flags' /\ Interrupts'
<1>0. pc[t] = "waitWrite" BY TakeWriteIs
<1>1. /\ UNCHANGED <<cross, readPos, readRes, stream, interruptIndex, buf, coder, numFilled, out, refused>>
      /\ progRes' \in {"OK", "PROGRESS"} /\ (progRes # "OK" => progRes' # "OK")
      /\ ~local[t].needCode => progRes' = progRes
  BY TakeWriteIs
<1>2. wasInterrupted' = (wasInterrupted \/ local[t].codeRes # "OK" \/ Failed(local[t])) BY TakeWriteIs
<1>3. /\ wasInterrupted => NeedContinue' = NeedContinue
      /\ ~wasInterrupted => NeedContinue' = (NeedContinue \/ local[t].thr \/ AllocError(local[t]) \/ local[t].over)
  BY TakeWriteIs
<1>4. /\ Keeps(t, {"interrupted", "toStream", "res", "needContinue"})
      /\ local'[t].interrupted = (local[t].interrupted \/ wasInterrupted)
      /\ local'[t].toStream = (local[t].needWrite /\
              (wasInterrupted \/ ~(local[t].thr \/ AllocError(local[t]) \/ local[t].over)))
      /\ local'[t].res = (IF local[t].needCode THEN progRes' ELSE local[t].res)
      /\ local'[t].needContinue = ~local[t].finish
  BY TakeWriteIs
<1>5. pc'[t] = IF local[t].needWrite THEN "write" ELSE "register" BY TakeWriteIs
<1>6. /\ local'[t].canRecode = local[t].canRecode
      /\ local'[t].size = local[t].size
      /\ local'[t].needWrite = local[t].needWrite
      /\ local'[t].finish = local[t].finish /\ local'[t].needCode = local[t].needCode
      /\ local'[t].block = local[t].block
  BY <1>4, Names DEF Keeps
<1>7. LastUnit' = LastUnit /\ Complete' = Complete BY <1>1 DEF LastUnit, Complete
<1>8. Decoding(t, p, first) /\ p < LastUnit BY <1>0 DEF BlockOk, WorkPcs
<1>9. Facts(t, p) /\ Whole(t) BY <1>0, <1>8 DEF Decoding
<1>10. /\ local[t].interrupted => IsInterrupted(first)
       /\ local[t].res # "OK" => progRes # "OK"
       /\ local[t].canRecode
       /\ local[t].codeRes = "MEM" => local[t].finish
       /\ ~local[t].finish => local[t].needCode
       /\ coder[t].data = <<>> \/ local[t].needCode
  BY <1>0, <1>8 DEF Decoding
<1>11. local[t].needCode => local[t].needWrite BY <1>9 DEF Facts
<1>12. local[t].alloc \/ local[t].over \/ local[t].thr => local[t].finish BY <1>9 DEF Facts
<1>13. local[t].interrupted => Broken BY <1>10, FrontInterrupted
<1>14. Broken => Broken' BY <1>1, <1>2 DEF Broken
<1>15. Ready(p)' <=> Ready(p) BY <1>1 DEF Ready, Sound
<1>16. NeedContinue => wasInterrupted BY DEF Flags
<1>17. local[t].thr \/ AllocError(local[t]) \/ local[t].over => local[t].finish /\ Failed(local[t])
  BY <1>10, <1>12 DEF AllocError, Failed
<1>18. pc'[t] = "register" => Broken'
  <2> SUFFICES ASSUME pc'[t] = "register" PROVE Broken' OBVIOUS
  <2>1. ~local[t].needCode BY <1>5, <1>11
  <2>2. Excused(local[t]) \/ local[t].codeRes # "OK"
    <3>1. local[t].needCode \/ Excused(local[t]) \/ local[t].codeRes = "MEM"
          \/ (local[t].codeRes = "DATA" /\ coder[t].codeRes = "DATA" /\ coder[t].inPre = 0 /\ local[t].size = 0)
      BY <1>9 DEF Whole
    <3> QED BY <2>1, <3>1
  <2>3. local[t].codeRes # "OK" \/ Failed(local[t]) => Broken' BY <1>2 DEF Broken
  <2>4. local[t].res # "OK" => Broken' BY <1>10, <1>14 DEF Broken
  <2>5. local[t].interrupted => Broken' BY <1>13, <1>14
  <2>6. local[t].over \/ local[t].alloc \/ local[t].thr => Failed(local[t]) BY DEF Failed
  <2> QED BY <2>2, <2>3, <2>4, <2>5, <2>6 DEF Excused
<1>19. pc'[t] = "write" => ((ToStream(local'[t]) /\ coder'[t].data # <<>>) \/ ~Broken' => Ready(p)')
  <2> SUFFICES ASSUME (ToStream(local'[t]) /\ coder'[t].data # <<>>) \/ ~Broken' PROVE Ready(p) BY <1>15
  <2>1. CASE ~Broken' BY <1>14, <2>1
  <2>2. CASE ToStream(local'[t]) /\ coder'[t].data # <<>>
    <3>1. local'[t].res = "OK" /\ ~local'[t].interrupted BY <2>2 DEF ToStream
    <3>2. local[t].needCode BY <1>1, <1>10, <2>2
    <3>3. progRes = "OK" /\ ~wasInterrupted BY <1>1, <1>4, <3>1, <3>2
    <3> QED BY <3>3 DEF Broken
  <2> QED BY <2>1, <2>2
<1>20. ASSUME NeedContinue', progRes' = "OK"
       PROVE  /\ Ready(p) /\ local[t].finish /\ ~local'[t].needContinue /\ ~local'[t].toStream
  <2>1. progRes = "OK" BY <1>1, <1>20
  <2>2. ~NeedContinue BY <2>1
  <2>3. ~wasInterrupted BY <1>3, <1>20, <2>2
  <2>4. local[t].thr \/ AllocError(local[t]) \/ local[t].over BY <1>3, <1>20, <2>2, <2>3
  <2>5. Ready(p) BY <2>1, <2>3 DEF Broken
  <2> QED BY <1>4, <1>17, <2>3, <2>4, <2>5
<1>21. Writing(t, p)'
  <2>1. pc'[t] = "write" => local'[t].needWrite BY <1>5, <1>6
  <2>2. ~(local'[t].finish /\ local'[t].needContinue) BY <1>4, <1>6
  <2>3. pc'[t] = "register" => local'[t].finish BY <1>5, <1>6, <1>10, <1>11
  <2>4. pc'[t] # "interrupt2" /\ pc'[t] \in {"write", "register"} BY <1>5
  <2>5. NeedContinue' /\ progRes' = "OK" =>
          /\ Ready(p)' /\ local'[t].finish /\ local'[t].canRecode /\ ~local'[t].needContinue
          /\ pc'[t] = "write" => ~local'[t].toStream
    BY <1>6, <1>10, <1>15, <1>20
  <2> QED BY <1>18, <1>19, <2>1, <2>2, <2>3, <2>4, <2>5 DEF Writing
<1>22. Flags'
  <2>1. NeedContinue' => wasInterrupted' BY <1>2, <1>3, <1>16, <1>17
  <2>2. Reason'
    <3> SUFFICES ASSUME wasInterrupted', ~NeedContinue', progRes' = "OK"
                 PROVE  refused \/ ~Complete \/ readRes # "OK"
      BY <1>1, <1>7 DEF Reason
    <3>1. progRes = "OK" BY <1>1
    <3>2. CASE wasInterrupted BY <1>3, <3>1, <3>2 DEF Flags, Reason
    <3>3. CASE ~wasInterrupted
      <4>1. ~local[t].thr /\ ~AllocError(local[t]) /\ ~local[t].over BY <1>3, <3>3
      <4>2. local[t].codeRes # "OK" BY <1>2, <3>3, <4>1 DEF Failed, AllocError
      <4>3. local[t].codeRes # "MEM" /\ ~local[t].alloc BY <4>1 DEF AllocError
      <4>4. LocalType(local[t]) BY DEF DataTypes, Typed
      <4>5. local[t].codeRes \in {"DATA", "FAIL"} BY <4>2, <4>3, <4>4 DEF LocalType
      <4> QED BY <1>9, <4>3, <4>5 DEF Whole
    <3> QED BY <3>2, <3>3
  <2> QED BY <2>1, <2>2 DEF Flags
<1>23. Interrupts'
  <2> SUFFICES ASSUME interruptIndex' # 0, ~Broken'
               PROVE  \E u \in Threads : /\ pc'[u] = "waitWrite" /\ local'[u].block = interruptIndex'
                                         /\ local'[u].codeRes # "OK"
    BY DEF Interrupts
  <2>1. ~Broken /\ interruptIndex # 0 BY <1>1, <1>14
  <2>2. PICK u \in Threads : /\ pc[u] = "waitWrite" /\ local[u].block = interruptIndex
                             /\ local[u].codeRes # "OK"
    BY <2>1 DEF Interrupts
  <2>3. u # t BY <1>2, <2>2 DEF Broken
  <2>4. pc'[u] = "waitWrite" /\ local'[u] = local[u]
    <3>1. Elsewhere(t) BY Frame DEF Thread
    <3> QED BY <2>2, <2>3, <3>1 DEF Elsewhere
  <2> QED BY <1>1, <2>2, <2>4
<1> QED BY <1>21, <1>22, <1>23

\* What the end of the attempt to write leaves behind.
After(t, res, needContinue, canRecode) ==
  /\ Keeps(t, {"res", "needContinue", "canRecode"})
  /\ local'[t].res = res /\ local'[t].needContinue = needContinue /\ local'[t].canRecode = canRecode
  /\ wasInterrupted' = (wasInterrupted \/ res # "OK")
  /\ pc'[t] = IF res # "OK" \/ (~needContinue /\ ~local[t].finish) THEN "interrupt2" ELSE "register"

\* The part w of the block's data is written.
WritesPart(t, w) ==
  /\ out' = out \o SubSeq(coder[t].data, 1, w[1])
  /\ refused' = (refused \/ w[2] = "WRITE")
  /\ progRes' = (IF w[2] = "PROGRESS" /\ progRes = "OK" THEN w[2] ELSE progRes)
  /\ inProcessed' = inProcessed + Len(coder[t].data)
  /\ After(t, w[2], w[2] = "OK" /\ coder[t].state \notin {"OVERFLOW", "END"}, FALSE)

\* What MtDec_ThreadFunc does around the Write callback, in parts.
LEMMA WriteIs ==
  ASSUME ControlTypes, DataTypes, NEW t \in Threads, Write(t)
  PROVE  /\ pc[t] = "write"
         /\ UNCHANGED <<cross, crossBlock, readPos, readRes, stream, interruptIndex, buf, coder,
                        isAllocError, overflow, threadingError, filledStart, numFilled, saved, blockIndex, numStarted>>
         /\ ~ToStream(local[t]) => /\ After(t, "OK", FALSE, TRUE)
                                   /\ UNCHANGED <<out, refused, progRes, inProcessed>>
         /\ ToStream(local[t]) /\ ~Mismatch(t) => \E w \in Writes(coder[t].data) : WritesPart(t, w)
<1>0. /\ DOMAIN local = Threads /\ DOMAIN local[t] = FieldNames /\ pc \in [Threads -> ThreadPcs]
      /\ inProcessed \in Nat
  BY Fields DEF DataTypes, WriterTypes
<1>1. /\ pc[t] = "write"
      /\ UNCHANGED <<cross, crossBlock, readPos, readRes, stream, interruptIndex, buf, coder,
                        isAllocError, overflow, threadingError, filledStart, numFilled, saved, blockIndex, numStarted>>
  BY DEF Write, mainVars, readerVars
<1> DEFINE A(r, more, again) ==
             /\ local' = [local EXCEPT ![t].res = r, ![t].needContinue = more, ![t].canRecode = again]
             /\ wasInterrupted' = (wasInterrupted \/ r # "OK")
             /\ pc' = [pc EXCEPT ![t] = IF r # "OK" \/ (~more /\ ~local[t].finish)
                                        THEN "interrupt2" ELSE "register"]
<1>2. ASSUME NEW r, NEW more, NEW again, A(r, more, again) PROVE After(t, r, more, again)
  <2>1. local' = [local EXCEPT ![t].res = r, ![t].needContinue = more, ![t].canRecode = again]
    BY <1>2
  <2>2. Keeps(t, {"res", "needContinue", "canRecode"})
    BY <1>0, <2>1, Names DEF Keeps
  <2>3. local'[t].res = r /\ local'[t].needContinue = more /\ local'[t].canRecode = again
    BY <1>0, <2>1, Names
  <2>4. /\ wasInterrupted' = (wasInterrupted \/ r # "OK")
        /\ pc'[t] = IF r # "OK" \/ (~more /\ ~local[t].finish) THEN "interrupt2" ELSE "register"
    BY <1>0, <1>2
  <2> QED BY <2>2, <2>3, <2>4 DEF After
<1>3. inProcessed' = inProcessed + WrittenInput(t) BY DEF Write
<1>4. ASSUME ~ToStream(local[t])
      PROVE  After(t, "OK", FALSE, TRUE) /\ UNCHANGED <<out, refused, progRes, inProcessed>>
  <2>1. A("OK", FALSE, TRUE) /\ UNCHANGED <<out, refused, progRes>> BY <1>4 DEF Write
  <2>2. UNCHANGED inProcessed BY <1>0, <1>3, <1>4 DEF WrittenInput
  <2> HIDE DEF A
  <2> QED BY <1>2, <2>1, <2>2
<1>5. ASSUME ToStream(local[t]), ~Mismatch(t) PROVE \E w \in Writes(coder[t].data) : WritesPart(t, w)
  <2>1. PICK w \in Writes(coder[t].data) :
          /\ out' = out \o SubSeq(coder[t].data, 1, w[1])
          /\ refused' = (refused \/ w[2] = "WRITE")
          /\ progRes' = (IF w[2] = "PROGRESS" /\ progRes = "OK" THEN w[2] ELSE progRes)
          /\ A(w[2], w[2] = "OK" /\ coder[t].state \notin {"OVERFLOW", "END"}, FALSE)
    BY <1>5 DEF Write
  <2> DEFINE more == w[2] = "OK" /\ coder[t].state \notin {"OVERFLOW", "END"}
  <2>2. A(w[2], more, FALSE) BY <2>1
  <2>3. inProcessed' = inProcessed + Len(coder[t].data) BY <1>3, <1>5 DEF WrittenInput
  <2> HIDE DEF A, more
  <2>4. After(t, w[2], more, FALSE) BY <1>2, <2>2
  <2>5. WritesPart(t, w) BY <2>1, <2>3, <2>4 DEF WritesPart, more
  <2> QED BY <2>5
<1> QED BY <1>1, <1>4, <1>5

\* A block that goes to the stream was decoded as far as it was parsed.
LEMMA NoMismatch ==
  ASSUME DataTypes, NEW t \in Threads, NEW p \in Nat, NEW b, BlockOk(t, p, b), pc[t] = "write", ToStream(local[t])
  PROVE  /\ ~Mismatch(t) /\ ~local[t].alloc /\ ~local[t].over /\ ~local[t].thr
         /\ coder[t].state # "END" => p + local[t].size < LastUnit
         /\ local[t].needCode \/ local[t].codeRes # "OK"
<1>1. Decoding(t, p, b) /\ p < LastUnit BY DEF BlockOk, WorkPcs, WriterPcs
<1>2. Whole(t) /\ Facts(t, p) BY <1>1 DEF Decoding
<1>3. local[t].res = "OK" /\ local[t].toStream /\ ~local[t].interrupted BY DEF ToStream
<1>4. ~local[t].thr /\ ~local[t].alloc /\ local[t].codeRes # "MEM" /\ ~local[t].over
  BY <1>1, <1>3 DEF Decoding, AllocError
<1>5. ~Excused(local[t]) BY <1>3, <1>4 DEF Excused
<1>6. CASE local[t].needCode
  <2>1. coder[t].codeRes = "DATA" \/ Len(coder[t].data) = coder[t].inPre
    BY <1>2, <1>3, <1>4, <1>6 DEF Whole
  <2>2. coder[t].state # "END" => p + local[t].size < LastUnit BY <1>2, <1>4, <1>6 DEF Facts
  <2> QED BY <1>4, <1>6, <2>1, <2>2 DEF Mismatch
<1>7. CASE ~local[t].needCode
  <2>1. local[t].codeRes = "DATA" /\ coder[t].codeRes = "DATA" /\ local[t].size = 0
    <3>1. \/ local[t].needCode \/ Excused(local[t]) \/ local[t].codeRes = "MEM"
          \/ (local[t].codeRes = "DATA" /\ coder[t].codeRes = "DATA" /\ coder[t].inPre = 0 /\ local[t].size = 0)
      BY <1>2 DEF Whole
    <3> QED BY <1>4, <1>5, <1>7, <3>1
  <2>2. p + local[t].size = p BY <2>1
  <2> QED BY <1>1, <1>4, <2>1, <2>2 DEF Mismatch
<1> QED BY <1>6, <1>7

\* What the output takes of a block's data.
LEMMA WritesIs ==
  ASSUME NEW data \in Seq(Unit), NEW w \in Writes(data)
  PROVE  /\ w[1] \in 0 .. Len(data) /\ w[2] \in {"OK", "WRITE", "PROGRESS"}
         /\ w[2] = "OK" => w[1] = Len(data)
         /\ w[2] = "PROGRESS" => May("progress")
<1>1. Len(data) \in Nat /\ (data # <<>> => Len(data) >= 1) BY LenProperties, EmptySeq
<1>2. w = <<Len(data), "OK">> \/ (w = <<Len(data) - 1, "WRITE">> /\ data # <<>>)
      \/ (w = <<1, "PROGRESS">> /\ May("progress") /\ Len(data) > 1)
  BY DEF Writes
<1>3. CASE w = <<Len(data), "OK">> BY <1>1, <1>3
<1>4. CASE w = <<Len(data) - 1, "WRITE">> /\ data # <<>> BY <1>1, <1>4
<1>5. CASE w = <<1, "PROGRESS">> /\ May("progress") /\ Len(data) > 1 BY <1>1, <1>5
<1> QED BY <1>2, <1>3, <1>4, <1>5

\* Either the block is not for the stream, or some part of it is written.
LEMMA WriteCases ==
  ASSUME ControlTypes, DataTypes, NEW t \in Threads, NEW p \in Nat, NEW b, BlockOk(t, p, b), Write(t)
  PROVE  \/ /\ ~ToStream(local[t]) /\ After(t, "OK", FALSE, TRUE)
            /\ UNCHANGED <<out, refused, progRes, inProcessed>>
         \/ ToStream(local[t]) /\ \E w \in Writes(coder[t].data) : WritesPart(t, w)
<1>1. pc[t] = "write" BY WriteIs
<1>2. CASE ~ToStream(local[t]) BY <1>2, WriteIs
<1>3. CASE ToStream(local[t])
  <2>1. ~Mismatch(t) BY <1>1, <1>3, NoMismatch
  <2> QED BY <1>3, <2>1, WriteIs
<1> QED BY <1>2, <1>3

\* The write changes of the thread's own state only its result and what it asks for.
LEMMA WriteKeeps ==
  ASSUME ControlTypes, DataTypes, NEW t \in Threads, NEW p \in Nat, NEW b, BlockOk(t, p, b), Write(t)
  PROVE  \E res \in {"OK", "WRITE", "PROGRESS"}, more, again \in BOOLEAN : After(t, res, more, again)
<1>1. CASE After(t, "OK", FALSE, TRUE) BY <1>1
<1>2. CASE \E w \in Writes(coder[t].data) : WritesPart(t, w)
  <2>1. PICK w \in Writes(coder[t].data) : WritesPart(t, w) BY <1>2
  <2>2. coder[t].data \in Seq(Unit) BY Fields
  <2> DEFINE more == w[2] = "OK" /\ coder[t].state \notin {"OVERFLOW", "END"}
  <2>3. After(t, w[2], more, FALSE) BY <2>1 DEF WritesPart
  <2>4. more \in BOOLEAN OBVIOUS
  <2> HIDE DEF more
  <2> QED BY <2>2, <2>3, <2>4, WritesIs
<1> QED BY <1>1, <1>2, WriteCases

\* The write leaves the block as it is.
LEMMA WriteBlock ==
  ASSUME ControlTypes, DataTypes, NEW t \in Threads, NEW p \in Nat, NEW b,
         BlockOk(t, p, b), Write(t)
  PROVE  /\ Typed(t)' /\ BlockOk(t, p, b)' /\ (LastBlock(t, p) => LastBlock(t, p)')
         /\ local'[t].size = local[t].size
<1>0. pc[t] = "write" /\ UNCHANGED <<cross, crossBlock, readPos, readRes, stream, interruptIndex, buf, coder>>
  BY WriteIs
<1>1. PICK res \in {"OK", "WRITE", "PROGRESS"}, more, again \in BOOLEAN : After(t, res, more, again)
  BY WriteKeeps
<1>2. /\ Keeps(t, {"res", "needContinue", "canRecode"})
      /\ local'[t].res = res /\ local'[t].canRecode = again
      /\ pc'[t] \in {"interrupt2", "register"}
  BY <1>1 DEF After
<1>5. /\ local'[t].over = local[t].over
      /\ local'[t].thr = local[t].thr /\ local'[t].alloc = local[t].alloc
      /\ local'[t].size = local[t].size /\ local'[t].start = local[t].start
      /\ local'[t].needWrite = local[t].needWrite /\ local'[t].codeRes = local[t].codeRes
      /\ local'[t].finish = local[t].finish /\ local'[t].needCode = local[t].needCode
      /\ local'[t].link = local[t].link /\ local'[t].src = local[t].src
      /\ local'[t].block = local[t].block /\ local'[t].isCross = local[t].isCross
      /\ local'[t].toStream = local[t].toStream /\ local'[t].interrupted = local[t].interrupted
  BY <1>2, Names DEF Keeps
<1>6. LastUnit' = LastUnit /\ StopAt' = StopAt BY <1>0 DEF LastUnit, StopAt
<1>7. Decoding(t, p, b) /\ p < LastUnit BY <1>0 DEF BlockOk, WorkPcs, WriterPcs
<1>8. Facts(t, p) BY <1>7 DEF Decoding
<1>9. Chained(t, p)' BY <1>0, <1>5, <1>8 DEF Chained, Facts
<1>10. Facts(t, p)' BY <1>0, <1>5, <1>6, <1>8, <1>9 DEF Facts
<1>16. /\ coder[t].data = From(p + 1, Len(coder[t].data)) /\ Len(coder[t].data) <= coder[t].inPre
       /\ Len(coder[t].data) <= local[t].size
       /\ coder[t].data = <<>> \/ (local[t].needCode /\ Sound(p + Len(coder[t].data)))
       /\ (local[t].codeRes = "MEM" => local[t].finish)
       /\ (~local[t].finish => local[t].needCode)
  BY <1>7 DEF Decoding
<1>17. Sound(p + Len(coder[t].data))' <=> Sound(p + Len(coder[t].data)) BY <1>0 DEF Sound
<1>18. Decoding(t, p, b)'
  BY <1>0, <1>2, <1>5, <1>10, <1>16, <1>17 DEF Decoding
<1>19. Typed(t)'
  <2>1. LocalType(local[t]) /\ CoderType(coder[t]) /\ buf[t] \in Seq(Seq(Unit)) BY DEF DataTypes, Typed
  <2>4. LocalType(local'[t]) BY <1>2, <1>5, <2>1 DEF LocalType
  <2> QED BY <1>0, <2>1, <2>4 DEF Typed
<1>20. BlockOk(t, p, b)' BY <1>2, <1>6, <1>7, <1>18 DEF BlockOk, WorkPcs, WriterPcs
<1>21. LastBlock(t, p) => LastBlock(t, p)' BY <1>0, <1>5, WorkerLast DEF WorkPcs, WriterPcs
<1> QED BY <1>5, <1>19, <1>20, <1>21

\* The write keeps the types, and an error of the progress.
LEMMA WriteTypes ==
  ASSUME ControlTypes, DataTypes, NEW t \in Threads, NEW p \in Nat, NEW b, BlockOk(t, p, b), Write(t)
  PROVE  WriterTypes' /\ progRes' \in {"OK", "PROGRESS"} /\ (progRes # "OK" => progRes' # "OK")
<1>0. UNCHANGED <<isAllocError, overflow, threadingError, filledStart, numFilled, saved>> BY WriteIs
<1>1. WriterTypes /\ progRes \in {"OK", "PROGRESS"} /\ coder[t].data \in Seq(Unit) /\ Len(coder[t].data) \in Nat
  BY Fields DEF DataTypes
<1>2. wasInterrupted' \in BOOLEAN
  <2>1. PICK res \in {"OK", "WRITE", "PROGRESS"}, more, again \in BOOLEAN : After(t, res, more, again)
    BY WriteKeeps
  <2> QED BY <1>1, <2>1 DEF After, WriterTypes
<1>3. CASE UNCHANGED <<out, refused, progRes, inProcessed>>
  BY <1>0, <1>1, <1>2, <1>3 DEF WriterTypes
<1>4. CASE \E w \in Writes(coder[t].data) : WritesPart(t, w)
  <2>1. PICK w \in Writes(coder[t].data) : WritesPart(t, w) BY <1>4
  <2>2. w[1] \in 0 .. Len(coder[t].data) /\ w[2] \in {"OK", "WRITE", "PROGRESS"} BY <1>1, <2>1, WritesIs
  <2>3. SubSeq(coder[t].data, 1, w[1]) \in Seq(Unit) BY <1>1, <2>2, SubSeqProperties
  <2>4. out' \in Seq(Unit) BY <1>1, <2>1, <2>3, ConcatProperties DEF WritesPart, WriterTypes
  <2>5. inProcessed' \in Nat BY <1>1, <2>1 DEF WritesPart, WriterTypes
  <2>6. refused' \in BOOLEAN BY <1>1, <2>1 DEF WritesPart, WriterTypes
  <2>7. progRes' \in {"OK", "PROGRESS"} /\ (progRes # "OK" => progRes' # "OK") BY <1>1, <2>1, <2>2 DEF WritesPart
  <2> QED BY <1>0, <1>1, <1>2, <2>4, <2>5, <2>6, <2>7 DEF WriterTypes
<1> QED BY <1>3, <1>4, WriteCases

\* What the output becomes when a part of the block's data is written.
LEMMA WriteOut ==
  ASSUME ControlTypes, DataTypes, WriterOk, NEW t \in Threads, NEW p \in Nat, NEW b, BlockOk(t, p, b),
         Writing(t, p), pc[t] = "write", ToStream(local[t]),
         NEW w \in Writes(coder[t].data), WritesPart(t, w)
  PROVE  /\ WriterOk'
         /\ Len(out') = Len(out) + w[1]
<1>0. /\ coder[t].data \in Seq(Unit) /\ Len(coder[t].data) \in Nat
      /\ out \in Seq(Unit) /\ Len(out) \in Nat /\ inProcessed \in Nat
  BY Fields, LenProperties DEF DataTypes, WriterTypes
<1>1. w[1] \in 0 .. Len(coder[t].data) /\ w[2] \in {"OK", "WRITE", "PROGRESS"}
  BY <1>0, WritesIs
<1>2. coder[t].data = From(p + 1, Len(coder[t].data)) BY DEF BlockOk, WorkPcs, WriterPcs, Decoding
<1>3. out' = out \o SubSeq(coder[t].data, 1, w[1]) BY DEF WritesPart
<1>4. out = From(1, Len(out)) BY DEF WriterOk
<1> DEFINE n == Len(coder[t].data)
           m == w[1]
           o == Len(out)
<1>5. n \in Nat /\ m \in 0 .. n /\ m \in Nat /\ o \in Nat /\ p + 1 \in Unit /\ 1 \in Unit
  BY <1>0, <1>1 DEF Unit
<1> HIDE DEF n, m, o
<1>6. SubSeq(coder[t].data, 1, m) = From(p + 1, m)
  BY <1>2, <1>5, FromSub DEF n
<1>7. out' = From(1, o + m)
  <2>1. CASE coder[t].data = <<>>
    <3>1. n = 0 /\ m = 0 BY <1>0, <1>5, <2>1 DEF n
    <3>2. From(p + 1, 0) = <<>> BY FromIs, <1>5
    <3>3. out' = out \o <<>> BY <1>3, <1>6, <3>1, <3>2 DEF m
    <3>4. out' = out BY <1>0, <3>3, ConcatProperties
    <3>5. o + m = o BY <1>5, <3>1
    <3> QED BY <1>4, <3>4, <3>5 DEF o
  <2>2. CASE coder[t].data # <<>>
    <3>1. Ready(p) BY <2>2 DEF Writing
    <3>2. o = p BY <3>1 DEF Ready, o
    <3>3. out' = From(1, o) \o From(p + 1, m) BY <1>3, <1>4, <1>6 DEF m, o
    <3>4. 1 + o = p + 1 BY <1>5, <3>2
    <3>5. out' = From(1, o) \o From(1 + o, m) BY <3>3, <3>4
    <3> QED BY <1>5, <3>5, FromCat
  <2> QED BY <2>1, <2>2
<1>8. o + m \in Nat BY <1>5
<1>9. Len(out') = o + m BY <1>5, <1>7, <1>8, FromIs
<1>10. ~refused' /\ "progress" \notin Faults => inProcessed' = Len(out')
  <2> SUFFICES ASSUME ~refused', "progress" \notin Faults PROVE inProcessed' = Len(out') OBVIOUS
  <2>1. w[2] # "WRITE" /\ ~refused BY DEF WritesPart
  <2>2. w[2] # "PROGRESS" BY <1>0, WritesIs DEF May
  <2>3. m = n BY <1>0, <1>1, <2>1, <2>2, WritesIs DEF m, n
  <2>4. inProcessed = o BY <2>1 DEF WriterOk, o
  <2>5. inProcessed' = inProcessed + n BY DEF WritesPart, n
  <2> QED BY <1>9, <2>3, <2>4, <2>5
<1>11. out' = From(1, Len(out')) BY <1>7, <1>9
<1>12. WriterOk' BY <1>10, <1>11 DEF WriterOk
<1> QED BY <1>9, <1>12 DEF o, m

\* Who interrupted stays where it is while another thread is at work.
LEMMA InterruptsStay ==
  ASSUME ControlTypes, Interrupts, NEW t \in Threads, pc[t] # "waitWrite", Elsewhere(t),
         UNCHANGED interruptIndex, Broken => Broken'
  PROVE  Interrupts'
<1> SUFFICES ASSUME interruptIndex' # 0, ~Broken'
             PROVE  \E u \in Threads : /\ pc'[u] = "waitWrite" /\ local'[u].block = interruptIndex'
                                       /\ local'[u].codeRes # "OK"
  BY DEF Interrupts
<1>1. PICK u \in Threads : /\ pc[u] = "waitWrite" /\ local[u].block = interruptIndex
                           /\ local[u].codeRes # "OK"
  BY DEF Interrupts
<1>2. pc'[u] = "waitWrite" /\ local'[u] = local[u] BY <1>1 DEF Elsewhere
<1> QED BY <1>1, <1>2

\* What was written is the block's output, and the rest of the state says how it went.
LEMMA WriteWriting ==
  ASSUME ControlTypes, DataTypes, NEW f, NEW k, RingTypes(f, k), NEW first, Numbers(f, k, first),
         Interrupts, Flags, WriterOk, NEW t \in Threads, NEW p \in Nat, BlockOk(t, p, first), Write(t),
         local[t].block = first, Writing(t, p)
  PROVE  Writing(t, p)' /\ Flags' /\ Interrupts' /\ WriterOk'
<1>0. pc[t] = "write" BY WriteIs
<1>1. /\ UNCHANGED <<cross, readPos, readRes, stream, interruptIndex, coder, isAllocError, overflow, threadingError,
                     numFilled>>
      /\ NeedContinue' = NeedContinue
  <2>1. UNCHANGED <<cross, readPos, readRes, stream, interruptIndex, coder, isAllocError, overflow, threadingError,
                    numFilled>>
    BY WriteIs
  <2> QED BY <2>1 DEF NeedContinue
<1>2. LastUnit' = LastUnit /\ Complete' = Complete BY <1>1 DEF LastUnit, Complete
<1>3. Decoding(t, p, first) /\ p < LastUnit BY <1>0 DEF BlockOk, WorkPcs, WriterPcs
<1>4. Facts(t, p) /\ Whole(t) BY <1>0, <1>3 DEF Decoding
<1>5. /\ local[t].interrupted => IsInterrupted(first) \/ wasInterrupted
      /\ local[t].res # "OK" => progRes # "OK"
      /\ Failed(local[t]) => wasInterrupted
      /\ ~local[t].toStream => wasInterrupted
      /\ ~local[t].finish => local[t].needCode
      /\ coder[t].data = <<>> \/ (local[t].needCode /\ Sound(p + Len(coder[t].data)))
  BY <1>0, <1>3 DEF Decoding
<1>6. Elsewhere(t) BY Frame DEF Thread
<1>7. IsInterrupted(first) => Broken BY FrontInterrupted
<1>8. NeedContinue => wasInterrupted BY DEF Flags
<1>9. /\ progRes \in {"OK", "PROGRESS"} /\ wasInterrupted \in BOOLEAN /\ refused \in BOOLEAN
      /\ local[t].size \in Nat /\ Len(out) \in Nat
  BY Fields, LenProperties DEF DataTypes, WriterTypes
<1>10. CASE ~ToStream(local[t]) /\ After(t, "OK", FALSE, TRUE) /\ UNCHANGED <<out, refused, progRes, inProcessed>>
  <2>1. Broken BY <1>5, <1>7, <1>10 DEF ToStream, Broken
  <2>2. wasInterrupted' = wasInterrupted BY <1>9, <1>10 DEF After
  <2>3. Broken' /\ (Broken => Broken') BY <1>10, <2>1, <2>2 DEF Broken
  <2>4. local'[t].finish = local[t].finish /\ ~local'[t].needContinue /\ local'[t].canRecode
    BY <1>10, Names DEF After, Keeps
  <2>5. pc'[t] = (IF ~local[t].finish THEN "interrupt2" ELSE "register") BY <1>10 DEF After
  <2>6. pc'[t] # "write" /\ (pc'[t] = "register" => local[t].finish) BY <2>5
  <2>7. Ready(p)' <=> Ready(p) BY <1>1, <1>10 DEF Ready, Sound
  <2>8. NeedContinue' /\ progRes' = "OK" => Ready(p)' /\ local[t].finish
    BY <1>1, <1>10, <2>7 DEF Writing
  <2>9. Writing(t, p)' BY <2>3, <2>4, <2>6, <2>8 DEF Writing
  <2>10. Flags' BY <1>1, <1>2, <1>10, <2>2 DEF Flags, Reason
  <2>11. Interrupts' BY <2>3 DEF Interrupts
  <2>12. WriterOk' BY <1>10 DEF WriterOk
  <2> QED BY <2>9, <2>10, <2>11, <2>12
<1>11. CASE ToStream(local[t]) /\ \E w \in Writes(coder[t].data) : WritesPart(t, w)
  <2>1. PICK w \in Writes(coder[t].data) : WritesPart(t, w) BY <1>11
  <2>2. w[2] \in {"OK", "WRITE", "PROGRESS"} BY Fields, WritesIs
  <2>3. /\ ~local[t].alloc /\ ~local[t].over /\ ~local[t].thr
        /\ coder[t].state # "END" => p + local[t].size < LastUnit
        /\ local[t].needCode \/ local[t].codeRes # "OK"
    BY <1>0, <1>11, NoMismatch
  <2>4. After(t, w[2], w[2] = "OK" /\ coder[t].state \notin {"OVERFLOW", "END"}, FALSE)
    BY <2>1 DEF WritesPart
  <2>5. /\ wasInterrupted' = (wasInterrupted \/ w[2] # "OK")
        /\ refused' = (refused \/ w[2] = "WRITE")
        /\ progRes' = (IF w[2] = "PROGRESS" /\ progRes = "OK" THEN w[2] ELSE progRes)
    BY <2>1, <2>4 DEF WritesPart, After
  <2>6. /\ local'[t].needContinue = (w[2] = "OK" /\ coder[t].state \notin {"OVERFLOW", "END"})
        /\ local'[t].canRecode = FALSE
        /\ local'[t].finish = local[t].finish /\ local'[t].size = local[t].size
    BY <2>4, Names DEF After, Keeps
  <2>7. pc'[t] = (IF w[2] # "OK" \/ (~(w[2] = "OK" /\ coder[t].state \notin {"OVERFLOW", "END"}) /\ ~local[t].finish)
                  THEN "interrupt2" ELSE "register")
    BY <2>4 DEF After
  <2>8. (Broken => Broken') /\ (w[2] # "OK" => Broken') BY <1>9, <2>5 DEF Broken
  <2>9. ~(NeedContinue' /\ progRes' = "OK")
    <3> SUFFICES ASSUME NeedContinue', progRes' = "OK" PROVE FALSE OBVIOUS
    <3>1. progRes = "OK" BY <2>5
    <3>2. ~local[t].toStream BY <1>0, <1>1, <3>1 DEF Writing
    <3> QED BY <1>11, <3>2 DEF ToStream
  <2>10. local[t].res = "OK" /\ ~local[t].interrupted BY <1>11 DEF ToStream
  <2>11. WriterOk' /\ Len(out') = Len(out) + w[1] BY <1>0, <1>11, <2>1, WriteOut
  <2>12. ~Broken' => Ready(p + local[t].size)'
    <3> SUFFICES ASSUME ~Broken' PROVE Ready(p + local[t].size)' OBVIOUS
    <3>1. ~Broken /\ w[2] = "OK" BY <2>8
    <3>2. Ready(p) BY <1>0, <3>1 DEF Writing
    <3>3. ~Failed(local[t]) BY <1>5, <3>1 DEF Broken
    <3>4. local[t].needCode /\ local[t].codeRes = "OK" BY <2>3, <3>3 DEF Failed
    <3>5. Len(coder[t].data) = coder[t].inPre BY <1>4, <2>3, <2>10, <3>4 DEF Whole
    <3>6. coder[t].inPre = local[t].size BY <1>4, <2>3, <3>4 DEF Facts
    <3>7. w[1] = local[t].size BY <3>1, <3>5, <3>6, Fields, WritesIs
    <3>8. Len(out') = p + local[t].size BY <2>11, <3>2, <3>7 DEF Ready
    <3>9. Sound(p + local[t].size)
      <4>1. CASE coder[t].data = <<>>
        <5>1. local[t].size = 0 BY <3>5, <3>6, <4>1, Fields, LenProperties
        <5>2. p + local[t].size = p BY <5>1
        <5> QED BY <3>2, <5>2 DEF Ready
      <4>2. CASE coder[t].data # <<>> BY <1>5, <3>5, <3>6, <4>2
      <4> QED BY <4>1, <4>2
    <3>10. Sound(p + local[t].size)' BY <1>1, <2>6, <3>9 DEF Sound
    <3>11. numFilled' = 0 BY <1>1, <3>2 DEF Ready
    <3>12. local'[t].size = local[t].size BY <2>6
    <3> QED BY <3>8, <3>10, <3>11, <3>12 DEF Ready
  <2>13. ~Broken' /\ local[t].finish /\ ~local'[t].needContinue => coder'[t].state = "END"
    <3> SUFFICES ASSUME ~Broken', local[t].finish, ~local'[t].needContinue PROVE coder[t].state = "END"
      BY <1>1
    <3>1. w[2] = "OK" BY <2>8
    <3>2. coder[t].state \in {"OVERFLOW", "END"} BY <2>6, <3>1
    <3>3. coder[t].state # "OVERFLOW" BY <1>4, <2>3 DEF Facts
    <3> QED BY <3>2, <3>3
  <2>14. local'[t].needContinue => coder'[t].state # "END" /\ p + local[t].size < LastUnit
    BY <1>1, <2>3, <2>6
  <2>15. pc'[t] = "interrupt2" => Broken'
    <3> SUFFICES ASSUME pc'[t] = "interrupt2", w[2] = "OK" PROVE FALSE BY <2>8
    <3>1. ~local[t].finish /\ coder[t].state \in {"OVERFLOW", "END"} BY <2>7
    <3>2. local[t].needCode BY <1>5, <3>1
    <3>3. coder[t].state = "NEW" BY <1>4, <3>1, <3>2 DEF Facts
    <3> QED BY <3>1, <3>3
  <2>16. pc'[t] # "write" BY <2>7
  <2>17. Writing(t, p)'
    BY <1>2, <2>6, <2>9, <2>12, <2>13, <2>14, <2>15, <2>16 DEF Writing
  <2>18. Flags'
    <3>1. NeedContinue' => wasInterrupted' BY <1>1, <1>8, <2>5
    <3>2. Reason'
      <4> SUFFICES ASSUME wasInterrupted', ~NeedContinue', progRes' = "OK"
                   PROVE  refused' \/ ~Complete' \/ readRes' # "OK"
        BY DEF Reason
      <4>1. progRes = "OK" /\ w[2] # "PROGRESS" BY <2>5
      <4>2. CASE w[2] = "WRITE" BY <2>5, <4>2
      <4>3. CASE w[2] = "OK" BY <1>1, <1>2, <2>5, <4>1, <4>3 DEF Flags, Reason
      <4> QED BY <2>2, <4>1, <4>2, <4>3
    <3> QED BY <3>1, <3>2 DEF Flags
  <2>19. Interrupts' BY <1>0, <1>1, <1>6, <2>8, InterruptsStay
  <2> QED BY <2>11, <2>17, <2>18, <2>19
<1> QED BY <1>10, <1>11, WriteCases

\* An attempt to write that failed interrupts the blocks behind it.
LEMMA WriteInterruptWriting ==
  ASSUME ControlTypes, DataTypes, NEW t \in Threads, NEW p \in Nat, NEW b \in Unit, BlockOk(t, p, b),
         WriteInterrupt(t), local[t].block = b, Writing(t, p), Flags
  PROVE  /\ Typed(t)' /\ BlockOk(t, p, b)' /\ (LastBlock(t, p) => LastBlock(t, p)')
         /\ Writing(t, p)' /\ Flags' /\ Interrupts'
<1>1. /\ pc[t] = "interrupt2" /\ pc'[t] = "register" /\ interruptIndex' = LowerIndex(b)
      /\ UNCHANGED <<mainVars, local, buf, coder, readerVars, writerVars, progRes>>
  BY DEF WriteInterrupt, Interrupt, ControlTypes
<1>2. /\ Typed(t)' /\ LastUnit' = LastUnit /\ StopAt' = StopAt /\ Complete' = Complete
      /\ (NeedContinue' = NeedContinue) /\ (Broken' <=> Broken)
  BY <1>1 DEF DataTypes, Typed, LastUnit, StopAt, Complete, mainVars, readerVars, writerVars, NeedContinue, Broken
<1>3. BlockOk(t, p, b)'
  <2>1. Decoding(t, p, b) /\ p < LastUnit BY <1>1 DEF BlockOk, WorkPcs, WriterPcs
  <2>2. Facts(t, p) BY <2>1 DEF Decoding
  <2>3. Chained(t, p)' BY <1>1, <2>2 DEF Chained, Facts
  <2>4. Facts(t, p)' BY <1>1, <1>2, <2>2, <2>3 DEF Facts, mainVars, readerVars
  <2>5. Sound(p + Len(coder[t].data))' <=> Sound(p + Len(coder[t].data)) BY <1>1 DEF Sound, mainVars
  <2>6. Decoding(t, p, b)' BY <1>1, <2>1, <2>4, <2>5 DEF Decoding
  <2> QED BY <1>1, <1>2, <2>1, <2>6 DEF BlockOk, ReaderPcs
<1>4. LastBlock(t, p) => LastBlock(t, p)' BY <1>1, WorkerLast DEF WorkPcs, WriterPcs, mainVars, readerVars
<1>5. Broken' BY <1>1, <1>2 DEF Writing
<1>6. Ready(p)' <=> Ready(p) BY <1>1 DEF Ready, Sound, writerVars, mainVars
<1>7. interruptIndex' # 0 /\ interruptIndex' <= b
  <2>1. interruptIndex \in Nat /\ b \in Nat /\ b # 0 BY DEF DataTypes, Numbered, Unit
  <2> QED BY <1>1, <2>1 DEF LowerIndex
<1>8. Writing(t, p)' BY <1>1, <1>2, <1>5, <1>6, <1>7 DEF Writing
<1>9. Flags' BY <1>1, <1>2 DEF Flags, Reason, writerVars, readerVars
<1>10. Interrupts' BY <1>5 DEF Interrupts
<1> QED BY <1>2, <1>3, <1>4, <1>8, <1>9, <1>10

-----------------------------------------------------------------------------
(* What the other threads notice *)

\* What has happened once, and makes a thread give up, does not go away.
Sticky ==
  /\ stream' = stream
  /\ readRes # "OK" => readRes' # "OK"
  /\ progRes # "OK" => progRes' # "OK"
  /\ wasInterrupted => wasInterrupted'
  /\ \A x \in Nat : IsInterrupted(x) => IsInterrupted(x)'

\* Nothing is taken back when nothing changes.
LEMMA SameSticky ==
  ASSUME UNCHANGED <<stream, readRes, progRes, wasInterrupted, interruptIndex>>
  PROVE  Sticky
BY DEF Sticky, IsInterrupted

\* Registering a block keeps the types.
LEMMA RegisterTypes ==
  ASSUME ControlTypes, DataTypes, NEW t \in Threads, Register(t)
  PROVE  /\ WriterTypes'
         /\ UNCHANGED <<progRes, interruptIndex, readRes, stream, wasInterrupted>>
<1>1. /\ WriterTypes /\ local[t].start \in Nat /\ local[t].size \in Nat BY Fields DEF DataTypes
<1>2. UNCHANGED <<progRes, interruptIndex, readRes, stream, wasInterrupted, isAllocError, overflow,
                  threadingError, inProcessed, out, refused>>
  BY DEF Register, mainVars, readerVars, lockVars
<1>3. filledStart' \in Threads
  <2>1. filledStart' = IF KeepsInput(t) /\ numFilled = 0 THEN t ELSE filledStart BY DEF Register
  <2> QED BY <1>1, <2>1 DEF WriterTypes
<1>4. numFilled' \in Nat
  <2>1. numFilled' = numFilled + 1 \/ numFilled' = numFilled BY DEF Register
  <2> QED BY <1>1, <2>1 DEF WriterTypes
<1>5. saved' \in [Threads -> [start : Nat, size : Nat]]
  <2>1. saved' = [saved EXCEPT ![t] = [start |-> local[t].start, size |-> local[t].size]] \/ saved' = saved
    BY DEF Register
  <2>2. [start |-> local[t].start, size |-> local[t].size] \in [start : Nat, size : Nat] BY <1>1
  <2> QED BY <1>1, <2>1, <2>2 DEF WriterTypes
<1> QED BY <1>1, <1>2, <1>3, <1>4, <1>5 DEF WriterTypes

\* No step of a thread takes an error, an interrupt or the end of the stream back.
LEMMA StickyStep ==
  ASSUME ControlTypes, DataTypes, NEW t \in Threads, NEW p \in Nat, NEW b,
         pc[t] = "write" => BlockOk(t, p, b), Thread(t), HasBlock(t) \/ pc[t] = "waitRead"
  PROVE  Sticky /\ WriterTypes' /\ progRes' \in {"OK", "PROGRESS"}
<1>0. WriterTypes /\ progRes \in {"OK", "PROGRESS"} /\ ReaderTypes BY DEF DataTypes
<1>1. Shared(t) /\ UNCHANGED mainVars BY Frame
<1>2. stream' = stream BY <1>1 DEF mainVars
<1>3. /\ {"write", "interrupt2", "register"} = WriterPcs
      /\ ReaderPcs \cap WriterPcs = {} /\ "waitWrite" \notin ReaderPcs
      /\ \A q \in {"check", "readCheck", "interrupt", "codeCheck", "waitWrite", "code", "waitRead"} : q \notin WriterPcs
  BY DEF WriterPcs, ReaderPcs
<1>4. CASE Register(t)
  <2>1. pc[t] = "register" BY <1>4 DEF Register
  <2> QED BY <1>0, <1>4, RegisterTypes, SameSticky
<1>5. CASE Write(t)
  <2>1. pc[t] = "write" BY <1>5 DEF Write
  <2>2. BlockOk(t, p, b) BY <2>1
  <2>3. WriterTypes' /\ progRes' \in {"OK", "PROGRESS"} /\ (progRes # "OK" => progRes' # "OK")
    BY <1>5, <2>2, WriteTypes
  <2>4. PICK res \in {"OK", "WRITE", "PROGRESS"}, more, again \in BOOLEAN : After(t, res, more, again)
    BY <1>5, <2>2, WriteKeeps
  <2>5. wasInterrupted => wasInterrupted' BY <1>0, <2>4 DEF After, WriterTypes
  <2>6. UNCHANGED <<interruptIndex, readRes>> BY <1>5, WriteIs
  <2> QED BY <1>2, <2>3, <2>5, <2>6 DEF Sticky, IsInterrupted
<1>6. CASE TakeWrite(t)
  <2>1. /\ UNCHANGED <<readRes, interruptIndex, filledStart, numFilled, saved, inProcessed, out, refused>>
        /\ progRes' \in {"OK", "PROGRESS"} /\ (progRes # "OK" => progRes' # "OK")
        /\ wasInterrupted' = (wasInterrupted \/ local[t].codeRes # "OK" \/ Failed(local[t]))
        /\ {wasInterrupted, isAllocError, overflow, threadingError}' \subseteq BOOLEAN
    BY <1>6, TakeWriteIs
  <2>2. WriterTypes' BY <1>0, <2>1 DEF WriterTypes
  <2> QED BY <1>2, <2>1, <2>2 DEF Sticky, IsInterrupted
<1>7. CASE StartCheck(t) \/ ReadCheck(t) \/ CodeCheck(t)
  <2>1. PICK at, q, r, s : at \in {"check", "readCheck", "codeCheck"} /\ CheckError(t, at, q, r, s)
    BY <1>7 DEF StartCheck, ReadCheck, CodeCheck
  <2>2. /\ UNCHANGED <<readRes, interruptIndex, stream>> /\ pc[t] = at
        /\ progRes' \in {"OK", "PROGRESS"} /\ (progRes # "OK" => progRes' # "OK")
    BY <2>1, CheckErrorIs
  <2>3. UNCHANGED writerVars BY <2>1 DEF CheckError
  <2>4. WriterTypes' /\ UNCHANGED wasInterrupted BY <1>0, <2>3 DEF WriterTypes, writerVars
  <2> QED BY <1>2, <2>2, <2>4 DEF Sticky, IsInterrupted
<1>8. CASE CodeInterrupt(t) \/ WriteInterrupt(t)
  <2>1. /\ interruptIndex' = LowerIndex(local[t].block) /\ UNCHANGED <<readerVars, writerVars, progRes>>
        /\ pc[t] \in {"interrupt", "interrupt2"}
    BY <1>8 DEF CodeInterrupt, WriteInterrupt, Interrupt
  <2>2. WriterTypes' /\ UNCHANGED <<wasInterrupted, readRes>> BY <1>0, <2>1 DEF WriterTypes, writerVars, readerVars
  <2>3. HasBlock(t) BY <2>1 DEF HasBlock, WorkPcs, WriterPcs
  <2>4. local[t].block \in Unit BY <2>3 DEF DataTypes, Numbered
  <2>5. PICK x \in Nat : x = local[t].block /\ x # 0 BY <2>4 DEF Unit
  <2>6. interruptIndex' = LowerIndex(x) BY <2>1, <2>5
  <2>7. \A y \in Nat : IsInterrupted(y) => IsInterrupted(y)' BY <2>5, <2>6, LowerKeeps
  <2> QED BY <1>0, <1>2, <2>1, <2>2, <2>7 DEF Sticky
<1>9. CASE ReadStream(t)
  <2>1. UNCHANGED <<writerVars, lockVars>> BY <1>9 DEF ReadStream
  <2>2. readRes # "OK" => readRes' # "OK"
    <3>1. PICK r \in Reads : readRes' = IF r[2] = "OK" THEN readRes ELSE r[2] BY <1>9 DEF ReadStream
    <3> QED BY <3>1
  <2>3. WriterTypes' /\ UNCHANGED <<wasInterrupted, progRes, interruptIndex>>
    BY <1>0, <2>1 DEF WriterTypes, writerVars, lockVars
  <2> QED BY <1>0, <1>2, <2>2, <2>3 DEF Sticky, IsInterrupted
<1>10. CASE \/ TakeRead(t) \/ NoBuffer(t) \/ ReadCross(t)
            \/ ParseOverflow(t) \/ ParseContinue(t) \/ ParseAll(t) \/ ParseAfterEnd(t)
            \/ ParseNew(t) \/ NoCrossBlock(t) \/ Recheck(t)
            \/ PreCode(t) \/ SpawnAndPass(t) \/ PassOnly(t) \/ SpawnFails(t) \/ Code(t)
  <2>1. UNCHANGED <<writerVars, lockVars, readRes>>
    <3>1. CASE TakeRead(t) \/ NoBuffer(t) \/ ReadCross(t) \/ Recheck(t)
      BY <3>1 DEF TakeRead, NoBuffer, ReadCross, Recheck, readerVars
    <3>2. CASE ParseOverflow(t) \/ ParseContinue(t) \/ ParseAll(t)
      BY <3>2 DEF ParseOverflow, ParseContinue, ParseAll, Parsed
    <3>3. CASE ParseAfterEnd(t) \/ ParseNew(t) \/ NoCrossBlock(t)
      BY <3>3 DEF ParseAfterEnd, ParseNew, NoCrossBlock, Parsed
    <3>4. CASE PreCode(t) \/ SpawnAndPass(t) \/ PassOnly(t) \/ SpawnFails(t) \/ Code(t)
      BY <3>4 DEF PreCode, SpawnAndPass, PassOnly, SpawnFails, Code, Unspawned, readerVars
    <3> QED BY <1>10, <3>1, <3>2, <3>3, <3>4
  <2>2. WriterTypes' /\ UNCHANGED <<wasInterrupted, progRes, interruptIndex>>
    BY <1>0, <2>1 DEF WriterTypes, writerVars, lockVars
  <2> QED BY <1>0, <1>2, <2>1, <2>2, SameSticky
<1> QED BY <1>4, <1>5, <1>6, <1>7, <1>8, <1>9, <1>10 DEF Thread

\* What makes a block right is not disturbed by a step of another thread.
LEMMA OtherBlock ==
  ASSUME ControlTypes, NEW t \in Threads, Elsewhere(t), NEW u \in Threads, u # t, HasBlock(u), Sticky,
         pc[u] \in ReaderPcs => UNCHANGED <<cross, crossBlock, readPos, readRes>>,
         NEW p \in Nat, NEW b \in Nat, BlockOk(u, p, b)
  PROVE  BlockOk(u, p, b)'
<1>1. /\ local'[u] = local[u] /\ coder'[u] = coder[u] /\ buf'[u] = buf[u] /\ pc'[u] = pc[u]
  BY DEF Elsewhere, HasBlock, ReaderPcs, WorkPcs, WriterPcs
<1>2. stream' = stream /\ LastUnit' = LastUnit /\ StopAt' = StopAt /\ Complete' = Complete
  BY DEF Sticky, LastUnit, StopAt, Complete
<1>3. /\ readRes # "OK" => readRes' # "OK"
      /\ progRes # "OK" => progRes' # "OK"
      /\ wasInterrupted => wasInterrupted'
      /\ IsInterrupted(b) => IsInterrupted(b)'
  BY DEF Sticky
<1>4. p < LastUnit BY DEF BlockOk
<1>5. pc[u] \in {"check", "read", "readCheck", "parse"} => UNCHANGED <<cross, crossBlock, readPos, readRes>>
  BY DEF ReaderPcs
<1>6. Fresh(u, p) /\ UNCHANGED <<cross, crossBlock, readPos, readRes>> => Fresh(u, p)'
  BY <1>1, <1>2 DEF Fresh, Clean, InputFrom
<1>7. \A n : Parsing(u, p, n) => Parsing(u, p, n)'
  BY <1>1, <1>2 DEF Parsing
<1>8. ReadOn(u, p) /\ UNCHANGED <<cross, crossBlock, readPos, readRes>> => ReadOn(u, p)'
  BY <1>1, <1>7 DEF ReadOn, Clean
<1>9. ToParse(u, p) /\ UNCHANGED <<cross, crossBlock, readPos, readRes>> => ToParse(u, p)'
  BY <1>1, <1>2, <1>7 DEF ToParse, Clean
<1>10. Chained(u, p) => Chained(u, p)' BY <1>1 DEF Chained
<1>11. Facts(u, p) => Facts(u, p)' BY <1>1, <1>2, <1>3, <1>10 DEF Facts
<1>12. Early(u, p, b) => Early(u, p, b)' BY <1>1, <1>3, <1>11 DEF Early, Undecoded, Excused
<1>13. Cursor(u, p) => Cursor(u, p)' BY <1>1 DEF Cursor
<1>14. Whole(u) => Whole(u)' BY <1>1, <1>2, <1>3 DEF Whole, Excused
<1>15. \A q : Sound(q)' <=> Sound(q) BY <1>2 DEF Sound
<1>16. Decoding(u, p, b) => Decoding(u, p, b)'
  BY <1>1, <1>3, <1>11, <1>13, <1>14, <1>15 DEF Decoding, Failed, AllocError
<1> QED BY <1>1, <1>2, <1>4, <1>5, <1>6, <1>8, <1>9, <1>12, <1>16 DEF BlockOk

\* What lies behind the last block stays so while another thread works.
LEMMA OtherLast ==
  ASSUME ControlTypes, NEW t \in Threads, Elsewhere(t), NEW u \in Threads, u # t, HasBlock(u),
         UNCHANGED <<stream, cross, readPos>>, NEW p \in Nat, LastBlock(u, p)
  PROVE  LastBlock(u, p)'
<1>1. /\ local'[u] = local[u] /\ coder'[u] = coder[u] /\ pc'[u] = pc[u]
  BY DEF Elsewhere, HasBlock, ReaderPcs, WorkPcs, WriterPcs
<1>2. StopAt' = StopAt BY DEF StopAt, LastUnit
<1> QED BY <1>1, <1>2 DEF LastBlock

\* Which steps leave what the reader works on alone.
LEMMA ReaderRests ==
  ASSUME ControlTypes, DataTypes, ReaderOk, NEW t \in Threads,
         \/ TakeRead(t) \/ StartCheck(t) \/ ReadCheck(t) \/ CodeCheck(t) \/ NoBuffer(t) \/ ReadCross(t)
         \/ Recheck(t) \/ PreCode(t) \/ SpawnAndPass(t) \/ PassOnly(t) \/ SpawnFails(t) \/ Code(t)
         \/ CodeInterrupt(t) \/ TakeWrite(t) \/ Write(t) \/ WriteInterrupt(t) \/ Register(t)
  PROVE  UNCHANGED <<cross, crossBlock, readPos, readRes, readWasFinished>> /\ ReaderTypes' /\ ReaderOk'
<1>1. UNCHANGED <<cross, crossBlock, readPos, readRes, readWasFinished, stream>>
  <2>1. CASE TakeRead(t) \/ StartCheck(t) \/ ReadCheck(t) \/ CodeCheck(t) \/ NoBuffer(t) \/ ReadCross(t)
    BY <2>1 DEF TakeRead, StartCheck, ReadCheck, CodeCheck, CheckError, NoBuffer, ReadCross, readerVars, mainVars
  <2>2. CASE Recheck(t) \/ PreCode(t) \/ SpawnAndPass(t) \/ PassOnly(t) \/ SpawnFails(t) \/ Code(t)
    BY <2>2 DEF Recheck, PreCode, SpawnAndPass, PassOnly, SpawnFails, Code, Unspawned, readerVars, mainVars
  <2>3. CASE CodeInterrupt(t) \/ WriteInterrupt(t) \/ Register(t)
    BY <2>3 DEF CodeInterrupt, WriteInterrupt, Interrupt, Register, readerVars, mainVars
  <2>4. CASE TakeWrite(t) BY <2>4 DEF TakeWrite, readerVars, mainVars
  <2>5. CASE Write(t) BY <2>5 DEF Write, readerVars, mainVars
  <2> QED BY <2>1, <2>2, <2>3, <2>4, <2>5
<1> QED BY <1>1 DEF DataTypes, ReaderTypes, ReaderOk

\* Steps of a thread that keeps its block and its place in the ring.
Stays(t) == ~TakeRead(t) /\ ~Register(t) /\ ~(pc[t] = "pass" /\ pc'[t] = "code")

\* A thread that goes on with its block keeps the block's number and its place.
LEMMA StaysIs ==
  ASSUME ControlTypes, NEW t \in Threads, t < numStarted, Thread(t), Stays(t)
  PROVE  /\ HasBlock(t) /\ HasBlock(t)' /\ (InHand(t)' <=> InHand(t))
         /\ local'[t].block = local[t].block
         /\ pc[t] \in WriterPcs => pc'[t] \in WriterPcs
         /\ UNCHANGED <<blockIndex, numStarted, exitThread>>
<1>1. pc[t] = "pass" <=> SpawnAndPass(t) \/ PassOnly(t) \/ SpawnFails(t) BY Steps
<1>2. HasBlock(t) /\ local'[t].block = local[t].block BY BlockStays DEF Stays
<1>3. pc[t] # "waitRead" BY Steps DEF Stays
<1>4. CASE ReaderStep(t)
  <2>1. /\ pc[t] \in ReaderPcs /\ Quiet
        /\ pc'[t] \in ReaderPcs \cup {"code", "waitWrite"}
        /\ pc'[t] \in {"code", "waitWrite"} => local'[t].finish
    BY <1>4 DEF ReaderStep
  <2>2. HasBlock(t)' /\ InHand(t)' /\ InHand(t)
    BY <2>1 DEF HasBlock, InHand, WorkPcs
  <2>3. pc[t] \notin WriterPcs BY <2>1, Kinds
  <2>4. pc[t] # "waitRead" BY <1>3
  <2>5. UNCHANGED blockIndex
    <3>1. ~TakeRead(t) BY DEF Stays
    <3> QED BY <1>3, <3>1 DEF Thread, StartCheck, ReadCheck, CodeCheck, CheckError, NoBuffer, ReadCross, ReadStream,
               ParseOverflow, ParseContinue, ParseAll, ParseAfterEnd, ParseNew, NoCrossBlock, Parsed, Recheck, PreCode,
               SpawnAndPass, PassOnly, SpawnFails, Unspawned, Code, CodeInterrupt, WriteInterrupt, Interrupt,
               TakeWrite, Write, Register, readerVars
  <2> QED BY <1>2, <2>1, <2>2, <2>3, <2>5 DEF Quiet
<1>5. CASE WorkerStep(t)
  <2>1. /\ pc[t] \in WorkPcs /\ Quiet /\ pc'[t] \in WorkPcs /\ local'[t].finish = local[t].finish
        /\ pc[t] \in WriterPcs => pc'[t] \in WriterPcs
    BY <1>5 DEF WorkerStep
  <2>2. HasBlock(t)' /\ (InHand(t)' <=> InHand(t))
    <3>1. pc[t] \notin ReaderPcs /\ pc'[t] \notin ReaderPcs BY <2>1, Kinds
    <3> QED BY <2>1, <3>1 DEF HasBlock, InHand
  <2>3. UNCHANGED blockIndex
    <3>1. ~TakeRead(t) BY DEF Stays
    <3> QED BY <1>3, <3>1 DEF Thread, StartCheck, ReadCheck, CodeCheck, CheckError, NoBuffer, ReadCross, ReadStream,
               ParseOverflow, ParseContinue, ParseAll, ParseAfterEnd, ParseNew, NoCrossBlock, Parsed, Recheck, PreCode,
               SpawnAndPass, PassOnly, SpawnFails, Unspawned, Code, CodeInterrupt, WriteInterrupt, Interrupt,
               TakeWrite, Write, Register, readerVars
  <2> QED BY <1>2, <2>1, <2>2, <2>3 DEF Quiet
<1>6. CASE pc[t] = "pass"
  <2>1. pc'[t] # "code" BY <1>6 DEF Stays
  <2>2. pc \in [Threads -> ThreadPcs] /\ DOMAIN local = Threads /\ DOMAIN local[t] = FieldNames BY DEF ControlTypes
  <2>3. SpawnFails(t)
    <3>1. ~SpawnAndPass(t)
      <4>1. SUFFICES ASSUME SpawnAndPass(t) PROVE FALSE OBVIOUS
      <4>2. t \in Nat /\ t # numStarted BY ThreadIsNat DEF ControlTypes
      <4> QED BY <2>1, <2>2, <4>1, <4>2 DEF SpawnAndPass
    <3>2. ~PassOnly(t) BY <2>1, <2>2 DEF PassOnly
    <3> QED BY <1>1, <1>6, <3>1, <3>2
  <2>4. /\ local' = [local EXCEPT ![t].finish = TRUE, ![t].needCode = FALSE, ![t].thr = TRUE]
        /\ pc' = [pc EXCEPT ![t] = "waitWrite"] /\ UNCHANGED <<numStarted, Unspawned>>
    BY <2>1, <2>2, <2>3 DEF SpawnFails
  <2>5. pc'[t] = "waitWrite" /\ local'[t].finish BY <2>2, <2>4, Names
  <2>6. HasBlock(t)' /\ InHand(t)' /\ InHand(t)
    BY <1>6, <2>5 DEF HasBlock, InHand, WorkPcs, ReaderPcs
  <2>7. pc[t] \notin WriterPcs BY <1>6 DEF WriterPcs
  <2> QED BY <1>2, <2>4, <2>6, <2>7 DEF Unspawned
<1> QED BY <1>3, <1>4, <1>5, <1>6, Steps DEF Stays

\* A thread that goes on with its block keeps what holds of the block.
LEMMA OwnBlock ==
  ASSUME ControlTypes, DataTypes, ReaderOk, NEW t \in Threads, NEW p \in Nat, NEW b \in Unit,
         b = local[t].block, BlockOk(t, p, b), InHand(t) => LastBlock(t, p), Thread(t), Stays(t),
         pc[t] = "interrupt2" => Writing(t, p) /\ Flags
  PROVE  /\ Typed(t)' /\ BlockOk(t, p, b)' /\ ReaderTypes' /\ ReaderOk'
         /\ InHand(t) => LastBlock(t, p)'
         /\ ~InHand(t) => local'[t].size = local[t].size
<1>1. pc[t] \in ReaderPcs => InHand(t) BY DEF InHand, HasBlock
<1>2. CASE StartCheck(t)
  <2>1. pc[t] \in ReaderPcs BY <1>2 DEF StartCheck, CheckError, ReaderPcs
  <2> QED BY <1>1, <1>2, <2>1, StartCheckBlock, StartCheckTypes, ReaderRests
<1>3. CASE ReadCheck(t)
  <2>1. pc[t] \in ReaderPcs BY <1>3 DEF ReadCheck, CheckError, ReaderPcs
  <2> QED BY <1>1, <1>3, <2>1, ReadCheckBlock, ReaderRests
<1>4. CASE NoBuffer(t)
  <2>1. pc[t] \in ReaderPcs BY <1>4 DEF NoBuffer, ReaderPcs
  <2> QED BY <1>1, <1>4, <2>1, NoBufferBlock, ReaderRests
<1>5. CASE ReadCross(t)
  <2>1. pc[t] \in ReaderPcs BY <1>5 DEF ReadCross, ReaderPcs
  <2> QED BY <1>1, <1>5, <2>1, ReadCrossBlock, ReaderRests
<1>6. CASE ReadStream(t)
  <2>1. pc[t] \in ReaderPcs BY <1>6 DEF ReadStream, ReaderPcs
  <2> QED BY <1>1, <1>6, <2>1, ReadStreamBlock
<1>7. CASE ParseOverflow(t)
  <2>1. pc[t] \in ReaderPcs BY <1>7 DEF ParseOverflow, ReaderPcs
  <2> QED BY <1>1, <1>7, <2>1, ParseOverflowBlock
<1>8. CASE ParseContinue(t)
  <2>1. pc[t] \in ReaderPcs BY <1>8 DEF ParseContinue, ReaderPcs
  <2> QED BY <1>1, <1>8, <2>1, ParseContinueBlock
<1>9. CASE ParseAll(t)
  <2>1. pc[t] \in ReaderPcs BY <1>9 DEF ParseAll, ReaderPcs
  <2> QED BY <1>1, <1>9, <2>1, ParseAllBlock
<1>10. CASE ParseAfterEnd(t)
  <2>1. pc[t] \in ReaderPcs BY <1>10 DEF ParseAfterEnd, ReaderPcs
  <2> QED BY <1>1, <1>10, <2>1, ParseAfterEndBlock
<1>11. CASE ParseNew(t)
  <2>1. pc[t] \in ReaderPcs BY <1>11 DEF ParseNew, ReaderPcs
  <2> QED BY <1>1, <1>11, <2>1, ParseNewBlock
<1>12. CASE NoCrossBlock(t)
  <2>1. pc[t] \in ReaderPcs BY <1>12 DEF NoCrossBlock, ReaderPcs
  <2> QED BY <1>1, <1>12, <2>1, NoCrossBlockBlock
<1>13. CASE Recheck(t)
  <2>1. pc[t] \in ReaderPcs BY <1>13 DEF Recheck, ReaderPcs
  <2> QED BY <1>1, <1>13, <2>1, RecheckBlock, ReaderRests
<1>14. CASE PreCode(t)
  <2>1. pc[t] \in ReaderPcs BY <1>14 DEF PreCode, ReaderPcs
  <2> QED BY <1>1, <1>14, <2>1, PreCodeBlock, ReaderRests
<1>15. CASE SpawnAndPass(t) \/ PassOnly(t) \/ SpawnFails(t)
  <2>1. pc[t] = "pass" /\ pc[t] \in ReaderPcs
    BY <1>15 DEF SpawnAndPass, PassOnly, SpawnFails, ReaderPcs
  <2>2. pc'[t] # "code" BY <2>1 DEF Stays
  <2> QED BY <1>1, <1>15, <2>1, <2>2, SpawnFailsBlock, ReaderRests
<1>16. CASE Code(t) BY <1>16, CodeBlock, ReaderRests
<1>17. CASE CodeCheck(t) BY <1>17, CodeCheckBlock, ReaderRests
<1>18. CASE CodeInterrupt(t)
  <2>1. local' = local BY <1>18 DEF CodeInterrupt, Interrupt
  <2> QED BY <1>18, <2>1, CodeInterruptBlock, ReaderRests
<1>19. CASE TakeWrite(t) BY <1>19, TakeWriteBlock, ReaderRests
<1>20. CASE Write(t) BY <1>20, WriteBlock, ReaderRests
<1>21. CASE WriteInterrupt(t)
  <2>1. local' = local /\ pc[t] = "interrupt2" BY <1>21 DEF WriteInterrupt, Interrupt
  <2> QED BY <1>21, <2>1, WriteInterruptWriting, ReaderRests
<1> QED
  BY <1>2, <1>3, <1>4, <1>5, <1>6, <1>7, <1>8, <1>9, <1>10, <1>11, <1>12, <1>13, <1>14, <1>15, <1>16,
     <1>17, <1>18, <1>19, <1>20, <1>21 DEF Thread, Stays

\* The action a thread's place selects.
LEMMA AtWaitWrite ==
  ASSUME NEW t \in Threads, Thread(t)
  PROVE  /\ pc[t] = "waitWrite" => TakeWrite(t)
         /\ pc[t] = "interrupt" => CodeInterrupt(t)
         /\ pc[t] = "write" => Write(t)
         /\ pc[t] = "interrupt2" => WriteInterrupt(t)
         /\ pc[t] = "register" => Register(t)
         /\ pc[t] = "check" => StartCheck(t)
         /\ pc[t] = "precode" => PreCode(t)
         /\ pc[t] = "code" => Code(t)
         /\ pc[t] = "codeCheck" => CodeCheck(t)
BY DEF Thread, TakeRead, StartCheck, ReadCheck, CodeCheck, CheckError, NoBuffer, ReadCross, ReadStream,
   ParseOverflow, ParseContinue, ParseAll, ParseAfterEnd, ParseNew, NoCrossBlock, Recheck, PreCode, SpawnAndPass,
   PassOnly, SpawnFails, Code, CodeInterrupt, WriteInterrupt, Interrupt, TakeWrite, Write, Register

\* The ring and its numbers stay when a thread goes on with its block.
LEMMA RingKept ==
  ASSUME ControlTypes, NEW f, NEW k, RingTypes(f, k), NEW first, Numbers(f, k, first),
         NEW t \in Threads, t < numStarted, Thread(t), Stays(t), Elsewhere(t)
  PROVE  RingTypes(f, k)' /\ Numbers(f, k, first)'
<1>1. /\ HasBlock(t) /\ HasBlock(t)' /\ (InHand(t)' <=> InHand(t)) /\ local'[t].block = local[t].block
      /\ UNCHANGED <<blockIndex, numStarted, exitThread>>
  BY StaysIs
<1>2. Numbers(f, k, first)' BY <1>1, NumbersStay
<1>3. ReaderStep(t) \/ WorkerStep(t)
  <2>1. pc[t] # "waitRead" BY Steps DEF Stays
  <2>2. CASE pc[t] = "pass"
    <3>1. pc'[t] # "code" BY <2>2 DEF Stays
    <3>2. ReaderStep(t) \/ PassStep(t) BY <2>2, Steps, PassActions
    <3>3. ~PassStep(t)
      <4>1. pc \in [Threads -> ThreadPcs] BY DEF ControlTypes
      <4>2. t \in Nat /\ t # numStarted BY ThreadIsNat DEF ControlTypes
      <4> QED BY <3>1, <4>1, <4>2 DEF PassStep, Alone
    <3> QED BY <3>2, <3>3
  <2>3. CASE pc[t] # "pass" BY <2>1, <2>3, Steps DEF Stays
  <2> QED BY <2>2, <2>3
<1>4. RingTypes(f, k)' BY <1>3, RingReader, RingWorker
<1> QED BY <1>2, <1>4

\* A block that failed to decode interrupts those behind it.
LEMMA CodeInterruptStays ==
  ASSUME ControlTypes, DataTypes, Interrupts, NEW t \in Threads, NEW p, NEW b \in Unit, local[t].block = b,
         BlockOk(t, p, b), CodeInterrupt(t), Elsewhere(t), Broken => Broken'
  PROVE  Interrupts'
<1>1. /\ pc[t] = "interrupt" /\ pc'[t] = "waitWrite" /\ interruptIndex' = LowerIndex(b) /\ local' = local
  BY DEF CodeInterrupt, Interrupt, ControlTypes
<1>2. local[t].codeRes # "OK" BY <1>1 DEF BlockOk, WorkPcs, Decoding
<1>3. CASE interruptIndex' = b BY <1>1, <1>2, <1>3 DEF Interrupts
<1>4. CASE interruptIndex' # b
  <2>1. interruptIndex' = interruptIndex BY <1>1, <1>4 DEF LowerIndex
  <2> QED BY <1>1, <2>1, InterruptsStay
<1> QED BY <1>3, <1>4

\* Only the wait for canWrite leads to writing.
LEMMA NotWriter ==
  ASSUME ControlTypes, NEW t \in Threads, t < numStarted, Thread(t), Stays(t),
         pc[t] \notin WriterPcs \cup {"waitWrite"}
  PROVE  pc'[t] \notin WriterPcs
<1>0. pc \in [Threads -> ThreadPcs] /\ t \in Nat /\ t # numStarted BY ThreadIsNat DEF ControlTypes
<1>1. pc[t] # "pass" => ReaderStep(t) \/ WorkerStep(t) BY Steps DEF Stays
<1>2. CASE ReaderStep(t) BY <1>2, Kinds DEF ReaderStep, WriterPcs
<1>3. CASE WorkerStep(t)
  <2>1. pc[t] \in {"code", "codeCheck", "interrupt"} BY <1>3 DEF WorkerStep, WorkPcs
  <2>2. pc'[t] \in {"code", "codeCheck", "interrupt", "waitWrite"}
    <3>1. CASE Code(t) BY <1>0, <3>1 DEF Code
    <3>2. CASE CodeCheck(t) BY <1>0, <3>2 DEF CodeCheck, CheckError
    <3>3. CASE CodeInterrupt(t) BY <1>0, <3>3 DEF CodeInterrupt, Interrupt
    <3> QED BY <2>1, <3>1, <3>2, <3>3, AtWaitWrite
  <2> QED BY <2>2 DEF WriterPcs
<1>4. CASE pc[t] = "pass"
  <2>1. pc'[t] # "code" BY <1>4 DEF Stays
  <2>2. ReaderStep(t) \/ PassStep(t) BY <1>4, Steps, PassActions
  <2>3. ReaderStep(t) BY <1>0, <2>1, <2>2 DEF PassStep, Alone
  <2> QED BY <2>3, Kinds DEF ReaderStep, WriterPcs
<1> QED BY <1>1, <1>2, <1>3, <1>4

\* The same for the thread that may write: what holds of the output is kept.
LEMMA StaysWriter ==
  ASSUME ControlTypes, DataTypes, NEW f, NEW k, RingTypes(f, k), NEW first, Numbers(f, k, first),
         NEW pos, Data(first, pos), Interrupts, Flags, WriterOk,
         NEW t \in Threads, t < numStarted, Thread(t), Stays(t), Elsewhere(t), Shared(t), Sticky
  PROVE  /\ pc'[t] \in WriterPcs => Writing(t, pos[first])'
         /\ Flags' /\ Interrupts' /\ WriterOk'
<1>1. HasBlock(t) /\ (pc[t] \in WriterPcs => pc'[t] \in WriterPcs) BY StaysIs
<1>2. /\ local[t].block \in Unit /\ first \in Unit /\ pos \in [Unit -> Nat]
      /\ pc[t] \in WriterPcs => local[t].block = first /\ Writing(t, pos[first])
      /\ BlockOk(t, pos[local[t].block], local[t].block)
  BY <1>1, RingOrder DEF Data, DataTypes, Numbered
<1>3. PICK b \in Unit : b = local[t].block BY <1>2
<1>4. PICK p \in Nat : p = pos[b] BY <1>2
<1>5. BlockOk(t, p, b) BY <1>2, <1>3, <1>4
<1>6. PICK q \in Nat : q = pos[first] BY <1>2
<1>7. Broken => Broken' BY DEF Sticky, Broken
<1>8. CASE pc[t] = "write"
  <2>1. local[t].block = first /\ Writing(t, q) /\ BlockOk(t, q, first)
    BY <1>2, <1>6, <1>8 DEF WriterPcs
  <2>2. Write(t) BY <1>8, AtWaitWrite
  <2>3. Writing(t, q)' /\ Flags' /\ Interrupts' /\ WriterOk' BY <2>1, <2>2, WriteWriting
  <2> QED BY <1>6, <2>3
<1>9. CASE pc[t] = "interrupt2"
  <2>1. local[t].block = first /\ Writing(t, q) /\ BlockOk(t, q, first)
    BY <1>2, <1>6, <1>9 DEF WriterPcs
  <2>2. WriteInterrupt(t) BY <1>9, AtWaitWrite
  <2>3. Writing(t, q)' /\ Flags' /\ Interrupts' BY <1>2, <2>1, <2>2, WriteInterruptWriting
  <2>4. WriterOk' BY <2>2 DEF WriteInterrupt, Interrupt, writerVars, WriterOk
  <2> QED BY <1>6, <2>3, <2>4
<1>10. CASE pc[t] = "waitWrite"
  <2>1. TakeWrite(t) /\ canWrite[t] BY <1>10, AtWaitWrite, TakeWriteIs
  <2>2. local[t].block = first BY <1>1, <2>1, RingOrder
  <2>3. \A u \in Threads : pc[u] \notin WriterPcs
    <3>1. \A u \in Threads : pc[u] \in WriterPcs \/ canWrite[u] => u = f BY Places
    <3>2. pc[t] \notin WriterPcs BY <1>10 DEF WriterPcs
    <3> QED BY <2>1, <3>1, <3>2
  <2>4. (~Broken => Ready(q)) /\ (NeedContinue => progRes # "OK") BY <1>6, <2>3 DEF Data
  <2>5. BlockOk(t, q, first) BY <1>2, <1>6, <2>2
  <2>6. Writing(t, q)' /\ Flags' /\ Interrupts' BY <2>1, <2>2, <2>4, <2>5, TakeWriteWriting
  <2>7. WriterOk' BY <2>1, TakeWriteIs DEF WriterOk
  <2> QED BY <1>6, <2>6, <2>7
<1>11. CASE pc[t] \notin WriterPcs \cup {"waitWrite"}
  <2>1. /\ UNCHANGED <<out, inProcessed, refused, numFilled, saved, filledStart,
                       wasInterrupted, isAllocError, overflow, threadingError>>
    BY <1>11 DEF Shared
  <2>2. pc'[t] \notin WriterPcs BY <1>11, NotWriter
  <2>3. Complete' = Complete /\ NeedContinue' = NeedContinue
    BY <2>1 DEF Sticky, Complete, LastUnit, NeedContinue
  <2>4. Flags' BY <2>1, <2>3 DEF Flags, Reason, Sticky
  <2>5. WriterOk' BY <2>1 DEF WriterOk
  <2>6. Interrupts'
    <3>1. CASE pc[t] = "interrupt"
      <4>1. CodeInterrupt(t) BY <3>1, AtWaitWrite
      <4> QED BY <1>3, <1>5, <1>7, <4>1, CodeInterruptStays
    <3>2. CASE pc[t] # "interrupt"
      <4>1. UNCHANGED interruptIndex BY <1>11, <3>2 DEF Shared, WriterPcs
      <4> QED BY <1>7, <1>11, <4>1, InterruptsStay
    <3> QED BY <3>1, <3>2
  <2> QED BY <2>2, <2>4, <2>5, <2>6
<1>12. pc[t] # "register" BY AtWaitWrite DEF Stays
<1> QED BY <1>8, <1>9, <1>10, <1>11, <1>12 DEF WriterPcs

\* The interruption moves to earlier blocks only.
Lowered ==
  /\ interruptIndex' \in Nat
  /\ interruptIndex # 0 => interruptIndex' # 0 /\ interruptIndex' <= interruptIndex

\* An interrupt is only ever moved to an earlier block.
LEMMA LoweredStep ==
  ASSUME ControlTypes, DataTypes, NEW t \in Threads, Thread(t)
  PROVE  Lowered
<1>1. interruptIndex \in Nat BY DEF DataTypes, Numbered
<1>2. CASE interruptIndex' = interruptIndex BY <1>1, <1>2 DEF Lowered
<1>3. CASE interruptIndex' = LowerIndex(local[t].block) /\ ~TakeRead(t) /\ ~Register(t)
  <2>1. HasBlock(t) BY <1>3, BlockStays
  <2>2. local[t].block \in Nat /\ local[t].block # 0 BY <2>1 DEF DataTypes, Numbered, Unit
  <2> QED BY <1>1, <1>3, <2>2 DEF Lowered, LowerIndex
<1> QED BY <1>2, <1>3, IndexSteps

\* What holds of the output is kept while another thread works.
LEMMA OtherWriting ==
  ASSUME ControlTypes, DataTypes, NEW t \in Threads, Elsewhere(t), NEW u \in Threads, u # t, pc[u] \in WriterPcs,
         Sticky, Lowered, UNCHANGED <<out, numFilled, isAllocError, threadingError, overflow>>,
         NEW p \in Nat, Writing(u, p)
  PROVE  Writing(u, p)'
<1>1. /\ local'[u] = local[u] /\ coder'[u] = coder[u] /\ pc'[u] = pc[u]
  BY DEF Elsewhere, WriterPcs
<1>2. NeedContinue' = NeedContinue BY DEF NeedContinue
<1>3. LastUnit' = LastUnit BY DEF Sticky, LastUnit
<1>4. \A q : Ready(q)' <=> Ready(q) BY DEF Sticky, Ready, Sound
<1>5. Broken => Broken' BY DEF Sticky, Broken
<1>6. progRes' = "OK" => progRes = "OK" BY DEF Sticky
<1>7. local[u].block \in Unit BY DEF DataTypes, Numbered, HasBlock, WorkPcs
<1>8. pc'[u] = "register" /\ ~local'[u].finish /\ local'[u].canRecode =>
        interruptIndex' # 0 /\ interruptIndex' <= local'[u].block
  <2>1. interruptIndex' \in Nat /\ interruptIndex \in Nat /\ local[u].block \in Nat
    BY <1>7 DEF Lowered, DataTypes, Numbered, Unit
  <2> QED BY <1>1, <2>1 DEF Writing, Lowered
<1>9. IF pc'[u] = "write"
      THEN /\ (ToStream(local'[u]) /\ coder'[u].data # <<>>) \/ ~Broken' => Ready(p)'
           /\ local'[u].needWrite
      ELSE /\ ~Broken' => /\ Ready(p + local[u].size)' /\ ~local'[u].canRecode
                          /\ local'[u].finish /\ ~local'[u].needContinue => coder'[u].state = "END"
           /\ local'[u].finish /\ local'[u].needContinue =>
                coder'[u].state # "END" /\ p + local[u].size < LastUnit /\ ~local'[u].canRecode
  BY <1>1, <1>4, <1>5 DEF Writing
<1>10. pc'[u] = "interrupt2" => Broken' BY <1>1, <1>5 DEF Writing
<1>11. NeedContinue' /\ progRes' = "OK" =>
         /\ Ready(p)' /\ local'[u].finish /\ local'[u].canRecode /\ ~local'[u].needContinue
         /\ pc'[u] = "write" => ~local'[u].toStream
  BY <1>1, <1>2, <1>4, <1>6 DEF Writing
<1> QED BY <1>1, <1>3, <1>8, <1>9, <1>10, <1>11 DEF Writing

\* All of the data is kept when a thread goes on with its block.
LEMMA DataStays ==
  ASSUME ControlTypes, DataTypes, ReaderOk, WriterOk, NEW f, NEW k, RingTypes(f, k), NEW first, Numbers(f, k, first),
         NEW pos, Data(first, pos), Interrupts, Flags,
         NEW t \in Threads, t < numStarted, Thread(t), Stays(t)
  PROVE  /\ Data(first, pos)' /\ Interrupts' /\ Flags' /\ WriterOk' /\ ReaderOk' /\ ReaderTypes' /\ Typed(t)'
         /\ RingTypes(f, k)' /\ Numbers(f, k, first)'
<1>0. Elsewhere(t) /\ Shared(t) /\ UNCHANGED mainVars BY Frame
<1>1. RingTypes(f, k)' /\ Numbers(f, k, first)' BY <1>0, RingKept
<1>2. /\ HasBlock(t) /\ HasBlock(t)' /\ (InHand(t)' <=> InHand(t)) /\ local'[t].block = local[t].block
      /\ pc[t] \in WriterPcs => pc'[t] \in WriterPcs
      /\ UNCHANGED <<blockIndex, numStarted, exitThread>>
  BY StaysIs
<1>3. PICK b \in Unit : b = local[t].block BY <1>2 DEF DataTypes, Numbered
<1>4. pos \in [Unit -> Nat] BY DEF Data
<1>5. PICK p \in Nat : p = pos[b] BY <1>4
<1>6. BlockOk(t, p, b) /\ (InHand(t) => LastBlock(t, p)) BY <1>2, <1>3, <1>5 DEF Data
<1>7. first \in Unit /\ (pc[t] \in WriterPcs => local[t].block = first) BY RingOrder
<1>8. pc[t] = "interrupt2" => Writing(t, p) /\ Flags BY <1>3, <1>5 DEF Data, WriterPcs
<1>9. /\ Typed(t)' /\ BlockOk(t, p, b)' /\ ReaderTypes' /\ ReaderOk'
      /\ InHand(t) => LastBlock(t, p)'
      /\ ~InHand(t) => local'[t].size = local[t].size
  BY <1>3, <1>6, <1>8, OwnBlock
<1>10. Sticky BY <1>2, <1>6, StickyStep
<1>11. /\ pc'[t] \in WriterPcs => Writing(t, pos[first])'
       /\ Flags' /\ Interrupts' /\ WriterOk'
  BY <1>0, <1>10, StaysWriter
<1>12. Lowered BY LoweredStep
<1>13. \A u \in Threads : u # t =>
         /\ HasBlock(u)' <=> HasBlock(u)
         /\ InHand(u)' <=> InHand(u)
         /\ HasBlock(u) => pc'[u] = pc[u]
         /\ pc[u] \in WriterPcs <=> pc'[u] \in WriterPcs
         /\ local'[u] = local[u]
  BY <1>0, OthersKeep
<1>14. \A u \in Threads : InHand(u) /\ u # t => pc[t] \notin ReaderPcs
  <2> SUFFICES ASSUME NEW u \in Threads, InHand(u), u # t, pc[t] \in ReaderPcs PROVE FALSE OBVIOUS
  <2>1. InHand(t) BY DEF InHand, HasBlock
  <2>2. HasBlock(u) /\ HasBlock(t) /\ local[t].block = local[u].block BY <2>1, RingOrder DEF InHand
  <2> QED BY <2>2, RingOrder
<1>15. pc[t] \notin ReaderPcs => UNCHANGED <<cross, crossBlock, readPos, readRes, stream>>
  BY <1>0 DEF Shared, mainVars
<1>16. \A u \in Threads : HasBlock(u)' => BlockOk(u, pos[local[u].block], local[u].block)'
  <2> SUFFICES ASSUME NEW u \in Threads, HasBlock(u)' PROVE BlockOk(u, pos[local[u].block], local[u].block)' OBVIOUS
  <2>1. CASE u = t BY <1>2, <1>3, <1>5, <1>9, <2>1
  <2>2. CASE u # t
    <3>1. HasBlock(u) BY <1>13, <2>2
    <3>2. PICK c \in Nat : c = local[u].block /\ c \in Unit BY <3>1 DEF DataTypes, Numbered, Unit
    <3>3. PICK r \in Nat : r = pos[c] BY <1>4, <3>2
    <3>4. BlockOk(u, r, c) BY <3>1, <3>2, <3>3 DEF Data
    <3>5. pc[u] \in ReaderPcs => UNCHANGED <<cross, crossBlock, readPos, readRes>>
      BY <1>14, <1>15, <2>2, <3>1 DEF InHand
    <3>6. BlockOk(u, r, c)' BY <1>0, <1>10, <2>2, <3>1, <3>4, <3>5, OtherBlock
    <3>7. local'[u].block = c BY <1>13, <2>2, <3>2
    <3> QED BY <3>3, <3>6, <3>7
  <2> QED BY <2>1, <2>2
<1>17. \A u \in Threads : InHand(u)' => LastBlock(u, pos[local[u].block])'
  <2> SUFFICES ASSUME NEW u \in Threads, InHand(u)' PROVE LastBlock(u, pos[local[u].block])' OBVIOUS
  <2>1. CASE u = t BY <1>2, <1>3, <1>5, <1>9, <2>1
  <2>2. CASE u # t
    <3>1. InHand(u) /\ HasBlock(u) BY <1>13, <2>2 DEF InHand
    <3>2. PICK c \in Nat : c = local[u].block /\ c \in Unit BY <3>1 DEF DataTypes, Numbered, Unit
    <3>3. PICK r \in Nat : r = pos[c] BY <1>4, <3>2
    <3>4. LastBlock(u, r) BY <3>1, <3>2, <3>3 DEF Data
    <3>5. UNCHANGED <<stream, cross, readPos>> BY <1>14, <1>15, <2>2, <3>1
    <3>6. LastBlock(u, r)' BY <1>0, <2>2, <3>1, <3>4, <3>5, OtherLast
    <3>7. local'[u].block = c BY <1>13, <2>2, <3>2
    <3> QED BY <3>3, <3>6, <3>7
  <2> QED BY <2>1, <2>2
<1>18. \A u \in Threads : HasBlock(u)' /\ ~InHand(u)' =>
         pos[local'[u].block + 1] = pos[local'[u].block] + local'[u].size
  BY <1>2, <1>9, <1>13 DEF Data
<1>19. (\A u \in Threads : ~InHand(u)') => InputFrom(pos[blockIndex])' /\ pos[blockIndex'] < LastUnit'
  <2> SUFFICES ASSUME \A u \in Threads : ~InHand(u)'
               PROVE  InputFrom(pos[blockIndex])' /\ pos[blockIndex'] < LastUnit'
    OBVIOUS
  <2>1. \A u \in Threads : ~InHand(u) BY <1>2, <1>13
  <2>2. InputFrom(pos[blockIndex]) /\ pos[blockIndex] < LastUnit BY <2>1 DEF Data
  <2>3. pc[t] \notin ReaderPcs BY <2>1 DEF InHand, HasBlock
  <2>4. UNCHANGED <<cross, readPos, stream>> BY <1>15, <2>3
  <2> QED BY <1>2, <2>2, <2>4 DEF InputFrom, LastUnit
<1>20. ASSUME NEW u \in Threads, u # t, pc[u] \in WriterPcs \/ pc[t] \notin WriterPcs, ~TakeWrite(t)
       PROVE  pc[t] \notin WriterPcs \cup {"waitWrite"}
  <2>1. pc[t] # "waitWrite" BY <1>20, AtWaitWrite
  <2>2. pc[u] \in WriterPcs => pc[t] \notin WriterPcs BY <1>20, Places
  <2> QED BY <1>20, <2>1, <2>2
<1>21. pc[t] \notin WriterPcs \cup {"waitWrite"} =>
         UNCHANGED <<out, numFilled, wasInterrupted, isAllocError, overflow, threadingError>>
  BY <1>0 DEF Shared
<1>22. \A u \in Threads : pc'[u] \in WriterPcs => Writing(u, pos[local[u].block])'
  <2> SUFFICES ASSUME NEW u \in Threads, pc'[u] \in WriterPcs PROVE Writing(u, pos[local[u].block])' OBVIOUS
  <2>0. HasBlock(u)' /\ local'[u].block = first
    <3>1. HasBlock(u)' BY DEF HasBlock, WorkPcs
    <3>2. CASE u # t
      <4>1. pc[u] \in WriterPcs /\ local'[u] = local[u] BY <1>13, <3>2
      <4> QED BY <3>1, <4>1, RingOrder
    <3>3. CASE u = t
      <4>1. CASE pc[t] \in WriterPcs BY <1>2, <1>7, <3>1, <3>3, <4>1
      <4>2. CASE TakeWrite(t)
        <5>1. canWrite[t] BY <4>2, TakeWriteIs
        <5> QED BY <1>2, <3>1, <3>3, <5>1, RingOrder
      <4>3. CASE pc[t] \notin WriterPcs /\ ~TakeWrite(t)
        <5>1. pc[t] # "waitWrite" BY <4>3, AtWaitWrite
        <5>4. pc'[t] \notin WriterPcs BY <4>3, <5>1, NotWriter
        <5> QED BY <3>3, <5>4
      <4> QED BY <4>1, <4>2, <4>3
    <3> QED BY <3>2, <3>3
  <2>1. CASE u = t BY <1>11, <2>0, <2>1
  <2>2. CASE u # t
    <3>1. pc[u] \in WriterPcs /\ HasBlock(u) /\ local'[u] = local[u] BY <1>13, <2>2 DEF HasBlock, WorkPcs
    <3>2. PICK r \in Nat : r = pos[first] BY <1>4, <1>7
    <3>3. Writing(u, r) BY <2>0, <3>1, <3>2 DEF Data
    <3>4. ~TakeWrite(t)
      <4>1. canWrite[t] => t = u BY <3>1, Places
      <4> QED BY <2>2, <4>1, TakeWriteIs
    <3>5. UNCHANGED <<out, numFilled, isAllocError, threadingError, overflow>>
      BY <1>20, <1>21, <2>2, <3>1, <3>4
    <3>6. Writing(u, r)' BY <1>0, <1>10, <1>12, <2>2, <3>1, <3>3, <3>5, OtherWriting
    <3> QED BY <2>0, <3>2, <3>6
  <2> QED BY <2>1, <2>2
<1>23. (\A u \in Threads : pc'[u] \notin WriterPcs) =>
         (~Broken' => Ready(pos[first])') /\ (NeedContinue' => progRes' # "OK")
  <2> SUFFICES ASSUME \A u \in Threads : pc'[u] \notin WriterPcs
               PROVE  (~Broken' => Ready(pos[first])') /\ (NeedContinue' => progRes' # "OK")
    OBVIOUS
  <2>1. \A u \in Threads : pc[u] \notin WriterPcs BY <1>2, <1>13
  <2>2. (~Broken => Ready(pos[first])) /\ (NeedContinue => progRes # "OK") BY <2>1 DEF Data
  <2>3. ~TakeWrite(t)
    <3> SUFFICES ASSUME TakeWrite(t) PROVE FALSE OBVIOUS
    <3>1. pc'[t] = (IF local[t].needWrite THEN "write" ELSE "register") BY TakeWriteIs
    <3> QED BY <3>1 DEF WriterPcs
  <2>4. pc[t] # "waitWrite" BY <2>3, AtWaitWrite
  <2>5. UNCHANGED <<out, numFilled, wasInterrupted, isAllocError, overflow, threadingError>> BY <1>21, <2>1, <2>4
  <2>6. NeedContinue' = NeedContinue BY <2>5 DEF NeedContinue
  <2>7. Ready(pos[first])' <=> Ready(pos[first]) BY <1>10, <2>5 DEF Ready, Sound, Sticky
  <2>8. (Broken => Broken') /\ (progRes # "OK" => progRes' # "OK") BY <1>10 DEF Sticky, Broken
  <2> QED BY <2>2, <2>6, <2>7, <2>8
<1>24. Data(first, pos)' BY <1>4, <1>16, <1>17, <1>18, <1>19, <1>22, <1>23 DEF Data
<1> QED BY <1>1, <1>9, <1>11, <1>24

\* A thread that works does not change how much input its block has.
LEMMA WorkerSize ==
  ASSUME ControlTypes, DataTypes, NEW t \in Threads, NEW p \in Nat, NEW b, BlockOk(t, p, b), b = local[t].block,
         Thread(t), Stays(t), pc[t] \in WorkPcs
  PROVE  /\ local'[t].size = local[t].size /\ local'[t].finish = local[t].finish /\ pc'[t] \in WorkPcs
<1>1. local'[t].size = local[t].size
  <2>1. CASE Code(t) BY <2>1, CodeBlock
  <2>2. CASE CodeCheck(t) BY <2>2, CodeCheckBlock
  <2>3. CASE CodeInterrupt(t) \/ WriteInterrupt(t)
    BY <2>3 DEF CodeInterrupt, WriteInterrupt, Interrupt
  <2>4. CASE TakeWrite(t) BY <2>4, TakeWriteBlock
  <2>5. CASE Write(t) BY <2>5, WriteBlock
  <2>6. ~Register(t) BY DEF Stays
  <2> QED BY <2>1, <2>2, <2>3, <2>4, <2>5, <2>6, AtWaitWrite DEF WorkPcs, WriterPcs
<1>2. WorkerStep(t)
  <2>1. pc[t] # "waitRead" /\ pc[t] # "pass" /\ pc[t] \notin ReaderPcs BY Kinds DEF WorkPcs, WriterPcs
  <2>2. ~ReaderStep(t) BY <2>1 DEF ReaderStep
  <2> QED BY <2>1, <2>2, Steps DEF Stays
<1> QED BY <1>1, <1>2 DEF WorkerStep

\* An empty block that nobody will decode is the last one.
LEMMA EmptyEnds ==
  ASSUME ControlTypes, DataTypes, NEW t \in Threads, NEW p \in Nat, NEW b, BlockOk(t, p, b),
         PreCode(t), local[t].size = 0
  PROVE  local'[t].size = 0 /\ local'[t].finish /\ pc'[t] \in WorkPcs
<1>0. /\ DOMAIN local = Threads /\ DOMAIN local[t] = FieldNames /\ pc \in [Threads -> ThreadPcs]
      /\ pc[t] = "precode"
  BY Fields DEF PreCode
<1>1. Early(t, p, b) BY <1>0 DEF BlockOk
<1>2. /\ Facts(t, p) /\ (~local[t].needCode => Excused(local[t]))
  BY <1>0, <1>1 DEF Early
<1>3. local[t].finish \/ ~(local[t].res = "OK" /\ ~local[t].interrupted)
  <2>1. CASE local[t].needCode
    <3>1. ~local[t].finish => local[t].size >= 1 BY <1>2, <2>1 DEF Facts
    <3> QED BY <3>1
  <2>2. CASE ~local[t].needCode
    <3>1. local[t].alloc \/ local[t].over \/ local[t].thr => local[t].finish BY <1>2 DEF Facts
    <3> QED BY <1>2, <2>2, <3>1 DEF Excused
  <2> QED BY <2>1, <2>2
<1> DEFINE good == local[t].res = "OK" /\ ~local[t].interrupted
<1>4. PICK r : /\ local' = [local EXCEPT ![t].codeRes = r, ![t].finish = local[t].finish \/ ~good \/ r # "OK",
                                ![t].needCode = @ /\ r = "OK", ![t].link = 0]
               /\ pc' = [pc EXCEPT ![t] = IF ~(local[t].finish \/ ~good \/ r # "OK") THEN "pass"
                                  ELSE IF good /\ local[t].needCode /\ r = "OK" THEN "code"
                                  ELSE "waitWrite"]
  BY DEF PreCode
<1>5. local'[t].finish = (local[t].finish \/ ~good \/ r # "OK") /\ local'[t].size = local[t].size
  BY <1>0, <1>4, Names
<1>6. pc'[t] \in {"code", "waitWrite"} BY <1>0, <1>3, <1>4
<1> QED BY <1>3, <1>5, <1>6 DEF WorkPcs

\* So is what the filled threads keep.
LEMMA FilledStays ==
  ASSUME ControlTypes, DataTypes, NEW f, NEW k, RingTypes(f, k), NEW first, Numbers(f, k, first),
         Filled(first), NEW t \in Threads, t < numStarted, Thread(t), Stays(t),
         NEW p \in Nat, NEW b \in Unit, b = local[t].block, BlockOk(t, p, b)
  PROVE  Filled(first)'
<1>0. Elsewhere(t) /\ Shared(t) BY Frame
<1>1. /\ HasBlock(t) /\ local'[t].block = local[t].block /\ numStarted' = numStarted
  BY StaysIs
<1>2. Lowered BY LoweredStep
<1>3. numFilled' = numFilled
  <2>1. CASE pc[t] \notin WriterPcs BY <1>0, <2>1 DEF Shared
  <2>2. CASE pc[t] \in WriterPcs
    <3>1. Write(t) \/ WriteInterrupt(t)
      BY <2>2, AtWaitWrite DEF WriterPcs, Stays
    <3> QED BY <3>1, WriteIs DEF WriteInterrupt, Interrupt, writerVars
  <2> QED BY <2>1, <2>2
<1> SUFFICES ASSUME numFilled > 0 PROVE Filled(first)' BY <1>3 DEF Filled
<1>4. /\ numFilled < first /\ numFilled <= numStarted
      /\ interruptIndex # 0 /\ interruptIndex <= first - numFilled
      /\ \A u \in Threads : HasBlock(u) /\ local[u].block >= first - numFilled + numStarted =>
           pc[u] = "check" \/ (local[u].size = 0 /\ (pc[u] = "precode" \/ (pc[u] \in WorkPcs /\ local[u].finish)))
  BY DEF Filled
<1>5. /\ numFilled \in Nat /\ first \in Nat /\ interruptIndex \in Nat /\ interruptIndex' \in Nat
      /\ numStarted \in Nat \ {0} /\ b \in Nat
  BY <1>2, Places, RingOrder DEF DataTypes, WriterTypes, Numbered, Lowered, Unit
<1>6. interruptIndex' # 0 /\ interruptIndex' <= first - numFilled
  BY <1>2, <1>4, <1>5 DEF Lowered
<1>7. ASSUME b >= first - numFilled + numStarted
      PROVE  pc'[t] = "check" \/ (local'[t].size = 0 /\ (pc'[t] = "precode" \/ (pc'[t] \in WorkPcs /\ local'[t].finish)))
  <2>1. pc[t] = "check" \/ (local[t].size = 0 /\ (pc[t] = "precode" \/ (pc[t] \in WorkPcs /\ local[t].finish)))
    BY <1>1, <1>4, <1>7
  <2>2. CASE pc[t] = "check"
    <3>1. StartCheck(t) BY <2>2, AtWaitWrite
    <3>2. Fresh(t, p) BY <2>2 DEF BlockOk
    <3>3. b > interruptIndex BY <1>4, <1>5, <1>7
    <3>4. IsInterrupted(local[t].block) BY <1>4, <3>3 DEF IsInterrupted
    <3>5. /\ Keeps(t, {"res", "interrupted"})
          /\ pc'[t] = IF progRes' # "OK" THEN "precode"
                      ELSE IF IsInterrupted(local[t].block) THEN "precode" ELSE "read"
      BY <3>1, CheckErrorIs DEF StartCheck
    <3>6. local'[t].size = local[t].size BY <3>5, Names DEF Keeps
    <3>7. local[t].size = 0 BY <3>2 DEF Fresh
    <3> QED BY <3>4, <3>5, <3>6, <3>7
  <2>3. CASE pc[t] = "precode" /\ local[t].size = 0
    <3>1. PreCode(t) BY <2>3, AtWaitWrite
    <3> QED BY <2>3, <3>1, EmptyEnds
  <2>4. CASE pc[t] \in WorkPcs /\ local[t].finish /\ local[t].size = 0 BY <2>4, WorkerSize
  <2> QED BY <2>1, <2>2, <2>3, <2>4
<1>8. \A u \in Threads : HasBlock(u)' /\ local'[u].block >= first - numFilled' + numStarted' =>
        pc'[u] = "check" \/ (local'[u].size = 0 /\ (pc'[u] = "precode" \/ (pc'[u] \in WorkPcs /\ local'[u].finish)))
  <2> SUFFICES ASSUME NEW u \in Threads, HasBlock(u)', local'[u].block >= first - numFilled' + numStarted'
               PROVE  pc'[u] = "check" \/ (local'[u].size = 0 /\ (pc'[u] = "precode" \/ (pc'[u] \in WorkPcs /\ local'[u].finish)))
    OBVIOUS
  <2>1. CASE u = t BY <1>1, <1>3, <1>7, <2>1
  <2>2. CASE u # t
    <3>1. HasBlock(u) /\ pc'[u] = pc[u] /\ local'[u] = local[u] BY <1>0, <2>2, OthersKeep
    <3> QED BY <1>1, <1>3, <1>4, <3>1
  <2> QED BY <2>1, <2>2
<1> QED BY <1>1, <1>3, <1>4, <1>6, <1>8 DEF Filled

\* The types of what all threads work with.
LEMMA AllTypes ==
  ASSUME ControlTypes, DataTypes, NEW t \in Threads, Elsewhere(t), UNCHANGED mainVars, Typed(t)', Numbered',
         ReaderTypes', WriterTypes', progRes' \in {"OK", "PROGRESS"}
  PROVE  DataTypes'
<1>1. MainTypes' BY DEF DataTypes, MainTypes, mainVars
<1>2. DOMAIN buf' = Threads /\ DOMAIN coder' = Threads BY DEF DataTypes, Elsewhere
<1>3. \A u \in Threads : Typed(u)' BY DEF DataTypes, Elsewhere, Typed
<1> QED BY <1>1, <1>2, <1>3 DEF DataTypes

\* What the other threads have is not disturbed by a thread that does not write.
LEMMA OthersData ==
  ASSUME ControlTypes, DataTypes, NEW first, NEW pos, Data(first, pos), NEW t \in Threads, Elsewhere(t), Sticky, Lowered,
         UNCHANGED <<out, numFilled, isAllocError, threadingError, overflow>>,
         UNCHANGED <<cross, crossBlock, readPos, readRes>>,
         NEW u \in Threads, u # t, HasBlock(u)
  PROVE  /\ BlockOk(u, pos[local[u].block], local[u].block)'
         /\ InHand(u) => LastBlock(u, pos[local[u].block])'
         /\ pc[u] \in WriterPcs => Writing(u, pos[local[u].block])'
<1>1. PICK c \in Nat : c = local[u].block /\ c \in Unit BY DEF DataTypes, Numbered, Unit
<1>2. PICK r \in Nat : r = pos[c] BY <1>1 DEF Data
<1>3. local'[u].block = c BY <1>1 DEF Elsewhere
<1>4. BlockOk(u, r, c)'
  <2>1. BlockOk(u, r, c) BY <1>1, <1>2 DEF Data
  <2> QED BY <2>1, OtherBlock
<1>5. InHand(u) => LastBlock(u, r)'
  <2>1. InHand(u) => LastBlock(u, r) BY <1>1, <1>2 DEF Data
  <2> QED BY <2>1, OtherLast DEF Sticky
<1>6. pc[u] \in WriterPcs => Writing(u, r)'
  <2>1. pc[u] \in WriterPcs => Writing(u, r) BY <1>1, <1>2 DEF Data
  <2> QED BY <2>1, OtherWriting
<1> QED BY <1>2, <1>3, <1>4, <1>5, <1>6

\* A thread that does not write leaves what is known of the output alone.
LEMMA QuietWriter ==
  ASSUME ControlTypes, NEW t \in Threads, Elsewhere(t), Shared(t), Sticky, Flags, Interrupts, WriterOk,
         pc[t] \notin WriterPcs \cup {"waitWrite", "interrupt"}
  PROVE  /\ Flags' /\ Interrupts' /\ WriterOk' /\ (Broken => Broken')
         /\ \A q : Ready(q) => Ready(q)'
         /\ ((NeedContinue => progRes # "OK") => (NeedContinue' => progRes' # "OK"))
<1>1. /\ UNCHANGED <<out, inProcessed, refused, numFilled, saved, filledStart,
                     wasInterrupted, isAllocError, overflow, threadingError>>
  BY DEF Shared
<1>2. UNCHANGED interruptIndex BY DEF Shared, WriterPcs
<1>3. Broken => Broken' BY DEF Sticky, Broken
<1>4. Interrupts' BY <1>2, <1>3, InterruptsStay
<1>5. Complete' = Complete /\ NeedContinue' = NeedContinue
  BY <1>1 DEF Sticky, Complete, LastUnit, NeedContinue
<1>6. Flags' BY <1>1, <1>5 DEF Flags, Reason, Sticky
<1>7. WriterOk' BY <1>1 DEF WriterOk
<1>8. \A q : Ready(q) => Ready(q)' BY <1>1 DEF Ready, Sound, Sticky
<1>9. progRes # "OK" => progRes' # "OK" BY DEF Sticky
<1> QED BY <1>3, <1>4, <1>5, <1>6, <1>7, <1>8, <1>9

-----------------------------------------------------------------------------
(* The ring goes on *)

\* A thread takes the next block.
LEMMA TakeIs ==
  ASSUME ControlTypes, DataTypes, NEW t \in Threads, TakeRead(t), ~exitThread
  PROVE  /\ pc[t] = "waitRead" /\ pc'[t] = "check" /\ canRead[t]
         /\ local'[t] = [NewLocal EXCEPT !.block = blockIndex, !.finish = readWasFinished]
         /\ blockIndex' = blockIndex + 1
         /\ UNCHANGED <<mainVars, buf, coder, exitThread, numStarted, cross, crossBlock, readPos, readRes,
                        readWasFinished, writerVars, lockVars>>
BY DEF TakeRead, ControlTypes

\* The data is kept when a thread takes the next block, empty as yet.
LEMMA TakeData ==
  ASSUME ControlTypes, DataTypes, Always, NEW f, NEW k, RingTypes(f, k), NEW first, Numbers(f, k, first),
         NEW pos, Data(first, pos), Filled(first), Interrupts, Flags,
         NEW t \in Threads, Thread(t), TakeRead(t), ~exitThread
  PROVE  /\ RingTypes(f, k)' /\ Numbers(f, k, first)' /\ Data(first, pos)' /\ Filled(first)' /\ Interrupts' /\ Flags'
         /\ WriterOk' /\ ReaderOk' /\ ReaderTypes' /\ Typed(t)' /\ HasBlock(t)'
<1>0. Elsewhere(t) /\ Shared(t) /\ UNCHANGED mainVars BY Frame
<1>1. /\ pc[t] = "waitRead" /\ pc'[t] = "check" /\ canRead[t]
      /\ local'[t] = [NewLocal EXCEPT !.block = blockIndex, !.finish = readWasFinished]
      /\ blockIndex' = blockIndex + 1
      /\ UNCHANGED <<mainVars, buf, coder, exitThread, numStarted, cross, crossBlock, readPos, readRes,
                     readWasFinished, writerVars, lockVars>>
  BY TakeIs
<1>2. RingTypes(f, k)' BY RingTakes
<1>3. Numbers(f, k, first)' BY <1>0, NumbersTake
<1>4. ReaderOk' /\ ReaderTypes' BY ReaderRests DEF Always
<1>5. Sticky BY <1>1, StickyStep, RegisterTypes
<1>6. Lowered BY LoweredStep
<1>7. pc[t] \notin WriterPcs \cup {"waitWrite", "interrupt"} BY <1>1 DEF WriterPcs
<1>8. /\ Flags' /\ Interrupts' /\ WriterOk' /\ (Broken => Broken')
      /\ \A q : Ready(q) => Ready(q)'
      /\ (NeedContinue => progRes # "OK") => (NeedContinue' => progRes' # "OK")
  BY <1>0, <1>5, <1>7, QuietWriter DEF Always
<1>33. LET l == local'[t] IN
       /\ l.block = blockIndex /\ l.finish = readWasFinished /\ l.res = "OK" /\ l.codeRes = "OK"
       /\ l.interrupted = FALSE /\ l.alloc = FALSE /\ l.over = FALSE /\ l.thr = FALSE /\ l.needCode = FALSE
       /\ l.needWrite = FALSE /\ l.toStream = FALSE /\ l.start = 0 /\ l.size = 0 /\ l.link = 0
       /\ l.isCross = FALSE /\ l.src = <<>> /\ l.needContinue = FALSE /\ l.canRecode = TRUE
  BY <1>1 DEF NewLocal
<1>9. /\ local'[t].block = blockIndex /\ local'[t].finish = readWasFinished
      /\ Clean(local'[t]) /\ local'[t].needWrite = FALSE /\ local'[t].link = 0 /\ local'[t].size = 0
      /\ local'[t].start = 0 /\ local'[t].src = <<>> /\ local'[t].isCross = FALSE
      /\ local'[t].needContinue = FALSE
  BY <1>33 DEF Clean
<1>10. blockIndex \in Nat /\ blockIndex \in Unit BY DEF DataTypes, Numbered, Unit
<1>11. LocalType(local'[t])
  <2>1. <<>> \in Seq(Unit) OBVIOUS
  <2> DEFINE l == local'[t]
  <2>2. /\ l.block \in Nat /\ l.start \in Nat /\ l.size \in Nat /\ l.link \in Nat /\ l.src \in Seq(Unit)
        /\ l.res = "OK" /\ l.codeRes = "OK"
        /\ l.interrupted = FALSE /\ l.alloc = FALSE /\ l.over = FALSE /\ l.thr = FALSE /\ l.needCode = FALSE
        /\ l.needWrite = FALSE /\ l.toStream = FALSE /\ l.isCross = FALSE /\ l.canRecode = TRUE
    BY <1>10, <1>33, <2>1
  <2> HIDE DEF l
  <2>3. LocalType(l) BY <2>2 DEF LocalType
  <2> QED BY <2>3 DEF l
<1>12. Typed(t)' BY <1>1, <1>11 DEF Typed, DataTypes
<1>13. HasBlock(t)' /\ ~HasBlock(t) /\ InHand(t)' BY <1>1 DEF HasBlock, InHand, ReaderPcs, WorkPcs, WriterPcs
<1>14. \A u \in Threads : ~InHand(u) BY <1>1, RingOrder
<1>15. InputFrom(pos[blockIndex]) /\ pos[blockIndex] < LastUnit BY <1>14 DEF Data
<1>16. pos \in [Unit -> Nat] BY DEF Data
<1>17. PICK p \in Nat : p = pos[blockIndex] BY <1>10, <1>16
<1>18. Fresh(t, p)'
  <2>1. coder'[t] = NewCoder BY <1>1, <1>13 DEF Always
  <2>2. InputFrom(p)' BY <1>1, <1>15, <1>17 DEF InputFrom
  <2>3. local'[t].finish => readPos' = stream'.size \/ readRes' # "OK"
    BY <1>1, <1>9 DEF Always, ReaderOk, mainVars
  <2> QED BY <1>9, <2>1, <2>2, <2>3 DEF Fresh
<1>19. \A b : BlockOk(t, p, b)'
  <2>1. p < LastUnit' BY <1>1, <1>15, <1>17 DEF mainVars, LastUnit
  <2> QED BY <1>1, <1>18, <2>1 DEF BlockOk, WorkPcs, WriterPcs
<1>20. LastBlock(t, p)' BY <1>1 DEF LastBlock, WorkPcs, WriterPcs
<1>21. \A u \in Threads : u # t =>
         /\ HasBlock(u)' <=> HasBlock(u)
         /\ InHand(u)' <=> InHand(u)
         /\ HasBlock(u) => pc'[u] = pc[u]
         /\ pc[u] \in WriterPcs <=> pc'[u] \in WriterPcs
         /\ local'[u] = local[u]
  BY <1>0, OthersKeep
<1>22. UNCHANGED <<out, numFilled, isAllocError, threadingError, overflow>>
  BY <1>1 DEF writerVars
<1>23. \A u \in Threads : u # t /\ HasBlock(u) =>
         /\ BlockOk(u, pos[local[u].block], local[u].block)'
         /\ pc[u] \in WriterPcs => Writing(u, pos[local[u].block])'
  BY <1>0, <1>1, <1>5, <1>6, <1>22, OthersData
<1>24. local'[t].block = blockIndex BY <1>9
<1>25. BlockOk(t, pos[local[t].block], local[t].block)' /\ LastBlock(t, pos[local[t].block])'
  BY <1>17, <1>19, <1>20, <1>24
<1>26. \A u \in Threads : HasBlock(u)' => BlockOk(u, pos[local[u].block], local[u].block)'
  BY <1>21, <1>23, <1>25
<1>27. \A u \in Threads : InHand(u)' => LastBlock(u, pos[local[u].block])' BY <1>14, <1>21, <1>25
<1>28. \A u \in Threads : HasBlock(u)' /\ ~InHand(u)' =>
         pos[local'[u].block + 1] = pos[local'[u].block] + local'[u].size
  BY <1>13, <1>21 DEF Data
<1>29. \A u \in Threads : pc'[u] \in WriterPcs => Writing(u, pos[local[u].block])'
  <2>1. pc'[t] \notin WriterPcs BY <1>1 DEF WriterPcs
  <2>2. \A u \in Threads : pc[u] \in WriterPcs => HasBlock(u) BY DEF HasBlock, WorkPcs
  <2> QED BY <1>21, <1>23, <2>1, <2>2
<1>30. (\A u \in Threads : pc'[u] \notin WriterPcs) =>
         (~Broken' => Ready(pos[first])') /\ (NeedContinue' => progRes' # "OK")
  BY <1>7, <1>8, <1>21 DEF Data
<1>31. Data(first, pos)' BY <1>13, <1>16, <1>26, <1>27, <1>28, <1>29, <1>30 DEF Data
<1>32. Filled(first)'
  <2> SUFFICES ASSUME numFilled > 0 PROVE Filled(first)' BY <1>22 DEF Filled
  <2>1. UNCHANGED <<numFilled, numStarted, interruptIndex>> BY <1>1 DEF writerVars, lockVars
  <2> QED BY <1>1, <1>21, <2>1 DEF Filled
<1> QED BY <1>2, <1>3, <1>4, <1>8, <1>12, <1>13, <1>31, <1>32

\* The ring after canRead was passed on.
LEMMA PassRing ==
  ASSUME ControlTypes, DataTypes, NEW f, NEW k, RingTypes(f, k), NEW first, Numbers(f, k, first),
         NEW t \in Threads, t < numStarted, Elsewhere(t), SpawnAndPass(t) \/ PassOnly(t) \/ SpawnFails(t), pc'[t] = "code",
         ~local'[t].finish, local'[t].block = local[t].block
  PROVE  /\ RingTypes(f, k + 1)' /\ Numbers(f, k + 1, first)'
         /\ \A u \in Threads : ~InHand(u)'
         /\ numStarted' \in Nat /\ numStarted' >= numStarted
         /\ UNCHANGED <<blockIndex, exitThread>>
<1>1. ReaderStep(t) \/ PassStep(t) BY PassActions
<1>2. ~ReaderStep(t) BY DEF ReaderStep
<1>3. PassStep(t) BY <1>1, <1>2
<1>4. UNCHANGED blockIndex BY DEF SpawnAndPass, PassOnly, SpawnFails, Unspawned
<1>5. numStarted \in Nat /\ limit \in Nat BY ConstantsAssumption DEF ControlTypes
<1>6. CASE numStarted < limit /\ numStarted' = numStarted + 1
  <2>1. RingTypes(f, k + 1)' BY <1>3, <1>6, RingGrows
  <2> QED BY <1>3, <1>4, <1>5, <1>6, <2>1, NumbersPass DEF PassStep
<1>7. CASE numStarted >= limit' /\ numStarted' = numStarted
  <2>1. RingTypes(f, k + 1)' BY <1>3, <1>7, RingPasses
  <2> QED BY <1>3, <1>4, <1>5, <1>7, <2>1, NumbersPass DEF PassStep
<1> QED BY <1>3, <1>6, <1>7 DEF PassStep

\* The data is kept when a thread passes canRead on: the next block begins where this
\* one ends.
LEMMA PassData ==
  ASSUME ControlTypes, DataTypes, Always, NEW f, NEW k, RingTypes(f, k), NEW first, Numbers(f, k, first),
         NEW pos, Data(first, pos), Filled(first), Interrupts, Flags,
         NEW t \in Threads, t < numStarted, Thread(t), pc[t] = "pass", pc'[t] = "code"
  PROVE  \E pos2 :
         /\ RingTypes(f, k + 1)' /\ Numbers(f, k + 1, first)' /\ Data(first, pos2)' /\ Filled(first)' /\ Interrupts' /\ Flags'
         /\ WriterOk' /\ ReaderOk' /\ ReaderTypes' /\ Typed(t)' /\ HasBlock(t)' /\ numStarted' >= numStarted
         /\ UNCHANGED <<exitThread, numFilled>>
<1>0. Elsewhere(t) /\ Shared(t) /\ UNCHANGED mainVars BY Frame
<1>1. SpawnAndPass(t) \/ PassOnly(t) \/ SpawnFails(t) BY Steps
<1>2. /\ pc[t] \in ReaderPcs /\ pc[t] \notin WriterPcs \cup {"waitWrite", "interrupt"} /\ "code" \in WorkPcs
      /\ "code" \notin WriterPcs
  BY DEF ReaderPcs, WriterPcs, WorkPcs
<1>3. HasBlock(t) /\ InHand(t) BY <1>2 DEF HasBlock, InHand
<1>4. /\ local'[t].block = local[t].block /\ local[t].block = blockIndex - 1
      /\ local[t].block \in first .. blockIndex - 1
  <2>1. ~TakeRead(t) /\ ~Register(t) BY DEF TakeRead, Register
  <2> QED BY <1>3, <2>1, BlockStays, RingOrder
<1>5. PICK b \in Unit : b = local[t].block BY <1>3 DEF DataTypes, Numbered
<1>6. pos \in [Unit -> Nat] BY DEF Data
<1>7. PICK p \in Nat : p = pos[b] BY <1>6
<1>8. BlockOk(t, p, b) /\ LastBlock(t, p) BY <1>3, <1>5, <1>7 DEF Data
<1>9. /\ Typed(t)' /\ BlockOk(t, p, b)'
      /\ local'[t].size = local[t].size
      /\ InputFrom(p + local[t].size)' /\ p + local[t].size < LastUnit /\ LastUnit' = LastUnit
  BY <1>1, <1>5, <1>8, PassBlock
<1>10. ~local'[t].finish
  <2>1. ~local[t].finish BY <1>8 DEF BlockOk, Early
  <2>2. DOMAIN local = Threads /\ DOMAIN local[t] = FieldNames /\ pc \in [Threads -> ThreadPcs] BY Fields
  <2>3. CASE SpawnAndPass(t) BY <2>1, <2>2, <2>3, Names DEF SpawnAndPass
  <2>4. CASE PassOnly(t) BY <2>1, <2>2, <2>4, Names DEF PassOnly, PassRead
  <2>5. CASE SpawnFails(t)
    <3>1. PassRead(t) BY <2>2, <2>5 DEF SpawnFails
    <3> QED BY <2>1, <2>2, <3>1, Names DEF PassRead
  <2> QED BY <1>1, <2>3, <2>4, <2>5
<1>11. /\ RingTypes(f, k + 1)' /\ Numbers(f, k + 1, first)'
       /\ \A u \in Threads : ~InHand(u)'
       /\ numStarted' \in Nat /\ numStarted' >= numStarted
       /\ UNCHANGED <<blockIndex, exitThread>>
  BY <1>0, <1>1, <1>4, <1>10, PassRing
<1>12. UNCHANGED <<cross, crossBlock, readPos, readRes, readWasFinished>> /\ ReaderTypes' /\ ReaderOk'
  BY <1>1, ReaderRests DEF Always
<1>13. Sticky BY <1>3, <1>2, StickyStep DEF WriterPcs
<1>14. Lowered BY LoweredStep
<1>15. /\ Flags' /\ Interrupts' /\ WriterOk' /\ (Broken => Broken')
       /\ \A q : Ready(q) => Ready(q)'
       /\ (NeedContinue => progRes # "OK") => (NeedContinue' => progRes' # "OK")
  BY <1>0, <1>2, <1>13, QuietWriter DEF Always
<1>16. UNCHANGED <<out, numFilled, isAllocError, threadingError, overflow, interruptIndex>>
  BY <1>0, <1>2 DEF Shared, WriterPcs
<1>17. \A u \in Threads : u # t =>
         /\ HasBlock(u)' <=> HasBlock(u)
         /\ InHand(u)' <=> InHand(u)
         /\ HasBlock(u) => pc'[u] = pc[u]
         /\ pc[u] \in WriterPcs <=> pc'[u] \in WriterPcs
         /\ local'[u] = local[u]
  BY <1>0, OthersKeep
<1>18. \A u \in Threads : u # t /\ HasBlock(u) =>
         /\ BlockOk(u, pos[local[u].block], local[u].block)'
         /\ pc[u] \in WriterPcs => Writing(u, pos[local[u].block])'
  BY <1>0, <1>12, <1>13, <1>14, <1>16, OthersData
<1>19. blockIndex \in Unit /\ first \in Unit /\ first # blockIndex /\ b + 1 = blockIndex /\ b # blockIndex
  <2>1. blockIndex \in Nat /\ first \in Nat /\ blockIndex \in Unit /\ first \in Unit
    BY RingOrder DEF DataTypes, Numbered, Unit
  <2> QED BY <1>4, <1>5, <2>1
<1> DEFINE pos2 == [pos EXCEPT ![blockIndex] = p + local[t].size]
<1>20. /\ pos2 \in [Unit -> Nat] /\ pos2[blockIndex] = p + local[t].size
       /\ \A x \in Unit : x # blockIndex => pos2[x] = pos[x]
  <2>1. local[t].size \in Nat BY Fields
  <2> QED BY <1>6, <1>19, <2>1
<1>21. PICK P : P = pos2 OBVIOUS
<1>22. /\ P \in [Unit -> Nat] /\ P[blockIndex] = p + local[t].size
       /\ \A x \in Unit : x # blockIndex => P[x] = pos[x]
  BY <1>20, <1>21
<1> HIDE DEF pos2
<1>23. \A u \in Threads : HasBlock(u) =>
         /\ local[u].block \in Unit /\ local[u].block # blockIndex /\ P[local[u].block] = pos[local[u].block]
         /\ u # t => local[u].block + 1 # blockIndex /\ local[u].block + 1 \in Unit /\ ~InHand(u)
  <2> SUFFICES ASSUME NEW u \in Threads, HasBlock(u)
               PROVE  /\ local[u].block \in Unit /\ local[u].block # blockIndex /\ P[local[u].block] = pos[local[u].block]
                      /\ u # t => local[u].block + 1 # blockIndex /\ local[u].block + 1 \in Unit /\ ~InHand(u)
    OBVIOUS
  <2>1. local[u].block \in first .. blockIndex - 1 /\ (local[u].block = local[t].block => u = t)
    BY <1>3, RingOrder
  <2>2. local[u].block \in Unit /\ blockIndex \in Nat BY <1>19 DEF DataTypes, Numbered, Unit
  <2>3. local[u].block # blockIndex BY <2>1, <2>2 DEF Unit
  <2>4. u # t => ~InHand(u) BY <1>4, <2>1, RingOrder
  <2>5. u # t => local[u].block + 1 # blockIndex /\ local[u].block + 1 \in Unit BY <1>4, <2>1, <2>2 DEF Unit
  <2> QED BY <1>22, <2>2, <2>3, <2>4, <2>5
<1>24. \A u \in Threads : HasBlock(u)' => BlockOk(u, P[local[u].block], local[u].block)'
  <2> SUFFICES ASSUME NEW u \in Threads, HasBlock(u)' PROVE BlockOk(u, P[local[u].block], local[u].block)' OBVIOUS
  <2>1. CASE u = t
    <3>1. P[b] = p BY <1>3, <1>5, <1>7, <1>23
    <3> QED BY <1>4, <1>5, <1>9, <2>1, <3>1
  <2>2. CASE u # t
    <3>1. HasBlock(u) /\ local'[u] = local[u] BY <1>17, <2>2
    <3>2. P[local'[u].block] = pos[local'[u].block] BY <1>23, <3>1
    <3> QED BY <1>18, <2>2, <3>1, <3>2
  <2> QED BY <2>1, <2>2
<1>25. \A u \in Threads : HasBlock(u)' /\ ~InHand(u)' =>
         P[local'[u].block + 1] = P[local'[u].block] + local'[u].size
  <2> SUFFICES ASSUME NEW u \in Threads, HasBlock(u)' PROVE P[local'[u].block + 1] = P[local'[u].block] + local'[u].size
    OBVIOUS
  <2>1. CASE u = t
    <3>1. P[b] = p BY <1>3, <1>5, <1>7, <1>23
    <3> QED BY <1>4, <1>5, <1>9, <1>19, <1>22, <2>1, <3>1
  <2>2. CASE u # t
    <3>1. HasBlock(u) /\ local'[u] = local[u] /\ ~InHand(u) BY <1>17, <1>23, <2>2
    <3>2. pos[local[u].block + 1] = pos[local[u].block] + local[u].size BY <3>1 DEF Data
    <3> QED BY <1>22, <1>23, <2>2, <3>1, <3>2
  <2> QED BY <2>1, <2>2
<1>26. InputFrom(P[blockIndex])' /\ P[blockIndex'] < LastUnit' BY <1>9, <1>11, <1>22
<1>27. \A u \in Threads : pc'[u] \in WriterPcs => Writing(u, P[local[u].block])'
  <2> SUFFICES ASSUME NEW u \in Threads, pc'[u] \in WriterPcs PROVE Writing(u, P[local[u].block])' OBVIOUS
  <2>1. u # t BY <1>2
  <2>2. pc[u] \in WriterPcs /\ HasBlock(u) /\ local'[u] = local[u] BY <1>17, <2>1 DEF HasBlock, WorkPcs
  <2>3. P[local'[u].block] = pos[local'[u].block] BY <1>23, <2>2
  <2> QED BY <1>18, <2>1, <2>2, <2>3
<1>28. (\A u \in Threads : pc'[u] \notin WriterPcs) =>
         (~Broken' => Ready(P[first])') /\ (NeedContinue' => progRes' # "OK")
  <2>1. P[first] = pos[first] BY <1>19, <1>22
  <2> QED BY <1>2, <1>15, <1>17, <2>1 DEF Data
<1>29. \A u \in Threads : ~InHand(u)' BY <1>11
<1>30. Data(first, P)' BY <1>22, <1>24, <1>25, <1>26, <1>27, <1>28, <1>29 DEF Data
<1>31. Filled(first)'
  <2> SUFFICES ASSUME numFilled > 0 PROVE Filled(first)' BY <1>16 DEF Filled
  <2>1. /\ numFilled < first /\ numFilled <= numStarted
        /\ interruptIndex # 0 /\ interruptIndex <= first - numFilled
        /\ \A u \in Threads : HasBlock(u) /\ local[u].block >= first - numFilled + numStarted =>
             pc[u] = "check" \/ (local[u].size = 0 /\ (pc[u] = "precode" \/ (pc[u] \in WorkPcs /\ local[u].finish)))
    BY DEF Filled
  <2>2. numFilled \in Nat /\ numStarted \in Nat /\ first \in Nat
    BY <1>19 DEF DataTypes, WriterTypes, ControlTypes, Unit
  <2>3. numFilled <= numStarted' BY <1>11, <2>1, <2>2
  <2>4. ~(local[t].block >= first - numFilled + numStarted)
    <3>1. pc[t] \notin WorkPcs BY <1>2, Kinds
    <3> QED BY <1>3, <2>1, <3>1
  <2>5. \A u \in Threads : HasBlock(u)' /\ local'[u].block >= first - numFilled + numStarted' =>
          u # t /\ local[u].block >= first - numFilled + numStarted
    <3> SUFFICES ASSUME NEW u \in Threads, HasBlock(u)', local'[u].block >= first - numFilled + numStarted'
                 PROVE  u # t /\ local[u].block >= first - numFilled + numStarted
      OBVIOUS
    <3>1. local'[u].block = local[u].block /\ HasBlock(u) BY <1>3, <1>4, <1>17
    <3>2. local[u].block \in Nat BY <3>1 DEF DataTypes, Numbered, Unit
    <3>3. local[u].block >= first - numFilled + numStarted BY <1>11, <2>2, <3>1, <3>2
    <3> QED BY <2>4, <3>3
  <2>6. \A u \in Threads : HasBlock(u)' /\ local'[u].block >= first - numFilled + numStarted' =>
          pc'[u] = "check" \/ (local'[u].size = 0 /\ (pc'[u] = "precode" \/ (pc'[u] \in WorkPcs /\ local'[u].finish)))
    BY <1>17, <2>1, <2>5
  <2> QED BY <1>16, <2>1, <2>3, <2>6 DEF Filled
<1>32. HasBlock(t)' BY <1>2 DEF HasBlock
<1> QED BY <1>9, <1>11, <1>12, <1>15, <1>16, <1>30, <1>31, <1>32

\* Where the ring goes on, the caller does not leave it.
LEMMA RingGoesOn ==
  ASSUME ControlTypes, NEW f, NEW k, RingTypes(f, k), ~exitThread
  PROVE  ~Leaving
<1>1. numStarted \in Nat /\ 0 < numStarted BY DEF RingTypes, ControlTypes
<1>2. InRing(0, f, k, numStarted) BY <1>1, Zero DEF RingTypes, Ring
<1>3. f \in Nat /\ k \in Nat BY DEF RingTypes, ControlTypes
<1>4. Dist(f, 0, numStarted) \in Int BY <1>1, <1>3 DEF Dist
<1>5. pc[0] \in {"waitRead"} \cup ReaderPcs \cup WorkPcs
  <2>1. Dist(f, 0, numStarted) < k \/ Dist(f, 0, numStarted) = k \/ Dist(f, 0, numStarted) > k BY <1>3, <1>4
  <2> QED BY <1>2, <2>1 DEF InRing, Working, Reader
<1>6. pc[0] # "out" BY <1>5 DEF ReaderPcs, WorkPcs, WriterPcs
<1> QED BY <1>6 DEF Leaving

\* What is common to every end of an iteration.
LEMMA RegisterIs ==
  ASSUME ControlTypes, DataTypes, NEW t \in Threads, Register(t)
  PROVE  /\ pc[t] = "register" /\ pc[t] \in WriterPcs /\ pc[t] \notin ReaderPcs /\ HasBlock(t)
         /\ pc'[t] \in {"waitRead", "out"} /\ ~HasBlock(t)' /\ ~InHand(t)' /\ pc'[t] \notin WriterPcs
         /\ InHand(t) <=> local[t].finish
         /\ coder'[t] = NewCoder /\ Typed(t)'
         /\ UNCHANGED <<readerVars, wasInterrupted, isAllocError, overflow, threadingError,
                        inProcessed, out, refused, interruptIndex, progRes, stream, blockIndex, numStarted>>
<1>1. /\ pc[t] = "register" /\ pc'[t] \in {"waitRead", "out"}
      /\ local' = [local EXCEPT ![t] = NewLocal] /\ coder' = [coder EXCEPT ![t] = NewCoder]
      /\ buf' = buf \/ buf' = [buf EXCEPT ![t] = [i \in DOMAIN @ |-> <<>>]]
      /\ UNCHANGED <<readerVars, wasInterrupted, isAllocError, overflow, threadingError,
                     inProcessed, out, refused, lockVars, stream>>
  BY DEF Register, ControlTypes, mainVars
<1>2. /\ DOMAIN local = Threads /\ DOMAIN coder = Threads /\ DOMAIN buf = Threads /\ buf[t] \in Seq(Seq(Unit))
  BY DEF ControlTypes, DataTypes, Typed
<1>3. local'[t] = NewLocal /\ coder'[t] = NewCoder BY <1>1, <1>2
<1>4. LocalType(NewLocal) /\ CoderType(NewCoder)
  <2>1. <<>> \in Seq(Unit) OBVIOUS
  <2> QED BY <2>1 DEF LocalType, CoderType, NewLocal, NewCoder, CoderNames
<1>5. buf'[t] \in Seq(Seq(Unit))
  <2>1. CASE buf' = buf BY <1>2, <2>1
  <2>2. CASE buf' = [buf EXCEPT ![t] = [i \in DOMAIN @ |-> <<>>]]
    <3>1. buf'[t] = [i \in 1 .. Len(buf[t]) |-> <<>>] BY <1>2, <2>2
    <3>2. Len(buf[t]) \in Nat /\ <<>> \in Seq(Unit) BY <1>2
    <3> QED BY <3>1, <3>2
  <2> QED BY <1>1, <2>1, <2>2
<1>6. Typed(t)' BY <1>3, <1>4, <1>5 DEF Typed
<1>7. pc[t] \in WriterPcs /\ pc[t] \notin ReaderPcs /\ HasBlock(t) /\ (InHand(t) <=> local[t].finish)
  BY <1>1 DEF WriterPcs, ReaderPcs, WorkPcs, HasBlock, InHand
<1>8. ~HasBlock(t)' /\ ~InHand(t)' /\ pc'[t] \notin WriterPcs
  BY <1>1 DEF WriterPcs, ReaderPcs, WorkPcs, HasBlock, InHand
<1>9. UNCHANGED <<interruptIndex, progRes, blockIndex, numStarted>> BY <1>1 DEF readerVars, lockVars
<1> QED BY <1>1, <1>3, <1>6, <1>7, <1>8, <1>9

\* What is kept of the block.
LEMMA RegisterKeeps ==
  ASSUME ControlTypes, DataTypes, NEW t \in Threads, Register(t)
  PROVE  LET keeps == KeepsInput(t) /\ (local[t].size # 0 \/ ~local[t].finish) IN
         /\ filledStart' = IF KeepsInput(t) /\ numFilled = 0 THEN t ELSE filledStart
         /\ numFilled' = IF keeps THEN numFilled + 1 ELSE numFilled
         /\ keeps => /\ saved'[t] = [start |-> local[t].start, size |-> local[t].size]
                     /\ buf'[t] = buf[t]
<1>1. saved \in [Threads -> [start : Nat, size : Nat]] BY DEF DataTypes, WriterTypes
<1>2. KeepsInput(t) \in BOOLEAN BY DEF KeepsInput
<1> QED BY <1>1, <1>2 DEF Register

\* What registering a block leaves alone.
LEMMA RegisterRest ==
  ASSUME ControlTypes, DataTypes, Always, NEW t \in Threads, Register(t), Elsewhere(t), Flags, Interrupts
  PROVE  /\ Sticky /\ Flags' /\ Interrupts' /\ WriterOk' /\ ReaderOk' /\ ReaderTypes' /\ WriterTypes'
         /\ Broken' = Broken /\ NeedContinue' = NeedContinue
         /\ UNCHANGED <<cross, crossBlock, readPos, readRes, readWasFinished, out, stream, progRes>>
<1>1. UNCHANGED <<readerVars, wasInterrupted, isAllocError, overflow, threadingError,
                  inProcessed, out, refused, interruptIndex, progRes, stream, blockIndex, numStarted>>
  BY RegisterIs
<1>2. UNCHANGED <<cross, crossBlock, readPos, readRes, readWasFinished>> BY <1>1 DEF readerVars
<1>3. ReaderOk' /\ ReaderTypes' BY ReaderRests DEF Always
<1>4. WriterTypes' BY RegisterTypes
<1>5. Sticky BY <1>1, <1>2, SameSticky
<1>6. Broken' = Broken /\ NeedContinue' = NeedContinue /\ Complete' = Complete
  BY <1>1 DEF Broken, NeedContinue, Complete, LastUnit
<1>7. Flags' BY <1>1, <1>2, <1>6 DEF Flags, Reason
<1>8. WriterOk' BY <1>1 DEF WriterOk, Always
<1>9. pc[t] # "waitWrite" BY RegisterIs
<1>10. Interrupts' BY <1>1, <1>6, <1>9, InterruptsStay
<1> QED BY <1>1, <1>2, <1>3, <1>4, <1>5, <1>6, <1>7, <1>8, <1>10

\* Facts about the block that ends its iteration.
LEMMA RegisterBlock ==
  ASSUME ControlTypes, DataTypes, NEW f, NEW k, RingTypes(f, k), NEW first, Numbers(f, k, first),
         NEW pos, Data(first, pos), NEW t \in Threads, Register(t)
  PROVE  /\ local[t].block = first /\ first \in Unit /\ pos \in [Unit -> Nat] /\ pos[first] \in Nat
         /\ BlockOk(t, pos[first], first) /\ Writing(t, pos[first])
         /\ Facts(t, pos[first]) /\ pos[first] < LastUnit
         /\ local[t].finish => LastBlock(t, pos[first])
         /\ local[t].size \in Nat /\ local[t].start \in Nat
<1>1. /\ pc[t] = "register" /\ pc[t] \in WriterPcs /\ HasBlock(t) /\ (InHand(t) <=> local[t].finish)
  BY RegisterIs
<1>2. local[t].block = first /\ first \in Unit BY <1>1, RingOrder
<1>3. pos \in [Unit -> Nat] BY DEF Data
<1>4. pos[first] \in Nat BY <1>2, <1>3
<1>5. BlockOk(t, pos[first], first) /\ Writing(t, pos[first]) /\ (InHand(t) => LastBlock(t, pos[first]))
  BY <1>1, <1>2 DEF Data
<1>6. Facts(t, pos[first]) /\ pos[first] < LastUnit
  BY <1>1, <1>5 DEF BlockOk, Decoding, WorkPcs, WriterPcs
<1>7. local[t].size \in Nat /\ local[t].start \in Nat BY Fields
<1> QED BY <1>1, <1>2, <1>3, <1>4, <1>5, <1>6, <1>7

-----------------------------------------------------------------------------
(* The end of a turn *)

\* The first block is done and the next is the first.
LEMMA FrontData ==
  ASSUME ControlTypes, DataTypes, Always, NEW f, NEW k, RingTypes(f, k), NEW first, Numbers(f, k, first),
         NEW pos, Data(first, pos), Interrupts, Flags,
         NEW t \in Threads, Thread(t), Register(t), ~local[t].finish
  PROVE  Data(first + 1, pos)'
<1>0. Elsewhere(t) BY Frame
<1>1. /\ pc[t] = "register" /\ pc[t] \in WriterPcs /\ pc[t] \notin ReaderPcs /\ HasBlock(t) /\ ~InHand(t)
      /\ ~HasBlock(t)' /\ ~InHand(t)' /\ pc'[t] \notin WriterPcs
      /\ UNCHANGED <<stream, out, blockIndex>>
  BY RegisterIs
<1>2. /\ local[t].block = first /\ first \in Unit /\ pos \in [Unit -> Nat] /\ pos[first] \in Nat
      /\ Writing(t, pos[first]) /\ local[t].size \in Nat
  BY RegisterBlock
<1>3. /\ Sticky /\ Broken' = Broken /\ NeedContinue' = NeedContinue
      /\ UNCHANGED <<cross, crossBlock, readPos, readRes, readWasFinished, progRes>>
  BY <1>0, RegisterRest
<1>4. \A u \in Threads : u # t =>
         /\ HasBlock(u)' <=> HasBlock(u)
         /\ InHand(u)' <=> InHand(u)
         /\ HasBlock(u) => pc'[u] = pc[u]
         /\ pc[u] \in WriterPcs <=> pc'[u] \in WriterPcs
         /\ local'[u] = local[u]
  BY <1>0, OthersKeep
<1>5. \A u \in Threads : HasBlock(u)' =>
        /\ BlockOk(u, pos[local[u].block], local[u].block)'
        /\ InHand(u)' => LastBlock(u, pos[local[u].block])'
  <2> SUFFICES ASSUME NEW u \in Threads, HasBlock(u)'
               PROVE  /\ BlockOk(u, pos[local[u].block], local[u].block)'
                      /\ InHand(u)' => LastBlock(u, pos[local[u].block])'
    OBVIOUS
  <2>1. u # t /\ HasBlock(u) BY <1>1, <1>4
  <2>2. PICK c \in Nat : c = local[u].block /\ c \in Unit BY <2>1 DEF DataTypes, Numbered, Unit
  <2>3. PICK r \in Nat : r = pos[c] BY <1>2, <2>2
  <2>4. BlockOk(u, r, c) /\ (InHand(u) => LastBlock(u, r)) BY <2>1, <2>2, <2>3 DEF Data
  <2>5. BlockOk(u, r, c)' BY <1>0, <1>3, <2>1, <2>4, OtherBlock
  <2>6. InHand(u) => LastBlock(u, r)' BY <1>0, <1>1, <1>3, <2>1, <2>4, OtherLast
  <2> QED BY <1>4, <2>1, <2>2, <2>3, <2>5, <2>6
<1>6. \A u \in Threads : HasBlock(u)' /\ ~InHand(u)' =>
         pos[local'[u].block + 1] = pos[local'[u].block] + local'[u].size
  BY <1>1, <1>4 DEF Data
<1>7. (\A u \in Threads : ~InHand(u)') => InputFrom(pos[blockIndex])' /\ pos[blockIndex'] < LastUnit'
  <2> SUFFICES ASSUME \A u \in Threads : ~InHand(u)' PROVE InputFrom(pos[blockIndex])' /\ pos[blockIndex'] < LastUnit'
    OBVIOUS
  <2>1. \A u \in Threads : ~InHand(u) BY <1>1, <1>4
  <2>2. InputFrom(pos[blockIndex]) /\ pos[blockIndex] < LastUnit BY <2>1 DEF Data
  <2> QED BY <1>1, <1>3, <2>2 DEF InputFrom, LastUnit
<1>8. \A u \in Threads : pc'[u] \notin WriterPcs
  <2> SUFFICES ASSUME NEW u \in Threads, u # t PROVE pc[u] \notin WriterPcs BY <1>1, <1>4
  <2> QED BY <1>1, Places
<1>9. ~Broken' => Ready(pos[first + 1])'
  <2> SUFFICES ASSUME ~Broken PROVE Ready(pos[first + 1])' BY <1>3
  <2>1. Ready(pos[first] + local[t].size) /\ ~local[t].canRecode BY <1>1, <1>2 DEF Writing
  <2>2. pos[first + 1] = pos[first] + local[t].size BY <1>1, <1>2 DEF Data
  <2>3. numFilled' = numFilled BY <2>1, RegisterKeeps DEF KeepsInput
  <2>4. Ready(pos[first + 1]) BY <2>1, <2>2
  <2> QED BY <1>1, <2>3, <2>4 DEF Ready, Sound
<1>10. NeedContinue' => progRes' # "OK" BY <1>2, <1>3 DEF Writing
<1>11. first + 1 \in Unit BY <1>2 DEF Unit
<1>12. \A u \in Threads : InHand(u)' => LastBlock(u, pos[local[u].block])' BY <1>5 DEF InHand
<1> QED BY <1>2, <1>5, <1>6, <1>7, <1>8, <1>9, <1>10, <1>11, <1>12 DEF Data

\* A block that is registered as filled is the front one, and was interrupted.
LEMMA FrontFilled ==
  ASSUME ControlTypes, DataTypes, Always, NEW f, NEW k, RingTypes(f, k), NEW first, Numbers(f, k, first),
         NEW pos, Data(first, pos), Filled(first),
         NEW t \in Threads, Thread(t), Register(t), ~local[t].finish
  PROVE  Filled(first + 1)' /\ numFilled' <= numStarted'
<1>0. Elsewhere(t) BY Frame
<1>1. /\ pc[t] = "register" /\ pc[t] \in WriterPcs /\ HasBlock(t) /\ ~HasBlock(t)'
      /\ UNCHANGED <<interruptIndex, numStarted>>
  BY RegisterIs
<1>2. local[t].block = first /\ first \in Nat /\ first >= 1 /\ Writing(t, pos[first])
  BY RegisterBlock DEF Unit
<1>3. \A u \in Threads : u # t => (HasBlock(u)' <=> HasBlock(u)) /\ (HasBlock(u) => pc'[u] = pc[u]) /\ local'[u] = local[u]
  BY <1>0, OthersKeep
<1>4. numFilled \in Nat /\ numStarted \in Nat /\ numStarted >= 1 /\ interruptIndex \in Nat /\ numFilled <= numStarted
  BY Places DEF DataTypes, WriterTypes, Numbered, Always
<1>5. \A u \in Threads : HasBlock(u)' => local'[u].block \in Nat /\ local'[u].block < first + numStarted
  <2> SUFFICES ASSUME NEW u \in Threads, HasBlock(u)' PROVE local'[u].block \in Nat /\ local'[u].block < first + numStarted
    OBVIOUS
  <2>1. u # t /\ HasBlock(u) /\ local'[u] = local[u] BY <1>1, <1>3
  <2>2. local[u].block = first + Dist(f, u, numStarted) BY <2>1 DEF Numbers
  <2>3. Dist(f, u, numStarted) \in 0 .. numStarted - 1 BY <2>1, Places
  <2> QED BY <1>2, <1>4, <2>1, <2>2, <2>3
<1>6. numFilled > 0 =>
        /\ numFilled < first /\ numFilled <= numStarted
        /\ interruptIndex # 0 /\ interruptIndex <= first - numFilled
        /\ \A u \in Threads : HasBlock(u) /\ local[u].block >= first - numFilled + numStarted =>
             pc[u] = "check" \/ (local[u].size = 0 /\ (pc[u] = "precode" \/ (pc[u] \in WorkPcs /\ local[u].finish)))
  BY DEF Filled
<1>7. numFilled > 0 => numFilled < numStarted
  <2> SUFFICES ASSUME numFilled > 0, numFilled = numStarted PROVE FALSE BY <1>4
  <2>1. local[t].block >= first - numFilled + numStarted BY <1>2, <1>4
  <2> QED BY <1>1, <1>6, <2>1
<1>8. CASE numFilled' = numFilled
  <2> SUFFICES ASSUME numFilled > 0 PROVE Filled(first + 1)' BY <1>1, <1>4, <1>8 DEF Filled
  <2>1. \A u \in Threads : HasBlock(u)' /\ local'[u].block >= (first + 1) - numFilled' + numStarted' =>
          u # t /\ HasBlock(u) /\ local'[u] = local[u] /\ pc'[u] = pc[u] /\ local[u].block >= first - numFilled + numStarted
    BY <1>1, <1>2, <1>3, <1>4, <1>5, <1>8
  <2>2. \A u \in Threads : HasBlock(u)' /\ local'[u].block >= (first + 1) - numFilled' + numStarted' =>
           pc'[u] = "check" \/ (local'[u].size = 0 /\ (pc'[u] = "precode" \/ (pc'[u] \in WorkPcs /\ local'[u].finish)))
    BY <1>6, <2>1
  <2>3. /\ numFilled' < first + 1 /\ numFilled' <= numStarted' /\ interruptIndex' # 0
        /\ interruptIndex' <= (first + 1) - numFilled'
    BY <1>1, <1>2, <1>4, <1>6, <1>8
  <2> QED BY <2>2, <2>3 DEF Filled
<1>9. CASE numFilled' = numFilled + 1
  <2>0. numFilled + 1 # numFilled BY <1>4
  <2>5. KeepsInput(t) BY <1>9, <2>0, RegisterKeeps
  <2>1. local[t].canRecode BY <2>5 DEF KeepsInput
  <2>2. interruptIndex # 0 /\ interruptIndex <= first BY <1>1, <1>2, <2>1 DEF Writing
  <2>3. /\ numFilled' < first + 1 /\ numFilled' <= numStarted' /\ interruptIndex' # 0
        /\ interruptIndex' <= (first + 1) - numFilled'
    BY <1>1, <1>2, <1>4, <1>6, <1>7, <1>9, <2>2
  <2>4. ASSUME NEW u \in Threads, HasBlock(u)', local'[u].block >= (first + 1) - numFilled' + numStarted'
        PROVE  pc'[u] = "check" \/ (local'[u].size = 0 /\ (pc'[u] = "precode" \/ (pc'[u] \in WorkPcs /\ local'[u].finish)))
    <3>1. u # t /\ HasBlock(u) /\ local'[u] = local[u] /\ pc'[u] = pc[u] BY <1>1, <1>3, <2>4
    <3>2. local'[u].block >= first - numFilled + numStarted /\ numFilled > 0
      BY <1>1, <1>2, <1>4, <1>5, <1>9, <2>4
    <3> QED BY <1>6, <3>1, <3>2
  <2> QED BY <2>3, <2>4 DEF Filled
<1> QED BY <1>8, <1>9, RegisterKeeps

\* Without memory, the decoding goes on with thread 0 behind the last block.
LEMMA EndData ==
  ASSUME ControlTypes, DataTypes, Always, NEW f, NEW k, RingTypes(f, k), NEW first, Numbers(f, k, first),
         NEW pos, Data(first, pos), Filled(first), Interrupts, Flags, ~exitThread,
         NEW t \in Threads, t < numStarted, Thread(t), Register(t), local[t].finish, local[t].needContinue
  PROVE  \E pos2 : /\ RingTypes(0, 0)' /\ ~exitThread' /\ Numbers(0, 0, first + 1)'
                   /\ Data(first + 1, pos2)' /\ Filled(first + 1)' /\ numFilled' <= numStarted'
<1>0. Elsewhere(t) BY Frame
<1>1. /\ pc[t] = "register" /\ pc'[t] \notin WriterPcs /\ HasBlock(t) /\ InHand(t)
      /\ UNCHANGED <<stream, out, blockIndex, numStarted, interruptIndex>>
  BY RegisterIs
<1>2. /\ local[t].block = first /\ first \in Unit /\ pos \in [Unit -> Nat] /\ pos[first] \in Nat
      /\ Writing(t, pos[first]) /\ LastBlock(t, pos[first]) /\ local[t].size \in Nat
  BY RegisterBlock
<1>3. /\ Broken' = Broken /\ NeedContinue' = NeedContinue
      /\ UNCHANGED <<cross, readPos, readRes, progRes>>
  BY <1>0, RegisterRest
<1>4. /\ \A u \in Threads : ~HasBlock(u)' /\ (HasBlock(u) => u = t)
      /\ blockIndex = first + 1 /\ Numbers(0, 0, first + 1)'
  BY <1>0, NumbersEnd
<1>5. RingTypes(0, 0)' /\ ~exitThread' BY RingEnds
<1> DEFINE q == pos[first] + local[t].size
           pos2 == [pos EXCEPT ![first + 1] = q]
<1>6. /\ coder[t].state # "END" /\ q < LastUnit /\ ~local[t].canRecode
      /\ ~Broken => Ready(q)
      /\ NeedContinue => progRes # "OK"
  BY <1>1, <1>2 DEF Writing
<1>7. InputFrom(q)
  <2>1. pc[t] \in WorkPcs BY <1>1 DEF WorkPcs, WriterPcs
  <2>2. cross = From(q + 1, Len(cross)) /\ (q + Len(cross) = readPos \/ (coder[t].state = "END" /\ q >= StopAt))
    BY <1>2, <2>1 DEF LastBlock
  <2> QED BY <1>6, <2>2 DEF InputFrom
<1>8. first + 1 \in Unit /\ q \in Nat BY <1>2 DEF Unit
<1>9. pos2 \in [Unit -> Nat] /\ pos2[first + 1] = q BY <1>2, <1>8
<1>10. PICK P : P = pos2 OBVIOUS
<1>11. PICK r \in Nat : r = q BY <1>8
<1>12. P \in [Unit -> Nat] /\ P[first + 1] = r BY <1>9, <1>10, <1>11
<1>13. /\ r < LastUnit /\ InputFrom(r) /\ (~Broken => Ready(r)) BY <1>6, <1>7, <1>11
<1> HIDE DEF pos2, q
<1>14. InputFrom(r)' /\ r < LastUnit' BY <1>1, <1>3, <1>13 DEF InputFrom, LastUnit
<1>15. numFilled' = numFilled BY <1>6, RegisterKeeps DEF KeepsInput
<1>16. ~Broken' => Ready(r)' BY <1>1, <1>3, <1>13, <1>15 DEF Ready, Sound
<1>17. NeedContinue' => progRes' # "OK" BY <1>3, <1>6
<1>18. \A u \in Threads : ~HasBlock(u)' /\ ~InHand(u)' /\ pc'[u] \notin WriterPcs
  BY <1>4 DEF InHand, HasBlock, WorkPcs
<1>19. blockIndex' = first + 1 BY <1>1, <1>4
<1>20. /\ P[blockIndex'] = r /\ P[first + 1] = r BY <1>12, <1>19
<1>21. InputFrom(P[blockIndex])' /\ P[blockIndex'] < LastUnit' BY <1>14, <1>20
<1>22. ~Broken' => Ready(P[first + 1])' BY <1>16, <1>20
<1>23. Data(first + 1, P)' BY <1>12, <1>17, <1>18, <1>21, <1>22 DEF Data
<1>24. numFilled \in Nat /\ numStarted \in Nat /\ first \in Nat /\ interruptIndex \in Nat /\ numFilled <= numStarted
  BY <1>2 DEF DataTypes, WriterTypes, Numbered, Unit, Always, ControlTypes
<1>25. numFilled > 0 => numFilled < first /\ interruptIndex # 0 /\ interruptIndex <= first - numFilled
  BY DEF Filled
<1>26. Filled(first + 1)' BY <1>1, <1>15, <1>18, <1>24, <1>25 DEF Filled
<1>27. numFilled' <= numStarted' BY <1>1, <1>15, <1>24
<1> QED BY <1>4, <1>5, <1>23, <1>26, <1>27

\* The last block is done and the caller is to take over, or to return.
LEMMA OverData ==
  ASSUME ControlTypes, DataTypes, Always, NEW f, NEW k, RingTypes(f, k), NEW first, Numbers(f, k, first),
         NEW pos, Data(first, pos), Filled(first), Interrupts, Flags, ~exitThread,
         NEW t \in Threads, t < numStarted, Thread(t), Register(t), local[t].finish, ~local[t].needContinue
  PROVE  Leaving' /\ HandOver' /\ \A u \in Threads : ~HasBlock(u)'
<1>0. Elsewhere(t) BY Frame
<1>1. /\ pc[t] = "register" /\ HasBlock(t) /\ InHand(t)
      /\ UNCHANGED <<stream, out, numStarted>>
  BY RegisterIs
<1>2. /\ local[t].block = first /\ first \in Unit /\ pos[first] \in Nat
      /\ Writing(t, pos[first]) /\ LastBlock(t, pos[first]) /\ local[t].size \in Nat
      /\ Facts(t, pos[first]) /\ pos[first] < LastUnit
  BY RegisterBlock
<1>3. /\ Broken' = Broken /\ NeedContinue' = NeedContinue /\ Flags'
      /\ UNCHANGED <<cross, readPos, readRes, progRes>>
  BY <1>0, RegisterRest
<1>4. \A u \in Threads : ~HasBlock(u)' BY <1>0, NumbersEnd
<1>5. Leaving' BY RingEnds
<1>6. PICK p \in Nat : p = pos[first] BY <1>2
<1>7. PICK size \in Nat : size = local[t].size BY <1>2
<1>8. /\ Writing(t, p) /\ LastBlock(t, p) /\ Facts(t, p) /\ p < LastUnit BY <1>2, <1>6
<1> DEFINE keeps == KeepsInput(t) /\ (local[t].size # 0 \/ ~local[t].finish)
<1>9. /\ filledStart' = IF KeepsInput(t) /\ numFilled = 0 THEN t ELSE filledStart
      /\ numFilled' = IF keeps THEN numFilled + 1 ELSE numFilled
      /\ keeps => /\ saved'[t] = [start |-> local[t].start, size |-> local[t].size]
                  /\ buf'[t] = buf[t]
  BY RegisterKeeps
<1>10. keeps <=> KeepsInput(t) /\ size # 0 BY <1>7
<1> HIDE DEF keeps
<1>11. numFilled \in Nat /\ numStarted \in Nat /\ numStarted >= 1 /\ first \in Nat /\ numFilled <= numStarted
  BY <1>2, Places DEF DataTypes, WriterTypes, Unit, Always
<1>12. numFilled' <= numStarted'
  <2> SUFFICES ASSUME keeps, numFilled = numStarted PROVE FALSE BY <1>1, <1>9, <1>11
  <2>1. size # 0 /\ local[t].block >= first - numFilled + numStarted /\ numFilled > 0 BY <1>2, <1>10, <1>11
  <2>2. pc[t] = "check" \/ local[t].size = 0 BY <1>1, <1>11, <2>1 DEF Filled
  <2> QED BY <1>1, <1>7, <2>1, <2>2
<1>13. ~Broken' => (stream'.bad = 0 => Len(out') = LastUnit')
  <2> SUFFICES ASSUME ~Broken, stream.bad = 0 PROVE Len(out) = LastUnit BY <1>1, <1>3 DEF LastUnit
  <2>1. Ready(p + local[t].size) /\ coder[t].state = "END" BY <1>1, <1>8 DEF Writing
  <2>2. p + local[t].size \in StopAt .. LastUnit BY <1>8, <2>1 DEF Facts
  <2>3. LastUnit \in Nat BY StreamIs DEF DataTypes, MainTypes, Unit
  <2> QED BY <2>1, <2>2, <2>3 DEF Ready, StopAt
<1>14. ASSUME NeedContinue, progRes = "OK"
       PROVE  /\ Rest(Len(out), buf[filledStart], saved[filledStart].start)'
              /\ numFilled' = 1 => saved'[filledStart'].size # 0
  <2>1. Ready(p) /\ local[t].canRecode BY <1>8, <1>14 DEF Writing
  <2>2. KeepsInput(t) BY <1>14, <2>1 DEF KeepsInput, Flags
  <2>3. Len(out) = p /\ Sound(p) /\ numFilled = 0 BY <2>1 DEF Ready
  <2>4. filledStart' = t BY <1>9, <2>2, <2>3
  <2>5. numFilled' = IF size # 0 THEN 1 ELSE 0 BY <1>9, <1>10, <2>2, <2>3
  <2>6. cross = From(p + size + 1, Len(cross)) /\ (p + size + Len(cross) = readPos \/ p + size >= StopAt)
    <3>1. pc[t] \in WorkPcs BY <1>1 DEF WorkPcs, WriterPcs
    <3> QED BY <1>7, <1>8, <3>1 DEF LastBlock
  <2>7. p < LastUnit' /\ Sound(p)' /\ StopAt' = StopAt BY <1>1, <1>8, <2>3 DEF Sound, LastUnit, StopAt
  <2>8. /\ Len(cross) \in Nat /\ (StopAt \in Nat) /\ readPos \in Nat
    <3>1. LastUnit \in Nat /\ stream.bad \in Nat BY StreamIs DEF DataTypes, MainTypes, Unit
    <3> QED BY <3>1 DEF StopAt, DataTypes, ReaderTypes
  <2>9. CASE size = 0
    <3>1. numFilled' = 0 BY <2>5, <2>9
    <3>2. cross = From(p + 1, Len(cross)) /\ (p + Len(cross) = readPos \/ p + Len(cross) >= StopAt)
      BY <2>6, <2>8, <2>9
    <3>3. \A B, s : Rest(p, B, s)'
      BY <1>3, <2>7, <3>1, <3>2 DEF Rest, Left
    <3> QED BY <1>1, <2>3, <3>1, <3>3
  <2>10. CASE size # 0
    <3>1. numFilled' = 1 /\ keeps BY <1>10, <2>2, <2>5, <2>10
    <3>2. saved'[t] = [start |-> local[t].start, size |-> size] /\ buf'[t] = buf[t] BY <1>7, <1>9, <3>1
    <3>3. Chained(t, p) BY <1>8 DEF Facts
    <3>4. \E m \in 0 .. Len(buf[t]) : Chain(buf[t], m, p, local[t].start, size) BY <1>7, <3>3 DEF Chained
    <3>5. saved'[filledStart'].size = size /\ saved'[filledStart'].start = local[t].start /\ buf'[filledStart'] = buf[t]
      BY <2>4, <3>2
    <3>6. filledStart' < numStarted' BY <1>1, <2>4
    <3>7. PICK start : start = local[t].start OBVIOUS
    <3>8. PICK B : B = buf[t] OBVIOUS
    <3>9. \E m \in 0 .. Len(B) : Chain(B, m, p, start, size)' BY <3>4, <3>7, <3>8 DEF Chain, Pieces, Heads, Filling
    <3>10. p + size + Len(cross) = readPos \/ p + size + Len(cross) >= StopAt BY <2>6, <2>8
    <3>11. Rest(p, B, start)'
      BY <1>3, <2>6, <2>7, <3>1, <3>5, <3>6, <3>9, <3>10 DEF Rest, Left
    <3> QED BY <1>1, <2>3, <2>10, <3>5, <3>7, <3>8, <3>11
  <2> QED BY <2>9, <2>10
<1>15. HandOver' BY <1>3, <1>12, <1>13, <1>14 DEF HandOver
<1> QED BY <1>4, <1>5, <1>15

\* The state of the ring that goes on.
GoesOn ==
  /\ ~exitThread
  /\ \E f, k, first, pos : /\ RingTypes(f, k) /\ Numbers(f, k, first)
                           /\ Data(first, pos) /\ Filled(first)

-----------------------------------------------------------------------------
(* The ring as a whole *)

\* A step of a thread in the ring.
LEMMA RingStep ==
  ASSUME ControlTypes, DataTypes, Always, Interrupts, Flags, GoesOn,
         NEW t \in Threads, t < numStarted, Thread(t)
  PROVE  /\ GoesOn' \/ (Leaving' /\ HandOver' /\ Register(t))
         /\ Interrupts' /\ Flags' /\ WriterOk' /\ ReaderOk' /\ ReaderTypes' /\ Typed(t)'
         /\ HasBlock(t)' \/ coder'[t] = NewCoder
         /\ WriterTypes' /\ progRes' \in {"OK", "PROGRESS"}
         /\ numFilled' <= numStarted'
<1> PICK f, k, first, pos : RingTypes(f, k) /\ Numbers(f, k, first) /\ Data(first, pos) /\ Filled(first)
  BY DEF GoesOn
<1>0. ~exitThread /\ Elsewhere(t) BY Frame DEF GoesOn
<1>1. HasBlock(t) \/ TakeRead(t)
  <2>1. CASE TakeRead(t) BY <2>1
  <2>2. CASE Register(t) BY <2>2, RegisterIs
  <2>3. CASE ~TakeRead(t) /\ ~Register(t) BY <2>3, BlockStays
  <2> QED BY <2>1, <2>2, <2>3
<1>2. ASSUME HasBlock(t)
      PROVE  /\ local[t].block \in Unit /\ pos[local[t].block] \in Nat
             /\ BlockOk(t, pos[local[t].block], local[t].block)
  <2>1. local[t].block \in Unit BY <1>2 DEF DataTypes, Numbered
  <2> QED BY <1>2, <2>1 DEF Data
<1>3. WriterTypes' /\ progRes' \in {"OK", "PROGRESS"}
  <2>1. CASE HasBlock(t)
    <3>1. PICK p \in Nat : p = pos[local[t].block] BY <1>2, <2>1
    <3>2. PICK b : b = local[t].block OBVIOUS
    <3>3. BlockOk(t, p, b) BY <1>2, <2>1, <3>1, <3>2
    <3> QED BY <2>1, <3>3, StickyStep
  <2>2. CASE TakeRead(t)
    <3>1. pc[t] = "waitRead" BY <2>2 DEF TakeRead
    <3> QED BY <3>1, StickyStep
  <2> QED BY <1>1, <2>1, <2>2
<1>4. numFilled' \in Nat /\ numStarted' \in Nat
  <2>1. numStarted' \in Nat
    <3>1. numStarted' \in {numStarted, numStarted + 1}
      <4>1. CASE TakeRead(t) BY <4>1, <1>0, TakeIs
      <4>2. CASE Register(t) BY <4>2, RegisterIs
      <4>3. CASE Stays(t) BY <4>3, StaysIs
      <4>4. CASE pc[t] = "pass"
        <5>1. SpawnAndPass(t) \/ PassOnly(t) \/ SpawnFails(t) BY <4>4, Steps
        <5> QED BY <5>1 DEF SpawnAndPass, PassOnly, SpawnFails, Unspawned
      <4> QED BY <4>1, <4>2, <4>3, <4>4 DEF Stays
    <3> QED BY <3>1 DEF ControlTypes
  <2> QED BY <1>3, <2>1 DEF WriterTypes
<1>5. CASE TakeRead(t)
  <2>1. exitThread' = exitThread BY <1>5, TakeIs, <1>0
  <2>2. /\ RingTypes(f, k)' /\ Numbers(f, k, first)' /\ Data(first, pos)' /\ Filled(first)' /\ Interrupts' /\ Flags'
        /\ WriterOk' /\ ReaderOk' /\ ReaderTypes' /\ Typed(t)' /\ HasBlock(t)'
    BY <1>0, <1>5, TakeData
  <2>3. GoesOn' BY <1>0, <2>1, <2>2 DEF GoesOn
  <2>4. numFilled' <= numStarted' BY <1>4, <2>2 DEF Filled
  <2> QED BY <1>3, <2>2, <2>3, <2>4
<1>6. CASE Stays(t)
  <2>1. HasBlock(t) /\ HasBlock(t)' /\ exitThread' = exitThread BY <1>6, StaysIs
  <2>2. /\ Data(first, pos)' /\ Interrupts' /\ Flags' /\ WriterOk' /\ ReaderOk' /\ ReaderTypes' /\ Typed(t)'
        /\ RingTypes(f, k)' /\ Numbers(f, k, first)'
    BY <1>6, DataStays DEF Always
  <2>3. Filled(first)'
    <3>1. PICK p \in Nat : p = pos[local[t].block] BY <1>2, <2>1
    <3>2. PICK b \in Unit : b = local[t].block BY <1>2, <2>1
    <3>3. BlockOk(t, p, b) BY <1>2, <2>1, <3>1, <3>2
    <3> QED BY <1>6, <3>2, <3>3, FilledStays
  <2>4. GoesOn' BY <1>0, <2>1, <2>2, <2>3 DEF GoesOn
  <2>5. numFilled' <= numStarted' BY <1>4, <2>3 DEF Filled
  <2> QED BY <1>3, <2>1, <2>2, <2>4, <2>5
<1>7. CASE pc[t] = "pass" /\ pc'[t] = "code"
  <2>1. PICK pos2 :
         /\ RingTypes(f, k + 1)' /\ Numbers(f, k + 1, first)' /\ Data(first, pos2)' /\ Filled(first)' /\ Interrupts' /\ Flags'
         /\ WriterOk' /\ ReaderOk' /\ ReaderTypes' /\ Typed(t)' /\ HasBlock(t)' /\ numStarted' >= numStarted
         /\ UNCHANGED <<exitThread, numFilled>>
    BY <1>7, PassData
  <2>2. GoesOn' BY <1>0, <2>1 DEF GoesOn
  <2>3. numFilled' <= numStarted' BY <1>4, <2>1 DEF Filled
  <2> QED BY <1>3, <2>1, <2>2, <2>3
<1>8. CASE Register(t)
  <2>1. coder'[t] = NewCoder /\ Typed(t)' BY <1>8, RegisterIs
  <2>2. Flags' /\ Interrupts' /\ WriterOk' /\ ReaderOk' /\ ReaderTypes' BY <1>0, <1>8, RegisterRest
  <2>3. CASE ~local[t].finish
    <3>1. ~exitThread' BY <1>0, <1>8, <2>3 DEF Register
    <3>2. RingTypes(NextIndex(f, numStarted), k - 1)' BY <1>8, <2>3, FrontMoves
    <3>3. Numbers(NextIndex(f, numStarted), k - 1, first + 1)' BY <1>0, <1>8, <2>3, NumbersFront
    <3>4. Data(first + 1, pos)' BY <1>8, <2>3, FrontData
    <3>5. Filled(first + 1)' /\ numFilled' <= numStarted' BY <1>8, <2>3, FrontFilled
    <3>6. GoesOn' BY <3>1, <3>2, <3>3, <3>4, <3>5 DEF GoesOn
    <3> QED BY <1>3, <2>1, <2>2, <3>5, <3>6
  <2>4. CASE local[t].finish /\ local[t].needContinue
    <3>1. PICK pos2 : /\ RingTypes(0, 0)' /\ ~exitThread' /\ Numbers(0, 0, first + 1)'
                      /\ Data(first + 1, pos2)' /\ Filled(first + 1)' /\ numFilled' <= numStarted'
      BY <1>0, <1>8, <2>4, EndData
    <3>2. GoesOn' BY <3>1 DEF GoesOn
    <3> QED BY <1>3, <2>1, <2>2, <3>1, <3>2
  <2>5. CASE local[t].finish /\ ~local[t].needContinue
    <3>1. Leaving' /\ HandOver' BY <1>0, <1>8, <2>5, OverData
    <3>2. numFilled' <= numStarted' BY <3>1 DEF HandOver
    <3> QED BY <1>3, <1>8, <2>1, <2>2, <3>1, <3>2
  <2>6. local[t].finish \in BOOLEAN /\ local[t].needContinue \in BOOLEAN BY DEF ControlTypes
  <2> QED BY <2>3, <2>4, <2>5, <2>6
<1> QED BY <1>5, <1>6, <1>7, <1>8 DEF Stays

\* What the caller's thread finds when it takes canRead to leave the ring, and a thread that
\* is closed when it takes it to exit.
LEMMA LeaveIs ==
  ASSUME ControlTypes, NEW t \in Threads, TakeRead(t), exitThread
  PROVE  /\ UNCHANGED <<mainVars, local, canWrite, buf, coder, exitThread, readerVars, writerVars, lockVars>>
         /\ pc[t] = "waitRead" /\ pc'[t] = (IF t = 0 THEN "out" ELSE "exited")
         /\ canRead[t] /\ ~canRead'[t]
         /\ \A u \in Threads : u # t => pc'[u] = pc[u] /\ canRead'[u] = canRead[u]
         /\ \A u \in Threads : HasBlock(u)' <=> HasBlock(u)
<1>1. /\ UNCHANGED <<mainVars, local, canWrite, buf, coder, exitThread, readerVars, writerVars, lockVars>>
      /\ pc[t] = "waitRead" /\ pc'[t] = (IF t = 0 THEN "out" ELSE "exited")
      /\ canRead[t] /\ ~canRead'[t]
      /\ \A u \in Threads : u # t => pc'[u] = pc[u] /\ canRead'[u] = canRead[u]
  BY DEF TakeRead, ControlTypes, Consumed, readerVars
<1>2. HasBlock(t)' <=> HasBlock(t) BY <1>1 DEF HasBlock, ReaderPcs, WorkPcs, WriterPcs
<1>3. \A u \in Threads : u # t => (HasBlock(u)' <=> HasBlock(u)) BY <1>1 DEF HasBlock
<1> QED BY <1>1, <1>2, <1>3

\* Outside of the threads' work nothing has to be known of the ring.
LEMMA SingleWaits ==
  ASSUME mpc \notin {"prepare", "fetch", "decode"}, mpc = "threads" => chunk = <<>>
  PROVE  Single
BY DEF Single

\* The result means nothing while the decoder works.
LEMMA ReturningWaits ==
  ASSUME mpc \notin {"idle", "return"}
  PROVE  Returning
BY DEF Returning

\* The next state of a ring that goes on.
Ringed == \E f, k : RingTypes(f, k)

\* While the ring stands no thread leaves.
LEMMA RingedStays == ControlTypes /\ Ringed /\ ~exitThread => ~Leaving
BY RingGoesOn DEF Ringed

\* The same after the step.
LEMMA RingedNext == ControlTypes' /\ Ringed' /\ ~exitThread' => ~Leaving'
BY RingedStays, PTL

\* A step of a thread keeps what is known of the data.
LEMMA ThreadData ==
  ASSUME IInv, DInv, NEW t \in Threads, Thread(t)
  PROVE  DInv'
<1>0. ControlTypes /\ Phases /\ DataTypes /\ Always BY DEF IInv, DInv
<1>1. pc[t] \notin {"none", "out", "exited"} /\ (pc[t] = "waitRead" => TakeRead(t) /\ canRead[t])
  BY <1>0, Steps
<1>2. ~Parked(t) BY <1>1 DEF Parked
<1>3. Elsewhere(t) /\ Shared(t) /\ UNCHANGED mainVars BY <1>0, Frame
<1>4. Numbered'
  <2>1. Numbered /\ Next BY <1>0 DEF DataTypes, Next
  <2> QED BY <2>1, NumberedStep
<1>5. IInv' /\ ControlTypes' BY ThreadStep DEF IInv
<1>6. UNCHANGED <<mpc, chunk>> BY <1>3 DEF mainVars
<1>7. CASE mpc = "threads" /\ ~Leaving
  <2>1. ~exitThread /\ numStarted >= 1 /\ \E f \in 0 .. numStarted - 1 : \E k \in 0 .. numStarted : Ring(f, k)
    BY <1>0, <1>7 DEF Phases
  <2>2. Flags /\ Interrupts /\ GoesOn BY <1>7, <2>1 DEF DInv, GoesOn
  <2>3. t < numStarted BY <1>2, <2>2 DEF GoesOn, RingTypes, Ring
  <2>4. /\ GoesOn' \/ (Leaving' /\ HandOver')
        /\ Interrupts' /\ Flags' /\ WriterOk' /\ ReaderOk' /\ ReaderTypes' /\ Typed(t)'
        /\ HasBlock(t)' \/ coder'[t] = NewCoder
        /\ WriterTypes' /\ progRes' \in {"OK", "PROGRESS"}
        /\ numFilled' <= numStarted'
    BY <1>0, <2>2, <2>3, RingStep
  <2>5. DataTypes' BY <1>0, <1>3, <1>4, <2>4, AllTypes
  <2>6. \A u \in Threads : ~HasBlock(u)' => coder'[u] = NewCoder
    <3> SUFFICES ASSUME NEW u \in Threads, u # t, ~HasBlock(u)' PROVE coder'[u] = NewCoder BY <2>4
    <3>1. ~HasBlock(u) /\ coder'[u] = coder[u] BY <1>0, <1>3, OthersKeep DEF Elsewhere
    <3> QED BY <1>0, <3>1 DEF Always
  <2>7. Always' BY <2>4, <2>6 DEF Always
  <2>8. Single' /\ Returning'
    <3>1. mpc' = "threads" /\ chunk' = <<>> BY <1>6, <1>7 DEF DInv, Single
    <3> QED BY <3>1 DEF Single, Returning
  <2>9. GoesOn' => ~Leaving'
    <3> SUFFICES ASSUME GoesOn' PROVE ~Leaving' OBVIOUS
    <3>1. PICK f, k : RingTypes(f, k)' /\ ~exitThread' BY DEF GoesOn
    <3>2. Ringed' BY <3>1 DEF Ringed
    <3> QED BY <1>5, <3>1, <3>2, RingedNext
  <2>10. Leaving' => HandOver' BY <2>4, <2>9
  <2>11. ~Leaving' => GoesOn' BY <2>4
  <2> QED BY <2>4, <2>5, <2>7, <2>8, <2>10, <2>11 DEF DInv, GoesOn
<1>8. ASSUME TakeRead(t), exitThread, mpc \in {"threads", "join"}, mpc = "threads" => Leaving /\ t = 0
      PROVE  DInv'
  <2>1. /\ UNCHANGED <<mainVars, local, canWrite, buf, coder, exitThread, readerVars, writerVars, lockVars>>
        /\ pc'[t] = (IF t = 0 THEN "out" ELSE "exited") /\ ~canRead'[t]
        /\ \A u \in Threads : u # t => pc'[u] = pc[u] /\ canRead'[u] = canRead[u]
        /\ \A u \in Threads : HasBlock(u)' <=> HasBlock(u)
    BY <1>0, <1>8, LeaveIs
  <2>2. DataTypes'
    BY <1>0, <1>4, <2>1 DEF DataTypes, MainTypes, ReaderTypes, WriterTypes, Typed, mainVars, readerVars, writerVars, lockVars
  <2>3. Always'
    BY <1>0, <2>1 DEF Always, ReaderOk, WriterOk, mainVars, readerVars, writerVars
  <2>4. UNCHANGED <<stream, NeedContinue, Broken, Complete, refused, readRes, out, progRes, numFilled, numStarted,
                    buf, saved, filledStart, cross, readPos, LastUnit, StopAt, wasInterrupted>>
    BY <2>1 DEF mainVars, readerVars, writerVars, lockVars, NeedContinue, Broken, Complete, LastUnit, StopAt
  <2>5. Flags => Flags' BY <2>4 DEF Flags, Reason
  <2>6. HandOver => HandOver'
    <3> SUFFICES ASSUME HandOver PROVE HandOver' OBVIOUS
    <3>1. ~Broken' => (stream'.bad = 0 => Len(out') = LastUnit') BY <2>4 DEF HandOver
    <3>2. Flags' /\ numFilled' <= numStarted' BY <2>4, <2>5 DEF HandOver
    <3>3. ASSUME NeedContinue, progRes = "OK"
          PROVE  /\ Rest(Len(out), buf[filledStart], saved[filledStart].start)'
                 /\ numFilled' = 1 => saved'[filledStart'].size # 0
      <4>1. /\ Rest(Len(out), buf[filledStart], saved[filledStart].start)
            /\ numFilled = 1 => saved[filledStart].size # 0
        BY <3>3 DEF HandOver
      <4>2. PICK p, B, s : p = Len(out) /\ B = buf[filledStart] /\ s = saved[filledStart].start OBVIOUS
      <4>3. Rest(p, B, s) BY <4>1, <4>2
      <4>4. Rest(p, B, s)' BY <2>4, <4>3 DEF Rest, Left, Sound, Chain, Pieces, Heads, Filling
      <4> QED BY <2>4, <4>1, <4>2, <4>4
    <3> QED BY <2>4, <3>1, <3>2, <3>3 DEF HandOver
  <2>7. Single' /\ Returning'
    <3>1. mpc' = mpc /\ (mpc = "threads" => chunk' = <<>>) BY <1>6 DEF DInv, Single
    <3> QED BY <1>8, <3>1 DEF Single, Returning
  <2>8. CASE mpc = "threads"
    <3>1. t = 0 /\ Leaving BY <1>8, <2>8
    <3>2. pc'[0] = "out" /\ ~canRead'[0] /\ ~canWrite'[0] BY <2>1, <3>1 DEF Leaving
    <3>3. \A u \in Threads : u # 0 => Parked(u)' BY <2>1, <3>1 DEF Leaving, Parked
    <3>4. Leaving' BY <3>2, <3>3 DEF Leaving
    <3>5. Flags /\ HandOver BY <2>8, <3>1 DEF DInv
    <3> QED BY <2>2, <2>3, <2>5, <2>6, <2>7, <3>4, <3>5 DEF DInv
  <2>9. CASE mpc = "join"
    <3>1. mpc' = "join" BY <1>6, <2>9
    <3> QED BY <2>2, <2>3, <2>7, <3>1 DEF DInv
  <2> QED BY <1>8, <2>8, <2>9
<1>9. CASE mpc = "threads" /\ Leaving
  <2>1. t = 0 /\ TakeRead(t) /\ exitThread BY <1>1, <1>2, <1>9 DEF Leaving
  <2> QED BY <1>8, <1>9, <2>1
<1>10. CASE mpc = "join"
  <2>1. t = freeIdx /\ TakeRead(t) /\ exitThread BY <1>0, <1>1, <1>2, <1>10 DEF Phases, Joining
  <2> QED BY <1>8, <1>10, <2>1
<1>11. CASE mpc \notin {"threads", "join"}
  <2>1. Parked(t) BY <1>0, <1>11 DEF Phases, AllRest, ControlTypes, MainPcs
  <2> QED BY <1>2, <2>1
<1> QED BY <1>7, <1>9, <1>10, <1>11

-----------------------------------------------------------------------------
(* The caller *)

\* The caller works while no thread has a block.
LEMMA NoBlocks ==
  ASSUME IInv, Main
  PROVE  \A u \in Threads : ~HasBlock(u) /\ ~HasBlock(u)'
<1>1. ControlTypes /\ Phases BY DEF IInv
<1>2. \A u \in Threads : Parked(u) => ~HasBlock(u) BY Kinds DEF Parked, HasBlock
<1>3. mpc \in {"idle", "prepare", "fetch", "decode", "return", "close", "join", "end"} \/ (mpc = "threads" /\ pc[0] = "out")
  BY DEF Main, Decode, ThreadsReturn, Prepare, FetchFilled, FetchCross, FetchNothing, FetchStream, DecodeChunk,
     Return, Destroy, CloseThread, JoinThread, Destroyed
<1>4. \A u \in Threads : ~HasBlock(u)
  <2>1. CASE mpc \in {"idle", "prepare", "fetch", "decode", "return", "close", "end"}
    BY <1>1, <1>2, <2>1 DEF Phases, AllRest
  <2>2. CASE mpc = "join"
    <3>1. Joining(freeIdx) BY <1>1, <2>2 DEF Phases
    <3>2. \A u \in Threads : pc[u] \in {"none", "waitRead", "exited"} BY <3>1 DEF Joining, Parked
    <3> QED BY <3>2 DEF HasBlock, ReaderPcs, WorkPcs, WriterPcs
  <2>3. CASE mpc = "threads" /\ pc[0] = "out"
    <3>1. Leaving
      <4> SUFFICES ASSUME ~Leaving PROVE FALSE OBVIOUS
      <4>1. ~exitThread /\ numStarted >= 1 /\ \E f \in 0 .. numStarted - 1 : \E k \in 0 .. numStarted : Ring(f, k)
        BY <1>1, <2>3 DEF Phases
      <4>2. PICK f, k : RingTypes(f, k) BY <4>1 DEF RingTypes
      <4>3. 0 < numStarted /\ InRing(0, f, k, numStarted)
        BY <1>1, <4>1, <4>2, Zero DEF RingTypes, Ring, ControlTypes
      <4>4. numStarted \in Nat /\ f \in Nat /\ k \in Nat BY <1>1, <4>2 DEF RingTypes, ControlTypes
      <4>5. Dist(f, 0, numStarted) \in Int BY <4>4 DEF Dist
      <4>6. Dist(f, 0, numStarted) < k \/ Dist(f, 0, numStarted) = k \/ Dist(f, 0, numStarted) > k BY <4>4, <4>5
      <4> QED BY <2>3, <4>3, <4>6, Kinds DEF InRing, Working, Reader
    <3> QED BY <1>2, <2>3, <3>1, Kinds DEF Leaving, HasBlock
  <2> QED BY <1>3, <2>1, <2>2, <2>3
<1>5. pc' = pc \/ \E u \in Threads, q \in {"none", "waitRead"} : pc' = [pc EXCEPT ![u] = q] BY MainNumbers
<1>6. \A u \in Threads : pc'[u] = pc[u] \/ pc'[u] \in {"none", "waitRead"} BY <1>1, <1>5 DEF ControlTypes
<1>7. \A u \in Threads : ~HasBlock(u)' BY <1>4, <1>6 DEF HasBlock, ReaderPcs, WorkPcs, WriterPcs
<1> QED BY <1>4, <1>7

\* What the caller's step leaves alone.
LEMMA MainKeeps ==
  ASSUME IInv, DInv, Main
  PROVE  /\ UNCHANGED <<local, coder>>
         /\ \A u \in Threads : coder'[u] = NewCoder
         /\ Numbered'
<1>1. UNCHANGED coder
  BY DEF Main, Decode, ThreadsReturn, Prepare, FetchFilled, FetchCross, FetchNothing, FetchStream, DecodeChunk,
     Return, Destroy, CloseThread, JoinThread, Destroyed, Unfetched
<1>2. \A u \in Threads : coder[u] = NewCoder BY NoBlocks DEF DInv, Always
<1>3. Numbered' 
  <2>1. Numbered /\ Next BY DEF DInv, DataTypes, Next
  <2> QED BY <2>1, NumberedStep
<1>4. UNCHANGED local BY MainNumbers
<1> QED BY <1>1, <1>2, <1>3, <1>4

\* What is left to show of the types after a step of the caller.
LEMMA MainDataTypes ==
  ASSUME IInv, DInv, Main, MainTypes', ReaderTypes', WriterTypes', progRes' \in {"OK", "PROGRESS"},
         DOMAIN buf' = Threads, \A t \in Threads : buf'[t] \in Seq(Seq(Unit))
  PROVE  DataTypes'
<1>1. UNCHANGED <<local, coder>> /\ Numbered' BY MainKeeps
<1>2. DOMAIN coder' = Threads /\ \A t \in Threads : LocalType(local'[t]) /\ CoderType(coder'[t])
  BY <1>1 DEF DInv, DataTypes, Typed
<1> QED BY <1>1, <1>2 DEF DataTypes, Typed

\* Before the first call.
LEMMA InitData == ASSUME Init PROVE DInv
<1>1. stream.size \in Nat /\ Stream(stream) /\ NumThreads \in Nat \ {0} /\ 0 \in Threads
  BY Zero, ConstantsAssumption DEF Init, Stream
<1>2. LocalType(NewLocal) /\ CoderType(NewCoder)
  <2>1. <<>> \in Seq(Unit) OBVIOUS
  <2> QED BY <2>1 DEF LocalType, CoderType, NewLocal, NewCoder, CoderNames
<1>3. <<>> \in Seq(Unit) /\ <<>> \in Seq(Seq(Unit)) OBVIOUS
<1>4. MainTypes BY <1>1, <1>3, ConstantsAssumption DEF Init, MainTypes, Results
<1>5. ReaderTypes BY <1>3 DEF Init, ReaderTypes
<1>6. WriterTypes BY <1>1, <1>3 DEF Init, WriterTypes
<1>7. Numbered BY Kinds DEF Init, Numbered, HasBlock, Unit
<1>8. \A t \in Threads : Typed(t) BY <1>2, <1>3 DEF Init, Typed
<1>9. DataTypes BY <1>4, <1>5, <1>6, <1>7, <1>8 DEF Init, DataTypes
<1>10. From(1, 0) = <<>> BY FromIs DEF Unit
<1>11. ReaderOk BY <1>1 DEF Init, ReaderOk
<1>12. WriterOk BY <1>10 DEF Init, WriterOk
<1>13. Always BY <1>11, <1>12 DEF Init, Always
<1>14. mpc = "idle" /\ result = "none" BY DEF Init
<1>15. Single /\ Returning BY <1>14 DEF Single, Returning
<1> QED BY <1>9, <1>13, <1>14, <1>15 DEF DInv

\* What a call of Lzma2DecMt_Decode begins with.
LEMMA DecodeData ==
  ASSUME IInv, DInv, Decode
  PROVE  DInv'
<1>0. Main BY DEF Main
<1>1. /\ mpc = "idle" /\ calls < NumCalls /\ calls' = calls + 1 /\ result' = "none"
      /\ stream' \in Streams
      /\ tMode' = FALSE /\ chunk' = <<>>
      /\ readPos' = 0 /\ readWasFinished' = FALSE /\ readRes' = "OK"
      /\ inProcessed' = 0 /\ out' = <<>> /\ refused' = FALSE
      /\ buf' = [t \in Threads |-> [i \in DOMAIN buf[t] |-> <<>>]]
      /\ saved' = [t \in Threads |-> [start |-> 0, size |-> 0]]
      /\ UNCHANGED <<freeIdx, local, coder, crossBlock>>
      /\ StartThreads \/ StartAlone
  BY DEF Decode
<1>2. /\ ControlTypes /\ DataTypes /\ Always /\ NumCalls \in Nat
      /\ MainTypes /\ ReaderTypes /\ WriterTypes /\ progRes \in {"OK", "PROGRESS"}
  BY ConstantsAssumption DEF IInv, DInv, DataTypes
<1>3. stream'.size \in Nat /\ stream'.bad \in Nat /\ LastUnit' \in Nat \ {0}
  <2>1. PICK s \in Streams : s = stream' BY <1>1
  <2>2. Stream(s) BY ConstantsAssumption
  <2>3. s.ends \in Seq(Nat \ {0}) /\ s.ends # <<>> BY <2>2 DEF Stream
  <2>4. Len(s.ends) \in 1 .. Len(s.ends) BY <2>3, EmptySeq, LenProperties
  <2>5. s.ends[Len(s.ends)] \in Nat \ {0} BY <2>3, <2>4
  <2> QED BY <2>1, <2>2, <2>5 DEF Stream, LastUnit
<1>4. <<>> \in Seq(Unit) /\ 0 \in Threads /\ From(1, 0) = <<>> BY Zero, FromIs DEF Unit
<1>5. \A t \in Threads : buf'[t] \in Seq(Seq(Unit))
  <2> SUFFICES ASSUME NEW t \in Threads PROVE buf'[t] \in Seq(Seq(Unit)) OBVIOUS
  <2>1. buf[t] \in Seq(Seq(Unit)) BY <1>2 DEF DataTypes, Typed
  <2>2. buf'[t] = [i \in 1 .. Len(buf[t]) |-> <<>>] BY <1>1, <2>1
  <2>3. Len(buf[t]) \in Nat BY <2>1
  <2> QED BY <1>4, <2>2, <2>3
<1>6. MainTypes'
  <2>1. calls' \in 0 .. NumCalls /\ freeIdx' \in 0 .. NumThreads BY <1>1, <1>2 DEF MainTypes
  <2>2. result' \in Results /\ chunk' \in Seq(Unit) BY <1>1, <1>4 DEF Results
  <2>3. tMode' \in BOOLEAN BY <1>1
  <2> QED BY <1>1, <2>1, <2>2, <2>3 DEF MainTypes
<1>7. /\ cross' \in Seq(Unit) /\ (cross' # <<>> => crossBlock') /\ crossBlock' \in BOOLEAN
      /\ progRes' \in {"OK", "PROGRESS"}
      /\ {wasInterrupted, isAllocError, overflow, threadingError}' \subseteq BOOLEAN
      /\ filledStart' \in Threads /\ numFilled' \in Nat /\ numFilled' <= numStarted'
  <2>1. CASE StartThreads
    <3>1. cross' = <<>> /\ filledStart' = 0 /\ numFilled' = 0 /\ numStarted' = 1 /\ progRes' = "OK"
      BY <2>1 DEF StartThreads
    <3>2. wasInterrupted' \in BOOLEAN /\ isAllocError' \in BOOLEAN /\ overflow' \in BOOLEAN /\ threadingError' \in BOOLEAN
      BY <2>1 DEF StartThreads
    <3>3. crossBlock' \in BOOLEAN BY <1>1, <1>2 DEF ReaderTypes
    <3> QED BY <1>4, <3>1, <3>2, <3>3
  <2>2. CASE StartAlone BY <1>1, <1>2, <2>2 DEF StartAlone, ReaderTypes, WriterTypes, Always, ReaderOk
  <2> QED BY <1>1, <2>1, <2>2
<1>8. ReaderTypes' BY <1>1, <1>7 DEF ReaderTypes
<1>9. WriterTypes' BY <1>1, <1>4, <1>7 DEF WriterTypes
<1>10. DataTypes' BY <1>0, <1>1, <1>5, <1>6, <1>7, <1>8, <1>9, MainDataTypes
<1>11. ReaderOk' BY <1>1, <1>3, <1>7 DEF ReaderOk
<1>12. WriterOk' BY <1>1, <1>4 DEF WriterOk
<1>13. Always' BY <1>0, <1>7, <1>11, <1>12, MainKeeps DEF Always
<1>14. mpc' \in {"threads", "prepare"} BY <1>1 DEF StartThreads, StartAlone
<1>15. Returning' BY <1>14 DEF Returning
<1>16. Single' BY <1>1, <1>7, <1>14 DEF Single
<1>17. CASE StartAlone
  <2>1. mpc' = "prepare" BY <1>17 DEF StartAlone
  <2> QED BY <1>10, <1>13, <1>15, <1>16, <2>1 DEF DInv
<1>18. CASE StartThreads
  <2>1. /\ mpc' = "threads" /\ blockIndex' = 1 /\ numStarted' = 1 /\ interruptIndex' = 0 /\ progRes' = "OK"
        /\ ~exitThread' /\ ~wasInterrupted' /\ ~isAllocError' /\ ~overflow' /\ ~threadingError'
        /\ cross' = <<>> /\ numFilled' = 0
    BY <1>18 DEF StartThreads
  <2>2. ~NeedContinue' /\ Flags' /\ Interrupts' BY <2>1 DEF NeedContinue, Flags, Reason, Interrupts
  <2>3. RingTypes(0, 0)'
    <3>1. /\ pc' = [pc EXCEPT ![0] = "waitRead"] /\ canRead' = [canRead EXCEPT ![0] = TRUE]
          /\ canWrite' = [canWrite EXCEPT ![0] = TRUE]
          /\ numStarted' = 1 /\ limit' = NumThreads
      BY <1>18 DEF StartThreads
    <3>2. ASSUME NEW t \in Threads PROVE IF t < 1 THEN InRing(t, 0, 0, 1)' ELSE Parked(t)'
      <4>1. CASE t < 1
        <5>1. t = 0 /\ Dist(0, t, 1) = 0 BY <4>1, ThreadIsNat DEF Dist
        <5>2. pc'[0] = "waitRead" /\ canRead'[0] /\ canWrite'[0] BY <1>2, <1>4, <3>1 DEF ControlTypes
        <5> QED BY <4>1, <5>1, <5>2, Kinds DEF InRing, Reader
      <4>2. CASE ~(t < 1)
        <5>1. AllRest BY <1>1 DEF IInv, Phases
        <5>2. t # 0 BY <4>2
        <5>3. pc'[t] = pc[t] /\ canRead'[t] = canRead[t] /\ canWrite'[t] = canWrite[t]
          BY <1>2, <3>1, <5>2 DEF ControlTypes
        <5> QED BY <4>2, <5>1, <5>3 DEF AllRest, Parked
      <4> QED BY <4>1, <4>2
    <3>3. 1 <= NumThreads BY ConstantsAssumption
    <3> QED BY <3>1, <3>2, <3>3 DEF RingTypes, Ring
  <2>4. ControlTypes' BY <1>0, MainStep DEF IInv
  <2>5. ~Leaving' BY <2>1, <2>3, <2>4, RingedNext DEF Ringed
  <2>6. \A t \in Threads : ~HasBlock(t)' /\ ~InHand(t)' /\ pc'[t] \notin WriterPcs
    BY <1>0, NoBlocks DEF InHand, HasBlock, WorkPcs
  <2>7. Numbers(0, 0, 1)' BY <2>1, <2>6 DEF Numbers, Unit
  <2> DEFINE pos == [u \in Unit |-> 0]
  <2>8. pos \in [Unit -> Nat] /\ pos[1] = 0 BY DEF Unit
  <2>9. PICK P : P = pos OBVIOUS
  <2>10. P \in [Unit -> Nat] /\ P[1] = 0 BY <2>8, <2>9
  <2>11. InputFrom(0)' /\ 0 < LastUnit' BY <1>1, <1>3, <1>4, <2>1 DEF InputFrom
  <2>12. Ready(0)' BY <1>1, <1>3, <2>1 DEF Ready, Sound
  <2>13. Data(1, P)' BY <2>1, <2>2, <2>6, <2>10, <2>11, <2>12 DEF Data
  <2>14. Filled(1)' BY <2>1 DEF Filled
  <2> QED BY <1>10, <1>13, <1>15, <1>16, <2>1, <2>2, <2>3, <2>5, <2>7, <2>13, <2>14 DEF DInv
<1> QED BY <1>1, <1>17, <1>18

\* The caller leaves the ring.
LEMMA ReturnData ==
  ASSUME IInv, DInv, ThreadsReturn
  PROVE  DInv'
<1>0. Main BY DEF Main
<1>1. /\ mpc = "threads" /\ pc[0] = "out"
      /\ mpc' \in {"idle", "prepare"}
      /\ UNCHANGED <<calls, stream, freeIdx, chunk, local, canRead, canWrite, buf, coder,
                 exitThread, readerVars, writerVars, lockVars>>
  BY DEF ThreadsReturn
<1>2. /\ ControlTypes /\ DataTypes /\ Always /\ Phases /\ MainTypes BY DEF IInv, DInv, DataTypes
<1>3. Leaving
  <2> SUFFICES ASSUME ~Leaving PROVE FALSE OBVIOUS
  <2>1. ~exitThread /\ numStarted >= 1 /\ \E f \in 0 .. numStarted - 1 : \E k \in 0 .. numStarted : Ring(f, k)
    BY <1>1, <1>2 DEF Phases
  <2>2. PICK f, k : RingTypes(f, k) BY <2>1 DEF RingTypes
  <2>3. 0 < numStarted /\ InRing(0, f, k, numStarted)
    BY <1>2, <2>1, <2>2, Zero DEF RingTypes, Ring, ControlTypes
  <2>4. numStarted \in Nat /\ f \in Nat /\ k \in Nat BY <1>2, <2>2 DEF RingTypes, ControlTypes
  <2>5. Dist(f, 0, numStarted) \in Int BY <2>4 DEF Dist
  <2>6. Dist(f, 0, numStarted) < k \/ Dist(f, 0, numStarted) = k \/ Dist(f, 0, numStarted) > k BY <2>4, <2>5
  <2> QED BY <1>1, <2>3, <2>6, Kinds DEF InRing, Working, Reader
<1>4. HandOver /\ Flags /\ chunk = <<>> BY <1>1, <1>3 DEF DInv, Single
<1>5. /\ UNCHANGED <<stream, NeedContinue, Broken, Complete, refused, readRes, out, progRes, numFilled, numStarted,
                     buf, saved, filledStart, cross, crossBlock, readPos, LastUnit, StopAt, wasInterrupted, inProcessed,
                     isAllocError, overflow, threadingError, readWasFinished>>
  BY <1>1 DEF readerVars, writerVars, lockVars, NeedContinue, Broken, Complete, LastUnit, StopAt
<1>6. MainTypes'
  <2>1. result' \in Results /\ tMode' \in BOOLEAN
    BY <1>2 DEF ThreadsReturn, MainTypes, DataTypes, ReaderTypes, Results
  <2> QED BY <1>1, <1>2, <2>1 DEF MainTypes
<1>7. DataTypes'
  BY <1>0, <1>2, <1>5, <1>6, MainDataTypes DEF DataTypes, ReaderTypes, WriterTypes, Typed
<1>8. Always' BY <1>0, <1>2, <1>5, MainKeeps DEF Always, ReaderOk, WriterOk
<1>9. CASE progRes # "OK"
  <2>1. mpc' = "idle" /\ result' # "OK" BY <1>9 DEF ThreadsReturn
  <2> QED BY <1>7, <1>8, <2>1 DEF DInv, Single, Returning
<1>10. CASE progRes = "OK" /\ ~NeedContinue
  <2>1. mpc' = "idle" /\ result' = readRes BY <1>10 DEF ThreadsReturn
  <2>2. result' = "OK" /\ Complete /\ ~refused => Len(out) = LastUnit
    <3> SUFFICES ASSUME readRes = "OK", Complete, ~refused PROVE Len(out) = LastUnit BY <2>1
    <3>1. ~wasInterrupted BY <1>4, <1>10 DEF Flags, Reason
    <3> QED BY <1>4, <1>10, <3>1 DEF HandOver, Broken, Complete
  <2>3. Returning' BY <1>5, <2>1, <2>2 DEF Returning
  <2> QED BY <1>7, <1>8, <2>1, <2>3 DEF DInv, Single
<1>11. CASE progRes = "OK" /\ NeedContinue
  <2>1. mpc' = "prepare" /\ tMode' BY <1>11 DEF ThreadsReturn
  <2>2. HandOver'
    <3>1. /\ Rest(Len(out), buf[filledStart], saved[filledStart].start)
          /\ numFilled = 1 => saved[filledStart].size # 0
      BY <1>4, <1>11 DEF HandOver
    <3>2. PICK p, B, s : p = Len(out) /\ B = buf[filledStart] /\ s = saved[filledStart].start OBVIOUS
    <3>3. Rest(p, B, s) BY <3>1, <3>2
    <3>4. Rest(p, B, s)' BY <1>5, <3>3 DEF Rest, Left, Sound, Chain, Pieces, Heads, Filling
    <3>5. ~Broken' => (stream'.bad = 0 => Len(out') = LastUnit') BY <1>4, <1>5 DEF HandOver
    <3>6. Flags' /\ numFilled' <= numStarted'
      <4>1. Flags' BY <1>4, <1>5 DEF Flags, Reason
      <4> QED BY <1>4, <1>5, <4>1 DEF HandOver
    <3> QED BY <1>5, <3>1, <3>2, <3>4, <3>5, <3>6 DEF HandOver
  <2>3. Single' BY <1>1, <1>4, <1>5, <1>11, <2>1, <2>2 DEF Single
  <2> QED BY <1>7, <1>8, <2>1, <2>3 DEF DInv, Returning
<1>12. NeedContinue \in BOOLEAN BY <1>2 DEF NeedContinue, DataTypes, WriterTypes
<1> QED BY <1>9, <1>10, <1>11, <1>12

-----------------------------------------------------------------------------
(* The single-thread decoder *)

\* The list of buffers without its first one.
LEMMA TailIs ==
  ASSUME NEW B \in Seq(Seq(Unit)), B # <<>>
  PROVE  /\ Tail(B) \in Seq(Seq(Unit)) /\ Len(Tail(B)) = Len(B) - 1 /\ Len(B) \in Nat \ {0}
         /\ \A i \in 1 .. Len(B) - 1 : Tail(B)[i] = B[i + 1]
BY HeadTailProperties, EmptySeq, LenProperties

\* What is left of a chain behind its first buffer.
LEMMA ChainTail ==
  ASSUME NEW B \in Seq(Seq(Unit)), NEW m \in Nat, NEW p \in Nat, NEW start \in Nat, NEW size \in Nat,
         Chain(B, m, p, start, size), m # 0
  PROVE  /\ B # <<>> /\ start \in 1 .. size
         /\ SubSeq(B[1], 1, start) = From(p + 1, start)
         /\ Chain(Tail(B), m - 1, p + start, Minimum(BufSize, size - start), size - start)
         /\ size - start # 0 => m > 1 /\ Small(B[2])
<1>1. /\ m <= Len(B) /\ Pieces(B, m, p + size) /\ Heads(B, m, p, start, size) /\ Filling(B, m)
      /\ m > 1 => p + size < B[m][1] + Len(B[m])
  BY DEF Chain
<1>2. B # <<>> /\ Len(B) \in Nat BY <1>1, EmptySeq, LenProperties
<1>3. /\ Tail(B) \in Seq(Seq(Unit)) /\ Len(Tail(B)) = Len(B) - 1
      /\ \A i \in 1 .. Len(B) - 1 : Tail(B)[i] = B[i + 1]
  BY <1>2, TailIs
<1>4. PICK T : T = Tail(B) OBVIOUS
<1>5. /\ Len(T) = Len(B) - 1 /\ \A i \in 1 .. m - 1 : T[i] = B[i + 1]
  BY <1>1, <1>2, <1>3, <1>4
<1>6. /\ B[1][1] = p + 1 /\ start \in 1 .. Len(B[1]) /\ start <= size
      /\ m = 1 => start = size
      /\ m > 1 => B[2][1] = p + start + 1
  BY <1>1 DEF Heads
<1>7. BufSize \in Nat \ {0} BY ConstantsAssumption
<1>8. \A i \in 1 .. m : B[i] # <<>> /\ B[i] = From(B[i][1], Len(B[i])) /\ B[i][1] <= p + size
                        /\ Len(B[i]) \in Nat
  <2>1. \A i \in 1 .. m : B[i] \in Seq(Unit) BY <1>1, <1>2
  <2> QED BY <1>1, <2>1, LenProperties DEF Pieces
<1>9. \A i \in 2 .. m : Len(B[i]) <= BufSize BY <1>1 DEF Filling
<1>10. \A i \in 2 .. m - 1 : Len(B[i]) = BufSize /\ B[i + 1][1] = B[i][1] + BufSize
  BY <1>1 DEF Filling
<1>11. SubSeq(B[1], 1, start) = From(p + 1, start)
  <2>1. B[1] = From(p + 1, Len(B[1])) BY <1>6, <1>8
  <2>2. start \in 0 .. Len(B[1]) /\ p + 1 \in Unit BY <1>6 DEF Unit
  <2>3. PICK n \in Nat : n = Len(B[1]) BY <1>8
  <2>4. SubSeq(From(p + 1, n), 1, start) = From(p + 1, start) BY <2>2, <2>3, FromSub
  <2> QED BY <2>1, <2>3, <2>4
<1>12. PICK rest \in Nat : rest = size - start BY <1>6
<1>13. PICK s2 : s2 = Minimum(BufSize, rest) OBVIOUS
<1>14. Pieces(T, m - 1, p + start + rest)
  <2>1. p + start + rest = p + size BY <1>6, <1>12
  <2>2. ASSUME NEW i \in 1 .. m - 1
        PROVE  T[i] # <<>> /\ T[i] = From(T[i][1], Len(T[i])) /\ T[i][1] <= p + size
    <3>1. i + 1 \in 1 .. m /\ T[i] = B[i + 1] BY <1>5
    <3>2. PICK j \in 1 .. m : j = i + 1 BY <3>1
    <3> QED BY <1>8, <3>1, <3>2
  <2> QED BY <2>1, <2>2 DEF Pieces
<1>15. Filling(T, m - 1)
  <2>1. ASSUME NEW i \in 2 .. m - 1 PROVE Len(T[i]) <= BufSize
    <3>1. i + 1 \in 2 .. m /\ i \in 1 .. m - 1 /\ T[i] = B[i + 1] BY <1>5
    <3>2. PICK j \in 2 .. m : j = i + 1 BY <3>1
    <3> QED BY <1>9, <3>1, <3>2
  <2>2. ASSUME NEW i \in 2 .. m - 1 - 1 PROVE Len(T[i]) = BufSize /\ T[i + 1][1] = T[i][1] + BufSize
    <3>1. i + 1 \in 2 .. m - 1 /\ i \in 1 .. m - 1 /\ i + 1 \in 1 .. m - 1 /\ T[i] = B[i + 1] BY <1>5
    <3>2. PICK j \in 2 .. m - 1 : j = i + 1 BY <3>1
    <3>3. T[j] = B[j + 1] BY <1>5, <3>1, <3>2
    <3> QED BY <1>10, <3>1, <3>2, <3>3
  <2> QED BY <2>1, <2>2 DEF Filling
<1>16. m - 1 > 1 => p + start + rest < T[m - 1][1] + Len(T[m - 1])
  <2> SUFFICES ASSUME m - 1 > 1 PROVE p + start + rest < T[m - 1][1] + Len(T[m - 1]) OBVIOUS
  <2>1. m - 1 \in 1 .. m - 1 /\ (m - 1) + 1 = m OBVIOUS
  <2>2. T[m - 1] = B[m] BY <1>5, <2>1
  <2>3. p + start + rest = p + size BY <1>6, <1>12
  <2>4. p + size < B[m][1] + Len(B[m]) BY <1>1
  <2> QED BY <2>2, <2>3, <2>4
<1>17. Heads(T, m - 1, p + start, s2, rest)
  <2>1. CASE m = 1
    <3>1. rest = 0 /\ s2 = 0 BY <1>6, <1>7, <1>12, <1>13, <2>1 DEF Minimum
    <3> QED BY <2>1, <3>1 DEF Heads
  <2>2. CASE m > 1
    <3>1. T[1] = B[2] /\ B[2][1] = p + start + 1 BY <1>5, <1>6, <2>2
    <3>2. p + start + 1 <= p + size BY <1>8, <2>2, <3>1
    <3>3. rest >= 1 BY <1>6, <1>12, <3>2
    <3>4. Len(B[2]) \in Nat /\ Len(B[2]) <= BufSize BY <1>8, <1>9, <2>2
    <3>5. s2 \in Nat /\ s2 >= 1 /\ s2 <= rest /\ s2 <= BufSize /\ (s2 = rest \/ s2 = BufSize)
      BY <1>7, <1>13, <3>3 DEF Minimum
    <3>6. CASE m = 2
      <4>1. rest <= Len(B[2]) BY <1>1, <1>6, <1>12, <3>1, <3>4, <3>6
      <4>2. rest <= BufSize /\ s2 = rest BY <1>7, <1>13, <3>4, <4>1 DEF Minimum
      <4> QED BY <3>1, <3>3, <3>5, <3>6, <4>1, <4>2 DEF Heads
    <3>7. CASE m > 2
      <4>1. Len(B[2]) = BufSize /\ B[3][1] = B[2][1] + BufSize /\ B[3][1] <= p + size /\ T[2] = B[3]
        BY <1>5, <1>8, <1>10, <3>7
      <4>2. BufSize + 1 <= rest BY <1>6, <1>7, <1>12, <3>1, <4>1
      <4>3. s2 = BufSize BY <1>7, <1>13, <4>2 DEF Minimum
      <4>4. s2 \in 1 .. Len(T[1]) BY <1>7, <3>1, <4>1, <4>3
      <4>5. T[2][1] = (p + start) + s2 + 1 BY <1>7, <3>1, <4>1, <4>3
      <4> QED BY <3>1, <3>5, <3>7, <4>4, <4>5 DEF Heads
    <3> QED BY <2>2, <3>6, <3>7
  <2> QED BY <2>1, <2>2
<1>18. m - 1 <= Len(T) BY <1>1, <1>2, <1>5
<1>19. Chain(T, m - 1, p + start, s2, rest) BY <1>14, <1>15, <1>16, <1>17, <1>18 DEF Chain
<1>20. start \in 1 .. size BY <1>6
<1>21. size - start # 0 => m > 1 /\ Small(B[2]) BY <1>6, <1>9 DEF Small
<1> QED BY <1>2, <1>4, <1>11, <1>12, <1>13, <1>19, <1>20, <1>21

\* A chain of some input has a first buffer.
LEMMA ChainStart ==
  ASSUME NEW B, NEW m \in Nat, NEW p \in Nat, NEW start, NEW size \in Nat, Chain(B, m, p, start, size), size # 0
  PROVE  m # 0 /\ start # 0 /\ start \in 1 .. Len(B[1])
BY DEF Chain, Heads

\* In front of the place where decoding ends.
LEMMA BeforeStop ==
  ASSUME stream \in Streams, NEW p \in Nat
  PROVE  p < StopAt <=> p < LastUnit /\ Sound(p)
<1>1. stream.bad \in Nat /\ LastUnit \in Nat BY StreamIs DEF Unit
<1> QED BY <1>1 DEF StopAt, Sound

\* What is left to show after a step of the caller that does not start the ring.
LEMMA MainDInv ==
  ASSUME IInv, DInv, Main, mpc' # "threads", DataTypes', ReaderOk', WriterOk', numFilled' <= numStarted',
         Single', Returning'
  PROVE  DInv'
<1>1. Always' BY NoBlocks, MainKeeps DEF Always
<1> QED BY <1>1 DEF DInv

\* A step that leaves the data alone.
LEMMA QuietData ==
  ASSUME IInv, DInv, Main, mpc' \in {"idle", "close", "join", "end"},
         UNCHANGED <<calls, stream, tMode, buf, coder, readerVars, writerVars, lockVars>>,
         freeIdx' \in 0 .. NumThreads, result' \in Results, chunk' \in Seq(Unit),
         Returning'
  PROVE  DInv'
<1>1. DataTypes /\ MainTypes /\ Always BY DEF DInv, DataTypes
<1>2. MainTypes' BY <1>1 DEF MainTypes
<1>3. DataTypes'
  BY <1>1, <1>2, MainDataTypes DEF DataTypes, ReaderTypes, WriterTypes, Typed, readerVars, writerVars, lockVars
<1>4. ReaderOk' /\ WriterOk' /\ numFilled' <= numStarted'
  BY <1>1 DEF Always, ReaderOk, WriterOk, readerVars, writerVars
<1>5. Single' BY DEF Single
<1> QED BY <1>3, <1>4, <1>5, MainDInv

\* The destructor, and the end of a call.
LEMMA CloseData ==
  ASSUME IInv, DInv, Return \/ Destroy \/ CloseThread \/ JoinThread \/ Destroyed
  PROVE  DInv'
<1>0. Main BY DEF Main
<1>1. /\ DataTypes /\ MainTypes /\ ReaderTypes /\ Always /\ Phases /\ ControlTypes /\ Returning
      /\ NumThreads \in Nat \ {0}
  BY ConstantsAssumption DEF IInv, DInv, DataTypes
<1>2. freeIdx \in 0 .. NumThreads /\ result \in Results /\ chunk \in Seq(Unit) BY <1>1 DEF MainTypes
<1>3. CASE Return
  <2>1. /\ mpc = "return" /\ mpc' = "idle" /\ chunk' = <<>>
        /\ result' = IF result \in {"OK", "INPUT_EOF"} /\ readRes # "OK" THEN readRes ELSE result
        /\ UNCHANGED <<calls, stream, freeIdx, tMode, buf, coder, readerVars, writerVars, lockVars>>
    BY <1>3 DEF Return
  <2>2. <<>> \in Seq(Unit) OBVIOUS
  <2>3. readRes \in {"OK", "READ"} BY <1>1 DEF ReaderTypes
  <2>4. result' \in Results BY <1>2, <2>1, <2>3 DEF Results
  <2>5. UNCHANGED <<readRes, stream, refused, out, Complete, LastUnit>>
    BY <2>1 DEF readerVars, writerVars, Complete, LastUnit
  <2>6. result' = "OK" => result = "OK" /\ readRes = "OK" BY <2>1, <2>3
  <2>7. Returning' BY <1>1, <2>1, <2>5, <2>6 DEF Returning
  <2> QED BY <1>0, <1>2, <2>1, <2>2, <2>4, <2>7, QuietData
<1>4. CASE Destroy
  <2>1. mpc' = "close" /\ freeIdx' = 1
        /\ UNCHANGED <<calls, stream, result, tMode, chunk, buf, coder, readerVars, writerVars, lockVars>>
    BY <1>4 DEF Destroy
  <2> QED BY <1>0, <1>1, <1>2, <2>1, QuietData, ReturningWaits DEF Returning
<1>5. CASE CloseThread
  <2>1. mpc' \in {"close", "join"} /\ freeIdx \in Threads /\ freeIdx' \in {freeIdx, freeIdx + 1}
        /\ UNCHANGED <<calls, stream, result, tMode, chunk, buf, coder, readerVars, writerVars, lockVars>>
    BY <1>5 DEF CloseThread
  <2>2. freeIdx' \in 0 .. NumThreads BY <1>1, <1>2, <2>1 DEF Threads
  <2> QED BY <1>0, <1>2, <2>1, <2>2, QuietData DEF Returning
<1>6. CASE JoinThread
  <2>1. mpc = "join" /\ mpc' = "close" /\ freeIdx' = freeIdx + 1
        /\ UNCHANGED <<calls, stream, result, tMode, chunk, buf, coder, readerVars, writerVars, lockVars>>
    BY <1>6 DEF JoinThread
  <2>2. freeIdx \in Threads BY <1>1, <2>1 DEF Phases, Joining
  <2>3. freeIdx' \in 0 .. NumThreads BY <1>1, <1>2, <2>1, <2>2 DEF Threads
  <2> QED BY <1>0, <1>2, <2>1, <2>3, QuietData DEF Returning
<1>7. CASE Destroyed
  <2>1. mpc' = "end"
        /\ UNCHANGED <<calls, stream, result, freeIdx, tMode, chunk, buf, coder, readerVars, writerVars, lockVars>>
    BY <1>7 DEF Destroyed
  <2> QED BY <1>0, <1>2, <2>1, QuietData DEF Returning
<1> QED BY <1>3, <1>4, <1>5, <1>6, <1>7

\* Nothing happens.
LEMMA IdleData == ASSUME DInv, UNCHANGED vars PROVE DInv'
<1>1. /\ UNCHANGED <<mainVars, pc, local, canRead, canWrite, buf, coder, exitThread, readerVars, writerVars, lockVars>>
  BY DEF vars
<1>2. DataTypes'
  BY <1>1 DEF DInv, DataTypes, MainTypes, ReaderTypes, WriterTypes, Typed, Numbered, HasBlock,
              mainVars, readerVars, writerVars, lockVars
<1>3. Always'
  BY <1>1 DEF DInv, Always, ReaderOk, WriterOk, HasBlock, mainVars, readerVars, writerVars, lockVars
<1>4. Single' /\ Returning' /\ (Flags => Flags') /\ (HandOver => HandOver')
  <2>1. UNCHANGED <<NeedContinue, Broken, Complete, LastUnit, StopAt, LeftStart, Used>>
    BY <1>1 DEF NeedContinue, Broken, Complete, LastUnit, StopAt, LeftStart, Used,
                mainVars, readerVars, writerVars, lockVars
  <2>2. \A p, B, s : (Rest(p, B, s) => Rest(p, B, s)') /\ (Left(p, B, s) => Left(p, B, s)')
    BY <1>1, <2>1 DEF Rest, Left, Sound, Chain, Pieces, Heads, Filling, mainVars, readerVars, writerVars, lockVars
  <2>3. Flags => Flags' BY <1>1, <2>1 DEF Flags, Reason, readerVars, writerVars, lockVars
  <2>4. HandOver => HandOver'
    <3>1. PICK p, B, s : p = Len(out) /\ B = buf[filledStart] /\ s = saved[filledStart].start OBVIOUS
    <3>2. p = Len(out') /\ B = buf'[filledStart'] /\ s = saved'[filledStart'].start BY <1>1, <3>1 DEF writerVars
    <3> QED BY <1>1, <2>1, <2>2, <2>3, <3>1, <3>2 DEF HandOver, mainVars, readerVars, writerVars, lockVars
  <2>5. Returning' BY <1>1, <2>1 DEF DInv, Returning, mainVars, readerVars, writerVars
  <2>6. Single'
    <3>1. Single BY DEF DInv
    <3>2. UNCHANGED <<mpc, tMode, chunk, out, readPos, numFilled, numStarted, progRes, saved, filledStart, buf,
                      stream, readRes, Sound(Len(out))>>
      BY <1>1 DEF mainVars, readerVars, writerVars, lockVars, Sound
    <3>3. PICK next : next = (IF mpc = "decode" THEN Len(out) + Len(chunk) ELSE Len(out)) OBVIOUS
    <3>4. PICK B : B = (IF Used THEN Tail(buf[filledStart]) ELSE buf[filledStart]) OBVIOUS
    <3>5. PICK s : s = LeftStart OBVIOUS
    <3>6. Left(next, B, s) => Left(next, B, s)' BY <2>2
    <3> QED BY <2>1, <2>4, <3>1, <3>2, <3>3, <3>4, <3>5, <3>6 DEF Single
  <2> QED BY <2>3, <2>4, <2>5, <2>6
<1>5. /\ Interrupts => Interrupts'
      /\ Leaving <=> Leaving'
  BY <1>1 DEF Interrupts, Broken, Leaving, Parked, mainVars, readerVars, writerVars, lockVars
<1>6. ASSUME NEW f, NEW k, NEW first, NEW pos,
             RingTypes(f, k), Numbers(f, k, first), Data(first, pos), Filled(first)
      PROVE  (RingTypes(f, k) /\ Numbers(f, k, first) /\ Data(first, pos) /\ Filled(first))'
  <2>1. RingTypes(f, k)' /\ Numbers(f, k, first)' /\ Filled(first)'
    BY <1>1, <1>6 DEF RingTypes, Ring, InRing, Working, Reader, Parked, Waits, Numbers, Filled, InHand, HasBlock,
       mainVars, readerVars, writerVars, lockVars
  <2>2. Data(first, pos)'
    <3>1. UNCHANGED <<NeedContinue, Broken, Complete, LastUnit, StopAt>>
      BY <1>1 DEF NeedContinue, Broken, Complete, LastUnit, StopAt, mainVars, readerVars, writerVars, lockVars
    <3>2. ASSUME NEW t \in Threads, NEW p, NEW b, BlockOk(t, p, b) PROVE BlockOk(t, p, b)'
      <4>1. \A n : Parsing(t, p, n) => Parsing(t, p, n)'
        BY <1>1, <3>1 DEF Parsing, FullChain, Chain, Pieces, Heads, Filling
      <4>2. (InputFrom(p) => InputFrom(p)') /\ (Facts(t, p) => Facts(t, p)') /\ (Undecoded(t) => Undecoded(t)')
        <5>1. Chained(t, p)' <=> Chained(t, p) BY <1>1 DEF Chained, Chain, Pieces, Heads, Filling
        <5>2. Facts(t, p) => Facts(t, p)' BY <1>1, <3>1, <5>1 DEF Facts, readerVars, mainVars
        <5> QED BY <1>1, <5>2 DEF InputFrom, Undecoded, readerVars
      <4>3. Fresh(t, p) => Fresh(t, p)' BY <1>1, <4>2 DEF Fresh, readerVars, mainVars
      <4>4. ReadOn(t, p) => ReadOn(t, p)' BY <1>1, <4>1 DEF ReadOn, readerVars
      <4>5. ToParse(t, p) => ToParse(t, p)' BY <1>1, <4>1 DEF ToParse, readerVars, mainVars
      <4>6. Early(t, p, b) => Early(t, p, b)' BY <1>1, <4>2 DEF Early, IsInterrupted, lockVars
      <4>7. Whole(t) => Whole(t)' BY <1>1, <3>1 DEF Whole, readerVars
      <4>8. Cursor(t, p) => Cursor(t, p)' BY <1>1 DEF Cursor, Chain, Pieces, Heads, Filling
      <4>9. Decoding(t, p, b) => Decoding(t, p, b)'
        BY <1>1, <4>2, <4>7, <4>8 DEF Decoding, IsInterrupted, Sound, AllocError, lockVars, writerVars, mainVars
      <4> QED BY <1>1, <3>1, <3>2, <4>3, <4>4, <4>5, <4>6, <4>9 DEF BlockOk
    <3>3. \A t \in Threads : (HasBlock(t)' <=> HasBlock(t)) /\ (InHand(t)' <=> InHand(t))
      BY <1>1 DEF HasBlock, InHand
    <3>4. \A t \in Threads : \A p : LastBlock(t, p) => LastBlock(t, p)'
      BY <1>1, <3>1 DEF LastBlock, readerVars
    <3>5. \A p : (Ready(p) <=> Ready(p)') /\ (InputFrom(p) => InputFrom(p)')
      BY <1>1 DEF Ready, Sound, InputFrom, readerVars, writerVars, mainVars
    <3>6. \A t \in Threads : \A p : Writing(t, p) => Writing(t, p)'
      BY <1>1, <3>1, <3>5 DEF Writing, ToStream, lockVars
    <3>7. UNCHANGED <<local, pc, blockIndex, progRes>> BY <1>1 DEF readerVars, lockVars
    <3> QED BY <1>6, <3>1, <3>2, <3>3, <3>4, <3>5, <3>6, <3>7 DEF Data
  <2> QED BY <2>1, <2>2
<1>7. UNCHANGED mpc BY <1>1 DEF mainVars
<1> QED BY <1>2, <1>3, <1>4, <1>5, <1>6, <1>7 DEF DInv

\* The threads' buffers are freed as far as nothing is left in them.
LEMMA PrepareIs ==
  ASSUME IInv, DInv, Prepare, tMode
  PROVE  /\ Rest(Len(out), buf[filledStart], saved[filledStart].start)
         /\ numFilled = 1 => saved[filledStart].size # 0 /\ saved[filledStart].start # 0
                             /\ buf'[filledStart] = buf[filledStart]
         /\ chunk = <<>> /\ filledStart \in Threads
         /\ \A t \in Threads : buf'[t] \in Seq(Seq(Unit))
<1>1. /\ HandOver /\ NeedContinue /\ progRes = "OK" /\ chunk = <<>>
      /\ DataTypes /\ WriterTypes /\ numFilled <= numStarted
      /\ buf' = [t \in Threads |-> IF Unfilled(t) THEN <<>> ELSE buf[t]]
  BY DEF DInv, Single, Prepare, DataTypes, Always
<1>2. /\ Rest(Len(out), buf[filledStart], saved[filledStart].start)
      /\ numFilled = 1 => saved[filledStart].size # 0
  BY <1>1 DEF HandOver
<1>3. filledStart \in Threads /\ Len(out) \in Nat
      /\ saved[filledStart].start \in Nat /\ saved[filledStart].size \in Nat /\ filledStart \in Nat
  BY <1>1, ThreadIsNat DEF WriterTypes
<1>4. <<>> \in Seq(Seq(Unit)) OBVIOUS
<1>5. \A t \in Threads : buf'[t] \in Seq(Seq(Unit)) BY <1>1, <1>4 DEF DataTypes, Typed
<1>6. ASSUME numFilled = 1 PROVE saved[filledStart].start # 0 /\ buf'[filledStart] = buf[filledStart]
  <2>0. (\E p \in Nat : p = Len(out)) /\ (\E n \in Nat : n = saved[filledStart].size) BY <1>3
  <2>1. PICK p \in Nat, n \in Nat : p = Len(out) /\ n = saved[filledStart].size BY <2>0
  <2>8. PICK B, s : B = buf[filledStart] /\ s = saved[filledStart].start OBVIOUS
  <2>2. filledStart < numStarted /\ \E m \in 0 .. Len(B) : Chain(B, m, p, s, n)
    BY <1>2, <1>6, <2>1, <2>8 DEF Rest, Left
  <2>3. buf[filledStart] \in Seq(Seq(Unit)) BY <1>1, <1>3 DEF DataTypes, Typed
  <2>4. Len(B) \in Nat BY <2>8, <2>3
  <2>5. s # 0 BY <1>2, <1>6, <2>1, <2>2, <2>4, ChainStart
  <2>6. numStarted \in Nat BY DEF IInv, ControlTypes
  <2>7. ~Unfilled(filledStart) BY <1>3, <1>6, <2>2, <2>6 DEF Unfilled
  <2> QED BY <1>1, <1>3, <2>8, <2>5, <2>7
<1> QED BY <1>1, <1>2, <1>3, <1>5, <1>6

\* Lzma2Dec_Prepare_ST, with or without threads before it.
LEMMA PrepareData ==
  ASSUME IInv, DInv, Prepare
  PROVE  DInv'
<1>0. Main BY DEF Main
<1>1. /\ mpc = "prepare"
      /\ UNCHANGED <<calls, stream, freeIdx, chunk, pc, local, canRead, canWrite, coder,
                 exitThread, blockIndex, numStarted, limit, readPos, readWasFinished,
                 readRes, cross, writerVars, lockVars>>
      /\ IF tMode
         THEN /\ buf' = [t \in Threads |-> IF Unfilled(t) THEN <<>> ELSE buf[t]]
              /\ crossBlock' = (crossBlock /\ cross # <<>>)
              /\ tMode' = (numFilled # 0 \/ cross # <<>>)
         ELSE UNCHANGED <<buf, crossBlock, tMode>>
      /\ (mpc' = "fetch" /\ UNCHANGED result) \/ (mpc' = "idle" /\ result' = "MEM")
  BY DEF Prepare
<1>2. DataTypes /\ MainTypes /\ ReaderTypes /\ WriterTypes /\ Always /\ Single BY DEF DInv, DataTypes
<1>3. UNCHANGED <<Broken, Complete, LastUnit, StopAt, Sound(Len(out)), readPos, refused, readRes, out, numFilled,
                  saved, filledStart, inProcessed, progRes, wasInterrupted, isAllocError, overflow, threadingError>>
  BY <1>1 DEF Broken, Complete, LastUnit, StopAt, Sound, writerVars, lockVars
<1>4. MainTypes'
  <2>1. tMode' \in BOOLEAN BY <1>1, <1>2 DEF MainTypes
  <2>2. result' \in Results BY <1>1, <1>2 DEF MainTypes, Results
  <2> QED BY <1>1, <1>2, <2>1, <2>2 DEF MainTypes
<1>5. ReaderTypes'
  <2>1. crossBlock' \in BOOLEAN BY <1>1, <1>2 DEF ReaderTypes
  <2> QED BY <1>1, <1>2, <2>1 DEF ReaderTypes
<1>6. WriterTypes' BY <1>2, <1>3 DEF WriterTypes
<1>7. DOMAIN buf' = Threads /\ \A t \in Threads : buf'[t] \in Seq(Seq(Unit))
  <2>1. CASE tMode BY <1>1, <2>1, PrepareIs
  <2>2. CASE ~tMode BY <1>1, <1>2, <2>2 DEF DataTypes, Typed
  <2> QED BY <2>1, <2>2
<1>8. progRes' \in {"OK", "PROGRESS"} BY <1>2, <1>3 DEF DataTypes
<1>9. DataTypes' BY <1>0, <1>4, <1>5, <1>6, <1>7, <1>8, MainDataTypes
<1>10. ReaderOk'
  <2>1. cross' # <<>> => crossBlock' BY <1>1, <1>2 DEF Always, ReaderOk
  <2> QED BY <1>1, <1>2, <2>1 DEF Always, ReaderOk
<1>11. WriterOk' /\ numFilled' <= numStarted' BY <1>1, <1>2, <1>3 DEF Always, WriterOk
<1>12. mpc' # "threads" /\ Returning' BY <1>1 DEF Returning
<1>13. Single'
  <2>1. CASE mpc' = "idle" BY <2>1, SingleWaits DEF Single
  <2>2. CASE mpc' = "fetch" /\ ~tMode
    <3>1. out = <<>> /\ readPos = 0 /\ Len(out) = 0 BY <1>1, <1>2, <2>2, EmptySeq DEF Single
    <3>2. 0 < LastUnit /\ Sound(Len(out)) BY <1>2, <3>1, StreamIs DEF MainTypes, Unit, Sound
    <3>3. ~tMode' /\ Len(out') = readPos' BY <1>1, <1>3, <2>2, <3>1
    <3> QED BY <1>3, <2>2, <3>1, <3>2, <3>3 DEF Single
  <2>3. CASE mpc' = "fetch" /\ tMode
    <3>1. /\ Rest(Len(out), buf[filledStart], saved[filledStart].start)
          /\ numFilled = 1 => saved[filledStart].size # 0 /\ saved[filledStart].start # 0
                              /\ buf'[filledStart] = buf[filledStart]
          /\ chunk = <<>> /\ filledStart \in Threads
      BY <2>3, PrepareIs
    <3>2. PICK p, B, s : p = Len(out) /\ B = buf[filledStart] /\ s = saved[filledStart].start OBVIOUS
    <3>3. Rest(p, B, s) BY <3>1, <3>2
    <3>4. p < LastUnit /\ Sound(p) /\ numFilled \in {0, 1} BY <3>3 DEF Rest, Left
    <3>5. ~Used' BY <1>1, <3>1 DEF Used
    <3>6. PICK C, r : C = buf'[filledStart'] /\ r = LeftStart' OBVIOUS
    <3>7. numFilled = 1 => C = B /\ r = s BY <1>3, <3>1, <3>2, <3>6 DEF LeftStart
    <3>8. Left(p, C, r)' BY <1>1, <1>3, <3>3, <3>7 DEF Rest, Left, Sound, Chain, Pieces, Heads, Filling
    <3>9. ~tMode' => p = readPos \/ p >= StopAt
      <4> SUFFICES ASSUME ~tMode' PROVE p = readPos \/ p >= StopAt OBVIOUS
      <4>1. numFilled = 0 /\ cross = <<>> BY <1>1, <2>3
      <4>2. p + 0 + Len(cross) = readPos \/ p + 0 + Len(cross) >= StopAt BY <3>3, <4>1 DEF Rest, Left
      <4>3. p \in Nat /\ Len(cross) = 0 BY <1>2, <3>2, <4>1, EmptySeq DEF WriterTypes
      <4> QED BY <4>2, <4>3
    <3> QED BY <1>1, <1>3, <2>3, <3>1, <3>2, <3>4, <3>5, <3>6, <3>8, <3>9 DEF Single
  <2>4. tMode \in BOOLEAN BY <1>2 DEF MainTypes
  <2> QED BY <1>1, <2>1, <2>2, <2>3, <2>4
<1> QED BY <1>0, <1>9, <1>10, <1>11, <1>12, <1>13, MainDInv

\* What is to be shown of every step that fetches input: the rest of Single, and the types.
LEMMA FetchDInv ==
  ASSUME IInv, DInv, Main, mpc = "fetch", mpc' \in {"fetch", "decode"}, UNCHANGED Unfetched,
         MainTypes', ReaderTypes', WriterTypes', \A t \in Threads : buf'[t] \in Seq(Seq(Unit)), DOMAIN buf' = Threads,
         ReaderOk', numFilled' <= numStarted', Single'
  PROVE  DInv'
<1>1. DataTypes /\ Always BY DEF DInv
<1>2. progRes' \in {"OK", "PROGRESS"} BY <1>1 DEF DataTypes, Unfetched, lockVars
<1>3. WriterOk' BY <1>1 DEF Always, WriterOk, Unfetched
<1>4. Returning' BY DEF Returning
<1> QED BY <1>2, <1>3, <1>4, MainDataTypes, MainDInv

\* The state in which input is fetched.
LEMMA FetchState ==
  ASSUME IInv, DInv, mpc = "fetch"
  PROVE  /\ Len(out) \in Nat /\ Len(out) < LastUnit /\ Sound(Len(out)) /\ Len(out) < StopAt
         /\ stream \in Streams /\ stream.size \in Nat /\ StopAt \in Nat
         /\ readPos \in Nat /\ readPos <= stream.size /\ numFilled \in Nat /\ filledStart \in Threads
         /\ numFilled <= numStarted
         /\ cross \in Seq(Unit) /\ buf[filledStart] \in Seq(Seq(Unit))
         /\ saved[filledStart].start \in Nat /\ saved[filledStart].size \in Nat
<1>1. DataTypes /\ MainTypes /\ ReaderTypes /\ WriterTypes /\ Always /\ Single BY DEF DInv, DataTypes
<1>2. Len(out) \in Nat /\ filledStart \in Threads /\ numFilled \in Nat BY <1>1 DEF WriterTypes
<1>3. Len(out) < LastUnit /\ Sound(Len(out)) BY <1>1 DEF Single
<1>4. stream \in Streams BY <1>1 DEF MainTypes
<1>5. PICK p \in Nat : p = Len(out) BY <1>2
<1>6. p < StopAt BY <1>3, <1>4, <1>5, BeforeStop
<1>7. stream.size \in Nat /\ StopAt \in Nat BY <1>4, StreamIs DEF Unit
<1>8. saved[filledStart].start \in Nat /\ saved[filledStart].size \in Nat BY <1>1, <1>2 DEF WriterTypes
<1>9. buf[filledStart] \in Seq(Seq(Unit)) BY <1>1, <1>2 DEF DataTypes, Typed
<1>10. readPos \in Nat /\ readPos <= stream.size /\ numFilled <= numStarted /\ cross \in Seq(Unit)
  BY <1>1 DEF ReaderTypes, Always, ReaderOk
<1> QED BY <1>2, <1>3, <1>4, <1>5, <1>6, <1>7, <1>8, <1>9, <1>10

\* The first buffer of the filled thread is freed when it was used up.
LEMMA FreedTypes ==
  ASSUME IInv, DInv, mpc = "fetch", tMode
  PROVE  /\ DOMAIN FreedBuf = Threads /\ \A t \in Threads : FreedBuf[t] \in Seq(Seq(Unit))
         /\ Used => numFilled = 1 /\ buf[filledStart] # <<>> /\ saved[filledStart].start = 0
         /\ ~ThreadEmpty => FreedBuf[filledStart] =
                               IF Used THEN Tail(buf[filledStart]) ELSE buf[filledStart]
         /\ Left(Len(out), IF Used THEN Tail(buf[filledStart]) ELSE buf[filledStart], LeftStart)
         /\ numFilled = 1 /\ ~Used => saved[filledStart].size # 0 /\ saved[filledStart].start # 0
         /\ numFilled \in {0, 1}
<1>1. DataTypes /\ Single BY DEF DInv
<1>2. Len(out) < StopAt /\ filledStart \in Threads /\ buf[filledStart] \in Seq(Seq(Unit)) BY FetchState
<1>3. /\ Left(Len(out), IF Used THEN Tail(buf[filledStart]) ELSE buf[filledStart], LeftStart)
      /\ numFilled = 1 => IF Used THEN saved[filledStart].start = 0 /\ buf[filledStart] # <<>>
                          ELSE saved[filledStart].size # 0 /\ saved[filledStart].start # 0
  <2>1. PICK p, B, n : /\ p = Len(out) /\ n = LeftStart
                       /\ B = (IF Used THEN Tail(buf[filledStart]) ELSE buf[filledStart])
    OBVIOUS
  <2>2. /\ Left(p, B, n)
        /\ numFilled = 1 => IF Used THEN /\ saved[filledStart].start = 0 /\ buf[filledStart] # <<>>
                                         /\ saved[filledStart].size # 0 => Small(buf[filledStart][2])
                            ELSE saved[filledStart].size # 0 /\ saved[filledStart].start # 0
    BY <1>1, <2>1 DEF Single
  <2> QED BY <2>1, <2>2
<1>4. numFilled \in {0, 1} BY <1>3 DEF Rest, Left
<1>5. Used => numFilled = 1 BY <1>4 DEF Used
<1>6. Used => Tail(buf[filledStart]) \in Seq(Seq(Unit)) BY <1>2, <1>3, <1>5, TailIs
<1>7. DOMAIN buf = Threads /\ \A t \in Threads : buf[t] \in Seq(Seq(Unit)) BY <1>1 DEF DataTypes, Typed
<1>8. DOMAIN FreedBuf = Threads BY <1>7 DEF FreedBuf
<1>9. <<>> \in Seq(Seq(Unit)) OBVIOUS
<1>10. \A t \in Threads : FreedBuf[t] \in Seq(Seq(Unit)) BY <1>6, <1>7, <1>9 DEF FreedBuf
<1>11. ~ThreadEmpty => FreedBuf[filledStart] = IF Used THEN Tail(buf[filledStart]) ELSE buf[filledStart]
  BY <1>2, <1>7 DEF FreedBuf, ThreadEmpty
<1> QED BY <1>3, <1>4, <1>5, <1>8, <1>10, <1>11

\* The single-thread decoder reads the stream itself.
LEMMA FetchStreamData ==
  ASSUME IInv, DInv, FetchStream
  PROVE  DInv'
<1>0. Main BY DEF Main
<1> DEFINE most == Minimum(BufSize, stream.size - readPos)
<1>1. /\ mpc = "fetch" /\ ~tMode /\ mpc' = "decode"
      /\ UNCHANGED <<tMode, buf, saved, filledStart, numFilled, crossBlock, cross, Unfetched>>
      /\ IF readWasFinished
         THEN chunk' = <<>> /\ UNCHANGED <<readPos, readWasFinished, readRes>>
         ELSE \E n \in 0 .. most :
                /\ chunk' = From(readPos + 1, n)
                /\ readPos' = readPos + n
                /\ readRes' \in IF May("read") THEN {"OK", "READ"} ELSE {"OK"}
                /\ n # 0 \/ most = 0 \/ readRes' # "OK"
                /\ readWasFinished' = (n = 0 \/ readRes' # "OK")
  BY DEF FetchStream
<1>2. DataTypes /\ MainTypes /\ ReaderTypes /\ WriterTypes /\ Always /\ Single BY DEF DInv, DataTypes
<1>3. /\ Len(out) \in Nat /\ Len(out) < LastUnit /\ Sound(Len(out)) /\ Len(out) < StopAt
      /\ stream.size \in Nat /\ readPos \in Nat /\ readPos <= stream.size /\ BufSize \in Nat \ {0} /\ StopAt \in Nat
  BY <1>1, FetchState, ConstantsAssumption
<1>4. UNCHANGED <<stream, out, LastUnit, StopAt, Sound(Len(out)), calls, result, freeIdx, numStarted, inProcessed, refused,
                  wasInterrupted, isAllocError, overflow, threadingError>>
  BY <1>1 DEF Unfetched, LastUnit, StopAt, Sound
<1>5. Len(out) = readPos BY <1>1, <1>2, <1>3 DEF Single
<1>6. /\ chunk' \in Seq(Unit) /\ chunk' = From(readPos + 1, Len(chunk'))
      /\ readPos' = readPos + Len(chunk') /\ readPos' \in Nat /\ readPos' <= stream.size
      /\ readRes' \in {"OK", "READ"}
      /\ readWasFinished' => readPos' = stream.size \/ readRes' # "OK"
      /\ chunk' = <<>> => readPos' >= stream.size \/ readRes' # "OK"
  <2>1. CASE readWasFinished
    <3>1. chunk' = <<>> /\ UNCHANGED <<readPos, readWasFinished, readRes>> BY <1>1, <2>1
    <3>2. From(readPos + 1, 0) = <<>> /\ Len(<<>>) = 0 /\ <<>> \in Seq(Unit) BY <1>3, FromZero
    <3>3. readPos = stream.size \/ readRes # "OK" BY <1>2, <2>1 DEF Always, ReaderOk
    <3>4. readRes \in {"OK", "READ"} BY <1>2 DEF ReaderTypes
    <3> QED BY <1>3, <3>1, <3>2, <3>3, <3>4
  <2>2. CASE ~readWasFinished
    <3>1. PICK n \in 0 .. most :
                /\ chunk' = From(readPos + 1, n)
                /\ readPos' = readPos + n
                /\ readRes' \in IF May("read") THEN {"OK", "READ"} ELSE {"OK"}
                /\ n # 0 \/ most = 0 \/ readRes' # "OK"
                /\ readWasFinished' = (n = 0 \/ readRes' # "OK")
      BY <1>1, <2>2
    <3>2. most \in Nat /\ most <= stream.size - readPos /\ (most = 0 => readPos = stream.size)
      BY <1>3 DEF Minimum
    <3>3. n \in Nat /\ n <= most /\ (n = 0 => most = 0 \/ readRes' # "OK") BY <3>1, <3>2
    <3> HIDE DEF most
    <3>4. readPos + 1 \in Unit BY <1>3 DEF Unit
    <3>5. PICK q \in Unit : q = readPos + 1 BY <3>4
    <3>6. From(q, n) \in Seq(Unit) /\ Len(From(q, n)) = n BY <3>3, FromIs
    <3>7. Len(chunk') = n /\ chunk' \in Seq(Unit) BY <3>1, <3>5, <3>6
    <3>8. readRes' \in {"OK", "READ"} BY <3>1
    <3>9. readPos' \in Nat /\ readPos' <= stream.size BY <1>3, <3>1, <3>2, <3>3
    <3>10. n = 0 => readPos' = stream.size \/ readRes' # "OK" BY <1>3, <3>1, <3>2, <3>3
    <3>11. chunk' = <<>> => n = 0 BY <3>7
    <3> QED BY <1>3, <3>1, <3>7, <3>8, <3>9, <3>10, <3>11
  <2>3. readWasFinished \in BOOLEAN \/ ~readWasFinished \/ readWasFinished OBVIOUS
  <2> QED BY <2>1, <2>2
<1>7. MainTypes' BY <1>1, <1>2, <1>4, <1>6 DEF MainTypes
<1>8. ReaderTypes' BY <1>1, <1>2, <1>6 DEF ReaderTypes
<1>9. WriterTypes' BY <1>1, <1>2, <1>4 DEF WriterTypes
<1>10. DOMAIN buf' = Threads /\ \A t \in Threads : buf'[t] \in Seq(Seq(Unit)) BY <1>1, <1>2 DEF DataTypes, Typed
<1>11. ReaderOk' BY <1>1, <1>2, <1>4, <1>6 DEF Always, ReaderOk
<1>12. numFilled' <= numStarted' BY <1>1, <1>2, <1>4 DEF Always
<1>13. Single'
  <2>1. Len(out') + Len(chunk') = readPos' BY <1>4, <1>5, <1>6
  <2>2. chunk' = From(Len(out') + 1, Len(chunk')) BY <1>4, <1>5, <1>6
  <2> QED BY <1>1, <1>3, <1>4, <1>6, <2>1, <2>2 DEF Single
<1>14. UNCHANGED Unfetched BY <1>1
<1> QED BY <1>0, <1>1, <1>7, <1>8, <1>9, <1>10, <1>11, <1>12, <1>13, <1>14, FetchDInv

\* The state of the output while input is fetched, and what a fetch leaves of it.
LEMMA FetchKeeps ==
  ASSUME UNCHANGED Unfetched
  PROVE  UNCHANGED <<stream, out, LastUnit, StopAt, Sound(Len(out)), calls, result, freeIdx, numStarted, inProcessed,
                     refused, wasInterrupted, isAllocError, overflow, threadingError>>
BY DEF Unfetched, LastUnit, StopAt, Sound

\* No more input is left in the threads.
LEMMA NothingFilled ==
  ASSUME IInv, DInv, mpc = "fetch", tMode, LastThread
  PROVE  /\ cross = From(Len(out) + 1, Len(cross))
         /\ Len(out) + Len(cross) = readPos \/ Len(out) + Len(cross) >= StopAt
<1>1. PICK B, s : Left(Len(out), B, s) BY FreedTypes
<1>2. Len(out) \in Nat BY FetchState
<1>3. (IF numFilled = 0 THEN 0 ELSE saved[filledStart].size) = 0 BY DEF LastThread, ThreadEmpty
<1>4. PICK p \in Nat : p = Len(out) BY <1>2
<1>5. Left(p, B, s) /\ p + 0 = p BY <1>1, <1>4
<1> QED BY <1>3, <1>4, <1>5 DEF Left

\* The next input is the cross block.
LEMMA FetchCrossData ==
  ASSUME IInv, DInv, FetchCross
  PROVE  DInv'
<1>0. Main BY DEF Main
<1>1. /\ mpc = "fetch" /\ tMode /\ LastThread /\ cross # <<>>
      /\ buf' = FreedBuf /\ numFilled' = 0 /\ chunk' = cross /\ cross' = <<>> /\ mpc' = "decode"
      /\ UNCHANGED <<tMode, filledStart, saved, readPos, readWasFinished, readRes, crossBlock, Unfetched>>
  BY DEF FetchCross
<1>2. DataTypes /\ MainTypes /\ ReaderTypes /\ WriterTypes /\ Always BY DEF DInv, DataTypes
<1>3. /\ Len(out) \in Nat /\ Len(out) < LastUnit /\ Sound(Len(out)) /\ stream \in Streams /\ cross \in Seq(Unit)
      /\ numStarted \in Nat
  BY <1>1, FetchState DEF IInv, ControlTypes
<1>4. UNCHANGED <<stream, out, LastUnit, StopAt, Sound(Len(out)), calls, result, freeIdx, numStarted, inProcessed,
                  refused, wasInterrupted, isAllocError, overflow, threadingError>>
  BY <1>1, FetchKeeps
<1>5. /\ cross = From(Len(out) + 1, Len(cross))
      /\ Len(out) + Len(cross) = readPos \/ Len(out) + Len(cross) >= StopAt
  BY <1>1, NothingFilled
<1>6. <<>> \in Seq(Unit) /\ Len(<<>>) = 0 OBVIOUS
<1>7. MainTypes' BY <1>1, <1>2, <1>3, <1>4 DEF MainTypes
<1>8. ReaderTypes' BY <1>1, <1>2, <1>6 DEF ReaderTypes
<1>9. WriterTypes' BY <1>1, <1>2, <1>4 DEF WriterTypes
<1>10. DOMAIN buf' = Threads /\ \A t \in Threads : buf'[t] \in Seq(Seq(Unit)) BY <1>1, FreedTypes
<1>11. ReaderOk' BY <1>1, <1>2, <1>4 DEF Always, ReaderOk
<1>12. numFilled' <= numStarted' BY <1>1, <1>3, <1>4
<1>13. Single'
  <2>1. PICK p \in Nat, n \in Nat : p = Len(out) /\ n = p + Len(cross) BY <1>3
  <2>2. From(n + 1, 0) = <<>> BY FromZero
  <2>4. PICK B, s : B = (IF Used THEN Tail(buf[filledStart]) ELSE buf[filledStart])' /\ s = LeftStart' OBVIOUS
  <2>5. Left(n, B, s)'
    <3>2. n + 0 = n /\ (n = readPos' \/ n >= StopAt') BY <1>1, <1>4, <1>5, <2>1
    <3> QED BY <1>1, <1>6, <2>2, <3>2 DEF Left
  <2>6. Len(out') + Len(chunk') = n BY <1>1, <1>4, <2>1
  <2>7. chunk' = From(Len(out') + 1, Len(chunk')) /\ chunk' # <<>> BY <1>1, <1>4, <1>5
  <2>8. numFilled' # 1 BY <1>1
  <2> QED BY <1>1, <1>3, <1>4, <2>4, <2>5, <2>6, <2>7, <2>8 DEF Single
<1>14. UNCHANGED Unfetched BY <1>1
<1> QED BY <1>0, <1>1, <1>7, <1>8, <1>9, <1>10, <1>11, <1>12, <1>13, <1>14, FetchDInv

\* The threads have nothing more.
LEMMA FetchNothingData ==
  ASSUME IInv, DInv, FetchNothing
  PROVE  DInv'
<1>0. Main BY DEF Main
<1>1. /\ mpc = "fetch" /\ tMode /\ LastThread /\ cross = <<>>
      /\ buf' = FreedBuf /\ numFilled' = 0 /\ tMode' = FALSE /\ crossBlock' = FALSE /\ chunk' = <<>>
      /\ UNCHANGED <<mpc, filledStart, saved, readPos, readWasFinished, readRes, cross, Unfetched>>
  BY DEF FetchNothing
<1>2. DataTypes /\ MainTypes /\ ReaderTypes /\ WriterTypes /\ Always BY DEF DInv, DataTypes
<1>3. /\ Len(out) \in Nat /\ Len(out) < LastUnit /\ Sound(Len(out)) /\ numStarted \in Nat
  BY <1>1, FetchState DEF IInv, ControlTypes
<1>4. UNCHANGED <<stream, out, LastUnit, StopAt, Sound(Len(out)), calls, result, freeIdx, numStarted, inProcessed,
                  refused, wasInterrupted, isAllocError, overflow, threadingError>>
  BY <1>1, FetchKeeps
<1>5. <<>> \in Seq(Unit) /\ Len(<<>>) = 0 OBVIOUS
<1>6. Len(out) = readPos \/ Len(out) >= StopAt
  <2>1. Len(out) + Len(cross) = readPos \/ Len(out) + Len(cross) >= StopAt BY <1>1, NothingFilled
  <2> QED BY <1>1, <1>3, <1>5, <2>1
<1>7. MainTypes' BY <1>1, <1>2, <1>4, <1>5 DEF MainTypes
<1>8. ReaderTypes' BY <1>1, <1>2 DEF ReaderTypes
<1>9. WriterTypes' BY <1>1, <1>2, <1>4 DEF WriterTypes
<1>10. DOMAIN buf' = Threads /\ \A t \in Threads : buf'[t] \in Seq(Seq(Unit)) BY <1>1, FreedTypes
<1>11. ReaderOk' BY <1>1, <1>2, <1>4 DEF Always, ReaderOk
<1>12. numFilled' <= numStarted' BY <1>1, <1>3, <1>4
<1>13. Single' BY <1>1, <1>3, <1>4, <1>6 DEF Single
<1>14. UNCHANGED Unfetched BY <1>1
<1> QED BY <1>0, <1>1, <1>7, <1>8, <1>9, <1>10, <1>11, <1>12, <1>13, <1>14, FetchDInv

\* The next input is in a buffer of the filled thread.
LEMMA FetchFilledIs ==
  ASSUME IInv, DInv, FetchFilled
  PROVE  LET p == Len(out)
             n == LeftStart
             B == FreedBuf[filledStart]
             size == saved[filledStart].size
         IN  /\ numFilled = 1 /\ ~ThreadEmpty /\ NextFilled = filledStart /\ filledStart < numStarted
             /\ B \in Seq(Seq(Unit)) /\ B # <<>>
             /\ n \in 1 .. size /\ SubSeq(B[1], 1, n) = From(p + 1, n)
             /\ \E m \in 0 .. Len(Tail(B)) : Chain(Tail(B), m, p + n, Minimum(BufSize, size - n), size - n)
             /\ size - n # 0 => Small(B[2])
             /\ cross = From(p + size + 1, Len(cross))
             /\ p + size + Len(cross) = readPos \/ p + size + Len(cross) >= StopAt
<1>1. mpc = "fetch" /\ tMode /\ ~LastThread BY DEF FetchFilled
<1>2. numFilled = 1 /\ ~ThreadEmpty BY <1>1, FreedTypes DEF LastThread
<1>3. NextFilled = filledStart BY <1>2 DEF NextFilled
<1>4. saved[filledStart].size # 0 BY <1>1, <1>2, FreedTypes DEF ThreadEmpty
<1>5. PICK B : B = FreedBuf[filledStart] OBVIOUS
<1>6. B \in Seq(Seq(Unit)) /\ Left(Len(out), B, LeftStart) BY <1>1, <1>2, <1>5, FetchState, FreedTypes
<1>7. Len(out) \in Nat /\ saved[filledStart].size \in Nat /\ saved[filledStart].start \in Nat BY <1>1, FetchState
<1>8. LeftStart \in Nat BY <1>7, ConstantsAssumption DEF LeftStart, Minimum
<1>9. PICK p \in Nat, n \in Nat, size \in Nat : p = Len(out) /\ n = LeftStart /\ size = saved[filledStart].size
  BY <1>7, <1>8
<1>10. /\ filledStart < numStarted /\ \E m \in 0 .. Len(B) : Chain(B, m, p, n, size)
       /\ cross = From(p + size + 1, Len(cross))
       /\ p + size + Len(cross) = readPos \/ p + size + Len(cross) >= StopAt
  BY <1>2, <1>6, <1>9 DEF Left
<1>11. Len(B) \in Nat BY <1>6
<1>12. PICK m \in 0 .. Len(B) : Chain(B, m, p, n, size) BY <1>10
<1>13. m \in Nat /\ m # 0 BY <1>4, <1>9, <1>11, <1>12, ChainStart
<1>14. /\ B # <<>> /\ n \in 1 .. size /\ SubSeq(B[1], 1, n) = From(p + 1, n)
       /\ Chain(Tail(B), m - 1, p + n, Minimum(BufSize, size - n), size - n)
       /\ size - n # 0 => Small(B[2])
  BY <1>6, <1>12, <1>13, ChainTail
<1>15. m - 1 \in 0 .. Len(Tail(B)) BY <1>6, <1>11, <1>12, <1>13, <1>14, TailIs
<1> QED BY <1>2, <1>3, <1>5, <1>6, <1>9, <1>10, <1>14, <1>15

\* The single-thread decoder takes its input from the buffers of the filled thread.
LEMMA FetchFilledData ==
  ASSUME IInv, DInv, FetchFilled
  PROVE  DInv'
<1>0. Main BY DEF Main
<1>1. /\ mpc = "fetch" /\ tMode /\ mpc' = "decode"
      /\ UNCHANGED <<tMode, readPos, readWasFinished, readRes, crossBlock, cross, Unfetched>>
  BY DEF FetchFilled
<1>2. DataTypes /\ MainTypes /\ ReaderTypes /\ WriterTypes /\ Always BY DEF DInv, DataTypes
<1>3. /\ Len(out) \in Nat /\ Len(out) < LastUnit /\ Sound(Len(out)) /\ stream \in Streams /\ cross \in Seq(Unit)
      /\ numStarted \in Nat /\ filledStart \in Threads /\ saved[filledStart].size \in Nat
      /\ numFilled <= numStarted /\ BufSize \in Nat \ {0}
  BY <1>1, FetchState, ConstantsAssumption DEF IInv, ControlTypes
<1>4. UNCHANGED <<stream, out, LastUnit, StopAt, Sound(Len(out)), calls, result, freeIdx, numStarted, inProcessed,
                  refused, wasInterrupted, isAllocError, overflow, threadingError>>
  BY <1>1, FetchKeeps
<1>5. PICK p, n, B, size : p = Len(out) /\ n = LeftStart /\ B = FreedBuf[filledStart] /\ size = saved[filledStart].size
  OBVIOUS
<1>6. /\ numFilled = 1 /\ ~ThreadEmpty /\ NextFilled = filledStart /\ filledStart < numStarted
      /\ B \in Seq(Seq(Unit)) /\ B # <<>>
      /\ n \in 1 .. size /\ SubSeq(B[1], 1, n) = From(p + 1, n)
      /\ \E m \in 0 .. Len(Tail(B)) : Chain(Tail(B), m, p + n, Minimum(BufSize, size - n), size - n)
      /\ size - n # 0 => Small(B[2])
      /\ cross = From(p + size + 1, Len(cross))
      /\ p + size + Len(cross) = readPos \/ p + size + Len(cross) >= StopAt
  BY <1>5, FetchFilledIs
<1>7. /\ buf' = FreedBuf /\ numFilled' = 1 /\ filledStart' = filledStart
      /\ saved' = [saved EXCEPT ![filledStart] = [start |-> 0, size |-> size - n]]
      /\ chunk' = From(p + 1, n)
  BY <1>3, <1>5, <1>6 DEF FetchFilled, LeftStart
<1>8. n \in Nat /\ n # 0 /\ size \in Nat /\ p \in Nat /\ size - n \in Nat
  <2>1. p \in Nat /\ size \in Nat BY <1>3, <1>5
  <2>2. n \in 1 .. size BY <1>6
  <2> QED BY <2>1, <2>2
<1>9. chunk' \in Seq(Unit) /\ Len(chunk') = n /\ chunk' # <<>>
  <2>1. p + 1 \in Unit BY <1>8 DEF Unit
  <2>2. chunk' \in Seq(Unit) /\ Len(chunk') = n BY <1>7, <1>8, <2>1, FromIs
  <2> QED BY <1>8, <2>2
<1>10. saved' \in [Threads -> [start : Nat, size : Nat]] /\ saved'[filledStart] = [start |-> 0, size |-> size - n]
  <2>1. saved \in [Threads -> [start : Nat, size : Nat]] BY <1>2 DEF WriterTypes
  <2>2. [start |-> 0, size |-> size - n] \in [start : Nat, size : Nat] BY <1>8
  <2> QED BY <1>3, <1>7, <2>1, <2>2
<1>11. MainTypes' BY <1>1, <1>2, <1>4, <1>9 DEF MainTypes
<1>12. ReaderTypes' BY <1>1, <1>2 DEF ReaderTypes
<1>13. WriterTypes' BY <1>2, <1>4, <1>7, <1>10 DEF WriterTypes
<1>14. DOMAIN buf' = Threads /\ \A t \in Threads : buf'[t] \in Seq(Seq(Unit)) BY <1>1, <1>7, FreedTypes
<1>15. ReaderOk' BY <1>1, <1>2, <1>4 DEF Always, ReaderOk
<1>16. numFilled' <= numStarted' BY <1>3, <1>4, <1>6, <1>7
<1>17. Single'
  <2>1. Used' BY <1>7, <1>9 DEF Used
  <2>2. LeftStart' = Minimum(BufSize, size - n) BY <1>7, <1>10 DEF LeftStart
  <2>3. buf'[filledStart'] = B /\ saved'[filledStart'].start = 0 /\ saved'[filledStart'].size = size - n
    BY <1>5, <1>7, <1>10
  <2>8. saved'[filledStart'].size # 0 => Small(buf[filledStart][2])'
    <3>1. size - n # 0 => Len(B[2]) <= BufSize BY <1>6 DEF Small
    <3> QED BY <2>3, <3>1 DEF Small
  <2>4. PICK q, s : q \in Nat /\ q = p + n /\ s = Minimum(BufSize, size - n) BY <1>8
  <2>5. Left(q, Tail(B), s)'
    <3>3. q + (size - n) = p + size BY <1>8, <2>4
    <3>4. (IF numFilled' = 0 THEN 0 ELSE saved'[filledStart'].size) = size - n BY <1>7, <1>10
    <3>5. \E m \in 0 .. Len(Tail(B)) : Chain(Tail(B), m, q, s, size - n) BY <1>6, <2>4
    <3>6. cross' = From(q + (size - n) + 1, Len(cross')) BY <1>1, <1>6, <3>3
    <3>7. q + (size - n) + Len(cross') = readPos' \/ q + (size - n) + Len(cross') >= StopAt' BY <1>1, <1>4, <1>6, <3>3
    <3> QED BY <1>4, <1>6, <1>7, <3>4, <3>5, <3>6, <3>7 DEF Left
  <2>6. Len(out') + Len(chunk') = q BY <1>4, <1>5, <1>9, <2>4
  <2>7. chunk' = From(Len(out') + 1, Len(chunk')) BY <1>4, <1>5, <1>7, <1>9
  <2> QED BY <1>1, <1>3, <1>4, <1>6, <1>9, <2>1, <2>2, <2>3, <2>4, <2>5, <2>6, <2>7, <2>8 DEF Single
<1>18. UNCHANGED Unfetched BY <1>1
<1> QED BY <1>0, <1>1, <1>11, <1>12, <1>13, <1>14, <1>15, <1>16, <1>17, <1>18, FetchDInv

\* What a round makes of the units own.
RoundData(own) == Decoded(own, Len(own), FALSE)

\* The answer of a round that decodes d of the units own.
RoundResult(own, d) ==
  IF d.res # "OK" THEN d.res
  ELSE IF LastUnit \in {own[i] : i \in DOMAIN own} THEN "OK"
  ELSE IF own = <<>> THEN NoMoreInput ELSE "more"

\* The first g of the n units behind p are decoded.
Rounds(own, d, res, p, n) ==
  \E g \in 0 .. n :
    /\ d.data = From(p + 1, g)
    /\ res \in {"OK", "DATA", "INPUT_EOF", "more"}
    /\ res = "OK" => p + g = LastUnit
    /\ res = "more" => g = n /\ p + g < LastUnit /\ Sound(p + g)
    /\ res = "DATA" => stream.bad # 0
    /\ res = "INPUT_EOF" => n = 0

\* What one round of the single-thread decoder makes of the n units behind p.
LEMMA RoundIs ==
  ASSUME stream \in Streams, NEW p \in Nat, NEW n \in Nat, p < LastUnit, Sound(p),
         NEW own, own = Before(From(p + 1, n), LastUnit + 1),
         NEW d, d = RoundData(own),
         NEW res, res = RoundResult(own, d)
  PROVE  Rounds(own, d, res, p, n)
<1>1. LastUnit \in Nat /\ LastUnit + 1 \in Nat BY StreamIs DEF Unit
<1>2. PICK room \in 0 .. n : room = Minimum(n, LastUnit - p)
  <2>1. Minimum(n, LastUnit - p) \in 0 .. n BY <1>1 DEF Minimum
  <2> QED BY <2>1
<1>4. room \in Nat /\ p + 1 \in Unit BY DEF Unit
<1>5. own = From(p + 1, room)
  <2>1. PICK a \in Unit, u \in Nat : a = p + 1 /\ u = LastUnit + 1 BY <1>1, <1>4
  <2>2. Before(From(a, n), u) = From(a, IF u <= a THEN 0 ELSE Minimum(n, u - a))
    <3>1. a = p + 1 BY <2>1
    <3>2. \A q \in Nat, w \in Nat : Before(From(q + 1, n), w)
                  = From(q + 1, IF w <= q + 1 THEN 0 ELSE Minimum(n, w - (q + 1)))
      BY FromBefore
    <3> QED BY <3>1, <3>2
  <2>3. ~(u <= a) /\ u - a = LastUnit - p BY <1>1, <2>1
  <2> QED BY <1>2, <2>1, <2>2, <2>3
<1>6. own \in Seq(Unit) /\ Len(own) = room /\ (own = <<>> <=> room = 0)
      /\ \A i \in 1 .. room : own[i] = p + 1 + i - 1
  <2>1. PICK a \in Unit : a = p + 1 BY <1>4
  <2> QED BY <1>4, <1>5, <2>1, FromIs
<1>9. Yields(d, p, room, room, FALSE)
  <2>1. room \in 0 .. room BY <1>4
  <2>2. Yields(Decoded(From(p + 1, room), room, FALSE), p, room, room, FALSE) BY <1>4, <2>1, DecodedIs
  <2> QED BY <1>5, <1>6, <2>2 DEF RoundData
<1>10. PICK g \in 0 .. room :
         /\ d.data = From(p + 1, g)
         /\ g < room => d.dec = "DATA" /\ d.res = "DATA" /\ stream.bad # 0
         /\ g = room => d.dec = "OK" /\ d.res \in {"OK", "FAIL"} /\ (d.res = "FAIL" => room < room)
         /\ g = 0 \/ Sound(p + g)
  BY <1>9 DEF Yields
<1>11. g \in 0 .. n /\ g \in Nat BY <1>2, <1>4
<1>12. CASE g < room
  <2>1. res = "DATA" /\ stream.bad # 0 BY <1>10, <1>12 DEF RoundResult
  <2> QED BY <1>10, <1>11, <2>1 DEF Rounds
<1>13. CASE g = room
  <2>1. d.res = "OK" BY <1>4, <1>10, <1>13
  <2>2. LastUnit \in {own[i] : i \in DOMAIN own} <=> p + room = LastUnit
    <3>1. DOMAIN own = 1 .. room BY <1>6
    <3>2. \A i \in 1 .. room : own[i] = p + i BY <1>6
    <3>3. p + room <= LastUnit BY <1>1, <1>2 DEF Minimum
    <3>4. p + room = LastUnit => room \in 1 .. room BY <1>1, <1>4
    <3>5. \A i \in 1 .. room : p + i = LastUnit => i = room BY <1>1, <1>4, <3>3
    <3> QED BY <3>1, <3>2, <3>4, <3>5
  <2>3. res = (IF p + room = LastUnit THEN "OK" ELSE IF room = 0 THEN "INPUT_EOF" ELSE "more")
    BY <1>6, <2>1, <2>2 DEF NoMoreInput, RoundResult
  <2>4. p + room # LastUnit => room = n /\ p + n < LastUnit BY <1>1, <1>2 DEF Minimum
  <2>5. res = "more" => g = n /\ p + g < LastUnit /\ Sound(p + g)
    BY <1>10, <1>11, <1>13, <2>3, <2>4
  <2>6. res = "OK" => p + g = LastUnit BY <1>13, <2>3
  <2>7. res \in {"OK", "DATA", "INPUT_EOF", "more"} BY <2>3
  <2>8. res = "DATA" => stream.bad # 0 BY <2>3
  <2>9. res = "INPUT_EOF" => n = 0 BY <1>1, <1>2, <2>3 DEF Minimum
  <2> QED BY <1>10, <1>11, <2>5, <2>6, <2>7, <2>8, <2>9 DEF Rounds
<1>14. g < room \/ g = room BY <1>4, <1>11
<1> QED BY <1>12, <1>13, <1>14

\* The output after one round.
LEMMA DecodeChunkIs ==
  ASSUME IInv, DInv, DecodeChunk
  PROVE  \E g, k \in Nat :
           /\ out' = out \o From(Len(out) + 1, k) /\ inProcessed' = inProcessed + g
           /\ (k = g /\ refused' = refused) \/ refused'
           /\ mpc' \in {"fetch", "return"} /\ result' \in Results /\ refused' \in BOOLEAN
           /\ result' = "OK" => Len(out) + k = LastUnit
           /\ mpc' = "fetch" => k = Len(chunk) /\ Len(out) + k < LastUnit /\ Sound(Len(out) + k)
<1>1. DataTypes /\ MainTypes /\ WriterTypes /\ Single /\ mpc = "decode" BY DEF DInv, DataTypes, DecodeChunk
<1>2. /\ stream \in Streams /\ chunk \in Seq(Unit) /\ Len(out) \in Nat /\ refused \in BOOLEAN
  BY <1>1 DEF MainTypes, WriterTypes
<1>3. Len(out) < LastUnit /\ Sound(Len(out)) /\ chunk = From(Len(out) + 1, Len(chunk)) BY <1>1 DEF Single
<1>4. PICK p \in Nat, n \in Nat : p = Len(out) /\ n = Len(chunk) BY <1>2
<1>5. PICK own : own = Before(chunk, LastUnit + 1) OBVIOUS
<1>6. PICK d : d = RoundData(own) OBVIOUS
<1>7. PICK res : res = RoundResult(own, d)
  OBVIOUS
<1>8. PICK g \in 0 .. n :
               /\ d.data = From(p + 1, g)
               /\ res \in {"OK", "DATA", "INPUT_EOF", "more"}
               /\ res = "OK" => p + g = LastUnit
               /\ res = "more" => g = n /\ p + g < LastUnit /\ Sound(p + g)
  <2>1. chunk = From(p + 1, n) /\ p < LastUnit /\ Sound(p) BY <1>3, <1>4
  <2>2. own = Before(From(p + 1, n), LastUnit + 1) BY <1>5, <2>1
  <2>3. Rounds(own, d, res, p, n) BY <1>2, <1>6, <1>7, <2>1, <2>2, RoundIs
  <2> QED BY <2>3 DEF Rounds
<1>9. /\ inProcessed' = inProcessed + Len(d.data)
      /\ \/ /\ out' = out \o d.data /\ UNCHANGED refused
            /\ \/ result' = res /\ mpc' = IF res = "more" THEN "fetch" ELSE "return"
               \/ /\ res = "more"
                  /\ result' = "PROGRESS" /\ mpc' = "return"
         \/ /\ d.data # <<>>
            /\ out' = out \o SubSeq(d.data, 1, Len(d.data) - 1) /\ refused' = TRUE
            /\ result' = ShortWrite /\ mpc' = "return"
  BY <1>5, <1>6, <1>7 DEF DecodeChunk, RoundResult, RoundData
<1>10. g \in Nat /\ p + 1 \in Unit BY DEF Unit
<1>11. PICK a \in Unit : a = p + 1 BY <1>10
<1>12. Len(d.data) = g /\ (d.data = <<>> <=> g = 0) BY <1>8, <1>10, <1>11, FromIs
<1>13. inProcessed' = inProcessed + g BY <1>9, <1>12
<1>14. CASE out' = out \o d.data /\ UNCHANGED refused
  <2>1. out' = out \o From(Len(out) + 1, g) BY <1>4, <1>8, <1>14
  <2>2. CASE result' = res /\ mpc' = IF res = "more" THEN "fetch" ELSE "return"
    <3>1. mpc' \in {"fetch", "return"} /\ result' \in Results BY <1>8, <2>2 DEF Results
    <3>2. result' = "OK" => Len(out) + g = LastUnit BY <1>4, <1>8, <2>2
    <3>3. mpc' = "fetch" => g = Len(chunk) /\ Len(out) + g < LastUnit /\ Sound(Len(out) + g)
      BY <1>4, <1>8, <2>2
    <3> QED BY <1>2, <1>10, <1>13, <1>14, <2>1, <3>1, <3>2, <3>3
  <2>3. CASE result' = "PROGRESS" /\ mpc' = "return"
    <3>1. result' \in Results BY <2>3 DEF Results
    <3> QED BY <1>2, <1>10, <1>13, <1>14, <2>1, <2>3, <3>1
  <2>4. CASE refused' = TRUE /\ result' = ShortWrite /\ mpc' = "return"
    <3>1. result' \in Results /\ result' # "OK" BY <2>4 DEF Results, ShortWrite
    <3> QED BY <1>2, <1>10, <1>13, <1>14, <2>1, <2>4, <3>1
  <2> QED BY <1>9, <2>2, <2>3, <2>4
<1>15. CASE /\ d.data # <<>>
            /\ out' = out \o SubSeq(d.data, 1, Len(d.data) - 1) /\ refused' = TRUE
            /\ result' = ShortWrite /\ mpc' = "return"
  <2>1. g - 1 \in Nat /\ g - 1 \in 0 .. g BY <1>10, <1>12, <1>15
  <2>2. SubSeq(From(a, g), 1, g - 1) = From(a, g - 1) BY <1>10, <2>1, FromSub
  <2>3. out' = out \o From(Len(out) + 1, g - 1) BY <1>4, <1>8, <1>11, <1>12, <1>15, <2>2
  <2>4. result' \in Results /\ result' # "OK" BY <1>15 DEF Results, ShortWrite
  <2> QED BY <1>10, <1>13, <1>15, <2>1, <2>3, <2>4
<1> QED BY <1>9, <1>14, <1>15

\* The single-thread decoder decodes and writes what it fetched.
LEMMA DecodeChunkData ==
  ASSUME IInv, DInv, DecodeChunk
  PROVE  DInv'
<1>0. Main BY DEF Main
<1>1. /\ mpc = "decode"
      /\ UNCHANGED <<calls, stream, freeIdx, tMode, chunk, pc, local, canRead, canWrite, buf,
                 saved, coder, exitThread, readerVars, wasInterrupted, isAllocError,
                 overflow, threadingError, filledStart, numFilled, lockVars>>
  BY DEF DecodeChunk
<1>2. DataTypes /\ MainTypes /\ ReaderTypes /\ WriterTypes /\ Always /\ Single /\ ReaderOk /\ WriterOk
  BY DEF DInv, DataTypes, Always
<1>3. UNCHANGED <<LastUnit, StopAt, Complete, Used, LeftStart, numStarted, readPos, readRes, readWasFinished, crossBlock,
                  cross, progRes>>
  BY <1>1 DEF LastUnit, StopAt, Complete, Used, LeftStart, readerVars, lockVars
<1>4. PICK g, k \in Nat :
        /\ out' = out \o From(Len(out) + 1, k) /\ inProcessed' = inProcessed + g
        /\ (k = g /\ refused' = refused) \/ refused'
        /\ mpc' \in {"fetch", "return"} /\ result' \in Results /\ refused' \in BOOLEAN
        /\ result' = "OK" => Len(out) + k = LastUnit
        /\ mpc' = "fetch" => k = Len(chunk) /\ Len(out) + k < LastUnit /\ Sound(Len(out) + k)
  BY DecodeChunkIs
<1>5. PICK p \in Nat : p = Len(out) BY <1>2 DEF WriterTypes
<1>6. out' = From(1, p + k) /\ Len(out') = p + k /\ out' \in Seq(Unit) /\ inProcessed \in Nat /\ inProcessed' \in Nat
  <2>1. 1 \in Unit /\ p + k \in Nat BY DEF Unit
  <2>2. out = From(1, p) BY <1>2, <1>5 DEF WriterOk
  <2>3. From(1, p) \o From(1 + p, k) = From(1, p + k) BY <2>1, FromCat
  <2>4. out' = From(1, p + k) BY <1>4, <1>5, <2>2, <2>3
  <2>5. From(1, p + k) \in Seq(Unit) /\ Len(From(1, p + k)) = p + k BY <2>1, FromIs
  <2>6. inProcessed \in Nat BY <1>2 DEF WriterTypes
  <2>7. inProcessed' \in Nat BY <1>4, <2>6
  <2> QED BY <2>4, <2>5, <2>6, <2>7
<1>7. MainTypes' BY <1>1, <1>2, <1>4 DEF MainTypes
<1>8. ReaderTypes' BY <1>2, <1>3 DEF ReaderTypes
<1>9. WriterTypes'
  <2>1. refused' \in BOOLEAN BY <1>4
  <2> QED BY <1>1, <1>2, <1>6, <2>1 DEF WriterTypes
<1>10. progRes' \in {"OK", "PROGRESS"} BY <1>2, <1>3 DEF DataTypes
<1>11. DOMAIN buf' = Threads /\ \A t \in Threads : buf'[t] \in Seq(Seq(Unit)) BY <1>1, <1>2 DEF DataTypes, Typed
<1>12. DataTypes' BY <1>0, <1>7, <1>8, <1>9, <1>10, <1>11, MainDataTypes
<1>13. ReaderOk' BY <1>1, <1>2, <1>3 DEF ReaderOk
<1>14. WriterOk'
  <2>1. ~refused' /\ "progress" \notin Faults => inProcessed' = Len(out')
    <3> SUFFICES ASSUME ~refused', "progress" \notin Faults PROVE inProcessed' = Len(out') OBVIOUS
    <3>1. k = g /\ ~refused BY <1>4
    <3>2. inProcessed = p BY <1>2, <1>5, <3>1 DEF WriterOk
    <3> QED BY <1>4, <1>6, <3>1, <3>2
  <2> QED BY <1>6, <2>1 DEF WriterOk
<1>15. numFilled' <= numStarted' BY <1>1, <1>2, <1>3 DEF Always
<1>16. Returning'
  <2>1. result' = "OK" => Len(out') = LastUnit' BY <1>3, <1>4, <1>5, <1>6
  <2> QED BY <1>4, <2>1 DEF Returning
<1>17. Single'
  <2>1. CASE mpc' = "return" BY <2>1, SingleWaits DEF Single
  <2>2. CASE mpc' = "fetch"
    <3>1. Len(out') = p + Len(chunk) /\ Len(out') < LastUnit' BY <1>3, <1>4, <1>5, <1>6, <2>2
    <3>2. Sound(Len(out))'
      <4>1. Sound(p + k) BY <1>4, <1>5, <2>2
      <4> QED BY <1>1, <1>6, <4>1 DEF Sound
    <3>3. PICK q, B, s : /\ q = Len(out) + Len(chunk)
                         /\ B = (IF Used THEN Tail(buf[filledStart]) ELSE buf[filledStart])
                         /\ s = LeftStart
      OBVIOUS
    <3>4. /\ IF tMode THEN /\ Left(q, B, s)
                           /\ numFilled = 1 => IF Used THEN /\ saved[filledStart].start = 0 /\ buf[filledStart] # <<>>
                                                            /\ saved[filledStart].size # 0 => Small(buf[filledStart][2])
                                                       ELSE saved[filledStart].size # 0 /\ saved[filledStart].start # 0
                      ELSE q = readPos \/ q >= StopAt
      BY <1>1, <1>2, <3>3 DEF Single
    <3>5. Left(q, B, s) => Left(q, B, s)'
      BY <1>1, <1>3 DEF Rest, Left, Sound, Chain, Pieces, Heads, Filling
    <3>6. B = (IF Used THEN Tail(buf[filledStart]) ELSE buf[filledStart])' /\ s = LeftStart' /\ q = Len(out')
      BY <1>1, <1>3, <1>5, <3>1, <3>3
    <3> QED BY <1>1, <1>3, <2>2, <3>1, <3>2, <3>4, <3>5, <3>6 DEF Single
  <2> QED BY <1>4, <2>1, <2>2
<1> QED BY <1>0, <1>4, <1>12, <1>13, <1>14, <1>15, <1>16, <1>17, MainDInv

\* What only an assignment of a whole function can tell of the buffers.
BufIsArray == buf = [t \in Threads |-> buf[t]]

\* Every step keeps a list of buffers for each thread.
LEMMA BufStaysArray ==
  ASSUME BufIsArray, [Next]_vars
  PROVE  BufIsArray'
<1>1. DOMAIN buf = Threads
  BY DEF BufIsArray
<1>2. ASSUME NEW f, buf' = [t \in Threads |-> f[t]] PROVE BufIsArray'
  BY <1>2 DEF BufIsArray
<1>3. ASSUME NEW u, NEW e, buf' = [buf EXCEPT ![u] = e] PROVE BufIsArray'
  BY <1>1, <1>3 DEF BufIsArray
<1>4. buf' = buf => BufIsArray'
  BY DEF BufIsArray
<1>5. CASE UNCHANGED vars
  BY <1>4, <1>5 DEF vars
<1>6. ASSUME NEW t \in Threads, Thread(t) PROVE BufIsArray'
  <2>1. ASSUME NEW n, MoveCross(t, n) PROVE BufIsArray'
    <3>1. CASE local[t].isCross
      BY <1>3, <2>1, <3>1 DEF MoveCross
    <3> QED BY <1>4, <2>1, <3>1 DEF MoveCross
  <2>2. CASE ParseOverflow(t) \/ ParseContinue(t) \/ ParseAll(t) \/ ParseAfterEnd(t) \/ ParseNew(t)
    BY <2>1, <2>2 DEF ParseOverflow, ParseContinue, ParseAll, ParseAfterEnd, ParseNew
  <2>3. CASE ReadStream(t)
    <3>1. PICK r \in Reads :
            buf' = [buf EXCEPT ![t] = SubSeq(@, 1, local[t].link) \o <<From(readPos + 1, r[1])>>
                                        \o Drop(@, local[t].link + 1)]
      BY <2>3 DEF ReadStream
    <3> QED BY <1>3, <3>1
  <2>4. CASE Register(t)
    <3>1. buf' = buf \/ buf' = [buf EXCEPT ![t] = [i \in DOMAIN @ |-> <<>>]]
      BY <2>4 DEF Register
    <3> QED BY <1>3, <1>4, <3>1
  <2>6. CASE TakeRead(t) \/ StartCheck(t) \/ ReadCheck(t) \/ CodeCheck(t) \/ NoBuffer(t) \/ ReadCross(t)
    BY <1>4, <2>6 DEF TakeRead, StartCheck, ReadCheck, CodeCheck, CheckError, NoBuffer, ReadCross
  <2>7. CASE NoCrossBlock(t) \/ Recheck(t) \/ PreCode(t) \/ SpawnAndPass(t) \/ PassOnly(t) \/ SpawnFails(t)
    BY <1>4, <2>7 DEF NoCrossBlock, Recheck, PreCode, SpawnAndPass, PassOnly, SpawnFails, PassRead, Unspawned
  <2>8. CASE Code(t) \/ CodeInterrupt(t) \/ TakeWrite(t) \/ Write(t) \/ WriteInterrupt(t)
    BY <1>4, <2>8 DEF Code, CodeInterrupt, TakeWrite, Write, WriteInterrupt, Interrupt
  <2> QED BY <1>6, <2>2, <2>3, <2>4, <2>6, <2>7, <2>8 DEF Thread
<1>7. CASE Main
  <2>1. CASE Decode
    <3>1. buf' = [t \in Threads |-> [i \in DOMAIN buf[t] |-> <<>>]]
      BY <2>1 DEF Decode
    <3> QED BY <3>1 DEF BufIsArray
  <2>2. CASE Prepare
    <3>1. buf' = buf \/ buf' = [t \in Threads |-> IF Unfilled(t) THEN <<>> ELSE buf[t]]
      BY <2>2 DEF Prepare
    <3>2. buf' = [t \in Threads |-> IF Unfilled(t) THEN <<>> ELSE buf[t]] => BufIsArray'
      BY DEF BufIsArray
    <3> QED BY <1>4, <3>1, <3>2
  <2>3. CASE FetchFilled \/ FetchCross \/ FetchNothing
    <3>1. buf' = FreedBuf
      BY <2>3 DEF FetchFilled, FetchCross, FetchNothing
    <3>2. CASE Used
      <4>1. PICK e : buf' = [buf EXCEPT ![filledStart] = e]
        BY <3>1, <3>2 DEF FreedBuf
      <4> QED BY <1>3, <4>1
    <3> QED BY <1>4, <3>1, <3>2 DEF FreedBuf
  <2>4. CASE ThreadsReturn \/ FetchStream \/ DecodeChunk \/ Return \/ Destroy \/ CloseThread \/ JoinThread \/ Destroyed
    <3>1. UNCHANGED buf
      BY <2>4 DEF ThreadsReturn, FetchStream, DecodeChunk, Return, Destroy, CloseThread, JoinThread, Destroyed
    <3> QED BY <1>4, <3>1
  <2> QED BY <1>7, <2>1, <2>2, <2>3, <2>4 DEF Main
<1> QED BY <1>5, <1>6, <1>7 DEF Next, Finished

-----------------------------------------------------------------------------
(* The theorems about the data *)

(* What is known of the data, together with the ring, is kept by every step of *)
(* the threads and of the caller.                                              *)
THEOREM DataInvariant == Spec => [](IInv /\ DInv)
<1>1. IInv /\ DInv /\ [Next]_vars => DInv'
  <2> SUFFICES ASSUME IInv, DInv, [Next]_vars PROVE DInv'
    OBVIOUS
  <2>1. CASE Main
    BY <2>1, DecodeData, ReturnData, PrepareData, FetchFilledData, FetchCrossData, FetchNothingData,
       FetchStreamData, DecodeChunkData, CloseData DEF Main
  <2>2. ASSUME NEW t \in Threads, Thread(t) PROVE DInv'
    BY <2>2, ThreadData
  <2>3. CASE UNCHANGED vars
    BY <2>3, IdleData
  <2> QED BY <2>1, <2>2, <2>3 DEF Next, Finished
<1>2. Init => DInv
  BY InitData
<1> QED BY RingInvariant, <1>1, <1>2, PTL DEF Spec

\* OutInOrder: nothing is written twice, out of turn or after a block that was
\* not written, in the threads and in the single-thread decoder.
THEOREM OutputIsInOrder == Spec => []OutInOrder
<1>1. DInv => OutInOrder
  BY DEF DInv, Always, WriterOk, OutInOrder
<1> QED BY DataInvariant, <1>1, PTL

\* ProcessedIsWritten: the input that the caller is told was processed is that of
\* the output.
THEOREM ProcessedIsTrue == Spec => []ProcessedIsWritten
<1>1. DInv => ProcessedIsWritten
  BY DEF DInv, Always, WriterOk, ProcessedIsWritten
<1> QED BY DataInvariant, <1>1, PTL

\* OkMeansDone: SZ_OK is the answer of a call only when nothing stopped it early.
THEOREM OkIsDone == Spec => []OkMeansDone
<1>1. DInv => OkMeansDone
  BY DEF DInv, Returning, Complete, OkMeansDone
<1> QED BY DataInvariant, <1>1, PTL

\* TypeOK: the types of the variables.
THEOREM TypesAreKept == Spec => []TypeOK
<1>1. IInv /\ DInv /\ BufIsArray => TypeOK
  <2> SUFFICES ASSUME IInv, DInv, BufIsArray PROVE TypeOK
    OBVIOUS
  <2>1. ControlTypes /\ DataTypes /\ MainTypes /\ ReaderTypes /\ WriterTypes /\ Always /\ Numbered
    BY DEF IInv, DInv, DataTypes
  <2>2. /\ mpc \in MainPcs /\ calls \in 0 .. NumCalls /\ stream \in Streams
        /\ result \in Results /\ freeIdx \in 0 .. NumThreads
        /\ tMode \in BOOLEAN /\ chunk \in Seq(Unit)
    BY <2>1 DEF ControlTypes, MainTypes
  <2>3. /\ pc \in [Threads -> ThreadPcs]
        /\ canRead \in [Threads -> BOOLEAN] /\ canWrite \in [Threads -> BOOLEAN]
        /\ exitThread \in BOOLEAN /\ readWasFinished \in BOOLEAN
        /\ numStarted \in 0 .. NumThreads /\ limit \in 1 .. NumThreads
    BY <2>1 DEF ControlTypes
  <2>4. buf \in [Threads -> Seq(Seq(Unit))]
    <3>1. \A t \in Threads : buf[t] \in Seq(Seq(Unit))
      BY <2>1 DEF DataTypes, Typed
    <3> QED BY <3>1 DEF BufIsArray
  <2>5. \A t \in Threads : coder[t].data \in Seq(Unit) /\ coder[t].codeRes \in Results
    BY <2>1 DEF DataTypes, Typed, CoderType, Results
  <2>6. /\ readPos \in Nat /\ readRes \in {"OK", "READ"} /\ crossBlock \in BOOLEAN /\ cross \in Seq(Unit)
    BY <2>1 DEF ReaderTypes
  <2>7. /\ {wasInterrupted, isAllocError, overflow, threadingError} \subseteq BOOLEAN
        /\ filledStart \in Threads /\ numFilled \in Nat /\ saved \in [Threads -> [start : Nat, size : Nat]]
        /\ inProcessed \in Nat /\ out \in Seq(Unit) /\ refused \in BOOLEAN
    BY <2>1 DEF WriterTypes
  <2>8. numFilled \in 0 .. numStarted
    BY <2>1, <2>3, <2>7 DEF Always
  <2>9. blockIndex \in Unit /\ interruptIndex \in Nat /\ progRes \in {"OK", "PROGRESS"}
    BY <2>1 DEF Numbered, DataTypes
  <2> QED BY <2>2, <2>3, <2>4, <2>5, <2>6, <2>7, <2>8, <2>9 DEF TypeOK
<1>2. Init => BufIsArray
  BY DEF Init, BufIsArray
<1> QED BY DataInvariant, BufStaysArray, <1>1, <1>2, PTL DEF Spec

-----------------------------------------------------------------------------
(* The input that is kept *)

\* A set of numbers that has 0 and with each number below N the next one, has all up to N.
LEMMA UpTo ==
  ASSUME NEW N \in Nat, NEW T, 0 \in T, \A n \in 0 .. N - 1 : n \in T => n + 1 \in T
  PROVE  \A n \in 0 .. N : n \in T
<1> SUFFICES ASSUME NEW k \in 0 .. N, k \notin T PROVE FALSE OBVIOUS
<1> DEFINE U == {n \in 0 .. N : n \notin T}
<1>1. U \subseteq Nat /\ U # {} OBVIOUS
<1>2. PICK n \in U : \A m \in U : n <= m BY <1>1, Least
<1>3. n \in 0 .. N /\ n \notin T /\ n # 0 BY <1>2
<1>4. n - 1 \in 0 .. N - 1 /\ n - 1 < n /\ (n - 1) + 1 = n BY <1>3
<1>5. n - 1 \in T
  <2>1. n - 1 \notin U BY <1>2, <1>4
  <2> QED BY <1>4, <2>1
<1> QED BY <1>3, <1>4, <1>5

\* One sequence and then another.
Joined(a, b) == a \o b

\* Appending buffer by buffer.
Appends(f, F, R, n) == f = [i \in 0 .. n |-> IF i = 0 THEN F ELSE Joined(f[i - 1], R[i])]

\* There is such a function, as many buffers as there are.
LEMMA AppendsExists ==
  ASSUME NEW N \in Nat, NEW F, NEW R
  PROVE  \E f : Appends(f, F, R, N)
<1> DEFINE T == {n \in 0 .. N : \E f : Appends(f, F, R, n)}
<1>1. 0 \in T
  <2>1. \A i \in 0 .. 0 : i = 0 OBVIOUS
  <2>2. PICK f : f = [i \in 0 .. 0 |-> F] OBVIOUS
  <2>3. Appends(f, F, R, 0) BY <2>1, <2>2 DEF Appends
  <2> QED BY <2>3
<1>2. ASSUME NEW n \in 0 .. N - 1, n \in T PROVE n + 1 \in T
  <2>1. PICK f : Appends(f, F, R, n) BY <1>2
  <2>2. PICK g : g = [i \in 0 .. n + 1 |-> IF i = n + 1 THEN Joined(f[n], R[n + 1]) ELSE f[i]] OBVIOUS
  <2>3. \A i \in 0 .. n : g[i] = f[i] BY <2>2
  <2>4. DOMAIN f = 0 .. n /\ \A i \in 0 .. n : f[i] = IF i = 0 THEN F ELSE Joined(f[i - 1], R[i])
    <3>1. PICK h : h = [i \in 0 .. n |-> IF i = 0 THEN F ELSE Joined(f[i - 1], R[i])] OBVIOUS
    <3>2. f = h BY <2>1, <3>1 DEF Appends
    <3>3. DOMAIN h = 0 .. n /\ \A i \in 0 .. n : h[i] = IF i = 0 THEN F ELSE Joined(f[i - 1], R[i]) BY <3>1
    <3> QED BY <3>2, <3>3
  <2>5. ASSUME NEW i \in 0 .. n + 1 PROVE g[i] = IF i = 0 THEN F ELSE Joined(g[i - 1], R[i])
    <3>1. CASE i = n + 1
      <4>1. i - 1 = n /\ n \in 0 .. n /\ i # 0 BY <3>1
      <4>2. g[i] = Joined(f[n], R[i]) BY <2>2, <3>1
      <4> QED BY <2>3, <4>1, <4>2
    <3>2. CASE i # n + 1
      <4>1. i \in 0 .. n /\ (i # 0 => i - 1 \in 0 .. n) BY <3>2
      <4> QED BY <2>3, <2>4, <4>1
    <3> QED BY <3>1, <3>2
  <2>6. Appends(g, F, R, n + 1) BY <2>2, <2>5 DEF Appends
  <2>7. n + 1 \in 0 .. N BY <1>2
  <2> QED BY <2>6, <2>7
<1> HIDE DEF T
<1>3. N \in 0 .. N /\ \A n \in 0 .. N : n \in T BY <1>1, <1>2, UpTo
<1>4. N \in T BY <1>3
<1> QED BY <1>4 DEF T

\* The values of such a function.
Grows(f, F, R, N) == f[0] = F /\ \A i \in 1 .. N : f[i] = Joined(f[i - 1], R[i])

\* An appending function has them.
LEMMA AppendsIs ==
  ASSUME NEW N \in Nat, NEW F, NEW R, NEW f, Appends(f, F, R, N)
  PROVE  Grows(f, F, R, N)
<1>1. PICK h : h = [i \in 0 .. N |-> IF i = 0 THEN F ELSE Joined(f[i - 1], R[i])] OBVIOUS
<1>2. f = h BY <1>1 DEF Appends
<1>3. 0 \in 0 .. N /\ \A i \in 1 .. N : i \in 0 .. N /\ i # 0 OBVIOUS
<1>4. h[0] = F /\ \A i \in 1 .. N : h[i] = Joined(f[i - 1], R[i]) BY <1>1, <1>3
<1> QED BY <1>2, <1>4 DEF Grows

\* The sequence of units behind p, up to unit p + n, then a buffer that goes on from there.
LEMMA FromGoesOn ==
  ASSUME NEW p \in Nat, NEW n \in Nat, NEW s \in Seq(Unit), NEW k \in Nat, k = Len(s),
         s = From(p + n + 1, k)
  PROVE  Joined(From(p + 1, n), s) = From(p + 1, n + k)
<1>1. p + 1 \in Unit /\ (p + 1) + n = p + n + 1 BY DEF Unit
<1>3. From(p + 1, n) \o From((p + 1) + n, k) = From(p + 1, n + k) BY <1>1, FromCat
<1> QED BY <1>1, <1>3 DEF Joined

\* The sequence s begins with the n units behind p.
Begins(s, p, n) == s \in Seq(Unit) /\ Len(s) >= n /\ SubSeq(s, 1, n) = From(p + 1, n)

\* It still does so with r behind it.
LEMMA BeginsStill ==
  ASSUME NEW s, NEW p \in Nat, NEW n \in Nat, Begins(s, p, n), NEW r \in Seq(Unit)
  PROVE  Begins(Joined(s, r), p, n)
<1>1. s \in Seq(Unit) /\ Len(s) >= n /\ Len(s) \in Nat /\ Len(r) \in Nat BY LenProperties DEF Begins
<1>2. s \o r \in Seq(Unit) /\ Len(s \o r) = Len(s) + Len(r) BY <1>1, ConcatProperties
<1>3. \A i \in 1 .. Len(s) : (s \o r)[i] = s[i] BY <1>1, ConcatProperties
<1>4. SubSeq(s, 1, n) \in Seq(Unit) /\ Len(SubSeq(s, 1, n)) = n
      /\ \A i \in 1 .. n : SubSeq(s, 1, n)[i] = s[i]
  BY <1>1, SubSeqProperties
<1>5. SubSeq(s \o r, 1, n) \in Seq(Unit) /\ Len(SubSeq(s \o r, 1, n)) = n
      /\ \A i \in 1 .. n : SubSeq(s \o r, 1, n)[i] = (s \o r)[i]
  BY <1>1, <1>2, SubSeqProperties
<1>6. SubSeq(s \o r, 1, n) = SubSeq(s, 1, n)
  <2>1. \A i \in 1 .. n : SubSeq(s \o r, 1, n)[i] = SubSeq(s, 1, n)[i] BY <1>1, <1>3, <1>4, <1>5
  <2> QED BY <1>4, <1>5, <2>1, SeqEqual
<1> QED BY <1>1, <1>2, <1>6 DEF Begins, Joined

\* So does the sequence of more units.
LEMMA BeginsFrom ==
  ASSUME NEW p \in Nat, NEW n \in Nat, NEW m \in 0 .. n
  PROVE  Begins(From(p + 1, n), p, m)
<1>1. p + 1 \in Unit BY DEF Unit
<1>2. From(p + 1, n) \in Seq(Unit) /\ Len(From(p + 1, n)) = n BY <1>1, FromIs
<1>3. SubSeq(From(p + 1, n), 1, m) = From(p + 1, m) BY <1>1, FromSub
<1> QED BY <1>2, <1>3 DEF Begins

\* How each of the m buffers of a chain behind q begins and ends.
Joints(R, m, q, z) ==
  /\ m <= Len(R)
  /\ m = 0 => z = 0
  /\ m # 0 => R[1][1] = q + 1 /\ z # 0
  /\ \A i \in 1 .. m : R[i] \in Seq(Unit) /\ Len(R[i]) \in Nat /\ R[i] = From(R[i][1], Len(R[i]))
  /\ \A i, j \in 1 .. m : j = i + 1 => R[j][1] = R[i][1] + Len(R[i])
  /\ m # 0 => q + z < R[m][1] + Len(R[m])

\* The pieces of a chain of buffers.
LEMMA ChainPieces ==
  ASSUME NEW R \in Seq(Seq(Unit)), NEW m \in Nat, NEW q \in Nat, NEW z \in Nat,
         Chain(R, m, q, Minimum(BufSize, z), z), m # 0 => Small(R[1])
  PROVE  Joints(R, m, q, z)
<1>1. /\ m <= Len(R) /\ Pieces(R, m, q + z) /\ Heads(R, m, q, Minimum(BufSize, z), z) /\ Filling(R, m)
      /\ m > 1 => q + z < R[m][1] + Len(R[m])
  BY DEF Chain
<1>11. m # 0 => Len(R[1]) <= BufSize BY DEF Small
<1>2. Len(R) \in Nat /\ BufSize \in Nat \ {0} BY LenProperties, ConstantsAssumption
<1>3. PICK s \in Nat : s = Minimum(BufSize, z) /\ s <= z /\ s <= BufSize BY <1>2 DEF Minimum
<1>4. /\ m = 0 => s = 0 /\ z = 0
      /\ m > 0 => R[1][1] = q + 1 /\ s \in 1 .. Len(R[1]) /\ s <= z
      /\ m = 1 => s = z
      /\ m > 1 => R[2][1] = q + s + 1
  BY <1>1, <1>3 DEF Heads
<1>5. \A i \in 1 .. m : R[i] \in Seq(Unit) /\ Len(R[i]) \in Nat /\ R[i] = From(R[i][1], Len(R[i])) /\ R[i][1] <= q + z
  <2>1. \A i \in 1 .. m : R[i] \in Seq(Unit) BY <1>1, <1>2
  <2>2. \A i \in 1 .. m : Len(R[i]) \in Nat BY <2>1, LenProperties
  <2> QED BY <1>1, <2>1, <2>2 DEF Pieces
<1>6. m > 1 => Len(R[1]) = BufSize /\ s = BufSize
  <2> SUFFICES ASSUME m > 1 PROVE Len(R[1]) = BufSize /\ s = BufSize OBVIOUS
  <2>1. 1 \in 1 .. m /\ 2 \in 1 .. m OBVIOUS
  <2>2. q + s + 1 <= q + z /\ Len(R[1]) \in Nat BY <1>4, <1>5, <2>1
  <2>3. s = BufSize BY <1>2, <1>3, <2>2 DEF Minimum
  <2> QED BY <1>2, <1>4, <1>11, <2>2, <2>3
<1>7. ASSUME NEW i \in 1 .. m, NEW j \in 1 .. m, j = i + 1 PROVE R[j][1] = R[i][1] + Len(R[i])
  <2>1. CASE i = 1
    <3>1. R[2][1] = q + s + 1 /\ R[1][1] = q + 1 /\ Len(R[1]) = s BY <1>4, <1>6, <1>7, <2>1
    <3> QED BY <1>7, <2>1, <3>1
  <2>2. CASE i # 1
    <3>1. i \in 2 .. m - 1 BY <1>7, <2>2
    <3>2. Len(R[i]) = BufSize /\ R[i + 1][1] = R[i][1] + BufSize BY <1>1, <3>1 DEF Filling
    <3> QED BY <1>7, <3>2
  <2> QED BY <2>1, <2>2
<1>8. m = 1 => q + z < R[1][1] + Len(R[1]) BY <1>4, <1>5
<1>9. m # 0 => q + z < R[m][1] + Len(R[m]) BY <1>1, <1>8
<1>10. m # 0 => R[1][1] = q + 1 /\ z # 0 BY <1>3, <1>4
<1> QED BY <1>1, <1>4, <1>5, <1>7, <1>9, <1>10 DEF Joints

\* The size units behind p are s units and, behind q, another z.
Parts(p, size, s, q, z) == q = p + s /\ size = s + z

\* Appending the buffers of a chain to what lies in front of it gives all the units of the chain.
LEMMA AppendChain ==
  ASSUME NEW R \in Seq(Seq(Unit)), NEW m \in Nat, NEW p \in Nat, NEW s \in Nat, NEW z \in Nat,
         NEW q \in Nat, NEW size \in Nat, Parts(p, size, s, q, z),
         Chain(R, m, q, Minimum(BufSize, z), z), m # 0 => Small(R[1]),
         NEW N \in Nat, N = Len(R), NEW f, Appends(f, From(p + 1, s), R, N)
  PROVE  Begins(f[N], p, size)
<1>0. q = p + s /\ size = s + z BY DEF Parts
<1> DEFINE F == From(p + 1, s)
<1>1. f[0] = F /\ \A i \in 1 .. N : f[i] = Joined(f[i - 1], R[i])
  <2>1. Grows(f, F, R, N) BY AppendsIs
  <2> QED BY <2>1 DEF Grows
<1>3. /\ m <= N
      /\ m = 0 => z = 0
      /\ m # 0 => R[1][1] = q + 1 /\ z # 0
      /\ \A i \in 1 .. m : R[i] \in Seq(Unit) /\ Len(R[i]) \in Nat /\ R[i] = From(R[i][1], Len(R[i]))
      /\ \A i, j \in 1 .. m : j = i + 1 => R[j][1] = R[i][1] + Len(R[i])
      /\ m # 0 => q + z < R[m][1] + Len(R[m])
  <2>1. Joints(R, m, q, z) BY ChainPieces
  <2> QED BY <2>1 DEF Joints
<1>4. \A i \in 1 .. N : R[i] \in Seq(Unit) OBVIOUS
<1> DEFINE UpToHere(i) == \E n \in Nat : f[i] = From(p + 1, n) /\ R[i + 1][1] = p + n + 1
           T == {i \in 0 .. N : IF i < m THEN UpToHere(i) ELSE Begins(f[i], p, s + z)}
<1>5. 0 \in T
  <2>1. CASE m = 0
    <3>1. z = 0 /\ s + z = s /\ s \in 0 .. s BY <1>3, <2>1
    <3>2. Begins(From(p + 1, s), p, s) BY <3>1, BeginsFrom
    <3> QED BY <1>1, <2>1, <3>1, <3>2
  <2>2. CASE m # 0
    <3>4. 0 + 1 = 1 /\ R[1][1] = p + s + 1 BY <1>0, <1>3, <2>2
    <3>1. f[0] = From(p + 1, s) /\ R[0 + 1][1] = p + s + 1 BY <1>1, <3>4
    <3>2. UpToHere(0) BY <3>1
    <3>3. 0 \in 0 .. N /\ 0 < m BY <2>2
    <3> QED BY <3>2, <3>3
  <2> QED BY <2>1, <2>2
<1>6. ASSUME NEW i \in 0 .. N - 1, i \in T PROVE i + 1 \in T
  <2>4. PICK j \in 1 .. N : j = i + 1 OBVIOUS
  <2>1. i + 1 \in 1 .. N /\ i + 1 \in 0 .. N /\ f[i + 1] = Joined(f[i], R[i + 1])
    <3>1. f[j] = Joined(f[j - 1], R[j]) /\ j - 1 = i BY <1>1, <2>4
    <3> QED BY <2>4, <3>1
  <2>2. CASE i < m
    <3>1. PICK n \in Nat : f[i] = From(p + 1, n) /\ R[i + 1][1] = p + n + 1 BY <1>6, <2>2
    <3>2. PICK r : r = R[i + 1] OBVIOUS
    <3>3. i + 1 \in 1 .. m BY <2>2
    <3>4. r \in Seq(Unit) /\ Len(r) \in Nat /\ r = From(p + n + 1, Len(r)) BY <1>3, <3>1, <3>2, <3>3
    <3>9. PICK l \in Nat : l = Len(r) BY <3>4
    <3>5. PICK k \in Nat : k = n + l OBVIOUS
    <3>6. f[i + 1] = From(p + 1, k)
      <4>1. r = From(p + n + 1, l) BY <3>4, <3>9
      <4>2. Joined(From(p + 1, n), r) = From(p + 1, n + l) BY <3>4, <3>9, <4>1, FromGoesOn
      <4>3. f[i + 1] = Joined(From(p + 1, n), r) BY <2>1, <3>1, <3>2
      <4> QED BY <3>5, <4>2, <4>3
    <3>7. CASE i + 1 < m
      <4>1. PICK j1 \in 1 .. m, j2 \in 1 .. m : j1 = i + 1 /\ j2 = j1 + 1 BY <3>3, <3>7
      <4>2. R[j2][1] = R[j1][1] + Len(R[j1]) BY <1>3, <4>1
      <4>5. R[j1] = r /\ R[j1][1] = p + n + 1 BY <3>1, <3>2, <4>1
      <4>3. R[(i + 1) + 1][1] = p + k + 1 BY <3>5, <3>9, <4>1, <4>2, <4>5
      <4>4. UpToHere(i + 1) BY <3>6, <4>3
      <4> QED BY <2>1, <3>7, <4>4
    <3>8. CASE i + 1 = m
      <4>1. q + z < p + n + 1 + l
        <5>1. m # 0 /\ R[m] = r /\ r[1] = p + n + 1 BY <3>1, <3>2, <3>3, <3>8
        <5> QED BY <1>3, <3>9, <5>1
      <4>2. s + z \in 0 .. k BY <1>0, <3>5, <4>1
      <4>3. Begins(From(p + 1, k), p, s + z) BY <4>2, BeginsFrom
      <4> QED BY <2>1, <3>6, <3>8, <4>3
    <3> QED BY <2>2, <3>7, <3>8
  <2>3. CASE ~(i < m)
    <3>1. Begins(f[i], p, s + z) BY <1>6, <2>3
    <3>2. s + z \in Nat /\ R[i + 1] \in Seq(Unit) BY <1>4, <2>1
    <3>3. Begins(Joined(f[i], R[i + 1]), p, s + z) BY <3>1, <3>2, BeginsStill
    <3>4. ~(i + 1 < m) BY <2>3
    <3> QED BY <2>1, <3>3, <3>4
  <2> QED BY <2>2, <2>3
<1>7. N \in 0 .. N /\ ~(N < m) BY <1>3
<1> HIDE DEF T
<1>8. N \in T BY <1>5, <1>6, <1>7, UpTo
<1>9. Begins(f[N], p, s + z) BY <1>7, <1>8 DEF T
<1> QED BY <1>0, <1>9

\* Thread t has the buffers B, of which size units are kept, start of them in the first.
Has(t, B, start, size) == B = buf[t] /\ start = saved[t].start /\ size = saved[t].size

\* The buffers B begin with the s units behind p.
First(B, s, p) == SubSeq(B[1], 1, s) = From(p + 1, s)

\* What a thread keeps are the units that its chain of buffers holds.
LEMMA KeptIs ==
  ASSUME NEW t \in Threads, NEW B \in Seq(Seq(Unit)), B # <<>>, NEW s \in Nat, NEW size \in Nat,
         Has(t, B, s, size), NEW p \in Nat, NEW q \in Nat, NEW z \in Nat, Parts(p, size, s, q, z), First(B, s, p),
         NEW m \in Nat, Chain(Tail(B), m, q, Minimum(BufSize, z), z), m # 0 => Small(Tail(B)[1])
  PROVE  Kept(t) = From(p + 1, size)
<1>0. PICK R : R = Tail(B) OBVIOUS
<1>1. R \in Seq(Seq(Unit)) /\ Len(R) \in Nat BY <1>0, TailIs
<1>10. PICK N \in Nat : N = Len(R) BY <1>1
<1>2. PICK F : F = SubSeq(B[1], 1, s) OBVIOUS
<1>3. PICK f : f = CHOOSE g : Appends(g, F, R, N) OBVIOUS
<1>4. Appends(f, F, R, N) BY <1>3, AppendsExists
<1>5. f = CHOOSE g : g = [i \in 0 .. Len(R) |-> IF i = 0 THEN F ELSE g[i - 1] \o R[i]]
  BY <1>3, <1>10 DEF Appends, Joined
<1>6. Kept(t) = SubSeq(f[Len(R)], 1, size) BY <1>0, <1>2, <1>5 DEF Kept, Has
<1>7. Chain(R, m, q, Minimum(BufSize, z), z) /\ (m # 0 => Small(R[1])) BY <1>0
<1>8. F = From(p + 1, s) BY <1>2 DEF First
<1>11. Appends(f, From(p + 1, s), R, N) BY <1>4, <1>8
<1>9. Begins(f[N], p, size) BY <1>1, <1>7, <1>10, <1>11, AppendChain
<1> QED BY <1>6, <1>9, <1>10 DEF Begins

\* The thread whose first buffer was not fetched yet.
LEMMA KeptWhole ==
  ASSUME NEW t \in Threads, NEW B \in Seq(Seq(Unit)), NEW s \in Nat, NEW size \in Nat \ {0}, Has(t, B, s, size),
         NEW p \in Nat, \E m \in 0 .. Len(B) : Chain(B, m, p, s, size)
  PROVE  Kept(t) = From(p + 1, size)
<1>0. Len(B) \in Nat BY LenProperties
<1>1. PICK m \in 0 .. Len(B) : Chain(B, m, p, s, size) OBVIOUS
<1>2. m \in Nat /\ m # 0 BY <1>0, <1>1, ChainStart
<1>8. s \in 1 .. size BY <1>1, <1>2, ChainTail
<1>3. PICK q \in Nat, z \in Nat : q = p + s /\ z = size - s BY <1>8
<1>4. /\ B # <<>> /\ s \in 1 .. size /\ SubSeq(B[1], 1, s) = From(p + 1, s)
      /\ Chain(Tail(B), m - 1, q, Minimum(BufSize, z), z)
  BY <1>1, <1>2, <1>3, ChainTail
<1>5. Parts(p, size, s, q, z) /\ m - 1 \in Nat BY <1>2, <1>3 DEF Parts
<1>6. m - 1 # 0 => Small(Tail(B)[1])
  <2> SUFFICES ASSUME m - 1 # 0 PROVE Small(Tail(B)[1]) OBVIOUS
  <2>1. 2 \in 2 .. m /\ 2 <= Len(B) BY <1>0, <1>1, <1>2
  <2>2. Len(B[2]) <= BufSize BY <1>1, <2>1 DEF Chain, Filling
  <2>3. Tail(B)[1] = B[2]
    <3>1. \A i \in 1 .. Len(B) - 1 : Tail(B)[i] = B[i + 1] BY <1>4, TailIs
    <3>2. 1 \in 1 .. Len(B) - 1 /\ 1 + 1 = 2 BY <1>0, <2>1
    <3> QED BY <3>1, <3>2
  <2> QED BY <2>2, <2>3 DEF Small
<1>7. First(B, s, p) BY <1>4 DEF First
<1> QED BY <1>3, <1>4, <1>5, <1>6, <1>7, KeptIs

\* The thread whose first buffer was fetched.
LEMMA KeptBehind ==
  ASSUME NEW t \in Threads, NEW B \in Seq(Seq(Unit)), B # <<>>, NEW size \in Nat, Has(t, B, 0, size),
         size # 0 => Small(B[2]),
         NEW p \in Nat, \E m \in 0 .. Len(Tail(B)) : Chain(Tail(B), m, p, Minimum(BufSize, size), size)
  PROVE  Kept(t) = From(p + 1, size)
<1>1. PICK R : R = Tail(B) OBVIOUS
<1>2. R \in Seq(Seq(Unit)) /\ Len(R) = Len(B) - 1 /\ Len(R) \in Nat /\ \A i \in 1 .. Len(B) - 1 : R[i] = B[i + 1]
  BY <1>1, TailIs
<1>3. PICK m \in 0 .. Len(R) : Chain(R, m, p, Minimum(BufSize, size), size) BY <1>1
<1>4. m \in Nat BY <1>2
<1>5. m # 0 => Small(R[1])
  <2> SUFFICES ASSUME m # 0 PROVE Small(R[1]) OBVIOUS
  <2>1. Heads(R, m, p, Minimum(BufSize, size), size) BY <1>3 DEF Chain
  <2>2. PICK s : s = Minimum(BufSize, size) OBVIOUS
  <2>3. s \in 1 .. Len(R[1]) /\ s <= size BY <1>4, <2>1, <2>2 DEF Heads
  <2>4. size # 0 BY <2>3
  <2>5. 1 \in 1 .. Len(B) - 1 /\ 1 + 1 = 2 BY <1>2, <1>3
  <2>6. R[1] = B[2] BY <1>2, <2>5
  <2> QED BY <2>4, <2>6 DEF Small
<1>6. First(B, 0, p)
  <2>1. p + 1 \in Unit BY DEF Unit
  <2>2. From(p + 1, 0) = <<>> BY <2>1, FromIs
  <2>3. SubSeq(B[1], 1, 0) = <<>> OBVIOUS
  <2> QED BY <2>2, <2>3 DEF First
<1>7. Parts(p, size, 0, p, size) BY DEF Parts
<1>8. Chain(Tail(B), m, p, Minimum(BufSize, size), size) /\ (m # 0 => Small(Tail(B)[1])) BY <1>1, <1>3, <1>5
<1>9. 0 \in Nat OBVIOUS
<1> QED BY <1>4, <1>6, <1>7, <1>8, <1>9, KeptIs

\* What all threads keep, of which one at most is filled.
LEMMA KeptInputIs ==
  ASSUME numFilled \in {0, 1}, numStarted \in Nat, filledStart \in Nat
  PROVE  /\ numFilled = 0 => KeptInput = <<>>
         /\ numFilled = 1 /\ filledStart < numStarted => KeptInput = Joined(<<>>, Kept(filledStart))
<1>1. PICK n, K : n = numFilled /\ K = Joined(<<>>, Kept((filledStart + 1 - 1) % numStarted)) OBVIOUS
<1>2. PICK f : f = CHOOSE g : g = [i \in 0 .. n |-> IF i = 0 THEN <<>>
                                  ELSE g[i - 1] \o Kept((filledStart + i - 1) % numStarted)]
  OBVIOUS
<1>3. KeptInput = f[n] BY <1>1, <1>2 DEF KeptInput
<1>4. PICK h : h = [i \in 0 .. n |-> IF i = 0 THEN <<>> ELSE K] OBVIOUS
<1>5. \A i \in 0 .. n : i # 0 => i = 1 /\ i - 1 = 0 BY <1>1
<1>6. 0 \in 0 .. n BY <1>1
<1>7. h[0] = <<>> BY <1>4, <1>6
<1>8. \A i \in 0 .. n : i # 0 => h[i - 1] \o Kept((filledStart + i - 1) % numStarted) = K
  BY <1>1, <1>5, <1>7 DEF Joined
<1>9. h = [i \in 0 .. n |-> IF i = 0 THEN <<>> ELSE h[i - 1] \o Kept((filledStart + i - 1) % numStarted)]
  BY <1>4, <1>8
<1>10. f = [i \in 0 .. n |-> IF i = 0 THEN <<>> ELSE f[i - 1] \o Kept((filledStart + i - 1) % numStarted)]
  BY <1>2, <1>9
<1>11. f[0] = <<>> BY <1>6, <1>10
<1>12. n = 1 => f[n] = f[0] \o Kept((filledStart + 1 - 1) % numStarted)
  <2> SUFFICES ASSUME n = 1 PROVE f[1] = f[0] \o Kept((filledStart + 1 - 1) % numStarted) OBVIOUS
  <2>1. 1 \in 0 .. n /\ 1 - 1 = 0 OBVIOUS
  <2> QED BY <1>10, <2>1
<1>13. filledStart < numStarted => (filledStart + 1 - 1) % numStarted = filledStart OBVIOUS
<1> QED BY <1>1, <1>3, <1>11, <1>12, <1>13 DEF Joined

\* Four pieces of the stream, of which each begins where the one before it ends.
InLine(a, b, c, d, i, j, k, l) ==
  a = From(1, i) /\ b = From(1 + i, j) /\ c = From(i + j + 1, k) /\ d = From(i + j + 1 + k, l)

\* The units of the stream, put together from what was written, what was fetched, what the
\* threads keep and what the cross block has.
LEMMA InOneLine ==
  ASSUME NEW a, NEW b, NEW c, NEW d, NEW i \in Nat, NEW j \in Nat, NEW k \in Nat, NEW l \in Nat,
         InLine(a, b, c, d, i, j, k, l)
  PROVE  Joined(Joined(a, b), Joined(c, d)) = From(1, i + j + k + l)
<1>1. PICK x \in Nat, y \in Nat, z \in Unit : x = i + j /\ y = k + l /\ z = i + j + 1 BY DEF Unit
<1>2. 1 \in Unit BY DEF Unit
<1>3. Joined(From(1, i), From(1 + i, j)) = From(1, x) BY <1>1, <1>2, FromCat DEF Joined
<1>4. Joined(From(z, k), From(z + k, l)) = From(z, y) BY <1>1, FromCat DEF Joined
<1>5. Joined(From(1, x), From(1 + x, y)) = From(1, x + y) BY <1>2, FromCat DEF Joined
<1>6. 1 + x = z /\ x + y = i + j + k + l BY <1>1
<1>7. a = From(1, i) /\ b = From(1 + i, j) /\ c = From(z, k) /\ d = From(z + k, l)
  BY <1>1 DEF InLine
<1> QED BY <1>3, <1>4, <1>5, <1>6, <1>7

\* The single-thread decoder and what it takes over from the threads: nothing is missing.
LEMMA DataIsKept ==
  ASSUME IInv, DInv
  PROVE  NothingLost
<1> SUFFICES ASSUME mpc \in {"prepare", "fetch", "decode"}, stream.bad = 0
             PROVE  LET pending == IF mpc = "decode" THEN chunk ELSE <<>>
                        all     == Joined(Joined(out, pending), IF tMode THEN Joined(KeptInput, cross) ELSE <<>>)
                    IN  /\ tMode => numFilled <= 1
                        /\ all = From(1, Len(all))
                        /\ Len(all) = readPos \/ Len(all) >= LastUnit
  BY DEF NothingLost, Joined
<1>1. DataTypes /\ WriterTypes /\ ReaderTypes /\ MainTypes /\ Single /\ WriterOk /\ Always BY DEF DInv, DataTypes, Always
<1>2. /\ out \in Seq(Unit) /\ out = From(1, Len(out)) /\ chunk \in Seq(Unit) /\ cross \in Seq(Unit)
      /\ filledStart \in Threads /\ filledStart \in Nat /\ numStarted \in Nat
      /\ buf[filledStart] \in Seq(Seq(Unit))
      /\ saved[filledStart].start \in Nat /\ saved[filledStart].size \in Nat /\ StopAt = LastUnit
  <2>1. buf[filledStart] \in Seq(Seq(Unit)) BY <1>1 DEF DataTypes, Typed, WriterTypes
  <2>2. filledStart \in Threads /\ filledStart \in Nat BY <1>1, ConstantsAssumption DEF WriterTypes, Threads
  <2>3. saved[filledStart].start \in Nat /\ saved[filledStart].size \in Nat BY <1>1 DEF WriterTypes
  <2>4. numStarted \in Nat BY DEF IInv, ControlTypes
  <2>5. StopAt = LastUnit BY DEF StopAt
  <2> QED BY <1>1, <2>1, <2>2, <2>3, <2>4, <2>5 DEF WriterTypes, MainTypes, ReaderTypes, WriterOk
<1>3. PICK pending : pending = IF mpc = "decode" THEN chunk ELSE <<>> OBVIOUS
<1>4. pending \in Seq(Unit) /\ Len(pending) \in Nat /\ Len(out) \in Nat BY <1>2, <1>3, LenProperties
<1>5. pending = From(Len(out) + 1, Len(pending))
  <2>1. CASE mpc = "decode" BY <1>1, <1>3, <2>1 DEF Single
  <2>2. CASE mpc # "decode"
    <3>1. Len(out) + 1 \in Unit /\ pending = <<>> BY <1>3, <1>4, <2>2 DEF Unit
    <3>2. Len(pending) = 0 BY <3>1
    <3> QED BY <3>1, <3>2, FromIs
  <2> QED BY <2>1, <2>2
<1>6. PICK p \in Nat : p = Len(out) + Len(pending) BY <1>4
<1>7. CASE ~tMode
  <2>1. p = readPos \/ p >= LastUnit
    <3>1. CASE mpc = "prepare"
      <4>1. out = <<>> /\ readPos = 0 BY <1>1, <1>7, <3>1 DEF Single
      <4>2. pending = <<>> BY <1>3, <3>1
      <4>3. p = 0 BY <1>6, <4>1, <4>2
      <4> QED BY <4>1, <4>3
    <3>2. CASE mpc = "fetch"
      <4>1. Len(out) = readPos \/ Len(out) >= StopAt BY <1>1, <1>7, <3>2 DEF Single
      <4>2. Len(pending) = 0 BY <1>3, <3>2
      <4> QED BY <1>2, <1>4, <1>6, <4>1, <4>2
    <3>3. CASE mpc = "decode"
      <4>1. Len(out) + Len(chunk) = readPos \/ Len(out) + Len(chunk) >= StopAt BY <1>1, <1>7, <3>3 DEF Single
      <4> QED BY <1>2, <1>3, <1>6, <3>3, <4>1
    <3> QED BY <3>1, <3>2, <3>3
  <2>2. 0 \in Nat /\ <<>> \in Seq(Unit) /\ Len(<<>>) = 0 OBVIOUS
  <2>3. p + 1 \in Unit /\ p + 0 + 1 \in Unit BY DEF Unit
  <2>4. <<>> = From(p + 1, 0) /\ <<>> = From(p + 0 + 1, 0) BY <2>3, FromIs
  <2>7. PICK i \in Nat, j \in Nat : i = Len(out) /\ j = Len(pending) BY <1>4
  <2>8. InLine(out, pending, <<>>, <<>>, i, j, 0, 0)
    <3>1. p + 1 = i + j + 1 /\ p + 0 + 1 = i + j + 1 + 0 /\ i + 1 = 1 + i BY <1>6, <2>7
    <3> QED BY <1>2, <1>5, <2>4, <2>7, <3>1 DEF InLine
  <2>9. Joined(Joined(out, pending), Joined(<<>>, <<>>)) = From(1, i + j + 0 + 0) BY <2>2, <2>8, InOneLine
  <2>10. i + j + 0 + 0 = p /\ 1 \in Unit BY <1>6, <2>7 DEF Unit
  <2>5. Len(From(1, p)) = p BY <2>10, FromIs
  <2>6. Joined(<<>>, <<>>) = <<>> BY DEF Joined
  <2> QED BY <1>3, <1>7, <2>1, <2>5, <2>6, <2>9, <2>10
<1>8. CASE tMode
  <2>1. PICK size \in Nat : size = IF numFilled = 0 THEN 0 ELSE saved[filledStart].size BY <1>2
  <2>2. PICK B \in Seq(Seq(Unit)) : B = buf[filledStart] BY <1>2
  <2>3. /\ numFilled \in {0, 1} /\ (numFilled = 1 => filledStart < numStarted)
        /\ cross = From(p + size + 1, Len(cross))
        /\ p + size + Len(cross) = readPos \/ p + size + Len(cross) >= StopAt
        /\ numFilled = 1 => Kept(filledStart) = From(p + 1, size)
    <3>1. CASE mpc = "prepare"
      <4>1. HandOver /\ NeedContinue /\ progRes = "OK" BY <1>1, <1>8, <3>1 DEF Single
      <4>2. Left(Len(out), B, saved[filledStart].start) /\ (numFilled = 1 => saved[filledStart].size # 0)
        BY <2>2, <4>1 DEF HandOver, Rest
      <4>3. p = Len(out) BY <1>3, <1>4, <1>6, <3>1
      <4>4. /\ numFilled \in {0, 1} /\ (numFilled = 1 => filledStart < numStarted)
            /\ numFilled = 1 => \E m \in 0 .. Len(B) : Chain(B, m, p, saved[filledStart].start, size)
            /\ cross = From(p + size + 1, Len(cross))
            /\ p + size + Len(cross) = readPos \/ p + size + Len(cross) >= StopAt
        BY <2>1, <4>2, <4>3 DEF Left
      <4>5. numFilled = 1 => Kept(filledStart) = From(p + 1, size)
        <5> SUFFICES ASSUME numFilled = 1 PROVE Kept(filledStart) = From(p + 1, size) OBVIOUS
        <5>1. PICK s \in Nat : s = saved[filledStart].start BY <1>2
        <5>2. Has(filledStart, B, s, size) /\ size \in Nat \ {0} BY <2>1, <2>2, <4>2, <5>1 DEF Has
        <5>3. \E m \in 0 .. Len(B) : Chain(B, m, p, s, size) BY <4>4, <5>1
        <5> QED BY <1>2, <5>2, <5>3, KeptWhole
      <4> QED BY <4>4, <4>5
    <3>2. CASE mpc \in {"fetch", "decode"}
      <4>1. PICK C : C = IF Used THEN Tail(buf[filledStart]) ELSE buf[filledStart] OBVIOUS
      <4>6. PICK n : n = LeftStart OBVIOUS
      <4>3. /\ Left(p, C, n)
            /\ numFilled = 1 => IF Used THEN /\ saved[filledStart].start = 0 /\ buf[filledStart] # <<>>
                                             /\ saved[filledStart].size # 0 => Small(buf[filledStart][2])
                                ELSE saved[filledStart].size # 0 /\ saved[filledStart].start # 0
        <5>1. CASE mpc = "fetch"
          <6>1. p = Len(out) BY <1>3, <1>4, <1>6, <5>1
          <6> QED BY <1>1, <1>8, <4>1, <4>6, <5>1, <6>1 DEF Single
        <5>2. CASE mpc = "decode"
          <6>1. p = Len(out) + Len(chunk) BY <1>3, <1>6, <5>2
          <6> QED BY <1>1, <1>8, <4>1, <4>6, <5>2, <6>1 DEF Single
        <5> QED BY <3>2, <5>1, <5>2
      <4>2. /\ Left(p, C, LeftStart)
            /\ numFilled = 1 => IF Used THEN /\ saved[filledStart].start = 0 /\ B # <<>>
                                             /\ saved[filledStart].size # 0 => Small(B[2])
                                ELSE saved[filledStart].size # 0 /\ saved[filledStart].start # 0
        BY <2>2, <4>3, <4>6
      <4>4. /\ numFilled \in {0, 1} /\ (numFilled = 1 => filledStart < numStarted)
            /\ numFilled = 1 => \E m \in 0 .. Len(C) : Chain(C, m, p, LeftStart, size)
            /\ cross = From(p + size + 1, Len(cross))
            /\ p + size + Len(cross) = readPos \/ p + size + Len(cross) >= StopAt
        BY <2>1, <4>2 DEF Left
      <4>5. numFilled = 1 => Kept(filledStart) = From(p + 1, size)
        <5> SUFFICES ASSUME numFilled = 1 PROVE Kept(filledStart) = From(p + 1, size) OBVIOUS
        <5>1. size = saved[filledStart].size BY <2>1
        <5>2. CASE Used
          <6>1. Has(filledStart, B, 0, size) /\ B # <<>> /\ (size # 0 => Small(B[2]))
            BY <2>2, <4>2, <5>1, <5>2 DEF Has
          <6>2. LeftStart = Minimum(BufSize, size) BY <4>2, <5>1, <5>2 DEF LeftStart
          <6>3. \E m \in 0 .. Len(Tail(B)) : Chain(Tail(B), m, p, Minimum(BufSize, size), size)
            BY <2>2, <4>1, <4>4, <5>2, <6>2
          <6> QED BY <1>2, <6>1, <6>3, KeptBehind
        <5>3. CASE ~Used
          <6>1. PICK s \in Nat : s = saved[filledStart].start BY <1>2
          <6>2. Has(filledStart, B, s, size) /\ size \in Nat \ {0} BY <2>2, <4>2, <5>1, <5>3, <6>1 DEF Has
          <6>3. LeftStart = s BY <4>2, <5>3, <6>1 DEF LeftStart
          <6>4. \E m \in 0 .. Len(B) : Chain(B, m, p, s, size) BY <2>2, <4>1, <4>4, <5>3, <6>3
          <6> QED BY <1>2, <6>2, <6>4, KeptWhole
        <5> QED BY <5>2, <5>3
      <4> QED BY <4>4, <4>5
    <3> QED BY <3>1, <3>2
  <2>4. p + 1 \in Unit BY DEF Unit
  <2>5. KeptInput = From(p + 1, size)
    <3>1. CASE numFilled = 0
      <4>1. KeptInput = <<>> /\ size = 0 BY <1>2, <2>1, <2>3, <3>1, KeptInputIs
      <4> QED BY <2>4, <4>1, FromIs
    <3>2. CASE numFilled = 1
      <4>1. KeptInput = Joined(<<>>, From(p + 1, size)) BY <1>2, <2>3, <3>2, KeptInputIs
      <4>2. From(p + 1, size) \in Seq(Unit) BY <2>4, FromIs
      <4>3. <<>> \o From(p + 1, size) = From(p + 1, size) BY <4>2, ConcatEmptySeq
      <4> QED BY <4>1, <4>3 DEF Joined
    <3> QED BY <2>3, <3>1, <3>2
  <2>6. PICK k \in Nat : k = p + size + Len(cross) BY <1>2, LenProperties
  <2>9. PICK i \in Nat, j \in Nat, l \in Nat : i = Len(out) /\ j = Len(pending) /\ l = Len(cross)
    BY <1>2, <1>4, LenProperties
  <2>10. InLine(out, pending, KeptInput, cross, i, j, size, l)
    <3>1. p + 1 = i + j + 1 /\ p + size + 1 = i + j + 1 + size /\ i + 1 = 1 + i BY <1>6, <2>9
    <3> QED BY <1>2, <1>5, <2>3, <2>5, <2>9, <3>1 DEF InLine
  <2>11. Joined(Joined(out, pending), Joined(KeptInput, cross)) = From(1, i + j + size + l)
    BY <2>10, InOneLine
  <2>12. i + j + size + l = k /\ 1 \in Unit BY <1>6, <2>6, <2>9 DEF Unit
  <2>13. Joined(Joined(out, pending), Joined(KeptInput, cross)) = From(1, k) BY <2>11, <2>12
  <2>7. Len(From(1, k)) = k BY <2>12, FromIs
  <2>8. k = readPos \/ k >= LastUnit BY <1>2, <2>3, <2>6
  <2> QED BY <1>3, <1>8, <2>3, <2>7, <2>8, <2>13
<1> QED BY <1>7, <1>8

\* Whatever the threads read and did not decode when the single-thread decoder takes over
\* is there, complete and in order: MtDec_PrepareRead_ST and MtDec_Read lose no input.
THEOREM InputIsKept == Spec => []NothingLost
<1>1. IInv /\ DInv => NothingLost BY DataIsKept
<1> QED BY <1>1, DataInvariant, PTL

-----------------------------------------------------------------------------
(* The decoder as a sequential decoder *)

\* Memory and threads may be missing, but nothing outside of the decoder fails, and the
\* streams are complete and correct.
Harmless ==
  /\ Faults \subseteq {"alloc", "thread"}
  /\ \A s \in Streams : s.bad = 0 /\ s.size >= s.ends[Len(s.ends)]

\* A call is being made.
Busy == mpc \in {"threads", "prepare", "fetch", "decode", "return"}

\* Without harm no error is recorded, and no more is written than there is.
Calm ==
  /\ Busy => calls > 0
  /\ readRes = "OK" /\ progRes = "OK" /\ ~refused
  /\ Len(out) <= LastUnit
  /\ mpc = "return" => result = "OK"

\* What Harmless says of the stream of a call.
LEMMA HarmlessStream ==
  ASSUME Harmless, stream \in Streams
  PROVE  Complete /\ StopAt = LastUnit /\ (\A p \in Nat : Sound(p)) /\ LastUnit \in Nat
<1>1. stream.bad = 0 /\ stream.size >= LastUnit
  BY DEF Harmless, LastUnit
<1>2. LastUnit \in Nat
  BY StreamIs DEF Unit
<1> QED BY <1>1, <1>2 DEF Complete, StopAt, Sound

\* The faults that Harmless excludes.
LEMMA HarmlessFaults ==
  ASSUME Harmless
  PROVE  ~May("read") /\ ~May("write") /\ ~May("progress") /\ ~May("allocST")
BY DEF Harmless, May

\* A step that writes nothing and neither begins nor ends a call is invisible.
LEMMA Invisible ==
  ASSUME UNCHANGED <<calls, stream, out>>, Busy' <=> Busy, ~Busy => result' = result
  PROVE  [Sequential!Next]_(Sequential!vars)
<1>1. LastUnit' = LastUnit
  BY DEF LastUnit
<1>2. UNCHANGED Sequential!vars
  BY <1>1 DEF Sequential!vars, Busy
<1> QED BY <1>2

\* A step that writes the units behind the output emits them.
LEMMA Emits ==
  ASSUME DataTypes, Busy, Busy', calls > 0, UNCHANGED <<calls, stream>>,
         NEW k \in Nat, out' = out \o From(Len(out) + 1, k), Len(out) + k <= LastUnit
  PROVE  [Sequential!Next]_(Sequential!vars)
<1>1. out \in Seq(Unit) /\ Len(out) \in Nat /\ stream \in Streams /\ calls \in Nat
  BY DEF DataTypes, MainTypes, WriterTypes
<1>2. LastUnit' = LastUnit /\ LastUnit \in Nat
  BY <1>1, StreamIs DEF LastUnit, Unit
<1>3. CASE k = 0
  <2>1. Len(out) + 1 \in Unit
    BY <1>1 DEF Unit
  <2>2. From(Len(out) + 1, 0) = <<>>
    BY <2>1, FromIs
  <2>3. out' = out
    BY <1>1, <1>3, <2>2, ConcatProperties
  <2> QED BY <2>3, Invisible
<1>4. CASE k # 0
  <2>1. From(Len(out) + 1, k) = [i \in 1 .. k |-> Len(out) + i]
    BY <1>1 DEF From
  <2>2. k \in 1 .. LastUnit
    BY <1>1, <1>2, <1>4
  <2>3. Sequential!Emit
    BY <1>1, <1>2, <2>1, <2>2 DEF Sequential!Emit, Busy
  <2> QED BY <2>3 DEF Sequential!Next
<1> QED BY <1>3, <1>4

\* A thread that does not write has no effect outside of the ring.
LEMMA QuietThread ==
  ASSUME Harmless, ControlTypes, Calm, NEW t \in Threads, Thread(t), ~Write(t)
  PROVE  UNCHANGED <<out, refused, readRes, progRes>>
<1>1. ~May("read") /\ ~May("progress")
  BY HarmlessFaults
<1>2. ProgressCall => progRes' = progRes
  BY <1>1 DEF ProgressCall
<1>3. CASE StartCheck(t) \/ ReadCheck(t) \/ CodeCheck(t)
  BY <1>2, <1>3 DEF StartCheck, ReadCheck, CodeCheck, CheckError, readerVars, writerVars
<1>4. CASE ReadStream(t)
  <2>1. PICK r \in Reads : readRes' = IF r[2] = "OK" THEN readRes ELSE r[2]
    BY <1>4 DEF ReadStream
  <2>2. r[2] = "OK"
    BY <1>1, <2>1 DEF Reads
  <2> QED BY <1>4, <2>1, <2>2 DEF ReadStream, writerVars, lockVars
<1>5. CASE TakeWrite(t)
  BY <1>2, <1>5 DEF TakeWrite, readerVars
<1>6. CASE TakeRead(t) \/ NoBuffer(t) \/ ReadCross(t)
  BY <1>6 DEF TakeRead, NoBuffer, ReadCross, readerVars, writerVars, lockVars
<1>7. CASE ParseOverflow(t) \/ ParseContinue(t) \/ ParseAll(t) \/ ParseAfterEnd(t) \/ ParseNew(t)
  BY <1>7 DEF ParseOverflow, ParseContinue, ParseAll, ParseAfterEnd, ParseNew, Parsed, MoveCross,
              readerVars, writerVars, lockVars
<1>8. CASE NoCrossBlock(t) \/ Recheck(t) \/ PreCode(t)
  BY <1>8 DEF NoCrossBlock, Recheck, PreCode, Parsed, readerVars, writerVars, lockVars
<1>9. CASE SpawnAndPass(t) \/ PassOnly(t) \/ SpawnFails(t)
  BY <1>9 DEF SpawnAndPass, PassOnly, SpawnFails, PassRead, Unspawned, readerVars, writerVars, lockVars
<1>10. CASE Code(t) \/ CodeInterrupt(t) \/ WriteInterrupt(t)
  BY <1>10 DEF Code, CodeInterrupt, WriteInterrupt, Interrupt, readerVars, writerVars, lockVars
<1>11. CASE Register(t)
  BY <1>11 DEF Register, readerVars, writerVars, lockVars
<1> QED BY <1>3, <1>4, <1>5, <1>6, <1>7, <1>8, <1>9, <1>10, <1>11 DEF Thread

\* Only in the ring a thread is at work on a block.
LEMMA WriterInRing ==
  ASSUME IInv, NEW t \in Threads, pc[t] \in WriterPcs
  PROVE  mpc = "threads" /\ ~Leaving
<1>1. pc[t] \notin {"none", "waitRead", "out", "exited"}
  BY DEF WriterPcs
<1>2. ~Parked(t)
  BY <1>1 DEF Parked
<1> QED BY <1>1, <1>2 DEF IInv, ControlTypes, MainPcs, Phases, AllRest, Leaving, Joining

\* Where the block that is being written begins.
LEMMA WriterBlock ==
  ASSUME IInv, DInv, NEW t \in Threads, pc[t] = "write"
  PROVE  \E p \in Nat : \E b : BlockOk(t, p, b) /\ Writing(t, p)
<1>1. pc[t] \in WriterPcs /\ HasBlock(t)
  BY DEF WriterPcs, WorkPcs, HasBlock
<1>2. PICK first, pos : Data(first, pos)
  BY <1>1, WriterInRing DEF DInv
<1>3. PICK b : b = local[t].block
  OBVIOUS
<1>4. b \in Unit
  BY <1>1, <1>3 DEF DInv, DataTypes, Numbered
<1>5. pos[b] \in Nat /\ BlockOk(t, pos[b], b) /\ Writing(t, pos[b])
  BY <1>1, <1>2, <1>3, <1>4 DEF Data
<1> QED BY <1>5

\* A block that is written ends with the stream or before.
LEMMA WrittenUpTo ==
  ASSUME ControlTypes, DataTypes, NEW t \in Threads, NEW p \in Nat, NEW b, BlockOk(t, p, b),
         pc[t] = "write", ToStream(local[t])
  PROVE  Len(coder[t].data) \in Nat /\ p + Len(coder[t].data) <= LastUnit
<1>1. coder[t].data \in Seq(Unit) /\ Len(coder[t].data) \in Nat /\ local[t].size \in Nat
      /\ LastUnit \in Nat
  <2>1. stream \in Streams
    BY DEF DataTypes, MainTypes
  <2>2. LastUnit \in Nat
    BY <2>1, StreamIs DEF Unit
  <2>3. coder[t].data \in Seq(Unit) /\ local[t].size \in Nat
    BY Fields
  <2> QED BY <2>2, <2>3, LenProperties
<1>2. Decoding(t, p, b)
  BY DEF BlockOk, WorkPcs, WriterPcs
<1>3. Facts(t, p) /\ Len(coder[t].data) <= local[t].size
  BY <1>2 DEF Decoding
<1>4. coder[t].state = "END" => p + local[t].size <= LastUnit
  BY <1>1, <1>3, StreamIs DEF Facts, DataTypes, MainTypes
<1>5. coder[t].state # "END" => p + local[t].size < LastUnit
  BY NoMismatch
<1>6. PICK n \in Nat, s \in Nat : n = Len(coder[t].data) /\ s = local[t].size
  BY <1>1
<1> QED BY <1>1, <1>3, <1>4, <1>5, <1>6

\* Without harm a thread writes all of its block, in one step, behind the output.
LEMMA WritesAll ==
  ASSUME Harmless, IInv, DInv, Calm, NEW t \in Threads, Write(t)
  PROVE  /\ UNCHANGED <<refused, readRes, progRes>>
         /\ \E k \in Nat : out' = out \o From(Len(out) + 1, k) /\ Len(out) + k <= LastUnit
<1>1. ControlTypes /\ DataTypes /\ WriterTypes /\ WriterOk /\ stream \in Streams
  BY DEF IInv, DInv, DataTypes, MainTypes, Always
<1>2. pc[t] = "write" /\ readRes' = readRes
  BY <1>1, WriteIs
<1>3. PICK p \in Nat : \E b : BlockOk(t, p, b) /\ Writing(t, p)
  BY <1>2, WriterBlock
<1>4. PICK b : BlockOk(t, p, b) /\ Writing(t, p)
  BY <1>3
<1>5. out \in Seq(Unit) /\ Len(out) \in Nat /\ Len(out) + 1 \in Unit
  BY <1>1 DEF WriterTypes, Unit
<1>6. CASE ~ToStream(local[t])
  <2>1. UNCHANGED <<out, refused, progRes>>
    BY <1>1, <1>6, WriteIs
  <2>2. From(Len(out) + 1, 0) = <<>>
    BY <1>5, FromIs
  <2>3. out' = out \o From(Len(out) + 1, 0)
    BY <1>5, <2>1, <2>2, ConcatProperties
  <2>4. Len(out) + 0 <= LastUnit
    BY <1>5 DEF Calm
  <2> QED BY <1>2, <2>1, <2>3, <2>4
<1>7. CASE ToStream(local[t])
  <2>1. PICK w \in Writes(coder[t].data) : WritesPart(t, w)
    BY <1>1, <1>4, <1>7, WriteCases
  <2>2. w = <<Len(coder[t].data), "OK">>
    BY HarmlessFaults DEF Writes
  <2>3. UNCHANGED <<refused, progRes>>
    <3>1. w[2] = "OK" /\ refused \in BOOLEAN
      BY <1>1, <2>2 DEF WriterTypes
    <3> QED BY <2>1, <3>1 DEF WritesPart
  <2>4. PICK k \in Nat : k = Len(coder[t].data) /\ p + k <= LastUnit
    BY <1>1, <1>2, <1>4, <1>7, WrittenUpTo
  <2>5. coder[t].data = From(p + 1, k) /\ p + 1 \in Unit
    BY <1>2, <1>4, <2>4 DEF BlockOk, WorkPcs, WriterPcs, Decoding, Unit
  <2>6. SubSeq(coder[t].data, 1, k) = From(p + 1, k)
    <3>1. k \in 0 .. k
      OBVIOUS
    <3> QED BY <2>5, <3>1, FromSub
  <2>7. out' = out \o From(p + 1, k)
    BY <2>1, <2>2, <2>4, <2>6 DEF WritesPart
  <2>8. CASE k = 0
    <3>1. From(p + 1, 0) = <<>> /\ From(Len(out) + 1, 0) = <<>>
      BY <1>5, <2>5, FromIs
    <3>2. Len(out) + 0 <= LastUnit
      BY <1>5 DEF Calm
    <3> QED BY <1>2, <2>3, <2>7, <2>8, <3>1, <3>2
  <2>9. CASE k # 0
    <3>1. coder[t].data # <<>>
      BY <2>4, <2>5, <2>9, FromIs
    <3>2. Len(out) = p
      BY <1>2, <1>4, <1>7, <3>1 DEF Writing, Ready
    <3> QED BY <1>2, <2>3, <2>4, <2>7, <3>2
  <2> QED BY <2>8, <2>9
<1> QED BY <1>6, <1>7

\* The length of the output after units were written.
LEMMA LongerOut ==
  ASSUME DataTypes, NEW k \in Nat, out' = out \o From(Len(out) + 1, k)
  PROVE  Len(out') = Len(out) + k
<1>1. out \in Seq(Unit) /\ Len(out) + 1 \in Unit
  BY DEF DataTypes, WriterTypes, Unit
<1>2. From(Len(out) + 1, k) \in Seq(Unit) /\ Len(From(Len(out) + 1, k)) = k
  BY <1>1, FromIs
<1> QED BY <1>1, <1>2, ConcatProperties

\* A step of a thread emits a block or is invisible.
LEMMA CalmThread ==
  ASSUME Harmless, IInv, DInv, Calm, NEW t \in Threads, Thread(t)
  PROVE  Calm' /\ [Sequential!Next]_(Sequential!vars)
<1>1. ControlTypes /\ DataTypes
  BY DEF IInv, DInv
<1>2. UNCHANGED <<mpc, calls, stream, result>>
  BY <1>1, Frame DEF mainVars
<1>3. (Busy' <=> Busy) /\ LastUnit' = LastUnit
  BY <1>2 DEF Busy, LastUnit
<1>4. CASE ~Write(t)
  <2>1. UNCHANGED <<out, refused, readRes, progRes>>
    BY <1>1, <1>4, QuietThread
  <2>2. Calm'
    BY <1>2, <1>3, <2>1 DEF Calm
  <2> QED BY <1>2, <1>3, <2>1, <2>2, Invisible
<1>5. CASE Write(t)
  <2>1. pc[t] \in WriterPcs
    BY <1>1, <1>5, WriteIs DEF WriterPcs
  <2>2. Busy /\ calls > 0
    BY <2>1, WriterInRing DEF Busy, Calm
  <2>3. /\ UNCHANGED <<refused, readRes, progRes>>
        /\ \E k \in Nat : out' = out \o From(Len(out) + 1, k) /\ Len(out) + k <= LastUnit
    BY <1>5, WritesAll
  <2>4. PICK k \in Nat : out' = out \o From(Len(out) + 1, k) /\ Len(out) + k <= LastUnit
    BY <2>3
  <2>5. Len(out') <= LastUnit'
    BY <1>1, <1>3, <2>4, LongerOut
  <2>6. Calm'
    BY <1>2, <1>3, <2>3, <2>5 DEF Calm
  <2> QED BY <1>1, <1>2, <1>3, <2>2, <2>4, <2>6, Emits
<1> QED BY <1>4, <1>5

\* Without harm the single-thread decoder writes what it decodes, and ends only at the
\* end of the stream.
LEMMA RoundWrites ==
  ASSUME Harmless, IInv, DInv, Calm, DecodeChunk
  PROVE  /\ UNCHANGED <<refused, readRes, progRes, calls, stream>> /\ mpc = "decode"
         /\ mpc' \in {"fetch", "return"} /\ (mpc' = "return" => result' = "OK")
         /\ \E k \in Nat : out' = out \o From(Len(out) + 1, k) /\ Len(out) + k <= LastUnit
<1>1. /\ mpc = "decode" /\ UNCHANGED <<calls, stream, readRes, progRes>>
  BY DEF DecodeChunk, readerVars, lockVars
<1>2. DataTypes /\ MainTypes /\ WriterTypes /\ ReaderOk /\ Single /\ stream \in Streams
  BY DEF DInv, DataTypes, MainTypes, Always
<1>3. Complete /\ StopAt = LastUnit /\ LastUnit \in Nat
  BY <1>2, HarmlessStream
<1>4. Len(out) < LastUnit /\ Sound(Len(out)) /\ chunk = From(Len(out) + 1, Len(chunk))
  BY <1>1, <1>2 DEF Single
<1>5. PICK p \in Nat, n \in Nat : p = Len(out) /\ n = Len(chunk)
  BY <1>2 DEF MainTypes, WriterTypes
<1>6. PICK own : own = Before(chunk, LastUnit + 1)
  OBVIOUS
<1>7. PICK d : d = RoundData(own)
  OBVIOUS
<1>8. PICK res : res = RoundResult(own, d)
  OBVIOUS
<1>9. PICK g \in 0 .. n :
        /\ d.data = From(p + 1, g)
        /\ res \in {"OK", "DATA", "INPUT_EOF", "more"}
        /\ res = "OK" => p + g = LastUnit
        /\ res = "DATA" => stream.bad # 0
        /\ res = "INPUT_EOF" => n = 0
        /\ res = "more" => p + g < LastUnit
  <2>1. own = Before(From(p + 1, n), LastUnit + 1) /\ p < LastUnit /\ Sound(p)
    BY <1>4, <1>5, <1>6
  <2>2. Rounds(own, d, res, p, n)
    BY <1>2, <1>7, <1>8, <2>1, RoundIs
  <2> QED BY <2>2 DEF Rounds
<1>10. /\ out' = out \o d.data /\ UNCHANGED refused
       /\ result' = res /\ mpc' = IF res = "more" THEN "fetch" ELSE "return"
  BY <1>6, <1>7, <1>8, HarmlessFaults DEF DecodeChunk, RoundResult, RoundData
<1>11. n # 0
  <2> SUFFICES ASSUME n = 0 PROVE FALSE
    OBVIOUS
  <2>1. chunk = <<>>
    BY <1>2, <1>5 DEF MainTypes
  <2>2. ~tMode /\ readPos >= stream.size
    BY <1>1, <1>2, <2>1 DEF Single, Calm
  <2>3. p = readPos \/ p >= LastUnit
    <3>1. Len(out) + Len(chunk) = readPos \/ Len(out) + Len(chunk) >= StopAt
      BY <1>1, <1>2, <2>2 DEF Single
    <3> QED BY <1>3, <1>5, <3>1
  <2>4. stream.size >= LastUnit /\ p < LastUnit
    BY <1>3, <1>4, <1>5 DEF Complete
  <2>5. stream.size \in Nat
    BY <1>2, StreamIs
  <2> QED BY <1>3, <1>5, <2>2, <2>3, <2>4, <2>5
<1>12. res \in {"OK", "more"}
  BY <1>3, <1>9, <1>11 DEF Complete
<1>13. g \in Nat /\ p + g <= LastUnit
  BY <1>3, <1>9, <1>12
<1>14. out' = out \o From(Len(out) + 1, g) /\ Len(out) + g <= LastUnit
  BY <1>5, <1>9, <1>10, <1>13
<1> QED BY <1>1, <1>10, <1>12, <1>13, <1>14

\* A call begins with an empty output.
LEMMA CalmDecode ==
  ASSUME Harmless, DataTypes, DataTypes', Calm, Decode
  PROVE  Calm' /\ [Sequential!Next]_(Sequential!vars)
<1>1. /\ ~Busy /\ calls < NumCalls /\ calls' = calls + 1 /\ calls \in Nat /\ out' = <<>>
      /\ readRes' = "OK" /\ refused' = FALSE
  BY DEF Decode, DataTypes, MainTypes, Busy
<1>2. mpc' \in {"threads", "prepare"} /\ progRes' = "OK"
  <2>1. PICK n \in ThreadCounts : IF n > 1 THEN StartThreads ELSE StartAlone
    BY DEF Decode
  <2> QED BY <2>1 DEF StartThreads, StartAlone, Calm
<1>3. stream' \in Streams /\ LastUnit' = stream'.ends[Len(stream'.ends)]
  BY DEF DataTypes, MainTypes, LastUnit
<1>4. LastUnit' \in Nat
  <2>1. PICK s \in Streams : s = stream'
    BY <1>3
  <2>2. Stream(s)
    BY ConstantsAssumption
  <2>3. s.ends[Len(s.ends)] \in Nat
    BY <2>2, EmptySeq, LenProperties, ElementOfSeq DEF Stream
  <2> QED BY <1>3, <2>1, <2>3
<1>5. Len(out') = 0 /\ Busy' /\ calls' > 0 /\ calls' # 0
  BY <1>1, <1>2, EmptySeq DEF Busy
<1>6. Calm'
  BY <1>1, <1>2, <1>4, <1>5 DEF Calm
<1>7. Sequential!Begin
  BY <1>1, <1>3, <1>5 DEF Sequential!Begin, Busy
<1> QED BY <1>6, <1>7 DEF Sequential!Next

\* A call ends with an answer that says that all is written.
LEMMA CallEnds ==
  ASSUME Harmless, DataTypes, DInv', Calm, Busy, mpc' = "idle", result' = "OK",
         UNCHANGED <<calls, stream, out, refused>>
  PROVE  [Sequential!Next]_(Sequential!vars)
<1>1. stream \in Streams /\ calls > 0 /\ calls \in Nat
  BY DEF DataTypes, MainTypes, Calm
<1>2. Complete
  BY <1>1, HarmlessStream
<1>3. LastUnit' = LastUnit /\ Complete' = Complete /\ ~refused'
  BY DEF LastUnit, Complete, Calm
<1>4. Len(out') = LastUnit'
  BY <1>2, <1>3 DEF DInv, Returning
<1>5. calls # 0 /\ ~Busy' /\ Len(out) = LastUnit
  BY <1>1, <1>3, <1>4 DEF Busy
<1>6. Sequential!Return
  BY <1>1, <1>3, <1>5 DEF Sequential!Return, Busy
<1> QED BY <1>6 DEF Sequential!Next

\* The caller takes what was read and not decoded, or reads on.
LEMMA CalmFetch ==
  ASSUME Harmless, Calm, FetchFilled \/ FetchCross \/ FetchNothing \/ FetchStream
  PROVE  Calm' /\ [Sequential!Next]_(Sequential!vars)
<1>1. /\ mpc = "fetch" /\ mpc' \in {"fetch", "decode"}
      /\ UNCHANGED <<calls, stream, out, refused, progRes>>
  BY DEF FetchFilled, FetchCross, FetchNothing, FetchStream, Unfetched, lockVars
<1>2. readRes' = "OK"
  BY HarmlessFaults DEF FetchFilled, FetchCross, FetchNothing, FetchStream, Calm
<1>3. LastUnit' = LastUnit /\ Busy /\ Busy'
  BY <1>1 DEF LastUnit, Busy
<1>4. Calm'
  BY <1>1, <1>2, <1>3 DEF Calm
<1> QED BY <1>1, <1>3, <1>4, Invisible

\* The destructor comes after the calls.
LEMMA CalmDestroy ==
  ASSUME Calm, Destroy \/ CloseThread \/ JoinThread \/ Destroyed
  PROVE  Calm' /\ [Sequential!Next]_(Sequential!vars)
<1>1. /\ ~Busy /\ ~Busy' /\ mpc' # "return"
      /\ UNCHANGED <<calls, stream, out, refused, progRes, readRes, result>>
  BY DEF Destroy, CloseThread, JoinThread, Destroyed, Busy, readerVars, writerVars, lockVars
<1>2. LastUnit' = LastUnit
  BY <1>1 DEF LastUnit
<1>3. Calm'
  BY <1>1, <1>2 DEF Calm
<1> QED BY <1>1, <1>3, Invisible

\* Every step is one of a sequential decoder, or invisible to it.
LEMMA CalmStep ==
  ASSUME Harmless, IInv, DInv, DInv', Calm, [Next]_vars
  PROVE  Calm' /\ [Sequential!Next]_(Sequential!vars)
<1>1. DataTypes /\ DataTypes'
  BY DEF DInv
<1>2. ASSUME NEW t \in Threads, Thread(t) PROVE Calm' /\ [Sequential!Next]_(Sequential!vars)
  BY <1>2, CalmThread
<1>3. CASE Decode
  BY <1>1, <1>3, CalmDecode
<1>4. CASE ThreadsReturn
  <2>1. /\ mpc = "threads" /\ UNCHANGED <<calls, stream, out, refused, progRes, readRes>>
        /\ (mpc' = "idle" /\ result' = readRes) \/ mpc' = "prepare"
    BY <1>4 DEF ThreadsReturn, Calm, readerVars, writerVars, lockVars
  <2>2. Busy /\ LastUnit' = LastUnit
    BY <2>1 DEF Busy, LastUnit
  <2>3. CASE mpc' = "idle" /\ result' = readRes
    <3>1. result' = "OK" /\ ~Busy'
      BY <2>3 DEF Calm, Busy
    <3>2. Calm'
      BY <2>1, <2>2, <2>3, <3>1 DEF Calm
    <3> QED BY <1>1, <2>1, <2>2, <2>3, <3>1, <3>2, CallEnds
  <2>4. CASE mpc' = "prepare"
    <3>1. Busy'
      BY <2>4 DEF Busy
    <3>2. Calm'
      BY <2>1, <2>2, <2>4 DEF Calm
    <3> QED BY <2>1, <2>2, <3>1, <3>2, Invisible
  <2> QED BY <2>1, <2>3, <2>4
<1>5. CASE Prepare
  <2>1. mpc = "prepare" /\ mpc' = "fetch" /\ UNCHANGED <<calls, stream, out, refused, progRes, readRes>>
    BY <1>5, HarmlessFaults DEF Prepare, writerVars, lockVars
  <2>2. Busy /\ Busy' /\ LastUnit' = LastUnit
    BY <2>1 DEF Busy, LastUnit
  <2>3. Calm'
    BY <2>1, <2>2 DEF Calm
  <2> QED BY <2>1, <2>2, <2>3, Invisible
<1>6. CASE FetchFilled \/ FetchCross \/ FetchNothing \/ FetchStream
  BY <1>6, CalmFetch
<1>7. CASE DecodeChunk
  <2>1. /\ UNCHANGED <<refused, readRes, progRes, calls, stream>> /\ mpc = "decode"
        /\ mpc' \in {"fetch", "return"} /\ (mpc' = "return" => result' = "OK")
        /\ \E k \in Nat : out' = out \o From(Len(out) + 1, k) /\ Len(out) + k <= LastUnit
    BY <1>7, RoundWrites
  <2>2. PICK k \in Nat : out' = out \o From(Len(out) + 1, k) /\ Len(out) + k <= LastUnit
    BY <2>1
  <2>3. Busy /\ Busy' /\ LastUnit' = LastUnit /\ calls > 0
    BY <2>1 DEF Busy, LastUnit, Calm
  <2>4. Len(out') <= LastUnit'
    BY <1>1, <2>2, <2>3, LongerOut
  <2>5. Calm'
    BY <2>1, <2>3, <2>4 DEF Calm
  <2> QED BY <1>1, <2>1, <2>2, <2>3, <2>5, Emits
<1>8. CASE Return
  <2>1. /\ mpc = "return" /\ mpc' = "idle" /\ UNCHANGED <<calls, stream, out, refused, progRes, readRes>>
        /\ result' = "OK"
    BY <1>8 DEF Return, Calm, readerVars, writerVars, lockVars
  <2>2. Busy /\ ~Busy' /\ LastUnit' = LastUnit
    BY <2>1 DEF Busy, LastUnit
  <2>3. Calm'
    BY <2>1, <2>2 DEF Calm
  <2> QED BY <1>1, <2>1, <2>2, <2>3, CallEnds
<1>9. CASE Destroy \/ CloseThread \/ JoinThread \/ Destroyed
  BY <1>9, CalmDestroy
<1>10. CASE UNCHANGED vars
  <2>1. UNCHANGED <<mpc, calls, stream, out, refused, progRes, readRes, result>>
    BY <1>10 DEF vars, mainVars, readerVars, writerVars, lockVars
  <2>2. (Busy' <=> Busy) /\ LastUnit' = LastUnit
    BY <2>1 DEF Busy, LastUnit
  <2>3. Calm'
    BY <2>1, <2>2 DEF Calm
  <2> QED BY <2>1, <2>2, <2>3, Invisible
<1> QED BY <1>2, <1>3, <1>4, <1>5, <1>6, <1>7, <1>8, <1>9, <1>10 DEF Next, Main, Finished

\* ImplementsSequentialDecoder: as long as only memory and threads are missing, and the
\* streams are complete and correct, MtDec does what one thread with enough memory does:
\* blocks that are too large, the end of the ring and the single-thread decoder that goes
\* on behind it are not visible.
THEOREM DecodesSequentially == ASSUME Harmless PROVE Spec => ImplementsSequentialDecoder
<1>1. Init => Calm /\ Sequential!Init
  <2> SUFFICES ASSUME Init PROVE Calm /\ Sequential!Init
    OBVIOUS
  <2>1. stream \in Streams /\ out = <<>> /\ Len(out) = 0
    BY EmptySeq DEF Init
  <2>2. LastUnit \in Nat
    BY <2>1, HarmlessStream
  <2> QED BY <2>1, <2>2 DEF Init, Calm, Busy, Sequential!Init
<1>2. IInv /\ DInv /\ DInv' /\ Calm /\ [Next]_vars => Calm' /\ [Sequential!Next]_(Sequential!vars)
  BY CalmStep
<1> QED
  BY DataInvariant, <1>1, <1>2, PTL DEF Spec, ImplementsSequentialDecoder, Sequential!Spec
==============================================================================
