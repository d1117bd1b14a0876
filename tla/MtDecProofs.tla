---------------------------- MODULE MtDecProofs ----------------------------
(* Proofs about the threads of the block decoder (MtDec), for any number of  *)
(* threads, any streams, any number of calls and any faults: the ring of the *)
(* threads, and what a thread knows of its block until it writes.  The data  *)
(* that is written and handed over is the subject of MtDecDataProofs.        *)
EXTENDS MtDec, FiniteSetTheorems, SequenceTheorems, WellFoundedInduction, TLAPS

\* The places of a thread that has a block and has given canRead away, or keeps it
\* because its block is the last of the ring.
WorkPcs == {"code", "codeCheck", "interrupt", "waitWrite"} \cup WriterPcs

FieldNames == DOMAIN NewLocal

\* The types of what decides where the threads go.
ControlTypes ==
  /\ mpc \in MainPcs
  /\ pc \in [Threads -> ThreadPcs]
  /\ canRead \in [Threads -> BOOLEAN] /\ canWrite \in [Threads -> BOOLEAN]
  /\ DOMAIN local = Threads
  /\ \A t \in Threads : /\ DOMAIN local[t] = FieldNames
                        /\ local[t].next \in Threads
                        /\ {local[t].finish, local[t].needContinue} \subseteq BOOLEAN
  /\ exitThread \in BOOLEAN /\ readWasFinished \in BOOLEAN
  /\ numStarted \in 0 .. NumThreads /\ limit \in 1 .. NumThreads
  /\ freeIdx \in Nat

\* A thread that has nothing to do.
Waits(t)  == pc[t] = "waitRead" /\ ~canRead[t] /\ ~canWrite[t]
Parked(t) == pc[t] \in {"none", "waitRead"} /\ ~canRead[t] /\ ~canWrite[t]

\* The place t in a ring of n threads that is entered at f.
Dist(f, t, n) == IF t >= f THEN t - f ELSE t + n - f

\* Thread t has one of the k blocks that lie in front of canRead; behind it in the ring is
\* the thread that has the next block or gets it.
Working(t, n) == /\ pc[t] \in WorkPcs
                 /\ ~local[t].finish
                 /\ local[t].next = NextIndex(t, n)

\* Thread t has canRead, or keeps it for ever.
Reader(t) == \/ pc[t] = "waitRead" /\ canRead[t]
             \/ pc[t] \in ReaderPcs /\ ~canRead[t] /\ (pc[t] = "pass" => ~local[t].finish)
             \/ pc[t] \in WorkPcs /\ ~canRead[t] /\ local[t].finish

\* The ring: from f on k threads with blocks, then the reader, then those that wait.
InRing(t, f, k, n) ==
  LET d == Dist(f, t, n) IN
  /\ d < k => Working(t, n) /\ (canRead[t] <=> d = 0 /\ k = n)
  /\ d = k => Reader(t)
  /\ d > k => pc[t] = "waitRead" /\ ~canRead[t]
  /\ IF d = 0 THEN canWrite[t] <=> pc[t] \notin WriterPcs
              ELSE ~canWrite[t] /\ pc[t] \notin WriterPcs

Ring(f, k) ==
  /\ numStarted <= limit /\ (numStarted < limit => f + k < numStarted)
  /\ \A t \in Threads : IF t < numStarted THEN InRing(t, f, k, numStarted) ELSE Parked(t)

\* A thread other than the caller has ended the ring, and the caller is to leave it.
Leaving ==
  /\ pc[0] \in {"waitRead", "out"} /\ ~canWrite[0]
  /\ pc[0] = "waitRead" => canRead[0] /\ exitThread
  /\ pc[0] = "out" => ~canRead[0]
  /\ \A t \in Threads : t # 0 => Parked(t)

AllRest == pc[0] = "none" /\ \A t \in Threads : Parked(t)

Joining(i) ==
  /\ i # 0 /\ exitThread /\ pc[0] = "none"
  /\ pc[i] \in {"waitRead", "exited"} /\ (pc[i] = "waitRead" => canRead[i])
  /\ \A t \in Threads : t # i => Parked(t)

Phases ==
  /\ mpc \in {"idle", "prepare", "fetch", "decode", "return", "close", "end"} => AllRest
  /\ mpc = "threads" =>
       \/ Leaving
       \/ /\ ~exitThread /\ numStarted >= 1
          /\ \E f \in 0 .. numStarted - 1 : \E k \in 0 .. numStarted : Ring(f, k)
  /\ mpc = "close" => freeIdx >= 1 /\ exitThread
  /\ mpc = "join" => freeIdx \in Threads /\ Joining(freeIdx)

IInv == ControlTypes /\ Phases

-----------------------------------------------------------------------------
(* What a step of a thread does to the ring *)

\* What a step of thread t leaves alone.
LocalStep(t) ==
  /\ DOMAIN local' = Threads
  /\ \A u \in Threads : u # t => local'[u] = local[u]
  /\ DOMAIN local'[t] = FieldNames /\ local'[t].next \in Threads
  /\ {local'[t].finish, local'[t].needContinue} \subseteq BOOLEAN

OnlyThread(t) ==
  /\ UNCHANGED <<mpc, freeIdx>> /\ readWasFinished' \in BOOLEAN
  /\ LocalStep(t)

Alone(t, to) == pc' = [pc EXCEPT ![t] = to]

Quiet == UNCHANGED <<canRead, exitThread, numStarted, limit>>

\* The reader goes on, or its block turns out to be the last.
ReaderStep(t) ==
  /\ pc[t] \in ReaderPcs
  /\ OnlyThread(t) /\ Quiet /\ UNCHANGED canWrite
  /\ Alone(t, pc'[t]) /\ pc'[t] \in ReaderPcs \cup {"code", "waitWrite"}
  /\ pc'[t] = "pass" => ~local'[t].finish
  /\ pc'[t] \in {"code", "waitWrite"} => local'[t].finish

\* A thread with a block goes on.
WorkerStep(t) ==
  /\ pc[t] \in WorkPcs
  /\ OnlyThread(t) /\ Quiet
  /\ local'[t].finish = local[t].finish /\ local'[t].next = local[t].next
  /\ Alone(t, pc'[t]) /\ pc'[t] \in WorkPcs
  /\ \/ pc[t] \in WriterPcs /\ pc'[t] \in WriterPcs /\ UNCHANGED canWrite
     \/ pc[t] \notin WriterPcs /\ pc'[t] \notin WriterPcs /\ UNCHANGED canWrite
     \/ /\ pc[t] \notin WriterPcs /\ pc'[t] \in WriterPcs
        /\ canWrite[t] /\ canWrite' = [canWrite EXCEPT ![t] = FALSE]

\* canRead goes to the thread behind t, which may have been created for it.
PassStep(t) ==
  /\ pc[t] = "pass"
  /\ OnlyThread(t) /\ UNCHANGED exitThread
  /\ local'[t].finish = local[t].finish
  /\ \/ /\ numStarted < limit
        /\ numStarted' = numStarted + 1 /\ UNCHANGED limit
        /\ canRead' = [canRead EXCEPT ![numStarted] = FALSE,
                                      ![NextIndex(t, numStarted + 1)] = TRUE]
        /\ canWrite' = [canWrite EXCEPT ![numStarted] = FALSE]
        /\ pc' = [pc EXCEPT ![t] = "code",
                            ![numStarted] = IF @ = "none" THEN "waitRead" ELSE @]
        /\ local'[t].next = NextIndex(t, numStarted + 1)
     \/ /\ limit' \in {limit, numStarted} /\ numStarted >= limit'
        /\ limit' \in 1 .. NumThreads
        /\ UNCHANGED <<numStarted, canWrite>>
        /\ canRead' = [canRead EXCEPT ![NextIndex(t, numStarted)] = TRUE]
        /\ Alone(t, "code")
        /\ local'[t].next = NextIndex(t, numStarted)

\* The thread of the caller.
LEMMA Zero == 0 \in Threads
BY ConstantsAssumption DEF Threads

\* Threads are numbers.
LEMMA ThreadIsNat == Threads \subseteq Nat
BY ConstantsAssumption DEF Threads

\* The thread behind t in the ring is one of those started.
LEMMA NextIsThread ==
  ASSUME NEW t \in Threads, NEW n \in 1 .. NumThreads
  PROVE  NextIndex(t, n) \in Threads
BY ConstantsAssumption DEF Threads, NextIndex

\* The locals after the last input of a block.
LEMMA LastParsedFields ==
  ASSUME NEW l, DOMAIN l = FieldNames, NEW t, NEW n, NEW f
  PROVE  /\ DOMAIN LastParsed(t, l, n, f) = FieldNames
         /\ LastParsed(t, l, n, f).finish = f
         /\ LastParsed(t, l, n, f).next = l.next
         /\ LastParsed(t, l, n, f).needContinue = l.needContinue
BY DEF LastParsed, FieldNames, NewLocal

\* The actions of the reader.
LEMMA ReaderActions ==
  ASSUME ControlTypes, NEW t \in Threads,
         \/ StartCheck(t) \/ ReadCheck(t) \/ NoBuffer(t) \/ ReadCross(t) \/ ReadStream(t)
         \/ ParseOverflow(t) \/ ParseContinue(t) \/ ParseAll(t) \/ ParseAfterEnd(t)
         \/ ParseNew(t) \/ NoCrossBlock(t) \/ Recheck(t) \/ PreCode(t)
  PROVE  ReaderStep(t)
<1> DEFINE Goes == Alone(t, pc'[t]) /\ pc'[t] \in ReaderPcs \cup {"code", "waitWrite"}
           Ends == /\ pc'[t] = "pass" => ~local'[t].finish
                   /\ pc'[t] \in {"code", "waitWrite"} => local'[t].finish
           Local == LocalStep(t)
           Rest  == /\ UNCHANGED <<mpc, freeIdx, canRead, canWrite, exitThread, numStarted, limit>>
                    /\ readWasFinished' \in BOOLEAN
<1> SUFFICES pc[t] \in ReaderPcs /\ Goes /\ Ends /\ Local /\ Rest
  BY DEF ReaderStep, OnlyThread, Quiet
<1>0. /\ DOMAIN local = Threads /\ DOMAIN local[t] = FieldNames /\ local[t].next \in Threads
      /\ local[t].finish \in BOOLEAN /\ local[t].needContinue \in BOOLEAN
      /\ pc \in [Threads -> ThreadPcs] /\ readWasFinished \in BOOLEAN
  BY DEF ControlTypes
<1> USE <1>0 DEF FieldNames, NewLocal
<1>1. CASE StartCheck(t)
  <2>1. pc[t] \in ReaderPcs /\ Rest
    BY <1>1 DEF StartCheck, CheckError, ReaderPcs, mainVars, readerVars, writerVars
  <2>2. Local
    BY <1>1 DEF StartCheck, CheckError, LocalStep
  <2>3. Goes /\ Ends
    BY <1>1 DEF StartCheck, CheckError, Alone, ReaderPcs
  <2> QED BY <2>1, <2>2, <2>3
<1>2. CASE ReadCheck(t)
  <2>1. pc[t] \in ReaderPcs /\ Rest
    BY <1>2 DEF ReadCheck, CheckError, ReaderPcs, mainVars, readerVars, writerVars
  <2>2. Local
    BY <1>2 DEF ReadCheck, CheckError, LocalStep
  <2>3. Goes /\ Ends
    BY <1>2 DEF ReadCheck, CheckError, Alone, ReaderPcs
  <2> QED BY <2>1, <2>2, <2>3
<1>3. CASE NoBuffer(t)
  <2>1. pc[t] \in ReaderPcs /\ Rest
    BY <1>3 DEF NoBuffer, ReaderPcs, mainVars, readerVars, writerVars
  <2>2. Local
    BY <1>3 DEF NoBuffer, LocalStep
  <2>3. Goes /\ Ends
    BY <1>3 DEF NoBuffer, Alone, ReaderPcs
  <2> QED BY <2>1, <2>2, <2>3
<1>4. CASE ReadCross(t)
  <2>1. pc[t] \in ReaderPcs /\ Rest
    BY <1>4 DEF ReadCross, ReaderPcs, mainVars, readerVars, writerVars
  <2>2. Local
    BY <1>4 DEF ReadCross, LocalStep
  <2>3. Goes /\ Ends
    BY <1>4 DEF ReadCross, Alone, ReaderPcs
  <2> QED BY <2>1, <2>2, <2>3
<1>5. CASE ReadStream(t)
  <2>1. pc[t] \in ReaderPcs /\ Rest
    BY <1>5 DEF ReadStream, ReaderPcs, mainVars, readerVars, writerVars
  <2>2. PICK r \in Reads :
          local' = [local EXCEPT
            ![t].src = From(readPos + 1, r[1]), ![t].isCross = FALSE,
            ![t].finish = (r[1] # BufSize \/ r[2] # "OK"), ![t].size = @ + r[1],
            ![t].start = IF local[t].link = 0 THEN r[1] ELSE @]
    BY <1>5 DEF ReadStream
  <2>3. Local
    BY <2>2 DEF LocalStep
  <2>4. Goes
    BY <1>5 DEF ReadStream, Alone, ReaderPcs
  <2>5. Ends
    BY <1>5 DEF ReadStream, ReaderPcs
  <2> QED BY <2>1, <2>3, <2>4, <2>5
<1>6. CASE ParseOverflow(t)
  <2>1. pc[t] \in ReaderPcs /\ Rest
    BY <1>6 DEF ParseOverflow, Parsed, ReaderPcs, mainVars, readerVars, writerVars
  <2>2. Local
    BY <1>6 DEF ParseOverflow, Parsed, LocalStep
  <2>3. Goes /\ Ends
    BY <1>6 DEF ParseOverflow, Parsed, Alone, ReaderPcs
  <2> QED BY <2>1, <2>2, <2>3
<1>7. CASE ParseContinue(t)
  <2>1. pc[t] \in ReaderPcs /\ Rest
    BY <1>7 DEF ParseContinue, Parsed, ReaderPcs, mainVars, readerVars, writerVars
  <2>2. Local
    BY <1>7 DEF ParseContinue, Parsed, LocalStep
  <2>3. Goes /\ Ends
    BY <1>7 DEF ParseContinue, Parsed, Alone, ReaderPcs
  <2> QED BY <2>1, <2>2, <2>3
<1>8. CASE ParseAll(t)
  <2>1. pc[t] \in ReaderPcs /\ Rest
    BY <1>8 DEF ParseAll, Parsed, ReaderPcs, mainVars, readerVars, writerVars
  <2>2. PICK o \in Outcomes(t), f \in BOOLEAN : local' = [local EXCEPT ![t] = LastParsed(t, local[t], o.n, f)]
    BY <1>8 DEF ParseAll, Parsed
  <2>3. Local
    BY <2>2, LastParsedFields DEF LocalStep
  <2>4. Goes /\ Ends
    BY <1>8 DEF ParseAll, Parsed, Alone, ReaderPcs
  <2> QED BY <2>1, <2>3, <2>4
<1>9. CASE ParseAfterEnd(t)
  <2>1. pc[t] \in ReaderPcs /\ Rest
    BY <1>9 DEF ParseAfterEnd, Parsed, ReaderPcs, mainVars, readerVars, writerVars
  <2>2. PICK o \in Outcomes(t), f \in BOOLEAN : local' = [local EXCEPT ![t] = LastParsed(t, local[t], o.n, f)]
    BY <1>9 DEF ParseAfterEnd, Parsed
  <2>3. Local
    BY <2>2, LastParsedFields DEF LocalStep
  <2>4. Goes /\ Ends
    BY <1>9 DEF ParseAfterEnd, Parsed, Alone, ReaderPcs
  <2> QED BY <2>1, <2>3, <2>4
<1>10. CASE ParseNew(t)
  <2>1. pc[t] \in ReaderPcs /\ Rest
    BY <1>10 DEF ParseNew, Parsed, ReaderPcs, mainVars, readerVars, writerVars
  <2>2. PICK o \in Outcomes(t), f \in BOOLEAN : local' = [local EXCEPT ![t] = LastParsed(t, local[t], o.n, f)]
    BY <1>10 DEF ParseNew, Parsed
  <2>3. Local
    BY <2>2, LastParsedFields DEF LocalStep
  <2>4. Goes /\ Ends
    BY <1>10 DEF ParseNew, Parsed, Alone, ReaderPcs
  <2> QED BY <2>1, <2>3, <2>4
<1>11. CASE NoCrossBlock(t)
  <2>1. pc[t] \in ReaderPcs /\ Rest
    BY <1>11 DEF NoCrossBlock, Parsed, ReaderPcs, mainVars, readerVars, writerVars
  <2>2. Local
    BY <1>11 DEF NoCrossBlock, Parsed, LocalStep
  <2>3. Goes /\ Ends
    BY <1>11 DEF NoCrossBlock, Parsed, Alone, ReaderPcs
  <2> QED BY <2>1, <2>2, <2>3
<1>12. CASE Recheck(t)
  <2>1. pc[t] \in ReaderPcs /\ Rest
    BY <1>12 DEF Recheck, ReaderPcs, mainVars, readerVars, writerVars
  <2>2. Local
    BY <1>12 DEF Recheck, LocalStep
  <2>3. Goes /\ Ends
    BY <1>12 DEF Recheck, Alone, ReaderPcs
  <2> QED BY <2>1, <2>2, <2>3
<1>13. CASE PreCode(t)
  <2>1. pc[t] \in ReaderPcs /\ Rest
    BY <1>13 DEF PreCode, ReaderPcs, mainVars, readerVars, writerVars
  <2> DEFINE good == local[t].res = "OK" /\ ~local[t].interrupted
             f(r) == local[t].finish \/ ~good \/ r # "OK"
  <2>2. PICK r : 
          /\ local' = [local EXCEPT ![t].codeRes = r, ![t].finish = f(r),
                         ![t].needCode = @ /\ r = "OK", ![t].link = 0]
          /\ pc' = [pc EXCEPT ![t] = IF ~f(r) THEN "pass"
                                     ELSE IF good /\ local[t].needCode /\ r = "OK"
                                          THEN "code" ELSE "waitWrite"]
    BY <1>13 DEF PreCode
  <2>3. Local /\ local'[t].finish = f(r)
    BY <2>2 DEF LocalStep
  <2>4. Goes
    BY <2>2 DEF Alone, ReaderPcs
  <2>5. Ends
    BY <2>2, <2>3 DEF ReaderPcs
  <2> QED BY <2>1, <2>3, <2>4, <2>5
<1> QED BY <1>1, <1>2, <1>3, <1>4, <1>5, <1>6, <1>7, <1>8, <1>9, <1>10, <1>11, <1>12, <1>13

\* The actions of a thread with a block, but for the last.
LEMMA WorkerActions ==
  ASSUME ControlTypes, NEW t \in Threads,
         \/ Code(t) \/ CodeCheck(t) \/ CodeInterrupt(t) \/ WriteInterrupt(t) \/ Write(t)
         \/ TakeWrite(t)
  PROVE  WorkerStep(t)
<1> DEFINE Goes == Alone(t, pc'[t]) /\ pc'[t] \in WorkPcs
           Same == /\ pc[t] \in WriterPcs <=> pc'[t] \in WriterPcs
                   /\ UNCHANGED canWrite
           Takes == /\ pc[t] \notin WriterPcs /\ pc'[t] \in WriterPcs
                    /\ canWrite[t] /\ canWrite' = [canWrite EXCEPT ![t] = FALSE]
           Local == LocalStep(t) /\ local'[t].finish = local[t].finish
                                 /\ local'[t].next = local[t].next
           Rest  == /\ UNCHANGED <<mpc, freeIdx, canRead, exitThread, numStarted, limit>>
                    /\ readWasFinished' \in BOOLEAN
<1> SUFFICES pc[t] \in WorkPcs /\ Goes /\ Local /\ Rest /\ (Same \/ Takes)
  BY DEF WorkerStep, OnlyThread, Quiet
<1>0. /\ DOMAIN local = Threads /\ DOMAIN local[t] = FieldNames /\ local[t].next \in Threads
      /\ local[t].finish \in BOOLEAN /\ local[t].needContinue \in BOOLEAN
      /\ pc \in [Threads -> ThreadPcs] /\ readWasFinished \in BOOLEAN
  BY DEF ControlTypes
<1> USE <1>0 DEF FieldNames, NewLocal
<1>1. CASE Code(t)
  <2>1. pc[t] \in WorkPcs /\ Rest /\ UNCHANGED canWrite
    BY <1>1 DEF Code, WorkPcs, mainVars, readerVars, writerVars
  <2>2. Local
    BY <1>1 DEF Code, LocalStep
  <2>3. Goes /\ Same
    BY <1>1, <2>1 DEF Code, Alone, WorkPcs, WriterPcs
  <2> QED BY <2>1, <2>2, <2>3
<1>2. CASE CodeCheck(t)
  <2>1. pc[t] \in WorkPcs /\ Rest /\ UNCHANGED canWrite
    BY <1>2 DEF CodeCheck, CheckError, WorkPcs, mainVars, readerVars, writerVars
  <2>2. Local
    BY <1>2 DEF CodeCheck, CheckError, LocalStep
  <2>3. Goes /\ Same
    BY <1>2, <2>1 DEF CodeCheck, CheckError, Alone, WorkPcs, WriterPcs
  <2> QED BY <2>1, <2>2, <2>3
<1>3. CASE CodeInterrupt(t) \/ WriteInterrupt(t)
  <2>1. pc[t] \in WorkPcs /\ Rest /\ UNCHANGED canWrite
    BY <1>3 DEF CodeInterrupt, WriteInterrupt, Interrupt, WorkPcs, WriterPcs, mainVars,
        readerVars, writerVars
  <2>2. Local
    BY <1>3 DEF CodeInterrupt, WriteInterrupt, Interrupt, LocalStep
  <2>3. Goes /\ Same
    BY <1>3, <2>1 DEF CodeInterrupt, WriteInterrupt, Interrupt, Alone, WorkPcs, WriterPcs
  <2> QED BY <2>1, <2>2, <2>3
<1>4. CASE Write(t)
  <2>1. pc[t] \in WorkPcs /\ Rest /\ UNCHANGED canWrite
    BY <1>4 DEF Write, WorkPcs, WriterPcs, mainVars, readerVars
  <2> DEFINE After(res, c, r) ==
          /\ local' = [local EXCEPT ![t].res = res, ![t].needContinue = c, ![t].canRecode = r]
          /\ pc' = [pc EXCEPT ![t] = IF res # "OK" \/ (~c /\ ~local[t].finish)
                                     THEN "interrupt2" ELSE "register"]
  <2>2. \E res, c, r : c \in BOOLEAN /\ After(res, c, r)
    <3>1. CASE ~ToStream(local[t])
      <4>1. After("OK", FALSE, TRUE) BY <1>4, <3>1 DEF Write
      <4>2. FALSE \in BOOLEAN
        OBVIOUS
      <4> QED BY <4>1, <4>2
    <3>2. CASE ToStream(local[t]) /\ Mismatch(t)
      <4>1. After("FAIL", FALSE, TRUE) BY <1>4, <3>2 DEF Write
      <4> QED BY <4>1
    <3>3. CASE ToStream(local[t]) /\ ~Mismatch(t)
      <4>1. PICK w \in Writes(coder[t].data) :
              After(w[2], w[2] = "OK" /\ coder[t].state \notin {"OVERFLOW", "END"}, FALSE)
        BY <1>4, <3>3 DEF Write
      <4> DEFINE c == w[2] = "OK" /\ coder[t].state \notin {"OVERFLOW", "END"}
      <4>2. c \in BOOLEAN
        OBVIOUS
      <4>3. After(w[2], c, FALSE)
        BY <4>1
      <4> HIDE DEF c, After
      <4> QED BY <4>2, <4>3
    <3> QED BY <3>1, <3>2, <3>3
  <2> PICK res, c, r : c \in BOOLEAN /\ After(res, c, r)
    BY <2>2
  <2>3. Local
    BY DEF LocalStep
  <2>4. Goes /\ Same
    <3>1. pc[t] = "write" BY <1>4 DEF Write
    <3> QED BY <2>1, <3>1 DEF Alone, WorkPcs, WriterPcs
  <2> QED BY <2>1, <2>3, <2>4
<1>5. CASE TakeWrite(t)
  <2>1. pc[t] \in WorkPcs /\ Rest
    BY <1>5 DEF TakeWrite, WorkPcs, mainVars, readerVars
  <2>2. Local
    BY <1>5 DEF TakeWrite, LocalStep
  <2>3. Goes /\ Takes
    BY <1>5 DEF TakeWrite, Alone, WorkPcs, WriterPcs, Consumed
  <2> QED BY <2>1, <2>2, <2>3
<1> QED BY <1>1, <1>2, <1>3, <1>4, <1>5

\* The actions that pass canRead on.
LEMMA PassActions ==
  ASSUME ControlTypes, NEW t \in Threads, t < numStarted,
         \/ SpawnAndPass(t) \/ PassOnly(t) \/ SpawnFails(t)
  PROVE  ReaderStep(t) \/ PassStep(t)
<1>0. /\ DOMAIN local = Threads /\ DOMAIN local[t] = FieldNames /\ local[t].next \in Threads
      /\ local[t].finish \in BOOLEAN /\ local[t].needContinue \in BOOLEAN
      /\ pc \in [Threads -> ThreadPcs] /\ numStarted \in 1 .. NumThreads
      /\ limit \in 1 .. NumThreads /\ readWasFinished \in BOOLEAN
  BY ThreadIsNat DEF ControlTypes
<1> USE <1>0 DEF FieldNames, NewLocal
<1>1. CASE SpawnAndPass(t)
  <2>1. /\ pc[t] = "pass" /\ UNCHANGED <<mpc, freeIdx, exitThread, limit>>
        /\ readWasFinished' = readWasFinished
        /\ numStarted < limit /\ numStarted' = numStarted + 1
        /\ canWrite' = [canWrite EXCEPT ![numStarted] = FALSE]
        /\ canRead' = [canRead EXCEPT ![numStarted] = FALSE,
                                      ![NextIndex(t, numStarted + 1)] = TRUE]
        /\ pc' = [pc EXCEPT ![t] = "code",
                            ![numStarted] = IF @ = "none" THEN "waitRead" ELSE @]
    BY <1>1 DEF SpawnAndPass, MaySpawn, Unspawned, mainVars
  <2>2. NextIndex(t, numStarted + 1) \in Threads
    <3>1. numStarted + 1 \in 1 .. NumThreads
      BY <2>1, ConstantsAssumption
    <3> QED BY <3>1, NextIsThread
  <2>3. /\ LocalStep(t) /\ local'[t].finish = local[t].finish
        /\ local'[t].next = NextIndex(t, numStarted + 1)
    BY <1>1, <2>2 DEF SpawnAndPass, LocalStep
  <2> QED BY <2>1, <2>3 DEF PassStep, OnlyThread
<1>2. ASSUME PassRead(t) PROVE
        /\ canRead' = [canRead EXCEPT ![NextIndex(t, numStarted)] = TRUE]
        /\ LocalStep(t) /\ local'[t].finish = local[t].finish
        /\ local'[t].next = NextIndex(t, numStarted)
  <2>1. NextIndex(t, numStarted) \in Threads
    BY NextIsThread
  <2> QED BY <1>2, <2>1 DEF PassRead, LocalStep
<1>3. CASE PassOnly(t)
  <2>1. /\ pc[t] = "pass" /\ UNCHANGED <<mpc, freeIdx, exitThread, limit, numStarted, canWrite,
                                         readWasFinished>>
        /\ ~(numStarted < limit) /\ Alone(t, "code") /\ PassRead(t)
    BY <1>3 DEF PassOnly, MaySpawn, Unspawned, mainVars, Alone
  <2> QED BY <1>2, <2>1 DEF PassStep, OnlyThread
<1>4. CASE SpawnFails(t)
  <2>1. /\ pc[t] = "pass" /\ UNCHANGED <<mpc, freeIdx, exitThread, numStarted, canWrite,
                                         readWasFinished>>
    BY <1>4 DEF SpawnFails, Unspawned, mainVars
  <2>2. CASE PassRead(t) /\ limit' = numStarted /\ pc' = [pc EXCEPT ![t] = "code"]
    BY <1>2, <2>1, <2>2 DEF PassStep, OnlyThread, Alone
  <2>3. CASE /\ local' = [local EXCEPT ![t].finish = TRUE, ![t].needCode = FALSE,
                                       ![t].thr = TRUE]
             /\ pc' = [pc EXCEPT ![t] = "waitWrite"]
             /\ UNCHANGED <<canRead, limit>>
    <3>1. LocalStep(t) /\ local'[t].finish
      BY <2>3 DEF LocalStep
    <3> QED BY <2>1, <2>3, <3>1 DEF ReaderStep, OnlyThread, Quiet, Alone, ReaderPcs
  <2> QED BY <1>4, <2>2, <2>3 DEF SpawnFails
<1> QED BY <1>1, <1>3, <1>4

-----------------------------------------------------------------------------
(* The arithmetic of the ring *)

\* The places of a ring of n threads, counted from f.
LEMMA DistFacts ==
  ASSUME NEW n \in Nat \ {0}, NEW f \in 0 .. n - 1, NEW t \in 0 .. n - 1
  PROVE  /\ Dist(f, t, n) \in 0 .. n - 1
         /\ Dist(f, t, n) = 0 <=> t = f
         /\ NextIndex(t, n) \in 0 .. n - 1
BY DEF Dist, NextIndex

\* No two threads have the same place.
LEMMA DistOne ==
  ASSUME NEW n \in Nat \ {0}, NEW f \in 0 .. n - 1, NEW t \in 0 .. n - 1, NEW u \in 0 .. n - 1,
         Dist(f, t, n) = Dist(f, u, n)
  PROVE  t = u
BY DEF Dist

\* The place behind t, and the places counted from the thread behind f.
LEMMA DistNext ==
  ASSUME NEW n \in Nat \ {0}, NEW f \in 0 .. n - 1, NEW t \in 0 .. n - 1
  PROVE  /\ Dist(f, NextIndex(t, n), n) = IF Dist(f, t, n) = n - 1 THEN 0 ELSE Dist(f, t, n) + 1
         /\ Dist(NextIndex(f, n), t, n) = IF t = f THEN n - 1 ELSE Dist(f, t, n) - 1
BY DEF Dist, NextIndex

\* A thread that has a place has a place of its own kind.
LEMMA Kinds ==
  /\ ReaderPcs \cap WorkPcs = {} /\ ReaderPcs \cap WriterPcs = {} /\ WriterPcs \subseteq WorkPcs
  /\ \A p \in {"none", "waitRead", "out", "exited"} : p \notin ReaderPcs \cup WorkPcs
  /\ "pass" \in ReaderPcs /\ "code" \in WorkPcs \ WriterPcs
  /\ "waitWrite" \in WorkPcs \ WriterPcs /\ "register" \in WriterPcs /\ "check" \in ReaderPcs
BY DEF ReaderPcs, WorkPcs, WriterPcs

-----------------------------------------------------------------------------
(* The ring through the steps *)

RingTypes(f, k) ==
  /\ numStarted >= 1 /\ f \in 0 .. numStarted - 1 /\ k \in 0 .. numStarted
  /\ Ring(f, k)

\* A step of one thread that keeps its place.
LEMMA RingStays ==
  ASSUME ControlTypes, NEW f, NEW k, RingTypes(f, k), NEW t \in Threads, t < numStarted,
         UNCHANGED <<numStarted, limit>>, InRing(t, f, k, numStarted)',
         \A u \in Threads : u # t => /\ pc'[u] = pc[u] /\ local'[u] = local[u]
                                     /\ canRead'[u] = canRead[u] /\ canWrite'[u] = canWrite[u]
  PROVE  RingTypes(f, k)'
<1>1. \A u \in Threads : u # t => (InRing(u, f, k, numStarted) => InRing(u, f, k, numStarted)')
  BY DEF InRing, Working, Reader
<1>2. \A u \in Threads : u # t => (Parked(u) => Parked(u)')
  BY DEF Parked
<1> QED BY <1>1, <1>2 DEF RingTypes, Ring, ControlTypes

\* A step of the reader that keeps canRead in its hands, or puts it down at its own place.
LEMMA RingReader ==
  ASSUME ControlTypes, NEW f, NEW k, RingTypes(f, k), NEW t \in Threads, t < numStarted,
         ReaderStep(t)
  PROVE  RingTypes(f, k)'
<1>1. InRing(t, f, k, numStarted)
  BY DEF RingTypes, Ring
<1>2. pc[t] \in ReaderPcs /\ pc[t] \notin WorkPcs /\ pc[t] # "waitRead"
  BY Kinds DEF ReaderStep
<1>3. Dist(f, t, numStarted) = k /\ Reader(t) /\ ~canRead[t]
  <2>1. /\ numStarted \in Nat \ {0} /\ f \in 0 .. numStarted - 1 /\ t \in 0 .. numStarted - 1
        /\ k \in Nat
    BY ThreadIsNat DEF RingTypes, ControlTypes
  <2>2. Dist(f, t, numStarted) \in Nat
    BY <2>1, DistFacts
  <2> QED BY <1>1, <1>2, <2>1, <2>2 DEF InRing, Working, Reader
<1>4. /\ pc'[t] \in ReaderPcs \cup {"code", "waitWrite"} /\ UNCHANGED <<canRead, canWrite>>
      /\ pc'[t] = "pass" => ~local'[t].finish
      /\ pc'[t] \in {"code", "waitWrite"} => local'[t].finish
  BY DEF ReaderStep, Quiet
<1>5. Reader(t)'
  BY <1>3, <1>4, Kinds DEF Reader
<1>6. pc[t] \notin WriterPcs /\ pc'[t] \notin WriterPcs
  BY <1>2, <1>4, Kinds
<1>7. InRing(t, f, k, numStarted)'
  <2>1. numStarted' = numStarted /\ k \in Nat
    BY DEF ReaderStep, Quiet, RingTypes, ControlTypes
  <2> QED BY <1>1, <1>3, <1>4, <1>5, <1>6, <2>1 DEF InRing
<1>8. /\ UNCHANGED <<numStarted, limit, canRead, canWrite>>
      /\ \A u \in Threads : u # t => pc'[u] = pc[u] /\ local'[u] = local[u]
  BY DEF ReaderStep, Quiet, OnlyThread, LocalStep, Alone, ControlTypes
<1> QED BY <1>7, <1>8, RingStays

\* A step of a thread with a block that leaves the tokens alone.
LEMMA RingWorker ==
  ASSUME ControlTypes, NEW f, NEW k, RingTypes(f, k), NEW t \in Threads, t < numStarted,
         WorkerStep(t)
  PROVE  RingTypes(f, k)'
<1>1. InRing(t, f, k, numStarted)
  BY DEF RingTypes, Ring
<1>2. pc[t] \in WorkPcs /\ pc'[t] \in WorkPcs /\ UNCHANGED canRead
      /\ local'[t].finish = local[t].finish /\ local'[t].next = local[t].next
      /\ numStarted' = numStarted
  BY DEF WorkerStep, Quiet
<1>3. (Working(t, numStarted) => Working(t, numStarted)') /\ (Reader(t) => Reader(t)')
  BY <1>2, Kinds DEF Working, Reader
<1>4. pc[t] # "waitRead"
  BY <1>2, Kinds
<1>5. /\ canWrite' \in [Threads -> BOOLEAN]
      /\ \/ canWrite'[t] = canWrite[t] /\ (pc[t] \in WriterPcs <=> pc'[t] \in WriterPcs)
         \/ canWrite[t] /\ ~canWrite'[t] /\ pc'[t] \in WriterPcs
      /\ \A u \in Threads : u # t => canWrite'[u] = canWrite[u]
  BY DEF WorkerStep, ControlTypes
<1>6. InRing(t, f, k, numStarted)'
  BY <1>1, <1>2, <1>3, <1>4, <1>5 DEF InRing
<1>8. /\ UNCHANGED <<numStarted, limit, canRead>>
      /\ \A u \in Threads : u # t => pc'[u] = pc[u] /\ local'[u] = local[u]
  BY DEF WorkerStep, Quiet, OnlyThread, LocalStep, Alone, ControlTypes
<1> QED BY <1>5, <1>6, <1>8, RingStays

\* A new thread joins the ring while it has not come round yet.
LEMMA GrowDist ==
  ASSUME NEW n \in Nat \ {0}, NEW f \in 0 .. n - 1, NEW k \in 0 .. n, f + k < n
  PROVE  /\ \A t \in 0 .. n - 1 :
              /\ Dist(f, t, n) < k  => Dist(f, t, n + 1) = Dist(f, t, n) /\ t + 1 < n
              /\ Dist(f, t, n) = k  => Dist(f, t, n + 1) = k /\ t = f + k
              /\ Dist(f, t, n) > k  => Dist(f, t, n + 1) > k /\ t # f
                                       /\ (t = f + k + 1 \/ Dist(f, t, n + 1) > k + 1)
              /\ Dist(f, t, n) = 0 <=> Dist(f, t, n + 1) = 0
         /\ Dist(f, n, n + 1) = n - f
BY DEF Dist

\* The thread that joins is the next to read.
LEMMA RingGrows ==
  ASSUME ControlTypes, NEW f, NEW k, RingTypes(f, k), NEW t \in Threads, t < numStarted,
         PassStep(t), numStarted < limit, numStarted' = numStarted + 1
  PROVE  RingTypes(f, k + 1)'
<1>0. PICK n : n = numStarted
  OBVIOUS
<1>1. /\ n \in Nat \ {0} /\ f \in 0 .. n - 1 /\ k \in 0 .. n /\ f + k < n /\ t \in 0 .. n - 1 /\ n < limit
      /\ limit \in 1 .. NumThreads /\ NumThreads \in Nat
  BY <1>0, ConstantsAssumption, ThreadIsNat DEF RingTypes, Ring, ControlTypes
<1>2. n \in Threads /\ n # t
  BY <1>1, ConstantsAssumption DEF Threads
<1>3. \A u \in Threads : u < n => InRing(u, f, k, n) /\ u \in 0 .. n - 1
  BY <1>0, <1>1, ThreadIsNat DEF RingTypes, Ring
<1>4. pc[t] = "pass" /\ pc[t] \notin WorkPcs /\ pc[t] # "waitRead"
  BY Kinds DEF PassStep
<1>5. Dist(f, t, n) = k /\ Reader(t) /\ ~canRead[t] /\ t = f + k
  <2>1. Dist(f, t, n) \in Nat
    BY <1>1, DistFacts
  <2>2. Dist(f, t, n) = k
    BY <1>1, <1>3, <1>4, <2>1 DEF InRing, Working
  <2> QED BY <1>1, <1>3, <1>4, <2>2, GrowDist DEF InRing, Reader
<1>6. ~local[t].finish
  BY <1>4, <1>5, Kinds DEF Reader
<1>7. NextIndex(t, n + 1) = t + 1
  BY <1>1 DEF NextIndex
<1>8. /\ numStarted' = n + 1 /\ UNCHANGED limit
      /\ canRead' = [canRead EXCEPT ![n] = FALSE, ![t + 1] = TRUE]
      /\ canWrite' = [canWrite EXCEPT ![n] = FALSE]
      /\ pc' = [pc EXCEPT ![t] = "code", ![n] = IF @ = "none" THEN "waitRead" ELSE @]
      /\ local'[t].next = t + 1 /\ local'[t].finish = local[t].finish
      /\ \A u \in Threads : u # t => local'[u] = local[u]
  BY <1>0, <1>1, <1>7 DEF PassStep, OnlyThread, LocalStep
<1>9. Parked(n)
  BY <1>0, <1>1, <1>2 DEF RingTypes, Ring
<1>10. /\ canRead \in [Threads -> BOOLEAN] /\ canWrite \in [Threads -> BOOLEAN]
       /\ pc \in [Threads -> ThreadPcs] /\ t + 1 \in Threads
  BY <1>1, <1>2 DEF ControlTypes, Threads
<1>20. \A u \in Threads : pc'[u] = IF u = t THEN "code"
                                 ELSE IF u = n /\ pc[n] = "none" THEN "waitRead" ELSE pc[u]
  BY <1>2, <1>8, <1>10
<1>21. \A u \in Threads : canRead'[u] = IF u = t + 1 THEN TRUE
                                      ELSE IF u = n THEN FALSE ELSE canRead[u]
  BY <1>2, <1>8, <1>10
<1>22. \A u \in Threads : canWrite'[u] = IF u = n THEN FALSE ELSE canWrite[u]
  BY <1>2, <1>8, <1>10
<1>11. InRing(t, f, k + 1, n + 1)'
  <2>1. Dist(f, t, n + 1) = k /\ (k = 0 <=> Dist(f, t, n) = 0)
    BY <1>1, <1>5, GrowDist
  <2>2. pc'[t] = "code" /\ canRead'[t] = canRead[t] /\ canWrite'[t] = canWrite[t]
    <3>1. t # n /\ t # t + 1
      BY <1>1
    <3>2. pc'[t] = "code"
      BY <1>20
    <3>3. canRead'[t] = canRead[t]
      BY <1>21, <3>1
    <3>4. canWrite'[t] = canWrite[t]
      BY <1>22, <3>1
    <3> QED BY <3>2, <3>3, <3>4
  <2>3. Working(t, n + 1)'
    BY <1>6, <1>7, <1>8, <2>2, Kinds DEF Working
  <2>4. k < n /\ InRing(t, f, k, n)
    BY <1>1, <1>3
  <2> QED BY <1>1, <1>4, <1>5, <2>1, <2>2, <2>3, <2>4, Kinds DEF InRing
<1>12. ASSUME NEW u \in Threads, u < n, u # t PROVE InRing(u, f, k + 1, n + 1)'
  <2>1. InRing(u, f, k, n) /\ u \in 0 .. n - 1
    BY <1>3, <1>12
  <2>2. /\ pc'[u] = pc[u] /\ local'[u] = local[u] /\ canWrite'[u] = canWrite[u]
        /\ canRead'[u] = IF u = t + 1 THEN TRUE ELSE canRead[u]
    <3>1. u # t /\ u # n
      BY <1>1, <1>12
    <3>2. pc'[u] = pc[u]
      BY <1>20, <3>1
    <3>3. canRead'[u] = IF u = t + 1 THEN TRUE ELSE canRead[u]
      BY <1>21, <3>1
    <3>4. canWrite'[u] = canWrite[u]
      BY <1>22, <3>1
    <3>5. local'[u] = local[u]
      BY <1>8, <3>1
    <3> QED BY <3>2, <3>3, <3>4, <3>5
  <2>3. Dist(f, u, n) # k
    BY <1>1, <1>5, <1>12, <2>1, DistOne
  <2>4. CASE Dist(f, u, n) < k
    <3>1. /\ Dist(f, u, n + 1) = Dist(f, u, n) /\ u + 1 < n
          /\ Dist(f, u, n) = 0 <=> Dist(f, u, n + 1) = 0
      BY <1>1, <2>1, <2>4, GrowDist
    <3>2. u # t + 1
      BY <1>1, <1>5, <2>1, <2>4 DEF Dist
    <3>3. Working(u, n) /\ ~canRead[u]
      BY <1>1, <2>1, <2>4 DEF InRing
    <3>4. Working(u, n + 1)'
      BY <1>1, <2>2, <3>1, <3>3 DEF Working, NextIndex
    <3>5. pc'[u] = pc[u] /\ canRead'[u] = FALSE /\ canWrite'[u] = canWrite[u]
      BY <2>2, <3>2, <3>3
    <3>6. k + 1 # n + 1
      BY <1>1
    <3>7. Dist(f, u, n + 1) < k + 1 /\ Dist(f, u, n + 1) \in Nat
      <4>1. Dist(f, u, n) \in Nat
        BY <1>1, <2>1, DistFacts
      <4> QED BY <1>1, <2>4, <3>1, <4>1
    <3>8. Dist(f, u, n + 1) # k + 1 /\ ~(Dist(f, u, n + 1) > k + 1)
      BY <1>1, <3>7
    <3>9. Dist(f, u, n + 1) = 0 <=> Dist(f, u, n) = 0
      BY <3>1
    <3> QED BY <3>7, <3>8, <3>9, <2>1, <3>1, <3>4, <3>5, <3>6 DEF InRing
  <2>5. CASE Dist(f, u, n) > k
    <3>1. /\ Dist(f, u, n + 1) > k /\ u # f
          /\ u = t + 1 \/ Dist(f, u, n + 1) > k + 1
          /\ Dist(f, u, n + 1) # 0 /\ Dist(f, u, n) # 0
      <4>1. /\ Dist(f, u, n + 1) > k /\ u # f
            /\ u = f + k + 1 \/ Dist(f, u, n + 1) > k + 1
        BY <1>1, <2>1, <2>5, GrowDist
      <4>2. t = f + k
        BY <1>5
      <4>3. Dist(f, u, n) # 0
        BY <1>1, <2>5
      <4>4. Dist(f, u, n + 1) # 0
        BY <1>1, <4>1
      <4> QED BY <4>1, <4>2, <4>3, <4>4
    <3>2. pc[u] = "waitRead" /\ ~canRead[u] /\ ~canWrite[u]
      BY <2>1, <2>5, <3>1 DEF InRing
    <3>3. CASE u = t + 1
      <4>1. Dist(f, u, n + 1) = k + 1
        BY <1>1, <1>5, <3>3 DEF Dist
      <4> QED BY <1>1, <2>1, <2>2, <2>5, <3>1, <3>2, <3>3, <4>1 DEF InRing, Reader
    <3>4. CASE u # t + 1
      <4>1. Dist(f, u, n + 1) > k + 1
        BY <3>1, <3>4
      <4>2. pc'[u] = "waitRead" /\ ~canRead'[u] /\ ~canWrite'[u]
        BY <2>2, <3>2, <3>4
      <4>3. pc'[u] \notin WriterPcs
        BY <4>2, Kinds
      <4>4. ~(Dist(f, u, n + 1) < k + 1) /\ Dist(f, u, n + 1) # k + 1
        BY <1>1, <4>1 DEF Dist
      <4> QED BY <3>1, <4>2, <4>3, <4>4 DEF InRing
    <3> QED BY <3>3, <3>4
  <2> QED BY <1>1, <2>1, <2>3, <2>4, <2>5, DistFacts
<1>13. InRing(n, f, k + 1, n + 1)'
  <2>1. Dist(f, n, n + 1) = n - f
    BY <1>1, GrowDist
  <2>2. pc'[n] = "waitRead" /\ ~canWrite'[n] /\ (canRead'[n] <=> n = t + 1)
    BY <1>2, <1>8, <1>9, <1>10 DEF Parked
  <2>3. n - f >= k + 1 /\ (n - f = k + 1 <=> n = t + 1) /\ n - f # 0
    BY <1>1, <1>5
  <2>4. pc'[n] \notin WriterPcs
    BY <2>2, Kinds
  <2> QED BY <1>1, <2>1, <2>2, <2>3, <2>4 DEF InRing, Reader
<1>14. ASSUME NEW u \in Threads, u > n PROVE Parked(u)'
  <2>1. Parked(u)
    BY <1>0, <1>1, <1>14, ThreadIsNat DEF RingTypes, Ring
  <2>2. u # t /\ u # n /\ u # t + 1
    BY <1>1, <1>14, ThreadIsNat
  <2> QED BY <1>8, <1>10, <2>1, <2>2 DEF Parked
<1>15. /\ n + 1 >= 1 /\ f \in 0 .. n /\ k + 1 \in 0 .. n + 1 /\ n + 1 <= limit'
       /\ n + 1 < limit' => f + (k + 1) < n + 1
  BY <1>0, <1>1, <1>8
<1>16. \A u \in Threads : IF u < n + 1 THEN InRing(u, f, k + 1, n + 1)' ELSE Parked(u)'
  BY <1>1, <1>11, <1>12, <1>13, <1>14, ThreadIsNat
<1>17. \A u \in Threads : IF u < numStarted' THEN InRing(u, f, k + 1, numStarted)' ELSE Parked(u)'
  BY <1>8, <1>16
<1> QED BY <1>1, <1>8, <1>15, <1>17 DEF RingTypes, Ring

\* canRead goes round a ring that does not grow any more.
LEMMA RingPasses ==
  ASSUME ControlTypes, NEW f, NEW k, RingTypes(f, k), NEW t \in Threads, t < numStarted,
         PassStep(t), numStarted >= limit', numStarted' = numStarted
  PROVE  RingTypes(f, k + 1)'
<1>0. PICK n : n = numStarted
  OBVIOUS
<1>1. /\ n \in Nat \ {0} /\ f \in 0 .. n - 1 /\ k \in 0 .. n /\ t \in 0 .. n - 1
      /\ limit \in 1 .. NumThreads /\ NumThreads \in Nat
  BY <1>0, ConstantsAssumption, ThreadIsNat DEF RingTypes, Ring, ControlTypes
<1>3. \A u \in Threads : u < n => InRing(u, f, k, n) /\ u \in 0 .. n - 1
  BY <1>0, <1>1, ThreadIsNat DEF RingTypes, Ring
<1>4. pc[t] = "pass" /\ pc[t] \notin WorkPcs /\ pc[t] # "waitRead"
  BY Kinds DEF PassStep
<1>5. Dist(f, t, n) = k /\ Reader(t) /\ ~canRead[t] /\ k < n
  <2>1. Dist(f, t, n) \in 0 .. n - 1
    BY <1>1, DistFacts
  <2>2. Dist(f, t, n) = k
    BY <1>1, <1>3, <1>4, <2>1 DEF InRing, Working
  <2> QED BY <1>1, <1>3, <1>4, <2>1, <2>2 DEF InRing, Reader
<1>6. ~local[t].finish
  BY <1>4, <1>5, Kinds DEF Reader
<1>7. PICK x : x = NextIndex(t, n)
  OBVIOUS
<1>8. /\ numStarted' = n /\ limit' = n
      /\ canRead' = [canRead EXCEPT ![x] = TRUE] /\ canWrite' = canWrite
      /\ pc' = [pc EXCEPT ![t] = "code"]
      /\ local'[t].next = x /\ local'[t].finish = local[t].finish
      /\ \A u \in Threads : u # t => local'[u] = local[u]
  <2>1. numStarted <= limit /\ limit' \in {limit, numStarted}
    BY <1>0, <1>1 DEF PassStep, RingTypes, Ring
  <2>2. limit' = n
    BY <1>0, <1>1, <2>1
  <2> QED BY <1>0, <1>1, <1>7, <2>2 DEF PassStep, OnlyThread, LocalStep, Alone
<1>9. /\ x \in 0 .. n - 1 /\ Dist(f, x, n) = IF k = n - 1 THEN 0 ELSE k + 1
  <2>1. NextIndex(t, n) \in 0 .. n - 1
    BY <1>1, DistFacts
  <2>2. Dist(f, NextIndex(t, n), n) = IF Dist(f, t, n) = n - 1 THEN 0 ELSE Dist(f, t, n) + 1
    BY <1>1, DistNext
  <2> QED BY <1>5, <1>7, <2>1, <2>2
<1>10. \A u \in Threads : /\ canRead'[u] = IF u = x THEN TRUE ELSE canRead[u]
                          /\ pc'[u] = IF u = t THEN "code" ELSE pc[u]
                          /\ canWrite'[u] = canWrite[u]
  BY <1>8 DEF ControlTypes
<1>11. InRing(t, f, k + 1, n)'
  <2>1. Working(t, n)'
    <3>1. pc'[t] = "code" /\ "code" \in WorkPcs
      BY <1>10, Kinds
    <3>2. ~local'[t].finish /\ local'[t].next = NextIndex(t, n)
      BY <1>6, <1>7, <1>8
    <3> QED BY <3>1, <3>2 DEF Working
  <2>2. canRead'[t] <=> Dist(f, t, n) = 0 /\ k + 1 = n
    <3>1. x = t <=> n = 1
      BY <1>1, <1>7 DEF NextIndex
    <3>2. n = 1 <=> k = 0 /\ k + 1 = n
      BY <1>1, <1>5
    <3> QED BY <1>5, <1>10, <3>1, <3>2
  <2>3. canWrite'[t] = canWrite[t] /\ pc'[t] \notin WriterPcs /\ pc[t] \notin WriterPcs
    BY <1>4, <1>10, Kinds
  <2>4. Dist(f, t, n) < k + 1 /\ Dist(f, t, n) # k + 1 /\ ~(Dist(f, t, n) > k + 1)
    BY <1>1, <1>5
  <2>5. InRing(t, f, k, n)
    BY <1>1, <1>3
  <2> QED BY <2>1, <2>2, <2>3, <2>4, <2>5 DEF InRing
<1>12. ASSUME NEW u \in Threads, u < n, u # t PROVE InRing(u, f, k + 1, n)'
  <2>1. InRing(u, f, k, n) /\ u \in 0 .. n - 1 /\ Dist(f, u, n) \in 0 .. n - 1
    BY <1>1, <1>3, <1>12, DistFacts
  <2>2. /\ pc'[u] = pc[u] /\ local'[u] = local[u] /\ canWrite'[u] = canWrite[u]
        /\ canRead'[u] = IF u = x THEN TRUE ELSE canRead[u]
    BY <1>8, <1>10, <1>12
  <2>3. Dist(f, u, n) # k
    BY <1>1, <1>5, <1>12, <2>1, DistOne
  <2>4. u = x <=> Dist(f, u, n) = Dist(f, x, n)
    BY <1>1, <1>9, <2>1, DistOne
  <2>5. CASE Dist(f, u, n) < k
    <3>1. Working(u, n)' /\ ~canRead[u]
      BY <1>1, <1>5, <2>1, <2>2, <2>5 DEF InRing, Working
    <3>2. canRead'[u] <=> Dist(f, u, n) = 0 /\ k + 1 = n
      BY <1>1, <1>9, <2>1, <2>2, <2>4, <2>5, <3>1
    <3>3. Dist(f, u, n) < k + 1 /\ Dist(f, u, n) # k + 1 /\ ~(Dist(f, u, n) > k + 1)
      BY <1>1, <2>1, <2>5
    <3> QED BY <2>1, <2>2, <3>1, <3>2, <3>3 DEF InRing
  <2>6. CASE Dist(f, u, n) > k
    <3>1. pc[u] = "waitRead" /\ ~canRead[u] /\ ~canWrite[u] /\ Dist(f, u, n) # 0
      BY <1>1, <2>1, <2>6 DEF InRing
    <3>2. pc'[u] = "waitRead" /\ ~canWrite'[u] /\ pc'[u] \notin WriterPcs
      BY <2>2, <3>1, Kinds
    <3>3. canRead'[u] <=> Dist(f, u, n) = k + 1
      BY <1>1, <1>9, <2>1, <2>2, <2>4, <2>6, <3>1
    <3>4. ~(Dist(f, u, n) < k + 1)
      BY <1>1, <2>1, <2>6
    <3>5. Dist(f, u, n) > k + 1 => Dist(f, u, n) # k + 1
      BY <1>1, <2>1
    <3> QED BY <3>1, <3>2, <3>3, <3>4, <3>5 DEF InRing, Reader
  <2> QED BY <1>1, <2>1, <2>3, <2>5, <2>6
<1>13. ASSUME NEW u \in Threads, ~(u < n) PROVE Parked(u)'
  <2>1. Parked(u)
    BY <1>0, <1>13 DEF RingTypes, Ring
  <2>2. u # t /\ u # x
    BY <1>1, <1>9, <1>13
  <2> QED BY <1>10, <2>1, <2>2 DEF Parked
<1>14. \A u \in Threads : IF u < numStarted' THEN InRing(u, f, k + 1, numStarted)' ELSE Parked(u)'
  BY <1>8, <1>11, <1>12, <1>13
<1>15. /\ n >= 1 /\ k + 1 \in 0 .. n /\ n <= limit' /\ ~(n < limit')
  BY <1>1, <1>5, <1>8
<1> QED BY <1>1, <1>8, <1>14, <1>15 DEF RingTypes, Ring

\* A thread gets canRead.
LEMMA RingTakes ==
  ASSUME ControlTypes, NEW f, NEW k, RingTypes(f, k), NEW t \in Threads, ~exitThread, TakeRead(t)
  PROVE  RingTypes(f, k)' /\ t < numStarted /\ ~exitThread'
<1>1. /\ pc[t] = "waitRead" /\ canRead[t] /\ canRead' = [canRead EXCEPT ![t] = FALSE]
      /\ pc' = [pc EXCEPT ![t] = "check"]
      /\ \A u \in Threads : u # t => local'[u] = local[u]
      /\ UNCHANGED <<canWrite, numStarted, limit, exitThread>>
  BY DEF TakeRead, Consumed, ControlTypes, writerVars
<1>2. t < numStarted
  BY <1>1 DEF RingTypes, Ring, Parked
<1>3. InRing(t, f, k, numStarted)
  BY <1>2 DEF RingTypes, Ring
<1>4. Dist(f, t, numStarted) = k
  <2>1. Dist(f, t, numStarted) \in Nat /\ k \in Nat
    <3>1. /\ numStarted \in Nat \ {0} /\ f \in 0 .. numStarted - 1
          /\ t \in 0 .. numStarted - 1 /\ k \in Nat
      BY <1>2, ThreadIsNat DEF RingTypes, ControlTypes
    <3> QED BY <3>1, DistFacts
  <2> QED BY <1>1, <1>3, <2>1, Kinds DEF InRing, Working
<1>5. pc'[t] = "check" /\ ~canRead'[t] /\ canWrite'[t] = canWrite[t]
  BY <1>1 DEF ControlTypes
<1>6. Reader(t)' /\ pc'[t] \notin WriterPcs /\ pc[t] \notin WriterPcs
  BY <1>1, <1>5, Kinds DEF Reader
<1>7. InRing(t, f, k, numStarted)'
  <2>1. k \in Nat /\ numStarted' = numStarted
    BY <1>1 DEF RingTypes, ControlTypes
  <2> QED BY <1>3, <1>4, <1>5, <1>6, <2>1 DEF InRing
<1>8. \A u \in Threads : u # t => pc'[u] = pc[u] /\ canRead'[u] = canRead[u] /\ canWrite'[u] = canWrite[u]
  BY <1>1 DEF ControlTypes
<1> QED BY <1>1, <1>2, <1>7, <1>8, RingStays

\* The front of the ring moves on.
LEMMA FrontMoves ==
  ASSUME ControlTypes, NEW f, NEW k, RingTypes(f, k), NEW t \in Threads, Register(t),
         ~local[t].finish, t < numStarted
  PROVE  RingTypes(NextIndex(f, numStarted), k - 1)'
<1>0. PICK n : n = numStarted
  OBVIOUS
<1>1. /\ n \in Nat \ {0} /\ f \in 0 .. n - 1 /\ k \in 0 .. n /\ t \in 0 .. n - 1
      /\ limit \in Nat /\ n <= limit /\ (n < limit => f + k < n)
  BY <1>0, ConstantsAssumption, ThreadIsNat DEF RingTypes, Ring, ControlTypes
<1>3. \A u \in Threads : u < n => InRing(u, f, k, n) /\ u \in 0 .. n - 1
                                  /\ Dist(f, u, n) \in 0 .. n - 1
  BY <1>0, <1>1, ThreadIsNat, DistFacts DEF RingTypes, Ring
<1>4. pc[t] = "register" /\ pc[t] \in WriterPcs /\ pc[t] \in WorkPcs /\ pc[t] \notin ReaderPcs
      /\ pc[t] # "waitRead"
  BY Kinds DEF Register
<1>5. Dist(f, t, n) = 0 /\ t = f /\ ~canWrite[t]
  <2>1. Dist(f, t, n) = 0 /\ ~canWrite[t]
    BY <1>0, <1>3, <1>4 DEF InRing
  <2> QED BY <1>1, <2>1, DistFacts
<1>6. k > 0 /\ Working(t, n) /\ (canRead[t] <=> k = n)
  <2>1. k # 0
    BY <1>0, <1>1, <1>3, <1>4, <1>5 DEF InRing, Reader
  <2> QED BY <1>0, <1>1, <1>3, <1>5, <2>1 DEF InRing
<1>7. PICK x : x = NextIndex(f, n)
  OBVIOUS
<1>8. /\ x \in 0 .. n - 1 /\ local[t].next = x
      /\ \A u \in 0 .. n - 1 : Dist(x, u, n) = IF u = f THEN n - 1 ELSE Dist(f, u, n) - 1
  <2>1. x \in 0 .. n - 1
    BY <1>1, <1>7, DistFacts
  <2>2. local[t].next = x
    BY <1>5, <1>6, <1>7 DEF Working
  <2>3. \A u \in 0 .. n - 1 : Dist(NextIndex(f, n), u, n) = IF u = f THEN n - 1 ELSE Dist(f, u, n) - 1
    BY <1>1, DistNext
  <2> QED BY <1>7, <2>1, <2>2, <2>3
<1>9. /\ pc' = [pc EXCEPT ![t] = "waitRead"] /\ canRead' = canRead
      /\ canWrite' = [canWrite EXCEPT ![x] = TRUE]
      /\ local' = [local EXCEPT ![t] = NewLocal]
      /\ UNCHANGED <<numStarted, limit, exitThread>>
  BY <1>8 DEF Register, WakesZero, ControlTypes, readerVars
<1>10. \A u \in Threads : /\ pc'[u] = IF u = t THEN "waitRead" ELSE pc[u]
                          /\ canWrite'[u] = IF u = x THEN TRUE ELSE canWrite[u]
                          /\ u # t => local'[u] = local[u]
  BY <1>9 DEF ControlTypes
<1>11. InRing(t, x, k - 1, n)'
  <2>1. Dist(x, t, n) = n - 1 /\ ~(n - 1 < k - 1) /\ (n - 1 = k - 1 <=> n = k)
        /\ (n - 1 > k - 1 <=> n # k) /\ (n - 1 = 0 <=> n = 1)
    BY <1>1, <1>5, <1>8
  <2>2. x = t <=> n = 1
    BY <1>1, <1>5, <1>7 DEF NextIndex
  <2>3. pc'[t] = "waitRead" /\ pc'[t] \notin WriterPcs /\ (canRead'[t] <=> k = n)
    <3>1. pc'[t] = "waitRead"
      BY <1>10
    <3>2. canRead'[t] <=> k = n
      BY <1>6, <1>9
    <3> QED BY <3>1, <3>2, Kinds
  <2>4. canWrite'[t] <=> n = 1
    BY <1>5, <1>10, <2>2
  <2> QED BY <2>1, <2>3, <2>4 DEF InRing, Reader
<1>12. ASSUME NEW u \in Threads, u < n, u # t PROVE InRing(u, x, k - 1, n)'
  <2>1. /\ InRing(u, f, k, n) /\ u \in 0 .. n - 1 /\ Dist(f, u, n) \in 0 .. n - 1
        /\ Dist(x, u, n) = Dist(f, u, n) - 1 /\ Dist(f, u, n) # 0
    BY <1>1, <1>3, <1>5, <1>8, <1>12, DistFacts
  <2>2. PICK d : d = Dist(f, u, n)
    OBVIOUS
  <2>3. pc'[u] = pc[u] /\ local'[u] = local[u] /\ canRead'[u] = canRead[u]
        /\ canWrite'[u] = IF u = x THEN TRUE ELSE canWrite[u]
    BY <1>9, <1>10, <1>12
  <2>4. u = x <=> d - 1 = 0
    BY <1>1, <1>7, <1>12, <2>1, <2>2, <1>5 DEF NextIndex, Dist
  <2>5. /\ d - 1 < k - 1 <=> d < k
        /\ d - 1 = k - 1 <=> d = k
        /\ d - 1 > k - 1 <=> d > k
        /\ d \in Nat /\ d # 0 /\ k - 1 # n
    BY <1>1, <2>1, <2>2
  <2>6. /\ d < k => Working(u, n)' /\ ~canRead'[u]
        /\ d = k => Reader(u)'
        /\ d > k => pc'[u] = "waitRead" /\ ~canRead'[u]
        /\ ~canWrite[u] /\ pc'[u] \notin WriterPcs
    BY <2>1, <2>2, <2>3, <2>5 DEF InRing, Working, Reader
  <2>7. IF d - 1 = 0 THEN canWrite'[u] ELSE ~canWrite'[u]
    BY <2>3, <2>4, <2>6
  <2> QED BY <2>1, <2>2, <2>5, <2>6, <2>7 DEF InRing
<1>13. ASSUME NEW u \in Threads, ~(u < n) PROVE Parked(u)'
  <2>1. Parked(u)
    BY <1>0, <1>13 DEF RingTypes, Ring
  <2>2. u # t /\ u # x
    BY <1>1, <1>8, <1>13
  <2> QED BY <1>9, <1>10, <2>1, <2>2 DEF Parked
<1>14. \A u \in Threads : IF u < numStarted' THEN InRing(u, x, k - 1, numStarted)' ELSE Parked(u)'
  BY <1>0, <1>9, <1>11, <1>12, <1>13
<1>15. /\ k - 1 \in 0 .. n
       /\ n < limit => x + (k - 1) < n
  BY <1>1, <1>6, <1>7 DEF NextIndex
<1>16. NextIndex(f, numStarted)' = x
  BY <1>0, <1>7, <1>9
<1> QED BY <1>0, <1>1, <1>8, <1>9, <1>14, <1>15, <1>16 DEF RingTypes, Ring

\* The last block of the ring: the ring begins again at the caller, or the caller leaves it.
LEMMA RingEnds ==
  ASSUME ControlTypes, NEW f, NEW k, RingTypes(f, k), NEW t \in Threads, Register(t),
         local[t].finish, t < numStarted, ~exitThread
  PROVE  IF local[t].needContinue THEN RingTypes(0, 0)' /\ ~exitThread' ELSE Leaving'
<1>0. PICK n : n = numStarted
  OBVIOUS
<1>1. /\ n \in Nat \ {0} /\ f \in 0 .. n - 1 /\ k \in 0 .. n /\ t \in 0 .. n - 1
      /\ limit \in Nat /\ n <= limit /\ 0 \in Threads
  BY <1>0, Zero, ConstantsAssumption, ThreadIsNat DEF RingTypes, Ring, ControlTypes
<1>3. \A u \in Threads : u < n => InRing(u, f, k, n) /\ u \in 0 .. n - 1
                                  /\ Dist(f, u, n) \in 0 .. n - 1
  BY <1>0, <1>1, ThreadIsNat, DistFacts DEF RingTypes, Ring
<1>4. pc[t] = "register" /\ pc[t] \in WriterPcs /\ pc[t] \in WorkPcs /\ pc[t] \notin ReaderPcs
      /\ pc[t] # "waitRead"
  BY Kinds DEF Register
<1>5. Dist(f, t, n) = 0 /\ t = f /\ ~canWrite[t]
  <2>1. Dist(f, t, n) = 0 /\ ~canWrite[t]
    BY <1>0, <1>3, <1>4 DEF InRing
  <2> QED BY <1>1, <2>1, DistFacts
<1>6. k = 0 /\ ~canRead[t]
  <2>1. k = 0
    BY <1>0, <1>1, <1>3, <1>4, <1>5 DEF InRing, Working
  <2> QED BY <1>0, <1>3, <1>4, <1>5, <2>1 DEF InRing, Reader
<1>7. \A u \in Threads : u # t => Parked(u) /\ (u < n => pc[u] = "waitRead")
  <2> SUFFICES ASSUME NEW u \in Threads, u # t PROVE Parked(u) /\ (u < n => pc[u] = "waitRead")
    OBVIOUS
  <2>1. CASE u < n
    <3>1. InRing(u, f, k, n) /\ Dist(f, u, n) \in 0 .. n - 1 /\ Dist(f, u, n) # 0
      BY <1>1, <1>3, <1>5, <2>1, DistFacts
    <3> QED BY <1>6, <3>1 DEF InRing, Parked
  <2>2. CASE ~(u < n)
    BY <1>0, <2>2 DEF RingTypes, Ring
  <2> QED BY <2>1, <2>2
<1>8. UNCHANGED <<numStarted, limit>>
  BY DEF Register, readerVars
<1>9. CASE local[t].needContinue
  <2>1. /\ pc' = [pc EXCEPT ![t] = "waitRead"] /\ canRead' = [canRead EXCEPT ![0] = TRUE]
        /\ canWrite' = [canWrite EXCEPT ![0] = TRUE] /\ ~exitThread'
    BY <1>9 DEF Register, WakesZero, ControlTypes
  <2>2. \A u \in Threads : /\ pc'[u] = IF u = t THEN "waitRead" ELSE pc[u]
                           /\ canRead'[u] = IF u = 0 THEN TRUE ELSE canRead[u]
                           /\ canWrite'[u] = IF u = 0 THEN TRUE ELSE canWrite[u]
    BY <2>1 DEF ControlTypes
  <2>3. ASSUME NEW u \in Threads, u < n PROVE InRing(u, 0, 0, n)'
    <3>1. pc'[u] = "waitRead" /\ pc'[u] \notin WriterPcs
      BY <1>7, <2>2, <2>3, Kinds
    <3>2. ~canRead[u] /\ ~canWrite[u]
      BY <1>5, <1>6, <1>7 DEF Parked
    <3>3. Dist(0, u, n) = u /\ u \in Nat
      BY <1>1, <1>3, <2>3 DEF Dist
    <3>4. ~(u < 0) /\ (u # 0 => u > 0)
      BY <3>3
    <3>5. canRead'[u] <=> u = 0
      BY <2>2, <3>2
    <3>6. canWrite'[u] <=> u = 0
      BY <2>2, <3>2
    <3> QED BY <3>1, <3>3, <3>4, <3>5, <3>6 DEF InRing, Reader
  <2>4. ASSUME NEW u \in Threads, ~(u < n) PROVE Parked(u)'
    <3>1. u # 0 /\ u # t
      BY <1>1, <2>4
    <3>2. Parked(u)
      BY <1>7, <3>1
    <3> QED BY <2>2, <3>1, <3>2 DEF Parked
  <2>5. \A u \in Threads : IF u < numStarted' THEN InRing(u, 0, 0, numStarted)' ELSE Parked(u)'
    BY <1>0, <1>8, <2>3, <2>4
  <2> QED BY <1>0, <1>1, <1>8, <1>9, <2>1, <2>5 DEF RingTypes, Ring
<1>10. CASE ~local[t].needContinue
  <2>1. /\ pc' = [pc EXCEPT ![t] = IF t = 0 THEN "out" ELSE "waitRead"]
        /\ canRead' = IF t # 0 THEN [canRead EXCEPT ![0] = TRUE] ELSE canRead
        /\ canWrite' = canWrite /\ (exitThread' <=> t # 0)
    BY <1>10 DEF Register, WakesZero, ControlTypes
  <2>2. \A u \in Threads : u # 0 => Parked(u)'
    BY <1>5, <1>6, <1>7, <2>1 DEF Parked, ControlTypes
  <2>3. CASE t = 0
    BY <1>1, <1>10, <1>5, <1>6, <2>1, <2>2, <2>3 DEF Leaving, ControlTypes
  <2>4. CASE t # 0
    <3>1. pc[0] = "waitRead" /\ ~canWrite[0]
      BY <1>1, <1>7, <2>4 DEF Parked
    <3>2. pc'[0] = "waitRead" /\ ~canWrite'[0] /\ canRead'[0] /\ exitThread'
      BY <1>1, <2>1, <2>4, <3>1 DEF ControlTypes
    <3> QED BY <1>10, <2>2, <3>2 DEF Leaving
  <2> QED BY <2>3, <2>4
<1> QED BY <1>9, <1>10 DEF ControlTypes

-----------------------------------------------------------------------------
(* The steps of the threads *)

\* A thread that has no place cannot step, and one that waits can only take canRead.
LEMMA Steps ==
  ASSUME ControlTypes, NEW t \in Threads, Thread(t)
  PROVE  /\ pc[t] \notin {"none", "out", "exited"}
         /\ pc[t] = "waitRead" => TakeRead(t) /\ canRead[t]
         /\ pc[t] = "pass" <=> SpawnAndPass(t) \/ PassOnly(t) \/ SpawnFails(t)
         /\ pc[t] # "waitRead" /\ pc[t] # "pass" =>
              \/ ReaderStep(t) \/ WorkerStep(t)
              \/ Register(t) /\ pc[t] = "register"
<1>1. CASE \/ StartCheck(t) \/ ReadCheck(t) \/ NoBuffer(t) \/ ReadCross(t) \/ ReadStream(t)
           \/ ParseOverflow(t) \/ ParseContinue(t) \/ ParseAll(t) \/ ParseAfterEnd(t)
           \/ ParseNew(t) \/ NoCrossBlock(t) \/ Recheck(t) \/ PreCode(t)
  <2>1. ReaderStep(t) /\ pc[t] \in ReaderPcs
    BY <1>1, ReaderActions DEF ReaderStep
  <2>2. pc[t] # "pass" /\ ~(SpawnAndPass(t) \/ PassOnly(t) \/ SpawnFails(t))
    BY <1>1 DEF StartCheck, ReadCheck, CheckError, NoBuffer, ReadCross, ReadStream, ParseOverflow,
      ParseContinue, ParseAll, ParseAfterEnd, ParseNew, NoCrossBlock, Recheck, PreCode,
      SpawnAndPass, PassOnly, SpawnFails
  <2> QED BY <2>1, <2>2, Kinds
<1>2. CASE Code(t) \/ CodeCheck(t) \/ CodeInterrupt(t) \/ WriteInterrupt(t) \/ Write(t)
           \/ TakeWrite(t)
  <2>1. WorkerStep(t) /\ pc[t] \in WorkPcs
    BY <1>2, WorkerActions DEF WorkerStep
  <2>2. pc[t] # "pass" /\ ~(SpawnAndPass(t) \/ PassOnly(t) \/ SpawnFails(t))
    BY <2>1, Kinds DEF SpawnAndPass, PassOnly, SpawnFails
  <2> QED BY <2>1, <2>2, Kinds
<1>3. CASE TakeRead(t)
  BY <1>3 DEF TakeRead, SpawnAndPass, PassOnly, SpawnFails
<1>4. CASE Register(t)
  BY <1>4 DEF Register, SpawnAndPass, PassOnly, SpawnFails
<1>5. CASE SpawnAndPass(t) \/ PassOnly(t) \/ SpawnFails(t)
  BY <1>5 DEF SpawnAndPass, PassOnly, SpawnFails
<1> QED BY <1>1, <1>2, <1>3, <1>4, <1>5 DEF Thread

\* The ring through a step of a thread, and the types.
LEMMA ThreadTypes ==
  ASSUME ControlTypes, NEW t \in Threads,
         \/ TakeRead(t) \/ ReaderStep(t) \/ WorkerStep(t) \/ PassStep(t) \/ Register(t)
  PROVE  ControlTypes' /\ UNCHANGED <<mpc, freeIdx>>
<1>0. /\ mpc \in MainPcs /\ pc \in [Threads -> ThreadPcs] /\ freeIdx \in Nat
      /\ canRead \in [Threads -> BOOLEAN] /\ canWrite \in [Threads -> BOOLEAN]
      /\ DOMAIN local = Threads /\ exitThread \in BOOLEAN /\ readWasFinished \in BOOLEAN
      /\ \A u \in Threads : /\ DOMAIN local[u] = FieldNames /\ local[u].next \in Threads
                            /\ {local[u].finish, local[u].needContinue} \subseteq BOOLEAN
      /\ numStarted \in 0 .. NumThreads /\ limit \in 1 .. NumThreads
  BY DEF ControlTypes
<1>1. /\ ReaderPcs \cup WorkPcs \cup {"out", "exited", "waitRead"} \subseteq ThreadPcs
      /\ 0 \in Threads /\ NumThreads \in Nat
  BY Zero, ConstantsAssumption DEF ReaderPcs, WorkPcs, WriterPcs, ThreadPcs
<1>2. ASSUME LocalStep(t) PROVE
        /\ DOMAIN local' = Threads
        /\ \A u \in Threads : /\ DOMAIN local'[u] = FieldNames /\ local'[u].next \in Threads
                              /\ {local'[u].finish, local'[u].needContinue} \subseteq BOOLEAN
  BY <1>0, <1>2 DEF LocalStep
<1>3. LocalStep(t)
  <2>1. CASE TakeRead(t)
    <3>1. DOMAIN [NewLocal EXCEPT !.block = blockIndex, !.finish = readWasFinished] = FieldNames
      BY DEF FieldNames
    <3>2. CASE exitThread
      BY <1>0, <2>1, <3>2 DEF TakeRead, LocalStep
    <3>3. CASE ~exitThread
      <4>1. /\ local' = [local EXCEPT ![t] = [NewLocal EXCEPT !.block = blockIndex,
                                                             !.finish = readWasFinished]]
        BY <2>1, <3>3 DEF TakeRead
      <4>2. /\ local'[t].next = 0 /\ local'[t].finish = readWasFinished
            /\ local'[t].needContinue = FALSE /\ DOMAIN local'[t] = FieldNames
        BY <1>0, <4>1 DEF FieldNames, NewLocal
      <4> QED BY <1>0, <1>1, <4>1, <4>2 DEF LocalStep
    <3> QED BY <3>2, <3>3
  <2>2. CASE Register(t)
    BY <1>0, <1>1, <2>2 DEF Register, LocalStep, FieldNames, NewLocal
  <2>3. CASE ReaderStep(t) \/ WorkerStep(t) \/ PassStep(t)
    BY <2>3 DEF ReaderStep, WorkerStep, PassStep, OnlyThread
  <2> QED BY <2>1, <2>2, <2>3
<1>4. CASE TakeRead(t)
  <2>1. /\ pc' \in [Threads -> ThreadPcs] /\ canRead' \in [Threads -> BOOLEAN]
        /\ UNCHANGED <<mpc, freeIdx, canWrite, exitThread, numStarted, limit, readWasFinished>>
    BY <1>0, <1>1, <1>4, Kinds DEF TakeRead, Consumed, mainVars, writerVars
  <2> QED BY <1>0, <1>2, <1>3, <2>1 DEF ControlTypes
<1>5. CASE Register(t)
  <2>1. /\ pc' \in [Threads -> ThreadPcs] /\ canRead' \in [Threads -> BOOLEAN]
        /\ exitThread' \in BOOLEAN
        /\ UNCHANGED <<mpc, freeIdx, numStarted, limit, readWasFinished>>
    BY <1>0, <1>1, <1>5 DEF Register, mainVars, readerVars
  <2>2. canWrite' \in [Threads -> BOOLEAN]
    BY <1>0, <1>1, <1>5 DEF Register
  <2> QED BY <1>0, <1>2, <1>3, <2>1, <2>2 DEF ControlTypes
<1>6. CASE ReaderStep(t)
  <2>1. pc' \in [Threads -> ThreadPcs]
    BY <1>0, <1>1, <1>6, Kinds DEF ReaderStep, Alone
  <2> QED BY <1>0, <1>2, <1>3, <1>6, <2>1 DEF ReaderStep, OnlyThread, Quiet, ControlTypes
<1>7. CASE WorkerStep(t)
  <2>1. pc' \in [Threads -> ThreadPcs]
    BY <1>0, <1>1, <1>7 DEF WorkerStep, Alone
  <2>2. canWrite' \in [Threads -> BOOLEAN]
    BY <1>0, <1>7 DEF WorkerStep
  <2> QED BY <1>0, <1>2, <1>3, <1>7, <2>1, <2>2 DEF WorkerStep, OnlyThread, Quiet, ControlTypes
<1>8. CASE PassStep(t)
  <2>1. pc' \in [Threads -> ThreadPcs]
    BY <1>0, <1>1, <1>8, Kinds DEF PassStep, Alone
  <2>2. numStarted' \in 0 .. NumThreads /\ limit' \in 1 .. NumThreads
    BY <1>0, <1>1, <1>8 DEF PassStep
  <2>3. canWrite' \in [Threads -> BOOLEAN]
    BY <1>0, <1>8 DEF PassStep
  <2>4. canRead' \in [Threads -> BOOLEAN]
    BY <1>0, <1>8 DEF PassStep
  <2> QED BY <1>0, <1>2, <1>3, <1>8, <2>1, <2>2, <2>3, <2>4 DEF PassStep, OnlyThread, ControlTypes
<1> QED BY <1>4, <1>5, <1>6, <1>7, <1>8

\* The ring and the places outside of it through a step of a thread.
LEMMA ThreadStep ==
  ASSUME IInv, NEW t \in Threads, Thread(t)
  PROVE  IInv'
<1>0. ControlTypes /\ Phases
  BY DEF IInv
<1>1. pc[t] \notin {"none", "out", "exited"} /\ (pc[t] = "waitRead" => TakeRead(t) /\ canRead[t])
  BY <1>0, Steps
<1>2. ~Parked(t)
  BY <1>1 DEF Parked
<1>3. CASE mpc = "threads" /\ Leaving
  <2>1. t = 0 /\ TakeRead(t) /\ exitThread /\ pc[0] = "waitRead"
    BY <1>1, <1>2, <1>3 DEF Leaving
  <2>2. ControlTypes' /\ mpc' = mpc
    BY <1>0, <2>1, ThreadTypes
  <2>3. pc'[0] = "out" /\ ~canRead'[0] /\ canWrite' = canWrite /\
        \A u \in Threads : u # 0 => pc'[u] = pc[u] /\ canRead'[u] = canRead[u]
    BY <1>0, <2>1, Zero DEF TakeRead, Consumed, ControlTypes
  <2>4. Leaving'
    BY <1>3, <2>3 DEF Leaving, Parked
  <2> QED BY <1>3, <2>2, <2>4 DEF IInv, Phases
<1>4. CASE mpc = "threads" /\ ~Leaving
  <2>1. ~exitThread /\ numStarted >= 1 /\ \E f \in 0 .. numStarted - 1 : \E k \in 0 .. numStarted : Ring(f, k)
    BY <1>0, <1>4 DEF Phases
  <2>2. PICK f, k : RingTypes(f, k)
    BY <2>1 DEF RingTypes
  <2>3. t < numStarted
    BY <1>2, <2>2 DEF RingTypes, Ring
  <2>4. \/ TakeRead(t) \/ ReaderStep(t) \/ WorkerStep(t) \/ PassStep(t) \/ Register(t)
    BY <1>0, <1>1, <2>3, Steps, PassActions
  <2>5. ControlTypes' /\ mpc' = mpc
    BY <1>0, <2>4, ThreadTypes
  <2>6. (~exitThread' /\ \E g, j : RingTypes(g, j)') \/ Leaving'
    <3>1. CASE TakeRead(t)
      BY <1>0, <2>1, <2>2, <3>1, RingTakes
    <3>2. CASE ReaderStep(t)
      BY <1>0, <2>1, <2>2, <2>3, <3>2, RingReader DEF ReaderStep, Quiet
    <3>3. CASE WorkerStep(t)
      BY <1>0, <2>1, <2>2, <2>3, <3>3, RingWorker DEF WorkerStep, Quiet
    <3>4. CASE PassStep(t)
      <4>1. CASE numStarted < limit /\ numStarted' = numStarted + 1
        BY <1>0, <2>1, <2>2, <2>3, <3>4, <4>1, RingGrows DEF PassStep
      <4>2. CASE numStarted >= limit' /\ numStarted' = numStarted
        BY <1>0, <2>1, <2>2, <2>3, <3>4, <4>2, RingPasses DEF PassStep
      <4> QED BY <3>4, <4>1, <4>2 DEF PassStep
    <3>5. CASE Register(t) /\ ~local[t].finish
      <4>1. ~exitThread'
        BY <2>1, <3>5 DEF Register
      <4> QED BY <1>0, <2>2, <2>3, <3>5, <4>1, FrontMoves
    <3>6. CASE Register(t) /\ local[t].finish
      BY <1>0, <2>1, <2>2, <2>3, <3>6, RingEnds
    <3> QED BY <2>4, <3>1, <3>2, <3>3, <3>4, <3>5, <3>6
  <2>7. Phases'
    BY <1>4, <2>5, <2>6 DEF Phases, RingTypes
  <2> QED BY <2>5, <2>7 DEF IInv
<1>5. CASE mpc = "join"
  <2>1. t = freeIdx /\ TakeRead(t) /\ exitThread /\ t # 0 /\ pc[t] = "waitRead"
    BY <1>0, <1>1, <1>2, <1>5 DEF Phases, Joining
  <2>2. ControlTypes' /\ mpc' = mpc /\ freeIdx' = freeIdx
    BY <1>0, <2>1, ThreadTypes
  <2>3. /\ pc'[t] = "exited" /\ canWrite' = canWrite /\ exitThread' = exitThread
        /\ \A u \in Threads : u # t => pc'[u] = pc[u] /\ canRead'[u] = canRead[u]
    BY <1>0, <2>1 DEF TakeRead, Consumed, ControlTypes
  <2>4. Joining(freeIdx)'
    BY <1>0, <1>5, <2>1, <2>2, <2>3, Zero DEF Phases, Joining, Parked
  <2> QED BY <1>0, <1>5, <2>2, <2>4 DEF IInv, Phases
<1>6. CASE mpc \notin {"threads", "join"}
  <2>1. Parked(t)
    BY <1>0, <1>6 DEF Phases, AllRest, ControlTypes, MainPcs
  <2> QED BY <1>2, <2>1
<1> QED BY <1>3, <1>4, <1>5, <1>6

-----------------------------------------------------------------------------
(* The steps of the caller *)

\* Before the first call no thread has been started.
LEMMA InitControl == Init => IInv
<1> SUFFICES ASSUME Init PROVE IInv
  OBVIOUS
<1>1. NumThreads \in Nat \ {0} /\ 0 \in Threads
  BY Zero, ConstantsAssumption
<1>2. ControlTypes
  <2>1. DOMAIN local = Threads /\ \A t \in Threads : local[t] = NewLocal
    BY DEF Init
  <2>2. /\ DOMAIN NewLocal = FieldNames /\ NewLocal.next = 0 /\ NewLocal.finish = FALSE
        /\ NewLocal.needContinue = FALSE
    BY DEF NewLocal, FieldNames
  <2>3. mpc \in MainPcs /\ pc \in [Threads -> ThreadPcs]
    BY DEF Init, MainPcs, ThreadPcs
  <2>4. /\ canRead = [t \in Threads |-> FALSE] /\ canWrite = [t \in Threads |-> FALSE]
        /\ exitThread = FALSE /\ readWasFinished = FALSE
        /\ numStarted = 0 /\ limit = NumThreads /\ freeIdx = 0
    BY DEF Init
  <2>5. /\ canRead \in [Threads -> BOOLEAN] /\ canWrite \in [Threads -> BOOLEAN]
        /\ numStarted \in 0 .. NumThreads /\ limit \in 1 .. NumThreads
    BY <1>1, <2>4
  <2>6. \A t \in Threads : /\ DOMAIN local[t] = FieldNames /\ local[t].next \in Threads
                           /\ {local[t].finish, local[t].needContinue} \subseteq BOOLEAN
    BY <1>1, <2>1, <2>2
  <2> QED BY <2>1, <2>3, <2>4, <2>5, <2>6 DEF ControlTypes
<1>3. Phases
  BY <1>1 DEF Init, Phases, AllRest, Parked
<1> QED BY <1>2, <1>3 DEF IInv

\* The caller's steps outside of the ring: everybody else waits meanwhile.
LEMMA MainStep ==
  ASSUME IInv, Main
  PROVE  IInv'
<1>0. ControlTypes /\ Phases /\ 0 \in Threads /\ NumThreads \in Nat \ {0}
  BY Zero, ConstantsAssumption DEF IInv
<1>1. CASE Decode
  <2>0. AllRest /\ mpc' \in {"threads", "prepare"} /\ UNCHANGED <<local, freeIdx>>
        /\ readWasFinished' = FALSE
    BY <1>0, <1>1 DEF Decode, Phases, StartThreads, StartAlone
  <2>1. CASE StartThreads
    <3>1. /\ pc' = [pc EXCEPT ![0] = "waitRead"] /\ canRead' = [canRead EXCEPT ![0] = TRUE]
          /\ canWrite' = [canWrite EXCEPT ![0] = TRUE]
          /\ numStarted' = 1 /\ limit' = NumThreads /\ exitThread' = FALSE /\ mpc' = "threads"
      BY <2>1 DEF StartThreads
    <3>2. ControlTypes'
      <4>1. /\ pc' \in [Threads -> ThreadPcs] /\ canRead' \in [Threads -> BOOLEAN]
            /\ canWrite' \in [Threads -> BOOLEAN]
        BY <1>0, <3>1 DEF ControlTypes, ThreadPcs
      <4>2. /\ mpc' \in MainPcs /\ numStarted' \in 0 .. NumThreads /\ limit' \in 1 .. NumThreads
        BY <1>0, <3>1 DEF MainPcs
      <4>3. exitThread' \in BOOLEAN /\ readWasFinished' \in BOOLEAN
        BY <2>0, <3>1
      <4> QED BY <1>0, <2>0, <4>1, <4>2, <4>3 DEF ControlTypes
    <3>3. ASSUME NEW t \in Threads
          PROVE  IF t < 1 THEN InRing(t, 0, 0, 1)' ELSE Parked(t)'
      <4>1. CASE t < 1
        <5>1. t = 0 /\ Dist(0, t, 1) = 0
          BY <4>1, ThreadIsNat DEF Dist
        <5>2. pc'[0] = "waitRead" /\ canRead'[0] /\ canWrite'[0]
          BY <1>0, <3>1 DEF ControlTypes
        <5> QED BY <4>1, <5>1, <5>2, Kinds DEF InRing, Reader
      <4>2. CASE ~(t < 1)
        BY <1>0, <2>0, <3>1, <4>2 DEF AllRest, Parked, ControlTypes
      <4> QED BY <4>1, <4>2
    <3>4. RingTypes(0, 0)'
      BY <1>0, <3>1, <3>3 DEF RingTypes, Ring
    <3> QED BY <3>1, <3>2, <3>4 DEF IInv, Phases, RingTypes
  <2>2. CASE StartAlone
    BY <1>0, <2>0, <2>2 DEF StartAlone, IInv, Phases, ControlTypes, AllRest, Parked, MainPcs
  <2> QED BY <1>1, <2>1, <2>2 DEF Decode
<1>2. CASE ThreadsReturn
  <2>1. /\ mpc = "threads" /\ pc[0] = "out" /\ pc' = [pc EXCEPT ![0] = "none"]
        /\ mpc' \in {"idle", "prepare"}
        /\ UNCHANGED <<freeIdx, local, canRead, canWrite, exitThread, numStarted, limit,
                       readWasFinished>>
    BY <1>2 DEF ThreadsReturn, readerVars
  <2>2. ~\E f, k : RingTypes(f, k)
    <3> SUFFICES ASSUME NEW f, NEW k, RingTypes(f, k) PROVE FALSE
      OBVIOUS
    <3>1. 0 < numStarted /\ InRing(0, f, k, numStarted)
      BY <1>0 DEF RingTypes, Ring, ControlTypes
    <3>2. Dist(f, 0, numStarted) \in Nat /\ k \in Nat
      <4>1. numStarted \in Nat \ {0} /\ f \in 0 .. numStarted - 1 /\ 0 \in 0 .. numStarted - 1
            /\ k \in Nat
        BY <1>0 DEF RingTypes, ControlTypes
      <4> QED BY <4>1, DistFacts
    <3> QED BY <2>1, <3>1, <3>2, Kinds DEF InRing, Working, Reader
  <2>3. Leaving
    BY <1>0, <2>1, <2>2 DEF Phases, RingTypes
  <2>4. AllRest'
    BY <1>0, <2>1, <2>3 DEF Leaving, AllRest, Parked, ControlTypes
  <2>5. ControlTypes'
    BY <1>0, <2>1 DEF ControlTypes, MainPcs, ThreadPcs
  <2> QED BY <2>1, <2>4, <2>5 DEF IInv, Phases
<1>3. CASE \/ Prepare \/ FetchFilled \/ FetchCross \/ FetchNothing \/ FetchStream
           \/ DecodeChunk \/ Return \/ Destroyed
  <2>1. /\ mpc \in {"prepare", "fetch", "decode", "return", "close"}
        /\ mpc' \in {"idle", "prepare", "fetch", "decode", "return", "end"}
        /\ UNCHANGED <<pc, canRead, canWrite, freeIdx, local, exitThread, numStarted, limit>>
        /\ readWasFinished' \in BOOLEAN
    BY <1>0, <1>3 DEF Prepare, FetchFilled, FetchCross, FetchNothing, FetchStream, DecodeChunk, Return,
      Destroyed, Unfetched, readerVars, ControlTypes
  <2>2. AllRest'
    BY <1>0, <2>1 DEF Phases, AllRest, Parked
  <2>3. ControlTypes'
    BY <1>0, <2>1 DEF ControlTypes, MainPcs
  <2> QED BY <2>1, <2>2, <2>3 DEF IInv, Phases
<1>4. CASE Destroy
  <2>1. /\ mpc = "idle" /\ mpc' = "close" /\ freeIdx' = 1 /\ exitThread' = TRUE
        /\ UNCHANGED <<pc, canRead, canWrite, local, numStarted, limit, readWasFinished>>
    BY <1>4 DEF Destroy, readerVars
  <2>2. AllRest'
    BY <1>0, <2>1 DEF Phases, AllRest, Parked
  <2>3. ControlTypes'
    BY <1>0, <2>1 DEF ControlTypes, MainPcs
  <2> QED BY <2>1, <2>2, <2>3 DEF IInv, Phases
<1>5. CASE CloseThread
  <2>1. /\ mpc = "close" /\ freeIdx \in Threads /\ freeIdx >= 1 /\ AllRest
        /\ UNCHANGED <<pc, local, numStarted, limit, readWasFinished, exitThread>>
    BY <1>0, <1>5 DEF CloseThread, Phases, readerVars
  <2>2. CASE pc[freeIdx] = "none"
    <3>1. freeIdx' = freeIdx + 1 /\ UNCHANGED <<mpc, canRead, canWrite>>
      BY <1>5, <2>2 DEF CloseThread
    <3>2. AllRest'
      BY <2>1, <3>1 DEF AllRest, Parked
    <3>3. ControlTypes'
      <4>1. freeIdx' \in Nat
        BY <1>0, <3>1 DEF ControlTypes
      <4> QED BY <1>0, <2>1, <3>1, <4>1 DEF ControlTypes
    <3> QED BY <2>1, <3>1, <3>2, <3>3, ThreadIsNat DEF IInv, Phases
  <2>3. CASE pc[freeIdx] # "none"
    <3>1. /\ mpc' = "join" /\ UNCHANGED freeIdx
          /\ canRead' = [canRead EXCEPT ![freeIdx] = TRUE]
          /\ canWrite' = [canWrite EXCEPT ![freeIdx] = TRUE]
      BY <1>5, <2>3 DEF CloseThread
    <3>2. exitThread
      BY <1>0, <2>1 DEF Phases
    <3>3. Joining(freeIdx)'
      BY <1>0, <2>1, <2>3, <3>1, <3>2 DEF Joining, AllRest, Parked, ControlTypes
    <3>4. ControlTypes'
      BY <1>0, <2>1, <3>1 DEF ControlTypes, MainPcs
    <3> QED BY <2>1, <3>1, <3>3, <3>4 DEF IInv, Phases
  <2> QED BY <2>2, <2>3
<1>6. CASE JoinThread
  <2>1. /\ mpc = "join" /\ mpc' = "close" /\ freeIdx' = freeIdx + 1
        /\ freeIdx \in Threads /\ Joining(freeIdx)
        /\ pc' = [pc EXCEPT ![freeIdx] = "none"]
        /\ canRead' = [canRead EXCEPT ![freeIdx] = FALSE]
        /\ canWrite' = [canWrite EXCEPT ![freeIdx] = FALSE]
        /\ UNCHANGED <<local, numStarted, limit, readWasFinished, exitThread>>
    BY <1>0, <1>6 DEF JoinThread, Phases, readerVars
  <2>2. AllRest'
    BY <1>0, <2>1 DEF AllRest, Joining, Parked, ControlTypes
  <2>3. ControlTypes'
    BY <1>0, <2>1 DEF ControlTypes, MainPcs, ThreadPcs
  <2>4. exitThread'
    BY <2>1 DEF Joining
  <2> QED BY <2>1, <2>2, <2>3, <2>4, ThreadIsNat DEF IInv, Phases
<1> QED BY <1>1, <1>2, <1>3, <1>4, <1>5, <1>6 DEF Main

-----------------------------------------------------------------------------
(* The theorems *)

(* In every state the tokens and the blocks of MtDec_ThreadFunc2 stand in one   *)
(* ring: at its front the thread that may write, behind it those that have a   *)
(* block, then the one that reads or may read, and nobody else has a token; as *)
(* long as threads are being started the ring has not come round.              *)
THEOREM RingInvariant == Spec => []IInv
<1>1. IInv /\ [Next]_vars => IInv'
  <2> SUFFICES ASSUME IInv, [Next]_vars PROVE IInv'
    OBVIOUS
  <2>1. CASE Main
    BY <2>1, MainStep
  <2>2. ASSUME NEW t \in Threads, Thread(t) PROVE IInv'
    BY <2>2, ThreadStep
  <2>3. CASE UNCHANGED vars
    BY <2>3 DEF vars, mainVars, readerVars, writerVars, lockVars, IInv, ControlTypes, Phases, AllRest,
      Parked, Leaving, Joining, Ring, InRing, Working, Reader
  <2> QED BY <2>1, <2>2, <2>3 DEF Next, Finished
<1> QED BY InitControl, <1>1, PTL DEF Spec

\* At most one thread has canRead or is about to get it, and the same with canWrite.
LEMMA RingTokens ==
  ASSUME ControlTypes, NEW f, NEW k, RingTypes(f, k)
  PROVE  /\ \E r \in Threads : Tokens(canRead, ReaderPcs) \subseteq {r}
         /\ \A t \in Threads : ~(canRead[t] /\ pc[t] \in ReaderPcs)
         /\ Tokens(canWrite, WriterPcs) \subseteq {f} /\ f \in Threads
         /\ \A t \in Threads : ~(canWrite[t] /\ pc[t] \in WriterPcs)
<1>1. /\ numStarted \in Nat \ {0} /\ f \in 0 .. numStarted - 1 /\ k \in 0 .. numStarted
      /\ NumThreads \in Nat /\ numStarted <= NumThreads
  BY ConstantsAssumption DEF RingTypes, ControlTypes
<1>2. \A t \in Threads : t < numStarted =>
        /\ InRing(t, f, k, numStarted) /\ t \in 0 .. numStarted - 1
        /\ Dist(f, t, numStarted) \in 0 .. numStarted - 1
  BY <1>1, ThreadIsNat, DistFacts DEF RingTypes, Ring
<1>3. \A t \in Threads : ~(t < numStarted) => Parked(t)
  BY DEF RingTypes, Ring
<1>4. ASSUME NEW t \in Threads, canRead[t] \/ pc[t] \in ReaderPcs
      PROVE  /\ t < numStarted /\ (IF k = numStarted THEN t = f ELSE Dist(f, t, numStarted) = k)
             /\ ~(canRead[t] /\ pc[t] \in ReaderPcs)
  <2>1. t < numStarted
    BY <1>3, <1>4, Kinds DEF Parked
  <2>2. CASE Dist(f, t, numStarted) < k
    <3>1. pc[t] \notin ReaderPcs /\ canRead[t] /\ Dist(f, t, numStarted) = 0 /\ k = numStarted
      BY <1>2, <1>4, <2>1, <2>2, Kinds DEF InRing, Working
    <3> QED BY <1>1, <1>2, <2>1, <3>1, DistFacts
  <2>3. CASE Dist(f, t, numStarted) = k
    <3>1. k # numStarted
      BY <1>1, <1>2, <2>1, <2>3
    <3> QED BY <1>2, <2>1, <2>3, <3>1, Kinds DEF InRing, Reader
  <2>4. CASE Dist(f, t, numStarted) > k
    BY <1>2, <1>4, <2>1, <2>4, Kinds DEF InRing
  <2> QED BY <1>1, <1>2, <2>1, <2>2, <2>3, <2>4
<1>5. f \in Threads
  BY <1>1 DEF Threads
<1>6. \E r \in Threads : Tokens(canRead, ReaderPcs) \subseteq {r}
  <2>1. \A t, u \in Tokens(canRead, ReaderPcs) : t = u
    <3> SUFFICES ASSUME NEW t \in Tokens(canRead, ReaderPcs), NEW u \in Tokens(canRead, ReaderPcs)
                 PROVE  t = u
      OBVIOUS
    <3>1. t \in Threads /\ u \in Threads
      BY DEF Tokens
    <3>2. (canRead[t] \/ pc[t] \in ReaderPcs) /\ (canRead[u] \/ pc[u] \in ReaderPcs)
      BY DEF Tokens
    <3>3. /\ t < numStarted /\ (IF k = numStarted THEN t = f ELSE Dist(f, t, numStarted) = k)
          /\ u < numStarted /\ (IF k = numStarted THEN u = f ELSE Dist(f, u, numStarted) = k)
      BY <1>4, <3>1, <3>2
    <3>4. t \in 0 .. numStarted - 1 /\ u \in 0 .. numStarted - 1
      BY <1>2, <3>1, <3>3
    <3> QED BY <1>1, <3>3, <3>4, DistOne
  <2>2. Tokens(canRead, ReaderPcs) \subseteq Threads
    BY DEF Tokens
  <2>3. CASE Tokens(canRead, ReaderPcs) = {}
    BY <1>5, <2>3
  <2>4. CASE Tokens(canRead, ReaderPcs) # {}
    <3>1. PICK r : r \in Tokens(canRead, ReaderPcs)
      BY <2>4
    <3> QED BY <2>1, <2>2, <3>1
  <2> QED BY <2>3, <2>4
<1>7. \A t \in Threads : canWrite[t] \/ pc[t] \in WriterPcs =>
        t = f /\ ~(canWrite[t] /\ pc[t] \in WriterPcs)
  <2> SUFFICES ASSUME NEW t \in Threads, canWrite[t] \/ pc[t] \in WriterPcs
               PROVE  t = f /\ ~(canWrite[t] /\ pc[t] \in WriterPcs)
    OBVIOUS
  <2>1. t < numStarted
    BY <1>3, Kinds DEF Parked
  <2>2. Dist(f, t, numStarted) = 0 /\ ~(canWrite[t] /\ pc[t] \in WriterPcs)
    BY <1>2, <2>1 DEF InRing
  <2> QED BY <1>1, <1>2, <2>1, <2>2, DistFacts
<1>8. Tokens(canWrite, WriterPcs) \subseteq {f}
  BY <1>7 DEF Tokens
<1> QED BY <1>4, <1>5, <1>6, <1>7, <1>8

(* At most one thread reads and at most one writes, at every moment of a call *)
(* that uses threads, whatever their number and whatever fails (OneTokenEach).*)
THEOREM OneTokenAlways == Spec => []OneTokenEach
<1>1. IInv => OneTokenEach
  <2> SUFFICES ASSUME IInv, mpc = "threads" PROVE OneTokenEach
    BY DEF OneTokenEach
  <2>1. ASSUME NEW S, NEW x, S \subseteq {x} PROVE Cardinality(S) <= 1
    <3>1. IsFiniteSet({x}) /\ Cardinality({x}) = 1
      BY FS_Singleton
    <3> QED BY <2>1, <3>1, FS_Subset
  <2>2. ControlTypes /\ Phases
    BY DEF IInv
  <2>3. CASE Leaving
    <3>1. Tokens(canRead, ReaderPcs) \subseteq {0}
      BY <2>3, Kinds DEF Leaving, Parked, Tokens
    <3>2. Tokens(canWrite, WriterPcs) \subseteq {0}
      BY <2>3, Kinds DEF Leaving, Parked, Tokens
    <3>3. \A t \in Threads : ~(canRead[t] /\ pc[t] \in ReaderPcs) /\ ~(canWrite[t] /\ pc[t] \in WriterPcs)
      BY <2>3, Kinds DEF Leaving, Parked
    <3> QED BY <2>1, <3>1, <3>2, <3>3 DEF OneTokenEach
  <2>4. CASE ~Leaving
    <3>1. PICK f, k : RingTypes(f, k)
      BY <2>2, <2>4 DEF Phases, RingTypes
    <3> QED BY <2>1, <2>2, <3>1, RingTokens DEF OneTokenEach
  <2> QED BY <2>3, <2>4
<1> QED BY RingInvariant, <1>1, PTL

(* Out of the ring every thread waits and no event is set (AllParked).        *)
THEOREM ParkedOutside == Spec => []AllParked
<1>1. IInv => AllParked
  BY DEF IInv, Phases, AllRest, Parked, AllParked
<1> QED BY RingInvariant, <1>1, PTL

-----------------------------------------------------------------------------
(* Interruption *)

\* A thread that has taken canRead has the number of its block, which is not 0.
HasBlock(t) == pc[t] \in ReaderPcs \cup WorkPcs
Numbered ==
  /\ blockIndex \in Unit /\ interruptIndex \in Nat
  /\ \A t \in Threads : HasBlock(t) => local[t].block \in Unit

\* Between TakeRead and Register a thread keeps the number of its block.
LEMMA BlockStays ==
  ASSUME ControlTypes, NEW t \in Threads, Thread(t), ~TakeRead(t), ~Register(t)
  PROVE  HasBlock(t) /\ local'[t].block = local[t].block
<1>1. DOMAIN local = Threads /\ DOMAIN local[t] = FieldNames BY DEF ControlTypes
<1>2. \A n, f : LastParsed(t, local[t], n, f).block = local[t].block
  BY <1>1 DEF LastParsed, FieldNames, NewLocal
<1>3. HasBlock(t)
  BY DEF Thread, StartCheck, ReadCheck, CodeCheck, CheckError, NoBuffer, ReadCross, ReadStream,
     ParseOverflow, ParseContinue, ParseAll, ParseAfterEnd, ParseNew, NoCrossBlock, Recheck, PreCode,
     SpawnAndPass, PassOnly, SpawnFails, Code, CodeInterrupt, Interrupt, TakeWrite, Write,
     WriteInterrupt, HasBlock, ReaderPcs, WorkPcs, WriterPcs
<1> SUFFICES local'[t].block = local[t].block
  BY <1>3
<1> USE <1>1 DEF FieldNames, NewLocal
<1>4. CASE StartCheck(t) \/ ReadCheck(t) \/ CodeCheck(t)
  BY <1>4 DEF StartCheck, ReadCheck, CodeCheck, CheckError
<1>5. CASE NoBuffer(t) \/ ReadCross(t) BY <1>5 DEF NoBuffer, ReadCross
<1>6. CASE ReadStream(t)
  <2>1. PICK r \in Reads : local' = [local EXCEPT
            ![t].src = From(readPos + 1, r[1]), ![t].isCross = FALSE,
            ![t].finish = (r[1] # BufSize \/ r[2] # "OK"), ![t].size = @ + r[1],
            ![t].start = IF local[t].link = 0 THEN r[1] ELSE @]
    BY <1>6 DEF ReadStream
  <2> QED BY <2>1
<1>7. CASE ParseOverflow(t) \/ ParseContinue(t) \/ NoCrossBlock(t)
  BY <1>7 DEF ParseOverflow, ParseContinue, NoCrossBlock
<1>8. CASE ParseAll(t) \/ ParseAfterEnd(t) \/ ParseNew(t)
  <2>1. \E n, f : local' = [local EXCEPT ![t] = LastParsed(t, local[t], n, f)]
    BY <1>8 DEF ParseAll, ParseAfterEnd, ParseNew
  <2> HIDE DEF FieldNames, NewLocal
  <2> QED BY <1>2, <2>1
<1>9. CASE Recheck(t) BY <1>9 DEF Recheck
<1>10. CASE PreCode(t) BY <1>10 DEF PreCode
<1>11. CASE SpawnAndPass(t) \/ PassOnly(t) \/ SpawnFails(t)
  BY <1>11 DEF SpawnAndPass, PassOnly, SpawnFails, PassRead
<1>12. CASE Code(t) BY <1>12 DEF Code
<1>13. CASE CodeInterrupt(t) \/ WriteInterrupt(t) BY <1>13 DEF CodeInterrupt, WriteInterrupt, Interrupt
<1>14. CASE TakeWrite(t) BY <1>14 DEF TakeWrite
<1>15. CASE Write(t)
  <2> DEFINE After(r, more, again) ==
        local' = [local EXCEPT ![t].res = r, ![t].needContinue = more, ![t].canRecode = again]
  <2>1. ASSUME NEW r, NEW more, NEW again, After(r, more, again)
        PROVE  local'[t].block = local[t].block
    BY <2>1
  <2>2. CASE ~ToStream(local[t])
    <3>1. After("OK", FALSE, TRUE) BY <1>15, <2>2 DEF Write
    <3> HIDE DEF After
    <3> QED BY <2>1, <3>1
  <2>3. CASE ToStream(local[t]) /\ Mismatch(t)
    <3>1. After("FAIL", FALSE, TRUE) BY <1>15, <2>3 DEF Write
    <3> HIDE DEF After
    <3> QED BY <2>1, <3>1
  <2>4. CASE ToStream(local[t]) /\ ~Mismatch(t)
    <3>1. PICK w \in Writes(coder[t].data) :
            After(w[2], w[2] = "OK" /\ coder[t].state \notin {"OVERFLOW", "END"}, FALSE)
      BY <1>15, <2>4 DEF Write
    <3> DEFINE more == w[2] = "OK" /\ coder[t].state \notin {"OVERFLOW", "END"}
    <3>2. After(w[2], more, FALSE) BY <3>1
    <3> HIDE DEF more, After
    <3> QED BY <2>1, <3>2
  <2> QED BY <2>2, <2>3, <2>4
<1> QED BY <1>3, <1>4, <1>5, <1>6, <1>7, <1>8, <1>9, <1>10, <1>11, <1>12, <1>13, <1>14, <1>15
       DEF Thread

\* A thread that steps leaves the numbers of the others alone.
LEMMA OthersStay ==
  ASSUME ControlTypes, NEW t \in Threads, Thread(t), NEW u \in Threads, u # t
  PROVE  local'[u] = local[u] /\ (HasBlock(u)' => HasBlock(u))
<1>1. /\ DOMAIN local = Threads /\ pc \in [Threads -> ThreadPcs]
      /\ DOMAIN local[t] = FieldNames
  BY DEF ControlTypes
<1>2. ASSUME LocalStep(t), \E q : pc' = [pc EXCEPT ![t] = q]
      PROVE  local'[u] = local[u] /\ (HasBlock(u)' => HasBlock(u))
  BY <1>1, <1>2 DEF LocalStep, HasBlock
<1>3. CASE TakeRead(t) BY <1>1, <1>3 DEF TakeRead, HasBlock
<1>4. CASE Register(t) BY <1>1, <1>4 DEF Register, HasBlock
<1>5. CASE ReaderStep(t) \/ WorkerStep(t)
  BY <1>2, <1>5 DEF ReaderStep, WorkerStep, OnlyThread, Alone
<1>6. CASE SpawnAndPass(t)
  <2>1. pc' = [pc EXCEPT ![t] = "code", ![numStarted] = IF @ = "none" THEN "waitRead" ELSE @]
        /\ \E n : local' = [local EXCEPT ![t].next = n]
    BY <1>6 DEF SpawnAndPass
  <2>2. pc'[u] \in {pc[u], "waitRead"} BY <1>1, <2>1
  <2> QED BY <1>1, <2>1, <2>2, Kinds DEF HasBlock
<1>7. CASE PassOnly(t) \/ SpawnFails(t)
  BY <1>1, <1>7 DEF PassOnly, SpawnFails, PassRead, HasBlock
<1> QED BY <1>3, <1>4, <1>5, <1>6, <1>7, Steps

\* What happens to the two numbers.
LEMMA IndexSteps ==
  ASSUME NEW t \in Threads, Thread(t)
  PROVE  /\ blockIndex' = blockIndex \/ blockIndex' = blockIndex + 1
         /\ interruptIndex' = interruptIndex
              \/ (interruptIndex' = LowerIndex(local[t].block) /\ ~TakeRead(t) /\ ~Register(t))
<1> USE DEF readerVars, lockVars
<1>1. CASE TakeRead(t) BY <1>1 DEF TakeRead
<1>2. CASE Register(t) BY <1>2 DEF Register
<1>3. CASE CodeInterrupt(t) \/ WriteInterrupt(t)
  BY <1>3 DEF CodeInterrupt, WriteInterrupt, Interrupt, TakeRead, Register
<1>4. CASE StartCheck(t) \/ ReadCheck(t) \/ CodeCheck(t)
  BY <1>4 DEF StartCheck, ReadCheck, CodeCheck, CheckError
<1>5. CASE NoBuffer(t) \/ ReadCross(t) \/ ReadStream(t)
  BY <1>5 DEF NoBuffer, ReadCross, ReadStream
<1>6. CASE ParseOverflow(t) \/ ParseContinue(t) \/ ParseAll(t) \/ ParseAfterEnd(t)
             \/ ParseNew(t) \/ NoCrossBlock(t)
  BY <1>6 DEF ParseOverflow, ParseContinue, ParseAll, ParseAfterEnd, ParseNew, NoCrossBlock, Parsed
<1>7. CASE Recheck(t) \/ PreCode(t) BY <1>7 DEF Recheck, PreCode
<1>8. CASE SpawnAndPass(t) \/ PassOnly(t) \/ SpawnFails(t)
  BY <1>8 DEF SpawnAndPass, PassOnly, SpawnFails, Unspawned
<1>9. CASE Code(t) \/ TakeWrite(t) \/ Write(t) BY <1>9 DEF Code, TakeWrite, Write
<1> QED BY <1>1, <1>2, <1>3, <1>4, <1>5, <1>6, <1>7, <1>8, <1>9 DEF Thread

\* The thread of the caller numbers blocks anew, and touches neither the locals nor the
\* threads that have a block.
LEMMA MainNumbers ==
  ASSUME IInv, Main
  PROVE  /\ local' = local
         /\ UNCHANGED <<blockIndex, interruptIndex>> \/ (blockIndex' = 1 /\ interruptIndex' = 0)
         /\ pc' = pc \/ \E u \in Threads, q \in {"none", "waitRead"} : pc' = [pc EXCEPT ![u] = q]
<1> USE DEF readerVars, lockVars
<1>1. CASE Decode BY <1>1, Zero DEF Decode, StartThreads, StartAlone
<1>2. CASE ThreadsReturn BY <1>2, Zero DEF ThreadsReturn
<1>3. CASE Prepare BY <1>3 DEF Prepare
<1>4. CASE FetchFilled \/ FetchCross \/ FetchNothing \/ FetchStream
  BY <1>4 DEF FetchFilled, FetchCross, FetchNothing, FetchStream, Unfetched
<1>5. CASE DecodeChunk \/ Return BY <1>5 DEF DecodeChunk, Return
<1>6. CASE Destroy \/ CloseThread \/ Destroyed BY <1>6 DEF Destroy, CloseThread, Destroyed
<1>7. CASE JoinThread
  <2>1. freeIdx \in Threads
    BY <1>7 DEF JoinThread, IInv, Phases
  <2> QED BY <1>7, <2>1 DEF JoinThread
<1> QED BY <1>1, <1>2, <1>3, <1>4, <1>5, <1>6, <1>7 DEF Main

\* The numbers stay numbers.
LEMMA NumberedStep ==
  ASSUME IInv, Numbered, [Next]_vars PROVE Numbered'
<1> USE DEF IInv
<1>1. CASE Main
  <2>1. UNCHANGED <<blockIndex, interruptIndex>> \/ (blockIndex' = 1 /\ interruptIndex' = 0)
    BY <1>1, MainNumbers
  <2>2. local' = local
    BY <1>1, MainNumbers
  <2>3. pc' = pc \/ \E u \in Threads, q \in {"none", "waitRead"} : pc' = [pc EXCEPT ![u] = q]
    BY <1>1, MainNumbers
  <2>4. \A u \in Threads : HasBlock(u)' => HasBlock(u)
    BY <2>3, Kinds DEF HasBlock, ControlTypes
  <2> QED BY <2>1, <2>2, <2>4 DEF Numbered, Unit
<1>2. ASSUME NEW t \in Threads, Thread(t) PROVE Numbered'
  <2>1. \A u \in Threads : u # t /\ HasBlock(u)' => local'[u].block \in Unit
    BY <1>2, OthersStay DEF Numbered
  <2>2. HasBlock(t)' => local'[t].block \in Unit
    <3>1. CASE TakeRead(t)
      <4>1. CASE exitThread
        <5>1. pc'[t] \in {"out", "exited"} BY <3>1, <4>1 DEF TakeRead, ControlTypes
        <5> QED BY <5>1, Kinds DEF HasBlock
      <4>2. CASE ~exitThread
        <5>1. local' = [local EXCEPT ![t] = [NewLocal EXCEPT !.block = blockIndex,
                                                            !.finish = readWasFinished]]
          BY <3>1, <4>2 DEF TakeRead
        <5>2. local'[t].block = blockIndex BY <5>1 DEF ControlTypes, NewLocal
        <5> QED BY <5>2 DEF Numbered
      <4> QED BY <4>1, <4>2
    <3>2. CASE Register(t)
      <4>1. pc'[t] \in {"out", "waitRead"} BY <3>2 DEF Register, ControlTypes
      <4> QED BY <4>1, Kinds DEF HasBlock
    <3>3. CASE ~TakeRead(t) /\ ~Register(t)
      BY <1>2, <3>3, BlockStays DEF Numbered
    <3> QED BY <3>1, <3>2, <3>3
  <2>3. blockIndex' \in Unit BY <1>2, IndexSteps DEF Numbered, Unit
  <2>4. interruptIndex' \in Nat
    BY <1>2, IndexSteps, BlockStays DEF Numbered, LowerIndex, Unit
  <2> QED BY <2>1, <2>2, <2>3, <2>4 DEF Numbered
<1>3. CASE UNCHANGED vars
  BY <1>3 DEF vars, mainVars, readerVars, lockVars, Numbered, HasBlock
<1> QED BY <1>1, <1>2, <1>3 DEF Next, Finished

-----------------------------------------------------------------------------
(* The data *)

\* Decoding ends at the end mark or at the corrupt unit.
StopAt   == IF stream.bad # 0 /\ stream.bad < LastUnit THEN stream.bad ELSE LastUnit
Sound(p) == stream.bad = 0 \/ p < stream.bad
Complete == stream.bad = 0 /\ stream.size >= LastUnit

\* A block was not written, or none will be any more.
Broken == wasInterrupted \/ progRes # "OK"

\* The fields of a decoder.
CoderNames == DOMAIN NewCoder

\* The types of a thread's local variables,
LocalType(l) ==
  /\ l.block \in Nat /\ l.res \in {"OK", "PROGRESS", "WRITE", "FAIL"}
  /\ l.codeRes \in {"OK", "DATA", "MEM", "FAIL"}
  /\ {l.interrupted, l.alloc, l.over, l.thr, l.needCode, l.needWrite, l.toStream,
      l.isCross, l.canRecode} \subseteq BOOLEAN
  /\ l.start \in Nat /\ l.size \in Nat /\ l.link \in Nat /\ l.src \in Seq(Unit)

\* and those of its decoder.
CoderType(c) ==
  /\ DOMAIN c = CoderNames
  /\ c.state \in {"CONTINUE", "NEW", "END", "OVERFLOW"} /\ c.mark \in BOOLEAN
  /\ c.inPre \in Nat /\ c.end \in Nat /\ c.data \in Seq(Unit) /\ c.codeRes \in {"OK", "DATA"}

\* What thread t works with.
Typed(t) == LocalType(local[t]) /\ CoderType(coder[t]) /\ buf[t] \in Seq(Seq(Unit))

\* The types of what belongs to the holder of canRead,
ReaderTypes ==
  /\ readPos \in Nat /\ readRes \in {"OK", "READ"} /\ crossBlock \in BOOLEAN /\ cross \in Seq(Unit)

\* of what belongs to the holder of canWrite,
WriterTypes ==
  /\ {wasInterrupted, isAllocError, overflow, threadingError} \subseteq BOOLEAN
  /\ filledStart \in Threads /\ numFilled \in Nat /\ saved \in [Threads -> [start : Nat, size : Nat]]
  /\ inProcessed \in Nat /\ out \in Seq(Unit) /\ refused \in BOOLEAN

\* and of what belongs to the caller.
MainTypes ==
  /\ stream \in Streams /\ calls \in 0 .. NumCalls /\ result \in Results
  /\ tMode \in BOOLEAN /\ chunk \in Seq(Unit) /\ freeIdx \in 0 .. NumThreads

\* The types of what the threads carry; ControlTypes has those of what decides where they go.
DataTypes ==
  /\ MainTypes /\ ReaderTypes /\ WriterTypes
  /\ DOMAIN buf = Threads /\ DOMAIN coder = Threads
  /\ \A t \in Threads : Typed(t)
  /\ Numbered /\ progRes \in {"OK", "PROGRESS"}

\* Each of the first m buffers holds units that follow one another, the first of them being
\* at most unit last.
Pieces(B, m, last) ==
  \A i \in 1 .. m : B[i] # <<>> /\ B[i] = From(B[i][1], Len(B[i])) /\ B[i][1] <= last

\* Where the first two of m buffers begin.
Heads(B, m, p, start, size) ==
  /\ m = 0 => start = 0 /\ size = 0
  /\ m > 0 => B[1][1] = p + 1 /\ start \in 1 .. Len(B[1]) /\ start <= size
  /\ m = 1 => start = size
  /\ m > 1 => B[2][1] = p + start + 1

\* From the second on, all of m buffers but the last are full.
Filling(B, m) ==
  /\ \A i \in 2 .. m : Len(B[i]) <= BufSize
  /\ \A i \in 2 .. m - 1 : Len(B[i]) = BufSize /\ B[i + 1][1] = B[i][1] + BufSize

\* The first m buffers hold the size units behind p, of which start are in the first.
Chain(B, m, p, start, size) ==
  /\ m <= Len(B) /\ Pieces(B, m, p + size) /\ Heads(B, m, p, start, size) /\ Filling(B, m)
  /\ m > 1 => p + size < B[m][1] + Len(B[m])

\* No more units than one buffer is made for.
Small(b) == Len(b) <= BufSize

\* A chain whose last buffer is used to its end, so that the next one may follow.
FullChain(B, m, p, start, size) ==
  /\ Chain(B, m, p, start, size) /\ m >= 1
  /\ p + size + 1 = B[m][1] + Len(B[m])
  /\ m > 1 => Len(B[m]) = BufSize

\* Nothing has gone wrong with the block yet.
Clean(l) == /\ ~l.needCode /\ ~l.over /\ ~l.thr /\ ~l.alloc /\ ~l.toStream /\ l.canRecode
            /\ l.codeRes = "OK" /\ l.res = "OK" /\ ~l.interrupted /\ ~l.needContinue

\* The input behind p is in the cross block, and then in the stream.
InputFrom(p) == cross = From(p + 1, Len(cross)) /\ p + Len(cross) = readPos

\* Before the first input of a block that begins behind p.
Fresh(t, p) ==
  LET l == local[t] IN
  /\ Clean(l) /\ ~l.needWrite /\ l.link = 0 /\ l.size = 0 /\ l.start = 0 /\ l.src = <<>> /\ ~l.isCross
  /\ coder[t] = NewCoder
  /\ InputFrom(p)
  /\ l.finish => readPos = stream.size \/ readRes # "OK"

\* Between two inputs of a block, of which n units were parsed.
Parsing(t, p, n) ==
  LET l == local[t]
      c == coder[t]
  IN
  /\ FullChain(buf[t], l.link, p, l.start, n)
  /\ c.state = "CONTINUE" /\ ~c.mark /\ c.inPre = n /\ c.data = <<>> /\ c.codeRes = "OK"
  /\ p + n <= c.end /\ c.end <= LastUnit /\ p + n < LastUnit
  /\ l.needWrite

\* The block that begins behind p needs more input.
ReadOn(t, p) ==
  LET l == local[t] IN
  /\ Clean(l) /\ l.src = <<>> /\ ~l.finish /\ l.link > 0
  /\ Parsing(t, p, l.size)
  /\ cross = <<>> /\ p + l.size = readPos

\* The thread has input that it has not parsed: from the stream, in the buffer behind
\* those that are linked, or the cross block.
ToParse(t, p) ==
  LET l == local[t]
      n == l.size - Len(l.src)
      q == p + n
  IN
  /\ Clean(l) /\ n >= 0
  /\ l.src = From(q + 1, Len(l.src)) /\ p + l.size = readPos
  /\ IF l.link = 0 THEN coder[t] = NewCoder /\ n = 0 /\ l.start = l.size /\ ~l.needWrite
                   ELSE Parsing(t, p, n)
  /\ IF l.isCross THEN l.link = 0 /\ crossBlock /\ l.src = cross /\ cross # <<>>
     ELSE /\ cross = <<>> /\ l.link < Len(buf[t]) /\ buf[t][l.link + 1] = l.src
          /\ Len(l.src) <= BufSize /\ (~l.finish => Len(l.src) = BufSize)
  /\ l.finish => readPos = stream.size \/ readRes # "OK"
  /\ pc[t] = "readCheck" => ~l.isCross

\* The input of the block lies in the first buffers.
Chained(t, p) == \E m \in 0 .. Len(buf[t]) : Chain(buf[t], m, p, local[t].start, local[t].size)

\* All of the block's input was parsed.
Facts(t, p) ==
  LET l == local[t]
      c == coder[t]
  IN
  /\ Chained(t, p)
  /\ l.needCode => /\ l.needWrite /\ ~l.over
                   /\ IF l.alloc THEN c.inPre \in 1 .. l.size ELSE c.inPre = l.size
                   /\ c.inPre = 0 => p >= stream.size \/ readRes # "OK"
                   /\ ~l.finish => c.state = "NEW" /\ l.size >= 1
                   /\ c.state # "END" /\ ~l.alloc => p + l.size < LastUnit
  /\ l.alloc \/ l.over \/ l.thr => l.finish
  /\ c.state = "OVERFLOW" => l.over
  /\ c.state = "END" => l.finish /\ p + l.size \in StopAt .. LastUnit

\* The decoder of the thread has not begun with the data.
Undecoded(t) ==
  /\ coder[t].data = <<>> /\ local[t].codeRes = "OK" /\ coder[t].codeRes = "OK"
  /\ ~local[t].toStream /\ ~local[t].thr /\ local[t].canRecode /\ ~local[t].needContinue

\* Why a block is not decoded by its thread.
Excused(l) == l.over \/ l.alloc \/ l.thr \/ l.interrupted \/ l.res # "OK"

\* Between the last input of a block and its decoding; b is its number.
Early(t, p, b) ==
  LET l == local[t] IN
  /\ Facts(t, p) /\ Undecoded(t)
  /\ l.res # "OK" => progRes # "OK"
  /\ pc[t] = "recheck" /\ ~l.needCode => l.over \/ l.alloc \/ IsInterrupted(b) \/ progRes # "OK"
  /\ pc[t] = "precode" => (l.interrupted => IsInterrupted(b)) /\ (~l.needCode => Excused(l))
  /\ pc[t] = "pass" => l.needCode /\ ~l.finish /\ l.link = 0 /\ ~l.interrupted

\* Decoding goes on with the buffer link.
Cursor(t, p) ==
  LET l    == local[t]
      c    == coder[t]
      done == Len(c.data)
  IN
  /\ \E m \in 0 .. Len(buf[t]) : Chain(buf[t], m, p, l.start, l.size) /\ l.link < m
  /\ buf[t][l.link + 1][1] = p + done + 1
  /\ l.link = 0 <=> done = 0
  /\ done < l.size /\ done < c.inPre
  /\ l.needCode /\ l.codeRes = "OK" /\ c.codeRes = "OK"

\* A block that cannot go to the stream as it is.
Failed(l) == l.codeRes # "OK" \/ l.thr \/ l.alloc \/ l.over

\* What was decoded is what goes to the stream.
Whole(t) ==
  LET l == local[t]
      c == coder[t]
  IN
  /\ l.needCode /\ l.codeRes = "OK" /\ l.res = "OK" /\ ~l.interrupted /\ ~l.alloc => Len(c.data) = c.inPre
  /\ l.needCode /\ l.codeRes # "OK" => c.codeRes = "DATA" \/ Len(c.data) = c.inPre
  /\ l.codeRes = "FAIL" => l.alloc
  /\ l.codeRes = "DATA" => ~Complete \/ readRes # "OK"
  /\ ~l.needCode => \/ Excused(l) \/ l.codeRes = "MEM"
                    \/ l.codeRes = "DATA" /\ c.codeRes = "DATA" /\ c.inPre = 0 /\ l.size = 0

\* From the first decoding of a block to the end of its turn to write.
Decoding(t, p, b) ==
  LET l == local[t]
      c == coder[t]
  IN
  /\ Facts(t, p)
  /\ c.data = From(p + 1, Len(c.data)) /\ Len(c.data) <= c.inPre /\ Len(c.data) <= l.size
  /\ c.data = <<>> \/ (l.needCode /\ Sound(p + Len(c.data)))
  /\ l.codeRes = "MEM" => l.finish
  /\ ~l.finish => l.needCode
  /\ pc[t] \in {"code", "codeCheck"} => Cursor(t, p)
  /\ pc[t] = "interrupt" => l.codeRes # "OK"
  /\ pc[t] \in {"interrupt", "waitWrite", "write"} => Whole(t)
  /\ pc[t] \notin {"interrupt2", "register"} =>
       /\ l.interrupted => IsInterrupted(b) \/ (pc[t] = "write" /\ wasInterrupted)
       /\ l.res # "OK" => progRes # "OK"
       /\ l.canRecode
  /\ pc[t] = "write" => /\ Failed(l) => wasInterrupted
                        /\ ~l.toStream => wasInterrupted
                        /\ l.toStream /\ ~l.interrupted => ~(l.thr \/ AllocError(l) \/ l.over)

\* What a thread knows of its block, which begins behind p, by its place.
BlockOk(t, p, b) ==
  /\ p < LastUnit
  /\ pc[t] = "check" => Fresh(t, p)
  /\ pc[t] = "read" => IF local[t].link = 0 THEN Fresh(t, p) ELSE ReadOn(t, p)
  /\ pc[t] \in {"readCheck", "parse"} => ToParse(t, p)
  /\ pc[t] \in {"recheck", "precode", "pass"} => Early(t, p, b)
  /\ pc[t] \in WorkPcs => Decoding(t, p, b)

\* The thread whose block is the last that was read.
InHand(t) == HasBlock(t) /\ (pc[t] \in ReaderPcs \/ local[t].finish)

\* What lies behind the last block.
LastBlock(t, p) ==
  LET q == p + local[t].size IN
  pc[t] \in {"recheck", "precode", "pass"} \cup WorkPcs =>
    /\ cross = From(q + 1, Len(cross))
    /\ q + Len(cross) = readPos \/ (coder[t].state = "END" /\ q >= StopAt)

\* The output when a block that begins behind p is to be written, and has been.
Ready(p) == Len(out) = p /\ Sound(p) /\ numFilled = 0

\* The thread that writes, or has written, the block behind p.
Writing(t, p) ==
  LET l == local[t]
      q == p + l.size
  IN
  /\ IF pc[t] = "write"
     THEN /\ (ToStream(l) /\ coder[t].data # <<>>) \/ ~Broken => Ready(p)
          /\ l.needWrite
     ELSE /\ ~Broken => /\ Ready(q) /\ ~l.canRecode
                        /\ l.finish /\ ~l.needContinue => coder[t].state = "END"
          /\ l.finish /\ l.needContinue => coder[t].state # "END" /\ q < LastUnit /\ ~l.canRecode
  /\ pc[t] = "interrupt2" => Broken
  /\ NeedContinue /\ progRes = "OK" =>
       /\ Ready(p) /\ l.finish /\ l.canRecode /\ ~l.needContinue
       /\ pc[t] = "write" => ~l.toStream
  /\ pc[t] = "register" /\ ~l.finish /\ l.canRecode =>
       interruptIndex # 0 /\ interruptIndex <= l.block

\* A ring that is left for good has a reason, which the result will name.
Reason == wasInterrupted /\ ~NeedContinue /\ progRes = "OK" => refused \/ ~Complete \/ readRes # "OK"

\* An interruption was noticed by the writer, or the thread that has made it waits to write.
Interrupts ==
  interruptIndex # 0 =>
    \/ Broken
    \/ \E t \in Threads : /\ pc[t] = "waitWrite" /\ local[t].block = interruptIndex
                          /\ local[t].codeRes # "OK"

\* The blocks are numbered as the ring goes round, first being that of the front.
Numbers(f, k, first) ==
  /\ first \in Unit
  /\ blockIndex = first + k + (IF \E t \in Threads : InHand(t) THEN 1 ELSE 0)
  /\ \A t \in Threads : HasBlock(t) => local[t].block = first + Dist(f, t, numStarted)

\* pos[i] is the place in the stream behind which block i begins.
Data(first, pos) ==
  /\ pos \in [Unit -> Nat]
  /\ \A t \in Threads : HasBlock(t) => BlockOk(t, pos[local[t].block], local[t].block)
  /\ \A t \in Threads : InHand(t) => LastBlock(t, pos[local[t].block])
  /\ \A t \in Threads : HasBlock(t) /\ ~InHand(t) =>
       pos[local[t].block + 1] = pos[local[t].block] + local[t].size
  /\ (\A t \in Threads : ~InHand(t)) => InputFrom(pos[blockIndex]) /\ pos[blockIndex] < LastUnit
  /\ \A t \in Threads : pc[t] \in WriterPcs => Writing(t, pos[local[t].block])
  /\ (\A t \in Threads : pc[t] \notin WriterPcs) =>
       (~Broken => Ready(pos[first])) /\ (NeedContinue => progRes # "OK")

\* What the threads keep from the first block on that was not written.
Filled(first) ==
  numFilled > 0 =>
    /\ numFilled < first /\ numFilled <= numStarted
    /\ interruptIndex # 0 /\ interruptIndex <= first - numFilled
    /\ \A t \in Threads : HasBlock(t) /\ local[t].block >= first - numFilled + numStarted =>
         pc[t] = "check" \/ (local[t].size = 0 /\ (pc[t] = "precode" \/ (pc[t] \in WorkPcs /\ local[t].finish)))

\* What stays true once the ring has been left.
Flags == (NeedContinue => wasInterrupted) /\ Reason

\* What is left to the single-thread decoder behind p.
Left(p, B, start) ==
  LET size == IF numFilled = 0 THEN 0 ELSE saved[filledStart].size
      q    == p + size
  IN
  /\ numFilled \in {0, 1}
  /\ numFilled = 1 => filledStart < numStarted
                      /\ \E m \in 0 .. Len(B) : Chain(B, m, p, start, size)
  /\ cross = From(q + 1, Len(cross))
  /\ q + Len(cross) = readPos \/ q + Len(cross) >= StopAt

\* Something is left, and what was written is right.
Rest(p, B, start) == p < LastUnit /\ Sound(p) /\ Left(p, B, start)

\* When the ring has ended: all is written, or the caller knows why not, or the rest is
\* for the single-thread decoder.
HandOver ==
  /\ ~Broken => (stream.bad = 0 => Len(out) = LastUnit)
  /\ Flags /\ numFilled <= numStarted
  /\ NeedContinue /\ progRes = "OK" =>
       /\ Rest(Len(out), buf[filledStart], saved[filledStart].start)
       /\ numFilled = 1 => saved[filledStart].size # 0

\* How much of the first buffer the single-thread decoder still has to take.
LeftStart == IF saved[filledStart].start # 0 THEN saved[filledStart].start
             ELSE Minimum(BufSize, saved[filledStart].size)

\* The single-thread decoder: chunk is what it decodes, behind what was written.
Single ==
  LET next == IF mpc = "decode" THEN Len(out) + Len(chunk) ELSE Len(out) IN
  /\ mpc = "threads" => chunk = <<>>
  /\ mpc = "prepare" /\ ~tMode => out = <<>> /\ readPos = 0 /\ chunk = <<>> /\ numFilled <= numStarted
  /\ mpc = "prepare" /\ tMode => HandOver /\ NeedContinue /\ progRes = "OK" /\ chunk = <<>>
  /\ mpc \in {"fetch", "decode"} =>
       /\ Len(out) < LastUnit /\ Sound(Len(out))
       /\ mpc = "decode" => chunk = From(Len(out) + 1, Len(chunk)) /\ (tMode => chunk # <<>>)
       /\ IF tMode THEN /\ Left(next, IF Used THEN Tail(buf[filledStart]) ELSE buf[filledStart], LeftStart)
                        /\ numFilled = 1 => IF Used THEN /\ saved[filledStart].start = 0 /\ buf[filledStart] # <<>>
                                                         /\ saved[filledStart].size # 0 => Small(buf[filledStart][2])
                                             ELSE saved[filledStart].size # 0 /\ saved[filledStart].start # 0
                   ELSE next = readPos \/ next >= StopAt
       /\ mpc = "decode" /\ chunk = <<>> => readPos >= stream.size \/ readRes # "OK"

\* What a result of OK means.
Returning ==
  /\ mpc \in {"idle", "return"} /\ result = "OK" /\ Complete /\ ~refused => Len(out) = LastUnit
  /\ mpc = "idle" /\ result = "OK" => readRes = "OK"

\* The reader has not read behind the end of the stream.
ReaderOk ==
  /\ cross # <<>> => crossBlock
  /\ readPos <= stream.size
  /\ readWasFinished => readPos = stream.size \/ readRes # "OK"

\* The output is the beginning of the decoded stream.
WriterOk ==
  /\ out = From(1, Len(out))
  /\ ~refused /\ "progress" \notin Faults => inProcessed = Len(out)

\* What holds in every place of the caller.
Always ==
  /\ ReaderOk /\ WriterOk
  /\ \A t \in Threads : ~HasBlock(t) => coder[t] = NewCoder
  /\ numFilled <= numStarted

\* The invariant of the data; first is the number of the block at the front of the ring.
DInv ==
  /\ DataTypes /\ Always
  /\ mpc = "threads" => Flags
  /\ mpc = "threads" /\ Leaving => HandOver
  /\ mpc = "threads" /\ ~Leaving =>
       /\ Interrupts
       /\ \E f, k, first, pos : /\ RingTypes(f, k) /\ Numbers(f, k, first)
                                /\ Data(first, pos) /\ Filled(first)
  /\ Single /\ Returning

-----------------------------------------------------------------------------
(* Pieces of the input *)

\* The n units from p on, as a sequence.
LEMMA FromIs ==
  ASSUME NEW p \in Unit, NEW n \in Nat
  PROVE  /\ From(p, n) \in Seq(Unit)
         /\ Len(From(p, n)) = n
         /\ \A i \in 1 .. n : From(p, n)[i] = p + i - 1
         /\ From(p, n) = <<>> <=> n = 0
<1>1. \A i \in 1 .. n : p + i - 1 \in Unit  BY DEF Unit
<1>2. From(p, n) \in Seq(Unit)  BY <1>1, IsASeq DEF From
<1>3. DOMAIN From(p, n) = 1 .. n  BY DEF From
<1>4. Len(From(p, n)) = n  BY <1>2, <1>3, LenProperties, SMT
<1>5. \A i \in 1 .. n : From(p, n)[i] = p + i - 1  BY DEF From
<1>6. From(p, n) = <<>> <=> n = 0  BY <1>2, <1>4, EmptySeq
<1> QED  BY <1>2, <1>4, <1>5, <1>6

\* A sequence that counts on from p is that of the units from p on.
LEMMA FromSame ==
  ASSUME NEW p \in Unit, NEW n \in Nat, NEW s \in Seq(Unit), Len(s) = n,
         \A i \in 1 .. n : s[i] = p + i - 1
  PROVE  s = From(p, n)
BY FromIs, SeqEqual

\* The first m of the units from p on.
LEMMA FromSub ==
  ASSUME NEW p \in Unit, NEW n \in Nat, NEW m \in 0 .. n
  PROVE  SubSeq(From(p, n), 1, m) = From(p, m)
<1> DEFINE s == From(p, n)
<1>1. s \in Seq(Unit) /\ Len(s) = n  BY FromIs
<1>2. SubSeq(s, 1, m) \in Seq(Unit) /\ Len(SubSeq(s, 1, m)) = m
      /\ \A i \in 1 .. m : SubSeq(s, 1, m)[i] = s[i]
  BY <1>1, SubSeqProperties, SMT
<1>3. \A i \in 1 .. n : s[i] = p + i - 1  BY FromIs
<1> HIDE DEF s
<1>4. \A i \in 1 .. m : SubSeq(s, 1, m)[i] = p + i - 1  BY <1>2, <1>3
<1>6. m \in Nat  OBVIOUS
<1>5. SubSeq(s, 1, m) = From(p, m)  BY <1>2, <1>4, <1>6, FromSame
<1> QED  BY <1>5 DEF s

\* The units from p on without the first m.
LEMMA FromDrop ==
  ASSUME NEW p \in Unit, NEW n \in Nat, NEW m \in 0 .. n
  PROVE  Drop(From(p, n), m) = From(p + m, n - m)
<1> DEFINE s == From(p, n)
           d == SubSeq(s, m + 1, n)
<1>1. s \in Seq(Unit) /\ Len(s) = n  BY FromIs
<1>2. m + 1 \in 1 .. n + 1 /\ n - m \in Nat /\ p + m \in Unit  BY DEF Unit
<1>3. d \in Seq(Unit) /\ Len(d) = n - m /\ \A i \in 1 .. n - m : d[i] = s[m + i]
  BY <1>1, <1>2, SubSeqProperties, SMT
<1>4. \A i \in 1 .. n - m : m + i \in 1 .. n  BY <1>2
<1>8. \A i \in 1 .. n : s[i] = p + i - 1  BY FromIs
<1>5. \A i \in 1 .. n - m : s[m + i] = p + m + i - 1
  <2> SUFFICES ASSUME NEW i \in 1 .. n - m  PROVE s[m + i] = p + m + i - 1  OBVIOUS
  <2>1. s[m + i] = p + (m + i) - 1  BY <1>4, <1>8
  <2> HIDE DEF s
  <2> QED  BY <2>1 DEF Unit
<1>6. \A i \in 1 .. n - m : d[i] = p + m + i - 1  BY <1>3, <1>5
<1>7. d = From(p + m, n - m)
  <2> HIDE DEF d, s
  <2> QED  BY <1>2, <1>3, <1>6, FromSame
<1> QED  BY <1>1, <1>7 DEF Drop

\* The units from p on without p itself.
LEMMA FromTail ==
  ASSUME NEW p \in Unit, NEW n \in Nat \ {0}
  PROVE  /\ Head(From(p, n)) = p
         /\ Tail(From(p, n)) = From(p + 1, n - 1)
<1> DEFINE s == From(p, n)
<1>1. s \in Seq(Unit) /\ Len(s) = n /\ s # <<>>  BY FromIs
<1>2. n - 1 \in Nat /\ p + 1 \in Unit  BY DEF Unit
<1>3. Head(s) = s[1] /\ Tail(s) \in Seq(Unit) /\ Len(Tail(s)) = n - 1
      /\ \A i \in 1 .. n - 1 : Tail(s)[i] = s[i + 1]
  BY <1>1, HeadTailProperties
<1>4. \A i \in 1 .. n : s[i] = p + i - 1  BY FromIs
<1> HIDE DEF s
<1>5. \A i \in 1 .. n - 1 : Tail(s)[i] = p + 1 + i - 1  BY <1>2, <1>3, <1>4 DEF Unit
<1>6. Tail(s) = From(p + 1, n - 1)  BY <1>2, <1>3, <1>5, FromSame
<1>7. Head(s) = p  BY <1>3, <1>4 DEF Unit
<1> QED  BY <1>6, <1>7 DEF s

\* The units from p on, and those behind them.
LEMMA FromCat ==
  ASSUME NEW p \in Unit, NEW n \in Nat, NEW m \in Nat
  PROVE  From(p, n) \o From(p + n, m) = From(p, n + m)
<1> DEFINE s == From(p, n)
           u == From(p + n, m)
<1>1. p + n \in Unit /\ n + m \in Nat  BY DEF Unit
<1>2. s \in Seq(Unit) /\ Len(s) = n /\ u \in Seq(Unit) /\ Len(u) = m  BY <1>1, FromIs
<1>3. s \o u \in Seq(Unit) /\ Len(s \o u) = n + m
      /\ \A i \in 1 .. n + m : (s \o u)[i] = IF i <= n THEN s[i] ELSE u[i - n]
  <2> HIDE DEF s, u
  <2> QED  BY <1>2, ConcatProperties
<1>4. ASSUME NEW i \in 1 .. n + m  PROVE (s \o u)[i] = p + i - 1
  <2>1. CASE i <= n
    <3>1. s[i] = p + i - 1  BY <2>1, FromIs
    <3> QED  BY <1>3, <2>1, <3>1
  <2>2. CASE i > n
    <3>1. i - n \in 1 .. m  BY <2>2
    <3>2. u[i - n] = p + n + (i - n) - 1  BY <1>1, <3>1, FromIs
    <3>3. (s \o u)[i] = u[i - n]  BY <1>3, <2>2
    <3> HIDE DEF s, u
    <3> QED  BY <3>3, <2>2, <3>2 DEF Unit
  <2>3. i <= n \/ i > n  OBVIOUS
  <2> HIDE DEF s, u
  <2> QED  BY <2>1, <2>2, <2>3
<1> HIDE DEF s, u
<1>5. s \o u = From(p, n + m)  BY <1>1, <1>3, <1>4, FromSame
<1> QED  BY <1>5 DEF s, u

\* Cutting off what follows from unit u on.
LEMMA FromBefore ==
  ASSUME NEW p \in Nat, NEW n \in Nat, NEW u \in Nat
  PROVE  Before(From(p + 1, n), u) = From(p + 1, IF u <= p + 1 THEN 0 ELSE Minimum(n, u - (p + 1)))
<1> DEFINE s == From(p + 1, n)
<1>0. p + 1 \in Unit  BY DEF Unit
<1>1. s \in Seq(Unit) /\ Len(s) = n /\ (s = <<>> <=> n = 0)  BY <1>0, FromIs
<1>4. From(p + 1, 0) = <<>>  BY <1>0, FromIs
<1>2. CASE n = 0
  <2>1. u > p + 1 => Minimum(n, u - (p + 1)) = 0  BY <1>2 DEF Minimum
  <2>2. Before(s, u) = <<>>  BY <1>1, <1>2 DEF Before
  <2> QED BY <1>4, <2>1, <2>2
<1>3. CASE n # 0
  <2>1. Head(s) = p + 1  BY <1>0, <1>3, FromTail
  <2>2. CASE u <= p + 1
    <3>1. Before(s, u) = <<>>  BY <2>1, <2>2 DEF Before
    <3> QED BY <1>4, <2>2, <3>1
  <2>3. CASE u > p + 1
    <3>2. Minimum(n, u - (p + 1)) \in 0 .. n  BY <2>3 DEF Minimum
    <3>3. SubSeq(s, 1, Minimum(n, u - (p + 1))) = From(p + 1, Minimum(n, u - (p + 1)))
      BY <1>0, <3>2, FromSub
    <3>4. ~(s = <<>> \/ u <= Head(s)) BY <1>1, <1>3, <2>1, <2>3
    <3>5. Before(s, u) = SubSeq(s, 1, Minimum(n, u - (p + 1)))
      <4> HIDE DEF s
      <4> QED BY <1>1, <2>1, <3>4 DEF Before
    <3>6. (IF u <= p + 1 THEN 0 ELSE Minimum(n, u - (p + 1))) = Minimum(n, u - (p + 1))
      BY <2>3
    <3> QED  BY <3>3, <3>5, <3>6
  <2> QED BY <2>2, <2>3
<1> QED  BY <1>2, <1>3

-----------------------------------------------------------------------------
(* The places of the threads *)

\* Whose block a place of the ring stands for.
LEMMA Places ==
  ASSUME ControlTypes, NEW f, NEW k, RingTypes(f, k)
  PROVE  /\ numStarted \in Nat \ {0} /\ f \in 0 .. numStarted - 1 /\ k \in 0 .. numStarted
         /\ \A t \in Threads : HasBlock(t) \/ canRead[t] \/ canWrite[t] =>
              t \in 0 .. numStarted - 1 /\ Dist(f, t, numStarted) \in 0 .. numStarted - 1
         /\ \A t \in Threads : HasBlock(t) => Dist(f, t, numStarted) <= k
         /\ \A t \in Threads : InHand(t) <=> HasBlock(t) /\ Dist(f, t, numStarted) = k
         /\ \A t \in Threads : pc[t] \in WriterPcs \/ canWrite[t] => t = f
         /\ \A t \in Threads : pc[t] = "waitRead" /\ canRead[t] =>
              Dist(f, t, numStarted) = k
         /\ \A t \in Threads : HasBlock(t) /\ canRead[t] => Dist(f, t, numStarted) = 0 /\ k = numStarted
         /\ \A t \in Threads : HasBlock(t) /\ ~InHand(t) =>
              pc[t] \in WorkPcs /\ local[t].next = NextIndex(t, numStarted)
<1>0. /\ numStarted \in Nat \ {0} /\ f \in 0 .. numStarted - 1 /\ k \in 0 .. numStarted
  BY DEF RingTypes, ControlTypes
<1> SUFFICES ASSUME NEW t \in Threads
             PROVE  /\ HasBlock(t) \/ canRead[t] \/ canWrite[t] =>
                         t \in 0 .. numStarted - 1 /\ Dist(f, t, numStarted) \in 0 .. numStarted - 1
                    /\ HasBlock(t) => Dist(f, t, numStarted) <= k
                    /\ InHand(t) <=> HasBlock(t) /\ Dist(f, t, numStarted) = k
                    /\ pc[t] \in WriterPcs \/ canWrite[t] => t = f
                    /\ pc[t] = "waitRead" /\ canRead[t] => Dist(f, t, numStarted) = k
                    /\ HasBlock(t) /\ canRead[t] =>
                         Dist(f, t, numStarted) = 0 /\ k = numStarted
                    /\ HasBlock(t) /\ ~InHand(t) =>
                         pc[t] \in WorkPcs /\ local[t].next = NextIndex(t, numStarted)
  BY <1>0
<1>1. CASE t >= numStarted
  <2>1. Parked(t) BY <1>0, <1>1, ThreadIsNat DEF RingTypes, Ring
  <2> QED BY <2>1, Kinds DEF Parked, HasBlock, InHand
<1>2. CASE t < numStarted
  <2>1. InRing(t, f, k, numStarted) BY <1>2 DEF RingTypes, Ring
  <2>2. t \in 0 .. numStarted - 1 BY <1>0, <1>2, ThreadIsNat
  <2>3. Dist(f, t, numStarted) \in 0 .. numStarted - 1 /\ (Dist(f, t, numStarted) = 0 <=> t = f)
    BY <1>0, <2>2, DistFacts
  <2>4. /\ Working(t, numStarted) => pc[t] \in WorkPcs /\ ~InHand(t) /\ HasBlock(t) /\ pc[t] # "waitRead"
                         /\ local[t].next = NextIndex(t, numStarted)
        /\ Reader(t) => \/ pc[t] = "waitRead" /\ canRead[t] /\ ~HasBlock(t)
                        \/ InHand(t) /\ HasBlock(t) /\ ~canRead[t] /\ pc[t] # "waitRead"
        /\ pc[t] = "waitRead" => ~HasBlock(t)
    BY Kinds DEF Working, Reader, HasBlock, InHand
  <2>5. InHand(t) => HasBlock(t) BY DEF InHand
  <2> QED BY <1>0, <2>1, <2>2, <2>3, <2>4, <2>5 DEF InRing
<1> QED BY <1>0, <1>1, <1>2, ThreadIsNat

\* The blocks of the threads follow one another; who holds a token holds the first or the
\* last of them.
LEMMA RingOrder ==
  ASSUME ControlTypes, NEW f, NEW k, RingTypes(f, k), NEW first, Numbers(f, k, first)
  PROVE  /\ first \in Unit /\ blockIndex \in first .. blockIndex
         /\ \A t \in Threads : HasBlock(t) => local[t].block \in first .. blockIndex - 1
         /\ \A t, u \in Threads : HasBlock(t) /\ HasBlock(u) /\ local[t].block = local[u].block => t = u
         /\ \A t \in Threads : pc[t] \in WriterPcs \/ (HasBlock(t) /\ canWrite[t]) => local[t].block = first
         /\ \A t \in Threads : InHand(t) => local[t].block = blockIndex - 1
         /\ \A t \in Threads : HasBlock(t) /\ local[t].block = blockIndex - 1 /\ (\E u \in Threads : InHand(u))
                                 => InHand(t)
         /\ \A t \in Threads : pc[t] = "waitRead" /\ canRead[t] => \A u \in Threads : ~InHand(u)
<1>0. /\ numStarted \in Nat \ {0} /\ f \in 0 .. numStarted - 1 /\ k \in 0 .. numStarted
      /\ first \in Nat \ {0}
  BY Places DEF Numbers, Unit
<1>1. \A t \in Threads : HasBlock(t) => /\ Dist(f, t, numStarted) \in 0 .. k
                                        /\ t \in 0 .. numStarted - 1
                                        /\ local[t].block = first + Dist(f, t, numStarted)
                                        /\ (InHand(t) <=> Dist(f, t, numStarted) = k)
  BY <1>0, Places DEF Numbers
<1>2. blockIndex = first + k + (IF \E t \in Threads : InHand(t) THEN 1 ELSE 0)
  BY DEF Numbers
<1>3. \A t \in Threads : InHand(t) => HasBlock(t)  BY DEF InHand
<1>4. \A t \in Threads : HasBlock(t) => local[t].block \in first .. blockIndex - 1
  BY <1>0, <1>1, <1>2
<1>5. ASSUME NEW t \in Threads, NEW u \in Threads, HasBlock(t), HasBlock(u),
             local[t].block = local[u].block
      PROVE  t = u
  <2>1. Dist(f, t, numStarted) = Dist(f, u, numStarted) BY <1>0, <1>1, <1>5
  <2> QED BY <1>0, <1>1, <1>5, <2>1, DistOne
<1>6. ASSUME NEW t \in Threads, pc[t] \in WriterPcs \/ (HasBlock(t) /\ canWrite[t])
      PROVE  local[t].block = first
  <2>1. t = f /\ HasBlock(t) BY <1>6, Places, Kinds DEF HasBlock
  <2>2. Dist(f, t, numStarted) = 0 BY <1>0, <1>1, <2>1, DistFacts
  <2> QED BY <1>0, <1>1, <2>1, <2>2
<1>7. \A t \in Threads : InHand(t) => local[t].block = blockIndex - 1
  BY <1>0, <1>1, <1>2, <1>3
<1>8. ASSUME NEW t \in Threads, pc[t] = "waitRead", canRead[t], NEW u \in Threads, InHand(u)
      PROVE  FALSE
  <2>1. Dist(f, t, numStarted) = k /\ t \in 0 .. numStarted - 1 BY <1>8, Places
  <2>2. Dist(f, u, numStarted) = k /\ u \in 0 .. numStarted - 1 /\ HasBlock(u) BY <1>1, <1>3, <1>8
  <2>3. t = u BY <1>0, <2>1, <2>2, DistOne
  <2> QED BY <1>8, <2>2, <2>3, Kinds DEF HasBlock
<1>9. ASSUME NEW t \in Threads, HasBlock(t), local[t].block = blockIndex - 1, \E u \in Threads : InHand(u)
      PROVE  InHand(t)
  BY <1>0, <1>1, <1>2, <1>9
<1>10. first \in Unit /\ blockIndex \in first .. blockIndex  BY <1>0, <1>2 DEF Unit
<1> QED BY <1>4, <1>5, <1>6, <1>7, <1>8, <1>9, <1>10

\* What a step of thread t does to the other threads and to what they share.
Elsewhere(t) ==
  /\ DOMAIN coder' = DOMAIN coder /\ DOMAIN buf' = DOMAIN buf
  /\ \A u \in Threads : u # t =>
       /\ local'[u] = local[u] /\ coder'[u] = coder[u] /\ buf'[u] = buf[u]
       /\ pc'[u] = pc[u] \/ (pc[u] = "none" /\ pc'[u] = "waitRead")

\* What thread t leaves alone of the state the threads share: it needs canRead for the
\* reader's part, canWrite for the writer's.
Shared(t) ==
  /\ pc[t] \notin ReaderPcs => UNCHANGED <<cross, crossBlock, readPos, readRes, readWasFinished>>
  /\ pc[t] \notin WriterPcs =>
       UNCHANGED <<out, inProcessed, refused, numFilled, saved, filledStart>>
  /\ pc[t] \notin WriterPcs \cup {"waitWrite"} =>
       UNCHANGED <<wasInterrupted, isAllocError, overflow, threadingError>>
  /\ pc[t] \notin {"interrupt", "interrupt2"} => UNCHANGED interruptIndex
  /\ pc[t] \notin {"check", "readCheck", "codeCheck", "waitWrite", "write"} => UNCHANGED progRes
  /\ pc[t] # "waitRead" => UNCHANGED blockIndex

\* A step of thread t changes nothing of the others' state, and of the shared state only
\* what its place in MtDec_ThreadFunc allows.
LEMMA Frame ==
  ASSUME ControlTypes, DataTypes, NEW t \in Threads, Thread(t)
  PROVE  /\ Elsewhere(t) /\ Shared(t) /\ UNCHANGED mainVars
<1>1. /\ DOMAIN local = Threads /\ DOMAIN coder = Threads /\ pc \in [Threads -> ThreadPcs]
      /\ DOMAIN buf = Threads
  BY DEF ControlTypes, DataTypes
<1>2. \A p \in ThreadPcs : /\ p \in ReaderPcs => p \notin WriterPcs \cup {"waitWrite", "interrupt", "interrupt2", "codeCheck"}
                           /\ p \in WriterPcs => p \notin ReaderPcs
      /\ {"write", "interrupt2", "register"} \subseteq WriterPcs
      /\ {"check", "read", "readCheck", "parse", "recheck", "precode", "pass"} \subseteq ReaderPcs
      /\ {"waitWrite", "code", "codeCheck", "interrupt", "waitRead"} \cap (ReaderPcs \cup WriterPcs) = {}
  BY DEF ReaderPcs, WriterPcs
<1> USE <1>1 DEF readerVars, writerVars, lockVars
<1>3. CASE TakeRead(t) BY <1>2, <1>3 DEF TakeRead, Elsewhere, Shared
<1>4. CASE StartCheck(t) \/ ReadCheck(t) \/ CodeCheck(t)
  <2>1. PICK at, q, r, s : at \in {"check", "readCheck", "codeCheck"} /\ CheckError(t, at, q, r, s)
    BY <1>4 DEF StartCheck, ReadCheck, CodeCheck
  <2>2. Elsewhere(t) BY <2>1 DEF CheckError, Elsewhere
  <2> QED BY <1>2, <2>1, <2>2 DEF CheckError, Shared
<1>5. CASE NoBuffer(t) BY <1>2, <1>5 DEF NoBuffer, Elsewhere, Shared
<1>6. CASE ReadCross(t) BY <1>2, <1>6 DEF ReadCross, Elsewhere, Shared
<1>7. CASE ReadStream(t)
  <2>1. Elsewhere(t) BY <1>7 DEF ReadStream, Elsewhere
  <2>2. Shared(t) /\ UNCHANGED mainVars BY <1>2, <1>7 DEF ReadStream, Shared
  <2> QED BY <2>1, <2>2
<1>8. CASE ParseOverflow(t) \/ ParseContinue(t) \/ ParseAll(t) \/ ParseAfterEnd(t) \/ ParseNew(t)
  <2>1. /\ pc[t] = "parse" /\ \E o : Parsed(t, o)
        /\ \E n : MoveCross(t, n)
        /\ \E l : local' = [local EXCEPT ![t] = l]
        /\ \E q : pc' = [pc EXCEPT ![t] = q]
    <3>1. CASE ParseOverflow(t)
      BY <3>1 DEF ParseOverflow
    <3>2. CASE ParseContinue(t)
      BY <3>2 DEF ParseContinue
    <3>3. CASE ParseAll(t)
      BY <3>3 DEF ParseAll
    <3>4. CASE ParseAfterEnd(t)
      BY <3>4 DEF ParseAfterEnd
    <3>5. CASE ParseNew(t)
      BY <3>5 DEF ParseNew
    <3> QED BY <1>8, <3>1, <3>2, <3>3, <3>4, <3>5
  <2>2. \A u \in Threads : u # t => local'[u] = local[u] /\ pc'[u] = pc[u] BY <2>1
  <2>3. \A u \in Threads : u # t => coder'[u] = coder[u] BY <2>1 DEF Parsed
  <2>4. \A u \in Threads : u # t => buf'[u] = buf[u] BY <2>1 DEF MoveCross
  <2>5. Shared(t) /\ UNCHANGED mainVars BY <1>2, <2>1 DEF Parsed, Shared
  <2>6. DOMAIN coder' = DOMAIN coder BY <2>1 DEF Parsed
  <2>7. DOMAIN buf' = DOMAIN buf BY <2>1 DEF MoveCross
  <2> QED BY <2>2, <2>3, <2>4, <2>5, <2>6, <2>7 DEF Elsewhere
<1>9. CASE NoCrossBlock(t)
  <2>1. /\ pc[t] = "parse" /\ \E o : Parsed(t, o)
        /\ UNCHANGED <<buf>>
        /\ \E l : local' = [local EXCEPT ![t] = l]
        /\ \E q : pc' = [pc EXCEPT ![t] = q]
    BY <1>9 DEF NoCrossBlock
  <2>2. \A u \in Threads : u # t => local'[u] = local[u] /\ pc'[u] = pc[u] BY <2>1
  <2>3. \A u \in Threads : u # t => coder'[u] = coder[u] BY <2>1 DEF Parsed
  <2>4. \A u \in Threads : u # t => buf'[u] = buf[u] BY <2>1
  <2>5. Shared(t) /\ UNCHANGED mainVars BY <1>2, <2>1 DEF Parsed, Shared
  <2>6. DOMAIN coder' = DOMAIN coder /\ DOMAIN buf' = DOMAIN buf BY <2>1 DEF Parsed
  <2> QED BY <2>2, <2>3, <2>4, <2>5, <2>6 DEF Elsewhere
<1>10. CASE Recheck(t) BY <1>2, <1>10 DEF Recheck, Elsewhere, Shared
<1>11. CASE PreCode(t)
  <2>1. Elsewhere(t) BY <1>11 DEF PreCode, Elsewhere
  <2> QED BY <1>2, <1>11, <2>1 DEF PreCode, Shared
<1>12. CASE SpawnAndPass(t)
  <2>1. /\ pc[t] = "pass" /\ UNCHANGED Unspawned
        /\ \E l : local' = [local EXCEPT ![t].next = l]
        /\ pc' = [pc EXCEPT ![t] = "code", ![numStarted] = IF @ = "none" THEN "waitRead" ELSE @]
    BY <1>12 DEF SpawnAndPass
  <2>2. \A u \in Threads : u # t => pc'[u] = pc[u] \/ (pc[u] = "none" /\ pc'[u] = "waitRead")
    BY <2>1
  <2> QED BY <1>2, <2>1, <2>2 DEF Unspawned, Shared, Elsewhere
<1>13. CASE PassOnly(t) BY <1>2, <1>13 DEF PassOnly, PassRead, Unspawned, Shared, Elsewhere
<1>14. CASE SpawnFails(t) BY <1>2, <1>14 DEF SpawnFails, PassRead, Unspawned, Shared, Elsewhere
<1>15. CASE Code(t)
  <2>1. /\ pc[t] = "code" /\ UNCHANGED <<mainVars, canRead, canWrite, buf, exitThread, readerVars,
           writerVars, lockVars>>
        /\ \E d : coder' = [coder EXCEPT ![t].data = @ \o d.data, ![t].codeRes = d.dec]
        /\ \E d : local' = [local EXCEPT ![t].codeRes = d.res, ![t].link = @ + 1]
        /\ \E q : pc' = [pc EXCEPT ![t] = q]
    BY <1>15 DEF Code
  <2> QED BY <1>2, <2>1 DEF Shared, Elsewhere
<1>16. CASE CodeInterrupt(t) \/ WriteInterrupt(t)
  BY <1>2, <1>16 DEF CodeInterrupt, WriteInterrupt, Interrupt, Shared, Elsewhere
<1>17. CASE TakeWrite(t)
  <2>1. Elsewhere(t) BY <1>17 DEF TakeWrite, Elsewhere
  <2> QED BY <1>2, <1>17, <2>1 DEF TakeWrite, Shared
<1>18. CASE Write(t)
  <2>1. /\ pc[t] = "write" /\ UNCHANGED <<mainVars, canRead, canWrite, buf, coder, exitThread, readerVars,
                 isAllocError, overflow, threadingError, filledStart, numFilled, saved,
                 interruptIndex>>
        /\ \E l : local' = [local EXCEPT ![t] = l]
        /\ \E q : pc' = [pc EXCEPT ![t] = q]
    <3> DEFINE After(r, more, again) ==
          /\ local' = [local EXCEPT ![t].res = r, ![t].needContinue = more, ![t].canRecode = again]
          /\ \E q : pc' = [pc EXCEPT ![t] = q]
    <3>0. /\ pc[t] = "write" /\ UNCHANGED <<mainVars, canRead, canWrite, buf, coder, exitThread, readerVars,
                 isAllocError, overflow, threadingError, filledStart, numFilled, saved,
                 interruptIndex>>
      BY <1>18 DEF Write
    <3>1. ASSUME NEW r, NEW more, NEW again, After(r, more, again)
          PROVE  /\ \E l : local' = [local EXCEPT ![t] = l]
                 /\ \E q : pc' = [pc EXCEPT ![t] = q]
      BY <3>1
    <3>2. CASE ~ToStream(local[t])
      <4>1. After("OK", FALSE, TRUE) BY <1>18, <3>2 DEF Write
      <4> HIDE DEF After
      <4> QED BY <3>0, <3>1, <4>1
    <3>3. CASE ToStream(local[t]) /\ Mismatch(t)
      <4>1. After("FAIL", FALSE, TRUE) BY <1>18, <3>3 DEF Write
      <4> HIDE DEF After
      <4> QED BY <3>0, <3>1, <4>1
    <3>4. CASE ToStream(local[t]) /\ ~Mismatch(t)
      <4>1. PICK w \in Writes(coder[t].data) :
              After(w[2], w[2] = "OK" /\ coder[t].state \notin {"OVERFLOW", "END"}, FALSE)
        BY <1>18, <3>4 DEF Write
      <4> DEFINE more == w[2] = "OK" /\ coder[t].state \notin {"OVERFLOW", "END"}
      <4>2. After(w[2], more, FALSE) BY <4>1
      <4> HIDE DEF more, After
      <4> QED BY <3>0, <3>1, <4>2
    <3> QED BY <3>2, <3>3, <3>4
  <2>2. \A u \in Threads : u # t => local'[u] = local[u] /\ pc'[u] = pc[u] BY <2>1
  <2> QED BY <1>2, <2>1, <2>2 DEF Shared, Elsewhere
<1>19. CASE Register(t)
  <2>1. Elsewhere(t) BY <1>19 DEF Register, Elsewhere
  <2> QED BY <1>2, <1>19, <2>1 DEF Register, Shared
<1> QED BY <1>3, <1>4, <1>5, <1>6, <1>7, <1>8, <1>9, <1>10, <1>11, <1>12, <1>13, <1>14, <1>15,
           <1>16, <1>17, <1>18, <1>19 DEF Thread

\* A thread that stays where it has no block, or where it has one.
LEMMA OthersKeep ==
  ASSUME ControlTypes, NEW t \in Threads, Elsewhere(t), NEW u \in Threads, u # t
  PROVE  /\ HasBlock(u)' <=> HasBlock(u)
         /\ InHand(u)' <=> InHand(u)
         /\ HasBlock(u) => pc'[u] = pc[u]
         /\ pc[u] \in WriterPcs <=> pc'[u] \in WriterPcs
         /\ local'[u] = local[u]
BY Kinds DEF Elsewhere, HasBlock, InHand

\* The numbers, when t keeps its block.
LEMMA NumbersStay ==
  ASSUME ControlTypes, NEW f, NEW k, RingTypes(f, k), NEW first, Numbers(f, k, first),
         NEW t \in Threads, Elsewhere(t), HasBlock(t), HasBlock(t)', InHand(t)' <=> InHand(t),
         local'[t].block = local[t].block, UNCHANGED <<blockIndex, numStarted>>
  PROVE  Numbers(f, k, first)'
<1>1. \A u \in Threads : /\ HasBlock(u)' <=> HasBlock(u)
                         /\ InHand(u)' <=> InHand(u)
                         /\ local'[u].block = local[u].block
  BY OthersKeep
<1> QED BY <1>1 DEF Numbers

\* The numbers, when t takes canRead and with it the next block.
LEMMA NumbersTake ==
  ASSUME ControlTypes, NEW f, NEW k, RingTypes(f, k), NEW first, Numbers(f, k, first),
         NEW t \in Threads, Elsewhere(t), TakeRead(t), ~exitThread
  PROVE  Numbers(f, k, first)'
<1>1. /\ pc[t] = "waitRead" /\ canRead[t] /\ pc' = [pc EXCEPT ![t] = "check"]
      /\ local' = [local EXCEPT ![t] = [NewLocal EXCEPT !.block = blockIndex,
                                                        !.finish = readWasFinished]]
      /\ blockIndex' = blockIndex + 1 /\ numStarted' = numStarted
  BY DEF TakeRead
<1>2. local'[t].block = blockIndex BY <1>1 DEF ControlTypes, NewLocal
<1>3. HasBlock(t)' /\ InHand(t)'
  <2>1. pc'[t] = "check" BY <1>1 DEF ControlTypes
  <2> QED BY <2>1, Kinds DEF HasBlock, InHand
<1>4. Dist(f, t, numStarted) = k /\ \A u \in Threads : ~InHand(u)
  BY <1>1, Places, RingOrder
<1>5. blockIndex = first + k /\ first \in Nat /\ k \in Nat BY <1>4, Places DEF Numbers, Unit
<1>6. \A u \in Threads : u # t => /\ HasBlock(u)' <=> HasBlock(u)
                                  /\ local'[u].block = local[u].block
  BY OthersKeep
<1> QED BY <1>1, <1>2, <1>3, <1>4, <1>5, <1>6 DEF Numbers

\* The numbers, when t passes canRead on.
LEMMA NumbersPass ==
  ASSUME ControlTypes, NEW f, NEW k, RingTypes(f, k), NEW first, Numbers(f, k, first),
         NEW t \in Threads, Elsewhere(t), PassStep(t), local'[t].block = local[t].block,
         UNCHANGED blockIndex
  PROVE  Numbers(f, k + 1, first)' /\ ~InHand(t)' /\ \A u \in Threads : ~InHand(u)'
<1>1. pc[t] = "pass" /\ HasBlock(t) /\ InHand(t)
  BY Kinds DEF PassStep, HasBlock, InHand
<1>2. /\ numStarted \in Nat \ {0} /\ f \in 0 .. numStarted - 1 /\ k \in 0 .. numStarted
      /\ t \in 0 .. numStarted - 1 /\ first \in Nat /\ Dist(f, t, numStarted) = k
  BY <1>1, Places DEF Numbers, Unit
<1>3. pc'[t] = "code" /\ local'[t].finish = local[t].finish
  <2>1. numStarted # t BY <1>2
  <2> QED BY <2>1 DEF PassStep, ControlTypes, Alone
<1>4. ~local[t].finish
  <2>1. t < numStarted BY <1>2
  <2>2. InRing(t, f, k, numStarted) BY <2>1 DEF RingTypes, Ring
  <2>3. Reader(t) BY <1>2, <2>2 DEF InRing
  <2> QED BY <1>1, <2>3, Kinds DEF Reader
<1>5. HasBlock(t)' /\ ~InHand(t)' BY <1>3, <1>4, Kinds DEF HasBlock, InHand
<1>6. \A u \in Threads : u # t => ~InHand(u)
  BY <1>1, RingOrder DEF InHand
<1>7. \A u \in Threads : u # t => /\ HasBlock(u)' <=> HasBlock(u)
                                  /\ InHand(u)' <=> InHand(u)
                                  /\ local'[u].block = local[u].block
  BY OthersKeep
<1>8. \A u \in Threads : HasBlock(u) => Dist(f, u, numStarted') = Dist(f, u, numStarted)
  <2>1. CASE numStarted' = numStarted BY <2>1
  <2>2. CASE numStarted' = numStarted + 1 /\ numStarted < limit
    <3>1. f + k < numStarted BY <2>2 DEF RingTypes, Ring
    <3>2. \A u \in Threads : HasBlock(u) => u \in 0 .. numStarted - 1 /\ Dist(f, u, numStarted) <= k
                                            /\ Dist(f, u, numStarted) \in Nat
      BY Places
    <3>3. \A u \in 0 .. numStarted - 1 :
            /\ Dist(f, u, numStarted) < k  => Dist(f, u, numStarted + 1) = Dist(f, u, numStarted)
            /\ Dist(f, u, numStarted) = k  => Dist(f, u, numStarted + 1) = k
      BY <1>2, <3>1, GrowDist
    <3> QED BY <1>2, <2>2, <3>2, <3>3
  <2> QED BY <2>1, <2>2 DEF PassStep
<1>9. blockIndex = first + k + 1 BY <1>1 DEF Numbers
<1>10. \A u \in Threads : ~InHand(u)' BY <1>5, <1>6, <1>7
<1>11. \A u \in Threads : HasBlock(u)' => local'[u].block = first + Dist(f, u, numStarted')
  BY <1>1, <1>7, <1>8 DEF Numbers
<1> QED BY <1>2, <1>5, <1>9, <1>10, <1>11 DEF Numbers

\* The numbers, when the first block is done and the ring goes on.
LEMMA NumbersFront ==
  ASSUME ControlTypes, NEW f, NEW k, RingTypes(f, k), NEW first, Numbers(f, k, first),
         NEW t \in Threads, Elsewhere(t), Register(t), ~local[t].finish
  PROVE  Numbers(NextIndex(f, numStarted), k - 1, first + 1)' /\ k # 0
<1>1. /\ pc[t] = "register" /\ pc'[t] = "waitRead" /\ UNCHANGED <<blockIndex, numStarted>>
  BY DEF Register, readerVars, ControlTypes
<1>2. HasBlock(t) /\ ~InHand(t) /\ ~HasBlock(t)' /\ ~InHand(t)' /\ t = f
  BY <1>1, Places, Kinds DEF HasBlock, InHand
<1>3. /\ numStarted \in Nat \ {0} /\ f \in 0 .. numStarted - 1 /\ k \in 0 .. numStarted
      /\ first \in Nat
  BY Places DEF Numbers, Unit
<1>4. Dist(f, f, numStarted) = 0 BY <1>3, DistFacts
<1>5. k # 0 BY <1>2, <1>4, Places
<1>6. \A u \in Threads : u # t => /\ HasBlock(u)' <=> HasBlock(u)
                                  /\ InHand(u)' <=> InHand(u)
                                  /\ local'[u].block = local[u].block
  BY OthersKeep
<1>7. blockIndex' = (first + 1) + (k - 1) + (IF \E u \in Threads : InHand(u)' THEN 1 ELSE 0)
  <2>1. (\E u \in Threads : InHand(u)') <=> (\E u \in Threads : InHand(u)) BY <1>2, <1>6
  <2> QED BY <1>1, <1>3, <2>1 DEF Numbers
<1>8. ASSUME NEW u \in Threads, HasBlock(u)'
      PROVE  local'[u].block = (first + 1) + Dist(NextIndex(f, numStarted), u, numStarted)
  <2>1. u # t /\ HasBlock(u) BY <1>2, <1>6, <1>8
  <2>2. u \in 0 .. numStarted - 1 /\ Dist(f, u, numStarted) \in Nat BY <1>3, <2>1, Places
  <2>3. Dist(NextIndex(f, numStarted), u, numStarted) = Dist(f, u, numStarted) - 1
    BY <1>2, <1>3, <2>1, <2>2, DistNext
  <2>4. local'[u].block = first + Dist(f, u, numStarted) BY <1>6, <2>1 DEF Numbers
  <2> QED BY <1>3, <2>2, <2>3, <2>4
<1>9. first + 1 \in Unit BY <1>3 DEF Unit
<1> QED BY <1>1, <1>5, <1>7, <1>8, <1>9 DEF Numbers

\* When the last block is done no thread has a block.
LEMMA NumbersEnd ==
  ASSUME ControlTypes, NEW f, NEW k, RingTypes(f, k), NEW first, Numbers(f, k, first),
         NEW t \in Threads, Elsewhere(t), Register(t), local[t].finish
  PROVE  /\ \A u \in Threads : ~HasBlock(u)' /\ (HasBlock(u) => u = t)
         /\ blockIndex = first + 1 /\ local[t].block = first
         /\ Numbers(0, 0, first + 1)'
<1>1. /\ pc[t] = "register" /\ pc'[t] \in {"waitRead", "out"} /\ UNCHANGED <<blockIndex, numStarted>>
  BY DEF Register, readerVars, ControlTypes
<1>2. HasBlock(t) /\ InHand(t) /\ ~HasBlock(t)' /\ t = f
  BY <1>1, Places, Kinds DEF HasBlock, InHand
<1>3. /\ numStarted \in Nat \ {0} /\ f \in 0 .. numStarted - 1 /\ k \in 0 .. numStarted
      /\ first \in Nat
  BY Places DEF Numbers, Unit
<1>4. Dist(f, f, numStarted) = 0 BY <1>3, DistFacts
<1>5. k = 0 BY <1>2, <1>4, Places
<1>6. ASSUME NEW u \in Threads, HasBlock(u) PROVE u = t
  <2>1. u \in 0 .. numStarted - 1 /\ Dist(f, u, numStarted) = 0
    BY <1>3, <1>5, <1>6, Places
  <2> QED BY <1>2, <1>3, <2>1, DistFacts
<1>7. \A u \in Threads : ~HasBlock(u)' BY <1>2, <1>6, OthersKeep
<1>8. blockIndex = first + 1 /\ local[t].block = first BY <1>2, <1>3, <1>4, <1>5 DEF Numbers
<1>9. \A u \in Threads : ~InHand(u)' BY <1>7 DEF InHand
<1>10. first + 1 \in Unit BY <1>3 DEF Unit
<1> QED BY <1>1, <1>3, <1>6, <1>7, <1>8, <1>9, <1>10 DEF Numbers

-----------------------------------------------------------------------------
(* The stream and what is parsed of it *)

\* A set of natural numbers that is not empty has a least element.
LEMMA Least ==
  ASSUME NEW T, T \subseteq Nat, T # {}
  PROVE  \E n \in T : \A m \in T : n <= m
<1> DEFINE R == OpToRel(<, Nat)
<1>1. IsWellFoundedOn(R, Nat) BY NatLessThanWellFounded
<1>2. \A x, y \in Nat : <<x, y>> \in R <=> x < y  BY DEF OpToRel
<1> HIDE DEF R
<1>3. \E x \in T : \A y \in T : ~ (<<y, x>> \in R) BY <1>1, WFMin
<1>4. PICK x \in T : \A y \in T : ~ (<<y, x>> \in R) BY <1>3
<1>5. \A y \in T : x <= y
  <2> SUFFICES ASSUME NEW y \in T PROVE x <= y OBVIOUS
  <2>1. x \in Nat /\ y \in Nat OBVIOUS
  <2>2. ~(<<y, x>> \in R) BY <1>4
  <2>3. ~(y < x) BY <1>2, <2>1, <2>2
  <2> QED BY <2>1, <2>3
<1> QED BY <1>5

\* The last unit of the stream, and where decoding stops.
LEMMA StreamIs ==
  ASSUME stream \in Streams
  PROVE  /\ stream.ends \in Seq(Unit) /\ Len(stream.ends) \in Unit
         /\ stream.size \in Nat /\ stream.bad \in Nat
         /\ LastUnit \in Unit /\ StopAt \in 1 .. LastUnit
<1>1. Stream(stream) BY ConstantsAssumption
<1>2. stream.ends \in Seq(Unit) /\ stream.ends # <<>> /\ stream.size \in Nat /\ stream.bad \in Nat
  BY <1>1 DEF Stream, Unit
<1>3. Len(stream.ends) \in Unit BY <1>2, EmptySeq, LenProperties DEF Unit
<1>4. LastUnit \in Unit BY <1>2, <1>3, ElementOfSeq DEF LastUnit, Unit
<1> QED BY <1>2, <1>3, <1>4 DEF StopAt, Unit

\* The end of the block that unit p belongs to.
LEMMA EndOfIs ==
  ASSUME stream \in Streams, NEW p \in Unit, p <= LastUnit
  PROVE  EndOf(p) \in p .. LastUnit
<1> DEFINE n == Len(stream.ends)
           T == {e \in {stream.ends[b] : b \in DOMAIN stream.ends} : p <= e}
<1>1. stream.ends \in Seq(Unit) /\ n \in Unit /\ LastUnit \in Unit /\ LastUnit = stream.ends[n]
  BY StreamIs DEF LastUnit
<1>2. DOMAIN stream.ends = 1 .. n /\ n \in 1 .. n /\ \A b \in 1 .. n : stream.ends[b] \in Unit
  BY <1>1, LenProperties, ElementOfSeq DEF Unit
<1>3. T \subseteq Nat /\ LastUnit \in T BY <1>1, <1>2 DEF Unit
<1>4. PICK e \in T : \A m \in T : e <= m BY <1>3, Least
<1>5. /\ e \in {stream.ends[b] : b \in DOMAIN stream.ends} /\ p <= e
      /\ \A b \in DOMAIN stream.ends : p <= stream.ends[b] => e <= stream.ends[b]
  BY <1>4
<1>6. /\ EndOf(p) \in {stream.ends[b] : b \in DOMAIN stream.ends} /\ p <= EndOf(p)
      /\ \A b \in DOMAIN stream.ends : p <= stream.ends[b] => EndOf(p) <= stream.ends[b]
  BY <1>5 DEF EndOf
<1>7. EndOf(p) \in Nat /\ EndOf(p) <= LastUnit BY <1>1, <1>2, <1>6 DEF Unit
<1> QED BY <1>1, <1>6, <1>7 DEF Unit

\* What the parser may make of n units behind q in a block that ends with unit e.
LEMMA ParseIs ==
  ASSUME stream \in Streams, NEW q \in Nat, NEW n \in Nat, NEW e \in Nat,
         n # 0 => q <= e, e <= LastUnit, q < LastUnit, NEW o \in Parse(From(q + 1, n), e)
  PROVE  /\ o.state \in {"CONTINUE", "NEW", "END", "OVERFLOW"} /\ o.n \in 0 .. n /\ o.mark \in BOOLEAN
         /\ o.state = "CONTINUE" => o.n = n /\ ~o.mark /\ q + n < LastUnit /\ (n # 0 => q + n <= e)
         /\ o.state = "NEW" => n # 0 /\ ~o.mark /\ q + o.n < LastUnit /\ q + o.n = e
         /\ o.state = "END" => n # 0 /\ q + o.n \in StopAt .. LastUnit /\ q + o.n <= e
         /\ o.state = "OVERFLOW" => n # 0 /\ ~o.mark
         /\ o.state \in {"NEW", "END"} /\ q < e => o.n >= 1
<1> DEFINE src == From(q + 1, n)
           normal == ParseNormally(src, e)
<1>1. q + 1 \in Unit BY DEF Unit
<1>2. src \in Seq(Unit) /\ Len(src) = n /\ (src = <<>> <=> n = 0) /\ \A i \in 1 .. n : src[i] = q + i
  <2>1. \A i \in 1 .. n : src[i] = (q + 1) + i - 1 BY <1>1, FromIs
  <2> QED BY <1>1, <2>1, FromIs
<1>3. n # 0 => Head(src) = q + 1 BY <1>1, FromTail
<1>4. /\ stream.bad \in Nat /\ LastUnit \in Unit /\ StopAt \in 1 .. LastUnit
  BY StreamIs
<1>5. o \in {normal} \/ (n # 0 /\ o = [state |-> "OVERFLOW", n |-> 0, mark |-> FALSE])
      \/ (/\ stream.bad \in {src[i] : i \in 1 .. n} /\ stream.bad <= e
          /\ o = [state |-> "END", n |-> stream.bad + 1 - Head(src), mark |-> FALSE])
  <2> HIDE DEF src
  <2>1. o \in Parse(src, e) BY DEF src
  <2> QED BY <1>2, <2>1 DEF Parse
<1>6. CASE n # 0 /\ o = [state |-> "OVERFLOW", n |-> 0, mark |-> FALSE]
  BY <1>6
<1>7. CASE /\ stream.bad \in {src[i] : i \in 1 .. n} /\ stream.bad <= e
           /\ o = [state |-> "END", n |-> stream.bad + 1 - Head(src), mark |-> FALSE]
  <2>1. PICK i \in 1 .. n : stream.bad = q + i BY <1>2, <1>7
  <2>2. n # 0 /\ o.n = i BY <1>3, <1>7, <2>1
  <2>3. q + i \in StopAt .. LastUnit /\ q + i <= e BY <1>4, <1>7, <2>1 DEF StopAt, Unit
  <2> HIDE DEF src
  <2> QED BY <1>7, <2>1, <2>2, <2>3
<1>8. CASE o = normal
  <2>1. CASE n = 0 \/ q + n < e \/ (q + n = e /\ e # LastUnit)
    <3>1. n # 0 => src[Len(src)] = q + n BY <1>2
    <3> HIDE DEF src
    <3>2. normal = [state |-> "CONTINUE", n |-> Len(src), mark |-> FALSE]
      BY <1>2, <2>1, <3>1 DEF ParseNormally
    <3>3. q + n < LastUnit /\ (n # 0 => q + n <= e) BY <2>1, <1>4 DEF Unit
    <3> HIDE DEF normal
    <3> QED BY <1>2, <1>8, <3>2, <3>3
  <2>2. CASE n # 0 /\ (q + n > e \/ (q + n = e /\ e = LastUnit))
    <3>1. src[Len(src)] = q + n BY <1>2, <2>2
    <3>4. Head(src) = q + 1 BY <1>3, <2>2
    <3>5. src # <<>> BY <1>2, <2>2
    <3> HIDE DEF src
    <3>2. normal = [state |-> IF e = LastUnit THEN "END" ELSE "NEW",
                    n |-> e + 1 - (q + 1), mark |-> e = LastUnit]
      BY <2>2, <3>1, <3>4, <3>5 DEF ParseNormally
    <3>3. e + 1 - (q + 1) = e - q /\ e - q \in 0 .. n /\ q + (e - q) = e BY <2>2
    <3> HIDE DEF normal
    <3>6. /\ o.state = (IF e = LastUnit THEN "END" ELSE "NEW") /\ o.mark = (e = LastUnit)
          /\ o.n = e - q
      BY <1>8, <3>2, <3>3
    <3>7. CASE e = LastUnit BY <1>4, <2>2, <3>3, <3>6, <3>7 DEF Unit
    <3>8. CASE e # LastUnit
      <4>1. e < LastUnit BY <1>4, <3>8 DEF Unit
      <4>2. o.state = "NEW" /\ o.mark = FALSE /\ o.n = e - q BY <3>6, <3>8
      <4>3. q < e => e - q >= 1 BY <3>3
      <4>4. o.n \in 0 .. n /\ n # 0 /\ q + o.n = e BY <2>2, <3>3, <4>2
      <4> HIDE DEF normal
      <4> QED BY <4>1, <4>2, <4>3, <4>4
    <3> QED BY <3>7, <3>8
  <2> QED BY <2>1, <2>2
<1> QED BY <1>5, <1>6, <1>7, <1>8

\* A buffer has room for a unit.
LEMMA BufSizeIs == BufSize \in Unit
BY ConstantsAssumption DEF Unit

-----------------------------------------------------------------------------
(* Buffers that follow one another *)

\* Without units there is no buffer to hold them.
LEMMA ChainEmpty ==
  ASSUME NEW B \in Seq(Seq(Unit)), NEW p \in Nat
  PROVE  Chain(B, 0, p, 0, 0)
BY LenProperties DEF Chain, Pieces, Heads, Filling

\* A chain does not depend on the buffers behind it.
LEMMA ChainPrefix ==
  ASSUME NEW B, NEW C, NEW m \in Nat, m <= Len(C),
         \A i \in 1 .. m : C[i] = B[i], NEW p \in Nat, NEW start \in Nat, NEW size \in Nat
  PROVE  /\ Chain(B, m, p, start, size) => Chain(C, m, p, start, size)
         /\ FullChain(B, m, p, start, size) => FullChain(C, m, p, start, size)
<1>1. Pieces(B, m, p + size) => Pieces(C, m, p + size)
  BY DEF Pieces
<1>2. Heads(B, m, p, start, size) => Heads(C, m, p, start, size)
  <2>1. m > 0 => C[1] = B[1] OBVIOUS
  <2>2. m > 1 => C[2] = B[2] OBVIOUS
  <2> QED BY <2>1, <2>2 DEF Heads
<1>3. Filling(B, m) => Filling(C, m)
  <2>1. \A i \in 2 .. m : C[i] = B[i] OBVIOUS
  <2>2. \A i \in 2 .. m - 1 : C[i] = B[i] /\ C[i + 1] = B[i + 1]
    <3>1. \A i \in 2 .. m - 1 : i \in 1 .. m /\ i + 1 \in 1 .. m OBVIOUS
    <3> QED BY <3>1
  <2> QED BY <2>1, <2>2 DEF Filling
<1>4. m > 0 => C[m] = B[m] OBVIOUS
<1>5. Chain(B, m, p, start, size) => Chain(C, m, p, start, size)
  BY <1>1, <1>2, <1>3, <1>4 DEF Chain
<1> QED BY <1>4, <1>5 DEF FullChain

\* A buffer that begins at p + 1.
LEMMA PieceIs ==
  ASSUME NEW p \in Nat, NEW n \in Nat \ {0}
  PROVE  /\ Len(From(p + 1, n)) = n /\ From(p + 1, n)[1] = p + 1 /\ From(p + 1, n) # <<>>
         /\ From(p + 1, n) \in Seq(Unit)
<1>1. p + 1 \in Unit BY DEF Unit
<1>2. From(p + 1, n)[1] = (p + 1) + 1 - 1 BY <1>1, FromIs
<1> QED BY <1>1, <1>2, FromIs

\* The first buffer of a chain.
LEMMA ChainFirst ==
  ASSUME NEW B \in Seq(Seq(Unit)), Len(B) >= 1, NEW p \in Nat, NEW n \in Nat,
         B[1] = From(p + 1, n), NEW u \in 1 .. n
  PROVE  Chain(B, 1, p, u, u) /\ (u = n => FullChain(B, 1, p, u, u))
<1>1. \A i \in 1 .. 1 : i = 1 OBVIOUS
<1>2. B[1] # <<>> /\ B[1] = From(B[1][1], Len(B[1])) /\ B[1][1] = p + 1 /\ Len(B[1]) = n
  <2>1. n \in Nat \ {0} OBVIOUS
  <2>2. /\ Len(From(p + 1, n)) = n /\ From(p + 1, n)[1] = p + 1 /\ From(p + 1, n) # <<>>
    BY <2>1, PieceIs
  <2>3. B[1] = From(p + 1, n) OBVIOUS
  <2>4. Len(B[1]) = n /\ B[1][1] = p + 1 /\ B[1] # <<>> BY <2>2, <2>3
  <2> QED BY <2>3, <2>4
<1>3. Pieces(B, 1, p + u) BY <1>1, <1>2 DEF Pieces
<1>4. Heads(B, 1, p, u, u) BY <1>2 DEF Heads
<1>5. Filling(B, 1) BY DEF Filling
<1>6. Chain(B, 1, p, u, u) BY <1>3, <1>4, <1>5 DEF Chain
<1>7. u = n => FullChain(B, 1, p, u, u) BY <1>2, <1>6 DEF FullChain
<1> QED BY <1>6, <1>7

\* The next buffer continues the chain.
LEMMA ChainNext ==
  ASSUME NEW B \in Seq(Seq(Unit)), NEW m \in Nat \ {0}, NEW p \in Nat, NEW start \in Nat,
         NEW size \in Nat, FullChain(B, m, p, start, size), m < Len(B), NEW n \in Nat,
         B[m + 1] = From(p + size + 1, n), n <= BufSize, NEW u \in 1 .. n
  PROVE  /\ Chain(B, m + 1, p, start, size + u)
         /\ u = BufSize => FullChain(B, m + 1, p, start, size + u)
<1>90. Len(B) \in Nat /\ BufSize \in Unit /\ p + size + 1 \in Unit BY LenProperties, BufSizeIs DEF Unit
<1>91. /\ Len(B[m + 1]) = n /\ B[m + 1][1] = p + size + 1 /\ B[m + 1] # <<>>
      /\ B[m + 1] = From(B[m + 1][1], Len(B[m + 1]))
  <2> DEFINE q == p + size
  <2>1. q \in Nat /\ n \in Nat \ {0} /\ B[m + 1] = From(q + 1, n) /\ q + 1 = p + size + 1 OBVIOUS
  <2> HIDE DEF q
  <2>2. Len(From(q + 1, n)) = n /\ From(q + 1, n)[1] = q + 1 /\ From(q + 1, n) # <<>>
    BY <2>1, PieceIs
  <2> QED BY <2>1, <2>2
<1>93. m > 0 OBVIOUS
<1>1. /\ Chain(B, m, p, start, size) /\ p + size + 1 = B[m][1] + Len(B[m])
      /\ m > 1 => Len(B[m]) = BufSize
  BY <1>93 DEF FullChain
<1>0. Pieces(B, m, p + size) /\ Heads(B, m, p, start, size) /\ Filling(B, m)
  BY <1>1 DEF Chain
<1>2. Pieces(B, m + 1, p + (size + u))
  <2>1. \A i \in 1 .. m + 1 : i \in 1 .. m \/ i = m + 1 OBVIOUS
  <2>2. ASSUME NEW i \in 1 .. m
        PROVE B[i] # <<>> /\ B[i] = From(B[i][1], Len(B[i])) /\ B[i][1] <= p + (size + u)
    <3>1. B[i] # <<>> /\ B[i] = From(B[i][1], Len(B[i])) /\ B[i][1] <= p + size
      BY <1>0 DEF Pieces
    <3>2. B[i] \in Seq(Unit) BY <1>90, <1>1, ElementOfSeq DEF Chain
    <3>3. B[i][1] \in Nat BY <3>1, <3>2, HeadTailProperties DEF Unit
    <3>4. \A x \in Nat : x <= p + size => x <= p + (size + u) OBVIOUS
    <3>5. B[i][1] <= p + (size + u) BY <3>1, <3>3, <3>4
    <3> QED BY <3>1, <3>5
  <2>3. B[m + 1] # <<>> /\ B[m + 1] = From(B[m + 1][1], Len(B[m + 1])) /\ B[m + 1][1] <= p + (size + u)
    BY <1>91
  <2> QED BY <2>1, <2>2, <2>3 DEF Pieces
<1>3. Heads(B, m + 1, p, start, size + u)
  <2>1. B[1][1] = p + 1 /\ start \in 1 .. Len(B[1]) /\ start <= size + u
    BY <1>93, <1>0 DEF Heads
  <2>2. B[2][1] = p + start + 1
    <3>1. CASE m = 1
      <4>1. B[2][1] = p + size + 1 BY <1>91, <3>1
      <4> QED BY <1>0, <3>1, <4>1 DEF Heads
    <3>2. CASE m > 1 BY <1>0, <3>2 DEF Heads
    <3> QED BY <1>93, <3>1, <3>2
  <2> QED BY <1>93, <2>1, <2>2 DEF Heads
<1>6. Filling(B, m + 1)
  <2>1. \A i \in 2 .. m + 1 : i \in 2 .. m \/ i = m + 1 OBVIOUS
  <2>2. \A i \in 2 .. m + 1 : Len(B[i]) <= BufSize BY <1>91, <1>93, <1>0, <2>1 DEF Filling
  <2>3. \A i \in 2 .. (m + 1) - 1 : i \in 2 .. m - 1 \/ (i = m /\ m > 1) OBVIOUS
  <2>4. m > 1 => Len(B[m]) = BufSize /\ B[m + 1][1] = B[m][1] + BufSize BY <1>91, <1>1
  <2>5. \A i \in 2 .. (m + 1) - 1 : Len(B[i]) = BufSize /\ B[i + 1][1] = B[i][1] + BufSize
    BY <1>0, <2>3, <2>4 DEF Filling
  <2> QED BY <2>2, <2>5 DEF Filling
<1>8. Chain(B, m + 1, p, start, size + u)
  <2>1. m + 1 <= Len(B) /\ p + (size + u) < B[m + 1][1] + Len(B[m + 1]) BY <1>90, <1>91
  <2> QED BY <2>1, <1>2, <1>3, <1>6 DEF Chain
<1>9. u = BufSize => FullChain(B, m + 1, p, start, size + u)
  <2>1. u = BufSize => u = n /\ Len(B[m + 1]) = BufSize BY <1>90, <1>91
  <2>2. u = n => p + (size + u) + 1 = B[m + 1][1] + Len(B[m + 1]) BY <1>91
  <2> QED BY <1>93, <1>8, <2>1, <2>2 DEF FullChain
<1> QED BY <1>8, <1>9

\* Decoding has come to unit done of the size units, which begins the buffer behind link.
Reached(B, m, p, start, size, link, done) ==
  /\ Chain(B, m, p, start, size) /\ link < m /\ done < size
  /\ B[link + 1][1] = p + done + 1 /\ (link = 0 <=> done = 0)

\* How many of them are in that buffer.
Part(start, size, link, done) == IF link = 0 THEN start ELSE Minimum(BufSize, size - done)

\* The decoder takes n units from the buffer it has come to, and goes on in the next.
Takes(B, m, p, size, link, done, n) ==
  /\ n \in 1 .. size - done
  /\ SubSeq(B[link + 1], 1, n) = From(p + done + 1, n)
  /\ done + n < size => link + 1 < m /\ B[link + 2][1] = p + done + n + 1

\* That part of a buffer holds the next units.
LEMMA ChainCode ==
  ASSUME NEW B \in Seq(Seq(Unit)), NEW m \in Nat, NEW p \in Nat, NEW start \in Nat, NEW size \in Nat,
         NEW link \in Nat, NEW done \in Nat, Reached(B, m, p, start, size, link, done)
  PROVE  Takes(B, m, p, size, link, done, Part(start, size, link, done))
<1> DEFINE n == Part(start, size, link, done)
<1>7. (link = 0 => n = start) /\ (link # 0 => n = Minimum(BufSize, size - done)) BY DEF Part
<1>8. /\ Chain(B, m, p, start, size) /\ link < m /\ done < size
      /\ B[link + 1][1] = p + done + 1 /\ (link = 0 <=> done = 0)
  BY DEF Reached
<1> SUFFICES /\ n \in 1 .. size - done
             /\ SubSeq(B[link + 1], 1, n) = From(p + done + 1, n)
             /\ done + n < size => link + 1 < m /\ B[link + 2][1] = p + done + n + 1
  BY DEF Takes
<1>9. link < m /\ done < size /\ B[link + 1][1] = p + done + 1 /\ (link = 0 <=> done = 0) BY <1>8
<1> HIDE DEF n
<1>0. Len(B) \in Nat /\ BufSize \in Nat \ {0} /\ p + done + 1 \in Unit /\ link + 1 \in 1 .. m /\ m <= Len(B)
  <2>1. m <= Len(B) BY <1>8 DEF Chain
  <2>2. Len(B) \in Nat BY LenProperties
  <2>3. BufSize \in Nat \ {0} /\ p + done + 1 \in Unit BY BufSizeIs DEF Unit
  <2> QED BY <1>8, <2>1, <2>2, <2>3
<1>00. Pieces(B, m, p + size) /\ Heads(B, m, p, start, size) /\ Filling(B, m)
       /\ (m > 1 => p + size < B[m][1] + Len(B[m]))
  BY <1>8 DEF Chain
<1>1. /\ B[link + 1] # <<>> /\ B[link + 1] = From(p + done + 1, Len(B[link + 1]))
      /\ Len(B[link + 1]) \in Nat
  <2>1. B[link + 1] \in Seq(Unit) BY <1>0, ElementOfSeq
  <2> QED BY <1>0, <1>00, <1>8, <2>1, LenProperties DEF Pieces
<1>4. ASSUME n \in 1 .. Len(B[link + 1]) PROVE SubSeq(B[link + 1], 1, n) = From(p + done + 1, n)
  <2>1. SubSeq(From(p + done + 1, Len(B[link + 1])), 1, n) = From(p + done + 1, n)
    <3>1. n \in 0 .. Len(B[link + 1]) BY <1>4
    <3> QED BY <1>0, <1>1, <3>1, FromSub
  <2> QED BY <1>1, <2>1
<1>2. CASE link = 0
  <2>1. start \in 1 .. Len(B[1]) /\ start <= size /\ (m = 1 => start = size)
        /\ (m > 1 => B[2][1] = p + start + 1)
    BY <1>0, <1>00, <1>2 DEF Heads
  <2>2. done = 0 /\ n = start BY <1>2, <1>7, <1>8
  <2> QED BY <1>0, <1>2, <1>4, <1>9, <2>1, <2>2
<1>3. CASE link > 0 /\ link + 1 < m
  <2>1. /\ Len(B[link + 1]) = BufSize /\ B[link + 2][1] = p + done + 1 + BufSize
        /\ B[link + 2][1] <= p + size
    <3>1. link + 1 \in 2 .. m - 1 /\ link + 2 \in 1 .. m /\ (link + 1) + 1 = link + 2 BY <1>0, <1>3
    <3>2. Len(B[link + 1]) = BufSize /\ B[link + 2][1] = B[link + 1][1] + BufSize
      BY <1>00, <3>1 DEF Filling
    <3>3. B[link + 2][1] <= p + size BY <1>00, <3>1 DEF Pieces
    <3> QED BY <1>9, <3>2, <3>3
  <2>2. n = BufSize
    <3>1. n = Minimum(BufSize, size - done) BY <1>3, <1>7
    <3>2. BufSize < size - done BY <1>0, <2>1
    <3> QED BY <1>0, <3>1, <3>2 DEF Minimum
  <2>3. n \in 1 .. size - done
    <3>1. BufSize < size - done BY <1>0, <2>1
    <3> QED BY <1>0, <2>2, <3>1
  <2>4. SubSeq(B[link + 1], 1, n) = From(p + done + 1, n) BY <1>0, <1>4, <2>1, <2>2
  <2>5. B[link + 2][1] = p + done + n + 1
    <3>1. p + done + 1 + BufSize = p + done + BufSize + 1 BY <1>0
    <3> QED BY <2>1, <2>2, <3>1
  <2> QED BY <1>3, <2>3, <2>4, <2>5
<1>5. CASE link > 0 /\ link + 1 = m
  <2>1. p + size < B[m][1] + Len(B[m]) /\ Len(B[m]) <= BufSize
    <3>1. m \in 2 .. m BY <1>5
    <3> QED BY <1>00, <1>5, <3>1 DEF Filling
  <2>2. n = size - done /\ n \in 1 .. Len(B[link + 1])
    <3>1. n = Minimum(BufSize, size - done) BY <1>5, <1>7
    <3>4. PICK l \in Nat : l = Len(B[m]) BY <1>1, <1>5
    <3>5. p + size < p + done + 1 + l BY <1>5, <1>9, <2>1, <3>4
    <3>6. size - done <= l BY <3>5
    <3>2. size - done <= Len(B[m]) BY <3>4, <3>6
    <3> QED BY <1>0, <1>1, <1>5, <1>9, <2>1, <3>1, <3>2 DEF Minimum
  <2>3. n \in 1 .. size - done BY <2>2
  <2>4. SubSeq(B[link + 1], 1, n) = From(p + done + 1, n) BY <1>4, <2>2
  <2>5. ~(done + n < size) BY <2>2
  <2> QED BY <2>3, <2>4, <2>5
<1>6. link = 0 \/ (link > 0 /\ link + 1 < m) \/ (link > 0 /\ link + 1 = m) BY <1>0
<1> QED BY <1>2, <1>3, <1>5, <1>6

\* The locals of thread t but those named in S stay.
Keeps(t, S) == \A x \in FieldNames \ S : local'[t][x] = local[t][x]

\* The local variables of MtDec_ThreadFunc.
LEMMA Names ==
  FieldNames = {"block", "res", "codeRes", "interrupted", "alloc", "over", "finish", "thr", "needCode",
    "needWrite", "toStream", "start", "size", "link", "isCross", "src", "next", "needContinue",
    "canRecode"}
BY DEF FieldNames, NewLocal

\* No unit follows from none.
LEMMA FromZero == ASSUME NEW p \in Nat PROVE From(p + 1, 0) = <<>>
<1>1. p + 1 \in Unit BY DEF Unit
<1> QED BY <1>1, FromIs

\* The coder state when Lzma2DecMt_MtCallback_Parse sees a block's first input.
LEMMA NewCoderIs ==
  /\ NewCoder.state = "CONTINUE" /\ NewCoder.mark = FALSE /\ NewCoder.inPre = 0 /\ NewCoder.end = 0
  /\ NewCoder.data = <<>> /\ NewCoder.codeRes = "OK"
BY DEF NewCoder

\* A block of which nothing was read has no chain.
LEMMA NothingChained ==
  ASSUME DataTypes, NEW t \in Threads, NEW p \in Nat, local[t].size = 0, local[t].start = 0
  PROVE  Chained(t, p)
<1>1. buf[t] \in Seq(Seq(Unit)) BY DEF DataTypes, Typed
<1>2. Chain(buf[t], 0, p, 0, 0) BY <1>1, ChainEmpty
<1>3. 0 \in 0 .. Len(buf[t]) BY <1>1, LenProperties
<1> QED BY <1>2, <1>3 DEF Chained

\* What a call of the progress callback and a look at the errors leave behind.
LEMMA CheckErrorIs ==
  ASSUME ControlTypes, DataTypes, NEW t \in Threads, NEW at, NEW ok, NEW interrupted, NEW failed,
         CheckError(t, at, ok, interrupted, failed)
  PROVE  /\ pc[t] = at
         /\ UNCHANGED <<cross, crossBlock, readPos, readRes, interruptIndex, stream>>
         /\ buf'[t] = buf[t] /\ coder'[t] = coder[t]
         /\ progRes' \in {"OK", "PROGRESS"} /\ (progRes # "OK" => progRes' # "OK")
         /\ UNCHANGED <<wasInterrupted, isAllocError, overflow, threadingError, out, numFilled>>
         /\ Keeps(t, {"res", "interrupted"})
         /\ local'[t].res = progRes' /\ local'[t].interrupted = IsInterrupted(local[t].block)
         /\ pc'[t] = IF progRes' # "OK" THEN failed
                     ELSE IF IsInterrupted(local[t].block) THEN interrupted ELSE ok
<1>1. /\ DOMAIN local = Threads /\ DOMAIN local[t] = FieldNames /\ pc \in [Threads -> ThreadPcs]
      /\ progRes \in {"OK", "PROGRESS"}
  BY DEF ControlTypes, DataTypes
<1>2. /\ pc[t] = at
      /\ UNCHANGED <<cross, crossBlock, readPos, readRes, interruptIndex, stream>>
      /\ buf'[t] = buf[t] /\ coder'[t] = coder[t]
      /\ UNCHANGED <<wasInterrupted, isAllocError, overflow, threadingError, out, numFilled>>
  BY DEF CheckError, readerVars, writerVars, mainVars
<1>3. progRes' \in {"OK", "PROGRESS"} /\ (progRes # "OK" => progRes' # "OK")
  BY <1>1 DEF CheckError, ProgressCall
<1>4. local' = [local EXCEPT ![t].res = progRes', ![t].interrupted = IsInterrupted(local[t].block)]
  BY DEF CheckError
<1>5. Keeps(t, {"res", "interrupted"})
  BY <1>1, <1>4 DEF Keeps
<1>6. local'[t].res = progRes' /\ local'[t].interrupted = IsInterrupted(local[t].block)
  BY <1>1, <1>4, Names
<1>7. pc'[t] = IF progRes' # "OK" THEN failed
              ELSE IF IsInterrupted(local[t].block) THEN interrupted ELSE ok
  BY <1>1 DEF CheckError
<1> QED BY <1>2, <1>3, <1>5, <1>6, <1>7

\* The check for an interrupt before the first read leaves the block as it is.
LEMMA StartCheckBlock ==
  ASSUME ControlTypes, DataTypes, NEW t \in Threads, NEW p \in Nat, NEW b,
         b = local[t].block, BlockOk(t, p, b), StartCheck(t)
  PROVE  BlockOk(t, p, b)' /\ LastBlock(t, p)'
<1>1. /\ pc[t] = "check" /\ UNCHANGED <<cross, crossBlock, readPos, readRes, interruptIndex, stream>>
      /\ buf'[t] = buf[t] /\ coder'[t] = coder[t]
      /\ Keeps(t, {"res", "interrupted"})
      /\ local'[t].res = progRes' /\ local'[t].interrupted = IsInterrupted(b)
      /\ progRes' \in {"OK", "PROGRESS"}
      /\ pc'[t] = IF progRes' # "OK" THEN "precode"
                  ELSE IF IsInterrupted(b) THEN "precode" ELSE "read"
  BY CheckErrorIs DEF StartCheck
<1>2. Fresh(t, p) /\ p < LastUnit BY <1>1 DEF BlockOk
<1>3. /\ local'[t].link = 0 /\ local'[t].size = 0 /\ local'[t].start = 0 /\ local'[t].src = <<>>
      /\ ~local'[t].needWrite /\ ~local'[t].isCross /\ local'[t].finish = local[t].finish
      /\ ~local'[t].needCode /\ ~local'[t].over /\ ~local'[t].thr /\ ~local'[t].alloc
      /\ ~local'[t].toStream /\ local'[t].canRecode /\ local'[t].codeRes = "OK" /\ ~local'[t].needContinue
  BY <1>1, <1>2, Names DEF Fresh, Clean, Keeps
<1>4. CASE pc'[t] = "read"
  <2>1. Fresh(t, p)'
    BY <1>1, <1>2, <1>3, <1>4 DEF Fresh, Clean, InputFrom
  <2> QED BY <1>1, <1>2, <1>3, <1>4, <2>1 DEF BlockOk, LastBlock, LastUnit, WorkPcs, WriterPcs
<1>5. CASE pc'[t] = "precode"
  <2>1. Chained(t, p)
    BY <1>2, NothingChained DEF Fresh
  <2>2. Facts(t, p)'
    <3>1. Chained(t, p)' BY <1>1, <1>3, <2>1, <1>2 DEF Chained, Fresh
    <3>2. coder'[t].state = "CONTINUE" BY <1>1, <1>2, NewCoderIs DEF Fresh
    <3> QED BY <1>3, <3>1, <3>2 DEF Facts
  <2>3. Undecoded(t)' BY <1>1, <1>2, <1>3, NewCoderIs DEF Undecoded, Fresh
  <2>4. Early(t, p, b)'
    BY <1>1, <1>3, <1>5, <2>2, <2>3 DEF Early, Excused, IsInterrupted
  <2>5. BlockOk(t, p, b)'
    BY <1>1, <1>2, <1>5, <2>4 DEF BlockOk, LastUnit, WorkPcs, WriterPcs
  <2>6. LastBlock(t, p)'
    BY <1>1, <1>2, <1>3 DEF LastBlock, Fresh, InputFrom
  <2> QED BY <2>5, <2>6
<1> QED BY <1>1, <1>4, <1>5

\* The types of what thread t works with.
LEMMA Fields ==
  ASSUME ControlTypes, DataTypes, NEW t \in Threads
  PROVE  /\ DOMAIN local = Threads /\ DOMAIN coder = Threads /\ DOMAIN buf = Threads
         /\ DOMAIN local[t] = FieldNames /\ DOMAIN coder[t] = CoderNames
         /\ buf[t] \in Seq(Seq(Unit)) /\ Len(buf[t]) \in Nat
         /\ local[t].link \in Nat /\ local[t].size \in Nat /\ local[t].start \in Nat
         /\ local[t].src \in Seq(Unit) /\ Len(local[t].src) \in Nat
         /\ coder[t].inPre \in Nat /\ coder[t].end \in Nat /\ coder[t].data \in Seq(Unit)
         /\ Len(coder[t].data) \in Nat
         /\ cross \in Seq(Unit) /\ Len(cross) \in Nat /\ readPos \in Nat
         /\ pc \in [Threads -> ThreadPcs] /\ BufSize \in Nat \ {0}
<1>1. /\ DOMAIN local = Threads /\ DOMAIN coder = Threads /\ DOMAIN buf = Threads
      /\ DOMAIN local[t] = FieldNames /\ pc \in [Threads -> ThreadPcs]
      /\ LocalType(local[t]) /\ CoderType(coder[t]) /\ buf[t] \in Seq(Seq(Unit))
      /\ cross \in Seq(Unit) /\ readPos \in Nat
  BY DEF ControlTypes, DataTypes, Typed, ReaderTypes
<1>2. /\ local[t].link \in Nat /\ local[t].size \in Nat /\ local[t].start \in Nat
      /\ local[t].src \in Seq(Unit)
  BY <1>1 DEF LocalType
<1>3. /\ DOMAIN coder[t] = CoderNames /\ coder[t].inPre \in Nat /\ coder[t].end \in Nat
      /\ coder[t].data \in Seq(Unit)
  BY <1>1 DEF CoderType
<1>4. BufSize \in Nat \ {0} BY BufSizeIs DEF Unit
<1> QED BY <1>1, <1>2, <1>3, <1>4, LenProperties

\* Whether a chain of m buffers or fewer holds size units behind p.
LEMMA SomeChain ==
  ASSUME NEW B, NEW m \in Nat, m <= Len(B), NEW p, NEW start, NEW size, Chain(B, m, p, start, size),
         Len(B) \in Nat
  PROVE  \E i \in 0 .. Len(B) : Chain(B, i, p, start, size)
<1>1. m \in 0 .. Len(B) OBVIOUS
<1> QED BY <1>1

\* The first units of the cross block, moved into the first of the thread's buffers.
LEMMA CrossChain ==
  ASSUME NEW p \in Nat, NEW B0 \in Seq(Seq(Unit)), NEW u \in Nat,
         NEW B, B = <<From(p + 1, u)>> \o Drop(B0, 1)
  PROVE  /\ B \in Seq(Seq(Unit)) /\ Len(B) \in Nat
         /\ \E m \in 0 .. Len(B) : Chain(B, m, p, u, u)
         /\ u >= 1 => FullChain(B, 1, p, u, u)
<1> DEFINE a == From(p + 1, u)
           s == <<a>>
           d == Drop(B0, 1)
<1>1. a \in Seq(Unit)
  <2>1. p + 1 \in Unit BY DEF Unit
  <2> QED BY <2>1, FromIs
<1>2. d \in Seq(Seq(Unit))
  <2>0. Len(B0) \in Nat BY LenProperties
  <2>1. CASE Len(B0) = 0
    <3>1. SubSeq(B0, 2, 0) = <<>> BY <2>1, SubSeqProperties
    <3> QED BY <2>1, <3>1 DEF Drop
  <2>2. CASE Len(B0) # 0
    <3>1. SubSeq(B0, 2, Len(B0)) \in Seq(Seq(Unit)) BY <2>0, <2>2, SubSeqProperties
    <3> QED BY <3>1 DEF Drop
  <2> QED BY <2>1, <2>2
<1>3. s \in Seq(Seq(Unit)) /\ Len(s) = 1 /\ s[1] = a BY <1>1
<1>4. Len(d) \in Nat BY <1>2, LenProperties
<1> HIDE DEF a, s, d
<1>5. s \o d \in Seq(Seq(Unit)) /\ Len(s \o d) = 1 + Len(d)
  <2>1. s \o d \in Seq(Seq(Unit)) /\ Len(s \o d) = Len(s) + Len(d) BY <1>2, <1>3, ConcatProperties
  <2> QED BY <1>3, <2>1
<1>6. (s \o d)[1] = a
  <2>1. 1 \in 1 .. Len(s) + Len(d) BY <1>3, <1>4
  <2>2. (s \o d)[1] = IF 1 <= Len(s) THEN s[1] ELSE d[1 - Len(s)]
    BY <1>2, <1>3, <2>1, ConcatProperties
  <2> QED BY <1>3, <2>2
<1>7. B \in Seq(Seq(Unit)) /\ B[1] = From(p + 1, u) /\ Len(B) >= 1 /\ Len(B) \in Nat
  BY <1>4, <1>5, <1>6 DEF a, s, d
<1>8. CASE u = 0
  <2>1. Chain(B, 0, p, 0, 0) BY <1>7, ChainEmpty
  <2>2. 0 \in 0 .. Len(B) BY <1>7
  <2> QED BY <1>7, <1>8, <2>1, <2>2
<1>9. CASE u >= 1
  <2>1. u \in 1 .. u BY <1>9
  <2>2. Chain(B, 1, p, u, u) /\ FullChain(B, 1, p, u, u) BY <1>7, <2>1, ChainFirst
  <2>3. 1 \in 0 .. Len(B) BY <1>7
  <2> QED BY <1>7, <2>2, <2>3
<1>10. u = 0 \/ u >= 1 OBVIOUS
<1> QED BY <1>8, <1>9, <1>10

\* The first u units of the L that were read into the first of the thread's buffers.
LEMMA OwnFirst ==
  ASSUME NEW p \in Nat, NEW B \in Seq(Seq(Unit)), 0 < Len(B), NEW L \in Nat,
         B[1] = From(p + 1, L), NEW u \in 0 .. L
  PROVE  /\ \E m \in 0 .. Len(B) : Chain(B, m, p, u, u)
         /\ u = L /\ u >= 1 => FullChain(B, 1, p, u, u)
<1>0. Len(B) \in Nat /\ Len(B) >= 1 BY LenProperties
<1>2. CASE u = 0
  <2>1. Chain(B, 0, p, 0, 0) BY ChainEmpty
  <2>2. 0 \in 0 .. Len(B) BY <1>0
  <2> QED BY <1>2, <2>1, <2>2
<1>3. CASE u >= 1
  <2>1. u \in 1 .. L BY <1>3
  <2>2. Chain(B, 1, p, u, u) /\ (u = L => FullChain(B, 1, p, u, u)) BY <1>0, <2>1, ChainFirst
  <2>3. 1 \in 0 .. Len(B) BY <1>0
  <2> QED BY <2>2, <2>3
<1> QED BY <1>2, <1>3

\* The same for a later buffer.
LEMMA OwnNext ==
  ASSUME NEW p \in Nat, NEW B \in Seq(Seq(Unit)), NEW link \in Nat \ {0}, link < Len(B), NEW L \in Nat,
         NEW n \in Nat, B[link + 1] = From(p + n + 1, L), L <= BufSize, NEW start \in Nat,
         FullChain(B, link, p, start, n), NEW u \in 0 .. L
  PROVE  /\ \E m \in 0 .. Len(B) : Chain(B, m, p, start, n + u)
         /\ u = BufSize => FullChain(B, link + 1, p, start, n + u)
         /\ n >= 1
<1>0. Len(B) \in Nat /\ BufSize \in Nat \ {0} BY LenProperties, BufSizeIs DEF Unit
<1>1. Chain(B, link, p, start, n) BY DEF FullChain
<1>2. n >= 1
  <2>1. Heads(B, link, p, start, n) BY <1>1 DEF Chain
  <2> QED BY <2>1 DEF Heads
<1>3. CASE u = 0
  <2>1. link \in 0 .. Len(B) /\ n + u = n BY <1>0, <1>3
  <2> QED BY <1>0, <1>1, <1>2, <1>3, <2>1
<1>4. CASE u >= 1
  <2>1. u \in 1 .. L BY <1>4
  <2>2. /\ Chain(B, link + 1, p, start, n + u)
        /\ u = BufSize => FullChain(B, link + 1, p, start, n + u)
    BY <2>1, ChainNext
  <2>3. link + 1 \in 0 .. Len(B) BY <1>0
  <2> QED BY <1>2, <2>2, <2>3
<1> QED BY <1>3, <1>4

\* How many units of the block were parsed before those at hand.
Taken(t) == local[t].size - Len(local[t].src)

-----------------------------------------------------------------------------
(* Parsing *)

\* What of the input is with the thread when it takes u units of what it has read.
LEMMA ParsedChain ==
  ASSUME ControlTypes, DataTypes, NEW t \in Threads, NEW p \in Nat, ToParse(t, p),
         NEW u \in 0 .. Len(local[t].src), NEW B, NEW start,
         local[t].isCross => B = <<SubSeq(local[t].src, 1, u)>> \o Drop(buf[t], 1),
         ~local[t].isCross => B = buf[t],
         local[t].link = 0 => start = u, local[t].link # 0 => start = local[t].start
  PROVE  /\ Taken(t) \in Nat /\ B \in Seq(Seq(Unit)) /\ Len(B) \in Nat
         /\ \E m \in 0 .. Len(B) : Chain(B, m, p, start, Taken(t) + u)
         /\ u = Len(local[t].src) /\ u >= 1 /\ (local[t].link > 0 => u = BufSize)
              => FullChain(B, local[t].link + 1, p, start, Taken(t) + u)
         /\ (local[t].link = 0 => Taken(t) = 0) /\ (local[t].link > 0 => Taken(t) >= 1)
         /\ local[t].src = From(p + Taken(t) + 1, Len(local[t].src))
<1> DEFINE n == Taken(t)
<1>0. /\ buf[t] \in Seq(Seq(Unit)) /\ Len(buf[t]) \in Nat /\ local[t].link \in Nat
      /\ local[t].size \in Nat /\ local[t].start \in Nat /\ local[t].src \in Seq(Unit)
      /\ Len(local[t].src) \in Nat /\ BufSize \in Nat \ {0}
  BY Fields
<1>1. /\ n >= 0 /\ local[t].src = From(p + n + 1, Len(local[t].src))
      /\ IF local[t].link = 0 THEN n = 0 ELSE FullChain(buf[t], local[t].link, p, local[t].start, n)
      /\ local[t].isCross => local[t].link = 0
      /\ ~local[t].isCross => /\ local[t].link < Len(buf[t]) /\ buf[t][local[t].link + 1] = local[t].src
                              /\ Len(local[t].src) <= BufSize
  BY DEF ToParse, Parsing, Taken
<1>2. n \in Nat BY <1>0, <1>1 DEF Taken
<1> HIDE DEF n
<1>3. CASE local[t].isCross
  <2>1. local[t].link = 0 /\ n = 0 /\ start = u /\ local[t].src = From(p + 1, Len(local[t].src))
    BY <1>1, <1>3
  <2>2. SubSeq(local[t].src, 1, u) = From(p + 1, u)
    <3> DEFINE L == Len(local[t].src)
               q == p + 1
    <3>1. q \in Unit /\ L \in Nat /\ u \in 0 .. L /\ local[t].src = From(q, L) BY <1>0, <2>1 DEF Unit
    <3> HIDE DEF L, q
    <3>2. SubSeq(From(q, L), 1, u) = From(q, u) BY <3>1, FromSub
    <3> QED BY <3>1, <3>2 DEF q
  <2>3. u \in Nat /\ B = <<From(p + 1, u)>> \o Drop(buf[t], 1) BY <1>0, <1>3, <2>2
  <2>4. /\ B \in Seq(Seq(Unit)) /\ Len(B) \in Nat
        /\ \E m \in 0 .. Len(B) : Chain(B, m, p, u, u)
        /\ u >= 1 => FullChain(B, 1, p, u, u)
    BY <1>0, <2>3, CrossChain
  <2>5. n + u = u /\ local[t].link + 1 = 1 BY <2>1, <2>3
  <2>6. \E m \in 0 .. Len(B) : Chain(B, m, p, start, n + u) BY <2>1, <2>4, <2>5
  <2>7. u >= 1 => FullChain(B, local[t].link + 1, p, start, n + u) BY <2>1, <2>4, <2>5
  <2>8. (local[t].link = 0 => n = 0) /\ (local[t].link > 0 => n >= 1) BY <2>1
  <2> QED BY <1>1, <1>2, <2>4, <2>6, <2>7, <2>8 DEF n
<1>4. CASE ~local[t].isCross
  <2>1. B = buf[t] /\ local[t].link < Len(B) BY <1>1, <1>4
  <2>2. B[local[t].link + 1] = From(p + n + 1, Len(local[t].src)) /\ Len(local[t].src) <= BufSize
    BY <1>1, <1>4
  <2> DEFINE C == buf[t]
             L == Len(local[t].src)
             k == local[t].link
             s == local[t].start
  <2>4. /\ C \in Seq(Seq(Unit)) /\ k \in Nat /\ k < Len(C) /\ L \in Nat
        /\ C[k + 1] = From(p + n + 1, L) /\ L <= BufSize /\ s \in Nat
        /\ u \in 0 .. L
    BY <1>0, <1>1, <2>1, <2>2
  <2>5. /\ \E m \in 0 .. Len(C) : Chain(C, m, p, start, n + u)
        /\ u = L /\ u >= 1 /\ (k > 0 => u = BufSize) => FullChain(C, k + 1, p, start, n + u)
        /\ k > 0 => n >= 1
    <3>1. CASE k = 0
      <4>1. n = 0 /\ start = u BY <1>1, <3>1
      <4>2. 0 < Len(C) /\ C[1] = From(p + 1, L) BY <2>4, <3>1, <4>1
      <4> HIDE DEF C, L, k, s
      <4>3. /\ \E m \in 0 .. Len(C) : Chain(C, m, p, u, u)
            /\ u = L /\ u >= 1 => FullChain(C, 1, p, u, u)
        BY <2>4, <4>2, OwnFirst
      <4>4. n + u = u /\ k + 1 = 1 /\ ~(k > 0) BY <2>4, <3>1, <4>1
      <4>5. \E m \in 0 .. Len(C) : Chain(C, m, p, start, n + u) BY <4>1, <4>3, <4>4
      <4>6. u = L /\ u >= 1 => FullChain(C, k + 1, p, start, n + u) BY <4>1, <4>3, <4>4
      <4> QED BY <4>4, <4>5, <4>6
    <3>2. CASE k # 0
      <4>1. start = s /\ FullChain(C, k, p, s, n) BY <1>1, <2>1, <3>2
      <4>2. k \in Nat \ {0} BY <2>4, <3>2
      <4> DEFINE N == n
                 U == u
      <4>5. N \in Nat /\ C[k + 1] = From(p + N + 1, L) /\ FullChain(C, k, p, s, N) /\ U \in 0 .. L
        BY <1>2, <2>4, <4>1
      <4> HIDE DEF C, L, k, s, N, U
      <4>3. /\ \E m \in 0 .. Len(C) : Chain(C, m, p, s, N + U)
            /\ U = BufSize => FullChain(C, k + 1, p, s, N + U)
            /\ N >= 1
        BY <2>4, <4>2, <4>5, OwnNext
      <4>4. k > 0 BY <4>2
      <4> QED BY <4>1, <4>3, <4>4 DEF N, U
    <3> QED BY <3>1, <3>2
  <2>3. /\ \E m \in 0 .. Len(B) : Chain(B, m, p, start, n + u)
        /\ u = L /\ u >= 1 /\ (k > 0 => u = BufSize) => FullChain(B, k + 1, p, start, n + u)
        /\ k > 0 => n >= 1
    BY <2>1, <2>5
  <2> QED BY <1>0, <1>1, <1>2, <2>1, <2>3 DEF n
<1> QED BY <1>3, <1>4 DEF n

\* What is there when input is to be parsed, n units of the block having been parsed.
LEMMA ToParseIs ==
  ASSUME ControlTypes, DataTypes, NEW t \in Threads, NEW p \in Nat, p < LastUnit, ToParse(t, p)
  PROVE  /\ Taken(t) \in Nat /\ local[t].size = Taken(t) + Len(local[t].src) /\ p + Taken(t) < LastUnit
         /\ local[t].src = From(p + Taken(t) + 1, Len(local[t].src))
         /\ coder[t].state = "CONTINUE" /\ coder[t].mark = FALSE /\ coder[t].inPre = Taken(t)
         /\ coder[t].data = <<>> /\ coder[t].codeRes = "OK" /\ coder[t].end \in Nat
         /\ local[t].link = 0 => Taken(t) = 0 /\ coder[t].end = 0 /\ coder[t] = NewCoder
                                 /\ local[t].start = local[t].size
         /\ local[t].link > 0 => /\ Taken(t) >= 1 /\ local[t].needWrite = TRUE
                                 /\ p + Taken(t) <= coder[t].end /\ coder[t].end <= LastUnit
<1> DEFINE n == Taken(t)
<1>0. /\ local[t].size \in Nat /\ Len(local[t].src) \in Nat /\ local[t].link \in Nat
      /\ coder[t].end \in Nat
  BY Fields
<1>1. /\ n >= 0 /\ local[t].src = From(p + n + 1, Len(local[t].src))
      /\ IF local[t].link = 0 THEN /\ coder[t] = NewCoder /\ n = 0
                                   /\ local[t].start = local[t].size
                              ELSE Parsing(t, p, n)
  BY DEF ToParse, Taken
<1>2. n \in Nat /\ local[t].size = n + Len(local[t].src) BY <1>0, <1>1 DEF Taken
<1> HIDE DEF n
<1>3. CASE local[t].link = 0
  <2>1. p + n < LastUnit BY <1>1, <1>3
  <2>2. coder[t] = NewCoder /\ n = 0 /\ local[t].start = local[t].size BY <1>1, <1>3
  <2> QED BY <1>0, <1>1, <1>2, <1>3, <2>1, <2>2, NewCoderIs DEF n
<1>4. CASE local[t].link # 0
  <2>1. Parsing(t, p, n) BY <1>1, <1>4
  <2>2. n >= 1
    <3>1. Heads(buf[t], local[t].link, p, local[t].start, n) /\ local[t].link <= Len(buf[t])
      BY <2>1 DEF Parsing, FullChain, Chain
    <3>2. local[t].start \in Nat /\ local[t].link > 0 /\ buf[t] \in Seq(Seq(Unit)) /\ Len(buf[t]) \in Nat
      BY <1>0, <1>4, Fields
    <3>3. buf[t][1] \in Seq(Unit) BY <1>0, <3>1, <3>2, ElementOfSeq
    <3>4. Len(buf[t][1]) \in Nat BY <3>3, LenProperties
    <3>5. local[t].start \in 1 .. Len(buf[t][1]) /\ local[t].start <= n BY <3>1, <3>2 DEF Heads
    <3> QED BY <1>2, <3>2, <3>4, <3>5
  <2>3. /\ coder[t].state = "CONTINUE" /\ coder[t].mark \in BOOLEAN /\ ~coder[t].mark
        /\ coder[t].inPre = n /\ coder[t].data = <<>> /\ coder[t].codeRes = "OK"
        /\ p + n <= coder[t].end /\ coder[t].end <= LastUnit /\ p + n < LastUnit
        /\ local[t].needWrite \in BOOLEAN /\ local[t].needWrite
    BY <2>1 DEF Parsing, DataTypes, Typed, CoderType, LocalType
  <2> QED BY <1>0, <1>1, <1>2, <1>4, <2>2, <2>3 DEF n
<1> QED BY <1>0, <1>3, <1>4 DEF n

\* What a step of the parser leaves in the coder.
LEMMA ParsedIs ==
  ASSUME ControlTypes, DataTypes, NEW t \in Threads, NEW p \in Nat, p < LastUnit, ToParse(t, p),
         NEW o \in Outcomes(t), Parsed(t, o)
  PROVE  /\ Len(local[t].src) \in Nat /\ o.n \in 0 .. Len(local[t].src) /\ CoderType(coder'[t])
         /\ coder'[t].state = o.state /\ coder'[t].mark = o.mark /\ coder'[t].inPre = Taken(t) + o.n
         /\ coder'[t].data = <<>> /\ coder'[t].codeRes = "OK" /\ coder'[t].end <= LastUnit
         /\ o.state \in {"CONTINUE", "NEW", "END", "OVERFLOW"}
         /\ o.state = "CONTINUE" => /\ o.n = Len(local[t].src) /\ ~o.mark /\ p + Taken(t) + Len(local[t].src) < LastUnit
                                    /\ Len(local[t].src) # 0 => p + Taken(t) + Len(local[t].src) <= coder'[t].end
         /\ o.state = "NEW" => Len(local[t].src) # 0 /\ ~o.mark /\ p + Taken(t) + o.n < LastUnit /\ Taken(t) + o.n >= 1
         /\ o.state = "END" => Len(local[t].src) # 0 /\ p + Taken(t) + o.n \in StopAt .. LastUnit
                               /\ Taken(t) + o.n >= 1
         /\ UNCHANGED <<readPos, readRes, readWasFinished, stream, progRes, interruptIndex>>
<1> DEFINE n == Taken(t)
           L == Len(local[t].src)
<1>0. /\ L \in Nat /\ local[t].link \in Nat /\ DOMAIN coder = Threads /\ DOMAIN coder[t] = CoderNames
      /\ local[t].src \in Seq(Unit) /\ local[t].size \in Nat
  BY Fields
<1>1. /\ n \in Nat /\ p + n < LastUnit
      /\ local[t].src = From(p + n + 1, L)
      /\ coder[t].state = "CONTINUE" /\ coder[t].mark = FALSE /\ coder[t].inPre = n
      /\ coder[t].data = <<>> /\ coder[t].codeRes = "OK" /\ coder[t].end \in Nat
      /\ local[t].link = 0 => n = 0 /\ coder[t].end = 0 /\ coder[t] = NewCoder
      /\ local[t].link > 0 => n >= 1 /\ p + n <= coder[t].end /\ coder[t].end <= LastUnit
  BY ToParseIs
<1> HIDE DEF n, L
<1> DEFINE src == local[t].src
           q == p + n
           e == IF local[t].link # 0 /\ coder[t].end # 0 THEN coder[t].end
                ELSE IF src # <<>> THEN EndOf(Head(src)) ELSE 0
<1>2. stream \in Streams /\ LastUnit \in Unit BY StreamIs DEF DataTypes, MainTypes
<1>3. q \in Nat /\ q < LastUnit /\ src = From(q + 1, L) BY <1>1
<1>4. src = <<>> <=> L = 0
  <2>1. q + 1 \in Unit BY <1>3 DEF Unit
  <2> HIDE DEF q
  <2> QED BY <1>0, <1>3, <2>1, FromIs
<1>5. L # 0 => Head(src) = q + 1 /\ EndOf(q + 1) \in q + 1 .. LastUnit
  <2>1. q + 1 \in Unit /\ q + 1 <= LastUnit BY <1>2, <1>3 DEF Unit
  <2>2. EndOf(q + 1) \in q + 1 .. LastUnit BY <1>2, <2>1, EndOfIs
  <2>3. L # 0 => Head(From(q + 1, L)) = q + 1 BY <1>0, <2>1, FromTail
  <2> QED BY <1>3, <2>2, <2>3
<1>6. /\ e \in Nat /\ e <= LastUnit /\ (L # 0 => q <= e) /\ (L # 0 /\ local[t].link = 0 => q < e)
      /\ local[t].link # 0 => n >= 1
  <2> HIDE DEF src, q
  <2>1. CASE local[t].link # 0
    <3>1. coder[t].end # 0 /\ local[t].link > 0 BY <1>0, <1>1, <2>1
    <3>2. e = coder[t].end BY <2>1, <3>1
    <3> QED BY <1>1, <2>1, <3>1, <3>2 DEF q
  <2>2. CASE local[t].link = 0 /\ L = 0
    <3>1. e = 0 BY <1>4, <2>2
    <3> QED BY <1>2, <2>2, <3>1 DEF Unit
  <2>3. CASE local[t].link = 0 /\ L # 0
    <3>1. e = EndOf(q + 1) BY <1>4, <1>5, <2>3
    <3> QED BY <1>2, <1>3, <1>5, <2>3, <3>1 DEF Unit
  <2> QED BY <2>1, <2>2, <2>3
<1>7. o \in Parse(From(q + 1, L), e) BY <1>3 DEF Outcomes
<1>8. /\ o.state \in {"CONTINUE", "NEW", "END", "OVERFLOW"} /\ o.n \in 0 .. L /\ o.mark \in BOOLEAN
      /\ o.state = "CONTINUE" => o.n = L /\ ~o.mark /\ q + L < LastUnit /\ (L # 0 => q + L <= e)
      /\ o.state = "NEW" => L # 0 /\ ~o.mark /\ q + o.n < LastUnit /\ q + o.n = e
      /\ o.state = "END" => L # 0 /\ q + o.n \in StopAt .. LastUnit /\ q + o.n <= e
      /\ o.state = "OVERFLOW" => L # 0 /\ ~o.mark
      /\ o.state \in {"NEW", "END"} /\ q < e => o.n >= 1
  <2> HIDE DEF e, q
  <2> QED BY <1>0, <1>2, <1>3, <1>6, <1>7, ParseIs
<1> DEFINE c == IF local[t].link = 0 THEN NewCoder ELSE coder[t]
<1>9. c = coder[t] BY <1>0, <1>1
<1>10. coder'[t] = [coder[t] EXCEPT !.state = o.state, !.mark = o.mark,
                                    !.end = e, !.inPre = coder[t].inPre + o.n]
  <2>1. ParsedCoder(t, o) = [c EXCEPT !.state = o.state, !.mark = o.mark,
                 !.end = IF c.end = 0 /\ src # <<>> THEN EndOf(Head(src)) ELSE c.end, !.inPre = @ + o.n]
    BY DEF ParsedCoder
  <2>2. (IF c.end = 0 /\ src # <<>> THEN EndOf(Head(src)) ELSE c.end) = e
    <3> HIDE DEF c, src
    <3>1. local[t].link # 0 => coder[t].end # 0 BY <1>0, <1>1
    <3>2. local[t].link = 0 => coder[t].end = 0 BY <1>1
    <3> QED BY <1>9, <3>1, <3>2
  <2>3. coder'[t] = ParsedCoder(t, o) BY <1>0 DEF Parsed
  <2> HIDE DEF c, e, src
  <2> QED BY <1>9, <2>1, <2>2, <2>3
<1> HIDE DEF e
<1>11. /\ DOMAIN coder'[t] = CoderNames
       /\ coder'[t].state = o.state /\ coder'[t].mark = o.mark /\ coder'[t].inPre = n + o.n
       /\ coder'[t].end = e
       /\ coder'[t].data = <<>> /\ coder'[t].codeRes = "OK"
  BY <1>0, <1>1, <1>10 DEF CoderNames, NewCoder
<1>12. CoderType(coder'[t])
  <2>1. <<>> \in Seq(Unit) OBVIOUS
  <2>2. n + o.n \in Nat BY <1>1, <1>8
  <2> QED BY <1>6, <1>8, <1>11, <2>1, <2>2 DEF CoderType
<1>13. o.state \in {"NEW", "END"} => n + o.n >= 1
  <2>1. CASE local[t].link = 0
    <3>1. o.state \in {"NEW", "END"} => o.n >= 1 BY <1>6, <1>8, <2>1
    <3> QED BY <1>1, <1>8, <3>1
  <2>2. CASE local[t].link # 0 BY <1>1, <1>6, <1>8, <2>2
  <2> QED BY <2>1, <2>2
<1>14. UNCHANGED <<readPos, readRes, readWasFinished, stream, progRes, interruptIndex>>
  BY DEF Parsed, mainVars, lockVars
<1> QED BY <1>0, <1>6, <1>8, <1>11, <1>12, <1>13, <1>14 DEF n, L

\* The block keeps u units of the input at hand.
LEMMA KeepsChain ==
  ASSUME ControlTypes, DataTypes, NEW t \in Threads, NEW p \in Nat, ToParse(t, p),
         NEW u \in 0 .. Len(local[t].src),
         buf'[t] = IF local[t].isCross THEN <<SubSeq(local[t].src, 1, u)>> \o Drop(buf[t], 1)
                                       ELSE buf[t],
         local'[t].start = IF local[t].link = 0 THEN u ELSE local[t].start,
         local'[t].size = Taken(t) + u
  PROVE  /\ buf'[t] \in Seq(Seq(Unit))
         /\ Chained(t, p)'
         /\ u = Len(local[t].src) /\ u >= 1 /\ (local[t].link > 0 => u = BufSize)
              => FullChain(buf'[t], local[t].link + 1, p, local'[t].start, local'[t].size)
<1> DEFINE B == buf'[t]
           start == local'[t].start
<1>1. /\ local[t].isCross => B = <<SubSeq(local[t].src, 1, u)>> \o Drop(buf[t], 1)
      /\ ~local[t].isCross => B = buf[t]
      /\ local[t].link = 0 => start = u
      /\ local[t].link # 0 => start = local[t].start
  OBVIOUS
<1> HIDE DEF B, start
<1>3. /\ B \in Seq(Seq(Unit)) /\ Len(B) \in Nat
      /\ \E m \in 0 .. Len(B) : Chain(B, m, p, start, Taken(t) + u)
      /\ u = Len(local[t].src) /\ u >= 1 /\ (local[t].link > 0 => u = BufSize)
              => FullChain(B, local[t].link + 1, p, start, Taken(t) + u)
  BY <1>1, ParsedChain
<1>5. Chained(t, p)' BY <1>3 DEF Chained, B, start
<1> QED BY <1>3, <1>5 DEF B, start

\* A block whose last input was parsed goes to recheck.
LEMMA ToRecheck ==
  ASSUME NEW t \in Threads, NEW p \in Nat, p < LastUnit, NEW b, UNCHANGED stream, pc'[t] = "recheck",
         Clean(local[t]), Facts(t, p)',
         Keeps(t, {"needWrite", "needCode", "over", "alloc", "finish", "size", "start", "src"}),
         coder'[t].data = <<>>, coder'[t].codeRes = "OK",
         local'[t].needCode \/ local'[t].over
  PROVE  BlockOk(t, p, b)'
<1>1. /\ local'[t].codeRes = "OK" /\ local'[t].res = "OK" /\ local'[t].canRecode
      /\ ~local'[t].toStream /\ ~local'[t].thr /\ ~local'[t].needContinue
  BY Names DEF Keeps, Clean
<1>2. Undecoded(t)' BY <1>1 DEF Undecoded
<1>3. Early(t, p, b)' BY <1>1, <1>2 DEF Early
<1> QED BY <1>3 DEF BlockOk, LastUnit, WorkPcs, WriterPcs

\* The fields of a thread at work that a step does not change keep their types.
LEMMA SameTypes ==
  ASSUME ControlTypes, DataTypes, NEW t \in Threads,
         Keeps(t, {"needWrite", "needCode", "over", "alloc", "finish", "size", "start", "src", "link",
                   "isCross"}),
         {local'[t].needWrite, local'[t].needCode, local'[t].over, local'[t].alloc,
          local'[t].isCross} \subseteq BOOLEAN,
         local'[t].size \in Nat, local'[t].start \in Nat, local'[t].link \in Nat,
         local'[t].src \in Seq(Unit)
  PROVE  LocalType(local'[t])
<1>1. LocalType(local[t]) BY DEF DataTypes, Typed
<1>2. /\ local'[t].block = local[t].block /\ local'[t].res = local[t].res
      /\ local'[t].codeRes = local[t].codeRes /\ local'[t].interrupted = local[t].interrupted
      /\ local'[t].thr = local[t].thr /\ local'[t].toStream = local[t].toStream
      /\ local'[t].canRecode = local[t].canRecode
  BY Names DEF Keeps
<1> QED BY <1>1, <1>2 DEF LocalType

\* Parse: the block needs more memory than allowed.
LEMMA ParseOverflowBlock ==
  ASSUME ControlTypes, DataTypes, ReaderOk, NEW t \in Threads, NEW p \in Nat, NEW b,
         b = local[t].block, BlockOk(t, p, b), ParseOverflow(t)
  PROVE  /\ Typed(t)' /\ ReaderTypes' /\ ReaderOk'
         /\ BlockOk(t, p, b)' /\ LastBlock(t, p)'
<1>0. /\ DOMAIN local = Threads /\ DOMAIN local[t] = FieldNames /\ pc \in [Threads -> ThreadPcs]
      /\ local[t].size \in Nat /\ Len(local[t].src) \in Nat /\ local[t].link \in Nat
      /\ local[t].src \in Seq(Unit) /\ DOMAIN buf = Threads /\ local[t].start \in Nat
      /\ readPos \in Nat
  BY Fields
<1>1. PICK o \in Outcomes(t) : o.state = "OVERFLOW" /\ Parsed(t, o) BY DEF ParseOverflow
<1>2. /\ pc[t] = "parse" /\ pc'[t] = "recheck" /\ cross' = <<>> /\ crossBlock' = crossBlock
      /\ MoveCross(t, Len(local[t].src))
      /\ local' = [local EXCEPT ![t].needWrite = TRUE, ![t].over = TRUE, ![t].finish = TRUE]
  BY <1>0 DEF ParseOverflow
<1>3. ToParse(t, p) /\ p < LastUnit BY <1>2 DEF BlockOk
<1>4. /\ CoderType(coder'[t])
      /\ coder'[t].state = o.state /\ coder'[t].data = <<>> /\ coder'[t].codeRes = "OK"
      /\ UNCHANGED <<readPos, readRes, readWasFinished, stream, progRes, interruptIndex>>
  BY <1>1, <1>3, ParsedIs
<1>5. Keeps(t, {"needWrite", "over", "finish"}) BY <1>0, <1>2 DEF Keeps
<1>6. local'[t].needWrite = TRUE /\ local'[t].over = TRUE /\ local'[t].finish = TRUE
  BY <1>0, <1>2, Names
<1>7. /\ local'[t].size = local[t].size /\ local'[t].start = local[t].start
      /\ local'[t].src = local[t].src /\ local'[t].link = local[t].link
      /\ local'[t].needCode = local[t].needCode /\ local'[t].alloc = local[t].alloc
      /\ local'[t].isCross = local[t].isCross
  BY <1>5, Names DEF Keeps
<1>8. /\ Clean(local[t]) /\ p + local[t].size = readPos BY <1>3 DEF ToParse
<1>9. /\ local[t].size = Taken(t) + Len(local[t].src)
      /\ local[t].link = 0 => Taken(t) = 0 /\ local[t].start = local[t].size
  BY <1>3, ToParseIs
<1>10. /\ buf'[t] \in Seq(Seq(Unit)) /\ Chained(t, p)'
  <2> DEFINE u == Len(local[t].src)
  <2>1. u \in 0 .. Len(local[t].src) BY <1>0
  <2>2. buf'[t] = IF local[t].isCross THEN <<SubSeq(local[t].src, 1, u)>> \o Drop(buf[t], 1)
                                       ELSE buf[t]
    BY <1>0, <1>2 DEF MoveCross
  <2>3. local'[t].start = IF local[t].link = 0 THEN u ELSE local[t].start BY <1>0, <1>7, <1>9
  <2>4. local'[t].size = Taken(t) + u BY <1>7, <1>9
  <2> HIDE DEF u
  <2> QED BY <1>3, <2>1, <2>2, <2>3, <2>4, KeepsChain
<1>11. Typed(t)'
  <2>1. LocalType(local[t]) BY DEF DataTypes, Typed
  <2>2. LocalType(local'[t])
    <3>1. Keeps(t, {"needWrite", "needCode", "over", "alloc", "finish", "size", "start", "src", "link",
                   "isCross"}) BY <1>5 DEF Keeps
    <3>2. {local'[t].needWrite, local'[t].needCode, local'[t].over, local'[t].alloc,
          local'[t].isCross} \subseteq BOOLEAN BY <1>6, <1>7, <2>1 DEF LocalType
    <3> QED BY <1>0, <1>7, <3>1, <3>2, SameTypes
  <2> QED BY <1>4, <1>10, <2>2 DEF Typed
<1>12. ReaderTypes' /\ ReaderOk'
  <2>1. ReaderTypes BY DEF DataTypes
  <2> QED BY <1>2, <1>4, <2>1 DEF ReaderTypes, ReaderOk
<1>13. Facts(t, p)'
  <2>1. ~local'[t].needCode BY <1>7, <1>8 DEF Clean
  <2> QED BY <1>1, <1>4, <1>6, <1>10, <2>1 DEF Facts
<1>14. BlockOk(t, p, b)'
  <2>1. Keeps(t, {"needWrite", "needCode", "over", "alloc", "finish", "size", "start", "src"})
    BY <1>5 DEF Keeps
  <2> QED BY <1>2, <1>3, <1>4, <1>6, <1>8, <1>13, <2>1, ToRecheck
<1>15. LastBlock(t, p)'
  <2>1. cross' = From(p + local'[t].size + 1, Len(cross'))
    <3>1. p + local'[t].size \in Nat BY <1>0, <1>7
    <3>2. Len(cross') = 0 BY <1>2
    <3> QED BY <1>2, <3>1, <3>2, FromZero
  <2>2. Len(cross') = 0 BY <1>2
  <2> QED BY <1>0, <1>4, <1>7, <1>8, <2>1, <2>2 DEF LastBlock
<1> QED BY <1>11, <1>12, <1>14, <1>15

\* The last input of the block was parsed, n units of it being the block's.
LEMMA LastInput ==
  ASSUME ControlTypes, DataTypes, NEW t \in Threads, NEW p \in Nat, NEW b,
         BlockOk(t, p, b), pc[t] = "parse", pc'[t] = "recheck",
         NEW o \in Outcomes(t), Parsed(t, o), MoveCross(t, o.n), NEW f \in BOOLEAN,
         local' = [local EXCEPT ![t] = LastParsed(t, local[t], o.n, f)],
         o.state = "NEW" \/ (o.state = "END" /\ f) \/ (o.state = "CONTINUE" /\ f /\ local[t].finish)
  PROVE  /\ Typed(t)' /\ BlockOk(t, p, b)'
         /\ local'[t].size = Taken(t) + o.n /\ Taken(t) \in Nat /\ o.n \in 0 .. Len(local[t].src)
         /\ p + Taken(t) + Len(local[t].src) = readPos
         /\ local[t].src = From(p + Taken(t) + 1, Len(local[t].src))
         /\ coder'[t].state = o.state
         /\ o.state = "END" => p + Taken(t) + o.n >= StopAt
         /\ UNCHANGED <<readPos, readRes, readWasFinished, stream, progRes, interruptIndex>>
<1>0. /\ DOMAIN local = Threads /\ DOMAIN local[t] = FieldNames /\ pc \in [Threads -> ThreadPcs]
      /\ local[t].size \in Nat /\ Len(local[t].src) \in Nat /\ local[t].link \in Nat
      /\ local[t].src \in Seq(Unit) /\ DOMAIN buf = Threads /\ local[t].start \in Nat
      /\ readPos \in Nat
  BY Fields
<1>1. ToParse(t, p) /\ p < LastUnit BY DEF BlockOk
<1>2. /\ Clean(local[t]) /\ p + local[t].size = readPos
      /\ local[t].finish => readPos = stream.size \/ readRes # "OK"
  BY <1>1 DEF ToParse
<1>3. /\ Taken(t) \in Nat /\ local[t].size = Taken(t) + Len(local[t].src)
      /\ local[t].src = From(p + Taken(t) + 1, Len(local[t].src))
  BY <1>1, ToParseIs
<1>4. /\ o.n \in 0 .. Len(local[t].src) /\ CoderType(coder'[t])
      /\ coder'[t].state = o.state /\ coder'[t].inPre = Taken(t) + o.n
      /\ coder'[t].data = <<>> /\ coder'[t].codeRes = "OK"
      /\ o.state = "CONTINUE" => o.n = Len(local[t].src) /\ p + Taken(t) + Len(local[t].src) < LastUnit
      /\ o.state = "NEW" => p + Taken(t) + o.n < LastUnit /\ Taken(t) + o.n >= 1
      /\ o.state = "END" => Len(local[t].src) # 0 /\ p + Taken(t) + o.n \in StopAt .. LastUnit
                            /\ Taken(t) + o.n >= 1
      /\ UNCHANGED <<readPos, readRes, readWasFinished, stream, progRes, interruptIndex>>
  BY <1>1, ParsedIs
<1>5. local'[t] = LastParsed(t, local[t], o.n, f) BY <1>0
<1>6. /\ Keeps(t, {"needWrite", "needCode", "finish", "size", "start"})
      /\ local'[t].needWrite = TRUE /\ local'[t].needCode = TRUE /\ local'[t].finish = f
      /\ local'[t].size = local[t].size - (Len(local[t].src) - o.n)
      /\ local'[t].start = IF local[t].link = 0 THEN o.n ELSE local[t].start
  BY <1>0, <1>5, Names DEF LastParsed, Keeps
<1>7. local'[t].size = Taken(t) + o.n
  <2>1. /\ local[t].size \in Nat /\ Len(local[t].src) \in Nat /\ o.n \in Nat /\ Taken(t) \in Nat
        /\ local[t].size = Taken(t) + Len(local[t].src)
        /\ local'[t].size = local[t].size - (Len(local[t].src) - o.n)
    BY <1>0, <1>3, <1>4, <1>6
  <2> QED BY <2>1
<1>8. /\ local'[t].src = local[t].src /\ local'[t].link = local[t].link
      /\ local'[t].over = local[t].over /\ local'[t].alloc = local[t].alloc
      /\ local'[t].isCross = local[t].isCross /\ local'[t].thr = local[t].thr
  BY <1>6, Names DEF Keeps
<1>10. /\ buf'[t] \in Seq(Seq(Unit)) /\ Chained(t, p)'
  <2> DEFINE u == o.n
  <2>1. u \in 0 .. Len(local[t].src) BY <1>4
  <2>2. buf'[t] = IF local[t].isCross THEN <<SubSeq(local[t].src, 1, u)>> \o Drop(buf[t], 1)
                                       ELSE buf[t]
    BY <1>0 DEF MoveCross
  <2>3. local'[t].start = IF local[t].link = 0 THEN u ELSE local[t].start BY <1>6
  <2>4. local'[t].size = Taken(t) + u BY <1>7
  <2> HIDE DEF u
  <2> QED BY <1>1, <2>1, <2>2, <2>3, <2>4, KeepsChain
<1>11. Typed(t)'
  <2>1. LocalType(local[t]) BY DEF DataTypes, Typed
  <2>2. LocalType(local'[t])
    <3>1. Keeps(t, {"needWrite", "needCode", "over", "alloc", "finish", "size", "start", "src", "link",
                   "isCross"}) BY <1>6 DEF Keeps
    <3>6. {local[t].needWrite, local[t].needCode, local[t].over, local[t].alloc, local[t].isCross}
            \subseteq BOOLEAN
      BY <2>1 DEF LocalType
    <3>2. {local'[t].needWrite, local'[t].needCode, local'[t].over, local'[t].alloc,
          local'[t].isCross} \subseteq BOOLEAN BY <1>6, <1>8, <3>6
    <3>4. local'[t].size \in Nat BY <1>3, <1>4, <1>7
    <3>5. o.n \in Nat BY <1>0, <1>4
    <3>3. local'[t].size \in Nat /\ local'[t].start \in Nat BY <1>0, <3>4, <3>5, <1>6
    <3> QED BY <1>0, <1>8, <3>1, <3>2, <3>3, SameTypes
  <2> QED BY <1>4, <1>10, <2>2 DEF Typed
<1>12. ~local'[t].over /\ ~local'[t].alloc /\ ~local'[t].thr BY <1>2, <1>8 DEF Clean
<1>13. Facts(t, p)'
  <2> DEFINE n == Taken(t) + o.n
  <2>1. local'[t].size = n /\ coder'[t].inPre = n BY <1>4, <1>7
  <2>2. n = 0 => p >= stream.size \/ readRes # "OK"
    <3>1. n = 0 => Taken(t) = 0 /\ o.n = 0 BY <1>3, <1>4
    <3>2. n = 0 => o.state = "CONTINUE" BY <1>4
    <3>3. n = 0 => Len(local[t].src) = 0 BY <1>4, <3>1, <3>2
    <3>4. n = 0 => p = readPos /\ local[t].finish BY <1>0, <1>2, <1>3, <3>1, <3>2, <3>3
    <3> QED BY <3>4, <1>2, <1>0
  <2>3. ~f => o.state = "NEW" OBVIOUS
  <2>4. o.state # "END" => p + n < LastUnit BY <1>3, <1>4
  <2>5. o.state = "END" => f /\ p + n \in StopAt .. LastUnit BY <1>3, <1>4
  <2>6. stream' = stream /\ readRes' = readRes /\ LastUnit' = LastUnit /\ StopAt' = StopAt
    BY <1>4 DEF LastUnit, StopAt
  <2>7. o.state # "OVERFLOW" OBVIOUS
  <2>8. o.state = "NEW" => n >= 1 BY <1>4
  <2> HIDE DEF n
  <2> QED BY <1>4, <1>6, <1>10, <1>12, <2>1, <2>2, <2>3, <2>4, <2>5, <2>6, <2>7, <2>8 DEF Facts
<1>14. BlockOk(t, p, b)'
  <2>1. Keeps(t, {"needWrite", "needCode", "over", "alloc", "finish", "size", "start", "src"})
    BY <1>6 DEF Keeps
  <2> QED BY <1>1, <1>2, <1>4, <1>6, <1>13, <2>1, ToRecheck
<1>15. p + Taken(t) + Len(local[t].src) = readPos BY <1>0, <1>2, <1>3
<1> QED BY <1>3, <1>4, <1>7, <1>11, <1>14, <1>15

\* The end of a sequence of units that follow one another.
LEMMA RestOf ==
  ASSUME NEW q \in Nat, NEW L \in Nat, NEW n \in 0 .. L
  PROVE  /\ Drop(From(q + 1, L), n) = From(q + n + 1, L - n)
         /\ Len(Drop(From(q + 1, L), n)) = L - n
         /\ Drop(From(q + 1, L), n) \in Seq(Unit)
<1>1. q + 1 \in Unit /\ q + n + 1 \in Unit /\ L - n \in Nat BY DEF Unit
<1>2. Drop(From(q + 1, L), n) = From((q + 1) + n, L - n) BY <1>1, FromDrop
<1>3. (q + 1) + n = q + n + 1 OBVIOUS
<1>4. Drop(From(q + 1, L), n) = From(q + n + 1, L - n) BY <1>2, <1>3
<1>5. Len(From(q + n + 1, L - n)) = L - n /\ From(q + n + 1, L - n) \in Seq(Unit) BY <1>1, FromIs
<1> QED BY <1>4, <1>5

\* Parse: the input is used up, nothing follows it in the cross block.
LEMMA ParseAllBlock ==
  ASSUME ControlTypes, DataTypes, ReaderOk, NEW t \in Threads, NEW p \in Nat, NEW b,
         BlockOk(t, p, b), ParseAll(t)
  PROVE  /\ Typed(t)' /\ ReaderTypes' /\ ReaderOk'
         /\ BlockOk(t, p, b)' /\ LastBlock(t, p)'
<1>0. /\ pc \in [Threads -> ThreadPcs] /\ Len(local[t].src) \in Nat /\ readPos \in Nat
  BY Fields
<1> DEFINE f(o) == local[t].finish \/ o.state = "END"
<1>1. PICK o \in Outcomes(t) :
        /\ o.state \in {"NEW", "END"} \/ (o.state = "CONTINUE" /\ local[t].finish)
        /\ o.n = Len(local[t].src) /\ Parsed(t, o) /\ MoveCross(t, o.n)
        /\ local' = [local EXCEPT ![t] = LastParsed(t, local[t], o.n, f(o))]
  BY DEF ParseAll
<1>2. /\ pc[t] = "parse" /\ pc'[t] = "recheck" /\ cross' = <<>> /\ crossBlock' = crossBlock
  BY <1>0 DEF ParseAll
<1>3. f(o) \in BOOLEAN OBVIOUS
<1>4. o.state = "NEW" \/ (o.state = "END" /\ f(o)) \/ (o.state = "CONTINUE" /\ f(o) /\ local[t].finish)
  BY <1>1
<1> DEFINE g == f(o)
<1>5. /\ g \in BOOLEAN /\ local' = [local EXCEPT ![t] = LastParsed(t, local[t], o.n, g)]
      /\ o.state = "NEW" \/ (o.state = "END" /\ g) \/ (o.state = "CONTINUE" /\ g /\ local[t].finish)
  BY <1>1, <1>3, <1>4
<1> HIDE DEF g, f
<1>6. /\ Typed(t)' /\ BlockOk(t, p, b)'
      /\ local'[t].size = Taken(t) + o.n /\ Taken(t) \in Nat
      /\ p + Taken(t) + Len(local[t].src) = readPos
      /\ UNCHANGED <<readPos, readRes, readWasFinished, stream>>
  <2>1. Parsed(t, o) /\ MoveCross(t, o.n) /\ pc[t] = "parse" /\ pc'[t] = "recheck" BY <1>1, <1>2
  <2> QED BY <1>5, <2>1, LastInput
<1>7. ReaderTypes' /\ ReaderOk'
  <2>1. ReaderTypes BY DEF DataTypes
  <2> QED BY <1>2, <1>6, <2>1 DEF ReaderTypes, ReaderOk
<1>8. LastBlock(t, p)'
  <2> DEFINE q == p + local'[t].size
  <2>1. q \in Nat /\ q = readPos
    <3>1. o.n = Len(local[t].src) BY <1>1
    <3>2. PICK k \in Nat, n \in Nat : k = Taken(t) /\ n = Len(local[t].src) BY <1>0, <1>6
    <3>3. local'[t].size = k + n /\ p + k + n = readPos BY <1>6, <3>1, <3>2
    <3>4. p + (k + n) = p + k + n BY <3>2
    <3> QED BY <1>0, <3>3, <3>4
  <2>2. Len(cross') = 0 BY <1>2
  <2>3. cross' = From(q + 1, Len(cross')) BY <1>2, <2>1, <2>2, FromZero
  <2>4. q + Len(cross') = readPos' BY <1>6, <2>1, <2>2
  <2> QED BY <2>3, <2>4 DEF LastBlock
<1> QED BY <1>6, <1>7, <1>8

\* Parse: the block ends with the stream, the rest of the input goes to the cross block.
LEMMA ParseAfterEndBlock ==
  ASSUME ControlTypes, DataTypes, ReaderOk, NEW t \in Threads, NEW p \in Nat, NEW b,
         BlockOk(t, p, b), ParseAfterEnd(t)
  PROVE  /\ Typed(t)' /\ ReaderTypes' /\ ReaderOk'
         /\ BlockOk(t, p, b)' /\ LastBlock(t, p)'
<1>0. /\ pc \in [Threads -> ThreadPcs] /\ Len(local[t].src) \in Nat /\ readPos \in Nat
  BY Fields
<1>1. PICK o \in Outcomes(t) :
        /\ o.state = "END" /\ Parsed(t, o) /\ MoveCross(t, o.n)
        /\ cross' = IF local[t].isCross THEN Drop(local[t].src, o.n) ELSE cross
        /\ local' = [local EXCEPT ![t] = LastParsed(t, local[t], o.n, TRUE)]
  BY DEF ParseAfterEnd
<1>2. /\ pc[t] = "parse" /\ pc'[t] = "recheck" /\ crossBlock' = crossBlock
  BY <1>0 DEF ParseAfterEnd
<1>5. o.state = "END" /\ TRUE BY <1>1
<1>6. /\ Typed(t)' /\ BlockOk(t, p, b)'
      /\ local'[t].size = Taken(t) + o.n /\ Taken(t) \in Nat /\ o.n \in 0 .. Len(local[t].src)
      /\ p + Taken(t) + Len(local[t].src) = readPos
      /\ local[t].src = From(p + Taken(t) + 1, Len(local[t].src))
      /\ coder'[t].state = "END" /\ p + Taken(t) + o.n >= StopAt
      /\ UNCHANGED <<readPos, readRes, readWasFinished, stream>>
  BY <1>1, <1>2, <1>5, LastInput
<1>3. local[t].isCross => crossBlock
  <2>1. ToParse(t, p) BY <1>2 DEF BlockOk
  <2> QED BY <2>1 DEF ToParse
<1>4. ~local[t].isCross => cross = <<>>
  <2>1. ToParse(t, p) BY <1>2 DEF BlockOk
  <2> QED BY <2>1 DEF ToParse
<1> DEFINE q == p + local'[t].size
<1>9. q \in Nat /\ q = p + Taken(t) + o.n
  <2>1. o.n \in Nat BY <1>0, <1>6
  <2> QED BY <1>6, <2>1
<1>10. cross' \in Seq(Unit) /\ cross' = From(q + 1, Len(cross'))
  <2>1. CASE local[t].isCross
    <3> DEFINE r == p + Taken(t)
               L == Len(local[t].src)
               s == local[t].src
               k == o.n
    <3>1. r \in Nat /\ L \in Nat /\ k \in 0 .. L /\ s = From(r + 1, L) /\ q + 1 = r + k + 1
      BY <1>0, <1>6, <1>9
    <3>2. cross' = Drop(s, k) BY <1>1, <2>1
    <3> HIDE DEF r, L, s, k, q
    <3>3. /\ Drop(From(r + 1, L), k) = From(r + k + 1, L - k)
          /\ Len(Drop(From(r + 1, L), k)) = L - k /\ Drop(From(r + 1, L), k) \in Seq(Unit)
      BY <3>1, RestOf
    <3> QED BY <3>1, <3>2, <3>3
  <2>2. CASE ~local[t].isCross
    <3>1. cross' = <<>> /\ Len(cross') = 0 BY <1>1, <1>4, <2>2
    <3> HIDE DEF q
    <3> QED BY <1>9, <3>1, FromZero
  <2> QED BY <2>1, <2>2
<1>7. ReaderTypes' /\ ReaderOk'
  <2>1. ReaderTypes BY DEF DataTypes
  <2>2. crossBlock' \in BOOLEAN /\ (cross' # <<>> => crossBlock') BY <1>1, <1>2, <1>3, <1>4, <2>1 DEF ReaderTypes
  <2> QED BY <1>6, <1>10, <2>1, <2>2 DEF ReaderTypes, ReaderOk
<1>8. LastBlock(t, p)'
  <2>1. q >= StopAt' BY <1>6, <1>9 DEF StopAt, LastUnit
  <2> QED BY <1>6, <1>10, <2>1 DEF LastBlock
<1> QED BY <1>6, <1>7, <1>8

\* Parse: another block begins in this input, whose rest goes to the cross block.
LEMMA ParseNewBlock ==
  ASSUME ControlTypes, DataTypes, ReaderOk, NEW t \in Threads, NEW p \in Nat, NEW b,
         BlockOk(t, p, b), ParseNew(t)
  PROVE  /\ Typed(t)' /\ ReaderTypes' /\ ReaderOk'
         /\ BlockOk(t, p, b)' /\ LastBlock(t, p)'
<1>0. /\ pc \in [Threads -> ThreadPcs] /\ Len(local[t].src) \in Nat /\ readPos \in Nat
  BY Fields
<1>1. PICK o \in Outcomes(t) :
        /\ o.state = "NEW" /\ Parsed(t, o) /\ MoveCross(t, o.n)
        /\ cross' = Unparsed(local[t], o.n)
        /\ local' = [local EXCEPT ![t] = LastParsed(t, local[t], o.n, FALSE)]
  BY DEF ParseNew
<1>2. /\ pc[t] = "parse" /\ pc'[t] = "recheck" /\ crossBlock' = TRUE
  BY <1>0 DEF ParseNew
<1>6. /\ Typed(t)' /\ BlockOk(t, p, b)'
      /\ local'[t].size = Taken(t) + o.n /\ Taken(t) \in Nat /\ o.n \in 0 .. Len(local[t].src)
      /\ p + Taken(t) + Len(local[t].src) = readPos
      /\ local[t].src = From(p + Taken(t) + 1, Len(local[t].src))
      /\ UNCHANGED <<readPos, readRes, readWasFinished, stream>>
  <2>1. o.state = "NEW" /\ FALSE \in BOOLEAN BY <1>1
  <2> QED BY <1>1, <1>2, <2>1, LastInput
<1> DEFINE q == p + local'[t].size
<1>9. q \in Nat /\ q = p + Taken(t) + o.n
  <2>1. o.n \in Nat BY <1>0, <1>6
  <2> QED BY <1>6, <2>1
<1>10. cross' \in Seq(Unit) /\ cross' = From(q + 1, Len(cross')) /\ q + Len(cross') = readPos
  <2> DEFINE r == p + Taken(t)
             L == Len(local[t].src)
             s == local[t].src
             k == o.n
  <2>1. r \in Nat /\ L \in Nat /\ k \in 0 .. L /\ s = From(r + 1, L) /\ q = r + k /\ r + L = readPos
    BY <1>0, <1>6, <1>9
  <2>2. cross' = Drop(s, k) BY <1>1 DEF Unparsed
  <2> HIDE DEF r, L, s, k, q
  <2>3. q + 1 = r + k + 1 BY <2>1
  <2>6. /\ Drop(From(r + 1, L), k) = From(r + k + 1, L - k)
        /\ Len(Drop(From(r + 1, L), k)) = L - k /\ Drop(From(r + 1, L), k) \in Seq(Unit)
    BY <2>1, RestOf
  <2>4. Drop(s, k) = From(r + k + 1, Len(Drop(s, k))) /\ Drop(s, k) \in Seq(Unit) /\ Len(Drop(s, k)) = L - k
    BY <2>1, <2>6
  <2>5. q + (L - k) = readPos BY <2>1
  <2> QED BY <2>2, <2>3, <2>4, <2>5
<1>7. ReaderTypes' /\ ReaderOk'
  <2>1. ReaderTypes BY DEF DataTypes
  <2> QED BY <1>2, <1>6, <1>10, <2>1 DEF ReaderTypes, ReaderOk
<1>8. LastBlock(t, p)'
  BY <1>6, <1>10 DEF LastBlock
<1> QED BY <1>6, <1>7, <1>8

\* Parse: the rest of the input finds no memory for the cross block.
LEMMA NoCrossBlockBlock ==
  ASSUME ControlTypes, DataTypes, ReaderOk, NEW t \in Threads, NEW p \in Nat, NEW b,
         BlockOk(t, p, b), NoCrossBlock(t)
  PROVE  /\ Typed(t)' /\ ReaderTypes' /\ ReaderOk'
         /\ BlockOk(t, p, b)' /\ LastBlock(t, p)'
<1>0. /\ DOMAIN local = Threads /\ DOMAIN local[t] = FieldNames /\ pc \in [Threads -> ThreadPcs]
      /\ local[t].size \in Nat /\ Len(local[t].src) \in Nat /\ local[t].link \in Nat
      /\ local[t].src \in Seq(Unit) /\ local[t].start \in Nat
      /\ readPos \in Nat
  BY Fields
<1>1. PICK o \in Outcomes(t) : o.state = "NEW" /\ Parsed(t, o) BY DEF NoCrossBlock
<1>2. /\ pc[t] = "parse" /\ pc'[t] = "recheck" /\ UNCHANGED <<buf, cross, crossBlock>> /\ ~crossBlock
      /\ local' = [local EXCEPT ![t].needWrite = TRUE, ![t].needCode = TRUE,
                                ![t].finish = TRUE, ![t].alloc = TRUE]
  BY <1>0 DEF NoCrossBlock
<1>3. ToParse(t, p) /\ p < LastUnit BY <1>2 DEF BlockOk
<1>4. /\ CoderType(coder'[t]) /\ o.n \in 0 .. Len(local[t].src)
      /\ coder'[t].state = "NEW" /\ coder'[t].data = <<>> /\ coder'[t].codeRes = "OK"
      /\ coder'[t].inPre = Taken(t) + o.n /\ Taken(t) + o.n >= 1
      /\ UNCHANGED <<readPos, readRes, readWasFinished, stream, progRes, interruptIndex>>
  BY <1>1, <1>3, ParsedIs
<1>6. /\ Keeps(t, {"needWrite", "needCode", "finish", "alloc"})
      /\ local'[t].needWrite = TRUE /\ local'[t].needCode = TRUE /\ local'[t].finish = TRUE
      /\ local'[t].alloc = TRUE
  BY <1>0, <1>2, Names DEF Keeps
<1>7. /\ local'[t].size = local[t].size /\ local'[t].start = local[t].start
      /\ local'[t].src = local[t].src /\ local'[t].link = local[t].link
      /\ local'[t].over = local[t].over /\ local'[t].isCross = local[t].isCross
  BY <1>6, Names DEF Keeps
<1>8. /\ Clean(local[t]) /\ p + local[t].size = readPos /\ ~local[t].isCross /\ cross = <<>>
  BY <1>2, <1>3 DEF ToParse
<1>9. /\ local[t].size = Taken(t) + Len(local[t].src) /\ Taken(t) \in Nat
      /\ local[t].link = 0 => Taken(t) = 0 /\ local[t].start = local[t].size
  BY <1>3, ToParseIs
<1>10. /\ buf'[t] \in Seq(Seq(Unit)) /\ Chained(t, p)'
  <2> DEFINE u == Len(local[t].src)
  <2>1. u \in 0 .. Len(local[t].src) BY <1>0
  <2>2. buf'[t] = IF local[t].isCross THEN <<SubSeq(local[t].src, 1, u)>> \o Drop(buf[t], 1)
                                       ELSE buf[t]
    BY <1>2, <1>8
  <2>3. local'[t].start = IF local[t].link = 0 THEN u ELSE local[t].start BY <1>0, <1>7, <1>9
  <2>4. local'[t].size = Taken(t) + u BY <1>7, <1>9
  <2> HIDE DEF u
  <2> QED BY <1>3, <2>1, <2>2, <2>3, <2>4, KeepsChain
<1>11. Typed(t)'
  <2>1. LocalType(local[t]) BY DEF DataTypes, Typed
  <2>2. LocalType(local'[t])
    <3>1. Keeps(t, {"needWrite", "needCode", "over", "alloc", "finish", "size", "start", "src", "link",
                   "isCross"}) BY <1>6 DEF Keeps
    <3>2. {local'[t].needWrite, local'[t].needCode, local'[t].over, local'[t].alloc,
          local'[t].isCross} \subseteq BOOLEAN BY <1>6, <1>7, <2>1 DEF LocalType
    <3> QED BY <1>0, <1>7, <3>1, <3>2, SameTypes
  <2> QED BY <1>4, <1>10, <2>2 DEF Typed
<1>12. ReaderTypes' /\ ReaderOk'
  <2>1. ReaderTypes BY DEF DataTypes
  <2> QED BY <1>2, <1>4, <2>1 DEF ReaderTypes, ReaderOk
<1>13. Facts(t, p)'
  <2>1. coder'[t].inPre \in 1 .. local'[t].size
    <3>1. o.n <= Len(local[t].src) /\ o.n \in Nat BY <1>0, <1>4
    <3> QED BY <1>0, <1>4, <1>7, <1>9, <3>1
  <2>2. ~local'[t].over BY <1>7, <1>8 DEF Clean
  <2> QED BY <1>4, <1>6, <1>10, <2>1, <2>2 DEF Facts
<1>14. BlockOk(t, p, b)'
  <2>1. Keeps(t, {"needWrite", "needCode", "over", "alloc", "finish", "size", "start", "src"})
    BY <1>6 DEF Keeps
  <2> QED BY <1>2, <1>3, <1>4, <1>6, <1>8, <1>13, <2>1, ToRecheck
<1>15. LastBlock(t, p)'
  <2>1. cross' = From(p + local'[t].size + 1, Len(cross'))
    <3>1. p + local'[t].size \in Nat BY <1>0, <1>7
    <3>2. Len(cross') = 0 BY <1>2, <1>8
    <3> QED BY <1>2, <1>8, <3>1, <3>2, FromZero
  <2>2. Len(cross') = 0 BY <1>2, <1>8
  <2> QED BY <1>0, <1>4, <1>7, <1>8, <2>1, <2>2 DEF LastBlock
<1> QED BY <1>11, <1>12, <1>14, <1>15

\* Parse: the block goes on with the next input.
LEMMA ParseContinueBlock ==
  ASSUME ControlTypes, DataTypes, ReaderOk, NEW t \in Threads, NEW p \in Nat, NEW b,
         BlockOk(t, p, b), ParseContinue(t)
  PROVE  /\ Typed(t)' /\ ReaderTypes' /\ ReaderOk'
         /\ BlockOk(t, p, b)' /\ LastBlock(t, p)'
<1>0. /\ DOMAIN local = Threads /\ DOMAIN local[t] = FieldNames /\ pc \in [Threads -> ThreadPcs]
      /\ local[t].size \in Nat /\ Len(local[t].src) \in Nat /\ local[t].link \in Nat
      /\ local[t].src \in Seq(Unit) /\ local[t].start \in Nat /\ DOMAIN buf = Threads
      /\ readPos \in Nat /\ BufSize \in Nat \ {0} /\ cross \in Seq(Unit)
  BY Fields
<1>1. PICK o \in Outcomes(t) : o.state = "CONTINUE" /\ Parsed(t, o) /\ MoveCross(t, o.n)
  BY DEF ParseContinue
<1>2. /\ pc[t] = "parse" /\ pc'[t] = "read" /\ cross' = <<>> /\ crossBlock' = crossBlock
      /\ ~local[t].finish
      /\ local' = [local EXCEPT ![t].needWrite = TRUE, ![t].link = @ + 1, ![t].src = <<>>]
  BY <1>0 DEF ParseContinue
<1>3. ToParse(t, p) /\ p < LastUnit BY <1>2 DEF BlockOk
<1>4. /\ CoderType(coder'[t]) /\ o.n = Len(local[t].src) /\ coder'[t].mark = FALSE
      /\ coder'[t].state = "CONTINUE" /\ coder'[t].data = <<>> /\ coder'[t].codeRes = "OK"
      /\ coder'[t].inPre = Taken(t) + o.n /\ coder'[t].end <= LastUnit
      /\ p + Taken(t) + o.n < LastUnit /\ (o.n # 0 => p + Taken(t) + o.n <= coder'[t].end)
      /\ UNCHANGED <<readPos, readRes, readWasFinished, stream, progRes, interruptIndex>>
  <2>1. coder'[t].mark = o.mark /\ ~o.mark /\ coder'[t].mark \in BOOLEAN
    BY <1>1, <1>3, ParsedIs DEF CoderType
  <2> QED BY <1>1, <1>3, <2>1, ParsedIs
<1>6. /\ Keeps(t, {"needWrite", "link", "src"})
      /\ local'[t].needWrite = TRUE /\ local'[t].link = local[t].link + 1 /\ local'[t].src = <<>>
  BY <1>0, <1>2, Names DEF Keeps
<1>7. /\ local'[t].size = local[t].size /\ local'[t].start = local[t].start
      /\ local'[t].finish = local[t].finish /\ local'[t].alloc = local[t].alloc
      /\ local'[t].needCode = local[t].needCode
      /\ local'[t].over = local[t].over /\ local'[t].isCross = local[t].isCross
  BY <1>6, Names DEF Keeps
<1>8. /\ Clean(local[t]) /\ p + local[t].size = readPos
      /\ IF local[t].isCross THEN local[t].link = 0 /\ local[t].src = cross /\ cross # <<>>
                             ELSE Len(local[t].src) = BufSize
  BY <1>2, <1>3 DEF ToParse
<1>9. /\ local[t].size = Taken(t) + Len(local[t].src) /\ Taken(t) \in Nat
      /\ local[t].link = 0 => Taken(t) = 0 /\ local[t].start = local[t].size
  BY <1>3, ToParseIs
<1>16. Len(local[t].src) >= 1
  <2>1. CASE local[t].isCross
    <3>1. Len(local[t].src) # 0 BY <1>0, <1>8, <2>1, EmptySeq
    <3> QED BY <1>0, <3>1
  <2>2. CASE ~local[t].isCross BY <1>0, <1>8, <2>2
  <2> QED BY <2>1, <2>2
<1>17. local[t].link > 0 => Len(local[t].src) = BufSize BY <1>8
<1>10. /\ buf'[t] \in Seq(Seq(Unit))
       /\ FullChain(buf'[t], local'[t].link, p, local'[t].start, local'[t].size)
  <2> DEFINE u == Len(local[t].src)
  <2>1. u \in 0 .. Len(local[t].src) /\ u >= 1 /\ (local[t].link > 0 => u = BufSize)
    BY <1>0, <1>16, <1>17
  <2>2. buf'[t] = IF local[t].isCross THEN <<SubSeq(local[t].src, 1, u)>> \o Drop(buf[t], 1)
                                       ELSE buf[t]
    BY <1>0, <1>1, <1>4 DEF MoveCross
  <2>3. local'[t].start = IF local[t].link = 0 THEN u ELSE local[t].start BY <1>0, <1>7, <1>9
  <2>4. local'[t].size = Taken(t) + u BY <1>7, <1>9
  <2>5. u = Len(local[t].src) OBVIOUS
  <2> HIDE DEF u
  <2>6. /\ buf'[t] \in Seq(Seq(Unit))
        /\ FullChain(buf'[t], local[t].link + 1, p, local'[t].start, local'[t].size)
    BY <1>3, <2>1, <2>2, <2>3, <2>4, <2>5, KeepsChain
  <2> QED BY <1>6, <2>6
<1>11. Typed(t)'
  <2>1. LocalType(local[t]) BY DEF DataTypes, Typed
  <2>2. LocalType(local'[t])
    <3>1. Keeps(t, {"needWrite", "needCode", "over", "alloc", "finish", "size", "start", "src", "link",
                   "isCross"}) BY <1>6 DEF Keeps
    <3>2. {local'[t].needWrite, local'[t].needCode, local'[t].over, local'[t].alloc,
          local'[t].isCross} \subseteq BOOLEAN BY <1>6, <1>7, <2>1 DEF LocalType
    <3>3. local'[t].size \in Nat /\ local'[t].start \in Nat /\ local'[t].link \in Nat
          /\ local'[t].src \in Seq(Unit) BY <1>0, <1>6, <1>7
    <3> QED BY <3>1, <3>2, <3>3, SameTypes
  <2> QED BY <1>4, <1>10, <2>2 DEF Typed
<1>12. ReaderTypes' /\ ReaderOk'
  <2>1. ReaderTypes BY DEF DataTypes
  <2> QED BY <1>2, <1>4, <2>1 DEF ReaderTypes, ReaderOk
<1>13. Parsing(t, p, local[t].size)'
  <2>1. local'[t].size = Taken(t) + o.n /\ o.n >= 1 BY <1>4, <1>7, <1>9, <1>16
  <2>2. p + local'[t].size = p + Taken(t) + o.n BY <1>0, <1>4, <1>9, <2>1
  <2>3. LastUnit' = LastUnit BY <1>4 DEF LastUnit
  <2>4. /\ coder'[t].inPre = local'[t].size /\ p + local'[t].size <= coder'[t].end
        /\ p + local'[t].size < LastUnit /\ coder'[t].end <= LastUnit
    <3>1. o.n # 0 BY <2>1
    <3> QED BY <1>4, <2>1, <2>2, <3>1
  <2> QED BY <1>4, <1>6, <1>10, <2>3, <2>4 DEF Parsing
<1>14. BlockOk(t, p, b)'
  <2>1. local'[t].link > 0 /\ local'[t].link # 0 BY <1>0, <1>6
  <2>2. Clean(local'[t])
    <3>1. /\ local'[t].thr = local[t].thr /\ local'[t].toStream = local[t].toStream
          /\ local'[t].canRecode = local[t].canRecode /\ local'[t].codeRes = local[t].codeRes
          /\ local'[t].res = local[t].res /\ local'[t].interrupted = local[t].interrupted
          /\ local'[t].needContinue = local[t].needContinue
      BY <1>6, Names DEF Keeps
    <3> QED BY <1>7, <1>8, <3>1 DEF Clean
  <2>4. p + local'[t].size = readPos' BY <1>4, <1>7, <1>8
  <2>3. ReadOn(t, p)' BY <1>2, <1>6, <1>7, <1>13, <2>1, <2>2, <2>4 DEF ReadOn
  <2> QED BY <1>2, <1>3, <1>4, <2>1, <2>3 DEF BlockOk, LastUnit, WorkPcs, WriterPcs
<1>15. LastBlock(t, p)'
  BY <1>2 DEF LastBlock, WorkPcs, WriterPcs
<1> QED BY <1>11, <1>12, <1>14, <1>15

\* A buffer of the list is replaced, or added behind the last one.
Replaced(B, k, s) == SubSeq(B, 1, k) \o <<s>> \o Drop(B, k + 1)

-----------------------------------------------------------------------------
(* Reading *)

\* A buffer of a thread's list is filled again, or a new one is added.
LEMMA ReplaceBuffer ==
  ASSUME NEW B \in Seq(Seq(Unit)), NEW k \in Nat, k <= Len(B), NEW s \in Seq(Unit)
  PROVE  /\ Replaced(B, k, s) \in Seq(Seq(Unit)) /\ Len(Replaced(B, k, s)) \in Nat
         /\ k < Len(Replaced(B, k, s)) /\ Replaced(B, k, s)[k + 1] = s
         /\ \A i \in 1 .. k : Replaced(B, k, s)[i] = B[i]
<1> DEFINE a == SubSeq(B, 1, k)
           e == <<s>>
           d == Drop(B, k + 1)
           x == a \o e
           y == x \o d
<1>0. Len(B) \in Nat /\ k \in 0 .. Len(B) BY LenProperties
<1>1. a \in Seq(Seq(Unit)) /\ Len(a) = k /\ \A i \in 1 .. k : a[i] = B[i]
  BY <1>0, SubSeqProperties
<1>2. e \in Seq(Seq(Unit)) /\ Len(e) = 1 /\ e[1] = s OBVIOUS
<1>3. d \in Seq(Seq(Unit))
  <2>1. CASE k = Len(B)
    <3>1. SubSeq(B, Len(B) + 2, Len(B)) = <<>> BY <1>0, SubSeqProperties
    <3>2. k + 1 + 1 = Len(B) + 2 BY <1>0, <2>1
    <3> QED BY <3>1, <3>2 DEF Drop
  <2>2. CASE k < Len(B)
    <3>1. k + 1 + 1 \in 1 .. Len(B) + 1 BY <1>0, <2>2
    <3>2. SubSeq(B, k + 1 + 1, Len(B)) \in Seq(Seq(Unit)) BY <1>0, <3>1, SubSeqProperties
    <3> QED BY <3>2 DEF Drop
  <2> QED BY <1>0, <2>1, <2>2
<1>4. Len(d) \in Nat BY <1>3, LenProperties
<1>9. Replaced(B, k, s) = y BY DEF Replaced
<1> HIDE DEF a, e, d
<1>5. /\ x \in Seq(Seq(Unit)) /\ Len(x) = k + 1
      /\ \A i \in 1 .. k + 1 : x[i] = IF i <= k THEN a[i] ELSE e[i - k]
  <2>1. /\ x \in Seq(Seq(Unit)) /\ Len(x) = Len(a) + Len(e)
        /\ \A i \in 1 .. Len(a) + Len(e) : x[i] = IF i <= Len(a) THEN a[i] ELSE e[i - Len(a)]
    BY <1>1, <1>2, ConcatProperties
  <2> HIDE DEF x
  <2>2. Len(a) = k /\ Len(e) = 1 BY <1>1, <1>2
  <2> QED BY <2>1, <2>2
<1> HIDE DEF x
<1>6. x[k + 1] = s
  <2>1. k + 1 \in 1 .. k + 1 /\ ~(k + 1 <= k) /\ (k + 1) - k = 1 OBVIOUS
  <2>2. x[k + 1] = IF k + 1 <= k THEN a[k + 1] ELSE e[(k + 1) - k] BY <1>5, <2>1
  <2> QED BY <1>2, <2>1, <2>2
<1>7. \A i \in 1 .. k : x[i] = B[i]
  <2>1. \A i \in 1 .. k : i \in 1 .. k + 1 /\ i <= k OBVIOUS
  <2> QED BY <1>1, <1>5, <2>1
<1>8. /\ y \in Seq(Seq(Unit)) /\ Len(y) = Len(x) + Len(d)
      /\ \A i \in 1 .. Len(x) + Len(d) : y[i] = IF i <= Len(x) THEN x[i] ELSE d[i - Len(x)]
  BY <1>3, <1>5, ConcatProperties
<1> HIDE DEF y
<1>10. \A i \in 1 .. k + 1 : y[i] = x[i]
  <2>1. \A i \in 1 .. k + 1 : i \in 1 .. Len(x) + Len(d) /\ i <= Len(x) BY <1>4, <1>5
  <2> QED BY <1>8, <2>1
<1>11. k + 1 \in 1 .. k + 1 /\ \A i \in 1 .. k : i \in 1 .. k + 1 OBVIOUS
<1>12. y[k + 1] = s /\ \A i \in 1 .. k : y[i] = B[i] BY <1>6, <1>7, <1>10, <1>11
<1>13. Len(y) \in Nat /\ k < Len(y) BY <1>4, <1>5, <1>8
<1> QED BY <1>8, <1>9, <1>12, <1>13

\* A buffer is read from the stream.
LEMMA ReadStreamBlock ==
  ASSUME ControlTypes, DataTypes, ReaderOk, NEW t \in Threads, NEW p \in Nat, NEW b,
         BlockOk(t, p, b), ReadStream(t)
  PROVE  /\ Typed(t)' /\ ReaderTypes' /\ ReaderOk'
         /\ BlockOk(t, p, b)' /\ LastBlock(t, p)'
<1>0. /\ DOMAIN local = Threads /\ DOMAIN local[t] = FieldNames /\ pc \in [Threads -> ThreadPcs]
      /\ local[t].size \in Nat /\ Len(local[t].src) \in Nat /\ local[t].link \in Nat
      /\ local[t].start \in Nat /\ DOMAIN buf = Threads /\ buf[t] \in Seq(Seq(Unit))
      /\ readPos \in Nat /\ BufSize \in Nat \ {0} /\ Len(buf[t]) \in Nat /\ cross \in Seq(Unit)
  BY Fields
<1>1. PICK r \in Reads :
        LET src  == From(readPos + 1, r[1])
            last == r[1] # BufSize \/ r[2] # "OK"
        IN
        /\ readPos' = readPos + r[1]
        /\ readRes' = IF r[2] = "OK" THEN readRes ELSE r[2]
        /\ readWasFinished' = (readWasFinished \/ last)
        /\ buf' = [buf EXCEPT ![t] = SubSeq(@, 1, local[t].link) \o <<src>>
                                       \o Drop(@, local[t].link + 1)]
        /\ local' = [local EXCEPT ![t].src = src, ![t].isCross = FALSE,
                                  ![t].finish = last,
                                  ![t].size = @ + r[1],
                                  ![t].start = IF local[t].link = 0 THEN r[1] ELSE @]
        /\ pc' = [pc EXCEPT ![t] = IF r[1] = 0 /\ ~local[t].isCross THEN "parse"
                                   ELSE "readCheck"]
  BY DEF ReadStream
<1> DEFINE n == r[1]
           src == From(readPos + 1, n)
           last == n # BufSize \/ r[2] # "OK"
<1>2. /\ pc[t] = "read" /\ pc'[t] \in {"parse", "readCheck"}
      /\ ~(local[t].link = 0 /\ cross # <<>>)
      /\ UNCHANGED <<coder, cross, crossBlock, stream>>
  BY <1>0, <1>1 DEF ReadStream, mainVars
<1>3. stream.size \in Nat /\ readPos <= stream.size
  <2>1. stream \in Streams BY DEF DataTypes, MainTypes
  <2> QED BY <2>1, StreamIs DEF ReaderOk
<1>4. /\ n \in Nat /\ n <= BufSize /\ n <= stream.size - readPos
      /\ r[2] \in {"OK", "READ"}
      /\ r[2] = "OK" => n = BufSize \/ n = stream.size - readPos
  <2>1. Minimum(BufSize, stream.size - readPos) \in Nat
        /\ Minimum(BufSize, stream.size - readPos) \in {BufSize, stream.size - readPos}
        /\ Minimum(BufSize, stream.size - readPos) <= BufSize
        /\ Minimum(BufSize, stream.size - readPos) <= stream.size - readPos
    BY <1>0, <1>3 DEF Minimum
  <2>2. r = <<Minimum(BufSize, stream.size - readPos), "OK">>
        \/ r \in (0 .. Minimum(BufSize, stream.size - readPos)) \X {"READ"}
    BY DEF Reads
  <2>3. CASE r = <<Minimum(BufSize, stream.size - readPos), "OK">> BY <2>1, <2>3
  <2>4. CASE r \in (0 .. Minimum(BufSize, stream.size - readPos)) \X {"READ"}
    <3>1. n \in 0 .. Minimum(BufSize, stream.size - readPos) /\ r[2] = "READ" BY <2>4
    <3> QED BY <1>0, <1>3, <2>1, <3>1
  <2> QED BY <2>2, <2>3, <2>4
<1>5. src \in Seq(Unit) /\ Len(src) = n /\ (src = <<>> <=> n = 0)
  <2>1. readPos + 1 \in Unit BY <1>0 DEF Unit
  <2> QED BY <1>4, <2>1, FromIs
<1>6. /\ Keeps(t, {"src", "isCross", "finish", "size", "start"})
      /\ local'[t].src = src /\ local'[t].isCross = FALSE /\ local'[t].finish = last
      /\ local'[t].size = local[t].size + n
      /\ local'[t].start = IF local[t].link = 0 THEN n ELSE local[t].start
  <2>1. local' = [local EXCEPT ![t].src = src, ![t].isCross = FALSE,
                                  ![t].finish = last,
                                  ![t].size = @ + n,
                                  ![t].start = IF local[t].link = 0 THEN n ELSE @]
    BY <1>1
  <2> HIDE DEF src, last, n
  <2> QED BY <1>0, <2>1, Names DEF Keeps
<1>7. /\ readPos' = readPos + n /\ readRes' = IF r[2] = "OK" THEN readRes ELSE r[2]
      /\ readWasFinished' = (readWasFinished \/ last)
      /\ buf'[t] = SubSeq(buf[t], 1, local[t].link) \o <<src>> \o Drop(buf[t], local[t].link + 1)
  BY <1>0, <1>1
<1> HIDE DEF src, last
<1>8. /\ p < LastUnit /\ cross = <<>> /\ Clean(local[t]) /\ p + local[t].size = readPos
      /\ local[t].link = 0 => Fresh(t, p)
      /\ local[t].link # 0 => ReadOn(t, p)
  <2>1. p < LastUnit /\ (local[t].link = 0 => Fresh(t, p)) /\ (local[t].link # 0 => ReadOn(t, p))
    BY <1>2 DEF BlockOk
  <2>2. CASE local[t].link = 0
    <3>1. Fresh(t, p) BY <2>1, <2>2
    <3>2. cross = <<>> BY <1>2, <2>2
    <3>3. Len(cross) = 0 /\ local[t].size = 0 /\ p + Len(cross) = readPos BY <3>1, <3>2 DEF Fresh, InputFrom
    <3>4. p + local[t].size = readPos BY <3>3
    <3> QED BY <2>1, <2>2, <3>1, <3>2, <3>4 DEF Fresh
  <2>3. CASE local[t].link # 0
    <3>1. ReadOn(t, p) BY <2>1, <2>3
    <3> QED BY <2>1, <2>3, <3>1 DEF ReadOn
  <2> QED BY <2>2, <2>3
<1>9. local[t].link # 0 => Parsing(t, p, local[t].size) /\ local[t].link <= Len(buf[t])
  <2> SUFFICES ASSUME local[t].link # 0 PROVE Parsing(t, p, local[t].size) /\ local[t].link <= Len(buf[t])
    OBVIOUS
  <2>1. Parsing(t, p, local[t].size) BY <1>8 DEF ReadOn
  <2> QED BY <2>1 DEF Parsing, FullChain, Chain
<1>10. /\ buf'[t] \in Seq(Seq(Unit)) /\ Len(buf'[t]) \in Nat /\ local[t].link < Len(buf'[t])
       /\ buf'[t][local[t].link + 1] = src
       /\ \A i \in 1 .. local[t].link : buf'[t][i] = buf[t][i]
  <2> DEFINE B == buf[t]
             k == local[t].link
             C == buf'[t]
  <2>1. B \in Seq(Seq(Unit)) /\ k \in Nat /\ k <= Len(B) BY <1>0, <1>9
  <2>3. C = Replaced(B, k, src) BY <1>7 DEF Replaced
  <2> HIDE DEF B, k, C
  <2>4. /\ Replaced(B, k, src) \in Seq(Seq(Unit)) /\ Len(Replaced(B, k, src)) \in Nat
        /\ k < Len(Replaced(B, k, src)) /\ Replaced(B, k, src)[k + 1] = src
        /\ \A i \in 1 .. k : Replaced(B, k, src)[i] = B[i]
    BY <1>5, <2>1, ReplaceBuffer
  <2>2. /\ C \in Seq(Seq(Unit)) /\ Len(C) \in Nat /\ k < Len(C) /\ C[k + 1] = src
        /\ \A i \in 1 .. k : C[i] = B[i]
    BY <2>3, <2>4
  <2> QED BY <2>2 DEF B, k, C
<1>11. local'[t].link = local[t].link /\ local'[t].needWrite = local[t].needWrite
       /\ Clean(local'[t])
  <2>1. /\ local'[t].thr = local[t].thr /\ local'[t].toStream = local[t].toStream
        /\ local'[t].canRecode = local[t].canRecode /\ local'[t].codeRes = local[t].codeRes
        /\ local'[t].res = local[t].res /\ local'[t].interrupted = local[t].interrupted
        /\ local'[t].needContinue = local[t].needContinue /\ local'[t].needCode = local[t].needCode
        /\ local'[t].over = local[t].over /\ local'[t].alloc = local[t].alloc
    BY <1>6, Names DEF Keeps
  <2>2. Clean(local'[t]) BY <1>8, <2>1 DEF Clean
  <2> QED BY <1>6, <2>2, Names DEF Keeps
<1>12. Typed(t)'
  <2>1. LocalType(local[t]) /\ CoderType(coder[t]) BY DEF DataTypes, Typed
  <2>2. LocalType(local'[t])
    <3>1. Keeps(t, {"needWrite", "needCode", "over", "alloc", "finish", "size", "start", "src", "link",
                   "isCross"}) BY <1>6 DEF Keeps
    <3>4. local'[t].needCode = local[t].needCode /\ local'[t].over = local[t].over
          /\ local'[t].alloc = local[t].alloc BY <1>6, Names DEF Keeps
    <3>2. {local'[t].needWrite, local'[t].needCode, local'[t].over, local'[t].alloc,
          local'[t].isCross} \subseteq BOOLEAN BY <1>6, <1>11, <2>1, <3>4 DEF LocalType
    <3>3. local'[t].size \in Nat /\ local'[t].start \in Nat /\ local'[t].link \in Nat
          /\ local'[t].src \in Seq(Unit) BY <1>0, <1>4, <1>5, <1>6, <1>11
    <3> QED BY <3>1, <3>2, <3>3, SameTypes
  <2> QED BY <1>2, <1>10, <2>1, <2>2 DEF Typed
<1>13. last => readPos' = stream.size \/ readRes' # "OK"
  <2>1. CASE r[2] = "OK"
    <3>1. last => n = stream.size - readPos BY <1>4, <2>1 DEF last
    <3> QED BY <1>0, <1>3, <1>4, <1>7, <3>1
  <2>2. CASE r[2] = "READ" BY <1>7, <2>2
  <2> QED BY <1>4, <2>1, <2>2
<1>14. ReaderTypes' /\ ReaderOk'
  <2>1. ReaderTypes BY DEF DataTypes
  <2>2. readPos' \in Nat /\ readRes' \in {"OK", "READ"} BY <1>0, <1>4, <1>7, <2>1 DEF ReaderTypes
  <2>3. readPos' <= stream.size BY <1>0, <1>3, <1>4, <1>7
  <2>4. readWasFinished => readPos' = stream.size \/ readRes' # "OK"
    <3>1. readWasFinished => readPos = stream.size \/ readRes # "OK" BY DEF ReaderOk
    <3>2. readPos = stream.size => readPos' = stream.size BY <1>0, <1>3, <1>4, <1>7
    <3>3. readRes # "OK" => readRes' # "OK" BY <1>4, <1>7
    <3> QED BY <3>1, <3>2, <3>3
  <2>5. readWasFinished' => readPos' = stream.size \/ readRes' # "OK" BY <1>7, <1>13, <2>4
  <2>6. cross' # <<>> => crossBlock' BY <1>2 DEF ReaderOk
  <2> QED BY <1>2, <2>1, <2>2, <2>3, <2>5, <2>6 DEF ReaderTypes, ReaderOk
<1>15. (local[t].link = 0 => coder[t] = NewCoder /\ local[t].size = 0 /\ ~local[t].needWrite)
  BY <1>8 DEF Fresh
<1>16. local[t].link # 0 => Parsing(t, p, local[t].size)
  BY <1>9
<1>17. ASSUME local[t].link # 0
       PROVE  /\ FullChain(buf'[t], local'[t].link, p, local'[t].start, local[t].size)
              /\ coder'[t].state = "CONTINUE" /\ ~coder'[t].mark /\ coder'[t].inPre = local[t].size
              /\ coder'[t].data = <<>> /\ coder'[t].codeRes = "OK"
              /\ p + local[t].size <= coder'[t].end /\ coder'[t].end <= LastUnit'
              /\ p + local[t].size < LastUnit' /\ local'[t].needWrite
  <2>1. Parsing(t, p, local[t].size) BY <1>16, <1>17
  <2>2. FullChain(buf[t], local[t].link, p, local[t].start, local[t].size) BY <2>1 DEF Parsing
  <2>3. FullChain(buf'[t], local[t].link, p, local[t].start, local[t].size)
    <3> DEFINE B == buf[t]
               C == buf'[t]
               m == local[t].link
    <3>1. m \in Nat /\ m <= Len(C) /\ \A i \in 1 .. m : C[i] = B[i] BY <1>0, <1>10
    <3>2. FullChain(B, m, p, local[t].start, local[t].size) BY <2>2
    <3> HIDE DEF B, C, m
    <3>3. FullChain(C, m, p, local[t].start, local[t].size) BY <1>0, <3>1, <3>2, ChainPrefix
    <3> QED BY <3>3 DEF B, C, m
  <2>4. local'[t].start = local[t].start BY <1>6, <1>17
  <2>5. LastUnit' = LastUnit BY <1>2 DEF LastUnit
  <2> QED BY <1>2, <1>11, <2>1, <2>3, <2>4, <2>5 DEF Parsing
<1>18. local'[t].size - Len(local'[t].src) = local[t].size BY <1>0, <1>4, <1>5, <1>6
<1>19. pc'[t] \in {"parse", "readCheck"} BY <1>2
<1>20. ToParse(t, p)'
  <2> DEFINE m == (local[t].size - Len(local[t].src))'
  <2>1. m = local[t].size /\ m >= 0 BY <1>0, <1>18
  <2>2. local'[t].src = From(p + m + 1, Len(local'[t].src)) /\ p + local'[t].size = readPos'
    <3>1. p + m + 1 = readPos + 1 BY <1>8, <2>1
    <3>2. p + (local[t].size + n) = readPos + n BY <1>0, <1>4, <1>8
    <3>3. src = From(readPos + 1, Len(src)) BY <1>5 DEF src
    <3> HIDE DEF m
    <3> QED BY <1>5, <1>6, <1>7, <3>1, <3>2, <3>3
  <2>3. IF local'[t].link = 0
        THEN coder'[t] = NewCoder /\ m = 0 /\ local'[t].start = local'[t].size /\ ~local'[t].needWrite
        ELSE Parsing(t, p, (local[t].size - Len(local[t].src)))'
    <3>1. CASE local[t].link = 0
      <4>1. local'[t].start = local'[t].size BY <1>0, <1>4, <1>6, <1>15, <3>1
      <4> QED BY <1>2, <1>11, <1>15, <2>1, <3>1, <4>1
    <3>2. CASE local[t].link # 0
      <4>1. Parsing(t, p, (local[t].size - Len(local[t].src)))'
        <5>1. m = local[t].size BY <2>1
        <5> HIDE DEF m
        <5>2. /\ FullChain(buf'[t], local'[t].link, p, local'[t].start, m)
              /\ coder'[t].state = "CONTINUE" /\ ~coder'[t].mark /\ coder'[t].inPre = m
              /\ coder'[t].data = <<>> /\ coder'[t].codeRes = "OK"
              /\ p + m <= coder'[t].end /\ coder'[t].end <= LastUnit'
              /\ p + m < LastUnit' /\ local'[t].needWrite
          BY <1>17, <3>2, <5>1
        <5> QED BY <5>2 DEF Parsing, m
      <4> QED BY <1>11, <3>2, <4>1
    <3> QED BY <3>1, <3>2
  <2>4. /\ ~local'[t].isCross
        /\ cross' = <<>> /\ local'[t].link < Len(buf'[t]) /\ buf'[t][local'[t].link + 1] = local'[t].src
        /\ Len(local'[t].src) <= BufSize /\ (~local'[t].finish => Len(local'[t].src) = BufSize)
    <3>1. ~last => n = BufSize BY DEF last
    <3> QED BY <1>2, <1>4, <1>5, <1>6, <1>8, <1>10, <1>11, <3>1
  <2>5. local'[t].finish => readPos' = stream'.size \/ readRes' # "OK" BY <1>2, <1>6, <1>13
  <2> HIDE DEF m
  <2> QED BY <1>11, <2>1, <2>2, <2>3, <2>4, <2>5 DEF ToParse, m
<1>21. BlockOk(t, p, b)'
  <2>1. pc'[t] \in {"parse", "readCheck"} BY <1>19
  <2>2. LastUnit' = LastUnit BY <1>2 DEF LastUnit
  <2> QED BY <1>8, <1>20, <2>1, <2>2 DEF BlockOk, WorkPcs, WriterPcs
<1>22. LastBlock(t, p)'
  BY <1>19 DEF LastBlock, WorkPcs, WriterPcs
<1> QED BY <1>12, <1>14, <1>21, <1>22

-----------------------------------------------------------------------------
(* The checks of the reader *)

\* The types after a look at the errors.
LEMMA CheckTypes ==
  ASSUME DataTypes, NEW t \in Threads, buf'[t] = buf[t], coder'[t] = coder[t],
         Keeps(t, {"res", "interrupted", "src"}),
         local'[t].res \in {"OK", "PROGRESS"}, local'[t].interrupted \in BOOLEAN,
         local'[t].src \in Seq(Unit)
  PROVE  Typed(t)'
<1>1. LocalType(local[t]) /\ CoderType(coder[t]) /\ buf[t] \in Seq(Seq(Unit)) BY DEF DataTypes, Typed
<1>2. /\ local'[t].block = local[t].block /\ local'[t].size = local[t].size
      /\ local'[t].codeRes = local[t].codeRes /\ local'[t].start = local[t].start
      /\ local'[t].thr = local[t].thr /\ local'[t].toStream = local[t].toStream
      /\ local'[t].canRecode = local[t].canRecode /\ local'[t].link = local[t].link
      /\ local'[t].alloc = local[t].alloc /\ local'[t].over = local[t].over
      /\ local'[t].needCode = local[t].needCode /\ local'[t].needWrite = local[t].needWrite
      /\ local'[t].isCross = local[t].isCross
  BY Names DEF Keeps
<1>3. LocalType(local'[t]) BY <1>1, <1>2 DEF LocalType
<1> QED BY <1>1, <1>3 DEF Typed

\* A check of mtProgress keeps the types.
LEMMA CheckErrorTypes ==
  ASSUME ControlTypes, DataTypes, NEW t \in Threads, NEW at, NEW ok, NEW interrupted, NEW failed,
         CheckError(t, at, ok, interrupted, failed)
  PROVE  Typed(t)'
<1>1. /\ buf'[t] = buf[t] /\ coder'[t] = coder[t] /\ Keeps(t, {"res", "interrupted"})
      /\ local'[t].res \in {"OK", "PROGRESS"} /\ local'[t].interrupted = IsInterrupted(local[t].block)
  BY CheckErrorIs
<1>2. Keeps(t, {"res", "interrupted", "src"}) BY <1>1 DEF Keeps
<1>3. local'[t].interrupted \in BOOLEAN BY <1>1 DEF IsInterrupted
<1>4. local'[t].src \in Seq(Unit)
  <2>1. local[t].src \in Seq(Unit) BY Fields
  <2> QED BY <1>1, <2>1, Names DEF Keeps
<1> QED BY <1>1, <1>2, <1>3, <1>4, CheckTypes

\* All that was read is with the thread.
LEMMA ChainedNow ==
  ASSUME ControlTypes, DataTypes, NEW t \in Threads, NEW p \in Nat, p < LastUnit, ToParse(t, p),
         ~local[t].isCross
  PROVE  Chained(t, p)
<1> DEFINE B == buf[t]
           u == Len(local[t].src)
           start == local[t].start
<1>0. u \in Nat /\ local[t].link \in Nat BY Fields
<1>1. /\ local[t].size = Taken(t) + u
      /\ local[t].link = 0 => Taken(t) = 0 /\ local[t].start = local[t].size
  BY ToParseIs
<1>2. u \in 0 .. Len(local[t].src) BY <1>0
<1>3. /\ local[t].isCross => B = <<SubSeq(local[t].src, 1, u)>> \o Drop(buf[t], 1)
      /\ ~local[t].isCross => B = buf[t]
  OBVIOUS
<1>4. /\ local[t].link = 0 => start = u
      /\ local[t].link # 0 => start = local[t].start
  BY <1>0, <1>1
<1>6. u = Len(local[t].src) OBVIOUS
<1> HIDE DEF B, u, start
<1>5. \E m \in 0 .. Len(B) : Chain(B, m, p, start, Taken(t) + u)
  BY <1>2, <1>3, <1>4, ParsedChain
<1> QED BY <1>1, <1>5 DEF Chained, B, start

\* The check for an interrupt behind a read.
LEMMA ReadCheckBlock ==
  ASSUME ControlTypes, DataTypes, ReaderOk, NEW t \in Threads, NEW p \in Nat, NEW b,
         b = local[t].block, BlockOk(t, p, b), ReadCheck(t)
  PROVE  /\ Typed(t)'
         /\ BlockOk(t, p, b)' /\ LastBlock(t, p)'
<1>0. Len(local[t].src) \in Nat /\ readPos \in Nat /\ local[t].size \in Nat BY Fields
<1>1. /\ pc[t] = "readCheck"
      /\ UNCHANGED <<cross, crossBlock, readPos, readRes, interruptIndex, stream>>
      /\ buf'[t] = buf[t] /\ coder'[t] = coder[t]
      /\ Keeps(t, {"res", "interrupted"})
      /\ local'[t].res = progRes' /\ local'[t].interrupted = IsInterrupted(b)
      /\ progRes' \in {"OK", "PROGRESS"}
      /\ pc'[t] = IF progRes' # "OK" THEN "precode"
                  ELSE IF IsInterrupted(b) THEN "recheck" ELSE "parse"
  BY CheckErrorIs DEF ReadCheck
<1>2. ToParse(t, p) /\ p < LastUnit BY <1>1 DEF BlockOk
<1>3. /\ Clean(local[t]) /\ p + local[t].size = readPos /\ ~local[t].isCross /\ cross = <<>>
  BY <1>1, <1>2 DEF ToParse
<1>4. /\ local'[t].link = local[t].link /\ local'[t].size = local[t].size
      /\ local'[t].start = local[t].start /\ local'[t].src = local[t].src
      /\ local'[t].needWrite = local[t].needWrite /\ local'[t].isCross = local[t].isCross
      /\ local'[t].finish = local[t].finish
  BY <1>1, Names DEF Keeps
<1>5. /\ ~local'[t].needCode /\ ~local'[t].over /\ ~local'[t].thr /\ ~local'[t].alloc
      /\ ~local'[t].toStream /\ local'[t].canRecode /\ local'[t].codeRes = "OK"
      /\ ~local'[t].needContinue
  BY <1>1, <1>3, Names DEF Clean, Keeps
<1>6. Typed(t)' BY CheckErrorTypes DEF ReadCheck
<1>7. CASE pc'[t] = "parse"
  <2>1. progRes' = "OK" /\ ~IsInterrupted(b) BY <1>1, <1>7
  <2>2. Clean(local'[t]) BY <1>1, <1>5, <2>1 DEF Clean
  <2>3. /\ (local[t].size - Len(local[t].src))' = local[t].size - Len(local[t].src)
        /\ pc'[t] # "readCheck" BY <1>4, <1>7
  <2>4. LastUnit' = LastUnit BY <1>1 DEF LastUnit
  <2>6. ToParse(t, p)'
    <3> DEFINE n == local[t].size - Len(local[t].src)
    <3>1. (local[t].size - Len(local[t].src))' = n BY <2>3
    <3>2. /\ n >= 0 /\ local[t].src = From(p + n + 1, Len(local[t].src)) /\ p + local[t].size = readPos
          /\ IF local[t].link = 0 THEN coder[t] = NewCoder /\ n = 0 /\ local[t].start = local[t].size
                                       /\ ~local[t].needWrite
                                  ELSE Parsing(t, p, n)
          /\ ~local[t].isCross /\ cross = <<>> /\ local[t].link < Len(buf[t])
          /\ buf[t][local[t].link + 1] = local[t].src
          /\ Len(local[t].src) <= BufSize /\ (~local[t].finish => Len(local[t].src) = BufSize)
          /\ local[t].finish => readPos = stream.size \/ readRes # "OK"
      BY <1>2, <1>3 DEF ToParse
    <3>3. /\ n >= 0 /\ local'[t].src = From(p + n + 1, Len(local'[t].src)) /\ p + local'[t].size = readPos'
          /\ local'[t].finish => readPos' = stream'.size \/ readRes' # "OK"
          /\ ~local'[t].isCross /\ cross' = <<>> /\ local'[t].link < Len(buf'[t])
          /\ buf'[t][local'[t].link + 1] = local'[t].src
          /\ Len(local'[t].src) <= BufSize /\ (~local'[t].finish => Len(local'[t].src) = BufSize)
      <4> HIDE DEF n
      <4> QED BY <1>1, <1>4, <3>2
    <3>5. IF local'[t].link = 0 THEN coder'[t] = NewCoder /\ n = 0 /\ local'[t].start = local'[t].size
                                     /\ ~local'[t].needWrite
                                ELSE Parsing(t, p, local[t].size - Len(local[t].src))'
      <4>1. CASE local[t].link = 0 BY <1>1, <1>4, <3>2, <4>1
      <4>2. CASE local[t].link # 0
        <5>1. Parsing(t, p, n) BY <3>2, <4>2
        <5>2. Parsing(t, p, local[t].size - Len(local[t].src))'
          BY <1>1, <1>4, <2>4, <5>1 DEF Parsing
        <5> QED BY <1>4, <4>2, <5>2
      <4> QED BY <4>1, <4>2
    <3> HIDE DEF n
    <3> QED BY <2>2, <2>3, <3>1, <3>3, <3>5 DEF ToParse
  <2>7. LastBlock(t, p)' BY <1>7 DEF LastBlock, WorkPcs, WriterPcs
  <2> QED BY <1>2, <1>6, <1>7, <2>4, <2>6, <2>7 DEF BlockOk, WorkPcs, WriterPcs
<1>8. CASE pc'[t] \in {"precode", "recheck"}
  <2>1. Chained(t, p) BY <1>2, <1>3, ChainedNow
  <2>2. Chained(t, p)' BY <1>1, <1>4, <2>1 DEF Chained
  <2>3. coder'[t].state = "CONTINUE" /\ coder'[t].data = <<>> /\ coder'[t].codeRes = "OK"
    BY <1>1, <1>2, ToParseIs
  <2>4. Facts(t, p)' BY <1>5, <2>2, <2>3 DEF Facts
  <2>5. Undecoded(t)' BY <1>5, <2>3 DEF Undecoded
  <2>6. Early(t, p, b)'
    BY <1>1, <1>5, <1>8, <2>4, <2>5 DEF Early, Excused, IsInterrupted
  <2>7. LastUnit' = LastUnit BY <1>1 DEF LastUnit
  <2>8. BlockOk(t, p, b)' BY <1>2, <1>8, <2>6, <2>7 DEF BlockOk, WorkPcs, WriterPcs
  <2>9. LastBlock(t, p)'
    <3>1. p + local'[t].size \in Nat /\ Len(cross') = 0 /\ cross' = <<>> BY <1>0, <1>1, <1>3, <1>4
    <3>2. cross' = From(p + local'[t].size + 1, Len(cross')) BY <3>1, FromZero
    <3>3. p + local'[t].size + Len(cross') = readPos' BY <1>0, <1>1, <1>3, <1>4, <3>1
    <3> QED BY <3>2, <3>3 DEF LastBlock
  <2> QED BY <1>6, <2>8, <2>9
<1> QED BY <1>1, <1>7, <1>8

\* The check before the first read keeps the types.
LEMMA StartCheckTypes ==
  ASSUME ControlTypes, DataTypes, NEW t \in Threads, StartCheck(t)
  PROVE  Typed(t)'
BY CheckErrorTypes DEF StartCheck

\* No memory for the next input buffer.
LEMMA NoBufferBlock ==
  ASSUME ControlTypes, DataTypes, NEW t \in Threads, NEW p \in Nat, NEW b,
         BlockOk(t, p, b), NoBuffer(t)
  PROVE  /\ Typed(t)'
         /\ BlockOk(t, p, b)' /\ LastBlock(t, p)'
<1>0. /\ DOMAIN local = Threads /\ DOMAIN local[t] = FieldNames /\ pc \in [Threads -> ThreadPcs]
      /\ readPos \in Nat /\ local[t].size \in Nat /\ local[t].link \in Nat /\ local[t].start \in Nat
      /\ Len(buf[t]) \in Nat
  BY Fields
<1>1. /\ pc[t] = "read" /\ pc'[t] = "recheck" /\ UNCHANGED <<buf, coder, cross, readPos, stream>>
      /\ local' = [local EXCEPT ![t].alloc = TRUE, ![t].finish = TRUE]
      /\ UNCHANGED <<readRes, interruptIndex, progRes>>
  BY <1>0 DEF NoBuffer, mainVars, readerVars, lockVars
<1>2. /\ Keeps(t, {"alloc", "finish"}) /\ local'[t].alloc = TRUE /\ local'[t].finish = TRUE
  BY <1>0, <1>1, Names DEF Keeps
<1>3. /\ p < LastUnit /\ Clean(local[t]) /\ Chained(t, p)
      /\ coder[t].state = "CONTINUE" /\ coder[t].data = <<>> /\ coder[t].codeRes = "OK"
      /\ cross = From(p + local[t].size + 1, Len(cross)) /\ p + local[t].size + Len(cross) = readPos
  <2>1. p < LastUnit /\ (local[t].link = 0 => Fresh(t, p)) /\ (local[t].link # 0 => ReadOn(t, p))
    BY <1>1 DEF BlockOk
  <2>2. CASE local[t].link = 0
    <3>1. Fresh(t, p) BY <2>1, <2>2
    <3>2. /\ Clean(local[t]) /\ coder[t] = NewCoder /\ local[t].size = 0 /\ local[t].start = 0
          /\ cross = From(p + 1, Len(cross)) /\ p + Len(cross) = readPos
      BY <3>1 DEF Fresh, InputFrom
    <3>3. Chained(t, p) BY <3>2, NothingChained
    <3>4. p + local[t].size = p BY <3>2
    <3> QED BY <2>1, <3>2, <3>3, <3>4, NewCoderIs
  <2>3. CASE local[t].link # 0
    <3>1. ReadOn(t, p) BY <2>1, <2>3
    <3>2. Clean(local[t]) /\ Parsing(t, p, local[t].size) /\ cross = <<>> /\ p + local[t].size = readPos
      BY <3>1 DEF ReadOn
    <3>3. Chain(buf[t], local[t].link, p, local[t].start, local[t].size) /\ local[t].link <= Len(buf[t])
      BY <3>2 DEF Parsing, FullChain, Chain
    <3>4. local[t].link \in 0 .. Len(buf[t]) BY <1>0, <3>3
    <3>5. Chained(t, p) BY <3>3, <3>4 DEF Chained
    <3>6. Len(cross) = 0 /\ p + local[t].size \in Nat BY <1>0, <3>2
    <3>7. cross = From(p + local[t].size + 1, Len(cross)) BY <3>2, <3>6, FromZero
    <3>8. p + local[t].size + Len(cross) = readPos BY <1>0, <3>2, <3>6
    <3> QED BY <2>1, <3>2, <3>5, <3>7, <3>8 DEF Parsing
  <2> QED BY <2>2, <2>3
<1>4. /\ ~local'[t].needCode /\ ~local'[t].over /\ ~local'[t].thr /\ local'[t].res = "OK"
      /\ ~local'[t].toStream /\ local'[t].canRecode /\ local'[t].codeRes = "OK"
      /\ ~local'[t].needContinue /\ local'[t].size = local[t].size /\ local'[t].start = local[t].start
      /\ local'[t].src = local[t].src /\ local'[t].link = local[t].link
      /\ local'[t].needWrite = local[t].needWrite /\ local'[t].isCross = local[t].isCross
  BY <1>2, <1>3, Names DEF Keeps, Clean
<1>5. Typed(t)'
  <2>1. LocalType(local[t]) /\ Typed(t) BY DEF DataTypes, Typed
  <2>2. Keeps(t, {"needWrite", "needCode", "over", "alloc", "finish", "size", "start", "src", "link",
                   "isCross"}) BY <1>2 DEF Keeps
  <2>5. local'[t].needCode = local[t].needCode /\ local'[t].over = local[t].over
    BY <1>2, Names DEF Keeps
  <2>3. /\ {local'[t].needWrite, local'[t].needCode, local'[t].over, local'[t].alloc,
          local'[t].isCross} \subseteq BOOLEAN
        /\ local'[t].size \in Nat /\ local'[t].start \in Nat /\ local'[t].link \in Nat
        /\ local'[t].src \in Seq(Unit)
    BY <1>2, <1>4, <2>1, <2>5 DEF LocalType
  <2>4. LocalType(local'[t]) BY <2>2, <2>3, SameTypes
  <2> QED BY <1>1, <2>1, <2>4 DEF Typed
<1>6. Chained(t, p)' BY <1>1, <1>3, <1>4 DEF Chained
<1>7. Facts(t, p)' BY <1>1, <1>2, <1>3, <1>4, <1>6 DEF Facts
<1>8. Undecoded(t)' BY <1>1, <1>3, <1>4 DEF Undecoded
<1>9. Early(t, p, b)' BY <1>1, <1>2, <1>4, <1>7, <1>8 DEF Early
<1>10. BlockOk(t, p, b)' BY <1>1, <1>3, <1>9 DEF BlockOk, LastUnit, WorkPcs, WriterPcs
<1>11. LastBlock(t, p)' BY <1>1, <1>3, <1>4 DEF LastBlock
<1> QED BY <1>5, <1>10, <1>11

\* The block's first input comes from the cross block.
LEMMA ReadCrossBlock ==
  ASSUME ControlTypes, DataTypes, ReaderOk, NEW t \in Threads, NEW p \in Nat, NEW b,
         BlockOk(t, p, b), ReadCross(t)
  PROVE  /\ Typed(t)'
         /\ BlockOk(t, p, b)' /\ LastBlock(t, p)'
<1>0. /\ DOMAIN local = Threads /\ DOMAIN local[t] = FieldNames /\ pc \in [Threads -> ThreadPcs]
      /\ readPos \in Nat /\ cross \in Seq(Unit) /\ Len(cross) \in Nat
  BY Fields
<1>1. /\ pc[t] = "read" /\ pc'[t] = "parse" /\ local[t].link = 0 /\ cross # <<>>
      /\ UNCHANGED <<buf, coder, cross, crossBlock, readPos, readRes, stream>>
      /\ local' = [local EXCEPT ![t].isCross = TRUE, ![t].src = cross,
                            ![t].size = Len(cross), ![t].start = Len(cross)]
  BY <1>0 DEF ReadCross, mainVars, readerVars
<1>2. /\ Keeps(t, {"isCross", "src", "size", "start"})
      /\ local'[t].isCross = TRUE /\ local'[t].src = cross /\ local'[t].size = Len(cross)
      /\ local'[t].start = Len(cross)
  BY <1>0, <1>1, Names DEF Keeps
<1>3. Fresh(t, p) /\ p < LastUnit BY <1>1 DEF BlockOk
<1>4. /\ Clean(local'[t]) /\ local'[t].link = 0 /\ ~local'[t].needWrite
      /\ local'[t].finish = local[t].finish
  BY <1>2, <1>3, Names DEF Keeps, Clean, Fresh
<1>5. Typed(t)'
  <2>1. LocalType(local[t]) /\ Typed(t) BY DEF DataTypes, Typed
  <2>2. Keeps(t, {"needWrite", "needCode", "over", "alloc", "finish", "size", "start", "src", "link",
                   "isCross"}) BY <1>2 DEF Keeps
  <2>5. local'[t].needCode = local[t].needCode /\ local'[t].over = local[t].over
        /\ local'[t].alloc = local[t].alloc /\ local'[t].needWrite = local[t].needWrite
        /\ local'[t].link = local[t].link
    BY <1>2, Names DEF Keeps
  <2>3. /\ {local'[t].needWrite, local'[t].needCode, local'[t].over, local'[t].alloc,
          local'[t].isCross} \subseteq BOOLEAN
        /\ local'[t].size \in Nat /\ local'[t].start \in Nat /\ local'[t].link \in Nat
        /\ local'[t].src \in Seq(Unit)
    BY <1>0, <1>2, <2>1, <2>5 DEF LocalType
  <2>4. LocalType(local'[t]) BY <2>2, <2>3, SameTypes
  <2> QED BY <1>1, <2>1, <2>4 DEF Typed
<1>6. ToParse(t, p)'
  <2> DEFINE n == (local[t].size - Len(local[t].src))'
  <2>1. n = 0 BY <1>0, <1>2
  <2>2. /\ cross = From(p + 1, Len(cross)) /\ p + Len(cross) = readPos /\ coder[t] = NewCoder
        /\ local[t].finish => readPos = stream.size \/ readRes # "OK"
    BY <1>3 DEF Fresh, InputFrom
  <2>3. /\ p + n + 1 = p + 1 /\ n >= 0 BY <2>1
  <2>4. crossBlock' BY <1>1 DEF ReaderOk
  <2> HIDE DEF n
  <2>5. /\ local'[t].src = From(p + n + 1, Len(local'[t].src)) /\ p + local'[t].size = readPos'
        /\ local'[t].src = cross' /\ cross' # <<>>
    BY <1>1, <1>2, <2>2, <2>3
  <2>6. local'[t].start = local'[t].size /\ coder'[t] = NewCoder BY <1>1, <1>2, <2>2
  <2>7. local'[t].finish => readPos' = stream'.size \/ readRes' # "OK" BY <1>1, <1>4, <2>2
  <2> QED BY <1>1, <1>2, <1>4, <2>1, <2>3, <2>4, <2>5, <2>6, <2>7 DEF ToParse, n
<1>7. BlockOk(t, p, b)' BY <1>1, <1>3, <1>6 DEF BlockOk, LastUnit, WorkPcs, WriterPcs
<1>8. LastBlock(t, p)' BY <1>1 DEF LastBlock, WorkPcs, WriterPcs
<1> QED BY <1>5, <1>7, <1>8

\* The check behind the parsing.
LEMMA RecheckBlock ==
  ASSUME ControlTypes, DataTypes, NEW t \in Threads, NEW p \in Nat, NEW b,
         b = local[t].block, BlockOk(t, p, b), LastBlock(t, p), Recheck(t)
  PROVE  /\ Typed(t)'
         /\ BlockOk(t, p, b)' /\ LastBlock(t, p)'
<1>0. /\ DOMAIN local = Threads /\ DOMAIN local[t] = FieldNames /\ pc \in [Threads -> ThreadPcs]
  BY Fields
<1>1. /\ pc[t] = "recheck" /\ pc'[t] = "precode" /\ UNCHANGED <<buf, coder, cross, readPos, stream>>
      /\ local' = [local EXCEPT ![t].res = progRes, ![t].interrupted = IsInterrupted(b), ![t].src = <<>>]
      /\ UNCHANGED <<readRes, interruptIndex, progRes>>
  BY <1>0 DEF Recheck, mainVars, readerVars, lockVars
<1>2. /\ Keeps(t, {"res", "interrupted", "src"})
      /\ local'[t].res = progRes /\ local'[t].interrupted = IsInterrupted(b) /\ local'[t].src = <<>>
  BY <1>0, <1>1, Names DEF Keeps
<1>3. Early(t, p, b) /\ p < LastUnit BY <1>1 DEF BlockOk
<1>4. /\ local'[t].needCode = local[t].needCode /\ local'[t].over = local[t].over
      /\ local'[t].thr = local[t].thr /\ local'[t].alloc = local[t].alloc
      /\ local'[t].toStream = local[t].toStream /\ local'[t].canRecode = local[t].canRecode
      /\ local'[t].codeRes = local[t].codeRes /\ local'[t].needContinue = local[t].needContinue
      /\ local'[t].size = local[t].size /\ local'[t].start = local[t].start
      /\ local'[t].finish = local[t].finish /\ local'[t].needWrite = local[t].needWrite
  BY <1>2, Names DEF Keeps
<1>5. Typed(t)'
  <2>1. progRes \in {"OK", "PROGRESS"} BY DEF DataTypes
  <2>2. <<>> \in Seq(Unit) OBVIOUS
  <2>3. IsInterrupted(b) \in BOOLEAN BY DEF IsInterrupted
  <2> QED BY <1>1, <1>2, <2>1, <2>2, <2>3, CheckTypes
<1>6. LastUnit' = LastUnit /\ StopAt' = StopAt BY <1>1 DEF LastUnit, StopAt
<1>7. Chained(t, p)' BY <1>1, <1>3, <1>4 DEF Chained, Early, Facts
<1>8. Facts(t, p)' BY <1>1, <1>3, <1>4, <1>6, <1>7 DEF Early, Facts
<1>9. Undecoded(t)' BY <1>1, <1>3, <1>4 DEF Early, Undecoded
<1>10. Early(t, p, b)'
  <2>1. ~local[t].needCode => local[t].over \/ local[t].alloc \/ IsInterrupted(b) \/ progRes # "OK"
    BY <1>1, <1>3 DEF Early
  <2>2. IsInterrupted(b)' = IsInterrupted(b) BY <1>1 DEF IsInterrupted
  <2> QED BY <1>1, <1>2, <1>4, <1>8, <1>9, <2>1, <2>2 DEF Early, Excused
<1>11. BlockOk(t, p, b)' BY <1>1, <1>3, <1>6, <1>10 DEF BlockOk, WorkPcs, WriterPcs
<1>12. LastBlock(t, p)' BY <1>1, <1>4, <1>6 DEF LastBlock
<1> QED BY <1>5, <1>11, <1>12

\* The first buffer is the one that decoding begins with.
LEMMA CursorBegins ==
  ASSUME ControlTypes, DataTypes, NEW t \in Threads, NEW p \in Nat, Chained(t, p), buf'[t] = buf[t],
         local'[t].start = local[t].start, local'[t].size = local[t].size, local'[t].link = 0,
         coder'[t].data = <<>>, coder'[t].codeRes = "OK", local'[t].codeRes = "OK", local'[t].needCode,
         coder'[t].inPre \in 1 .. local[t].size
  PROVE  Cursor(t, p)'
<1>0. local[t].size \in Nat /\ Len(buf[t]) \in Nat BY Fields
<1>1. PICK m \in 0 .. Len(buf[t]) : Chain(buf[t], m, p, local[t].start, local[t].size)
  BY DEF Chained
<1>2. local[t].size >= 1 /\ coder'[t].inPre >= 1 /\ coder'[t].inPre \in Nat BY <1>0
<1>3. m > 0 /\ buf[t][1][1] = p + 1
  <2>1. Heads(buf[t], m, p, local[t].start, local[t].size) BY <1>1 DEF Chain
  <2> QED BY <1>2, <2>1 DEF Heads
<1>4. Len(coder'[t].data) = 0 OBVIOUS
<1>5. \E i \in 0 .. Len(buf'[t]) : Chain(buf'[t], i, p, local'[t].start, local'[t].size) /\ local'[t].link < i
  BY <1>1, <1>3
<1>6. buf'[t][local'[t].link + 1][1] = p + Len(coder'[t].data) + 1
  <2>1. p + 0 + 1 = p + 1 /\ 0 + 1 = 1 OBVIOUS
  <2> QED BY <1>3, <1>4, <2>1
<1>7. Len(coder'[t].data) < local'[t].size /\ Len(coder'[t].data) < coder'[t].inPre
  BY <1>0, <1>2, <1>4
<1> QED BY <1>4, <1>5, <1>6, <1>7 DEF Cursor

-----------------------------------------------------------------------------
(* Memory, and passing canRead on *)

\* The preparation of the coder, with its allocation.
LEMMA PreCodeBlock ==
  ASSUME ControlTypes, DataTypes, NEW t \in Threads, NEW p \in Nat, NEW b,
         b = local[t].block, BlockOk(t, p, b), LastBlock(t, p), PreCode(t)
  PROVE  /\ Typed(t)'
         /\ BlockOk(t, p, b)' /\ LastBlock(t, p)'
<1>0. /\ DOMAIN local = Threads /\ DOMAIN local[t] = FieldNames /\ pc \in [Threads -> ThreadPcs]
      /\ DOMAIN coder = Threads /\ DOMAIN coder[t] = CoderNames
      /\ local[t].size \in Nat /\ coder[t].inPre \in Nat
  BY Fields
<1> DEFINE good == local[t].res = "OK" /\ ~local[t].interrupted
           f(r) == local[t].finish \/ ~good \/ r # "OK"
<1>1. /\ pc[t] = "precode" /\ UNCHANGED <<buf, cross, readPos, stream>>
      /\ UNCHANGED <<readRes, interruptIndex, progRes>>
  BY DEF PreCode, mainVars, readerVars, lockVars
<1>2. PICK r \in IF good /\ local[t].needCode THEN PreCodeResults(t) ELSE {"OK"} :
        /\ local' = [local EXCEPT ![t].codeRes = r, ![t].finish = f(r),
                                  ![t].needCode = @ /\ r = "OK", ![t].link = 0]
        /\ coder' = [coder EXCEPT ![t].codeRes = IF r = "DATA" THEN r ELSE @]
        /\ pc' = [pc EXCEPT ![t] = IF ~f(r) THEN "pass"
                                   ELSE IF good /\ local[t].needCode /\ r = "OK" THEN "code"
                                   ELSE "waitWrite"]
  BY DEF PreCode
<1> DEFINE fin == f(r)
<1>3. /\ Keeps(t, {"codeRes", "finish", "needCode", "link"})
      /\ local'[t].codeRes = r /\ local'[t].finish = fin
      /\ local'[t].needCode = (local[t].needCode /\ r = "OK") /\ local'[t].link = 0
  <2>1. local' = [local EXCEPT ![t].codeRes = r, ![t].finish = fin,
                                  ![t].needCode = @ /\ r = "OK", ![t].link = 0]
    BY <1>2
  <2> HIDE DEF fin
  <2> QED BY <1>0, <2>1, Names DEF Keeps
<1>4. /\ DOMAIN coder'[t] = CoderNames
      /\ coder'[t].codeRes = (IF r = "DATA" THEN r ELSE coder[t].codeRes)
      /\ coder'[t].state = coder[t].state /\ coder'[t].mark = coder[t].mark
      /\ coder'[t].inPre = coder[t].inPre /\ coder'[t].end = coder[t].end
      /\ coder'[t].data = coder[t].data
  BY <1>0, <1>2 DEF CoderNames, NewCoder
<1>5. Early(t, p, b) /\ p < LastUnit BY <1>1 DEF BlockOk
<1>6. /\ local'[t].res = local[t].res /\ local'[t].over = local[t].over
      /\ local'[t].thr = local[t].thr /\ local'[t].alloc = local[t].alloc
      /\ local'[t].toStream = local[t].toStream /\ local'[t].canRecode = local[t].canRecode
      /\ local'[t].interrupted = local[t].interrupted /\ local'[t].needContinue = local[t].needContinue
      /\ local'[t].size = local[t].size /\ local'[t].start = local[t].start
      /\ local'[t].src = local[t].src /\ local'[t].needWrite = local[t].needWrite
      /\ local'[t].block = local[t].block /\ local'[t].isCross = local[t].isCross
  BY <1>3, Names DEF Keeps
<1>7. /\ r \in {"OK", "DATA", "MEM"}
      /\ r # "OK" => good /\ local[t].needCode
      /\ r = "DATA" => coder[t].inPre = 0
      /\ good /\ local[t].needCode /\ r = "OK" => coder[t].inPre # 0
  BY DEF PreCodeResults
<1>8. pc'[t] = IF ~fin THEN "pass" ELSE IF good /\ local[t].needCode /\ r = "OK" THEN "code"
                                   ELSE "waitWrite"
  BY <1>0, <1>2
<1> HIDE DEF f
<1>9. /\ Facts(t, p) /\ Undecoded(t) /\ (local[t].res # "OK" => progRes # "OK")
      /\ local[t].interrupted => IsInterrupted(b)
      /\ ~local[t].needCode => Excused(local[t])
  BY <1>1, <1>5 DEF Early
<1>10. fin = (local[t].finish \/ ~good \/ r # "OK") BY DEF f
<1> HIDE DEF fin, good
<1>11. Typed(t)'
  <2>1. LocalType(local[t]) /\ CoderType(coder[t]) /\ buf[t] \in Seq(Seq(Unit)) BY DEF DataTypes, Typed
  <2>2. local'[t].needCode \in BOOLEAN BY <1>3
  <2>3. LocalType(local'[t]) BY <1>3, <1>6, <1>7, <2>1, <2>2 DEF LocalType
  <2>4. CoderType(coder'[t]) BY <1>4, <1>7, <2>1 DEF CoderType
  <2> QED BY <1>1, <2>1, <2>3, <2>4 DEF Typed
<1>12. LastUnit' = LastUnit /\ StopAt' = StopAt BY <1>1 DEF LastUnit, StopAt
<1>13. Chained(t, p) /\ Chained(t, p)' BY <1>1, <1>6, <1>9 DEF Chained, Facts
<1>14. local[t].finish => fin BY <1>10
<1>15. Facts(t, p)'
  <2>1. local'[t].needCode => local[t].needCode BY <1>3
  <2>2. local'[t].finish = fin BY <1>3
  <2>3. ~local'[t].finish => ~local[t].finish BY <1>14, <2>2
  <2>4. local[t].finish => local'[t].finish BY <1>14, <2>2
  <2> QED BY <1>1, <1>4, <1>6, <1>9, <1>12, <1>13, <2>1, <2>3, <2>4 DEF Facts
<1>16. /\ coder[t].data = <<>> /\ coder[t].codeRes = "OK" /\ ~local[t].toStream /\ ~local[t].thr
       /\ local[t].canRecode /\ ~local[t].needContinue
  BY <1>9 DEF Undecoded
<1>17. local[t].over \/ local[t].alloc \/ local[t].thr => local[t].finish BY <1>9 DEF Facts
<1>18. local[t].needCode => IF local[t].alloc THEN coder[t].inPre \in 1 .. local[t].size
                                              ELSE coder[t].inPre = local[t].size
  BY <1>9 DEF Facts
<1>19. LastBlock(t, p)'
  BY <1>1, <1>4, <1>6, <1>12 DEF LastBlock
<1>20. CASE ~fin
  <2>1. ~local[t].finish /\ good /\ r = "OK" /\ pc'[t] = "pass" BY <1>8, <1>10, <1>20
  <2>2. local[t].needCode BY <1>9, <1>17, <2>1 DEF Excused, good
  <2>3. local'[t].needCode /\ ~local'[t].finish /\ local'[t].link = 0 /\ ~local'[t].interrupted
    BY <1>3, <1>6, <1>20, <2>1, <2>2 DEF good
  <2>4. Undecoded(t)' BY <1>3, <1>4, <1>6, <1>16, <2>1 DEF Undecoded
  <2>5. local'[t].res # "OK" => progRes' # "OK" BY <1>1, <1>6, <1>9
  <2>6. Early(t, p, b)' BY <1>15, <2>1, <2>3, <2>4, <2>5 DEF Early
  <2>7. BlockOk(t, p, b)' BY <1>5, <1>12, <2>1, <2>6 DEF BlockOk, WorkPcs, WriterPcs
  <2> QED BY <1>11, <1>19, <2>7
<1>21. CASE fin
  <2>0. pc'[t] \in {"code", "waitWrite"} /\ local'[t].finish BY <1>3, <1>8, <1>21
  <2>1. coder'[t].data = <<>> /\ Len(coder'[t].data) = 0 /\ From(p + 1, 0) = <<>> BY <1>4, <1>16, FromZero
  <2>2. pc'[t] = "code" => Cursor(t, p)'
    <3> SUFFICES ASSUME pc'[t] = "code" PROVE Cursor(t, p)' OBVIOUS
    <3>1. good /\ local[t].needCode /\ r = "OK" BY <1>8, <1>21
    <3>2. coder[t].inPre # 0 BY <1>7, <3>1
    <3>3. coder'[t].inPre \in 1 .. local[t].size BY <1>0, <1>4, <1>18, <3>1, <3>2
    <3>4. local'[t].codeRes = "OK" /\ local'[t].needCode /\ coder'[t].codeRes = "OK"
      BY <1>3, <1>4, <1>16, <3>1
    <3>5. local'[t].start = local[t].start /\ local'[t].size = local[t].size /\ local'[t].link = 0
          /\ buf'[t] = buf[t]
      BY <1>1, <1>3, <1>6
    <3> QED BY <1>13, <2>1, <3>3, <3>4, <3>5, CursorBegins
  <2>3. pc'[t] = "waitWrite" => Whole(t)'
    <3> SUFFICES ASSUME pc'[t] = "waitWrite" PROVE Whole(t)' OBVIOUS
    <3>1. ~(good /\ local[t].needCode /\ r = "OK") BY <1>8, <1>21
    <3>2. ~(local'[t].needCode /\ local'[t].res = "OK" /\ ~local'[t].interrupted)
      BY <1>3, <1>6, <3>1 DEF good
    <3>3. local'[t].needCode => local'[t].codeRes = "OK" BY <1>3
    <3>4. local'[t].codeRes # "FAIL" BY <1>3, <1>7
    <3>5. local'[t].codeRes = "DATA" => (~Complete)' \/ readRes' # "OK"
      <4> SUFFICES ASSUME local'[t].codeRes = "DATA" PROVE (~Complete)' \/ readRes' # "OK" OBVIOUS
      <4>1. coder[t].inPre = 0 /\ local[t].needCode BY <1>3, <1>7
      <4>2. p >= stream.size \/ readRes # "OK" BY <1>9, <4>1 DEF Facts
      <4>3. stream.size \in Nat /\ LastUnit \in Nat
        <5>1. stream \in Streams BY DEF DataTypes, MainTypes
        <5> QED BY <5>1, StreamIs DEF Unit
      <4> QED BY <1>1, <1>5, <1>12, <4>2, <4>3 DEF Complete
    <3>6. local'[t].needCode \/ Excused(local'[t]) \/ local'[t].codeRes = "MEM"
            \/ (local'[t].codeRes = "DATA" /\ coder'[t].codeRes = "DATA" /\ coder'[t].inPre = 0 /\ local'[t].size = 0)
      <4>0. local[t].alloc \/ Excused(local[t]) => Excused(local'[t])
        BY <1>6 DEF Excused
      <4>1. CASE ~local[t].needCode BY <1>9, <4>0, <4>1
      <4>2. CASE local[t].needCode /\ r = "DATA"
        <5>1. CASE local[t].alloc BY <4>0, <5>1
        <5>2. CASE ~local[t].alloc
          <6>1. coder[t].inPre = 0 /\ local[t].size = 0 BY <1>7, <1>18, <4>2, <5>2
          <6> QED BY <1>3, <1>4, <1>6, <4>2, <6>1
        <5> QED BY <5>1, <5>2
      <4>3. CASE r = "MEM" BY <1>3, <4>3
      <4>4. CASE local[t].needCode /\ r = "OK" BY <1>3, <4>4
      <4> QED BY <1>7, <4>1, <4>2, <4>3, <4>4
    <3> QED BY <3>2, <3>3, <3>4, <3>5, <3>6 DEF Whole
  <2>4. /\ local'[t].interrupted => IsInterrupted(b)'
        /\ local'[t].res # "OK" => progRes' # "OK"
        /\ local'[t].canRecode
    BY <1>1, <1>6, <1>9, <1>16 DEF IsInterrupted
  <2>5. 0 <= coder'[t].inPre /\ 0 <= local'[t].size BY <1>0, <1>4, <1>6
  <2>6. pc'[t] \notin {"codeCheck", "interrupt", "write", "interrupt2", "register"} BY <2>0
  <2>7. Decoding(t, p, b)'
    BY <1>15, <2>0, <2>1, <2>2, <2>3, <2>4, <2>5, <2>6 DEF Decoding
  <2>8. BlockOk(t, p, b)' BY <1>5, <1>12, <2>0, <2>7 DEF BlockOk, WorkPcs, WriterPcs
  <2> QED BY <1>11, <1>19, <2>8
<1> QED BY <1>20, <1>21

\* The thread that gives canRead away decodes its block, and behind it lies the input of the next.
LEMMA PassBlock ==
  ASSUME ControlTypes, DataTypes, NEW t \in Threads, NEW p \in Nat, NEW b,
         b = local[t].block, BlockOk(t, p, b), LastBlock(t, p),
         SpawnAndPass(t) \/ PassOnly(t) \/ SpawnFails(t), pc'[t] = "code"
  PROVE  /\ Typed(t)' /\ BlockOk(t, p, b)'
         /\ local'[t].size = local[t].size
         /\ InputFrom(p + local[t].size)' /\ p + local[t].size < LastUnit /\ LastUnit' = LastUnit
<1>0. /\ DOMAIN local = Threads /\ DOMAIN local[t] = FieldNames /\ pc \in [Threads -> ThreadPcs]
      /\ local[t].size \in Nat /\ coder[t].inPre \in Nat /\ Len(cross) \in Nat /\ readPos \in Nat
  BY Fields
<1>1. /\ pc[t] = "pass" /\ UNCHANGED <<buf, coder, cross, readPos, stream>>
      /\ UNCHANGED <<readRes, interruptIndex, progRes>>
  BY DEF SpawnAndPass, PassOnly, SpawnFails, Unspawned, mainVars, lockVars
<1>2. \E n : local' = [local EXCEPT ![t].next = n]
  <2>1. CASE SpawnAndPass(t) BY <2>1 DEF SpawnAndPass
  <2>2. CASE PassOnly(t) BY <2>2 DEF PassOnly, PassRead
  <2>3. CASE SpawnFails(t)
    <3>1. CASE PassRead(t) BY <3>1 DEF PassRead
    <3>2. CASE ~PassRead(t)
      <4>1. pc' = [pc EXCEPT ![t] = "waitWrite"] BY <2>3, <3>2 DEF SpawnFails
      <4> QED BY <1>0, <4>1
    <3> QED BY <3>1, <3>2
  <2> QED BY <2>1, <2>2, <2>3
<1>3. Keeps(t, {"next"}) BY <1>0, <1>2, Names DEF Keeps
<1>4. /\ local'[t].res = local[t].res /\ local'[t].over = local[t].over
      /\ local'[t].thr = local[t].thr /\ local'[t].alloc = local[t].alloc
      /\ local'[t].toStream = local[t].toStream /\ local'[t].canRecode = local[t].canRecode
      /\ local'[t].interrupted = local[t].interrupted /\ local'[t].needContinue = local[t].needContinue
      /\ local'[t].size = local[t].size /\ local'[t].start = local[t].start
      /\ local'[t].src = local[t].src /\ local'[t].needWrite = local[t].needWrite
      /\ local'[t].block = local[t].block /\ local'[t].isCross = local[t].isCross
      /\ local'[t].codeRes = local[t].codeRes /\ local'[t].finish = local[t].finish
      /\ local'[t].needCode = local[t].needCode /\ local'[t].link = local[t].link
  BY <1>3, Names DEF Keeps
<1>5. Early(t, p, b) /\ p < LastUnit BY <1>1 DEF BlockOk
<1>6. /\ Facts(t, p) /\ Undecoded(t) /\ (local[t].res # "OK" => progRes # "OK")
      /\ local[t].needCode /\ ~local[t].finish /\ local[t].link = 0 /\ ~local[t].interrupted
  BY <1>1, <1>5 DEF Early
<1>7. Typed(t)'
  <2>1. LocalType(local[t]) /\ CoderType(coder[t]) /\ buf[t] \in Seq(Seq(Unit)) BY DEF DataTypes, Typed
  <2>2. LocalType(local'[t]) BY <1>4, <2>1 DEF LocalType
  <2> QED BY <1>1, <2>1, <2>2 DEF Typed
<1>8. LastUnit' = LastUnit /\ StopAt' = StopAt BY <1>1 DEF LastUnit, StopAt
<1>9. Chained(t, p) /\ Chained(t, p)' BY <1>1, <1>4, <1>6 DEF Chained, Facts
<1>10. Facts(t, p)' BY <1>1, <1>4, <1>6, <1>8, <1>9 DEF Facts
<1>11. /\ coder[t].state = "NEW" /\ local[t].size >= 1 /\ ~local[t].alloc /\ coder[t].inPre = local[t].size
       /\ p + local[t].size < LastUnit
  BY <1>6 DEF Facts
<1>12. /\ coder[t].data = <<>> /\ local[t].codeRes = "OK" /\ coder[t].codeRes = "OK" /\ local[t].canRecode
  BY <1>6 DEF Undecoded
<1>13. Cursor(t, p)'
  <2>1. coder'[t].inPre \in 1 .. local[t].size BY <1>0, <1>1, <1>11
  <2> QED BY <1>1, <1>4, <1>6, <1>9, <1>12, <2>1, CursorBegins
<1>14. Decoding(t, p, b)'
  <2>1. coder'[t].data = <<>> /\ Len(coder'[t].data) = 0 /\ From(p + 1, 0) = <<>> BY <1>1, <1>12, FromZero
  <2>2. 0 <= coder'[t].inPre /\ 0 <= local'[t].size BY <1>0, <1>1, <1>4
  <2>3. /\ ~local'[t].interrupted /\ local'[t].canRecode /\ local'[t].codeRes = "OK"
        /\ local'[t].needCode
        /\ local'[t].res # "OK" => progRes' # "OK"
    BY <1>1, <1>4, <1>6, <1>12
  <2>4. pc'[t] \notin {"interrupt", "waitWrite", "write", "interrupt2", "register"} OBVIOUS
  <2> QED BY <1>10, <1>13, <2>1, <2>2, <2>3, <2>4 DEF Decoding
<1>15. BlockOk(t, p, b)' BY <1>5, <1>8, <1>14 DEF BlockOk, WorkPcs, WriterPcs
<1>16. InputFrom(p + local[t].size)'
  <2> DEFINE q == p + local[t].size
  <2>1. cross = From(q + 1, Len(cross)) /\ q + Len(cross) = readPos
    BY <1>1, <1>11 DEF LastBlock
  <2>2. p + local'[t].size = q BY <1>4
  <2> HIDE DEF q
  <2>3. cross' = From(q + 1, Len(cross')) /\ q + Len(cross') = readPos' BY <1>1, <2>1
  <2> QED BY <2>2, <2>3 DEF InputFrom
<1> QED BY <1>4, <1>7, <1>8, <1>11, <1>15, <1>16

\* No second thread can be created: the block is the last.
LEMMA SpawnFailsBlock ==
  ASSUME ControlTypes, DataTypes, NEW t \in Threads, NEW p \in Nat, NEW b,
         b = local[t].block, BlockOk(t, p, b), LastBlock(t, p),
         SpawnAndPass(t) \/ PassOnly(t) \/ SpawnFails(t), pc'[t] # "code"
  PROVE  /\ Typed(t)' /\ BlockOk(t, p, b)' /\ LastBlock(t, p)'
<1>0. /\ DOMAIN local = Threads /\ DOMAIN local[t] = FieldNames /\ pc \in [Threads -> ThreadPcs]
      /\ local[t].size \in Nat /\ coder[t].inPre \in Nat /\ Len(cross) \in Nat /\ readPos \in Nat
  BY Fields
<1>1. /\ pc[t] = "pass" /\ UNCHANGED <<buf, coder, cross, readPos, stream>>
      /\ UNCHANGED <<readRes, interruptIndex, progRes>>
  BY DEF SpawnAndPass, PassOnly, SpawnFails, Unspawned, mainVars, lockVars
<1>2. local' = [local EXCEPT ![t].finish = TRUE, ![t].needCode = FALSE, ![t].thr = TRUE]
      /\ pc'[t] = "waitWrite"
  <2>1. CASE SpawnAndPass(t)
    <3>1. pc' = [pc EXCEPT ![t] = "code", ![numStarted] = IF @ = "none" THEN "waitRead" ELSE @]
      BY <2>1 DEF SpawnAndPass
    <3>2. pc'[t] = "code" BY <1>0, <3>1
    <3> QED BY <3>2
  <2>2. CASE PassOnly(t) BY <1>0, <2>2 DEF PassOnly
  <2>3. CASE SpawnFails(t) BY <1>0, <2>3 DEF SpawnFails
  <2> QED BY <2>1, <2>2, <2>3
<1>3. /\ Keeps(t, {"finish", "needCode", "thr"})
      /\ local'[t].finish = TRUE /\ local'[t].needCode = FALSE /\ local'[t].thr = TRUE
  BY <1>0, <1>2, Names DEF Keeps
<1>4. /\ local'[t].res = local[t].res /\ local'[t].over = local[t].over
      /\ local'[t].alloc = local[t].alloc
      /\ local'[t].toStream = local[t].toStream /\ local'[t].canRecode = local[t].canRecode
      /\ local'[t].interrupted = local[t].interrupted /\ local'[t].needContinue = local[t].needContinue
      /\ local'[t].size = local[t].size /\ local'[t].start = local[t].start
      /\ local'[t].src = local[t].src /\ local'[t].needWrite = local[t].needWrite
      /\ local'[t].block = local[t].block /\ local'[t].isCross = local[t].isCross
      /\ local'[t].codeRes = local[t].codeRes
      /\ local'[t].link = local[t].link
  BY <1>3, Names DEF Keeps
<1>5. Early(t, p, b) /\ p < LastUnit BY <1>1 DEF BlockOk
<1>6. /\ Facts(t, p) /\ Undecoded(t) /\ (local[t].res # "OK" => progRes # "OK")
      /\ local[t].needCode /\ ~local[t].finish /\ local[t].link = 0 /\ ~local[t].interrupted
  BY <1>1, <1>5 DEF Early
<1>7. Typed(t)'
  <2>1. LocalType(local[t]) /\ CoderType(coder[t]) /\ buf[t] \in Seq(Seq(Unit)) BY DEF DataTypes, Typed
  <2>2. LocalType(local'[t])
    <3>1. {local[t].interrupted, local[t].alloc, local[t].over, local[t].needWrite, local[t].toStream,
           local[t].isCross, local[t].canRecode} \subseteq BOOLEAN
      BY <2>1 DEF LocalType
    <3>2. {local'[t].interrupted, local'[t].alloc, local'[t].over, local'[t].thr, local'[t].needCode,
           local'[t].needWrite, local'[t].toStream, local'[t].isCross, local'[t].canRecode} \subseteq BOOLEAN
      BY <1>3, <1>4, <3>1
    <3> QED BY <1>4, <2>1, <3>2 DEF LocalType
  <2> QED BY <1>1, <2>1, <2>2 DEF Typed
<1>8. LastUnit' = LastUnit /\ StopAt' = StopAt BY <1>1 DEF LastUnit, StopAt
<1>9. Chained(t, p) /\ Chained(t, p)' BY <1>1, <1>4, <1>6 DEF Chained, Facts
<1>10. Facts(t, p)' BY <1>1, <1>3, <1>4, <1>6, <1>8, <1>9 DEF Facts
<1>12. /\ coder[t].data = <<>> /\ local[t].codeRes = "OK" /\ coder[t].codeRes = "OK" /\ local[t].canRecode
  BY <1>6 DEF Undecoded
<1>13. Whole(t)'
  <2>1. Excused(local'[t]) BY <1>3 DEF Excused
  <2>2. local'[t].codeRes = "OK" BY <1>4, <1>12
  <2> QED BY <1>3, <2>1, <2>2 DEF Whole
<1>14. Decoding(t, p, b)'
  <2>1. coder'[t].data = <<>> /\ Len(coder'[t].data) = 0 /\ From(p + 1, 0) = <<>> BY <1>1, <1>12, FromZero
  <2>2. 0 <= coder'[t].inPre /\ 0 <= local'[t].size BY <1>0, <1>1, <1>4
  <2>3. /\ ~local'[t].interrupted /\ local'[t].canRecode /\ local'[t].codeRes = "OK"
        /\ local'[t].finish
        /\ local'[t].res # "OK" => progRes' # "OK"
    BY <1>1, <1>3, <1>4, <1>6, <1>12
  <2>4. pc'[t] \notin {"code", "codeCheck", "interrupt", "write", "interrupt2", "register"} BY <1>2
  <2> QED BY <1>10, <1>13, <2>1, <2>2, <2>3, <2>4 DEF Decoding
<1>15. BlockOk(t, p, b)' BY <1>2, <1>5, <1>8, <1>14 DEF BlockOk, WorkPcs, WriterPcs
<1>16. LastBlock(t, p)' BY <1>1, <1>4, <1>8 DEF LastBlock
<1> QED BY <1>7, <1>15, <1>16

-----------------------------------------------------------------------------
(* Decoding *)

\* What the decoder makes of the n units behind a, of which room belong to the block.
Yields(d, a, room, n, fin) ==
  \E g \in 0 .. room :
    /\ d.data = From(a + 1, g)
    /\ g < room => d.dec = "DATA" /\ d.res = "DATA" /\ stream.bad # 0
    /\ g = room => d.dec = "OK" /\ d.res \in {"OK", "FAIL"} /\ (d.res = "FAIL" => room < n)
    /\ g = 0 \/ Sound(a + g)

\* What decoding n units behind a with this room in the output can give.
LEMMA DecodedIs ==
  ASSUME stream \in Streams, NEW a \in Nat, NEW n \in Nat, NEW room \in 0 .. n, NEW fin \in BOOLEAN
  PROVE  Yields(Decoded(From(a + 1, n), room, fin), a, room, n, fin)
<1>0. /\ stream.bad \in Nat /\ a + 1 \in Unit /\ room \in Nat
  BY StreamIs DEF Unit
<1> DEFINE src  == From(a + 1, n)
           own  == SubSeq(src, 1, room)
           good == IF stream.bad = 0 THEN own ELSE Before(own, stream.bad)
           g    == IF stream.bad = 0 THEN room
                   ELSE IF stream.bad <= a + 1 THEN 0 ELSE Minimum(room, stream.bad - (a + 1))
           d    == Decoded(src, room, fin)
<1>1. own = From(a + 1, room) BY <1>0, FromSub
<1>2. g \in 0 .. room BY <1>0 DEF Minimum
<1>3. good = From(a + 1, g)
  <2>1. Before(From(a + 1, room), stream.bad)
          = From(a + 1, IF stream.bad <= a + 1 THEN 0 ELSE Minimum(room, stream.bad - (a + 1)))
    BY <1>0, FromBefore
  <2> QED BY <1>1, <2>1
<1>4. g = 0 \/ Sound(a + g) BY <1>0 DEF Sound, Minimum
<1>5. g < room => stream.bad # 0 BY <1>0
<1>6. Len(own) = room /\ Len(good) = g
  <2> HIDE DEF own, good, g
  <2>1. g \in Nat BY <1>0, <1>2
  <2> QED BY <1>0, <1>1, <1>3, <2>1, FromIs
<1>7. good = own <=> g = room
  <2> HIDE DEF own, good, g
  <2> QED BY <1>1, <1>3, <1>6
<1>8. own # src => room < n
  <2>1. room = n => own = src BY <1>1
  <2> HIDE DEF own, src
  <2> QED BY <1>0, <2>1
<1>9. d = IF good # own THEN [data |-> good, dec |-> "DATA", res |-> "DATA"]
          ELSE [data |-> own, dec |-> "OK", res |-> IF fin /\ own # src THEN "FAIL" ELSE "OK"]
  BY DEF Decoded
<1> HIDE DEF src, own, good, g, d
<1>10. CASE g < room
  <2>1. d.data = good /\ d.dec = "DATA" /\ d.res = "DATA" BY <1>0, <1>2, <1>7, <1>9, <1>10
  <2>2. g # room BY <1>0, <1>2, <1>10
  <2>3. Yields(d, a, room, n, fin) BY <1>2, <1>3, <1>4, <1>5, <2>1, <2>2 DEF Yields
  <2> QED BY <2>3 DEF d, src
<1>11. CASE g = room
  <2>1. d.data = own /\ d.dec = "OK" /\ d.res \in {"OK", "FAIL"} /\ (d.res = "FAIL" => own # src)
    BY <1>7, <1>9, <1>11
  <2>2. ~(g < room) BY <1>0, <1>11
  <2>3. d.res = "FAIL" => room < n BY <1>8, <2>1
  <2>4. d.data = From(a + 1, g) BY <1>1, <1>11, <2>1
  <2>5. Yields(d, a, room, n, fin) BY <1>2, <1>4, <2>1, <2>2, <2>3, <2>4 DEF Yields
  <2> QED BY <2>5 DEF d, src
<1> QED BY <1>0, <1>2, <1>10, <1>11

\* A step of the thread of the last block that keeps what lies behind it.
LEMMA WorkerLast ==
  ASSUME NEW t \in Threads, NEW p, LastBlock(t, p), pc[t] \in WorkPcs,
         local'[t].size = local[t].size, coder'[t].state = coder[t].state,
         UNCHANGED <<cross, readPos, stream>>
  PROVE  LastBlock(t, p)'
<1>1. LastUnit' = LastUnit /\ StopAt' = StopAt BY DEF LastUnit, StopAt
<1> QED BY <1>1 DEF LastBlock

\* The units that are decoded next, and how many of them belong to the block.
Portion(t) == Part(local[t].start, local[t].size, local[t].link, Len(coder[t].data))

\* How much of the block's output may still be decoded.
Room(t)    == Minimum(Portion(t), coder[t].inPre - Len(coder[t].data))

\* A step of the decoder in a block that begins behind p.
LEMMA CodeIs ==
  ASSUME ControlTypes, DataTypes, NEW t \in Threads, NEW p \in Nat, Cursor(t, p), Code(t)
  PROVE  /\ Portion(t) \in 1 .. local[t].size - Len(coder[t].data)
         /\ Room(t) \in 1 .. Portion(t) /\ Room(t) <= coder[t].inPre - Len(coder[t].data)
         /\ Room(t) # Portion(t) => Room(t) = coder[t].inPre - Len(coder[t].data)
         /\ \E m \in 0 .. Len(buf[t]) :
              /\ Chain(buf[t], m, p, local[t].start, local[t].size) /\ local[t].link < m
              /\ Len(coder[t].data) + Portion(t) < local[t].size =>
                   /\ local[t].link + 1 < m
                   /\ buf[t][local[t].link + 2][1] = p + Len(coder[t].data) + Portion(t) + 1
         /\ \E d : /\ Yields(d, p + Len(coder[t].data), Room(t), Portion(t), BlockWasFinished(t))
                   /\ coder' = [coder EXCEPT ![t].data = @ \o d.data, ![t].codeRes = d.dec]
                   /\ local' = [local EXCEPT ![t].codeRes = d.res, ![t].link = @ + 1]
                   /\ pc' = [pc EXCEPT ![t] =
                        IF d.res # "OK" THEN "interrupt"
                        ELSE IF Len(coder[t].data) + Len(d.data) \in {coder[t].inPre, local[t].size}
                             THEN "waitWrite" ELSE "codeCheck"]
<1>0. /\ local[t].size \in Nat /\ local[t].start \in Nat /\ local[t].link \in Nat
      /\ buf[t] \in Seq(Seq(Unit)) /\ Len(buf[t]) \in Nat
      /\ coder[t].inPre \in Nat /\ Len(coder[t].data) \in Nat
  BY Fields
<1> DEFINE done  == Len(coder[t].data)
           B     == buf[t]
           link  == local[t].link
           size  == local[t].size
           start == local[t].start
           inPre == coder[t].inPre
           n     == Portion(t)
           room  == Room(t)
           fin   == BlockWasFinished(t)
<1>1. PICK m \in 0 .. Len(B) : Chain(B, m, p, start, size) /\ link < m
  BY DEF Cursor
<1>2. B[link + 1][1] = p + done + 1 /\ (link = 0 <=> done = 0) /\ done < size /\ done < inPre
  BY DEF Cursor
<1>3. n = Part(start, size, link, done) BY DEF Portion
<1>4. room = Minimum(n, inPre - done) BY DEF Room
<1>5. /\ n \in 1 .. size - done
      /\ SubSeq(B[link + 1], 1, n) = From(p + done + 1, n)
      /\ done + n < size => link + 1 < m /\ B[link + 2][1] = p + done + n + 1
  <2>1. m \in Nat BY <1>0
  <2>2. B \in Seq(Seq(Unit)) /\ start \in Nat /\ size \in Nat /\ link \in Nat /\ done \in Nat BY <1>0
  <2>3. Chain(B, m, p, start, size) /\ link < m BY <1>1
  <2>4. B[link + 1][1] = p + done + 1 /\ (link = 0 <=> done = 0) /\ done < size BY <1>2
  <2> HIDE DEF B, link, size, start, n, done
  <2>5. Reached(B, m, p, start, size, link, done) BY <2>3, <2>4 DEF Reached
  <2>6. Takes(B, m, p, size, link, done, n) BY <1>3, <2>1, <2>2, <2>5, ChainCode
  <2> QED BY <2>6 DEF Takes
<1>6. room \in 1 .. n /\ room <= inPre - done /\ (room # n => room = inPre - done)
  <2>1. inPre \in Nat /\ done \in Nat /\ size \in Nat BY <1>0
  <2> HIDE DEF n, room, inPre, done, size
  <2> QED BY <1>2, <1>4, <1>5, <2>1 DEF Minimum
<1> DEFINE d == Decoded(SubSeq(B[link + 1], 1, n), room, fin)
<1>7. Yields(d, p + done, room, n, fin)
  <2>1. stream \in Streams BY DEF DataTypes, MainTypes
  <2>2. fin \in BOOLEAN
    <3>1. CoderType(coder[t]) BY DEF DataTypes, Typed
    <3> QED BY <3>1 DEF BlockWasFinished, CoderType
  <2>3. p + done \in Nat /\ n \in Nat /\ room \in 0 .. n /\ size \in Nat /\ done \in Nat BY <1>0, <1>5, <1>6
  <2> HIDE DEF n, room, fin, done
  <2>4. Yields(Decoded(From((p + done) + 1, n), room, fin), p + done, room, n, fin)
    BY <2>1, <2>2, <2>3, DecodedIs
  <2> QED BY <1>5, <2>4
<1>8. /\ coder' = [coder EXCEPT ![t].data = @ \o d.data, ![t].codeRes = d.dec]
      /\ local' = [local EXCEPT ![t].codeRes = d.res, ![t].link = @ + 1]
      /\ pc' = [pc EXCEPT ![t] =
                  IF d.res # "OK" THEN "interrupt"
                  ELSE IF done + Len(d.data) \in {inPre, size} THEN "waitWrite" ELSE "codeCheck"]
  <2>1. d = Decoded(SubSeq(buf[t][local[t].link + 1], 1,
                IF local[t].link = 0 THEN local[t].start ELSE Minimum(BufSize, local[t].size - Len(coder[t].data))),
              Minimum(IF local[t].link = 0 THEN local[t].start ELSE Minimum(BufSize, local[t].size - Len(coder[t].data)),
                coder[t].inPre - Len(coder[t].data)), BlockWasFinished(t))
    BY DEF Portion, Room, Part
  <2> HIDE DEF d
  <2> QED BY <2>1 DEF Code
<1> HIDE DEF d
<1> QED BY <1>1, <1>5, <1>6, <1>7, <1>8

\* One portion of a block is decoded.
LEMMA CodeBlock ==
  ASSUME ControlTypes, DataTypes, NEW t \in Threads, NEW p \in Nat, NEW b,
         BlockOk(t, p, b), Code(t)
  PROVE  /\ Typed(t)' /\ BlockOk(t, p, b)' /\ (LastBlock(t, p) => LastBlock(t, p)')
         /\ local'[t].size = local[t].size /\ local'[t].block = local[t].block
         /\ pc'[t] = "waitWrite" \/ pc'[t] = "codeCheck" \/ pc'[t] = "interrupt"
<1>0. /\ DOMAIN local = Threads /\ DOMAIN local[t] = FieldNames /\ pc \in [Threads -> ThreadPcs]
      /\ DOMAIN coder = Threads /\ DOMAIN coder[t] = CoderNames
      /\ local[t].size \in Nat /\ coder[t].inPre \in Nat /\ local[t].link \in Nat
      /\ coder[t].data \in Seq(Unit) /\ Len(coder[t].data) \in Nat
  BY Fields
<1>1. /\ pc[t] = "code" /\ UNCHANGED <<buf, cross, readPos, stream, readRes, interruptIndex, progRes>>
      /\ UNCHANGED wasInterrupted
  BY DEF Code, mainVars, readerVars, lockVars, writerVars
<1>2. Decoding(t, p, b) /\ p < LastUnit BY <1>1 DEF BlockOk, WorkPcs
<1>3. Cursor(t, p) BY <1>1, <1>2 DEF Decoding
<1> DEFINE done == Len(coder[t].data)
           n    == Portion(t)
           room == Room(t)
<1>4. PICK d : /\ Yields(d, p + done, room, n, BlockWasFinished(t))
               /\ coder' = [coder EXCEPT ![t].data = @ \o d.data, ![t].codeRes = d.dec]
               /\ local' = [local EXCEPT ![t].codeRes = d.res, ![t].link = @ + 1]
               /\ pc' = [pc EXCEPT ![t] =
                    IF d.res # "OK" THEN "interrupt"
                    ELSE IF done + Len(d.data) \in {coder[t].inPre, local[t].size}
                         THEN "waitWrite" ELSE "codeCheck"]
  BY <1>3, CodeIs
<1>5. /\ n \in 1 .. local[t].size - done /\ room \in 1 .. n /\ room <= coder[t].inPre - done
      /\ room # n => room = coder[t].inPre - done
  BY <1>3, CodeIs
<1>6. PICK m \in 0 .. Len(buf[t]) :
        /\ Chain(buf[t], m, p, local[t].start, local[t].size)
        /\ done + n < local[t].size => local[t].link + 1 < m
                                       /\ buf[t][local[t].link + 2][1] = p + done + n + 1
  BY <1>3, CodeIs
<1> HIDE DEF n, room
<1>7. PICK g \in 0 .. room :
        /\ d.data = From((p + done) + 1, g)
        /\ g < room => d.dec = "DATA" /\ d.res = "DATA" /\ stream.bad # 0
        /\ g = room => d.dec = "OK" /\ d.res \in {"OK", "FAIL"} /\ (d.res = "FAIL" => room < n)
        /\ g = 0 \/ Sound((p + done) + g)
  BY <1>4 DEF Yields
<1>8. g \in Nat /\ n \in Nat /\ room \in Nat /\ done \in Nat /\ room <= n BY <1>0, <1>5, <1>7
<1>9. /\ Keeps(t, {"codeRes", "link"}) /\ local'[t].codeRes = d.res /\ local'[t].link = local[t].link + 1
      /\ DOMAIN coder'[t] = CoderNames
      /\ coder'[t].data = coder[t].data \o d.data /\ coder'[t].codeRes = d.dec
      /\ coder'[t].state = coder[t].state /\ coder'[t].mark = coder[t].mark
      /\ coder'[t].inPre = coder[t].inPre /\ coder'[t].end = coder[t].end
  BY <1>0, <1>4, Names DEF Keeps, CoderNames, NewCoder
<1>10. /\ local'[t].res = local[t].res /\ local'[t].over = local[t].over
      /\ local'[t].thr = local[t].thr /\ local'[t].alloc = local[t].alloc
      /\ local'[t].toStream = local[t].toStream /\ local'[t].canRecode = local[t].canRecode
      /\ local'[t].interrupted = local[t].interrupted /\ local'[t].needContinue = local[t].needContinue
      /\ local'[t].size = local[t].size /\ local'[t].start = local[t].start
      /\ local'[t].src = local[t].src /\ local'[t].needWrite = local[t].needWrite
      /\ local'[t].block = local[t].block /\ local'[t].isCross = local[t].isCross
      /\ local'[t].finish = local[t].finish /\ local'[t].needCode = local[t].needCode
  BY <1>9, Names DEF Keeps
<1>11. /\ Facts(t, p) /\ coder[t].data = From(p + 1, done)
       /\ done <= coder[t].inPre /\ done <= local[t].size
       /\ coder[t].data = <<>> \/ (local[t].needCode /\ Sound(p + done))
       /\ local[t].interrupted => IsInterrupted(b)
       /\ (local[t].res # "OK" => progRes # "OK") /\ local[t].canRecode
  BY <1>1, <1>2 DEF Decoding
<1>12. /\ (local[t].link = 0 <=> done = 0) /\ done < local[t].size /\ done < coder[t].inPre
       /\ local[t].needCode /\ local[t].codeRes = "OK"
  BY <1>3 DEF Cursor
<1>13. (d.dec = "OK" \/ d.dec = "DATA") /\ d.res \in {"OK", "FAIL", "DATA"}
       /\ (d.dec = "OK" <=> g = room) /\ (d.res = "DATA" <=> g # room)
  BY <1>7, <1>8
<1> DEFINE all == done + g
<1>14. coder'[t].data = From(p + 1, all) /\ Len(coder'[t].data) = all /\ coder'[t].data \in Seq(Unit)
       /\ Len(d.data) = g
  <2>1. p + 1 \in Unit /\ (p + 1) + done = (p + done) + 1 /\ (p + done) + 1 \in Unit
    <3>1. done \in Nat BY <1>8
    <3> HIDE DEF done
    <3> QED BY <3>1 DEF Unit
  <2>2. From(p + 1, done) \o From((p + 1) + done, g) = From(p + 1, all)
    <3> HIDE DEF done
    <3> QED BY <1>8, <2>1, FromCat
  <2>3. coder'[t].data = From(p + 1, all)
    <3> HIDE DEF done, all
    <3> QED BY <1>7, <1>9, <1>11, <2>1, <2>2
  <2>4. all \in Nat BY <1>8
  <2>5. Len(d.data) = g
    <3> HIDE DEF done
    <3> QED BY <1>7, <1>8, <2>1, FromIs
  <2> HIDE DEF all
  <2> QED BY <2>1, <2>3, <2>4, <2>5, FromIs
<1>15. all \in Nat /\ all <= coder[t].inPre /\ all <= local[t].size BY <1>0, <1>5, <1>7, <1>8
<1>16. coder'[t].data = <<>> \/ Sound(p + all)
  <2>1. CASE g = 0
    <3>1. all = done BY <1>8, <2>1
    <3>2. coder'[t].data = coder[t].data
      <4> HIDE DEF done, all
      <4> QED BY <1>11, <1>14, <3>1
    <3> HIDE DEF done, all
    <3> QED BY <1>11, <3>1, <3>2
  <2>2. CASE Sound((p + done) + g)
    <3>1. (p + done) + g = p + all BY <1>8
    <3> HIDE DEF done, all
    <3> QED BY <2>2, <3>1
  <2> QED BY <1>7, <2>1, <2>2
<1>17. Typed(t)'
  <2>1. LocalType(local[t]) /\ CoderType(coder[t]) /\ buf[t] \in Seq(Seq(Unit)) BY DEF DataTypes, Typed
  <2>2. local[t].link + 1 \in Nat BY <1>0
  <2>3. LocalType(local'[t]) BY <1>9, <1>10, <1>13, <2>1, <2>2 DEF LocalType
  <2>4. CoderType(coder'[t]) BY <1>9, <1>13, <1>14, <2>1 DEF CoderType
  <2> QED BY <1>1, <2>1, <2>3, <2>4 DEF Typed
<1>18. LastUnit' = LastUnit /\ StopAt' = StopAt BY <1>1 DEF LastUnit, StopAt
<1>19. Chained(t, p)' BY <1>1, <1>10, <1>11 DEF Chained, Facts
<1>20. Facts(t, p)' BY <1>1, <1>9, <1>10, <1>11, <1>18, <1>19 DEF Facts
<1>21. pc'[t] = IF d.res # "OK" THEN "interrupt"
                ELSE IF all \in {coder[t].inPre, local[t].size} THEN "waitWrite" ELSE "codeCheck"
  BY <1>0, <1>4, <1>14
<1>22. (local[t].alloc => coder[t].inPre \in 1 .. local[t].size)
       /\ (~local[t].alloc => coder[t].inPre = local[t].size)
  BY <1>11, <1>12 DEF Facts
<1>23. room = n \/ (g = room => all = coder[t].inPre)
  <2> SUFFICES ASSUME room # n, g = room PROVE all = coder[t].inPre OBVIOUS
  <2>1. done \in Nat /\ coder[t].inPre \in Nat /\ g = coder[t].inPre - done BY <1>0, <1>5, <1>8
  <2> HIDE DEF done
  <2> QED BY <2>1
<1>24. ASSUME pc'[t] = "codeCheck" PROVE Cursor(t, p)'
  <2>1. d.res = "OK" /\ all # coder[t].inPre /\ all # local[t].size BY <1>21, <1>24
  <2>2. g = room BY <1>13, <2>1
  <2>3. g = n BY <1>23, <2>1, <2>2
  <2>4. all < local[t].size /\ all < coder[t].inPre /\ done + n < local[t].size /\ done + n = all
    BY <1>0, <1>8, <1>15, <2>1, <2>3
  <2>5. local[t].link + 1 < m /\ buf[t][local[t].link + 2][1] = p + done + n + 1
    BY <1>6, <2>4
  <2>6. buf'[t][local'[t].link + 1][1] = p + all + 1
    <3>1. local'[t].link + 1 = local[t].link + 2 BY <1>0, <1>9
    <3>2. p + done + n + 1 = p + all + 1 BY <1>8, <2>3
    <3> HIDE DEF all, done
    <3> QED BY <1>1, <2>5, <3>1, <3>2
  <2>7. local'[t].link # 0 /\ all # 0 BY <1>0, <1>5, <1>8, <1>9, <2>2
  <2>8. \E i \in 0 .. Len(buf'[t]) : Chain(buf'[t], i, p, local'[t].start, local'[t].size) /\ local'[t].link < i
    BY <1>1, <1>6, <1>9, <1>10, <2>5
  <2>9. local'[t].needCode /\ local'[t].codeRes = "OK" /\ coder'[t].codeRes = "OK"
    BY <1>9, <1>10, <1>12, <1>13, <2>1, <2>2
  <2>10. all < local'[t].size /\ all < coder'[t].inPre BY <1>9, <1>10, <2>4
  <2> HIDE DEF all
  <2> QED BY <1>14, <2>6, <2>7, <2>8, <2>9, <2>10 DEF Cursor
<1>25. ASSUME pc'[t] # "codeCheck" PROVE Whole(t)'
  <2>1. d.res # "OK" \/ all = coder[t].inPre \/ all = local[t].size BY <1>21, <1>25
  <2>2. local'[t].codeRes = "OK" /\ ~local'[t].alloc => Len(coder'[t].data) = coder'[t].inPre
    BY <1>9, <1>10, <1>14, <1>22, <2>1
  <2>3. d.res = "FAIL" => all = coder[t].inPre /\ local[t].alloc
    <3> SUFFICES ASSUME d.res = "FAIL" PROVE all = coder[t].inPre /\ local[t].alloc OBVIOUS
    <3>1. g = room /\ room < n BY <1>7, <1>13
    <3>2. all = coder[t].inPre BY <1>8, <1>23, <3>1
    <3>3. coder[t].inPre # local[t].size BY <1>0, <1>5, <1>8, <3>1, <3>2
    <3> QED BY <1>22, <3>2, <3>3
  <2>4. local'[t].codeRes # "OK" => coder'[t].codeRes = "DATA" \/ Len(coder'[t].data) = coder'[t].inPre
    BY <1>9, <1>13, <1>14, <2>3
  <2>5. local'[t].codeRes = "FAIL" => local'[t].alloc BY <1>9, <1>10, <2>3
  <2>6. local'[t].codeRes = "DATA" => (~Complete)'
    <3>1. d.res = "DATA" => stream.bad # 0 BY <1>7, <1>8, <1>13
    <3> QED BY <1>1, <1>9, <3>1 DEF Complete
  <2> QED BY <1>10, <1>12, <2>2, <2>4, <2>5, <2>6 DEF Whole
<1>26. pc'[t] = "waitWrite" \/ pc'[t] = "codeCheck" \/ pc'[t] = "interrupt" BY <1>21
<1>27. Decoding(t, p, b)'
  <2>1. coder'[t].data = From(p + 1, Len(coder'[t].data)) /\ Len(coder'[t].data) <= coder'[t].inPre
        /\ Len(coder'[t].data) <= local'[t].size
    BY <1>9, <1>10, <1>14, <1>15
  <2>2. coder'[t].data = <<>> \/ (local'[t].needCode /\ Sound(p + Len(coder[t].data))')
    <3>1. Sound(p + Len(coder[t].data))' <=> Sound(p + all)
      <4> HIDE DEF all
      <4> QED BY <1>1, <1>14 DEF Sound
    <3> HIDE DEF all
    <3> QED BY <1>10, <1>12, <1>16, <3>1
  <2>3. local'[t].codeRes # "MEM" /\ (pc'[t] = "interrupt" => local'[t].codeRes # "OK")
        /\ local'[t].needCode
    BY <1>9, <1>10, <1>12, <1>13, <1>21
  <2>4. /\ local'[t].interrupted => IsInterrupted(b)'
        /\ (local'[t].res # "OK" => progRes' # "OK") /\ local'[t].canRecode
    BY <1>1, <1>10, <1>11 DEF IsInterrupted
  <2>5. pc'[t] \notin {"code", "write", "interrupt2", "register"} BY <1>26
  <2> HIDE DEF all
  <2> QED BY <1>20, <1>24, <1>25, <1>26, <2>1, <2>2, <2>3, <2>4, <2>5 DEF Decoding
<1>28. BlockOk(t, p, b)' BY <1>2, <1>18, <1>26, <1>27 DEF BlockOk, WorkPcs, WriterPcs
<1>29. LastBlock(t, p) => LastBlock(t, p)' BY <1>1, <1>9, <1>10, WorkerLast DEF WorkPcs
<1> QED BY <1>10, <1>17, <1>26, <1>28, <1>29

\* The check for an interrupt between two portions.
LEMMA CodeCheckBlock ==
  ASSUME ControlTypes, DataTypes, NEW t \in Threads, NEW p \in Nat, NEW b,
         b = local[t].block, BlockOk(t, p, b), CodeCheck(t)
  PROVE  /\ Typed(t)' /\ BlockOk(t, p, b)' /\ (LastBlock(t, p) => LastBlock(t, p)')
         /\ local'[t].size = local[t].size
<1>1. /\ pc[t] = "codeCheck"
      /\ UNCHANGED <<cross, crossBlock, readPos, readRes, interruptIndex, stream>>
      /\ buf'[t] = buf[t] /\ coder'[t] = coder[t]
      /\ Keeps(t, {"res", "interrupted"})
      /\ local'[t].res = progRes' /\ local'[t].interrupted = IsInterrupted(b)
      /\ pc'[t] = IF progRes' # "OK" THEN "waitWrite"
                  ELSE IF IsInterrupted(b) THEN "waitWrite" ELSE "code"
  BY CheckErrorIs DEF CodeCheck
<1>2. Typed(t)' BY CheckErrorTypes DEF CodeCheck
<1>3. Decoding(t, p, b) /\ p < LastUnit BY <1>1 DEF BlockOk, WorkPcs
<1>4. Cursor(t, p) BY <1>1, <1>3 DEF Decoding
<1>5. /\ local'[t].over = local[t].over
      /\ local'[t].thr = local[t].thr /\ local'[t].alloc = local[t].alloc
      /\ local'[t].toStream = local[t].toStream /\ local'[t].canRecode = local[t].canRecode
      /\ local'[t].needContinue = local[t].needContinue
      /\ local'[t].size = local[t].size /\ local'[t].start = local[t].start
      /\ local'[t].needWrite = local[t].needWrite /\ local'[t].codeRes = local[t].codeRes
      /\ local'[t].finish = local[t].finish /\ local'[t].needCode = local[t].needCode
      /\ local'[t].link = local[t].link
  BY <1>1, Names DEF Keeps
<1>6. LastUnit' = LastUnit /\ StopAt' = StopAt BY <1>1 DEF LastUnit, StopAt
<1>7. Facts(t, p) BY <1>3 DEF Decoding
<1>8. Chained(t, p)' BY <1>1, <1>5, <1>7 DEF Chained, Facts
<1>9. Facts(t, p)' BY <1>1, <1>5, <1>6, <1>7, <1>8 DEF Facts
<1>10. Cursor(t, p)' BY <1>1, <1>4, <1>5 DEF Cursor
<1>11. IsInterrupted(b)' = IsInterrupted(b) BY <1>1 DEF IsInterrupted
<1>12. pc'[t] = "waitWrite" => Whole(t)'
  <2>1. local[t].needCode /\ local[t].codeRes = "OK" BY <1>4 DEF Cursor
  <2>2. pc'[t] = "waitWrite" => local'[t].res # "OK" \/ local'[t].interrupted BY <1>1
  <2> QED BY <1>5, <2>1, <2>2 DEF Whole
<1>13. /\ coder[t].data = From(p + 1, Len(coder[t].data)) /\ Len(coder[t].data) <= coder[t].inPre
       /\ Len(coder[t].data) <= local[t].size
       /\ coder[t].data = <<>> \/ (local[t].needCode /\ Sound(p + Len(coder[t].data)))
       /\ local[t].canRecode /\ local[t].needCode /\ local[t].codeRes = "OK"
  BY <1>1, <1>3, <1>4 DEF Decoding, Cursor
<1>14. Sound(p + Len(coder[t].data))' <=> Sound(p + Len(coder[t].data)) BY <1>1 DEF Sound
<1>15. Decoding(t, p, b)'
  <2>1. coder'[t].data = From(p + 1, Len(coder'[t].data)) /\ Len(coder'[t].data) <= coder'[t].inPre
        /\ Len(coder'[t].data) <= local'[t].size
    BY <1>1, <1>5, <1>13
  <2>2. coder'[t].data = <<>> \/ (local'[t].needCode /\ Sound(p + Len(coder[t].data))')
    BY <1>1, <1>5, <1>13, <1>14
  <2>3. local'[t].codeRes # "MEM" /\ local'[t].needCode /\ local'[t].canRecode BY <1>5, <1>13
  <2>4. /\ local'[t].interrupted => IsInterrupted(b)'
        /\ (local'[t].res # "OK" => progRes' # "OK")
    BY <1>1, <1>11
  <2>5. pc'[t] \in {"waitWrite", "code"} BY <1>1
  <2> QED BY <1>9, <1>10, <1>12, <2>1, <2>2, <2>3, <2>4, <2>5 DEF Decoding
<1>16. BlockOk(t, p, b)' BY <1>1, <1>3, <1>6, <1>15 DEF BlockOk, WorkPcs, WriterPcs
<1>17. LastBlock(t, p) => LastBlock(t, p)' BY <1>1, <1>5, WorkerLast DEF WorkPcs
<1> QED BY <1>2, <1>5, <1>16, <1>17

\* An interrupt does not free a block that was interrupted.
LEMMA LowerKeeps ==
  ASSUME DataTypes, NEW b \in Nat, interruptIndex' = LowerIndex(b), b # 0
  PROVE  \A x \in Nat : IsInterrupted(x) => IsInterrupted(x)'
<1>1. interruptIndex \in Nat BY DEF DataTypes, Numbered
<1> QED BY <1>1 DEF LowerIndex, IsInterrupted

\* A block that failed interrupts the blocks behind it.
LEMMA CodeInterruptBlock ==
  ASSUME ControlTypes, DataTypes, NEW t \in Threads, NEW p \in Nat, NEW b \in Unit,
         b = local[t].block, BlockOk(t, p, b), CodeInterrupt(t)
  PROVE  /\ Typed(t)' /\ BlockOk(t, p, b)' /\ (LastBlock(t, p) => LastBlock(t, p)')
<1>0. pc \in [Threads -> ThreadPcs] BY Fields
<1>1. /\ pc[t] = "interrupt" /\ pc'[t] = "waitWrite"
      /\ UNCHANGED <<cross, crossBlock, readPos, readRes, stream, progRes, local, buf, coder>>
      /\ interruptIndex' = LowerIndex(b)
  BY <1>0 DEF CodeInterrupt, Interrupt, mainVars, readerVars
<1>2. Typed(t)'
  <2>1. Typed(t) BY DEF DataTypes
  <2> QED BY <1>1, <2>1 DEF Typed
<1>3. Decoding(t, p, b) /\ p < LastUnit BY <1>1 DEF BlockOk, WorkPcs
<1>6. LastUnit' = LastUnit /\ StopAt' = StopAt BY <1>1 DEF LastUnit, StopAt
<1>7. Facts(t, p) /\ Whole(t) BY <1>1, <1>3 DEF Decoding
<1>8. Chained(t, p)' BY <1>1, <1>7 DEF Chained, Facts
<1>9. Facts(t, p)' BY <1>1, <1>6, <1>7, <1>8 DEF Facts
<1>10. Whole(t)'
  <2>1. Complete' = Complete BY <1>1, <1>6 DEF Complete
  <2> QED BY <1>1, <1>7, <2>1 DEF Whole, Excused
<1>11. IsInterrupted(b) => IsInterrupted(b)'
  <2>1. b \in Nat /\ b # 0 BY DEF Unit
  <2> QED BY <1>1, <2>1, LowerKeeps
<1>13. /\ coder[t].data = From(p + 1, Len(coder[t].data)) /\ Len(coder[t].data) <= coder[t].inPre
       /\ Len(coder[t].data) <= local[t].size
       /\ coder[t].data = <<>> \/ (local[t].needCode /\ Sound(p + Len(coder[t].data)))
       /\ local[t].canRecode
       /\ local[t].codeRes = "MEM" => local[t].finish
       /\ ~local[t].finish => local[t].needCode
       /\ local[t].interrupted => IsInterrupted(b)
       /\ local[t].res # "OK" => progRes # "OK"
  BY <1>1, <1>3 DEF Decoding
<1>14. Sound(p + Len(coder[t].data))' <=> Sound(p + Len(coder[t].data)) BY <1>1 DEF Sound
<1>15. Decoding(t, p, b)'
  BY <1>1, <1>9, <1>10, <1>11, <1>13, <1>14 DEF Decoding
<1>16. BlockOk(t, p, b)' BY <1>1, <1>3, <1>6, <1>15 DEF BlockOk, WorkPcs, WriterPcs
<1>17. LastBlock(t, p) => LastBlock(t, p)' BY <1>1, WorkerLast DEF WorkPcs
<1> QED BY <1>2, <1>16, <1>17
=============================================================================
