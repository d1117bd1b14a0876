------------------------- MODULE CoderThreadsProofs -------------------------
(* Proofs about the threads of a graph of coders: the binder that joins two *)
(* of them (StreamBinder), for streams and buffers of any size and any      *)
(* number of runs, and the mixer that relies on it (Mixer), for any graph,  *)
(* any number of calls and any faults.                                      *)
EXTENDS StreamBinder, Mixer, TLAPS

-----------------------------------------------------------------------------
(* The binder *)

\* Where the bytes of the stream are: those the reader got are the first ones,
\* and the buffer begins behind them and ends where the current Write ends.
StreamInv ==
  /\ got = [i \in 1 .. processedSize |-> i - 1]
  /\ wpc \in {"out", "closeSet", "closed"} => accepted = processedSize
  /\ wpc \in {"set", "lock", "return"} =>
       /\ buf = processedSize
       /\ processedSize + bufSize = accepted + wsize
       /\ bufSize <= wsize /\ wsize >= 1 /\ accepted + wsize <= Total

\* While the reader has its stream open, the two sides are in one of these
\* phases: the writer has nothing to give, it has announced a buffer, the reader
\* has taken it, it has read all of it, the writer knows that; the writer has
\* announced the end, the reader has seen it.
Waits == rpc \in {"out", "lock"} /\ waitWrite

NoData     == /\ wpc \in {"out", "set", "closeSet"} /\ Waits
             /\ ~canRead /\ canWrite = 0 /\ (wpc = "closeSet" => bufSize = 0)
             /\ (wpc = "set" => bufSize >= 1)
Announced == wpc = "lock" /\ Waits /\ canRead /\ canWrite = 0 /\ bufSize >= 1
Taken     == /\ wpc = "lock" /\ rpc \in {"out", "copy"} /\ ~waitWrite
             /\ ~canRead /\ canWrite = 0 /\ bufSize >= 1
Emptied   == /\ wpc = "lock" /\ waitWrite /\ ~canRead /\ bufSize = 0
             /\ \/ rpc = "signal" /\ canWrite = 0
                \/ rpc \in {"out", "lock"} /\ canWrite = 1
Unlocked  == wpc = "return" /\ Waits /\ ~canRead /\ canWrite = 0 /\ bufSize = 0
EndSet    == wpc = "closed" /\ Waits /\ canRead /\ canWrite = 0 /\ bufSize = 0
EndSeen   == /\ wpc = "closed" /\ rpc \in {"out", "copy"} /\ ~waitWrite
             /\ ~canRead /\ canWrite = 0 /\ bufSize = 0

PhaseInv ==
  rpc # "closed" =>
    NoData \/ Announced \/ Taken \/ Emptied \/ Unlocked \/ EndSet \/ EndSeen

BinderInv ==
  /\ BinderTypeOK
  /\ rpc \in {"lock", "copy"} => rsize >= 1
  /\ StreamInv
  /\ PhaseInv
  /\ EofIsEnd
  /\ CutIsClosed

-----------------------------------------------------------------------------
(* The bytes copied by Read continue those the reader has. *)
LEMMA Continues ==
  ASSUME NEW n \in Nat, NEW k \in Nat, NEW s, s = [i \in 1 .. n |-> i - 1]
  PROVE  s \o [i \in 1 .. k |-> n + i - 1] = [i \in 1 .. n + k |-> i - 1]
<1>. DEFINE t == [i \in 1 .. k |-> n + i - 1]
            u == [i \in 1 .. n + k |-> i - 1]
<1>1. s \in Seq(Nat) /\ Len(s) = n
  OBVIOUS
<1>2. t \in Seq(Nat) /\ Len(t) = k
  OBVIOUS
<1>3. u \in Seq(Nat) /\ Len(u) = n + k
  OBVIOUS
<1>4. s \o t \in Seq(Nat) /\ Len(s \o t) = n + k
  BY <1>1, <1>2
<1>5. \A i \in 1 .. n + k : (s \o t)[i] = u[i]
  BY <1>1, <1>2
<1>. QED
  BY <1>3, <1>4, <1>5

(* A binder that was constructed and not yet used. *)
LEMMA BinderInvInit == BinderInit => BinderInv
<1>. SUFFICES ASSUME BinderInit PROVE BinderInv
  OBVIOUS
<1>1. got = [i \in 1 .. processedSize |-> i - 1]
  BY DEF BinderInit
<1>2. /\ 0 \in 0 .. MaxRead /\ 0 \in 0 .. MaxWrite /\ 0 \in 0 .. Total
      /\ 0 \in 0 .. NumRuns /\ 0 \in 0 .. 3 /\ 0 \in Nat
  BY BinderAssumption
<1>3. got \in Seq(Nat)
  BY DEF BinderInit
<1>4. BinderTypeOK
  BY <1>2, <1>3 DEF BinderInit, BinderTypeOK
<1>. QED
  BY <1>1, <1>4 DEF BinderInit, BinderInv, StreamInv, PhaseInv, EofIsEnd, CutIsClosed

\* What Read does to the shared state when it copies k bytes.
CopyEffect(k) ==
  /\ k <= MaxRead
  /\ k = 0 <=> bufSize = 0
  /\ bufSize # 0 => Taken
  /\ bufSize = 0 => EndSeen
  /\ got' = got \o [i \in 1 .. k |-> processedSize + i - 1]
  /\ got' = [i \in 1 .. processedSize' |-> i - 1]
  /\ processedSize' = processedSize + k
  /\ buf' = buf + k
  /\ bufSize' = bufSize - k
  /\ k = 0 => eof' = TRUE
  /\ k # 0 => eof' = eof
  /\ rpc' = IF k # 0 /\ k = bufSize THEN "signal" ELSE "out"
  /\ k # 0 /\ k = bufSize => waitWrite'
  /\ ~(k # 0 /\ k = bufSize) => (waitWrite' <=> waitWrite)

(* What Read copies: no more than there is, from where the reader stopped;    *)
(* nothing only when the writer has closed.                                   *)
LEMMA Copied ==
  ASSUME BinderInv, ReadCopy
  PROVE  \E k \in 0 .. bufSize : CopyEffect(k)
<1>. DEFINE k == ReadSize
<1>1. /\ bufSize \in Nat /\ rsize \in 0 .. MaxRead /\ rsize >= 1
      /\ processedSize \in Nat /\ buf \in Nat /\ MaxRead \in Nat
  BY BinderAssumption DEF BinderInv, BinderTypeOK, ReadCopy
<1>2. k \in 0 .. bufSize /\ k <= MaxRead /\ (k = 0 <=> bufSize = 0)
  BY <1>1 DEF ReadSize
<1>3. Taken \/ EndSeen
  BY DEF BinderInv, PhaseInv, ReadCopy, NoData, Announced, Emptied, Unlocked, EndSet, Waits
<1>4. (bufSize # 0 => Taken) /\ (bufSize = 0 => EndSeen)
  BY <1>1, <1>3 DEF Taken, EndSeen
<1>5. /\ processedSize' = processedSize + k
      /\ buf' = buf + k
      /\ bufSize' = bufSize - k
      /\ rpc' = IF k # 0 /\ k = bufSize THEN "signal" ELSE "out"
      /\ k # 0 /\ k = bufSize => waitWrite'
      /\ ~(k # 0 /\ k = bufSize) => (waitWrite' <=> waitWrite)
  BY DEF ReadCopy, WholeRead
<1>6. eof' = (eof \/ k = 0) /\ eof \in BOOLEAN
  BY DEF ReadCopy, BinderInv, BinderTypeOK
<1>7. got' = got \o [i \in 1 .. k |-> buf + i - 1]
  BY DEF ReadCopy
<1>8. got = [i \in 1 .. processedSize |-> i - 1]
  BY DEF BinderInv, StreamInv
<1>. HIDE DEF k
<1>9. got' = got \o [i \in 1 .. k |-> processedSize + i - 1]
  <2>1. CASE bufSize # 0
    <3>1. buf = processedSize
      BY <1>4, <2>1 DEF BinderInv, StreamInv, Taken
    <3>. QED
      BY <1>7, <3>1
  <2>2. CASE bufSize = 0
    <3>1. \A n \in Nat : [i \in 1 .. k |-> n + i - 1] = <<>>
      BY <1>2, <2>2
    <3>. QED
      BY <1>1, <1>7, <3>1
  <2>. QED
    BY <2>1, <2>2
<1>10. got' = [i \in 1 .. processedSize' |-> i - 1]
  <2>1. k \in Nat
    BY <1>1, <1>2
  <2>2. got \o [i \in 1 .. k |-> processedSize + i - 1]
        = [i \in 1 .. processedSize + k |-> i - 1]
    BY <1>1, <1>8, <2>1, Continues
  <2>. QED
    BY <1>5, <1>9, <2>2
<1>11. (k = 0 => eof' = TRUE) /\ (k # 0 => eof' = eof)
  BY <1>6, Zenon
<1>. QED
  BY <1>2, <1>4, <1>5, <1>9, <1>10, <1>11 DEF CopyEffect

(* Bytes are neither lost nor repeated. *)
LEMMA StreamStep == BinderInv /\ [BinderNext]_binderVars => StreamInv'
<1>. SUFFICES ASSUME BinderInv, [BinderNext]_binderVars PROVE StreamInv'
  OBVIOUS
<1>1. CASE Create_ReInit
  BY <1>1, BinderAssumption DEF BinderInv, StreamInv, BinderTypeOK, Create_ReInit,
     FirstCount, binderVars, readerVars, writerVars
<1>2. CASE ReadCall
  BY <1>2, BinderAssumption DEF BinderInv, StreamInv, BinderTypeOK, ReadCall, binderVars,
     readerVars, writerVars
<1>3. CASE ReadLock
  BY <1>3, BinderAssumption DEF BinderInv, StreamInv, BinderTypeOK, ReadLock, binderVars,
     readerVars, writerVars
<1>4. CASE ReadCopy
  <2>1. PICK k \in 0 .. bufSize : CopyEffect(k)
    BY <1>4, Copied
  <2>2. UNCHANGED <<rsize, wpc, wsize, readingWasClosed, accepted, cut, canRead,
                    canWrite, runs>>
    BY <1>4 DEF ReadCopy, writerVars
  <2>. QED
    BY <2>1, <2>2, BinderAssumption
    DEF CopyEffect, BinderInv, StreamInv, BinderTypeOK, Taken, EndSeen
<1>5. CASE ReadSignal
  BY <1>5, BinderAssumption DEF BinderInv, StreamInv, BinderTypeOK, ReadSignal,
     Release, MaxCount, binderVars, readerVars, writerVars
<1>6. CASE CloseRead_CallOnce
  BY <1>6, BinderAssumption DEF BinderInv, StreamInv, BinderTypeOK,
     CloseRead_CallOnce, Release, MaxCount, CloseItems, binderVars, readerVars,
     writerVars
<1>7. CASE WriteCall
  BY <1>7, BinderAssumption DEF BinderInv, StreamInv, BinderTypeOK, WriteCall, binderVars,
     readerVars, writerVars
<1>8. CASE WriteSignal
  BY <1>8, BinderAssumption DEF BinderInv, StreamInv, BinderTypeOK, WriteSignal, binderVars,
     readerVars, writerVars
<1>9. CASE WriteLock
  BY <1>9, BinderAssumption DEF BinderInv, StreamInv, BinderTypeOK, WriteLock, binderVars,
     readerVars, writerVars
<1>10. CASE WriteReturn
  BY <1>10, BinderAssumption DEF BinderInv, StreamInv, BinderTypeOK, WriteReturn,
     CutIfNone, binderVars, readerVars, writerVars
<1>11. CASE WriteCut
  BY <1>11, BinderAssumption DEF BinderInv, StreamInv, BinderTypeOK, WriteCut, binderVars,
     readerVars, writerVars
<1>12. CASE CloseWrite
  BY <1>12, BinderAssumption DEF BinderInv, StreamInv, BinderTypeOK, CloseWrite, binderVars,
     readerVars, writerVars
<1>13. CASE CloseWriteSignal
  BY <1>13, BinderAssumption DEF BinderInv, StreamInv, BinderTypeOK, CloseWriteSignal,
     binderVars, readerVars, writerVars
<1>14. CASE UNCHANGED binderVars
  BY <1>14 DEF BinderInv, StreamInv, BinderTypeOK, binderVars, readerVars, writerVars
<1>. QED
  BY <1>1, <1>2, <1>3, <1>4, <1>5, <1>6, <1>7, <1>8, <1>9, <1>10, <1>11,
     <1>12, <1>13, <1>14 DEF BinderNext, Reader, Writer, BinderFinished

(* The two sides keep in phase. *)
LEMMA PhaseStep == BinderInv /\ [BinderNext]_binderVars => PhaseInv'
<1>. SUFFICES ASSUME BinderInv, [BinderNext]_binderVars PROVE PhaseInv'
  OBVIOUS
<1>1. CASE Create_ReInit
  BY <1>1, BinderAssumption DEF BinderInv, PhaseInv, NoData, Announced, Taken,
     Emptied, Unlocked, EndSet, EndSeen, Waits, BinderTypeOK, StreamInv,
     Create_ReInit, FirstCount, binderVars, readerVars, writerVars
<1>2. CASE ReadCall
  BY <1>2, BinderAssumption DEF BinderInv, PhaseInv, NoData, Announced, Taken,
     Emptied, Unlocked, EndSet, EndSeen, Waits, BinderTypeOK, StreamInv, ReadCall,
     binderVars, readerVars, writerVars
<1>3. CASE ReadLock
  BY <1>3, BinderAssumption DEF BinderInv, PhaseInv, NoData, Announced, Taken,
     Emptied, Unlocked, EndSet, EndSeen, Waits, BinderTypeOK, StreamInv, ReadLock,
     binderVars, readerVars, writerVars
<1>4. CASE ReadCopy
  <2>1. PICK k \in 0 .. bufSize : CopyEffect(k)
    BY <1>4, Copied
  <2>2. UNCHANGED <<rsize, wpc, wsize, readingWasClosed, accepted, cut, canRead,
                    canWrite, runs>>
    BY <1>4 DEF ReadCopy, writerVars
  <2>3. bufSize \in Nat /\ bufSize' = bufSize - k /\ (k = 0 <=> bufSize = 0)
    BY <2>1, BinderAssumption DEF CopyEffect, BinderInv, BinderTypeOK
  <2>4. CASE bufSize = 0
    <3>1. k = 0 /\ EndSeen
      BY <2>1, <2>4 DEF CopyEffect
    <3>2. bufSize' = 0 /\ rpc' = "out"
      BY <2>1, <2>4, <3>1 DEF CopyEffect
    <3>3. waitWrite' <=> waitWrite
      BY <2>1, <3>1 DEF CopyEffect
    <3>4. EndSeen'
      BY <2>2, <3>1, <3>2, <3>3 DEF EndSeen
    <3>. QED
      BY <3>4 DEF PhaseInv
  <2>5. CASE k # 0 /\ k = bufSize
    <3>1. Emptied'
      BY <2>1, <2>2, <2>3, <2>5 DEF CopyEffect, Taken, Emptied
    <3>. QED
      BY <3>1 DEF PhaseInv
  <2>6. CASE k < bufSize
    <3>1. Taken'
      BY <2>1, <2>2, <2>3, <2>6 DEF CopyEffect, Taken
    <3>. QED
      BY <3>1 DEF PhaseInv
  <2>. QED
    BY <2>1, <2>3, <2>4, <2>5, <2>6
<1>5. CASE ReadSignal
  BY <1>5, BinderAssumption DEF BinderInv, PhaseInv, NoData, Announced, Taken,
     Emptied, Unlocked, EndSet, EndSeen, Waits, BinderTypeOK, StreamInv, ReadSignal,
     Release, MaxCount, binderVars, readerVars, writerVars
<1>6. CASE CloseRead_CallOnce
  BY <1>6, BinderAssumption DEF BinderInv, PhaseInv, NoData, Announced, Taken,
     Emptied, Unlocked, EndSet, EndSeen, Waits, BinderTypeOK, StreamInv,
     CloseRead_CallOnce, Release, MaxCount, CloseItems, binderVars, readerVars,
     writerVars
<1>7. CASE WriteCall
  BY <1>7, BinderAssumption DEF BinderInv, PhaseInv, NoData, Announced, Taken,
     Emptied, Unlocked, EndSet, EndSeen, Waits, BinderTypeOK, StreamInv, WriteCall,
     binderVars, readerVars, writerVars
<1>8. CASE WriteSignal
  BY <1>8, BinderAssumption DEF BinderInv, PhaseInv, NoData, Announced, Taken,
     Emptied, Unlocked, EndSet, EndSeen, Waits, BinderTypeOK, StreamInv,
     WriteSignal, binderVars, readerVars, writerVars
<1>9. CASE WriteLock
  BY <1>9, BinderAssumption DEF BinderInv, PhaseInv, NoData, Announced, Taken,
     Emptied, Unlocked, EndSet, EndSeen, Waits, BinderTypeOK, StreamInv, WriteLock,
     binderVars, readerVars, writerVars
<1>10. CASE WriteReturn
  BY <1>10, BinderAssumption DEF BinderInv, PhaseInv, NoData, Announced, Taken,
     Emptied, Unlocked, EndSet, EndSeen, Waits, BinderTypeOK, StreamInv,
     WriteReturn, CutIfNone, binderVars, readerVars, writerVars
<1>11. CASE WriteCut
  BY <1>11, BinderAssumption DEF BinderInv, PhaseInv, NoData, Announced, Taken,
     Emptied, Unlocked, EndSet, EndSeen, Waits, BinderTypeOK, StreamInv, WriteCut,
     binderVars, readerVars, writerVars
<1>12. CASE CloseWrite
  BY <1>12, BinderAssumption DEF BinderInv, PhaseInv, NoData, Announced, Taken,
     Emptied, Unlocked, EndSet, EndSeen, Waits, BinderTypeOK, StreamInv, CloseWrite,
     binderVars, readerVars, writerVars
<1>13. CASE CloseWriteSignal
  BY <1>13, BinderAssumption DEF BinderInv, PhaseInv, NoData, Announced, Taken,
     Emptied, Unlocked, EndSet, EndSeen, Waits, BinderTypeOK, StreamInv,
     CloseWriteSignal, binderVars, readerVars, writerVars
<1>14. CASE UNCHANGED binderVars
  BY <1>14 DEF BinderInv, PhaseInv, NoData, Announced, Taken, Emptied, Unlocked,
     EndSet, EndSeen, Waits, BinderTypeOK, StreamInv, binderVars, readerVars, writerVars
<1>. QED
  BY <1>1, <1>2, <1>3, <1>4, <1>5, <1>6, <1>7, <1>8, <1>9, <1>10, <1>11,
     <1>12, <1>13, <1>14 DEF BinderNext, Reader, Writer, BinderFinished

(* The end is the writer's, the cut is the reader's. *)
LEMMA EndsStep == BinderInv /\ [BinderNext]_binderVars => (EofIsEnd /\ CutIsClosed)'
<1>. SUFFICES ASSUME BinderInv, [BinderNext]_binderVars PROVE (EofIsEnd /\ CutIsClosed)'
  OBVIOUS
<1>1. CASE Create_ReInit
  BY <1>1, BinderAssumption DEF BinderInv, EofIsEnd, CutIsClosed, PhaseInv,
     NoData, Announced, Taken, Emptied, Unlocked, EndSet, EndSeen, Waits,
     BinderTypeOK, StreamInv, Create_ReInit, FirstCount, binderVars, readerVars,
     writerVars
<1>2. CASE ReadCall
  BY <1>2, BinderAssumption DEF BinderInv, EofIsEnd, CutIsClosed, PhaseInv,
     NoData, Announced, Taken, Emptied, Unlocked, EndSet, EndSeen, Waits,
     BinderTypeOK, StreamInv, ReadCall, binderVars, readerVars, writerVars
<1>3. CASE ReadLock
  BY <1>3, BinderAssumption DEF BinderInv, EofIsEnd, CutIsClosed, PhaseInv,
     NoData, Announced, Taken, Emptied, Unlocked, EndSet, EndSeen, Waits,
     BinderTypeOK, StreamInv, ReadLock, binderVars, readerVars, writerVars
<1>4. CASE ReadCopy
  <2>1. PICK k \in 0 .. bufSize : CopyEffect(k)
    BY <1>4, Copied
  <2>2. UNCHANGED <<rsize, wpc, wsize, readingWasClosed, accepted, cut, canRead,
                    canWrite, runs>>
    BY <1>4 DEF ReadCopy, writerVars
  <2>. QED
    BY <2>1, <2>2, BinderAssumption
    DEF CopyEffect, BinderInv, BinderTypeOK, EofIsEnd, CutIsClosed, Taken, EndSeen
<1>5. CASE ReadSignal
  BY <1>5, BinderAssumption DEF BinderInv, EofIsEnd, CutIsClosed, PhaseInv,
     NoData, Announced, Taken, Emptied, Unlocked, EndSet, EndSeen, Waits,
     BinderTypeOK, StreamInv, ReadSignal, Release, MaxCount, binderVars, readerVars,
     writerVars
<1>6. CASE CloseRead_CallOnce
  BY <1>6, BinderAssumption DEF BinderInv, EofIsEnd, CutIsClosed, PhaseInv,
     NoData, Announced, Taken, Emptied, Unlocked, EndSet, EndSeen, Waits,
     BinderTypeOK, StreamInv, CloseRead_CallOnce, Release, MaxCount, CloseItems,
     binderVars, readerVars, writerVars
<1>7. CASE WriteCall
  BY <1>7, BinderAssumption DEF BinderInv, EofIsEnd, CutIsClosed, PhaseInv,
     NoData, Announced, Taken, Emptied, Unlocked, EndSet, EndSeen, Waits,
     BinderTypeOK, StreamInv, WriteCall, binderVars, readerVars, writerVars
<1>8. CASE WriteSignal
  BY <1>8, BinderAssumption DEF BinderInv, EofIsEnd, CutIsClosed, PhaseInv,
     NoData, Announced, Taken, Emptied, Unlocked, EndSet, EndSeen, Waits,
     BinderTypeOK, StreamInv, WriteSignal, binderVars, readerVars, writerVars
<1>9. CASE WriteLock
  BY <1>9, BinderAssumption DEF BinderInv, EofIsEnd, CutIsClosed, PhaseInv,
     NoData, Announced, Taken, Emptied, Unlocked, EndSet, EndSeen, Waits,
     BinderTypeOK, StreamInv, WriteLock, binderVars, readerVars, writerVars
<1>10. CASE WriteReturn
  BY <1>10, BinderAssumption DEF BinderInv, EofIsEnd, CutIsClosed, PhaseInv,
     NoData, Announced, Taken, Emptied, Unlocked, EndSet, EndSeen, Waits,
     BinderTypeOK, StreamInv, WriteReturn, CutIfNone, binderVars, readerVars, writerVars
<1>11. CASE WriteCut
  BY <1>11, BinderAssumption DEF BinderInv, EofIsEnd, CutIsClosed, PhaseInv,
     NoData, Announced, Taken, Emptied, Unlocked, EndSet, EndSeen, Waits,
     BinderTypeOK, StreamInv, WriteCut, binderVars, readerVars, writerVars
<1>12. CASE CloseWrite
  BY <1>12, BinderAssumption DEF BinderInv, EofIsEnd, CutIsClosed, PhaseInv,
     NoData, Announced, Taken, Emptied, Unlocked, EndSet, EndSeen, Waits,
     BinderTypeOK, StreamInv, CloseWrite, binderVars, readerVars, writerVars
<1>13. CASE CloseWriteSignal
  BY <1>13, BinderAssumption DEF BinderInv, EofIsEnd, CutIsClosed, PhaseInv,
     NoData, Announced, Taken, Emptied, Unlocked, EndSet, EndSeen, Waits,
     BinderTypeOK, StreamInv, CloseWriteSignal, binderVars, readerVars, writerVars
<1>14. CASE UNCHANGED binderVars
  BY <1>14 DEF BinderInv, EofIsEnd, CutIsClosed, PhaseInv, NoData, Announced, Taken,
     Emptied, Unlocked, EndSet, EndSeen, Waits, BinderTypeOK, StreamInv, binderVars,
     readerVars, writerVars
<1>. QED
  BY <1>1, <1>2, <1>3, <1>4, <1>5, <1>6, <1>7, <1>8, <1>9, <1>10, <1>11,
     <1>12, <1>13, <1>14 DEF BinderNext, Reader, Writer, BinderFinished

(* Positions and sizes stay within the stream and the writer's buffer. *)
LEMMA BinderTypeStep == BinderInv /\ [BinderNext]_binderVars => BinderTypeOK'
<1>. SUFFICES ASSUME BinderInv, [BinderNext]_binderVars PROVE BinderTypeOK'
  OBVIOUS
<1>1. CASE Create_ReInit
  <2>1. /\ 0 \in 0 .. MaxWrite /\ 0 \in 0 .. Total /\ 0 \in 0 .. 3 /\ 0 \in Nat
        /\ runs + 1 \in 0 .. NumRuns
    BY <1>1, BinderAssumption DEF Create_ReInit, BinderInv, BinderTypeOK
  <2>2. got' \in Seq(Nat)
    BY <1>1 DEF Create_ReInit
  <2>. QED
    BY <1>1, <2>1, <2>2 DEF Create_ReInit, FirstCount, BinderInv, BinderTypeOK
<1>2. CASE ReadCall
  BY <1>2, BinderAssumption DEF BinderInv, BinderTypeOK, StreamInv, ReadCall, binderVars,
     readerVars, writerVars
<1>3. CASE ReadLock
  BY <1>3, BinderAssumption DEF BinderInv, BinderTypeOK, StreamInv, ReadLock, binderVars,
     readerVars, writerVars
<1>4. CASE ReadCopy
  <2>1. PICK k \in 0 .. bufSize : CopyEffect(k)
    BY <1>4, Copied
  <2>2. UNCHANGED <<rsize, wpc, wsize, readingWasClosed, accepted, cut, canRead,
                    canWrite, runs>>
    BY <1>4 DEF ReadCopy, writerVars
  <2>3. k \in Nat /\ processedSize \in Nat /\ bufSize \in 0 .. MaxWrite
    BY BinderAssumption DEF BinderInv, BinderTypeOK
  <2>4. processedSize' \in Nat
    BY <2>1, <2>3 DEF CopyEffect
  <2>5. got' \in Seq(Nat)
    <3>1. \A n \in Nat : [i \in 1 .. n |-> i - 1] \in Seq(Nat)
      OBVIOUS
    <3>. QED
      BY <2>1, <2>4, <3>1 DEF CopyEffect
  <2>6. buf' \in 0 .. Total
    <3>1. CASE bufSize = 0
      BY <2>1, <2>3, <3>1, BinderAssumption DEF CopyEffect, BinderInv, BinderTypeOK
    <3>2. CASE bufSize # 0
      BY <2>1, <2>3, <3>2, BinderAssumption
      DEF CopyEffect, Taken, BinderInv, BinderTypeOK, StreamInv
    <3>. QED
      BY <3>1, <3>2
  <2>7. bufSize' \in 0 .. MaxWrite
    BY <2>1, <2>3, BinderAssumption DEF CopyEffect
  <2>8. waitWrite' \in BOOLEAN /\ eof' \in BOOLEAN
    BY <1>4 DEF ReadCopy
  <2>9. rpc' \in {"out", "signal"}
    BY <2>1 DEF CopyEffect
  <2>. QED
    BY <2>2, <2>4, <2>5, <2>6, <2>7, <2>8, <2>9 DEF BinderInv, BinderTypeOK
<1>5. CASE ReadSignal
  BY <1>5, BinderAssumption DEF BinderInv, BinderTypeOK, StreamInv, ReadSignal,
     Release, MaxCount, binderVars, readerVars, writerVars
<1>6. CASE CloseRead_CallOnce
  BY <1>6, BinderAssumption DEF BinderInv, BinderTypeOK, StreamInv,
     CloseRead_CallOnce, Release, MaxCount, CloseItems, binderVars, readerVars,
     writerVars
<1>7. CASE WriteCall
  BY <1>7, BinderAssumption DEF BinderInv, BinderTypeOK, StreamInv, WriteCall, binderVars,
     readerVars, writerVars
<1>8. CASE WriteSignal
  BY <1>8, BinderAssumption DEF BinderInv, BinderTypeOK, StreamInv, WriteSignal, binderVars,
     readerVars, writerVars
<1>9. CASE WriteLock
  BY <1>9, BinderAssumption DEF BinderInv, BinderTypeOK, StreamInv, WriteLock, binderVars,
     readerVars, writerVars
<1>10. CASE WriteReturn
  <2>1. accepted' \in 0 .. Total
    <3>1. /\ accepted \in Nat /\ wsize \in Nat /\ bufSize \in Nat /\ bufSize <= wsize
          /\ accepted + wsize <= Total /\ accepted <= Total /\ Total \in Nat
      BY <1>10, BinderAssumption DEF WriteReturn, BinderInv, StreamInv, BinderTypeOK
    <3>2. accepted' = accepted \/ accepted' = accepted + (wsize - bufSize)
      BY <1>10 DEF WriteReturn
    <3>. QED
      BY <3>1, <3>2
  <2>2. readingWasClosed' \in BOOLEAN /\ cut' \in BOOLEAN
    BY <1>10 DEF WriteReturn, BinderInv, BinderTypeOK
  <2>. QED
    BY <1>10, <2>1, <2>2 DEF WriteReturn, BinderInv, BinderTypeOK, readerVars
<1>11. CASE WriteCut
  BY <1>11, BinderAssumption DEF BinderInv, BinderTypeOK, StreamInv, WriteCut, binderVars,
     readerVars, writerVars
<1>12. CASE CloseWrite
  BY <1>12, BinderAssumption DEF BinderInv, BinderTypeOK, StreamInv, CloseWrite, binderVars,
     readerVars, writerVars
<1>13. CASE CloseWriteSignal
  BY <1>13, BinderAssumption DEF BinderInv, BinderTypeOK, StreamInv, CloseWriteSignal,
     binderVars, readerVars, writerVars
<1>14. CASE UNCHANGED binderVars
  BY <1>14 DEF BinderInv, BinderTypeOK, StreamInv, binderVars, readerVars, writerVars
<1>. QED
  BY <1>1, <1>2, <1>3, <1>4, <1>5, <1>6, <1>7, <1>8, <1>9, <1>10, <1>11,
     <1>12, <1>13, <1>14 DEF BinderNext, Reader, Writer, BinderFinished

(* The read in progress asked for something. *)
LEMMA AskedStep ==
  BinderInv /\ [BinderNext]_binderVars => (rpc \in {"lock", "copy"} => rsize >= 1)'
  BY BinderAssumption
  DEF BinderInv, BinderTypeOK, BinderNext, Reader, Writer, BinderFinished, Create_ReInit, ReadCall, ReadLock,
      ReadCopy, ReadSignal, CloseRead_CallOnce, WriteCall, WriteSignal, WriteLock,
      WriteReturn, WriteCut, CloseWrite, CloseWriteSignal, binderVars, readerVars, writerVars

(* The two sides of CStreamBinder stay in one of the phases above, with the   *)
(* buffer where StreamInv says, through closings and further runs.            *)
THEOREM BinderInvariant == BinderSpec => []BinderInv
<1>1. BinderInv /\ [BinderNext]_binderVars => BinderInv'
  BY BinderTypeStep, StreamStep, PhaseStep, EndsStep, AskedStep DEF BinderInv
<1>. QED
  BY BinderInvInit, <1>1, PTL DEF BinderSpec

(* The variables of CStreamBinder and of its users keep their types: _buf     *)
(* stays inside the stream, the semaphore inside its bounds.                  *)
THEOREM Typing == BinderSpec => []BinderTypeOK
<1>1. BinderInv => BinderTypeOK
  BY DEF BinderInv
<1>. QED
  BY <1>1, BinderInvariant, PTL

(* Read delivers exactly the bytes that Write reports as processed, in order. *)
THEOREM Delivery == BinderSpec => []ReaderGotWhatWriterSent
<1>1. BinderInv => ReaderGotWhatWriterSent
  <2>. SUFFICES ASSUME BinderInv PROVE ReaderGotWhatWriterSent
    OBVIOUS
  <2>1. got = [i \in 1 .. processedSize |-> i - 1] /\ processedSize \in Nat
    BY DEF BinderInv, StreamInv, BinderTypeOK
  <2>2. Len(got) = processedSize
    BY <2>1
  <2>. QED
    BY <2>1, <2>2 DEF BinderInv, StreamInv, ReaderGotWhatWriterSent
<1>. QED
  BY <1>1, BinderInvariant, PTL

(* Read copies from the buffer only while Write is blocked in the semaphore.  *)
THEOREM Lending == BinderSpec => []BufferLent
<1>1. BinderInv => BufferLent
  BY DEF BinderInv, PhaseInv, NoData, Announced, Taken, Emptied, Unlocked, EndSet, EndSeen,
         Waits, BufferLent
<1>. QED
  BY <1>1, BinderInvariant, PTL

(* Neither Read nor CloseRead_CallOnce makes ReleaseSemaphore fail.           *)
THEOREM Releasing == BinderSpec => []ReleaseNeverFails
<1>1. BinderInv => ReleaseNeverFails
  BY DEF BinderInv, PhaseInv, NoData, Announced, Taken, Emptied, Unlocked, EndSet, EndSeen,
         Waits, ReleaseNeverFails, MaxCount
<1>. QED
  BY <1>1, BinderInvariant, PTL

(* Read returns no data only after CloseWrite, and Write returns              *)
(* k_My_HRESULT_WritingWasCut only after CloseRead_CallOnce.                  *)
THEOREM Endings == BinderSpec => [](EofIsEnd /\ CutIsClosed)
<1>1. BinderInv => EofIsEnd /\ CutIsClosed
  BY DEF BinderInv
<1>. QED
  BY <1>1, BinderInvariant, PTL

-----------------------------------------------------------------------------
(* The refinement of Pipe *)

(* What the abstract pipe counts is ProcessedSize.                            *)
LEMMA GotLength == BinderInv => Len(got) = processedSize /\ processedSize \in Nat
<1>. SUFFICES ASSUME BinderInv PROVE Len(got) = processedSize /\ processedSize \in Nat
  OBVIOUS
<1>1. got = [i \in 1 .. processedSize |-> i - 1] /\ processedSize \in Nat
  BY DEF BinderInv, StreamInv, BinderTypeOK
<1>. QED
  BY <1>1

(* Read delivers bytes, or reports the end.                                   *)
LEMMA ReadCopyRefines == BinderInv /\ ReadCopy => Abstract!Deliver \/ Abstract!End
<1>. SUFFICES ASSUME BinderInv, ReadCopy PROVE Abstract!Deliver \/ Abstract!End
  OBVIOUS
<1>1. PICK k \in 0 .. bufSize : CopyEffect(k)
  BY Copied
<1>2. UNCHANGED <<wpc, accepted, cut, runs>> /\ rpc = "copy"
  BY DEF ReadCopy, writerVars
<1>3. bufSize \in Nat /\ MaxRead \in Nat /\ rpc' # "closed"
  BY <1>1, BinderAssumption DEF BinderInv, BinderTypeOK, CopyEffect
<1>4. CASE bufSize = 0
  <2>1. k = 0 /\ wpc = "closed"
    BY <1>1, <1>4 DEF CopyEffect, EndSeen
  <2>2. got' = got
    <3>1. \A n \in Nat : [i \in 1 .. 0 |-> n + i - 1] = <<>>
      OBVIOUS
    <3>2. got' = got \o [i \in 1 .. 0 |-> processedSize + i - 1]
      BY <1>1, <2>1 DEF CopyEffect
    <3>. QED
      BY <3>1, <3>2, GotLength DEF BinderInv, BinderTypeOK
  <2>3. eof' = TRUE
    BY <1>1, <2>1 DEF CopyEffect
  <2>. QED
    BY <1>2, <1>3, <2>1, <2>2, <2>3 DEF Abstract!End
<1>5. CASE bufSize # 0
  <2>1. k \in 1 .. MaxRead /\ wpc = "lock"
    BY <1>1, <1>3, <1>5 DEF CopyEffect, Taken
  <2>2. Len(got) + k <= Total
    BY <1>3, <2>1, GotLength, BinderAssumption DEF BinderInv, StreamInv, BinderTypeOK
  <2>3. got' = got \o [i \in 1 .. k |-> Len(got) + i - 1]
    BY <1>1, GotLength DEF CopyEffect
  <2>4. eof' = eof
    BY <1>1, <2>1 DEF CopyEffect
  <2>. QED
    BY <1>2, <1>3, <2>1, <2>2, <2>3, <2>4 DEF Abstract!Deliver
<1>. QED
  BY <1>4, <1>5

(* Write reports what was read, or is refused.                                *)
LEMMA WriteReturnRefines == BinderInv /\ WriteReturn => Abstract!Accept \/ Abstract!Refuse
<1>. SUFFICES ASSUME BinderInv, WriteReturn PROVE Abstract!Accept \/ Abstract!Refuse
  OBVIOUS
<1>1. /\ wpc = "return" /\ wpc' = "out"
      /\ UNCHANGED <<got, rpc, eof, runs>>
  BY DEF WriteReturn, readerVars
<1>2. /\ accepted \in Nat /\ wsize \in Nat /\ bufSize \in Nat /\ bufSize <= wsize
      /\ Len(got) + bufSize = accepted + wsize /\ Len(got) \in Nat /\ wsize >= 1
  BY <1>1, GotLength DEF BinderInv, StreamInv, BinderTypeOK
<1>3. CASE wsize - bufSize = 0
  <2>1. rpc = "closed"
    BY <1>1, <1>2, <1>3 DEF BinderInv, PhaseInv, NoData, Announced, Taken, Emptied, Unlocked,
       EndSet, EndSeen
  <2>2. cut' = TRUE /\ accepted' = accepted
    BY <1>3 DEF WriteReturn, CutIfNone
  <2>3. accepted = Len(got)
    BY <1>2, <1>3
  <2>. QED
    BY <1>1, <2>1, <2>2, <2>3 DEF Abstract!Refuse
<1>4. CASE wsize - bufSize # 0
  <2>1. cut' = cut /\ accepted' = accepted + (wsize - bufSize)
    BY <1>4 DEF WriteReturn, CutIfNone
  <2>2. accepted' = Len(got)
    BY <1>2, <2>1
  <2>. QED
    BY <1>1, <2>1, <2>2 DEF Abstract!Accept
<1>. QED
  BY <1>3, <1>4

(* Every other step is a start, a closing or invisible.                       *)
LEMMA NextRefines == BinderInv /\ [BinderNext]_binderVars => [Abstract!Next]_(Abstract!vars)
<1>. SUFFICES ASSUME BinderInv, [BinderNext]_binderVars PROVE [Abstract!Next]_(Abstract!vars)
  OBVIOUS
<1>1. CASE Create_ReInit
  BY <1>1 DEF Create_ReInit, Abstract!Start, Abstract!Next
<1>2. CASE ReadCopy
  BY <1>2, ReadCopyRefines DEF Abstract!Next
<1>3. CASE CloseRead_CallOnce
  BY <1>3 DEF CloseRead_CallOnce, writerVars, Abstract!CloseReader, Abstract!Next
<1>4. CASE WriteReturn
  BY <1>4, WriteReturnRefines DEF Abstract!Next
<1>5. CASE WriteCut
  <2>1. rpc = "closed" /\ accepted = Len(got)
    BY <1>5, GotLength DEF WriteCut, BinderInv, StreamInv, CutIsClosed
  <2>. QED
    BY <1>5, <2>1 DEF WriteCut, readerVars, Abstract!Refuse, Abstract!Next
<1>6. CASE CloseWriteSignal
  <2>1. accepted = Len(got)
    BY <1>6, GotLength DEF CloseWriteSignal, BinderInv, StreamInv
  <2>. QED
    BY <1>6, <2>1 DEF CloseWriteSignal, readerVars, Abstract!CloseWriter, Abstract!Next
<1>7. CASE ReadCall \/ ReadLock \/ ReadSignal \/ WriteCall \/ WriteSignal \/ WriteLock
           \/ CloseWrite \/ BinderFinished \/ UNCHANGED binderVars
  BY <1>7 DEF ReadCall, ReadLock, ReadSignal, WriteCall, WriteSignal, WriteLock,
     CloseWrite, BinderFinished, binderVars, readerVars, writerVars, Abstract!vars
<1>. QED
  BY <1>1, <1>2, <1>3, <1>4, <1>5, <1>6, <1>7 DEF BinderNext, Reader, Writer

(* The binder, with its lent buffer and its events, cannot be told from the   *)
(* abstract pipe (StreamBinder.cpp and StreamBinder.h as a whole).            *)
THEOREM Implementation == BinderSpec => ImplementsPipe
<1>1. BinderInit => Abstract!Init
  BY DEF BinderInit, Abstract!Init
<1>2. BinderInv /\ [BinderNext]_binderVars => [Abstract!Next]_(Abstract!vars)
  BY NextRefines
<1>. QED
  BY <1>1, <1>2, BinderInvariant, PTL DEF BinderSpec, ImplementsPipe, Abstract!Spec

-----------------------------------------------------------------------------
(* The mixer *)

Live      == mpc \in {"idle", "create", "start", "code", "wait"}
AtWork(c) == pc[c] \in {"run", "read", "write"}
Quiet(c)  == ~startEvent[c] /\ ~finishedEvent[c]

\* A helper that Code has started and not waited for.
Started(c) ==
  \/ pc[c] = "wait" /\ startEvent[c] /\ ~finishedEvent[c]
  \/ (AtWork(c) \/ pc[c] = "close") /\ Quiet(c)
  \/ pc[c] = "wait" /\ ~startEvent[c] /\ finishedEvent[c]

\* Where a coder is while Code is at each of its places.
Place(c) ==
  /\ ~exit[c]
  /\ pc[c] = "none" => c \notin created
  /\ pc[c] # "none" /\ (c # main \/ mpc # "code") => c \in created
  /\ mpc = "idle" => pc[c] \in {"none", "wait"} /\ Quiet(c)
  /\ mpc = "create" => /\ pc[c] \in {"none", "wait"} /\ Quiet(c)
                       /\ c # main /\ c < idx => pc[c] = "wait"
  /\ mpc = "start" => IF c # main /\ c < idx THEN Started(c)
                      ELSE Quiet(c) /\ pc[c] \in {"wait", IF c = main THEN "none" ELSE "wait"}
  /\ mpc = "code" => IF c # main THEN Started(c)
                     ELSE Quiet(c) /\ pc[c] \notin {"none", "wait", "exited"}
  /\ mpc = "wait" => IF c # main /\ c >= idx THEN Started(c)
                     ELSE Quiet(c) /\ pc[c] \in {"none", "wait"}

\* A coder of this call that has not returned yet.
NotBegun(c) ==
  \/ mpc = "create"
  \/ mpc = "start" /\ (c = main \/ c >= idx \/ startEvent[c])
  \/ mpc \in {"code", "wait"} /\ startEvent[c]
Alive(c) == NotBegun(c) \/ AtWork(c)

Fresh(c) ==
  /\ \A b \in InBonds(c) : readOpen[b]
  /\ \A b \in OutBonds(c) : writeOpen[b]
  /\ c \notin own

\* A coder that has let go of its streams.
Gone(c) ==
  /\ \A b \in InBonds(c) : ~readOpen[b]
  /\ \A b \in OutBonds(c) : ~writeOpen[b]

\* Its result tells whether it failed by itself.  While nobody has, it has got all it
\* needed, and has given all of its output, or all that its reader needed.
Given(b) == received[b] = Size \/ (Satisfied(b) /\ ~readOpen[b])
Ended(c) ==
  /\ c \in own => result[c] \in OwnErrors \/ pc[c] \in {"unwind", "thrown"}
  /\ c \notin own => result[c] \in {"OK", "CUT", "FALSE"} /\ pc[c] \notin {"unwind", "thrown"}
  /\ own = {} => /\ result[c] # "FALSE"
                 /\ \A b \in InBonds(c) : Satisfied(b)
                 /\ \A b \in OutBonds(c) : Given(b)

Life(c) ==
  /\ Alive(c) => Fresh(c)
  /\ ~Alive(c) /\ pc[c] \notin {"close", "unwind"} => Gone(c)
  /\ ~Alive(c) /\ calls > 0 => Ended(c)

\* What a writer offers is within its own Write, and is backed by its inputs.
Offers ==
  \A b \in Bonds : offered[b] =>
    /\ pc[b[1]] = "write" /\ at[b[1]] = b
    /\ received[b] < Size
    /\ \A i \in InBonds(b[1]) : received[i] > received[b] \/ Satisfied(i)

\* No input ends early unless a coder has failed.
NoEarlyEnd == own = {} => \A b \in Bonds : ~ended[b]

Verdict ==
  mpc = "idle" /\ calls > 0 =>
    /\ ret = "OK" <=> own = {}
    /\ own # {} => ret \in {result[c] : c \in own} \/ \A c \in own : result[c] = "FAIL"

Called == mpc # "idle" => calls > 0 /\ idx >= 1

LiveInv ==
  Called /\ (\A c \in Coders : Place(c) /\ Life(c)) /\ Offers /\ NoEarlyEnd /\ Verdict

\* In every state, also while the destructor waits for coders at work.
Wants  == \A b \in Bonds : /\ received[b] <= want[b] /\ want[b] \in {Size - 1, Size}
                           /\ graph.encode => want[b] = Size
Reads  == \A c \in Coders : pc[c] = "read" => /\ at[c] \in InBonds(c) /\ ~ended[at[c]]
                                              /\ received[at[c]] < want[at[c]]
Writes == \A c \in Coders : pc[c] = "write" => at[c] \in OutBonds(c)
Streams == Wants /\ Reads /\ Writes /\ (mpc = "join" => idx \in Coders)

IInv == TypeOK /\ Streams /\ (Live => LiveInv)

-----------------------------------------------------------------------------
\* What the assumption says about the graph at hand.
LEMMA GraphFacts ==
  ASSUME TypeOK
  PROVE  /\ graph \in Graphs /\ main \in Coders /\ Size \in Nat \ {0}
         /\ graph.encode \in BOOLEAN /\ NumCoders \in Nat \ {0} /\ NumCalls \in Nat
         /\ \A b \in Bonds : b \in Coders \X Coders /\ b[1] \in Coders /\ b[2] \in Coders
         /\ Coders \subseteq Nat
         /\ ~graph.encode => \A b, d \in Bonds : b[1] = d[1] => b = d
  BY ConstantsAssumption DEF TypeOK, CallerTypes, Size, Bonds, Coders

\* No step changes the graph.
LEMMA SameGraph ==
  ASSUME [Next]_vars
  PROVE  /\ graph' = graph /\ Bonds' = Bonds /\ Size' = Size
         /\ \A c : InBonds(c)' = InBonds(c) /\ OutBonds(c)' = OutBonds(c)
         /\ Begin \/ (main' = main /\ Helpers' = Helpers)
<1>1. graph' = graph /\ (Begin \/ main' = main)
  <2>1. CASE UNCHANGED vars
    BY <2>1 DEF vars, mainVars
  <2>2. CASE Caller
    BY <2>2 DEF Caller, Begin, Create, CreateFails, Created, Start, MainCode, MainReturns,
       WaitExecuteFinish, Return, Destroy, StopThread, JoinThread, Destroyed
  <2>3. ASSUME NEW c \in Coders, Coder(c) PROVE graph' = graph /\ main' = main
    BY <2>3 DEF Coder, WaitStart, CoderReads, ReadData, ReadEnd, CoderWrites, WriteReturns,
       CoderIsCut, Returns, Succeeds, EndsEarly, Fails, Throws, CloseRead, CoderClosesWrite, Finish,
       mainVars
  <2> QED
    BY <2>1, <2>2, <2>3 DEF Next, Finished
<1> QED
  BY <1>1 DEF Bonds, Size, Helpers, InBonds, OutBonds

\* Nor the state of Code, when it is a coder's.
LEMMA CoderKeeps == ASSUME NEW c \in Coders, Coder(c) PROVE UNCHANGED mainVars
  BY DEF Coder, WaitStart, CoderReads, ReadData, ReadEnd, CoderWrites, WriteReturns,
     CoderIsCut, Returns, Succeeds, EndsEarly, Fails, Throws, CloseRead, CoderClosesWrite, Finish

\* Code returns the first of Classes that some coder has as its result.
LEMMA ChosenFirst ==
  \/ Chosen = "OK" /\ \A i \in 1 .. 5, c \in Coders : result[c] # Classes[i]
  \/ \E k \in 1 .. 5 :
       /\ Chosen = Classes[k] /\ \E c \in Coders : result[c] = Classes[k]
       /\ \A j \in 1 .. 5, c \in Coders : result[c] = Classes[j] => k <= j
<1> DEFINE found == {k \in DOMAIN Classes : \E c \in Judged : result[c] = Classes[k]}
<1>1. DOMAIN Classes = 1 .. 5
  BY DEF Classes
<1>2. CASE found = {}
  BY <1>1, <1>2 DEF Chosen, Judged
<1>3. ASSUME found # {}
      PROVE  \E k \in found : \A j \in found : k <= j
  BY <1>1, <1>3
<1>4. CASE found # {}
  <2> DEFINE k == CHOOSE k \in found : \A j \in found : k <= j
  <2>1. k \in found /\ \A j \in found : k <= j
    BY <1>3, <1>4
  <2>2. Chosen = Classes[k]
    BY <1>4 DEF Chosen
  <2> HIDE DEF k
  <2> QED
    BY <1>1, <2>1, <2>2 DEF Judged
<1> QED
  BY <1>2, <1>4

LEMMA ChosenType == Chosen \in {"OK"} \cup OwnErrors
<1>1. \A i \in 1 .. 5 : Classes[i] \in OwnErrors
  BY DEF Classes, OwnErrors
<1>2. CASE Chosen # "OK"
  <2>1. PICK k \in 1 .. 5 : Chosen = Classes[k]
    BY <1>2, ChosenFirst
  <2> QED
    BY <1>1, <2>1
<1> QED
  BY <1>2

-----------------------------------------------------------------------------
\* The four parts of the state keep their types.  That no reader gets more than it wants
\* is part of Streams.
LEMMA CallerTypesStep == ASSUME TypeOK, Streams, [Next]_vars PROVE CallerTypes'
<1>a. /\ NumCoders \in Nat \ {0} /\ Coders = 1 .. NumCoders /\ Coders' = Coders
      /\ CallerTypes
  BY GraphFacts DEF Coders, TypeOK
<1>0. /\ graph' = graph /\ NumCalls \in Nat /\ Coders' = Coders /\ CallerTypes
      /\ {0, 1, NumCoders} \subseteq 0 .. NumCoders + 1
      /\ \A i \in Coders : i + 1 \in 0 .. NumCoders + 1 /\ i - 1 \in 0 .. NumCoders + 1
  BY <1>a, SameGraph, GraphFacts
<1>1. CASE UNCHANGED vars
  BY <1>0, <1>1 DEF CallerTypes, vars, mainVars
<1>2. CASE Begin
  <2>1. calls' \in 0 .. NumCalls
    BY <1>0, <1>2 DEF CallerTypes, Begin
  <2> QED
    BY <1>0, <1>2, <2>1 DEF CallerTypes, Begin, Results
<1>8. CASE Create \/ CreateFails \/ Created \/ Start
  BY <1>0, <1>8 DEF CallerTypes, Create, CreateFails, Created, Start, Helpers
<1>3. CASE MainCode \/ MainReturns \/ WaitExecuteFinish
  BY <1>0, <1>3 DEF CallerTypes, MainCode, MainReturns, WaitExecuteFinish
<1>4. CASE Return
  <2>1. Chosen \in Results \ {"CUT"}
    BY ChosenType DEF Results, OwnErrors
  <2> QED
    BY <1>0, <1>4, <2>1 DEF CallerTypes, Return
<1>5. CASE Destroy \/ StopThread \/ Destroyed
  BY <1>0, <1>5 DEF CallerTypes, Destroy, StopThread, Destroyed
<1>6. CASE JoinThread
  BY <1>0, <1>6 DEF CallerTypes, Streams, JoinThread
<1>7. ASSUME NEW c \in Coders, Coder(c) PROVE CallerTypes'
  <2>1. UNCHANGED mainVars
    BY <1>7, CoderKeeps
  <2> QED
    BY <1>0, <2>1 DEF CallerTypes, mainVars
<1> QED
  BY <1>1, <1>2, <1>3, <1>4, <1>5, <1>6, <1>7, <1>8 DEF Next, Caller, Finished

LEMMA CoderTypesStep == ASSUME TypeOK, Streams, [Next]_vars PROVE CoderTypes'
<1>0. Bonds' = Bonds /\ main \in Coders /\ CoderTypes
  BY SameGraph, GraphFacts DEF TypeOK
<1>1. CASE UNCHANGED vars
  BY <1>0, <1>1 DEF CoderTypes, vars
<1>2. CASE Begin
  BY <1>0, <1>2 DEF CoderTypes, Begin, Results
<1>3. CASE Create \/ MainCode \/ MainReturns \/ JoinThread
  BY <1>0, <1>3 DEF CoderTypes, Create, MainCode, MainReturns, JoinThread
<1>4. CASE CreateFails \/ Created \/ Start \/ WaitExecuteFinish \/ Return
           \/ Destroy \/ StopThread \/ Destroyed
  BY <1>0, <1>4 DEF CoderTypes, CreateFails, Created, Start, WaitExecuteFinish, Return,
     Destroy, StopThread, Destroyed
<1>5. ASSUME NEW c \in Coders, Coder(c) PROVE CoderTypes'
  <2>1. CASE WaitStart(c) \/ WriteReturns(c) \/ ReadData(c) \/ ReadEnd(c) \/ Throws
    BY <1>0, <2>1 DEF CoderTypes, WaitStart, WriteReturns, ReadData, ReadEnd, Throws
  <2>2. CASE CoderReads(c) \/ CoderWrites(c)
    BY <1>0, <2>2 DEF CoderTypes, CoderReads, CoderWrites, InBonds, OutBonds
  <2>3. CASE CloseRead(c) \/ CoderClosesWrite(c) \/ Finish(c)
    BY <1>0, <2>3 DEF CoderTypes, CloseRead, CoderClosesWrite, Finish
  <2>4. ASSUME NEW r \in Results, Returns(c, r), own' \subseteq Coders
        PROVE  CoderTypes'
    BY <1>0, <2>4 DEF CoderTypes, Returns
  <2>5. CASE CoderIsCut(c) \/ Succeeds(c) \/ EndsEarly(c) \/ Fails(c)
    BY <1>0, <2>4, <2>5 DEF CoderIsCut, Succeeds, EndsEarly, Fails, Results, OwnErrors,
       CoderTypes
  <2> QED
    BY <1>5, <2>1, <2>2, <2>3, <2>5 DEF Coder
<1> QED
  BY <1>1, <1>2, <1>3, <1>4, <1>5 DEF Next, Caller, Finished

LEMMA EventTypesStep == ASSUME TypeOK, Streams, [Next]_vars PROVE EventTypes'
<1>0. EventTypes
  BY DEF TypeOK
<1>1. CASE UNCHANGED vars
  BY <1>0, <1>1 DEF EventTypes, vars, threadVars
<1>2. CASE Create \/ Start \/ WaitExecuteFinish \/ StopThread \/ JoinThread
  BY <1>0, <1>2 DEF EventTypes, Create, Start, WaitExecuteFinish, StopThread, JoinThread,
     threadVars
<1>3. CASE Begin \/ CreateFails \/ Created \/ MainCode \/ MainReturns \/ Return
           \/ Destroy \/ Destroyed
  BY <1>0, <1>3 DEF EventTypes, Begin, CreateFails, Created, MainCode, MainReturns, Return,
     Destroy, Destroyed, threadVars
<1>4. ASSUME NEW c \in Coders, Coder(c) PROVE EventTypes'
  <2>1. CASE WaitStart(c) \/ Finish(c)
    BY <1>0, <2>1 DEF EventTypes, WaitStart, Finish
  <2>2. CASE ~(WaitStart(c) \/ Finish(c))
    <3>1. UNCHANGED threadVars
      BY <1>4, <2>2 DEF Coder, CoderReads, ReadData, ReadEnd, CoderWrites, WriteReturns,
         CoderIsCut, Returns, Succeeds, EndsEarly, Fails, Throws, CloseRead, CoderClosesWrite
    <3> QED
      BY <1>0, <3>1 DEF EventTypes, threadVars
  <2> QED
    BY <2>1, <2>2
<1> QED
  BY <1>1, <1>2, <1>3, <1>4 DEF Next, Caller, Finished

LEMMA PipeTypesStep == ASSUME TypeOK, Streams, [Next]_vars PROVE PipeTypes'
<1>0. /\ Bonds' = Bonds /\ Size' = Size /\ Size \in Nat \ {0} /\ PipeTypes
      /\ graph' = graph
  BY SameGraph, GraphFacts DEF TypeOK
<1>1. CASE UNCHANGED vars
  BY <1>0, <1>1 DEF PipeTypes, vars, pipeVars
<1>2. CASE Begin
  <2>1. want' \in [Bonds -> 0 .. Size]
    BY <1>0, <1>2 DEF Begin
  <2> QED
    BY <1>0, <1>2, <2>1 DEF PipeTypes, Begin
<1>3. CASE JoinThread
  BY <1>0, <1>3 DEF PipeTypes, JoinThread
<1>4. CASE Caller /\ ~Begin /\ ~JoinThread
  <2>1. UNCHANGED pipeVars
    BY <1>4 DEF Caller, Create, CreateFails, Created, Start, MainCode, MainReturns,
       WaitExecuteFinish, Return, Destroy, StopThread, Destroyed
  <2> QED
    BY <1>0, <2>1 DEF PipeTypes, pipeVars
<1>5. ASSUME NEW c \in Coders, Coder(c) PROVE PipeTypes'
  <2>1. CASE WaitStart(c) \/ WriteReturns(c) \/ CoderReads(c) \/ Throws \/ Finish(c)
    BY <1>0, <2>1 DEF PipeTypes, WaitStart, WriteReturns, CoderReads, Throws, Finish, pipeVars
  <2>2. CASE ReadData(c)
    <3>1. at[c] \in Bonds /\ received[at[c]] < want[at[c]]
      BY <1>5, <2>2 DEF ReadData, Streams, Reads, InBonds
    <3>2. received[at[c]] + 1 \in 0 .. Size
      BY <1>0, <3>1 DEF PipeTypes
    <3> QED
      BY <1>0, <2>2, <3>1, <3>2 DEF PipeTypes, ReadData
  <2>3. CASE ReadEnd(c) \/ CoderWrites(c)
    BY <1>0, <2>3 DEF PipeTypes, ReadEnd, CoderWrites
  <2>4. CASE CoderIsCut(c) \/ Succeeds(c) \/ EndsEarly(c) \/ Fails(c)
    BY <1>0, <2>4 DEF PipeTypes, CoderIsCut, Succeeds, EndsEarly, Fails, Returns
  <2>5. CASE CloseRead(c) \/ CoderClosesWrite(c)
    BY <1>0, <2>5 DEF PipeTypes, CloseRead, CoderClosesWrite
  <2> QED
    BY <1>5, <2>1, <2>2, <2>3, <2>4, <2>5 DEF Coder
<1> QED
  BY <1>1, <1>2, <1>3, <1>4, <1>5 DEF Next, Finished

LEMMA TypeStep == ASSUME TypeOK, Streams, [Next]_vars PROVE TypeOK'
  BY CallerTypesStep, CoderTypesStep, EventTypesStep, PipeTypesStep DEF TypeOK

\* So do the facts about reading and writing.  Only its reader takes from a bond.
LEMMA StreamsStep == ASSUME IInv, [Next]_vars PROVE Streams'
<1>0. /\ graph' = graph /\ Bonds' = Bonds /\ Size' = Size
      /\ \A c : InBonds(c)' = InBonds(c) /\ OutBonds(c)' = OutBonds(c)
      /\ Size \in Nat \ {0} /\ NumCoders \in Nat \ {0} /\ Coders = 1 .. NumCoders
      /\ CoderTypes /\ PipeTypes /\ Wants /\ Reads /\ Writes /\ Streams
      /\ idx \in 0 .. NumCoders + 1
  BY SameGraph, GraphFacts DEF IInv, TypeOK, CallerTypes, Streams, Coders
<1>1. CASE UNCHANGED vars
  BY <1>0, <1>1 DEF Streams, Wants, Reads, Writes, vars, mainVars, pipeVars
<1>2. CASE Begin
  <2>1. \A c \in Coders : pc[c] \in {"none", "wait"}
    BY <1>2 DEF Begin, IInv, Live, LiveInv, Place
  <2>2. Wants'
    BY <1>0, <1>2 DEF Begin, Wants, PipeTypes
  <2> QED
    BY <1>0, <1>2, <2>1, <2>2 DEF Begin, Streams, Reads, Writes
<1>3. CASE Create \/ MainCode \/ MainReturns
  <2>1. /\ mpc' # "join" /\ UNCHANGED <<at, received, want, ended>>
        /\ \A c \in Coders : pc'[c] \in {pc[c], "wait", "run", "none"}
    BY <1>0, <1>3 DEF CoderTypes, Create, MainCode, MainReturns, pipeVars
  <2> QED
    BY <1>0, <2>1 DEF Streams, Wants, Reads, Writes
<1>4. CASE CreateFails \/ Created \/ Start \/ WaitExecuteFinish \/ Return
           \/ Destroy \/ StopThread \/ Destroyed
  <2>1. UNCHANGED <<pc, at, received, want, ended>> /\ (mpc' = "join" => idx' \in Coders)
    BY <1>4 DEF CreateFails, Created, Start, WaitExecuteFinish, Return, Destroy, StopThread,
       Destroyed, pipeVars
  <2> QED
    BY <1>0, <2>1 DEF Streams, Wants, Reads, Writes
<1>5. CASE JoinThread
  <2>1. /\ mpc' # "join" /\ UNCHANGED <<at, received, want, ended>>
        /\ \A c \in Coders : pc'[c] \in {pc[c], "none"}
    BY <1>0, <1>5 DEF CoderTypes, JoinThread
  <2> QED
    BY <1>0, <2>1 DEF Streams, Wants, Reads, Writes
<1>6. ASSUME NEW c \in Coders, Coder(c) PROVE Streams'
  <2>0. mpc' = mpc /\ idx' = idx /\ want' = want
    BY <1>6 DEF Coder, WaitStart, CoderReads, ReadData, ReadEnd, CoderWrites, WriteReturns,
       CoderIsCut, Returns, Succeeds, EndsEarly, Fails, Throws, CloseRead, CoderClosesWrite, Finish,
       mainVars, pipeVars
  <2>1. CASE CoderReads(c)
    <3>1. PICK b \in InBonds(c) : ~Satisfied(b) /\ ~ended[b] /\ at' = [at EXCEPT ![c] = b]
      BY <2>1 DEF CoderReads
    <3>2. b \in Bonds /\ received[b] < want[b]
      BY <1>0, <3>1 DEF InBonds, Satisfied, Wants, PipeTypes
    <3>3. pc' = [pc EXCEPT ![c] = "read"] /\ UNCHANGED <<received, ended>>
      BY <2>1 DEF CoderReads, pipeVars
    <3> QED
      BY <1>0, <2>0, <3>1, <3>2, <3>3 DEF Streams, Wants, Reads, Writes, CoderTypes
  <2>2. CASE ReadData(c)
    <3>1. at[c] \in InBonds(c) /\ received[at[c]] < want[at[c]] /\ at[c] \in Bonds
      BY <1>0, <2>2 DEF ReadData, Reads, InBonds
    <3>2. \A b \in Bonds : b # at[c] => received'[b] = received[b]
      BY <1>0, <2>2 DEF ReadData, PipeTypes
    <3>3. received'[at[c]] <= want[at[c]]
      BY <1>0, <2>2, <3>1 DEF ReadData, PipeTypes
    <3>4. \A d \in Coders : d # c => \A b \in InBonds(d) : b # at[c] /\ b \in Bonds
      BY <3>1 DEF InBonds
    <3>5. /\ pc'[c] = "run" /\ \A d \in Coders : d # c => pc'[d] = pc[d]
          /\ at' = at /\ ended' = ended
      BY <1>0, <2>2 DEF ReadData, CoderTypes
    <3>6. Wants'
      BY <1>0, <2>0, <3>2, <3>3 DEF Wants
    <3> QED
      BY <1>0, <2>0, <3>2, <3>4, <3>5, <3>6 DEF Streams, Reads, Writes
  <2>3. CASE ReadEnd(c)
    <3>1. at[c] \in InBonds(c) /\ at[c] \in Bonds
      BY <1>0, <2>3 DEF ReadEnd, Reads, InBonds
    <3>2. \A d \in Coders : d # c => \A b \in InBonds(d) : ended'[b] = ended[b]
      BY <1>0, <2>3, <3>1 DEF ReadEnd, InBonds, PipeTypes
    <3>3. /\ pc'[c] = "run" /\ \A d \in Coders : d # c => pc'[d] = pc[d]
          /\ at' = at /\ received' = received
      BY <1>0, <2>3 DEF ReadEnd, CoderTypes
    <3> QED
      BY <1>0, <2>0, <3>2, <3>3 DEF Streams, Wants, Reads, Writes
  <2>4. CASE CoderWrites(c)
    BY <1>0, <2>0, <2>4 DEF CoderTypes, Streams, Wants, Reads, Writes, CoderWrites
  <2>5. CASE WaitStart(c) \/ WriteReturns(c) \/ CloseRead(c) \/ CoderClosesWrite(c) \/ Finish(c)
             \/ (c = main /\ Throws)
    <3>1. /\ pc'[c] \notin {"read", "write"} /\ \A d \in Coders : d # c => pc'[d] = pc[d]
          /\ UNCHANGED <<at, received, ended>>
      BY <1>0, <2>5 DEF CoderTypes, WaitStart, WriteReturns, CloseRead, CoderClosesWrite, Finish,
         Throws, pipeVars, Closing
    <3> QED
      BY <1>0, <2>0, <3>1 DEF Streams, Wants, Reads, Writes
  <2>6. CASE CoderIsCut(c) \/ Succeeds(c) \/ EndsEarly(c) \/ Fails(c)
    <3>1. /\ pc' = [pc EXCEPT ![c] = "close"] /\ at' = [at EXCEPT ![c] = <<>>]
          /\ received' = received /\ ended' = ended
      BY <2>6 DEF CoderIsCut, Succeeds, EndsEarly, Fails, Returns
    <3> QED
      BY <1>0, <2>0, <3>1 DEF Streams, Wants, Reads, Writes, CoderTypes
  <2> QED
    BY <1>6, <2>1, <2>2, <2>3, <2>4, <2>5, <2>6 DEF Coder
<1> QED
  BY <1>1, <1>2, <1>3, <1>4, <1>5, <1>6 DEF Next, Caller, Finished

-----------------------------------------------------------------------------
(* A step of a coder *)

\* What a coder's step leaves alone.
LEMMA CoderFrame ==
  ASSUME IInv, NEW c \in Coders, Coder(c)
  PROVE  /\ UNCHANGED <<graph, main, created, mpc, idx, calls, ret, exit, want>>
         /\ own \subseteq own' /\ own' \subseteq own \cup {c}
         /\ \A d \in Coders : d # c =>
              /\ pc'[d] = pc[d] /\ at'[d] = at[d] /\ result'[d] = result[d]
              /\ startEvent'[d] = startEvent[d] /\ finishedEvent'[d] = finishedEvent[d]
         /\ \A b \in Bonds : b \notin InBonds(c) =>
              readOpen'[b] = readOpen[b] /\ received'[b] = received[b]
         /\ \A b \in Bonds : b \notin OutBonds(c) => writeOpen'[b] = writeOpen[b]
         /\ \A b \in Bonds : readOpen'[b] => readOpen[b]
         /\ \A b \in Bonds : received'[b] # received[b] => pc[c] = "read" /\ b = at[c]
         /\ \A b \in Bonds : ended'[b] = ended[b] \/ ReadEnd(c)
<1>0. CoderTypes /\ EventTypes /\ PipeTypes /\ Reads /\ main \in Coders
  BY GraphFacts DEF IInv, TypeOK, Streams
<1>1. CASE WaitStart(c)
  BY <1>0, <1>1 DEF WaitStart, CoderTypes, EventTypes, mainVars, pipeVars
<1>2. CASE CoderReads(c) \/ WriteReturns(c) \/ (c = main /\ Throws)
  BY <1>0, <1>2 DEF CoderReads, WriteReturns, Throws, CoderTypes, mainVars, threadVars, pipeVars
<1>3. CASE ReadData(c)
  <2>1. at[c] \in InBonds(c) /\ pc[c] = "read"
    BY <1>0, <1>3 DEF Reads, ReadData
  <2> QED
    BY <1>0, <1>3, <2>1 DEF ReadData, CoderTypes, PipeTypes, mainVars, threadVars
<1>4. CASE ReadEnd(c) \/ CoderWrites(c)
  BY <1>0, <1>4 DEF ReadEnd, CoderWrites, CoderTypes, mainVars, threadVars
<1>5. CASE CoderIsCut(c) \/ Succeeds(c) \/ EndsEarly(c) \/ Fails(c)
  BY <1>0, <1>5 DEF CoderIsCut, Succeeds, EndsEarly, Fails, Returns, CoderTypes, mainVars,
     threadVars
<1>6. CASE CloseRead(c) \/ CoderClosesWrite(c)
  BY <1>0, <1>6 DEF CloseRead, CoderClosesWrite, Held, PipeTypes, mainVars, threadVars
<1>7. CASE Finish(c)
  BY <1>0, <1>7 DEF Finish, CoderTypes, EventTypes, mainVars, pipeVars
<1> QED
  BY <1>1, <1>2, <1>3, <1>4, <1>5, <1>6, <1>7 DEF Coder

\* A coder at work belongs to a call and has not let go of anything.
LEMMA AtWorkFacts ==
  ASSUME IInv, Live, NEW c \in Coders
  PROVE  /\ AtWork(c) => Fresh(c)
         /\ pc[c] \notin {"none", "wait"} \/ startEvent[c] => mpc \in {"start", "code", "wait"}
         /\ pc[c] \notin {"none", "wait"} =>
              /\ Quiet(c) /\ ~NotBegun(c)
              /\ mpc = "start" => c # main /\ c < idx
              /\ mpc = "wait" => c # main /\ c >= idx
              /\ mpc = "code" \/ c # main
         /\ pc[c] \in {"unwind", "done", "thrown"} => c = main /\ mpc = "code"
<1>1. Place(c) /\ Life(c) /\ main \in Coders
  BY GraphFacts DEF IInv, LiveInv
<1>2. pc[c] \notin {"none", "wait"} \/ startEvent[c] => mpc \in {"start", "code", "wait"}
  BY <1>1 DEF Live, Place, Quiet
<1>3. pc[c] \notin {"none", "wait"} =>
        Quiet(c) /\ (mpc = "start" => c # main /\ c < idx) /\ (c # main => Started(c))
                 /\ (mpc = "wait" => c >= idx) /\ (c = main => mpc = "code")
  <2> SUFFICES ASSUME pc[c] \notin {"none", "wait"}
               PROVE  Quiet(c) /\ (mpc = "start" => c # main /\ c < idx)
                      /\ (c # main => Started(c)) /\ (mpc = "wait" => c >= idx)
                      /\ (c = main => mpc = "code")
    OBVIOUS
  <2>1. CASE mpc = "start"
    <3>1. c # main /\ c < idx /\ Started(c)
      BY <1>1, <2>1 DEF Place
    <3> QED
      BY <2>1, <3>1 DEF Started
  <2>2. CASE mpc = "code"
    <3>1. IF c # main THEN Started(c) ELSE Quiet(c)
      BY <1>1, <2>2 DEF Place
    <3> QED
      BY <2>2, <3>1 DEF Started
  <2>3. CASE mpc = "wait"
    <3>1. c # main /\ c >= idx /\ Started(c)
      BY <1>1, <2>3 DEF Place
    <3> QED
      BY <2>3, <3>1 DEF Started
  <2> QED
    BY <1>2, <2>1, <2>2, <2>3
<1>4. pc[c] \notin {"none", "wait"} => ~NotBegun(c)
  <2>1. mpc = "start" /\ c < idx => ~(c >= idx)
    BY GraphFacts DEF IInv, TypeOK, CallerTypes
  <2> QED
    BY <1>2, <1>3, <2>1 DEF NotBegun, Quiet
<1>5. pc[c] \in {"unwind", "done", "thrown"} => c = main /\ mpc = "code"
  BY <1>3 DEF Started, AtWork
<1> QED
  BY <1>1, <1>2, <1>3, <1>4, <1>5 DEF Life, Alive

\* The other coders do not notice it, except for what they have been given.
LEMMA OtherCoders ==
  ASSUME IInv, Live, NEW c \in Coders, Coder(c), NEW d \in Coders, d # c
  PROVE  Place(d)' /\ Life(d)'
<1>0. /\ Bonds' = Bonds /\ main' = main /\ Size' = Size /\ Size \in Nat
      /\ \A e : InBonds(e)' = InBonds(e) /\ OutBonds(e)' = OutBonds(e)
      /\ PipeTypes /\ Wants /\ Reads /\ Place(d) /\ Life(d)
  BY SameGraph, GraphFacts, CoderFrame DEF IInv, TypeOK, Streams, LiveInv, Next
<1>1. Place(d)'
  BY <1>0, CoderFrame DEF Place, Started, Quiet, AtWork
<1>2. Alive(d)' <=> Alive(d)
  BY <1>0, CoderFrame DEF Alive, NotBegun, AtWork
<1>3. /\ \A b \in InBonds(d) : b \in Bonds /\ b \notin InBonds(c)
      /\ \A b \in OutBonds(d) : b \in Bonds /\ b \notin OutBonds(c)
  BY DEF InBonds, OutBonds
<1>4. (Fresh(d) => Fresh(d)') /\ (Gone(d) => Gone(d)')
  BY <1>0, <1>3, CoderFrame DEF Fresh, Gone
<1>5. \A b \in Bonds : Given(b) => Given(b)'
  <2>1. ASSUME NEW b \in Bonds, pc[c] = "read", b = at[c]
        PROVE  ~Given(b)
    <3>1. b \in InBonds(c) /\ received[b] < want[b] /\ want[b] <= Size
      BY <1>0, <2>1 DEF Reads, Wants
    <3>2. readOpen[b]
      BY <2>1, <3>1, AtWorkFacts DEF AtWork, Fresh
    <3> QED
      BY <1>0, <3>1, <3>2 DEF Given, Satisfied, PipeTypes
  <2> QED
    BY <1>0, <2>1, CoderFrame DEF Given, Satisfied
<1>6. Ended(d) => Ended(d)'
  <2>1. \A b \in InBonds(d) : Satisfied(b)' <=> Satisfied(b)
    BY <1>3, CoderFrame DEF Satisfied
  <2>2. \A b \in OutBonds(d) : b \in Bonds
    BY <1>3
  <2> QED
    BY <1>0, <1>5, <2>1, <2>2, CoderFrame DEF Ended
<1> QED
  BY <1>0, <1>1, <1>2, <1>4, <1>6, CoderFrame DEF Life

\* A coder that is at work goes on.
LEMMA WorkStep ==
  ASSUME IInv, Live, NEW c \in Coders,
         WaitStart(c) \/ CoderReads(c) \/ ReadData(c) \/ ReadEnd(c) \/ CoderWrites(c)
           \/ WriteReturns(c)
  PROVE  Place(c)' /\ Life(c)'
<1>0. /\ Coder(c) /\ UNCHANGED <<main, created>>
      /\ InBonds(c)' = InBonds(c) /\ OutBonds(c)' = OutBonds(c)
      /\ CoderTypes /\ EventTypes /\ Place(c) /\ Life(c)
  <2>1. Coder(c)
    BY DEF Coder
  <2> QED
    BY <2>1, SameGraph, CoderKeeps DEF IInv, TypeOK, LiveInv, Next, mainVars
<1>1. mpc \in {"start", "code", "wait"}
  BY <1>0, AtWorkFacts DEF WaitStart, CoderReads, ReadData, ReadEnd, CoderWrites, WriteReturns
<1>2. /\ Alive(c) /\ AtWork(c)' /\ Quiet(c)'
      /\ mpc = "start" => c # main /\ c < idx
      /\ mpc = "wait" => c # main /\ c >= idx
      /\ mpc = "code" \/ c # main
  <2>1. CASE WaitStart(c)
    <3>1. pc[c] = "wait" /\ startEvent[c] /\ ~exit[c] /\ ~finishedEvent[c]
      BY <1>0, <1>1, <2>1 DEF WaitStart, Place, Quiet, Started, AtWork
    <3>2. pc'[c] = "run" /\ ~startEvent'[c] /\ ~finishedEvent'[c]
      BY <1>0, <2>1, <3>1 DEF WaitStart, CoderTypes, EventTypes
    <3>3. /\ mpc = "start" => c # main /\ c < idx
          /\ mpc = "wait" => c # main /\ c >= idx
          /\ mpc = "code" => c # main
      BY <1>0, <3>1 DEF Place, Quiet
    <3> QED
      BY <1>1, <3>1, <3>2, <3>3 DEF Alive, NotBegun, AtWork, Quiet
  <2>2. CASE ~WaitStart(c)
    <3>1. AtWork(c) /\ pc[c] \notin {"none", "wait"}
      BY <2>2 DEF AtWork, CoderReads, ReadData, ReadEnd, CoderWrites, WriteReturns
    <3>2. pc'[c] \in {"run", "read", "write"} /\ UNCHANGED threadVars
      BY <1>0, <2>2 DEF CoderTypes, CoderReads, ReadData, ReadEnd, CoderWrites, WriteReturns
    <3>3. Quiet(c)
      BY <3>1, AtWorkFacts
    <3>4. /\ mpc = "start" => c # main /\ c < idx
          /\ mpc = "wait" => c # main /\ c >= idx
          /\ mpc = "code" \/ c # main
      BY <1>1, <3>1, AtWorkFacts
    <3> QED
      BY <3>1, <3>2, <3>3, <3>4 DEF Alive, AtWork, Quiet, threadVars
  <2> QED
    BY <2>1, <2>2
<1>3. /\ UNCHANGED <<mpc, idx, calls, exit>>
      /\ UNCHANGED <<readOpen, writeOpen, result, own>>
  BY DEF WaitStart, CoderReads, ReadData, ReadEnd, CoderWrites, WriteReturns, mainVars, threadVars,
     pipeVars
<1>4. Place(c)'
  BY <1>0, <1>1, <1>2, <1>3 DEF Place, Started, AtWork, Quiet
<1>5. Alive(c)' /\ Fresh(c)'
  BY <1>0, <1>2, <1>3 DEF Alive, AtWork, Life, Fresh
<1> QED
  BY <1>4, <1>5 DEF Life

\* What Ended asks of a coder whose Write was cut: it has given its reader all it wanted,
\* and has no other.
LEMMA CutFacts ==
  ASSUME IInv, Live, NEW c \in Coders, CoderIsCut(c), own = {}
  PROVE  (\A i \in InBonds(c) : Satisfied(i)) /\ (\A b \in OutBonds(c) : Given(b))
<1> DEFINE b == at[c]
<1>0. /\ PipeTypes /\ Wants /\ Writes /\ Offers /\ LiveInv /\ Called /\ Size \in Nat \ {0}
      /\ (~graph.encode => \A e, d \in Bonds : e[1] = d[1] => e = d)
      /\ \A e \in Bonds : e[1] \in Coders /\ e[2] \in Coders
  BY GraphFacts DEF IInv, TypeOK, Streams, LiveInv
<1>1. pc[c] = "write" /\ b \in OutBonds(c) /\ b \in Bonds /\ offered[b] /\ ~readOpen[b]
  BY <1>0 DEF CoderIsCut, Writes, OutBonds
<1>2. mpc # "idle"
  BY <1>1, AtWorkFacts
<1>3. ~Alive(b[2]) /\ Ended(b[2])
  <2>1. b \in InBonds(b[2]) /\ b[2] \in Coders /\ Life(b[2])
    BY <1>0, <1>1 DEF InBonds, LiveInv
  <2> QED
    BY <1>0, <1>1, <1>2, <2>1 DEF Life, Fresh, Called
<1>4. Satisfied(b)
  BY <1>1, <1>3 DEF Ended, InBonds
<1>5. /\ received[b] < Size /\ b[1] = c
      /\ \A i \in InBonds(c) : received[i] > received[b] \/ Satisfied(i)
  BY <1>0, <1>1 DEF Offers, OutBonds
<1>6. received[b] = Size - 1 /\ ~graph.encode
  BY <1>0, <1>1, <1>4, <1>5 DEF Satisfied, Wants, PipeTypes
<1>7. \A i \in InBonds(c) : Satisfied(i)
  <2> SUFFICES ASSUME NEW i \in InBonds(c), received[i] > received[b] PROVE Satisfied(i)
    BY <1>5
  <2>1. i \in Bonds
    BY DEF InBonds
  <2>2. received[i] \in 0 .. Size /\ received[i] <= want[i] /\ want[i] \in {Size - 1, Size}
    BY <1>0, <2>1 DEF PipeTypes, Wants
  <2> QED
    BY <1>0, <1>6, <2>2 DEF Satisfied
<1>8. \A e \in OutBonds(c) : e = b
  BY <1>0, <1>1, <1>5, <1>6 DEF OutBonds
<1> QED
  BY <1>1, <1>4, <1>7, <1>8 DEF Given

\* A coder's Code returns, or an exception leaves it.
LEMMA ReturnStep ==
  ASSUME IInv, Live, NEW c \in Coders,
         CoderIsCut(c) \/ Succeeds(c) \/ EndsEarly(c) \/ Fails(c) \/ (c = main /\ Throws)
  PROVE  Place(c)' /\ Life(c)'
<1>0. /\ Coder(c) /\ UNCHANGED <<main, created>> /\ Bonds' = Bonds /\ Size' = Size
      /\ InBonds(c)' = InBonds(c) /\ OutBonds(c)' = OutBonds(c)
      /\ InBonds(c) \subseteq Bonds /\ OutBonds(c) \subseteq Bonds
      /\ CoderTypes /\ Place(c) /\ Life(c) /\ NoEarlyEnd
  <2>1. Coder(c)
    BY DEF Coder
  <2> QED
    BY <2>1, SameGraph, CoderKeeps DEF IInv, TypeOK, LiveInv, Next, mainVars, InBonds, OutBonds
<1>1. AtWork(c) /\ pc[c] \notin {"none", "wait"} /\ pc[c] # "close"
  BY DEF AtWork, CoderIsCut, Succeeds, EndsEarly, Fails, Throws
<1>2. /\ mpc \in {"start", "code", "wait"} /\ Quiet(c) /\ ~NotBegun(c) /\ Fresh(c)
      /\ mpc = "start" => c # main /\ c < idx
      /\ mpc = "wait" => c # main /\ c >= idx
      /\ mpc = "code" \/ c # main
  BY <1>1, AtWorkFacts
<1>3. /\ UNCHANGED <<mpc, idx, calls, exit, startEvent, finishedEvent>>
      /\ UNCHANGED <<received, want, readOpen>>
  BY DEF CoderIsCut, Succeeds, EndsEarly, Fails, Throws, Returns, mainVars, threadVars, pipeVars
<1>4. pc'[c] = "close" \/ (pc'[c] = "unwind" /\ c = main)
  BY <1>0 DEF CoderTypes, CoderIsCut, Succeeds, EndsEarly, Fails, Throws, Returns
<1>6. Place(c)'
  BY <1>0, <1>2, <1>3, <1>4 DEF Place, Started, AtWork, Quiet
<1>7. ~Alive(c)'
  BY <1>0, <1>2, <1>3, <1>4 DEF Alive, NotBegun, AtWork
<1>8. Ended(c)'
  <2>1. CASE CoderIsCut(c)
    <3>1. result'[c] = "CUT" /\ pc'[c] = "close" /\ own' = own /\ c \notin own
      BY <1>0, <1>2, <2>1 DEF CoderIsCut, Returns, CoderTypes, Fresh
    <3> QED
      BY <1>0, <1>3, <2>1, <3>1, CutFacts DEF Ended, Given, Satisfied
  <2>2. CASE Succeeds(c)
    <3>1. result'[c] \in {"OK", "CUT"} /\ pc'[c] = "close" /\ own' = own /\ c \notin own
      BY <1>0, <1>2, <2>2 DEF Succeeds, Returns, CoderTypes, Fresh
    <3> QED
      BY <1>0, <1>3, <2>2, <3>1 DEF Ended, Given, Satisfied, Succeeds
  <2>3. CASE EndsEarly(c)
    <3>1. result'[c] \in {"OK", "FALSE"} /\ pc'[c] = "close" /\ own' = own /\ c \notin own
      BY <1>0, <1>2, <2>3 DEF EndsEarly, Returns, CoderTypes, Fresh
    <3>2. own # {}
      BY <1>0, <2>3 DEF EndsEarly, NoEarlyEnd
    <3> QED
      BY <3>1, <3>2 DEF Ended
  <2>4. CASE Fails(c)
    BY <1>0, <2>4 DEF Fails, Returns, CoderTypes, Ended
  <2>5. CASE c = main /\ Throws
    BY <1>0, <2>5 DEF Throws, CoderTypes, Ended
  <2> QED
    BY <2>1, <2>2, <2>3, <2>4, <2>5
<1> QED
  BY <1>4, <1>6, <1>7, <1>8 DEF Life

\* It lets its streams go, and reports.
LEMMA CloseStep ==
  ASSUME IInv, Live, NEW c \in Coders, CloseRead(c) \/ CoderClosesWrite(c) \/ Finish(c)
  PROVE  Place(c)' /\ Life(c)'
<1>0. /\ Coder(c) /\ UNCHANGED <<main, created>> /\ Bonds' = Bonds /\ Size' = Size
      /\ InBonds(c)' = InBonds(c) /\ OutBonds(c)' = OutBonds(c)
      /\ InBonds(c) \subseteq Bonds /\ OutBonds(c) \subseteq Bonds
      /\ CoderTypes /\ EventTypes /\ Place(c) /\ Life(c)
  <2>1. Coder(c)
    BY DEF Coder
  <2> QED
    BY <2>1, SameGraph, CoderKeeps DEF IInv, TypeOK, LiveInv, Next, mainVars, InBonds, OutBonds
<1>1. pc[c] \in {"close", "unwind"}
  BY DEF CloseRead, CoderClosesWrite, Finish, Closing
<1>2. /\ mpc \in {"start", "code", "wait"} /\ Quiet(c) /\ ~NotBegun(c) /\ ~Alive(c)
      /\ mpc = "start" => c # main /\ c < idx
      /\ mpc = "wait" => c # main /\ c >= idx
      /\ mpc = "code" \/ c # main
      /\ pc[c] = "unwind" => c = main
  BY <1>1, AtWorkFacts DEF Alive, AtWork
<1>3. /\ UNCHANGED <<mpc, idx, calls, exit, startEvent, received, want, result, own>>
      /\ \A b \in Bonds : readOpen'[b] => readOpen[b]
  BY <1>0, CoderFrame DEF CloseRead, CoderClosesWrite, Finish, mainVars, threadVars, pipeVars
<1>4. ~Alive(c)'
  <2>1. pc'[c] \in {"close", "unwind", "done", "thrown", "wait"}
    BY <1>0, <1>1 DEF CloseRead, CoderClosesWrite, Finish, CoderTypes
  <2> QED
    BY <1>0, <1>2, <1>3, <2>1 DEF Alive, NotBegun, AtWork
<1>5. CASE CloseRead(c) \/ CoderClosesWrite(c)
  <2>1. UNCHANGED <<pc, finishedEvent>>
    BY <1>5 DEF CloseRead, CoderClosesWrite, threadVars
  <2>2. Place(c)'
    BY <1>0, <1>3, <2>1 DEF Place, Started, AtWork, Quiet
  <2>3. Ended(c) => Ended(c)'
    BY <1>0, <1>3, <2>1 DEF Ended, Given, Satisfied
  <2> QED
    BY <1>0, <1>1, <1>2, <1>3, <1>4, <2>1, <2>2, <2>3 DEF Life
<1>6. CASE Finish(c)
  <2>1. /\ c = main => /\ pc'[c] = (IF pc[c] = "unwind" THEN "thrown" ELSE "done")
                       /\ finishedEvent' = finishedEvent
        /\ c # main => pc'[c] = "wait" /\ finishedEvent'[c]
        /\ readOpen' = readOpen /\ writeOpen' = writeOpen
    BY <1>0, <1>6 DEF Finish, CoderTypes, EventTypes, pipeVars
  <2>2. Place(c)'
    BY <1>0, <1>2, <1>3, <2>1 DEF Place, Started, AtWork, Quiet
  <2>3. Gone(c)'
    BY <1>0, <1>6, <2>1 DEF Finish, Gone, Held
  <2>4. Ended(c) => Ended(c)'
    BY <1>0, <1>1, <1>2, <1>3, <2>1 DEF Ended, Given, Satisfied
  <2> QED
    BY <1>0, <1>2, <1>3, <1>4, <2>2, <2>3, <2>4 DEF Life
<1> QED
  BY <1>5, <1>6

\* What is offered, and what has ended.
LEMMA OffersStep ==
  ASSUME IInv, Live, NEW c \in Coders, Coder(c) PROVE Offers'
<1>0. /\ Bonds' = Bonds /\ Size' = Size
      /\ \A e : InBonds(e)' = InBonds(e) /\ OutBonds(e)' = OutBonds(e)
      /\ CoderTypes /\ PipeTypes /\ Reads /\ Offers
      /\ \A b \in Bonds : b[1] \in Coders /\ b[2] \in Coders
  BY SameGraph, GraphFacts DEF IInv, TypeOK, Streams, LiveInv, Next
<1> SUFFICES ASSUME NEW b \in Bonds, offered'[b]
             PROVE  /\ pc'[b[1]] = "write" /\ at'[b[1]] = b /\ received'[b] < Size
                    /\ \A i \in InBonds(b[1]) : received'[i] > received'[b] \/ Satisfied(i)'
  BY <1>0 DEF Offers
<1>1. CASE CoderWrites(c) /\ ~offered[b]
  <2>1. PICK e \in OutBonds(c) : /\ received[e] < Size
                                 /\ \A i \in InBonds(c) : received[i] > received[e] \/ Satisfied(i)
                                 /\ at' = [at EXCEPT ![c] = e]
                                 /\ offered' = [offered EXCEPT ![e] = TRUE]
    BY <1>1 DEF CoderWrites
  <2>2. e = b /\ b[1] = c
    BY <1>0, <1>1, <2>1 DEF OutBonds, PipeTypes
  <2>3. pc'[c] = "write" /\ at'[c] = b /\ received' = received /\ want' = want
    BY <1>0, <1>1, <2>1, <2>2 DEF CoderWrites, CoderTypes
  <2> QED
    BY <2>1, <2>2, <2>3 DEF Satisfied
<1>2. CASE offered[b]
  <2>1. /\ pc[b[1]] = "write" /\ at[b[1]] = b /\ received[b] < Size
        /\ \A i \in InBonds(b[1]) : received[i] > received[b] \/ Satisfied(i)
    BY <1>0, <1>2 DEF Offers
  <2>2. b[1] # c
    <3> SUFFICES ASSUME b[1] = c PROVE FALSE
      OBVIOUS
    <3>1. WriteReturns(c) \/ CoderIsCut(c)
      BY <2>1 DEF Coder, WaitStart, CoderReads, ReadData, ReadEnd, CoderWrites, Succeeds,
         EndsEarly, Fails, Throws, CloseRead, CoderClosesWrite, Finish, Closing
    <3> QED
      BY <1>0, <1>2, <2>1, <3>1 DEF WriteReturns, CoderIsCut, PipeTypes
  <2>3. pc'[b[1]] = "write" /\ at'[b[1]] = b
    BY <1>0, <2>1, <2>2, CoderFrame
  <2>4. received'[b] = received[b]
    <3>1. CASE ReadData(c)
      BY <1>0, <3>1 DEF ReadData, PipeTypes, Reads, InBonds
    <3>2. CASE ~ReadData(c)
      BY <3>2 DEF Coder, WaitStart, CoderReads, ReadEnd, CoderWrites, WriteReturns, CoderIsCut,
         Returns, Succeeds, EndsEarly, Fails, Throws, CloseRead, CoderClosesWrite, Finish, pipeVars
    <3> QED
      BY <3>1, <3>2
  <2>5. \A i \in InBonds(b[1]) : i \in Bonds /\ i \notin InBonds(c)
    BY <2>2 DEF InBonds
  <2>6. \A i \in InBonds(b[1]) : received'[i] = received[i] /\ want'[i] = want[i]
    BY <2>5, CoderFrame
  <2> QED
    BY <2>1, <2>3, <2>4, <2>6 DEF Satisfied
<1>3. CASE ~CoderWrites(c) /\ ~offered[b]
  BY <1>0, <1>3 DEF PipeTypes, Coder, WaitStart, CoderReads, ReadData, ReadEnd, WriteReturns,
     CoderIsCut, Returns, Succeeds, EndsEarly, Fails, Throws, CloseRead, CoderClosesWrite, Finish,
     pipeVars
<1> QED
  BY <1>1, <1>2, <1>3

\* A reader meets the end of its data only if a coder has failed: the writer has let go of
\* the stream, and would else have given all that the reader wants.
LEMMA NoEarlyEndStep ==
  ASSUME IInv, Live, NEW c \in Coders, Coder(c) PROVE NoEarlyEnd'
<1>0. /\ Bonds' = Bonds /\ own \subseteq own'
      /\ PipeTypes /\ Reads /\ Wants /\ NoEarlyEnd /\ LiveInv /\ Called /\ Size \in Nat
      /\ \A b \in Bonds : b[1] \in Coders /\ b[2] \in Coders
  BY SameGraph, GraphFacts, CoderFrame DEF IInv, TypeOK, Streams, LiveInv, Next
<1>1. CASE ReadEnd(c)
  <2> DEFINE b == at[c]
  <2> SUFFICES ASSUME own = {} PROVE FALSE
    BY <1>0 DEF NoEarlyEnd
  <2>1. /\ pc[c] = "read" /\ ~writeOpen[b] /\ b \in InBonds(c) /\ b \in Bonds
        /\ received[b] < want[b]
    BY <1>0, <1>1 DEF ReadEnd, Reads, InBonds
  <2>2. mpc # "idle" /\ Fresh(c)
    BY <2>1, AtWorkFacts DEF AtWork
  <2>3. b \in OutBonds(b[1]) /\ b[1] \in Coders /\ Life(b[1])
    BY <1>0, <2>1 DEF OutBonds, LiveInv
  <2>4. Ended(b[1])
    BY <1>0, <2>1, <2>2, <2>3 DEF Life, Fresh, Called
  <2>5. Given(b) /\ readOpen[b]
    BY <2>1, <2>2, <2>3, <2>4 DEF Ended, Fresh
  <2> QED
    BY <1>0, <2>1, <2>5 DEF Given, Wants, PipeTypes
<1>2. CASE ~ReadEnd(c)
  BY <1>0, <1>2, CoderFrame DEF NoEarlyEnd
<1> QED
  BY <1>1, <1>2

LEMMA CoderStep ==
  ASSUME IInv, Live, NEW c \in Coders, Coder(c) PROVE LiveInv'
<1>0. /\ LiveInv /\ UNCHANGED <<mpc, idx, calls, ret>> /\ Coders' = Coders
  BY CoderFrame DEF IInv, Coders
<1>1. Place(c)' /\ Life(c)'
  BY WorkStep, ReturnStep, CloseStep DEF Coder
<1>2. \A d \in Coders : d # c => Place(d)' /\ Life(d)'
  BY OtherCoders
<1>3. mpc # "idle"
  BY AtWorkFacts DEF Coder, WaitStart, CoderReads, ReadData, ReadEnd, CoderWrites, WriteReturns,
     CoderIsCut, Succeeds, EndsEarly, Fails, Throws, CloseRead, CoderClosesWrite, Finish, Closing
<1> QED
  BY <1>0, <1>1, <1>2, <1>3, OffersStep, NoEarlyEndStep DEF LiveInv, Called, Verdict

-----------------------------------------------------------------------------
(* A step of the caller *)

\* Before the threads begin nothing is offered.
LEMMA BeginStep == ASSUME IInv, Begin PROVE LiveInv'
<1>0. /\ Bonds' = Bonds /\ Coders' = Coders /\ Coders \subseteq Nat
      /\ \A e : InBonds(e)' = InBonds(e) /\ OutBonds(e)' = OutBonds(e)
      /\ LiveInv /\ calls \in Nat /\ Coders = 1 .. NumCoders
  <2>1. Live
    BY DEF Begin, Live
  <2> QED
    BY <2>1, SameGraph, GraphFacts DEF IInv, TypeOK, CallerTypes, Next, Caller, Coders
<1>1. /\ mpc = "idle" /\ mpc' = "create" /\ idx' = 1 /\ calls' = calls + 1 /\ own' = {}
      /\ UNCHANGED <<created, pc, startEvent, finishedEvent, exit>>
      /\ \A b \in Bonds : ~offered'[b] /\ ~ended'[b] /\ readOpen'[b] /\ writeOpen'[b]
  BY DEF Begin, threadVars
<1>2. ASSUME NEW c \in Coders PROVE Place(c)' /\ Life(c)'
  <2>1. Place(c)'
    BY <1>0, <1>1, <1>2 DEF LiveInv, Place, Quiet
  <2>2. Alive(c)' /\ Fresh(c)'
    BY <1>0, <1>1 DEF Alive, NotBegun, Fresh, InBonds, OutBonds
  <2> QED
    BY <2>1, <2>2 DEF Life
<1> QED
  BY <1>0, <1>1, <1>2 DEF LiveInv, Called, Offers, NoEarlyEnd, Verdict

\* The steps of Code that only pass coders on.
LEMMA PassStep ==
  ASSUME IInv, Create \/ Created \/ Start \/ MainCode \/ MainReturns \/ WaitExecuteFinish,
         Live'
  PROVE  LiveInv'
<1>0. /\ Bonds' = Bonds /\ main' = main /\ Coders' = Coders /\ Size' = Size
      /\ main \in Coders /\ Helpers = Coders \ {main}
      /\ \A e : InBonds(e)' = InBonds(e) /\ OutBonds(e)' = OutBonds(e)
      /\ \A b \in Bonds : b[1] \in Coders /\ b[2] \in Coders
      /\ LiveInv /\ Called /\ Offers /\ NoEarlyEnd
      /\ idx \in 0 .. NumCoders + 1 /\ NumCoders \in Nat \ {0} /\ Coders = 1 .. NumCoders
      /\ CoderTypes /\ EventTypes
  <2>1. Live /\ ~Begin
    BY DEF Create, Created, Start, MainCode, MainReturns, WaitExecuteFinish, Live, Begin
  <2> QED
    BY <2>1, SameGraph, GraphFacts
    DEF IInv, LiveInv, TypeOK, CallerTypes, Next, Caller, Coders, Helpers
<1>1. /\ mpc \in {"create", "start", "code", "wait"} /\ idx >= 1 /\ calls > 0
      /\ UNCHANGED <<calls, result, own, pipeVars>>
      /\ mpc' \in {"create", "start", "code", "wait"} /\ idx' >= 1
  BY <1>0 DEF Called, Create, Created, Start, MainCode, MainReturns, WaitExecuteFinish, Live
<1>2. ASSUME NEW c \in Coders
      PROVE  /\ Place(c)' /\ (Alive(c)' <=> Alive(c))
             /\ pc[c] # "write" \/ pc'[c] = "write"
             /\ pc'[c] \in {"close", "unwind"} <=> pc[c] \in {"close", "unwind"}
             /\ pc'[c] \in {"unwind", "thrown"} <=> pc[c] \in {"unwind", "thrown"}
  <2>0. Place(c)
    BY <1>0 DEF LiveInv
  <2>1. CASE Create
    <3>1. /\ mpc = "create" /\ mpc' = "create" /\ idx' = idx + 1 /\ idx \in Coders
          /\ pc[c] \in {"none", "wait"} /\ ~exit[c] /\ Quiet(c)
          /\ pc[c] = "wait" <=> c \in created
          /\ c # main /\ c < idx => pc[c] = "wait"
      BY <2>0, <2>1 DEF Create, Place
    <3>2. /\ Quiet(c)' /\ ~exit'[c]
          /\ pc'[c] = IF c = idx /\ c # main THEN "wait" ELSE pc[c]
          /\ c \in created' <=> c \in created \/ (c = idx /\ c # main)
      <4>1. CASE idx = main
        BY <1>0, <2>1, <3>1, <4>1 DEF Create, Quiet, threadVars
      <4>2. CASE idx # main
        BY <1>0, <2>1, <3>1, <4>2 DEF Create, Quiet, CoderTypes, EventTypes
      <4> QED
        BY <4>1, <4>2
    <3>3. c < idx' /\ c # idx => c < idx
      BY <1>0, <3>1
    <3> QED
      BY <1>0, <3>1, <3>2, <3>3 DEF Place, Alive, NotBegun, AtWork
  <2>2. CASE Created
    BY <1>0, <1>1, <2>0, <2>2 DEF Created, Place, Alive, NotBegun, AtWork, Quiet, threadVars
  <2>3. CASE Start
    <3>1. /\ mpc = "start" /\ mpc' = "start" /\ idx' = idx + 1 /\ idx \in Coders
          /\ UNCHANGED <<created, pc, finishedEvent>>
          /\ c # idx \/ c = main => startEvent'[c] = startEvent[c] /\ exit'[c] = exit[c]
          /\ c = idx /\ c # main => startEvent'[c] /\ ~exit'[c]
      BY <1>0, <2>3 DEF Start, EventTypes
    <3> QED
      BY <1>0, <2>0, <3>1 DEF Place, Alive, NotBegun, AtWork, Quiet, Started
  <2>4. CASE MainCode
    <3>1. /\ mpc = "start" /\ mpc' = "code" /\ idx \notin Coders
          /\ UNCHANGED <<created, threadVars>>
          /\ pc'[c] = IF c = main THEN "run" ELSE pc[c]
      BY <1>0, <2>4 DEF MainCode, CoderTypes
    <3> QED
      BY <1>0, <1>1, <2>0, <3>1
      DEF Place, Alive, NotBegun, AtWork, Quiet, Started, threadVars
  <2>5. CASE MainReturns
    <3>1. /\ mpc = "code" /\ mpc' = "wait" /\ idx' = 1
          /\ UNCHANGED <<created, threadVars>>
          /\ pc'[c] = IF c = main THEN (IF main \in created THEN "wait" ELSE "none") ELSE pc[c]
          /\ pc[main] = "done"
      BY <1>0, <1>1, <2>5 DEF MainReturns, CoderTypes
    <3> QED
      BY <1>0, <2>0, <3>1 DEF Place, Alive, NotBegun, AtWork, Quiet, Started, threadVars
  <2>6. CASE WaitExecuteFinish
    <3>1. /\ mpc = "wait" /\ mpc' = "wait" /\ idx' = idx + 1 /\ idx \in Coders
          /\ UNCHANGED <<created, pc, startEvent, exit>>
          /\ c # idx \/ c = main => finishedEvent'[c] = finishedEvent[c]
          /\ c = idx /\ c # main => finishedEvent[c] /\ ~finishedEvent'[c]
      BY <1>0, <2>6 DEF WaitExecuteFinish, EventTypes, Waited
    <3> QED
      BY <1>0, <2>0, <3>1 DEF Place, Alive, NotBegun, AtWork, Quiet, Started
  <2> QED
    BY <2>1, <2>2, <2>3, <2>4, <2>5, <2>6
<1>3. ASSUME NEW c \in Coders PROVE Life(c)'
  <2>1. Life(c)
    BY <1>0 DEF LiveInv
  <2>2. (Fresh(c)' <=> Fresh(c)) /\ (Gone(c)' <=> Gone(c))
    BY <1>0, <1>1 DEF Fresh, Gone, pipeVars
  <2>3. Ended(c)' <=> Ended(c)
    BY <1>0, <1>1, <1>2 DEF Ended, Given, Satisfied, pipeVars
  <2> QED
    BY <1>1, <1>2, <2>1, <2>2, <2>3 DEF Life
<1>4. at' = at
  BY DEF Create, Created, Start, MainCode, MainReturns, WaitExecuteFinish
<1>5. Offers'
  BY <1>0, <1>1, <1>2, <1>4 DEF Offers, Satisfied, pipeVars
<1> QED
  BY <1>0, <1>1, <1>2, <1>3, <1>5 DEF LiveInv, Called, NoEarlyEnd, Verdict, pipeVars

\* All coders have returned: the result says whether one of them failed, and how.
LEMMA ReturnCode == ASSUME IInv, Return PROVE LiveInv'
<1>0. /\ Bonds' = Bonds /\ main' = main /\ Coders' = Coders /\ Size' = Size
      /\ main \in Coders
      /\ \A e : InBonds(e)' = InBonds(e) /\ OutBonds(e)' = OutBonds(e)
      /\ LiveInv /\ Called /\ Offers /\ NoEarlyEnd
      /\ idx \in 0 .. NumCoders + 1 /\ NumCoders \in Nat \ {0} /\ Coders = 1 .. NumCoders
      /\ own \subseteq Coders
  <2>1. Live /\ ~Begin
    BY DEF Return, Live, Begin
  <2> QED
    BY <2>1, SameGraph, GraphFacts
    DEF IInv, LiveInv, TypeOK, CallerTypes, CoderTypes, Next, Caller, Coders
<1>1. /\ mpc = "wait" /\ mpc' = "idle" /\ idx \notin Coders /\ calls > 0 /\ ret' = Chosen
      /\ UNCHANGED <<created, calls, pc, at, result, threadVars, pipeVars, own>>
  BY <1>0 DEF Return, Called
<1>2. ASSUME NEW c \in Coders
      PROVE  /\ Place(c)' /\ ~Alive(c) /\ ~Alive(c)' /\ Ended(c)
             /\ pc[c] \in {"none", "wait"}
  <2>1. Place(c) /\ Life(c) /\ ~(c >= idx)
    BY <1>0, <1>1 DEF LiveInv, Called
  <2>2. Quiet(c) /\ pc[c] \in {"none", "wait"}
    BY <1>1, <2>1 DEF Place
  <2>3. ~Alive(c) /\ ~Alive(c)'
    BY <1>1, <2>2 DEF Alive, NotBegun, AtWork, Quiet
  <2>4. Place(c)'
    BY <1>0, <1>1, <2>1, <2>2 DEF Place, Quiet, threadVars
  <2> QED
    BY <1>1, <2>1, <2>2, <2>3, <2>4 DEF Life
<1>3. ASSUME NEW c \in Coders PROVE Life(c)'
  <2>1. Life(c)
    BY <1>0 DEF LiveInv
  <2>2. (Gone(c)' <=> Gone(c)) /\ (Ended(c)' <=> Ended(c))
    BY <1>0, <1>1 DEF Gone, Ended, Given, Satisfied, pipeVars
  <2> QED
    BY <1>1, <1>2, <2>1, <2>2 DEF Life
<1>4. Offers' /\ NoEarlyEnd'
  BY <1>0, <1>1 DEF Offers, NoEarlyEnd, Satisfied, pipeVars
<1>5. Verdict'
  <2>1. \A c \in Coders : /\ c \in own => result[c] \in OwnErrors
                          /\ c \notin own => result[c] \in {"OK", "CUT", "FALSE"}
                          /\ own = {} => result[c] # "FALSE"
    BY <1>2 DEF Ended
  <2>2. /\ Classes[1] = "ABORT" /\ Classes[2] = "MEM" /\ Classes[3] = "WRITE"
        /\ Classes[4] = "FALSE" /\ Classes[5] = "FAIL"
    BY DEF Classes
  <2>3. OwnErrors = {Classes[i] : i \in 1 .. 5}
    BY <2>2 DEF OwnErrors
  <2>4. CASE Chosen = "OK" /\ \A i \in 1 .. 5, c \in Coders : result[c] # Classes[i]
    <3>1. own = {}
      BY <1>0, <2>1, <2>3, <2>4
    <3> QED
      BY <1>1, <2>4, <3>1 DEF Verdict
  <2>5. ASSUME NEW k \in 1 .. 5, Chosen = Classes[k], NEW c \in Coders,
               result[c] = Classes[k],
               \A j \in 1 .. 5, d \in Coders : result[d] = Classes[j] => k <= j
        PROVE  Verdict'
    <3>1. own # {} /\ Chosen # "OK"
      BY <2>1, <2>2, <2>5
    <3>2. CASE c \in own
      BY <1>1, <2>5, <3>1, <3>2 DEF Verdict
    <3>3. CASE c \notin own
      <4>1. k = 4
        BY <2>1, <2>2, <2>5, <3>3
      <4>2. \A d \in own : result[d] \in {"FALSE", "FAIL"}
        BY <1>0, <2>1, <2>2, <2>5, <4>1 DEF OwnErrors
      <4>3. Chosen = "FALSE"
        BY <2>2, <2>5, <4>1
      <4> QED
        BY <1>1, <3>1, <4>2, <4>3 DEF Verdict
    <3> QED
      BY <3>2, <3>3
  <2> QED
    BY <2>4, <2>5, ChosenFirst
<1> QED
  BY <1>0, <1>1, <1>2, <1>3, <1>4, <1>5 DEF LiveInv, Called

-----------------------------------------------------------------------------
\* Every step keeps the invariant.
LEMMA Inductive == ASSUME IInv, [Next]_vars PROVE IInv'
<1>1. TypeOK' /\ Streams'
  BY TypeStep, StreamsStep DEF IInv
<1>2. ASSUME Live' PROVE LiveInv'
  <2>1. CASE UNCHANGED vars
    <3>1. Live /\ LiveInv
      BY <1>2, <2>1 DEF vars, mainVars, Live, IInv
    <3> QED
      BY <2>1, <3>1
      DEF vars, mainVars, threadVars, pipeVars, LiveInv, Called, Place, Life, Offers,
          NoEarlyEnd, Verdict, Quiet, Started, AtWork, Alive, NotBegun, Fresh, Gone, Ended,
          Given, Satisfied, InBonds, OutBonds, Bonds, Size
  <2>2. ASSUME NEW c \in Coders, Coder(c) PROVE LiveInv'
    BY <1>2, <2>2, CoderFrame, CoderStep DEF Live
  <2>3. CASE Caller
    BY <1>2, <2>3, BeginStep, PassStep, ReturnCode
    DEF Caller, CreateFails, Destroy, StopThread, JoinThread, Destroyed, Live
  <2> QED
    BY <2>1, <2>2, <2>3 DEF Next, Finished
<1> QED
  BY <1>1, <1>2 DEF IInv

\* A mixer that was just made satisfies it.
LEMMA Initial == ASSUME Init PROVE IInv
<1>1. /\ graph \in Graphs /\ main \in Coders /\ Size \in Nat \ {0}
      /\ NumCoders \in Nat \ {0} /\ NumCalls \in Nat /\ Coders = 1 .. NumCoders
  BY ConstantsAssumption DEF Init, Size, Coders
<1>2. TypeOK
  <2>1. CallerTypes
    BY <1>1 DEF Init, CallerTypes, Results
  <2>2. CoderTypes
    BY <1>1, ConstantsAssumption DEF Init, CoderTypes, Results
  <2>3. EventTypes
    BY DEF Init, EventTypes
  <2>4. PipeTypes
    BY <1>1 DEF Init, PipeTypes
  <2> QED
    BY <2>1, <2>2, <2>3, <2>4 DEF TypeOK
<1>3. Streams
  BY <1>1 DEF Init, Streams, Wants, Reads, Writes
<1>4. ASSUME NEW c \in Coders PROVE Place(c) /\ Life(c)
  BY <1>1 DEF Init, Place, Quiet, Life, Alive, NotBegun, AtWork, Gone, InBonds, OutBonds
<1>5. LiveInv
  BY <1>4 DEF Init, LiveInv, Called, Offers, NoEarlyEnd, Verdict
<1> QED
  BY <1>2, <1>3, <1>5 DEF IInv

\* When Code has returned nothing is left.
LEMMA Resting == ASSUME IInv PROVE Consistent
<1>1. CASE mpc = "idle"
  <2>1. LiveInv /\ \A b \in Bonds : b[1] \in Coders
    BY <1>1, GraphFacts DEF IInv, Live
  <2>2. \A c \in Coders : /\ pc[c] \in {"none", "wait"} /\ Quiet(c) /\ ~Alive(c)
                          /\ Gone(c)
    BY <1>1, <2>1 DEF LiveInv, Place, Life, Alive, NotBegun, AtWork
  <2>3. \A c \in Coders : \A b \in InBonds(c) : ~offered[b]
    BY <2>1, <2>2 DEF LiveInv, Offers, InBonds
  <2> QED
    BY <2>2, <2>3 DEF Consistent, IInv, Quiet, Gone
<1> QED
  BY <1>1 DEF Consistent, IInv

LEMMA Judging == ASSUME IInv PROVE OkMeansWhole /\ CauseNamed
<1> SUFFICES ASSUME mpc = "idle", calls > 0 PROVE OkMeansWhole /\ CauseNamed
  BY DEF OkMeansWhole, CauseNamed
<1>1. LiveInv /\ Verdict /\ \A b \in Bonds : b[2] \in Coders
  BY GraphFacts DEF IInv, Live, LiveInv
<1>2. \A c \in Coders : Ended(c)
  BY <1>1 DEF LiveInv, Place, Life, Alive, NotBegun, AtWork
<1>3. own = {} => \A b \in Bonds : Satisfied(b)
  BY <1>1, <1>2 DEF Ended, InBonds
<1> QED
  BY <1>1, <1>3 DEF Verdict, OkMeansWhole, CauseNamed

\* Whatever the graph is, however many coders there are and whatever fails: the state keeps
\* its types, and when CMixerMT::Code has returned no coder runs, all streams are released
\* and no event is left for the next call.
THEOREM QuietAfterCode == Spec => []Consistent
  BY Initial, Inductive, Resting, PTL DEF Spec

\* CMixerMT::Code returns S_OK just when no coder failed by itself, and then each has got
\* all the data it needed.
THEOREM OkIsWhole == Spec => []OkMeansWhole
<1>1. IInv => OkMeansWhole
  BY Judging
<1> QED
  BY <1>1, Initial, Inductive, PTL DEF Spec

\* A failure is reported with one of its causes, unless all of these are E_FAIL.
THEOREM CauseIsNamed == Spec => []CauseNamed
<1>1. IInv => CauseNamed
  BY Judging
<1> QED
  BY <1>1, Initial, Inductive, PTL DEF Spec
=============================================================================
