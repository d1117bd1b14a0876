--------------------------- MODULE BZip2EncProofs ---------------------------
(* Proof that the threads of the bzip2 encoder (BZip2Enc) keep the stream   *)
(* whole, for any number of threads, any inputs and any faults.             *)
EXTENDS BZip2Enc, FiniteSetTheorems, TLAPS

Written == Len(out)
Lost    == "WRITE" \in failed     \* the turn is lost with the thread that could not write
Wrap(i) == IF i < numThreads THEN i ELSE i - numThreads
All(p)  == \A t \in Threads : pc[t] = p
AtRest  == All(IF MtMode THEN "canProcess" ELSE "none")
Holds(t)  == pc[t] \in {"encode", "write"}
Reading(t) == pc[t] \in {"inside", "read"}
InTurn(t) == pc[t] \in {"write", "report"}

\* Parts of StreamIsWhole: what is out, and what may be returned.
InOrder == \A i \in 1 .. Len(out) : out[i] = i
CrcIsOut == crc = out
Answer(r) == IF r = "OK" THEN failed = {} /\ Len(out) = size /\ crc = out ELSE r \in failed

\* The critical section, and who may be in it.
Section == \A t \in Threads : Reading(t) <=> cs = t

\* The blocks that were read but are not out lie with one thread each, but for the one
\* that could not be written.
Held ==
  /\ taken <= size /\ Written <= taken
  /\ \A t \in Threads : Holds(t) => block[t] \in Written + 1 .. taken
  /\ \A t, u \in Threads : Holds(t) /\ Holds(u) /\ block[t] = block[u] => t = u
  /\ \A b \in Written + 1 .. taken :
       \/ \E t \in Threads : Holds(t) /\ block[t] = b
       \/ Lost /\ b = Written + 1

\* p is the place whose turn it is or will be: its event is set, or one thread is in its
\* turn and will set it.
Turn(p) ==
  \/ canWrite = [Off EXCEPT ![p] = TRUE] /\ \A t \in Threads : ~InTurn(t)
  \/ /\ canWrite = Off
     /\ \E u \in Threads :
          /\ \A t \in Threads : InTurn(t) => t = u
          /\ \/ pc[u] = "write" /\ block[u] = Written + 1 /\ blockIndex[u] = p
             \/ pc[u] = "report" /\ Next1(blockIndex[u]) = p

\* The blocks lie around the ring from there on.
Around(p) ==
  /\ \A t \in Threads : Holds(t) => blockIndex[t] = Wrap(p + block[t] - 1 - Written)
  /\ ~streamWasFinished \/ (\E t \in Threads : pc[t] = "read")
       => nextBlockIndex = Wrap(p + taken - Written)

Ring ==
  /\ Lost => canWrite = Off /\ \A t \in Threads : ~InTurn(t)
  /\ ~Lost => /\ crc = out /\ taken - Written <= numThreads
              /\ \E p \in Threads : Turn(p) /\ Around(p)

\* Errors on their way to result, and why the stream was ended.
Errors ==
  /\ result # "OK" => result \in failed
  /\ \A t \in Threads : pc[t] = "failed" => res[t] \in failed /\ res[t] # "OK"
  /\ failed # {} => result # "OK" \/ \E t \in Threads : pc[t] = "failed"
  /\ streamWasFinished => taken = size \/ result # "OK"
  /\ \A t \in Threads : pc[t] = "finished" => streamWasFinished

Working ==
  /\ MtMode /\ canProcess /\ ~canStartWaiting /\ ~closeThreads
  /\ \A t \in Threads : pc[t] \notin {"none", "ended"}
  /\ \A t \in Threads : finishedEvent[t] \/ t < idx => pc[t] = "finished"
  /\ Section /\ Held /\ Ring /\ Errors

\* What the threads leave behind: result is what Code may return before the footer.
Left == Answer(result)

Invited == calls > 0 => Answer(ret)

Phases ==
  /\ mpc \notin {"gather", "join", "gone"} => cs = Nobody /\ ~canProcess
  /\ mpc = "idle" => Invited /\ (AtRest \/ All("none"))
  /\ mpc = "create" => /\ MtMode
                       /\ \A t \in Threads : pc[t] = IF t < idx THEN "canProcess" ELSE "none"
  /\ mpc \in {"create", "start"} => ret = "OK" /\ taken = 0 /\ out = <<>> /\ failed = {}
  /\ mpc \in {"start", "single", "footer"} => AtRest
  /\ mpc = "gather" => Working
  /\ mpc = "release" => MtMode /\ All("finished") /\ ~canStartWaiting /\ Left
  /\ mpc \in {"gather", "release"} => \A t \in Threads : ~waitingEvent[t]
  /\ mpc = "drain" => /\ MtMode /\ canStartWaiting /\ Left
                      /\ \A t \in Threads : pc[t] \in {"finished", "canProcess"}
                      /\ \A t \in Threads : waitingEvent[t] \/ t < idx => pc[t] = "canProcess"
  /\ mpc = "single" => ~MtMode /\ failed = {} /\ ret = "OK" /\ Written = taken /\ taken <= size
  /\ mpc = "footer" => failed = {} /\ Written = size
  /\ mpc = "join" => closeThreads /\ \A t \in Threads :
                       pc[t] \in {"none", "canProcess", "enter", "inside", "ended"}
  /\ mpc = "gone" => \A t \in Threads : pc[t] \in {"none", "ended"}

Crc == crc = out \/ (crc = Append(out, Len(out) + 1) /\ Lost)
CrcRight == mpc \in {"create", "start", "single", "footer"} => crc = out

IInv == TypeOK /\ InOrder /\ Crc /\ CrcRight /\ Phases

-----------------------------------------------------------------------------
\* There is at least one thread.
LEMMA Counts == ASSUME TypeOK PROVE numThreads \in Nat \ {0}
BY ConstantsAssumption DEF TypeOK

\* The place after a place of the ring is one too.
LEMMA NextType ==
  ASSUME TypeOK, NEW i \in Threads PROVE Next1(i) \in Threads
BY Counts DEF Next1, Threads

\* The five parts of the state keep their types.
LEMMA CallerTypesStep == ASSUME TypeOK, [Next]_vars PROVE CallerTypes'
<1> USE DEF TypeOK, CallerTypes, Threads, Nobody, CallerPlaces, Places, FaultKinds, Fault,
    callerVars, threadVars, eventVars, sharedVars, streamVars
<1>0. numThreads \in Nat \ {0} /\ Sizes \subseteq Nat
  BY Counts, ConstantsAssumption
<1>1. CASE Call BY <1>0, <1>1 DEF Call
<1>2. CASE CreateThread \/ Created \/ CreateFails \/ Destroy \/ Join \/ AllocFails \/
    Start
  BY <1>0, <1>2 DEF CreateThread, Created, CreateFails, Destroy, Join, AllocFails, Start,
      Free, FirstPlace, MtMode, Off
<1>3. CASE Gather \/ Gathered \/ Release \/ Drain \/ Drained
  <2>1. CASE Gather BY <1>0, <2>1 DEF Gather
  <2>2. CASE Drain BY <1>0, <2>2 DEF Drain
  <2>3. CASE Gathered \/ Release
    BY <1>0, <2>3 DEF Gathered, Release
  <2>4. CASE Drained BY <1>0, <2>4 DEF Drained, SharedTypes
  <2> QED BY <1>3, <2>1, <2>2, <2>3, <2>4
<1>4. CASE SingleBlock \/ SingleReadFails \/ SingleEnd \/ Footer
  BY <1>0, <1>4 DEF SingleBlock, SingleReadFails, SingleEnd, Footer
<1>5. ASSUME NEW t \in Threads, Thread(t) PROVE CallerTypes'
  <2> USE DEF At, GoTo, FinishStream
  <2>1. CASE PassCanProcess(t) \/ Enter(t) \/ ThreadEnds(t) \/ SeesFinished(t) \/
      LooksAtEnd(t)
    BY <1>0, <2>1 DEF PassCanProcess, Enter, ThreadEnds, SeesFinished, LooksAtEnd
  <2>2. CASE ReadBlock(t) \/ ReadEnd(t) \/ ReadFails(t)
    BY <1>0, <2>2 DEF ReadBlock, ReadEnd, ReadFails, TakeIndex, Next1
  <2>3. CASE TakeTurn(t) \/ Write(t) \/ WriteFails(t)
    BY <1>0, <2>3 DEF TakeTurn, Write, WriteFails, Combine
  <2>4. CASE Report(t) \/ Failed(t) \/ StartWaiting(t)
    BY <1>0, <2>4 DEF Report, WakeNext, Failed, StartWaiting, Next1
  <2> QED BY <1>5, <2>1, <2>2, <2>3, <2>4 DEF Thread
<1>6. CASE UNCHANGED vars BY <1>6 DEF vars
<1> QED BY <1>1, <1>2, <1>3, <1>4, <1>5, <1>6 DEF Next, Caller, Stopped

LEMMA ThreadTypesStep == ASSUME TypeOK, [Next]_vars PROVE ThreadTypes'
<1> USE DEF TypeOK, ThreadTypes, Threads, Nobody, CallerPlaces, Places, FaultKinds, Fault,
    callerVars, threadVars, eventVars, sharedVars, streamVars
<1>0. numThreads \in Nat \ {0} /\ Sizes \subseteq Nat
  BY Counts, ConstantsAssumption
<1>1. CASE Call BY <1>0, <1>1 DEF Call
<1>2. CASE CreateThread \/ Created \/ CreateFails \/ Destroy \/ Join \/ AllocFails \/
    Start
  BY <1>0, <1>2 DEF CreateThread, Created, CreateFails, Destroy, Join, AllocFails, Start,
      Free, FirstPlace, MtMode, Off
<1>3. CASE Gather \/ Gathered \/ Release \/ Drain \/ Drained
  BY <1>0, <1>3 DEF Gather, Gathered, Release, Drain, Drained
<1>4. CASE SingleBlock \/ SingleReadFails \/ SingleEnd \/ Footer
  BY <1>0, <1>4 DEF SingleBlock, SingleReadFails, SingleEnd, Footer
<1>5. ASSUME NEW t \in Threads, Thread(t) PROVE ThreadTypes'
  <2> USE DEF At, GoTo, FinishStream
  <2>1. CASE PassCanProcess(t) \/ Enter(t) \/ ThreadEnds(t) \/ SeesFinished(t) \/
      LooksAtEnd(t)
    BY <1>0, <2>1 DEF PassCanProcess, Enter, ThreadEnds, SeesFinished, LooksAtEnd
  <2>a. nextBlockIndex \in Threads /\ Next1(nextBlockIndex) \in Threads BY NextType DEF
      SharedTypes
  <2>2. CASE ReadBlock(t) \/ ReadEnd(t) \/ ReadFails(t)
    <3>1. CASE ReadBlock(t)
      <4>1. taken' \in Nat
        BY <3>1 DEF ReadBlock, StreamTypes
      <4> QED
        BY <2>a, <3>1, <4>1 DEF ReadBlock, TakeIndex
    <3>2. CASE ReadEnd(t)
      BY <1>0, <2>a, <3>2 DEF ReadEnd, TakeIndex
    <3>3. CASE ReadFails(t) BY <1>0, <3>3 DEF ReadFails
    <3> QED BY <2>2, <3>1, <3>2, <3>3
  <2>3. CASE TakeTurn(t) \/ Write(t) \/ WriteFails(t)
    BY <1>0, <2>3 DEF TakeTurn, Write, WriteFails, Combine
  <2>4. CASE Report(t) \/ Failed(t) \/ StartWaiting(t)
    <3>1. CASE Report(t) BY <1>0, <3>1 DEF Report
    <3>2. CASE Failed(t)
      <4>1. res[t] \in FaultKinds \cup {"OK"} BY DEF ThreadTypes
      <4> QED BY <1>0, <3>2, <4>1 DEF Failed
    <3>3. CASE StartWaiting(t)
      <4>1. 0 \in Threads /\ 0 \in Nat BY <1>0
      <4> QED BY <4>1, <3>3 DEF StartWaiting
    <3> QED BY <2>4, <3>1, <3>2, <3>3
  <2> QED BY <1>5, <2>1, <2>2, <2>3, <2>4 DEF Thread
<1>6. CASE UNCHANGED vars BY <1>6 DEF vars
<1> QED BY <1>1, <1>2, <1>3, <1>4, <1>5, <1>6 DEF Next, Caller, Stopped

LEMMA EventTypesStep == ASSUME TypeOK, [Next]_vars PROVE EventTypes'
<1> USE DEF TypeOK, EventTypes, Threads, Nobody, CallerPlaces, Places, FaultKinds, Fault,
    callerVars, threadVars, eventVars, sharedVars, streamVars
<1>0. numThreads \in Nat \ {0} /\ Sizes \subseteq Nat
  BY Counts, ConstantsAssumption
<1>1. CASE Call BY <1>0, <1>1 DEF Call
<1>2. CASE CreateThread \/ Created \/ CreateFails \/ Destroy \/ Join \/ AllocFails \/
    Start
  <2>1. CASE CreateThread \/ Created \/ CreateFails \/ Destroy \/ Join \/ AllocFails
    BY <1>0, <2>1 DEF CreateThread, Created, CreateFails, Destroy, Join, AllocFails, Free
  <2>2. CASE Start
    <3>1. Off \in [Threads -> BOOLEAN] /\ MtMode \in BOOLEAN BY DEF Off, MtMode
    <3>2. FirstPlace \in [Threads -> BOOLEAN] BY <3>1 DEF FirstPlace
    <3> QED BY <1>0, <2>2, <3>1, <3>2 DEF Start
  <2> QED BY <1>2, <2>1, <2>2
<1>3. CASE Gather \/ Gathered \/ Release \/ Drain \/ Drained
  BY <1>0, <1>3 DEF Gather, Gathered, Release, Drain, Drained
<1>4. CASE SingleBlock \/ SingleReadFails \/ SingleEnd \/ Footer
  BY <1>0, <1>4 DEF SingleBlock, SingleReadFails, SingleEnd, Footer
<1>5. ASSUME NEW t \in Threads, Thread(t) PROVE EventTypes'
  <2> USE DEF At, GoTo, FinishStream
  <2>1. CASE PassCanProcess(t) \/ Enter(t) \/ ThreadEnds(t) \/ SeesFinished(t) \/
      LooksAtEnd(t)
    BY <1>0, <2>1 DEF PassCanProcess, Enter, ThreadEnds, SeesFinished, LooksAtEnd
  <2>2. CASE ReadBlock(t) \/ ReadEnd(t) \/ ReadFails(t)
    BY <1>0, <2>2 DEF ReadBlock, ReadEnd, ReadFails, TakeIndex, Next1
  <2>3. CASE TakeTurn(t) \/ Write(t) \/ WriteFails(t)
    BY <1>0, <2>3 DEF TakeTurn, Write, WriteFails, Combine
  <2>4. CASE Report(t) \/ Failed(t) \/ StartWaiting(t)
    BY <1>0, <2>4 DEF Report, WakeNext, Failed, StartWaiting, Next1
  <2> QED BY <1>5, <2>1, <2>2, <2>3, <2>4 DEF Thread
<1>6. CASE UNCHANGED vars BY <1>6 DEF vars
<1> QED BY <1>1, <1>2, <1>3, <1>4, <1>5, <1>6 DEF Next, Caller, Stopped

LEMMA SharedTypesStep == ASSUME TypeOK, [Next]_vars PROVE SharedTypes'
<1> USE DEF TypeOK, SharedTypes, Threads, Nobody, CallerPlaces, Places, FaultKinds, Fault,
    callerVars, threadVars, eventVars, sharedVars, streamVars
<1>0. numThreads \in Nat \ {0} /\ Sizes \subseteq Nat
  BY Counts, ConstantsAssumption
<1>1. CASE Call BY <1>0, <1>1 DEF Call
<1>2. CASE CreateThread \/ Created \/ CreateFails \/ Destroy \/ Join \/ AllocFails \/
    Start
  <2>1. CASE CreateThread \/ Created \/ CreateFails \/ Destroy \/ Join \/ AllocFails
    BY <1>0, <2>1 DEF CreateThread, Created, CreateFails, Destroy, Join, AllocFails, Free
  <2>2. CASE Start
    <3>1. 0 \in Threads BY <1>0
    <3>2. result' \in FaultKinds \cup {"OK"} BY <2>2 DEF Start
    <3> QED BY <3>1, <3>2, <2>2 DEF Start
  <2> QED BY <1>2, <2>1, <2>2
<1>3. CASE Gather \/ Gathered \/ Release \/ Drain \/ Drained
  BY <1>0, <1>3 DEF Gather, Gathered, Release, Drain, Drained
<1>4. CASE SingleBlock \/ SingleReadFails \/ SingleEnd \/ Footer
  BY <1>0, <1>4 DEF SingleBlock, SingleReadFails, SingleEnd, Footer
<1>5. ASSUME NEW t \in Threads, Thread(t) PROVE SharedTypes'
  <2> USE DEF At, GoTo, FinishStream
  <2>1. CASE PassCanProcess(t) \/ Enter(t) \/ ThreadEnds(t) \/ SeesFinished(t) \/
      LooksAtEnd(t)
    BY <1>0, <2>1 DEF PassCanProcess, Enter, ThreadEnds, SeesFinished, LooksAtEnd
  <2>a. nextBlockIndex \in Threads /\ Next1(nextBlockIndex) \in Threads BY NextType DEF
      SharedTypes
  <2>2. CASE ReadBlock(t) \/ ReadEnd(t) \/ ReadFails(t)
    <3>1. CASE ReadBlock(t)
      BY <1>0, <2>a, <3>1 DEF ReadBlock, TakeIndex
    <3>2. CASE ReadEnd(t)
      BY <1>0, <2>a, <3>2 DEF ReadEnd, TakeIndex
    <3>3. CASE ReadFails(t) BY <1>0, <3>3 DEF ReadFails
    <3> QED BY <2>2, <3>1, <3>2, <3>3
  <2>3. CASE TakeTurn(t) \/ Write(t) \/ WriteFails(t)
    BY <1>0, <2>3 DEF TakeTurn, Write, WriteFails, Combine
  <2>4. CASE Report(t) \/ Failed(t) \/ StartWaiting(t)
    <3>1. CASE Report(t) BY <1>0, <3>1 DEF Report
    <3>2. CASE Failed(t)
      <4>1. res[t] \in FaultKinds \cup {"OK"} BY DEF ThreadTypes
      <4> QED BY <1>0, <3>2, <4>1 DEF Failed
    <3>3. CASE StartWaiting(t)
      BY <1>0, <3>3 DEF StartWaiting
    <3> QED BY <2>4, <3>1, <3>2, <3>3
  <2> QED BY <1>5, <2>1, <2>2, <2>3, <2>4 DEF Thread
<1>6. CASE UNCHANGED vars BY <1>6 DEF vars
<1> QED BY <1>1, <1>2, <1>3, <1>4, <1>5, <1>6 DEF Next, Caller, Stopped

LEMMA StreamTypesStep == ASSUME TypeOK, [Next]_vars PROVE StreamTypes'
<1> USE DEF TypeOK, StreamTypes, Threads, Nobody, CallerPlaces, Places, FaultKinds, Fault,
    callerVars, threadVars, eventVars, sharedVars, streamVars
<1>0. numThreads \in Nat \ {0} /\ Sizes \subseteq Nat
  BY Counts, ConstantsAssumption
<1>1. CASE Call BY <1>0, <1>1 DEF Call
<1>2. CASE CreateThread \/ Created \/ CreateFails \/ Destroy \/ Join \/ AllocFails \/
    Start
  BY <1>0, <1>2 DEF CreateThread, Created, CreateFails, Destroy, Join, AllocFails, Start,
      Free, FirstPlace, MtMode, Off
<1>3. CASE Gather \/ Gathered \/ Release \/ Drain \/ Drained
  BY <1>0, <1>3 DEF Gather, Gathered, Release, Drain, Drained
<1>4. CASE SingleBlock \/ SingleReadFails \/ SingleEnd \/ Footer
  <2>1. CASE SingleBlock
    <3>1. taken' \in Nat /\ crc' \in Seq(Nat) BY <2>1 DEF SingleBlock
    <3>2. Append(out, taken') \in Seq(Nat) BY <3>1
    <3>4. out' \in {out, Append(out, taken')} BY <2>1 DEF SingleBlock
    <3>3. failed' \subseteq FaultKinds BY <2>1 DEF SingleBlock
    <3> QED BY <2>1, <3>1, <3>2, <3>3, <3>4 DEF SingleBlock
  <2>2. CASE SingleReadFails \/ SingleEnd \/ Footer
    BY <1>0, <2>2 DEF SingleReadFails, SingleEnd, Footer
  <2> QED BY <1>4, <2>1, <2>2
<1>5. ASSUME NEW t \in Threads, Thread(t) PROVE StreamTypes'
  <2> USE DEF At, GoTo, FinishStream
  <2>1. CASE PassCanProcess(t) \/ Enter(t) \/ ThreadEnds(t) \/ SeesFinished(t) \/
      LooksAtEnd(t)
    BY <1>0, <2>1 DEF PassCanProcess, Enter, ThreadEnds, SeesFinished, LooksAtEnd
  <2>2. CASE ReadBlock(t) \/ ReadEnd(t) \/ ReadFails(t)
    BY <1>0, <2>2 DEF ReadBlock, ReadEnd, ReadFails, TakeIndex, Next1
  <2>3. CASE TakeTurn(t) \/ Write(t) \/ WriteFails(t)
    <3>1. block[t] \in Nat BY DEF ThreadTypes
    <3>2. Append(crc, block[t]) \in Seq(Nat) /\ Append(out, block[t]) \in Seq(Nat) BY <3>1
    <3> QED BY <1>0, <2>3, <3>2 DEF TakeTurn, Write, WriteFails, Combine
  <2>4. CASE Report(t) \/ Failed(t) \/ StartWaiting(t)
    BY <1>0, <2>4 DEF Report, Failed, StartWaiting
  <2> QED BY <1>5, <2>1, <2>2, <2>3, <2>4 DEF Thread
<1>6. CASE UNCHANGED vars BY <1>6 DEF vars
<1> QED BY <1>1, <1>2, <1>3, <1>4, <1>5, <1>6 DEF Next, Caller, Stopped

\* The number of threads stays while the encoder lives.
LEMMA Steady == ASSUME [Next]_vars PROVE numThreads' = numThreads
<1>1. CASE Call \/ Caller
  BY <1>1 DEF Call, Caller, CreateThread, Created, CreateFails, Destroy, Join, AllocFails, Start,
     Free, Gather, Gathered, Release, Drain, Drained, SingleBlock, SingleReadFails, SingleEnd,
     Footer
<1>2. CASE \E t \in Threads : Thread(t)
  BY <1>2 DEF Thread, PassCanProcess, Enter, ThreadEnds, SeesFinished, LooksAtEnd, ReadBlock,
     ReadEnd, ReadFails, TakeTurn, Write, WriteFails, Report, Failed, StartWaiting
<1> QED
  BY <1>1, <1>2 DEF Next, Stopped, vars

\* A step keeps the types.
LEMMA Types == ASSUME TypeOK, [Next]_vars PROVE TypeOK'
BY Steady, CallerTypesStep, ThreadTypesStep, EventTypesStep, SharedTypesStep, StreamTypesStep
   DEF TypeOK

-----------------------------------------------------------------------------
(* The ring *)

\* Going on from place to place.
LEMMA WrapNext ==
  ASSUME TypeOK, NEW p \in Threads, NEW d \in 0 .. numThreads - 1
  PROVE  Wrap(p + d) \in Threads /\ Next1(Wrap(p + d)) = Wrap(p + d + 1)
BY Counts DEF Threads, Wrap, Next1

\* The same place, counted from the next one.
LEMMA WrapShift ==
  ASSUME TypeOK, NEW p \in Threads, NEW d \in 1 .. numThreads
  PROVE  Wrap(Next1(p) + d - 1) = Wrap(p + d)
BY Counts DEF Threads, Wrap, Next1

\* Less than once round the ring, a place is met again only at the start.
LEMMA WrapSelf ==
  ASSUME TypeOK, NEW p \in Threads, NEW d \in 0 .. numThreads - 1, Wrap(p + d) = p
  PROVE  d = 0
BY Counts DEF Threads, Wrap

\* While a thread holds nothing, the others hold less than a ring of blocks.
LEMMA Room ==
  ASSUME TypeOK, Held, ~Lost, NEW t \in Threads, ~Holds(t)
  PROVE  taken - Written < numThreads
<1> DEFINE S == Written + 1 .. Written + numThreads
           Holder(b) == CHOOSE u \in Threads : Holds(u) /\ block[u] = b
           f == [b \in S |-> Holder(b)]
<1>0. numThreads \in Nat \ {0} /\ Written \in Nat /\ taken \in Nat
  BY Counts DEF TypeOK, StreamTypes, Written
<1> SUFFICES ASSUME taken - Written >= numThreads PROVE FALSE
  BY <1>0
<1>1. ASSUME NEW b \in S
      PROVE  Holder(b) \in Threads \ {t} /\ block[Holder(b)] = b
  <2>1. b \in Written + 1 .. taken
    BY <1>0, <1>1
  <2>2. \E u \in Threads : Holds(u) /\ block[u] = b
    BY <2>1 DEF Held
  <2> QED
    BY <2>2
<1>2. f \in [S -> Threads \ {t}]
  BY <1>1
<1>3. IsFiniteSet(S) /\ Cardinality(S) = numThreads
  BY <1>0, FS_Interval
<1>4. IsFiniteSet(Threads) /\ Cardinality(Threads) = numThreads
  BY <1>0, FS_Interval DEF Threads
<1>5. IsFiniteSet(Threads \ {t}) /\ Cardinality(Threads \ {t}) = numThreads - 1
  BY <1>4, FS_RemoveElement
<1>6. Cardinality(Threads \ {t}) < Cardinality(S)
  BY <1>0, <1>3, <1>5
<1>7. \E x, y \in S : x # y /\ f[x] = f[y]
  <2> HIDE DEF S, f
  <2> QED
    BY <1>2, <1>3, <1>5, <1>6, FS_PigeonHole
<1> QED
  BY <1>1, <1>7

-----------------------------------------------------------------------------
(* What a step of a thread leaves alone *)

\* A step of a thread leaves the caller and the other threads alone.
LEMMA Frame ==
  ASSUME TypeOK, NEW t \in Threads, Thread(t)
  PROVE  /\ UNCHANGED <<numThreads, callerVars, size, canProcess, canStartWaiting,
                        closeThreads>>
         /\ \A u \in Threads \ {t} :
              /\ pc'[u] = pc[u] /\ block'[u] = block[u] /\ blockIndex'[u] = blockIndex[u]
              /\ res'[u] = res[u] /\ finishedEvent'[u] = finishedEvent[u]
              /\ waitingEvent'[u] = waitingEvent[u]
<1> USE DEF TypeOK, ThreadTypes, EventTypes, At, GoTo, FinishStream, TakeIndex
<1>1. CASE PassCanProcess(t) \/ Enter(t) \/ ThreadEnds(t) \/ SeesFinished(t) \/ LooksAtEnd(t)
  BY <1>1 DEF PassCanProcess, Enter, ThreadEnds, SeesFinished, LooksAtEnd, eventVars,
     sharedVars, streamVars
<1>2. CASE ReadBlock(t) \/ ReadEnd(t) \/ ReadFails(t)
  BY <1>2 DEF ReadBlock, ReadEnd, ReadFails, eventVars, sharedVars, streamVars
<1>3. CASE TakeTurn(t) \/ Write(t) \/ WriteFails(t)
  BY <1>3 DEF TakeTurn, Write, WriteFails, eventVars, sharedVars, streamVars
<1>4. CASE Report(t) \/ Failed(t) \/ StartWaiting(t)
  BY <1>4 DEF Report, Failed, StartWaiting, eventVars, sharedVars, streamVars
<1> QED
  BY <1>1, <1>2, <1>3, <1>4 DEF Thread

-----------------------------------------------------------------------------
(* A step of a thread while the call is under way, part by part *)

Step(t) == TypeOK /\ TypeOK' /\ InOrder /\ Crc /\ Working /\ Thread(t)

\* One thread reads at a time.
LEMMA SectionStep == ASSUME NEW t \in Threads, Step(t) PROVE Section'
<1>0. /\ \A u \in Threads \ {t} : pc'[u] = pc[u]
      /\ numThreads' = numThreads /\ Threads' = Threads
  BY Frame DEF Step, Threads
<1>1. pc \in [Threads -> Places] /\ Nobody \notin Threads /\ Section
  BY Counts DEF Step, TypeOK, ThreadTypes, Working, Nobody, Threads
<1> USE DEF At, GoTo, FinishStream, Reading
<1>2. ASSUME ~Reading(t)', cs' = IF cs = t THEN Nobody ELSE cs PROVE Section'
  BY <1>0, <1>1, <1>2 DEF Section
<1>3. ASSUME Reading(t)', cs' = t, cs \in {t, Nobody} PROVE Section'
  BY <1>0, <1>1, <1>3 DEF Section
<1>4. CASE PassCanProcess(t) \/ SeesFinished(t)
  BY <1>1, <1>2, <1>4 DEF PassCanProcess, SeesFinished, sharedVars, Section
<1>5. CASE Enter(t) \/ LooksAtEnd(t)
  BY <1>1, <1>3, <1>5 DEF Enter, LooksAtEnd, sharedVars, Section
<1>6. CASE ReadBlock(t) \/ ThreadEnds(t)
  BY <1>1, <1>2, <1>6 DEF ReadBlock, ThreadEnds, Section
<1>7. CASE ReadEnd(t) \/ ReadFails(t)
  BY <1>1, <1>2, <1>7 DEF ReadEnd, ReadFails
<1>8. CASE TakeTurn(t) \/ Write(t) \/ WriteFails(t)
  BY <1>1, <1>2, <1>8 DEF TakeTurn, Write, WriteFails, sharedVars, Section
<1>9. CASE Report(t) \/ Failed(t) \/ StartWaiting(t)
  BY <1>1, <1>2, <1>9 DEF Report, Failed, StartWaiting, sharedVars, Section
<1> QED
  BY <1>4, <1>5, <1>6, <1>7, <1>8, <1>9 DEF Step, Thread

\* Steps that neither read nor write a block.
LEMMA HeldSame ==
  ASSUME TypeOK, Held, numThreads' = numThreads, UNCHANGED <<taken, out, size>>, Lost => Lost',
         \A u \in Threads : Holds(u)' <=> Holds(u),
         \A u \in Threads : Holds(u) => block'[u] = block[u]
  PROVE  Held'
BY DEF Held, Threads, Written

\* Every step of a thread keeps the blocks that are not out in one place each.
LEMMA HeldStep == ASSUME NEW t \in Threads, Step(t) PROVE Held'
<1>1. /\ \A u \in Threads \ {t} : pc'[u] = pc[u] /\ block'[u] = block[u]
      /\ numThreads' = numThreads /\ size' = size /\ Threads' = Threads
  BY Frame DEF Step, Threads
<1>0. /\ numThreads \in Nat \ {0} /\ Written \in Nat /\ taken \in Nat /\ size \in Nat
      /\ pc \in [Threads -> Places] /\ block \in [Threads -> Nat]
  BY Counts DEF Step, TypeOK, StreamTypes, ThreadTypes, Written
<1>2. TypeOK /\ Held /\ Ring
  BY DEF Step, Working
<1>3. ASSUME Holds(t)' <=> Holds(t), Holds(t) => block'[t] = block[t],
             UNCHANGED <<taken, out>>, Lost => Lost'
      PROVE  Held'
  <2>1. \A u \in Threads : Holds(u)' <=> Holds(u)
    BY <1>1, <1>3 DEF Holds
  <2>2. \A u \in Threads : Holds(u) => block'[u] = block[u]
    BY <1>1, <1>3
  <2> QED
    BY <1>1, <1>2, <1>3, <2>1, <2>2, HeldSame
<1> USE DEF At, GoTo, FinishStream
<1>4. CASE PassCanProcess(t) \/ Enter(t) \/ SeesFinished(t) \/ LooksAtEnd(t) \/ ThreadEnds(t)
  BY <1>0, <1>3, <1>4 DEF PassCanProcess, Enter, SeesFinished, LooksAtEnd, ThreadEnds,
     streamVars, Holds, Lost
<1>5. CASE ReadBlock(t)
  <2>1. /\ ~Holds(t) /\ Holds(t)' /\ block'[t] = taken + 1 /\ taken' = taken + 1
        /\ taken < size /\ UNCHANGED <<out, failed>>
    BY <1>0, <1>5 DEF ReadBlock, Holds
  <2>2. \A u \in Threads \ {t} : (Holds(u)' <=> Holds(u)) /\ block'[u] = block[u]
    BY <1>1 DEF Holds
  <2>3. taken' <= size' /\ Written' <= taken' /\ Written' = Written
    BY <1>0, <1>1, <1>2, <2>1 DEF Held, Written
  <2>4. \A u \in Threads : Holds(u)' => block'[u] \in Written + 1 .. taken + 1
    BY <1>0, <1>2, <2>1, <2>2 DEF Held
  <2>5. \A u, v \in Threads : Holds(u)' /\ Holds(v)' /\ block'[u] = block'[v] => u = v
    <3>1. \A u \in Threads \ {t} : Holds(u)' => block'[u] # taken + 1
      BY <1>0, <1>2, <2>2 DEF Held
    <3> QED
      BY <1>2, <2>1, <2>2, <3>1 DEF Held
  <2>6. ASSUME NEW b \in Written + 1 .. taken + 1
        PROVE  \/ \E u \in Threads : Holds(u)' /\ block'[u] = b
               \/ Lost /\ b = Written + 1
    <3>1. CASE b = taken + 1
      BY <2>1, <3>1
    <3>2. CASE b \in Written + 1 .. taken
      <4>1. (\E u \in Threads : Holds(u) /\ block[u] = b) \/ (Lost /\ b = Written + 1)
        BY <1>2, <3>2 DEF Held
      <4> QED
        BY <2>1, <2>2, <4>1
    <3> QED
      BY <1>0, <2>6, <3>1, <3>2
  <2> QED
    BY <1>1, <2>1, <2>3, <2>4, <2>5, <2>6 DEF Held, Lost
<1>6. CASE ReadEnd(t) \/ ReadFails(t)
  <2>1. UNCHANGED <<taken, out, block>> /\ ~Holds(t) /\ ~Holds(t)' /\ (Lost => Lost')
    BY <1>0, <1>6 DEF ReadEnd, ReadFails, Fault, streamVars, Holds, Lost
  <2> QED
    BY <1>3, <2>1
<1>7. CASE TakeTurn(t)
  BY <1>0, <1>3, <1>7 DEF TakeTurn, streamVars, Holds, Lost
<1>8. CASE Write(t) \/ WriteFails(t)
  <2>1. Holds(t) /\ ~Holds(t)' /\ InTurn(t) /\ pc[t] = "write" /\ block' = block /\ taken' = taken
    BY <1>0, <1>8 DEF Write, WriteFails, Holds, InTurn
  <2>2. block[t] = Written + 1 /\ ~Lost
    BY <1>2, <2>1 DEF Ring, Turn
  <2>3. \A u \in Threads \ {t} : (Holds(u)' <=> Holds(u)) /\ block'[u] = block[u]
    BY <1>1 DEF Holds
  <2>4. \A u \in Threads \ {t} : Holds(u) => block[u] \in Written + 2 .. taken
    BY <1>0, <1>2, <2>1, <2>2 DEF Held
  <2>5. CASE Write(t)
    <3>1. Written' = Written + 1 /\ failed' = failed
      BY <2>5 DEF Write, Written, Step, TypeOK, StreamTypes
    <3>2. taken' <= size' /\ Written' <= taken'
      BY <1>0, <1>1, <1>2, <2>1, <2>2, <3>1 DEF Held
    <3>3. \A u \in Threads : Holds(u)' => block'[u] \in Written' + 1 .. taken'
      BY <1>0, <2>1, <2>3, <2>4, <3>1
    <3>4. \A u, v \in Threads : Holds(u)' /\ Holds(v)' /\ block'[u] = block'[v] => u = v
      BY <1>2, <2>1, <2>3 DEF Held
    <3>5. ASSUME NEW b \in Written' + 1 .. taken'
          PROVE  \E u \in Threads : Holds(u)' /\ block'[u] = b
      <4>1. b \in Written + 1 .. taken /\ b # Written + 1
        BY <1>0, <2>1, <3>1
      <4>2. \E u \in Threads : Holds(u) /\ block[u] = b
        BY <1>2, <2>2, <4>1 DEF Held
      <4> QED
        BY <2>2, <2>3, <4>1, <4>2
    <3> QED
      BY <1>1, <3>2, <3>3, <3>4, <3>5 DEF Held
  <2>6. CASE WriteFails(t)
    <3>1. out' = out /\ Written' = Written /\ Lost'
      BY <2>6 DEF WriteFails, Fault, Lost, Written
    <3>2. \A u \in Threads : Holds(u)' => block'[u] \in Written' + 1 .. taken'
      BY <1>2, <2>1, <2>3, <3>1 DEF Held
    <3>3. \A u, v \in Threads : Holds(u)' /\ Holds(v)' /\ block'[u] = block'[v] => u = v
      BY <1>2, <2>1, <2>3 DEF Held
    <3>4. ASSUME NEW b \in Written' + 1 .. taken'
          PROVE  (\E u \in Threads : Holds(u)' /\ block'[u] = b) \/ b = Written' + 1
      <4>1. \E u \in Threads : Holds(u) /\ block[u] = b
        BY <1>2, <2>1, <2>2, <3>1 DEF Held
      <4> QED
        BY <2>2, <2>3, <3>1, <4>1
    <3> QED
      BY <1>1, <1>2, <2>1, <3>1, <3>2, <3>3, <3>4 DEF Held
  <2> QED
    BY <1>8, <2>5, <2>6
<1>9. CASE Report(t) \/ Failed(t) \/ StartWaiting(t)
  <2>1. UNCHANGED <<taken, out>> /\ ~Holds(t) /\ ~Holds(t)' /\ (Lost => Lost')
    BY <1>0, <1>9 DEF Report, Failed, StartWaiting, Fault, streamVars, Holds, Lost
  <2> QED
    BY <1>3, <2>1
<1> QED
  BY <1>4, <1>5, <1>6, <1>7, <1>8, <1>9 DEF Step, Thread

\* Steps that move neither a block nor a turn.
LEMMA RingSame ==
  ASSUME TypeOK, Ring, numThreads' = numThreads, UNCHANGED <<canWrite, out, taken, crc>>,
         Lost' <=> Lost,
         \A u \in Threads : InTurn(u)' <=> InTurn(u),
         \A u \in Threads : Holds(u)' <=> Holds(u),
         \A u \in Threads : Holds(u) \/ InTurn(u) =>
           pc'[u] = pc[u] /\ block'[u] = block[u] /\ blockIndex'[u] = blockIndex[u],
         ~streamWasFinished' \/ (\E u \in Threads : pc'[u] = "read") =>
           /\ nextBlockIndex' = nextBlockIndex
           /\ ~streamWasFinished \/ \E u \in Threads : pc[u] = "read"
  PROVE  Ring'
<1>0. Threads' = Threads /\ Written' = Written /\ Off' = Off
  BY DEF Threads, Written, Off
<1>1. ASSUME NEW p \in Threads, Turn(p) PROVE Turn(p)'
  <2>1. CASE canWrite = [Off EXCEPT ![p] = TRUE] /\ \A t \in Threads : ~InTurn(t)
    BY <1>0, <2>1 DEF Turn
  <2>2. ASSUME canWrite = Off, NEW u \in Threads, \A t \in Threads : InTurn(t) => t = u,
               \/ pc[u] = "write" /\ block[u] = Written + 1 /\ blockIndex[u] = p
               \/ pc[u] = "report" /\ Next1(blockIndex[u]) = p
        PROVE  Turn(p)'
    <3>1. InTurn(u)
      BY <2>2 DEF InTurn
    <3>2. pc'[u] = pc[u] /\ block'[u] = block[u] /\ blockIndex'[u] = blockIndex[u]
      BY <3>1
    <3>3. \A t \in Threads : InTurn(t)' => t = u
      BY <2>2
    <3> QED
      BY <1>0, <2>2, <3>2, <3>3 DEF Turn, Next1
  <2> QED
    BY <1>1, <2>1, <2>2 DEF Turn
<1>2. ASSUME NEW p \in Threads, Around(p) PROVE Around(p)'
  BY <1>0, <1>2 DEF Around, Wrap
<1>3. ~Lost' => crc' = out' /\ taken' - Written' <= numThreads'
  BY <1>0 DEF Ring
<1>4. Lost' => canWrite' = Off' /\ \A u \in Threads' : ~InTurn(u)'
  BY <1>0 DEF Ring
<1>5. ~Lost' => \E p \in Threads' : Turn(p)' /\ Around(p)'
  BY <1>0, <1>1, <1>2 DEF Ring
<1> QED
  BY <1>3, <1>4, <1>5 DEF Ring

\* The blocks lie around the ring in their order, and the turn goes round once.
LEMMA RingStep == ASSUME NEW t \in Threads, Step(t) PROVE Ring'
<1>1. /\ \A u \in Threads \ {t} :
           pc'[u] = pc[u] /\ block'[u] = block[u] /\ blockIndex'[u] = blockIndex[u]
      /\ numThreads' = numThreads /\ Threads' = Threads /\ Off' = Off
  BY Frame DEF Step, Threads, Off
<1>0. /\ numThreads \in Nat \ {0} /\ Written \in Nat /\ taken \in Nat
      /\ pc \in [Threads -> Places] /\ block \in [Threads -> Nat]
      /\ blockIndex \in [Threads -> Threads] /\ canWrite \in [Threads -> BOOLEAN]
      /\ nextBlockIndex \in Threads
  BY Counts DEF Step, TypeOK, StreamTypes, ThreadTypes, EventTypes, SharedTypes, Written
<1>2. TypeOK /\ Held /\ Ring /\ Section /\ ~canStartWaiting /\ ~closeThreads
  BY DEF Step, Working
<1>3. \A u \in Threads \ {t} : /\ Holds(u)' <=> Holds(u)
                               /\ InTurn(u)' <=> InTurn(u)
  BY <1>1 DEF Holds, InTurn
<1>4. ASSUME ~Holds(t), ~InTurn(t), ~Holds(t)', ~InTurn(t)', Lost' <=> Lost,
             UNCHANGED <<canWrite, out, taken, crc>>,
             ~streamWasFinished' \/ (\E u \in Threads : pc'[u] = "read") =>
               /\ nextBlockIndex' = nextBlockIndex
               /\ ~streamWasFinished \/ \E u \in Threads : pc[u] = "read"
      PROVE  Ring'
  <2>1. \A u \in Threads : (InTurn(u)' <=> InTurn(u)) /\ (Holds(u)' <=> Holds(u))
    BY <1>3, <1>4
  <2>2. \A u \in Threads : Holds(u) \/ InTurn(u) =>
           pc'[u] = pc[u] /\ block'[u] = block[u] /\ blockIndex'[u] = blockIndex[u]
    BY <1>1, <1>4
  <2> QED
    BY <1>1, <1>2, <1>4, <2>1, <2>2, RingSame
<1> USE DEF At, GoTo, FinishStream
<1>5. CASE PassCanProcess(t) \/ Enter(t) \/ SeesFinished(t) \/ LooksAtEnd(t)
  <2>1. /\ ~Holds(t) /\ ~InTurn(t) /\ ~Holds(t)' /\ ~InTurn(t)' /\ (Lost' <=> Lost)
        /\ UNCHANGED <<canWrite, out, taken, crc, nextBlockIndex>>
        /\ ~streamWasFinished' => ~streamWasFinished
        /\ pc'[t] = "read" => ~streamWasFinished
    BY <1>0, <1>5 DEF PassCanProcess, Enter, SeesFinished, LooksAtEnd, eventVars, sharedVars,
       streamVars, Holds, InTurn, Lost
  <2> QED
    BY <1>1, <1>4, <2>1
<1>6. CASE ReadEnd(t) \/ ReadFails(t)
  <2>1. /\ ~Holds(t) /\ ~InTurn(t) /\ ~Holds(t)' /\ ~InTurn(t)' /\ (Lost' <=> Lost)
        /\ UNCHANGED <<canWrite, out, taken, crc>>
        /\ streamWasFinished' /\ pc'[t] = "finished" /\ pc[t] = "read"
    BY <1>0, <1>6 DEF ReadEnd, ReadFails, Fault, streamVars, Holds, InTurn, Lost
  <2>2. \A u \in Threads : pc'[u] # "read"
    BY <1>1, <1>2, <2>1 DEF Section, Reading
  <2> QED
    BY <1>4, <2>1, <2>2
<1>7. CASE Failed(t)
  <2>1. /\ ~Holds(t) /\ ~InTurn(t) /\ ~Holds(t)' /\ ~InTurn(t)' /\ (Lost' <=> Lost)
        /\ UNCHANGED <<canWrite, out, taken, crc, nextBlockIndex>>
        /\ streamWasFinished' /\ pc'[t] = "finished"
    BY <1>0, <1>7 DEF Failed, streamVars, Holds, InTurn, Lost
  <2> QED
    BY <1>1, <1>4, <2>1
<1>8. CASE ReadBlock(t)
  <2>1. /\ ~Holds(t) /\ ~InTurn(t) /\ Holds(t)' /\ ~InTurn(t)' /\ pc[t] = "read"
        /\ UNCHANGED <<canWrite, out, crc, failed, streamWasFinished>>
        /\ taken' = taken + 1 /\ block'[t] = taken + 1
        /\ blockIndex'[t] = nextBlockIndex /\ nextBlockIndex' = Next1(nextBlockIndex)
    BY <1>0, <1>8 DEF ReadBlock, eventVars, TakeIndex, Holds, InTurn
  <2>2. Written' = Written /\ (Lost' <=> Lost)
    BY <2>1 DEF Written, Lost
  <2>3. CASE Lost
    BY <1>1, <1>2, <1>3, <2>1, <2>2, <2>3 DEF Ring
  <2>4. CASE ~Lost
    <3>1. taken - Written < numThreads
      BY <1>2, <2>1, <2>4, Room
    <3>2. PICK p \in Threads : Turn(p) /\ Around(p)
      BY <1>2, <2>4 DEF Ring
    <3>3. Turn(p)'
      <4>1. CASE canWrite = [Off EXCEPT ![p] = TRUE] /\ \A u \in Threads : ~InTurn(u)
        BY <1>1, <1>3, <2>1, <4>1 DEF Turn
      <4>2. ASSUME canWrite = Off, NEW u \in Threads, \A v \in Threads : InTurn(v) => v = u,
               \/ pc[u] = "write" /\ block[u] = Written + 1 /\ blockIndex[u] = p
               \/ pc[u] = "report" /\ Next1(blockIndex[u]) = p
            PROVE  Turn(p)'
        <5>1. u # t
          BY <2>1, <4>2 DEF InTurn
        <5>2. pc'[u] = pc[u] /\ block'[u] = block[u] /\ blockIndex'[u] = blockIndex[u]
          BY <1>1, <5>1
        <5>3. \A v \in Threads : InTurn(v)' => v = u
          BY <1>3, <2>1, <4>2
        <5> QED
          BY <1>1, <2>1, <2>2, <4>2, <5>2, <5>3 DEF Turn, Next1
      <4> QED
        BY <3>2, <4>1, <4>2 DEF Turn
    <3>4. Around(p)'
      <4>1. nextBlockIndex = Wrap(p + taken - Written)
        BY <2>1, <3>2 DEF Around
      <4>2. nextBlockIndex' = Wrap(p + taken - Written + 1)
        <5> DEFINE d == taken - Written
        <5>1. d \in 0 .. numThreads - 1 /\ p + taken - Written = p + d
          BY <1>0, <1>2, <3>1 DEF Held, Threads
        <5>2. Next1(Wrap(p + d)) = Wrap(p + d + 1)
          BY <1>2, <5>1, WrapNext
        <5> QED
          BY <2>1, <4>1, <5>1, <5>2
      <4>3. ASSUME NEW u \in Threads, Holds(u)'
            PROVE  blockIndex'[u] = Wrap(p + block'[u] - 1 - Written)
        <5>1. CASE u = t
          <6>1. p + block'[t] - 1 - Written = p + taken - Written
            BY <1>0, <2>1 DEF Threads
          <6> QED
            BY <2>1, <4>1, <5>1, <6>1
        <5>2. CASE u # t
          BY <1>1, <1>3, <3>2, <4>3, <5>2 DEF Around
        <5> QED
          BY <5>1, <5>2
      <4>4. p + taken' - Written = p + taken - Written + 1
        BY <1>0, <2>1 DEF Threads
      <4> QED
        BY <1>1, <2>2, <4>2, <4>3, <4>4 DEF Around, Wrap
    <3>5. crc' = out' /\ taken' - Written' <= numThreads'
      BY <1>0, <1>1, <1>2, <2>1, <2>2, <2>4, <3>1 DEF Ring
    <3> QED
      BY <1>1, <2>2, <2>4, <3>3, <3>4, <3>5 DEF Ring
  <2> QED
    BY <2>3, <2>4
<1>9. CASE TakeTurn(t)
  <2>1. /\ pc[t] = "encode" /\ canWrite[blockIndex[t]] /\ pc'[t] = "write"
        /\ canWrite' = [canWrite EXCEPT ![blockIndex[t]] = FALSE]
        /\ UNCHANGED <<block, blockIndex, out, crc, taken, failed, streamWasFinished,
                       nextBlockIndex>>
    BY <1>0, <1>9 DEF TakeTurn, sharedVars, streamVars
  <2>2. canWrite # Off
    BY <1>0, <2>1 DEF Off
  <2>3. ~Lost
    BY <1>2, <2>2 DEF Ring
  <2>4. PICK p \in Threads : Turn(p) /\ Around(p)
    BY <1>2, <2>3 DEF Ring
  <2>5. canWrite = [Off EXCEPT ![p] = TRUE] /\ \A u \in Threads : ~InTurn(u)
    BY <2>2, <2>4 DEF Turn
  <2>6. blockIndex[t] = p /\ canWrite' = Off
    BY <1>0, <2>1, <2>5 DEF Off
  <2>7. block[t] = Written + 1
    <3> DEFINE d == block[t] - 1 - Written
    <3>1. block[t] \in Written + 1 .. taken
      BY <1>2, <2>1 DEF Held, Holds
    <3>2. taken - Written <= numThreads
      BY <1>2, <2>3 DEF Ring
    <3>3. d \in 0 .. numThreads - 1 /\ p + block[t] - 1 - Written = p + d
      <4>1. block[t] \in Nat /\ p \in Nat
        BY <1>0 DEF Threads
      <4> QED
        BY <1>0, <3>1, <3>2, <4>1
    <3>4. Wrap(p + d) = p
      BY <2>1, <2>4, <2>6, <3>3 DEF Around, Holds
    <3>5. d = 0
      BY <1>2, <3>3, <3>4, WrapSelf
    <3> QED
      BY <1>0, <3>5
  <2>8. Written' = Written /\ ~Lost'
    BY <2>1, <2>3 DEF Written, Lost
  <2>9. \A u \in Threads : InTurn(u)' => u = t
    BY <1>3, <2>5
  <2>10. Turn(p)'
    BY <1>1, <2>1, <2>6, <2>7, <2>8, <2>9 DEF Turn
  <2>11. Around(p)'
    <3>1. \A u \in Threads : Holds(u)' => Holds(u)
      BY <1>3, <2>1 DEF Holds
    <3>2. (\E u \in Threads : pc'[u] = "read") => \E u \in Threads : pc[u] = "read"
      BY <1>1, <2>1
    <3> QED
      BY <1>1, <2>1, <2>4, <2>8, <3>1, <3>2 DEF Around, Wrap
  <2> QED
    BY <1>1, <1>2, <2>1, <2>3, <2>8, <2>10, <2>11 DEF Ring
<1>10. ASSUME InTurn(t) PROVE ~Lost /\ \E p \in Threads :
           /\ Turn(p) /\ Around(p) /\ canWrite = Off
           /\ \A u \in Threads : InTurn(u) => u = t
           /\ pc[t] = "write" => block[t] = Written + 1 /\ blockIndex[t] = p
           /\ pc[t] = "report" => Next1(blockIndex[t]) = p
  <2>1. ~Lost
    BY <1>2, <1>10 DEF Ring
  <2>2. PICK p \in Threads : Turn(p) /\ Around(p)
    BY <1>2, <2>1 DEF Ring
  <2> QED
    BY <1>10, <2>1, <2>2 DEF Turn
<1>11. CASE Write(t)
  <2>1. /\ pc[t] = "write" /\ pc'[t] = "report" /\ InTurn(t) /\ ~Holds(t)'
        /\ out' = Append(out, block[t]) /\ crc' = Append(crc, block[t])
        /\ UNCHANGED <<block, blockIndex, canWrite, taken, failed, streamWasFinished,
                       nextBlockIndex>>
    BY <1>0, <1>11 DEF Write, Combine, eventVars, sharedVars, InTurn, Holds
  <2>2. ~Lost /\ ~Lost'
    BY <1>10, <2>1 DEF Lost
  <2>3. PICK p \in Threads :
           /\ Around(p) /\ canWrite = Off /\ \A u \in Threads : InTurn(u) => u = t
           /\ block[t] = Written + 1 /\ blockIndex[t] = p
    BY <1>10, <2>1
  <2>4. Written' = Written + 1
    BY <2>1 DEF Written, Step, TypeOK, StreamTypes
  <2>5. PICK q \in Threads : q = Next1(p)
    BY <1>2, NextType
  <2>6. taken - Written \in 1 .. numThreads
    <3>1. block[t] \in Written + 1 .. taken /\ taken - Written <= numThreads
      BY <1>2, <2>1, <2>2 DEF Held, Holds, Ring
    <3> QED
      BY <1>0, <2>3, <3>1
  <2>7. ASSUME NEW d \in 1 .. numThreads, NEW b \in Nat, b = d + Written
        PROVE  Wrap(q + b - Written') = Wrap(p + b - Written)
    <3>1. q + b - Written' = q + d - 1 /\ p + b - Written = p + d
      BY <1>0, <2>4, <2>5, <2>7 DEF Threads
    <3> QED
      BY <1>2, <2>5, <3>1, WrapShift
  <2>8. Wrap(q + taken - Written') = Wrap(p + taken - Written)
    <3>1. taken = (taken - Written) + Written
      BY <1>0
    <3> QED
      BY <1>0, <2>6, <2>7, <3>1
  <2>9. ASSUME NEW u \in Threads, Holds(u)'
        PROVE  blockIndex'[u] = Wrap(q + block'[u] - 1 - Written')
    <3>1. u # t /\ Holds(u)
      BY <1>3, <2>1, <2>9
    <3>2. block[u] \in Written + 1 .. taken /\ block[u] # Written + 1
      BY <1>2, <2>1, <2>3, <3>1 DEF Held, Holds
    <3>3. blockIndex[u] = Wrap(p + block[u] - 1 - Written)
      BY <2>3, <3>1 DEF Around
    <3> DEFINE b == block[u] - 1
               d == b - Written
    <3>4. block[u] \in Nat
      BY <1>0
    <3>5. b \in Nat /\ d \in 1 .. numThreads /\ b = d + Written
      <4>1. block[u] >= Written + 2 /\ block[u] <= taken /\ taken <= Written + numThreads
        BY <1>0, <2>6, <3>2, <3>4
      <4> QED
        BY <1>0, <3>4, <4>1
    <3>6. Wrap(q + b - Written') = Wrap(p + b - Written)
      <4> HIDE DEF b, d
      <4> QED
        BY <2>7, <3>5
    <3>7. /\ q + b - Written' = q + block[u] - 1 - Written'
          /\ p + b - Written = p + block[u] - 1 - Written
      BY <1>0, <2>4, <2>5, <3>4 DEF Threads
    <3> QED
      BY <2>1, <3>3, <3>6, <3>7
  <2>10. Around(q)'
    <3>1. ~streamWasFinished' \/ (\E u \in Threads : pc'[u] = "read")
            => nextBlockIndex' = Wrap(q + taken' - Written')
      BY <1>1, <2>1, <2>3, <2>8 DEF Around
    <3>2. \A u \in Threads : Holds(u)' =>
            blockIndex'[u] = Wrap(q + block'[u] - 1 - Written')
      BY <2>9
    <3> QED
      BY <1>1, <3>1, <3>2 DEF Around, Wrap
  <2>11. Turn(q)'
    <3>1. \A u \in Threads : InTurn(u)' => u = t
      BY <1>3, <2>3
    <3>2. pc'[t] = "report" /\ blockIndex[t] = p /\ blockIndex' = blockIndex
      BY <2>1, <2>3
    <3> QED
      BY <1>1, <2>1, <2>3, <2>5, <3>1, <3>2 DEF Turn, Next1
  <2>12. crc' = out' /\ taken' - Written' <= numThreads'
    <3>1. crc = out
      BY <1>2, <2>2 DEF Ring
    <3> QED
      <4>1. taken - (Written + 1) <= numThreads
        BY <1>0, <2>6
      <4> QED
        BY <1>1, <2>1, <2>4, <3>1, <4>1
  <2>13. \E r \in Threads' : Turn(r)' /\ Around(r)'
    BY <1>1, <2>10, <2>11
  <2> QED
    BY <2>2, <2>12, <2>13 DEF Ring
<1>12. CASE WriteFails(t)
  <2>1. InTurn(t) /\ ~InTurn(t)' /\ canWrite' = canWrite /\ Lost'
    BY <1>0, <1>12 DEF WriteFails, Fault, Lost, eventVars, InTurn
  <2>2. canWrite = Off /\ \A u \in Threads : InTurn(u) => u = t
    BY <1>10, <2>1
  <2> QED
    BY <1>1, <1>3, <2>1, <2>2 DEF Ring
<1>13. CASE Report(t)
  <2>1. /\ pc[t] = "report" /\ InTurn(t) /\ ~InTurn(t)' /\ ~Holds(t)' /\ ~Holds(t)
        /\ pc'[t] # "read"
        /\ canWrite' = [canWrite EXCEPT ![Next1(blockIndex[t])] = TRUE]
        /\ UNCHANGED <<block, blockIndex, out, crc, taken, streamWasFinished, nextBlockIndex>>
        /\ (Lost' <=> Lost)
    BY <1>0, <1>13 DEF Report, WakeNext, Fault, sharedVars, InTurn, Holds, Lost
  <2>2. ~Lost /\ ~Lost' /\ Written' = Written
    BY <1>10, <2>1 DEF Written
  <2>3. PICK p \in Threads :
           /\ Around(p) /\ canWrite = Off /\ \A u \in Threads : InTurn(u) => u = t
           /\ Next1(blockIndex[t]) = p
    BY <1>10, <2>1
  <2>4. Turn(p)'
    <3>1. \A u \in Threads : ~InTurn(u)'
      BY <1>3, <2>1, <2>3
    <3> QED
      BY <1>1, <2>1, <2>3, <3>1 DEF Turn
  <2>5. Around(p)'
    <3>1. \A u \in Threads : Holds(u)' => Holds(u)
      BY <1>3, <2>1
    <3>2. (\E u \in Threads : pc'[u] = "read") => \E u \in Threads : pc[u] = "read"
      BY <1>1, <2>1
    <3> QED
      BY <1>1, <2>1, <2>2, <2>3, <3>1, <3>2 DEF Around, Wrap
  <2>6. crc' = out' /\ taken' - Written' <= numThreads'
    BY <1>1, <1>2, <2>1, <2>2 DEF Ring
  <2> QED
    BY <1>1, <2>2, <2>4, <2>5, <2>6 DEF Ring
<1>14. CASE ThreadEnds(t) \/ StartWaiting(t)
  BY <1>2, <1>14 DEF ThreadEnds, StartWaiting
<1> QED
  BY <1>5, <1>6, <1>7, <1>8, <1>9, <1>11, <1>12, <1>13, <1>14 DEF Step, Thread

\* An error stays on its way to result.
LEMMA ErrorsStep == ASSUME NEW t \in Threads, Step(t) PROVE Errors'
<1>1. /\ \A u \in Threads \ {t} : pc'[u] = pc[u] /\ res'[u] = res[u]
      /\ size' = size /\ Threads' = Threads
  BY Frame DEF Step, Threads
<1>0. pc \in [Threads -> Places] /\ res \in [Threads -> FaultKinds \cup {"OK"}]
  BY DEF Step, TypeOK, ThreadTypes
<1>2. Errors /\ ~canStartWaiting /\ ~closeThreads
  BY DEF Step, Working
<1> USE DEF At, GoTo, FinishStream
<1>3. CASE PassCanProcess(t) \/ Enter(t) \/ SeesFinished(t) \/ LooksAtEnd(t)
  BY <1>0, <1>1, <1>2, <1>3 DEF PassCanProcess, Enter, SeesFinished, LooksAtEnd, sharedVars,
     streamVars, Errors
<1>4. CASE ReadBlock(t)
  <2>1. /\ pc[t] = "read" /\ pc'[t] = "encode" /\ taken < size
        /\ UNCHANGED <<res, streamWasFinished, result, failed>>
    BY <1>0, <1>4 DEF ReadBlock
  <2>2. taken # size
    <3>1. taken \in Nat /\ size \in Nat
      BY DEF Step, TypeOK, StreamTypes
    <3> QED
      BY <2>1, <3>1
  <2> QED
    BY <1>0, <1>1, <1>2, <2>1, <2>2 DEF Errors
<1>5. CASE ReadEnd(t)
  BY <1>0, <1>1, <1>2, <1>5 DEF ReadEnd, streamVars, Errors
<1>6. CASE ReadFails(t)
  BY <1>0, <1>1, <1>2, <1>6 DEF ReadFails, Fault, Errors
<1>7. CASE TakeTurn(t) \/ Write(t)
  BY <1>0, <1>1, <1>2, <1>7 DEF TakeTurn, Write, sharedVars, streamVars, Errors
<1>8. CASE WriteFails(t)
  BY <1>0, <1>1, <1>2, <1>8 DEF WriteFails, Fault, sharedVars, Errors
<1>9. CASE Report(t)
  BY <1>0, <1>1, <1>2, <1>9 DEF Report, Fault, sharedVars, Errors
<1>10. CASE Failed(t)
  BY <1>0, <1>1, <1>2, <1>10 DEF Failed, streamVars, Errors
<1>11. CASE ThreadEnds(t) \/ StartWaiting(t)
  BY <1>2, <1>11 DEF ThreadEnds, StartWaiting
<1> QED
  BY <1>3, <1>4, <1>5, <1>6, <1>7, <1>8, <1>9, <1>10, <1>11 DEF Step, Thread

\* A step of a thread during a call keeps all of this.
LEMMA WorkingStep ==
  ASSUME NEW t \in Threads, Step(t)
  PROVE  Working' /\ waitingEvent' = waitingEvent
<1>1. /\ \A u \in Threads \ {t} : pc'[u] = pc[u] /\ finishedEvent'[u] = finishedEvent[u]
      /\ UNCHANGED <<numThreads, idx, canProcess, canStartWaiting, closeThreads>>
      /\ Threads' = Threads
  BY Frame DEF Step, Threads, callerVars
<1>0. pc \in [Threads -> Places] /\ finishedEvent \in [Threads -> BOOLEAN]
  BY DEF Step, TypeOK, ThreadTypes, EventTypes
<1>2. Working
  BY DEF Step
<1>3. /\ pc'[t] \notin {"none", "ended"}
      /\ (finishedEvent'[t] \/ t < idx => pc'[t] = "finished")
      /\ waitingEvent' = waitingEvent
  <2> USE DEF At, GoTo, FinishStream
  <2>1. ~canStartWaiting /\ ~closeThreads /\ (finishedEvent[t] \/ t < idx => pc[t] = "finished")
    BY <1>2 DEF Working
  <2>2. CASE PassCanProcess(t) \/ Enter(t) \/ SeesFinished(t) \/ LooksAtEnd(t) \/ ThreadEnds(t)
    BY <1>0, <2>1, <2>2 DEF PassCanProcess, Enter, SeesFinished, LooksAtEnd, ThreadEnds, eventVars
  <2>3. CASE ReadBlock(t) \/ ReadEnd(t) \/ ReadFails(t)
    BY <1>0, <2>1, <2>3 DEF ReadBlock, ReadEnd, ReadFails, eventVars
  <2>4. CASE TakeTurn(t) \/ Write(t) \/ WriteFails(t)
    BY <1>0, <2>1, <2>4 DEF TakeTurn, Write, WriteFails, eventVars
  <2>5. CASE Report(t) \/ Failed(t) \/ StartWaiting(t)
    BY <1>0, <2>1, <2>5 DEF Report, Failed, StartWaiting, eventVars
  <2> QED
    BY <2>2, <2>3, <2>4, <2>5 DEF Step, Thread
<1>4. \A u \in Threads' : /\ pc'[u] \notin {"none", "ended"}
                          /\ finishedEvent'[u] \/ u < idx' => pc'[u] = "finished"
  BY <1>1, <1>2, <1>3 DEF Working
<1>5. (MtMode /\ canProcess /\ ~canStartWaiting /\ ~closeThreads)'
  BY <1>1, <1>2 DEF Working, MtMode
<1> QED
  BY <1>3, <1>4, <1>5, SectionStep, HeldStep, RingStep, ErrorsStep DEF Working

\* What is written is the next block.
LEMMA OutStep == ASSUME NEW t \in Threads, Step(t) PROVE InOrder' /\ Crc'
<1>0. out \in Seq(Nat) /\ crc \in Seq(Nat) /\ block[t] \in Nat
  BY DEF Step, TypeOK, StreamTypes, ThreadTypes
<1>1. ASSUME InTurn(t)
      PROVE  ~Lost /\ crc = out /\ (pc[t] = "write" => block[t] = Len(out) + 1)
  BY <1>1 DEF Step, Working, Ring, Turn, Written
<1>2. InOrder /\ Crc
  BY DEF Step
<1> USE DEF At, GoTo, FinishStream
<1>3. CASE Write(t)
  <2>1. crc' = Append(out, Len(out) + 1) /\ out' = crc'
    BY <1>1, <1>3 DEF Write, Combine, InTurn
  <2> QED
    BY <1>0, <1>2, <2>1 DEF InOrder, Crc
<1>4. CASE WriteFails(t)
  <2>1. crc' = Append(out, Len(out) + 1) /\ out' = out /\ Lost'
    BY <1>1, <1>4 DEF WriteFails, Combine, Fault, Lost, InTurn
  <2> QED
    BY <1>2, <2>1 DEF InOrder, Crc
<1>5. ASSUME UNCHANGED <<out, crc>>, Lost => Lost' PROVE InOrder' /\ Crc'
  BY <1>2, <1>5 DEF InOrder, Crc
<1>6. CASE PassCanProcess(t) \/ Enter(t) \/ SeesFinished(t) \/ LooksAtEnd(t) \/ ThreadEnds(t)
  BY <1>5, <1>6 DEF PassCanProcess, Enter, SeesFinished, LooksAtEnd, ThreadEnds, streamVars, Lost
<1>7. CASE ReadBlock(t) \/ ReadEnd(t) \/ ReadFails(t) \/ TakeTurn(t)
  BY <1>5, <1>7 DEF ReadBlock, ReadEnd, ReadFails, TakeTurn, Fault, streamVars, Lost
<1>8. CASE Report(t) \/ Failed(t) \/ StartWaiting(t)
  BY <1>5, <1>8 DEF Report, Failed, StartWaiting, Fault, streamVars, Lost
<1> QED
  BY <1>3, <1>4, <1>6, <1>7, <1>8 DEF Step, Thread

\* Outside of a call the threads only sleep, leave the rendezvous or end.
LEMMA ThreadStep == ASSUME IInv, NEW t \in Threads, Thread(t) PROVE IInv'
<1>0. /\ TypeOK /\ TypeOK' /\ InOrder /\ Crc /\ CrcRight /\ Phases /\ t \in Threads
      /\ pc \in [Threads -> Places] /\ waitingEvent \in [Threads -> BOOLEAN]
      /\ mpc \in CallerPlaces
  BY Types DEF IInv, TypeOK, ThreadTypes, EventTypes, CallerTypes, Next
<1>1. /\ UNCHANGED <<numThreads, callerVars, size, canProcess, canStartWaiting, closeThreads>>
      /\ \A u \in Threads \ {t} : pc'[u] = pc[u] /\ waitingEvent'[u] = waitingEvent[u]
      /\ Threads' = Threads
  BY <1>0, Frame DEF Threads
<1>2. CASE mpc = "gather"
  <2>1. Step(t)
    BY <1>0, <1>2 DEF Step, Phases
  <2>2. Working' /\ waitingEvent' = waitingEvent /\ InOrder' /\ Crc'
    BY <2>1, WorkingStep, OutStep
  <2>3. mpc' = "gather"
    BY <1>1, <1>2 DEF callerVars
  <2>4. Phases'
    BY <1>0, <1>1, <1>2, <2>2, <2>3 DEF Phases
  <2>5. CrcRight'
    BY <2>3 DEF CrcRight
  <2> QED
    BY <1>0, <2>2, <2>4, <2>5 DEF IInv
<1>3. ASSUME mpc # "gather"
      PROVE  \/ mpc = "join" /\ (PassCanProcess(t) \/ Enter(t) \/ ThreadEnds(t))
             \/ mpc = "drain" /\ StartWaiting(t)
  <2> USE DEF At
  <2>1. CASE mpc = "join"
    <3>1. closeThreads /\ pc[t] \in {"none", "canProcess", "enter", "inside", "ended"}
      BY <1>0, <2>1 DEF Phases
    <3> QED
      BY <2>1, <3>1 DEF Thread, SeesFinished, LooksAtEnd, ReadBlock, ReadEnd, ReadFails,
         TakeTurn, Write, WriteFails, Report, Failed, StartWaiting
  <2>2. CASE mpc # "join"
    <3>1. /\ pc[t] \in {"none", "canProcess", "finished", "ended"}
          /\ pc[t] = "canProcess" => ~canProcess
          /\ pc[t] = "finished" => mpc = "drain" \/ ~canStartWaiting
      BY <1>0, <1>3, <2>2 DEF Phases, CallerPlaces, AtRest, All
    <3> QED
      BY <3>1 DEF Thread, PassCanProcess, Enter, ThreadEnds, SeesFinished, LooksAtEnd,
         ReadBlock, ReadEnd, ReadFails, TakeTurn, Write, WriteFails, Report, Failed, StartWaiting
  <2> QED
    BY <2>1, <2>2
<1>4. ASSUME UNCHANGED streamVars, mpc # "gather" PROVE InOrder' /\ Crc' /\ CrcRight'
  BY <1>0, <1>1, <1>4 DEF streamVars, callerVars, InOrder, Crc, CrcRight, Lost
<1>5. CASE mpc = "join" /\ (PassCanProcess(t) \/ Enter(t) \/ ThreadEnds(t))
  <2>1. UNCHANGED streamVars /\ pc'[t] \in {"none", "canProcess", "enter", "inside", "ended"}
    BY <1>0, <1>5 DEF PassCanProcess, Enter, ThreadEnds, GoTo
  <2>2. mpc' = "join"
    BY <1>1, <1>5 DEF callerVars
  <2>3. Phases'
    BY <1>0, <1>1, <1>5, <2>1, <2>2 DEF Phases
  <2> QED
    BY <1>0, <1>4, <1>5, <2>1, <2>3 DEF IInv
<1>6. CASE mpc = "drain" /\ StartWaiting(t)
  <2>1. UNCHANGED streamVars /\ pc'[t] = "canProcess" /\ UNCHANGED <<cs, result>>
    BY <1>0, <1>6 DEF StartWaiting, GoTo, sharedVars
  <2>2. mpc' = "drain" /\ idx' = idx
    BY <1>1, <1>6 DEF callerVars
  <2>3. Left' /\ MtMode' /\ (cs = Nobody)'
    BY <1>0, <1>1, <1>6, <2>1 DEF Phases, Left, Answer, MtMode, Nobody, streamVars
  <2>4. /\ \A u \in Threads' : pc'[u] \in {"finished", "canProcess"}
        /\ \A u \in Threads' : waitingEvent'[u] \/ u < idx' => pc'[u] = "canProcess"
    BY <1>0, <1>1, <1>6, <2>1, <2>2 DEF Phases
  <2>5. Phases'
    BY <1>0, <1>1, <1>6, <2>2, <2>3, <2>4 DEF Phases
  <2> QED
    BY <1>0, <1>4, <1>6, <2>1, <2>5 DEF IInv
<1> QED
  BY <1>2, <1>3, <1>5, <1>6

-----------------------------------------------------------------------------
(* The steps of the caller *)

\* Steps that leave the stream alone.
LEMMA StreamSame ==
  ASSUME InOrder, Crc, UNCHANGED <<out, crc>>, Lost => Lost'
  PROVE  InOrder' /\ Crc'
BY DEF InOrder, Crc

\* A call begins with the threads at rest or with none.
LEMMA CallStep == ASSUME IInv, Call PROVE IInv'
<1>0. TypeOK /\ TypeOK' /\ Phases
  BY Types DEF IInv, Next
<1>1. /\ mpc = "idle" /\ ret = "OK" /\ taken' = 0 /\ out' = <<>> /\ crc' = <<>>
      /\ failed' = {} /\ canProcess' = FALSE /\ idx' = 0
      /\ mpc' = IF MtMode /\ pc[0] = "none" THEN "create" ELSE "start"
      /\ UNCHANGED <<numThreads, ret, pc, cs>>
  BY DEF Call, threadVars, sharedVars
<1>2. Threads' = Threads /\ Nobody' = Nobody /\ (MtMode' <=> MtMode) /\ 0 \in Threads
  BY <1>0, <1>1, Counts DEF Threads, Nobody, MtMode
<1>3. cs = Nobody /\ ~canProcess /\ (AtRest \/ All("none"))
  BY <1>0, <1>1 DEF Phases
<1>4. InOrder' /\ Crc' /\ CrcRight'
  BY <1>1 DEF InOrder, Crc, CrcRight
<1>5. CASE MtMode /\ pc[0] = "none"
  <2>1. All("none")
    BY <1>2, <1>3, <1>5 DEF AtRest, All
  <2>2. \A t \in Threads : pc[t] = "none" /\ ~(t < 0)
    BY <1>0, <2>1, Counts DEF All, Threads
  <2>3. mpc' = "create" /\ MtMode'
    BY <1>1, <1>2, <1>5
  <2>4. Phases'
    BY <1>1, <1>2, <1>3, <2>2, <2>3 DEF Phases
  <2> QED
    BY <1>0, <1>4, <2>4 DEF IInv
<1>6. CASE ~(MtMode /\ pc[0] = "none")
  <2>1. AtRest'
    BY <1>1, <1>2, <1>3, <1>6 DEF AtRest, All
  <2>2. mpc' = "start"
    BY <1>1, <1>6
  <2>3. Phases'
    BY <1>1, <1>2, <1>3, <2>1, <2>2 DEF Phases
  <2> QED
    BY <1>0, <1>4, <2>3 DEF IInv
<1> QED
  BY <1>5, <1>6

\* The threads are created one after another.
LEMMA CreateStep == ASSUME IInv, CreateThread \/ Created PROVE IInv'
<1>0. TypeOK /\ TypeOK' /\ Phases /\ InOrder /\ Crc /\ CrcRight
  BY Types DEF IInv, Next, Caller
<1>1. /\ mpc = "create"
      /\ UNCHANGED <<numThreads, ret, cs, canProcess, taken, out, crc, failed, size>>
  BY DEF CreateThread, Created, eventVars, sharedVars, streamVars
<1>2. /\ Threads' = Threads /\ Nobody' = Nobody /\ (MtMode' <=> MtMode)
      /\ pc \in [Threads -> Places] /\ Threads \subseteq Nat /\ idx \in Nat
  BY <1>0, <1>1, Counts DEF Threads, Nobody, MtMode, TypeOK, ThreadTypes, CallerTypes
<1>3. /\ cs = Nobody /\ ~canProcess /\ MtMode /\ ret = "OK" /\ taken = 0 /\ out = <<>>
      /\ failed = {} /\ crc = out
      /\ \A t \in Threads : pc[t] = IF t < idx THEN "canProcess" ELSE "none"
  BY <1>0, <1>1 DEF Phases, CrcRight
<1>4. InOrder' /\ Crc' /\ CrcRight'
  BY <1>0, <1>1, <1>3 DEF InOrder, Crc, CrcRight
<1>5. CASE CreateThread
  <2>1. mpc' = "create" /\ idx' = idx + 1 /\ pc' = [pc EXCEPT ![idx] = "canProcess"]
    BY <1>1, <1>5 DEF CreateThread
  <2>2. \A t \in Threads : pc'[t] = IF t < idx' THEN "canProcess" ELSE "none"
    BY <1>2, <1>3, <2>1
  <2>3. Phases'
    BY <1>1, <1>2, <1>3, <2>1, <2>2 DEF Phases
  <2> QED
    BY <1>0, <1>4, <2>3 DEF IInv
<1>6. CASE Created
  <2>1. mpc' = "start" /\ idx = numThreads /\ pc' = pc
    BY <1>6 DEF Created, threadVars
  <2>2. \A t \in Threads : pc[t] = "canProcess"
    BY <1>0, <1>3, <2>1, Counts DEF Threads
  <2>3. AtRest'
    BY <1>2, <1>3, <2>1, <2>2 DEF AtRest, All
  <2>4. Phases'
    BY <1>1, <1>2, <1>3, <2>1, <2>3 DEF Phases
  <2> QED
    BY <1>0, <1>4, <2>4 DEF IInv
<1> QED
  BY <1>5, <1>6

\* The encoder is given up.
LEMMA FreeStep == ASSUME IInv, CreateFails \/ Destroy \/ Join PROVE IInv'
<1>0. TypeOK /\ TypeOK' /\ Phases /\ InOrder /\ Crc
  BY Types DEF IInv, Next, Caller
<1>1. UNCHANGED <<numThreads, pc, out, crc>> /\ (Lost => Lost')
  BY DEF CreateFails, Destroy, Join, Fault, Free, threadVars, streamVars, Lost
<1>2. Threads' = Threads
  BY <1>1 DEF Threads
<1>3. InOrder' /\ Crc'
  BY <1>0, <1>1, StreamSame
<1>4. CASE CreateFails \/ Destroy
  <2>1. mpc' = "join" /\ closeThreads' /\ mpc \in {"create", "idle"}
    BY <1>4 DEF CreateFails, Destroy, Free
  <2>2. \A t \in Threads : pc[t] \in {"none", "canProcess"}
    BY <1>0, <2>1 DEF Phases, AtRest, All
  <2>3. Phases'
    BY <1>1, <1>2, <2>1, <2>2 DEF Phases
  <2> QED
    BY <1>0, <1>3, <2>1, <2>3 DEF IInv, CrcRight
<1>5. CASE Join
  <2>1. mpc' = "gone" /\ \A t \in Threads : pc[t] \in {"none", "ended"}
    BY <1>5 DEF Join
  <2>2. Phases'
    BY <1>1, <1>2, <2>1 DEF Phases
  <2> QED
    BY <1>0, <1>3, <2>1, <2>2 DEF IInv, CrcRight
<1> QED
  BY <1>4, <1>5

\* The call ends before the threads begin.
LEMMA AllocFailsStep == ASSUME IInv, AllocFails PROVE IInv'
<1>0. TypeOK /\ TypeOK' /\ Phases /\ InOrder /\ Crc
  BY Types DEF IInv, Next, Caller
<1>1. /\ mpc = "start" /\ mpc' = "idle" /\ ret' = "MEM" /\ "MEM" \in failed'
      /\ UNCHANGED <<numThreads, pc, cs, canProcess, out, crc>> /\ (Lost => Lost')
  BY DEF AllocFails, Fault, threadVars, eventVars, sharedVars, Lost
<1>2. Threads' = Threads /\ Nobody' = Nobody /\ (MtMode' <=> MtMode)
  BY <1>1 DEF Threads, Nobody, MtMode
<1>3. cs = Nobody /\ ~canProcess /\ AtRest
  BY <1>0, <1>1 DEF Phases
<1>4. AtRest' /\ Invited'
  BY <1>1, <1>2, <1>3 DEF AtRest, All, Invited, Answer
<1>5. Phases'
  BY <1>1, <1>2, <1>3, <1>4 DEF Phases
<1> QED
  BY <1>0, <1>1, <1>5, StreamSame DEF IInv, CrcRight

\* The events are put back, and the threads let in.
LEMMA StartStep == ASSUME IInv, Start PROVE IInv'
<1>0. TypeOK /\ TypeOK' /\ Phases /\ InOrder /\ Crc /\ CrcRight
  BY Types DEF IInv, Next, Caller
<1>1. /\ mpc = "start" /\ finishedEvent' = Off /\ waitingEvent' = Off
      /\ canWrite' = FirstPlace /\ nextBlockIndex' = 0 /\ streamWasFinished' = FALSE
      /\ closeThreads' = FALSE /\ canStartWaiting' = FALSE /\ (MtMode => result' = "OK")
      /\ canProcess' = MtMode /\ mpc' = (IF MtMode THEN "gather" ELSE "single") /\ idx' = 0
      /\ UNCHANGED <<numThreads, ret, pc, block, cs, taken, out, crc, failed, size>>
  BY DEF Start, threadVars, streamVars
<1>2. /\ Threads' = Threads /\ Nobody' = Nobody /\ (MtMode' <=> MtMode) /\ Off' = Off
      /\ 0 \in Threads /\ Threads \subseteq Nat /\ numThreads \in Nat /\ size \in Nat
      /\ Nobody \notin Threads
  BY <1>0, <1>1, Counts DEF Threads, Nobody, MtMode, Off, TypeOK, StreamTypes
<1>3. /\ cs = Nobody /\ ~canProcess /\ AtRest /\ ret = "OK" /\ taken = 0 /\ out = <<>>
      /\ failed = {} /\ crc = out
  BY <1>0, <1>1 DEF Phases, CrcRight
<1>4. InOrder' /\ Crc' /\ CrcRight'
  BY <1>0, <1>1, <1>3 DEF InOrder, Crc, CrcRight
<1>5. CASE ~MtMode
  <2>1. mpc' = "single" /\ AtRest' /\ Written' = 0
    BY <1>1, <1>2, <1>3, <1>5 DEF AtRest, All, Written
  <2>2. Phases'
    BY <1>1, <1>2, <1>3, <1>5, <2>1 DEF Phases
  <2> QED
    BY <1>0, <1>4, <2>2 DEF IInv
<1>6. CASE MtMode
  <2>1. \A t \in Threads : pc'[t] = "canProcess"
    BY <1>1, <1>3, <1>6 DEF AtRest, All
  <2>2. Section'
    BY <1>1, <1>2, <1>3, <2>1 DEF Section, Reading
  <2>3. Written' = 0 /\ ~Lost' /\ taken' = 0
    BY <1>1, <1>3 DEF Written, Lost
  <2>4. Held'
    BY <1>1, <1>2, <2>1, <2>3 DEF Held, Holds
  <2>5. Ring'
    <3>1. Turn(0)'
      BY <1>1, <1>2, <1>6, <2>1 DEF Turn, FirstPlace, InTurn
    <3>2. 0 + taken' - Written' = 0 /\ 0 < numThreads'
      BY <1>1, <1>2, <2>3, <1>0, Counts
    <3>3. Around(0)'
      BY <1>1, <1>2, <2>1, <3>2 DEF Around, Holds, Wrap
    <3> QED
      BY <1>1, <1>2, <1>3, <2>3, <3>1, <3>3 DEF Ring
  <2>6. Errors'
    BY <1>1, <1>2, <1>3, <1>6, <2>1 DEF Errors
  <2>7. \A t \in Threads' : finishedEvent'[t] \/ t < idx' => pc'[t] = "finished"
    BY <1>1, <1>2 DEF Off
  <2>8. Working'
    BY <1>1, <1>2, <1>6, <2>1, <2>2, <2>4, <2>5, <2>6, <2>7 DEF Working
  <2>9. \A t \in Threads' : ~waitingEvent'[t]
    BY <1>1, <1>2 DEF Off
  <2>10. Phases'
    BY <1>1, <1>6, <2>8, <2>9 DEF Phases
  <2> QED
    BY <1>0, <1>4, <2>10 DEF IInv
<1> QED
  BY <1>5, <1>6

\* The first rendezvous.
LEMMA GatherStep == ASSUME IInv, Gather PROVE IInv'
<1>0. TypeOK /\ TypeOK' /\ Phases /\ InOrder /\ Crc
  BY Types DEF IInv, Next, Caller
<1>1. /\ mpc = "gather" /\ mpc' = "gather" /\ finishedEvent[idx] /\ idx' = idx + 1
      /\ finishedEvent' = [finishedEvent EXCEPT ![idx] = FALSE] /\ idx < numThreads
      /\ UNCHANGED <<numThreads, canProcess, canStartWaiting, waitingEvent, canWrite>>
      /\ UNCHANGED threadVars /\ UNCHANGED sharedVars /\ UNCHANGED streamVars
  BY DEF Gather
<1>2. /\ Threads' = Threads /\ (MtMode' <=> MtMode) /\ Off' = Off /\ Written' = Written
      /\ idx \in Threads /\ Threads \subseteq Nat /\ finishedEvent \in [Threads -> BOOLEAN]
  BY <1>0, <1>1, Counts DEF Threads, MtMode, Off, Written, streamVars, TypeOK, CallerTypes,
     EventTypes
<1>3. Working /\ \A t \in Threads : ~waitingEvent[t]
  BY <1>0, <1>1 DEF Phases
<1>4. \A t \in Threads : finishedEvent'[t] \/ t < idx' => pc[t] = "finished"
  <2>1. \A t \in Threads : t < idx' => t < idx \/ t = idx
    BY <1>1, <1>2
  <2> QED
    BY <1>1, <1>2, <1>3, <2>1 DEF Working
<1>5. Section'
  BY <1>1, <1>2, <1>3 DEF Working, Section, Reading, threadVars, sharedVars
<1>6. Held'
  BY <1>1, <1>2, <1>3 DEF Working, Held, Holds, Lost, threadVars, streamVars
<1>7. Ring'
  <2>1. /\ \A t \in Threads : (InTurn(t)' <=> InTurn(t)) /\ (Holds(t)' <=> Holds(t))
        /\ UNCHANGED <<canWrite, out, taken, crc, pc, block, blockIndex, failed>>
        /\ UNCHANGED <<nextBlockIndex, streamWasFinished>>
    BY <1>1 DEF InTurn, Holds, threadVars, sharedVars, streamVars
  <2>2. Lost' <=> Lost
    BY <2>1 DEF Lost
  <2> QED
    BY <1>0, <1>1, <1>3, <2>1, <2>2, RingSame DEF Working
<1>8. Errors'
  BY <1>1, <1>2, <1>3 DEF Working, Errors, threadVars, sharedVars, streamVars
<1>9. Working'
  BY <1>1, <1>2, <1>3, <1>4, <1>5, <1>6, <1>7, <1>8 DEF Working, threadVars, sharedVars
<1>10. Phases'
  BY <1>1, <1>2, <1>3, <1>9 DEF Phases
<1>11. InOrder' /\ Crc'
  BY <1>0, <1>1, StreamSame DEF streamVars, Lost
<1> QED
  BY <1>0, <1>1, <1>10, <1>11 DEF IInv, CrcRight

\* All threads have ended their part: everything read is out, or an error is in result.
LEMMA GatheredStep == ASSUME IInv, Gathered PROVE IInv'
<1>0. TypeOK /\ TypeOK' /\ Phases /\ InOrder /\ Crc
  BY Types DEF IInv, Next, Caller
<1>1. /\ mpc = "gather" /\ mpc' = "release" /\ idx = numThreads
      /\ UNCHANGED <<numThreads, pc, cs, canStartWaiting, waitingEvent, result>>
      /\ UNCHANGED streamVars /\ canProcess' = FALSE
  BY DEF Gathered, threadVars, sharedVars
<1>2. /\ Threads' = Threads /\ (MtMode' <=> MtMode) /\ Nobody' = Nobody
      /\ 0 \in Threads /\ \A t \in Threads : t < numThreads
  BY <1>0, <1>1, Counts DEF Threads, MtMode, Nobody
<1>3. Working /\ \A t \in Threads : ~waitingEvent[t]
  BY <1>0, <1>1 DEF Phases
<1>4. \A t \in Threads : pc[t] = "finished"
  BY <1>1, <1>2, <1>3 DEF Working
<1>5. cs = Nobody
  <2>1. cs \in Threads \cup {Nobody}
    BY <1>0 DEF TypeOK, SharedTypes
  <2> QED
    BY <1>3, <1>4, <2>1 DEF Working, Section, Reading
<1>6. Answer(result)
  <2>1. CASE result # "OK"
    BY <1>3, <2>1 DEF Working, Errors, Answer
  <2>2. CASE result = "OK"
    <3>1. failed = {} /\ taken = size
      BY <1>2, <1>3, <1>4, <2>2 DEF Working, Errors
    <3>2. Written \in Nat /\ taken \in Nat /\ Written <= taken
      BY <1>0, <1>3 DEF Working, Held, Written, TypeOK, StreamTypes
    <3>3. Written + 1 .. taken = {}
      BY <1>3, <1>4, <3>1 DEF Working, Held, Holds, Lost
    <3>4. Written = taken
      <4>1. Written + 1 \notin Written + 1 .. taken
        BY <3>3
      <4> QED
        BY <3>2, <4>1
    <3>5. crc = out
      BY <1>3, <3>1 DEF Working, Ring, Lost
    <3> QED
      BY <2>2, <3>1, <3>4, <3>5 DEF Answer, Written
  <2> QED
    BY <2>1, <2>2
<1>7. Left' /\ All("finished")'
  BY <1>1, <1>2, <1>4, <1>6 DEF Left, Answer, All, streamVars
<1>8. Phases'
  BY <1>1, <1>2, <1>3, <1>5, <1>7 DEF Phases, Working
<1>9. InOrder' /\ Crc'
  BY <1>0, <1>1, StreamSame DEF streamVars, Lost
<1> QED
  BY <1>0, <1>1, <1>8, <1>9 DEF IInv, CrcRight

\* The second rendezvous.
LEMMA RendezvousStep == ASSUME IInv, Release \/ Drain \/ Drained PROVE IInv'
<1>0. TypeOK /\ TypeOK' /\ Phases /\ InOrder /\ Crc
  BY Types DEF IInv, Next, Caller
<1>1. /\ mpc \in {"release", "drain"}
      /\ UNCHANGED <<numThreads, pc, cs, canProcess, result, calls>> /\ UNCHANGED streamVars
  BY DEF Release, Drain, Drained, threadVars, sharedVars
<1>2. /\ Threads' = Threads /\ (MtMode' <=> MtMode) /\ Nobody' = Nobody
      /\ Threads \subseteq Nat /\ \A t \in Threads : t < numThreads
  BY <1>0, <1>1, Counts DEF Threads, MtMode, Nobody
<1>3. cs = Nobody /\ ~canProcess /\ MtMode /\ Answer(result)
  BY <1>0, <1>1 DEF Phases, Left
<1>4. Left' /\ (\A r : Answer(r)' <=> Answer(r))
  BY <1>1, <1>3 DEF Left, Answer, streamVars
<1>5. InOrder' /\ Crc'
  BY <1>0, <1>1, StreamSame DEF streamVars, Lost
<1>6. CASE Release
  <2>1. /\ mpc = "release" /\ mpc' = "drain" /\ idx' = 0 /\ canStartWaiting'
        /\ waitingEvent' = waitingEvent
    BY <1>6 DEF Release
  <2>2. \A t \in Threads : pc[t] = "finished" /\ ~waitingEvent[t] /\ ~(t < 0)
    BY <1>0, <1>2, <2>1 DEF Phases, All
  <2>3. Phases'
    BY <1>1, <1>2, <1>3, <1>4, <2>1, <2>2 DEF Phases
  <2> QED
    BY <1>0, <1>5, <2>1, <2>3 DEF IInv, CrcRight
<1>7. CASE Drain
  <2>1. /\ mpc = "drain" /\ mpc' = "drain" /\ idx' = idx + 1 /\ waitingEvent[idx]
        /\ waitingEvent' = [waitingEvent EXCEPT ![idx] = FALSE] /\ idx < numThreads
        /\ canStartWaiting' = canStartWaiting
    BY <1>7 DEF Drain
  <2>2. idx \in Threads /\ waitingEvent \in [Threads -> BOOLEAN]
    BY <1>0, <2>1, Counts DEF TypeOK, CallerTypes, EventTypes, Threads
  <2>3. /\ canStartWaiting /\ \A t \in Threads : pc[t] \in {"finished", "canProcess"}
        /\ \A t \in Threads : waitingEvent[t] \/ t < idx => pc[t] = "canProcess"
    BY <1>0, <2>1 DEF Phases
  <2>4. \A t \in Threads : t < idx' => t < idx \/ t = idx
    BY <1>2, <2>1, <2>2
  <2>5. \A t \in Threads : waitingEvent'[t] \/ t < idx' => pc[t] = "canProcess"
    BY <2>1, <2>2, <2>3, <2>4
  <2>6. Phases'
    BY <1>1, <1>2, <1>3, <1>4, <2>1, <2>3, <2>5 DEF Phases
  <2> QED
    BY <1>0, <1>5, <2>1, <2>6 DEF IInv, CrcRight
<1>8. CASE Drained
  <2>1. /\ mpc = "drain" /\ idx = numThreads /\ ret' = result
        /\ mpc' = IF result = "OK" THEN "footer" ELSE "idle"
    BY <1>8 DEF Drained
  <2>2. \A t \in Threads : pc[t] = "canProcess"
    BY <1>0, <1>2, <2>1 DEF Phases
  <2>3. AtRest' /\ Invited'
    BY <1>1, <1>2, <1>3, <1>4, <2>1, <2>2 DEF AtRest, All, Invited
  <2>4. result = "OK" => failed' = {} /\ Written' = size' /\ crc' = out'
    BY <1>1, <1>3 DEF Answer, Written, streamVars
  <2>5. Phases'
    BY <1>1, <1>2, <1>3, <2>1, <2>3, <2>4 DEF Phases
  <2>6. CrcRight'
    BY <2>1, <2>4 DEF CrcRight
  <2> QED
    BY <1>0, <1>5, <2>5, <2>6 DEF IInv
<1> QED
  BY <1>6, <1>7, <1>8

\* An encoder with one thread.
LEMMA SingleStep ==
  ASSUME IInv, SingleBlock \/ SingleReadFails \/ SingleEnd \/ Footer
  PROVE  IInv'
<1>0. TypeOK /\ TypeOK' /\ Phases /\ InOrder /\ Crc /\ CrcRight
  BY Types DEF IInv, Next, Caller
<1>1. /\ mpc \in {"single", "footer"}
      /\ UNCHANGED <<numThreads, pc, cs, canProcess, size, calls>>
  BY DEF SingleBlock, SingleReadFails, SingleEnd, Footer, threadVars, sharedVars, eventVars,
     streamVars
<1>2. /\ Threads' = Threads /\ (MtMode' <=> MtMode) /\ Nobody' = Nobody
      /\ out \in Seq(Nat) /\ crc \in Seq(Nat) /\ taken \in Nat /\ size \in Nat
  BY <1>0, <1>1 DEF Threads, MtMode, Nobody, TypeOK, StreamTypes
<1>3. cs = Nobody /\ ~canProcess /\ AtRest /\ crc = out /\ failed = {}
  BY <1>0, <1>1 DEF Phases, CrcRight
<1>4. AtRest' /\ cs' = Nobody' /\ ~canProcess'
  BY <1>1, <1>2, <1>3 DEF AtRest, All
<1>5. mpc = "single" => ~MtMode /\ ret = "OK" /\ Written = taken /\ taken <= size
  BY <1>0 DEF Phases
<1>6. ASSUME mpc' = "idle", ret' # "OK", ret' \in failed' PROVE Phases' /\ CrcRight'
  BY <1>4, <1>6 DEF Phases, CrcRight, Invited, Answer
<1>7. CASE SingleBlock
  <2>1. mpc = "single" /\ taken < size /\ taken' = taken + 1 /\ crc' = Append(out, taken + 1)
    BY <1>3, <1>7 DEF SingleBlock
  <2>2. taken + 1 = Len(out) + 1
    BY <1>5, <2>1 DEF Written
  <2>3. CASE out' = Append(out, taken') /\ UNCHANGED <<mpc, ret, failed>>
    <3>1. InOrder' /\ Crc' /\ CrcRight' /\ Written' = taken'
      BY <1>0, <1>2, <2>1, <2>2, <2>3 DEF InOrder, Crc, CrcRight, Written
    <3>2. taken' <= size' /\ ~MtMode' /\ failed' = {} /\ ret' = "OK" /\ mpc' = "single"
      BY <1>1, <1>2, <1>3, <1>5, <2>1, <2>3
    <3>3. Phases'
      BY <1>4, <3>1, <3>2 DEF Phases
    <3> QED
      BY <1>0, <3>1, <3>3 DEF IInv
  <2>4. ASSUME NEW f \in {"WRITE", "ABORT"}, Fault(f), ret' = f, mpc' = "idle",
               out' = IF f = "ABORT" THEN Append(out, taken') ELSE out
        PROVE  IInv'
    <3>1. f \in failed'
      BY <2>4 DEF Fault
    <3>2. Phases' /\ CrcRight'
      BY <1>6, <2>4, <3>1
    <3>3. InOrder' /\ Crc'
      BY <1>0, <1>2, <2>1, <2>2, <2>4, <3>1 DEF InOrder, Crc, Lost
    <3> QED
      BY <1>0, <3>2, <3>3 DEF IInv
  <2> QED
    BY <1>7, <2>3, <2>4 DEF SingleBlock
<1>8. CASE SingleReadFails
  <2>1. /\ mpc' = "idle" /\ ret' = "READ" /\ "READ" \in failed' /\ UNCHANGED <<out, crc>>
        /\ (Lost => Lost')
    BY <1>8 DEF SingleReadFails, Fault, Lost
  <2> QED
    BY <1>0, <1>6, <2>1, StreamSame DEF IInv
<1>9. CASE SingleEnd
  <2>1. /\ mpc = "single" /\ mpc' = "footer" /\ taken = size /\ UNCHANGED <<out, crc, failed>>
    BY <1>9 DEF SingleEnd, streamVars
  <2>2. Written' = size' /\ failed' = {} /\ crc' = out'
    BY <1>1, <1>3, <1>5, <2>1 DEF Written
  <2>3. Phases' /\ CrcRight'
    BY <1>4, <2>1, <2>2 DEF Phases, CrcRight
  <2> QED
    BY <1>0, <2>1, <2>3, StreamSame DEF IInv, Lost
<1>10. CASE Footer
  <2>1. /\ mpc = "footer" /\ mpc' = "idle" /\ UNCHANGED <<out, crc>> /\ (Lost => Lost')
        /\ \/ ret' = "OK" /\ failed' = failed
           \/ ret' = "WRITE" /\ ret' \in failed'
    BY <1>10 DEF Footer, Fault, Lost
  <2>2. Written = size
    BY <1>0, <2>1 DEF Phases
  <2>3. Invited'
    BY <1>1, <1>3, <2>1, <2>2 DEF Invited, Answer, Written
  <2>4. Phases' /\ CrcRight'
    BY <1>4, <2>1, <2>3 DEF Phases, CrcRight
  <2> QED
    BY <1>0, <2>1, <2>4, StreamSame DEF IInv
<1> QED
  BY <1>7, <1>8, <1>9, <1>10

-----------------------------------------------------------------------------
\* Nothing changes.
LEMMA Unchanged == ASSUME IInv, UNCHANGED vars PROVE IInv'
<1>0. /\ UNCHANGED <<numThreads, mpc, idx, calls, ret, pc, block, blockIndex, res>>
      /\ UNCHANGED <<canProcess, canStartWaiting, finishedEvent, waitingEvent, canWrite>>
      /\ UNCHANGED <<cs, closeThreads, streamWasFinished, nextBlockIndex, result>>
      /\ UNCHANGED <<size, taken, out, crc, failed>>
  BY DEF vars, callerVars, threadVars, eventVars, sharedVars, streamVars
<1>1. TypeOK' /\ Threads' = Threads /\ TypeOK
  BY <1>0, Types DEF IInv, Threads, vars
<1>2. Section' <=> Section
  BY <1>0, <1>1 DEF Section, Reading
<1>3. Held => Held'
  BY <1>0, <1>1 DEF Held, Holds, Lost, Written
<1>4. Ring => Ring'
  <2>1. /\ Lost' <=> Lost
        /\ \A t \in Threads : (InTurn(t)' <=> InTurn(t)) /\ (Holds(t)' <=> Holds(t))
    BY <1>0 DEF Lost, InTurn, Holds
  <2> QED
    BY <1>0, <1>1, <2>1, RingSame
<1>5. Errors => Errors'
  BY <1>0, <1>1 DEF Errors
<1>6. Working => Working'
  BY <1>0, <1>1, <1>2, <1>3, <1>4, <1>5 DEF Working, MtMode
<1>7. Phases'
  BY <1>0, <1>1, <1>6 DEF IInv, Phases, AtRest, All, MtMode, Nobody, Left, Invited, Answer,
     Written
<1> QED
  BY <1>0, <1>1, <1>7 DEF IInv, InOrder, Crc, CrcRight, Lost

\* Every step keeps the invariant.
LEMMA Inductive == ASSUME IInv, [Next]_vars PROVE IInv'
<1>1. CASE UNCHANGED vars
  BY <1>1, Unchanged
<1>2. CASE Caller
  BY <1>2, CreateStep, FreeStep, AllocFailsStep, StartStep, GatherStep, GatheredStep,
     RendezvousStep, SingleStep DEF Caller
<1> QED
  BY <1>1, <1>2, CallStep, ThreadStep DEF Next, Stopped

\* An encoder that was just made satisfies it.
LEMMA Initial == ASSUME Init PROVE IInv
<1>1. /\ mpc = "idle" /\ idx = 0 /\ calls = 0 /\ ret = "OK" /\ failed = {} /\ taken = 0
      /\ size = 0 /\ out = <<>> /\ crc = <<>> /\ cs = Nobody /\ canProcess = FALSE
      /\ numThreads \in Nat \ {0} /\ numThreads \in ThreadCounts
  BY ConstantsAssumption DEF Init
<1>2. 0 \in Threads
  BY <1>1 DEF Threads
<1>3. TypeOK
  <2>1. CallerTypes /\ SharedTypes /\ StreamTypes
    BY <1>1, <1>2 DEF Init, CallerTypes, CallerPlaces, SharedTypes, StreamTypes
  <2>2. ThreadTypes
    BY <1>1, <1>2 DEF Init, ThreadTypes, Places
  <2>3. EventTypes
    BY DEF Init, EventTypes, Off
  <2> QED
    BY <1>1, <2>1, <2>2, <2>3 DEF TypeOK
<1>4. InOrder /\ Crc /\ CrcRight
  BY <1>1 DEF InOrder, Crc, CrcRight
<1>5. All("none") /\ Invited
  BY <1>1 DEF Init, All, Invited
<1>6. Phases
  BY <1>1, <1>5 DEF Phases
<1> QED
  BY <1>3, <1>4, <1>6 DEF IInv

\* What the invariant says about the stream.
LEMMA Whole == ASSUME IInv PROVE StreamIsWhole
<1>1. out \in Seq(Nat) /\ InOrder /\ Crc
  BY DEF IInv, TypeOK, StreamTypes
<1>2. out = [i \in 1 .. Len(out) |-> i]
  <2>1. out = [i \in 1 .. Len(out) |-> out[i]]
    BY <1>1
  <2> QED
    BY <1>1, <2>1 DEF InOrder
<1>3. mpc = "idle" /\ calls > 0 => Answer(ret)
  BY DEF IInv, Phases, Invited
<1> QED
  BY <1>1, <1>2, <1>3 DEF StreamIsWhole, Crc, Answer, Lost

\* The state of the encoder keeps its types, whatever the numbers of threads, blocks and
\* calls and whatever fails (CEncoder and CThreadInfo of BZip2Encoder.h).
THEOREM EncoderTypes == Spec => []TypeOK
<1>1. IInv => TypeOK
  BY DEF IInv
<1> QED
  BY <1>1, Initial, Inductive, PTL DEF Spec

\* With any number of threads, any inputs, any number of calls and any faults, the blocks
\* leave EncodeBlock3 in the order in which they were read, CombinedCrc is made of the same
\* blocks, and Code answers S_OK just when nothing failed and all of them are out.
THEOREM StreamStaysWhole == Spec => []StreamIsWhole
  BY Initial, Inductive, Whole, PTL DEF Spec
=============================================================================
