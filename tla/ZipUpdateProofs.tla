-------------------------- MODULE ZipUpdateProofs --------------------------
(* Proofs about the zip handler's update with threads (ZipUpdate), for any   *)
(* number of threads, any items, any amount of memory and any faults.        *)
EXTENDS ZipUpdate, FiniteSetTheorems, SequenceTheorems, WellFoundedInduction, TLAPS

Cells == Int \X Int \X Int

\* The caller is between the first item and the central directory.
Active == mpc \in {"loop", "blocks", "tail", "lock", "pop", "replace"}

CallerTypes ==
  /\ work \in Works /\ outSeq \in BOOLEAN /\ pool \in Pools
  /\ mpc \in Places /\ ret \in Results
  /\ cur \in 1 .. Len(work) + 1 /\ mt \in 1 .. Len(work) + 1 /\ last \in 0 .. Len(work)
  /\ order \in Seq(Threads) /\ skip \subseteq DOMAIN work

StreamTypes == hres \in {"OK", "WRITE"} /\ failed \in BOOLEAN

RefTypes ==
  /\ DOMAIN refs = DOMAIN work
  /\ \A i \in DOMAIN work : /\ DOMAIN refs[i] = DOMAIN NoRef
                            /\ refs[i].blocks \in Nat /\ refs[i].finished \in BOOLEAN

ThreadTypes ==
  /\ done \in Seq(Threads) /\ doneSem \in Nat
  /\ pc \in [Threads -> {"none", "wait", "run", "alloc", "push", "post", "exited"}]
  /\ item \in [Threads -> 0 .. Len(work)] /\ result \in [Threads -> Results]
  /\ isFree \in [Threads -> BOOLEAN] /\ exit \in [Threads -> BOOLEAN]
  /\ compressEvent \in [Threads -> BOOLEAN]
  /\ pass \in [Threads -> Nat] /\ wrote \in [Threads -> Nat]

RealTypes ==
  /\ real \in [Threads -> BOOLEAN] /\ unlocked \in [Threads -> BOOLEAN]
  /\ realEvent \in [Threads -> BOOLEAN] /\ stopEvent \in [Threads -> BOOLEAN]

MemTypes ==
  /\ mem \in [Threads -> Seq(Cells)]
  /\ held \in [Threads -> Nat] /\ at \in [Threads -> Nat]
  /\ free \in Nat /\ sem \in Nat

Types == CallerTypes /\ StreamTypes /\ RefTypes /\ ThreadTypes /\ RealTypes /\ MemTypes

\* The thread has a file, or is about to begin one: it may write.
Engaged(t) == \/ pc[t] \in {"run", "alloc"}
              \/ pc[t] \in {"wait", "post"} /\ compressEvent[t] /\ ~exit[t]

InOrder(t) == \E k \in DOMAIN order : order[k] = t
InDone(t)  == \E k \in DOMAIN done : done[k] = t

\* Where each thread is: it has no file, or its file is about to begin, being packed, or
\* packed and the caller has not taken notice.
Life ==
  /\ \A t \in Threads :
       /\ pc[t] \in {"run", "alloc", "push"} \/ (compressEvent[t] /\ ~exit[t]) => ~InDone(t)
       /\ compressEvent[t] /\ ~exit[t] => pc[t] \in {"wait", "post"}
  /\ \A j, k \in DOMAIN done : done[j] = done[k] => j = k
  /\ mpc = "create" => \A t \in Threads : /\ pc[t] = "none" /\ isFree[t]
                                          /\ ~exit[t] /\ ~compressEvent[t] /\ ~InDone(t)
  /\ Active =>
       /\ \A j, k \in DOMAIN order : order[j] = order[k] => j = k
       /\ \A t \in Threads :
            /\ ~exit[t] /\ pc[t] \notin {"none", "exited"}
            /\ ~isFree[t] <=> InOrder(t)
            /\ isFree[t] => pc[t] \in {"wait", "post"} /\ ~compressEvent[t] /\ ~InDone(t)
            /\ ~isFree[t] /\ pc[t] \in {"wait", "post"} => compressEvent[t] \/ InDone(t)

\* Each item in done was or will be counted by the semaphore.
Posting == {t \in Threads : pc[t] = "post"}
Counted == Len(done) = doneSem + Cardinality(Posting) + (IF mpc = "pop" THEN 1 ELSE 0)

\* The first item that threads may still have.
Low        == IF mpc = "replace" THEN cur + 1 ELSE cur
Packing(i) == work[i].kind = "file" /\ i \notin skip /\ ~refs[i].finished

\* The files of the threads stand in their order, and none is missing; only the first can
\* be told to write to the archive.
Bounds      == cur <= mt /\ (mpc # "loop" => cur < mt)
Increasing  == \A j, k \in DOMAIN order : j < k => item[order[j]] < item[order[k]]
Inside      == \A k \in DOMAIN order : item[order[k]] \in Low .. mt - 1 /\ Packing(item[order[k]])
NoneMissing == \A i \in Low .. mt - 1 : Packing(i) => \E k \in DOMAIN order : item[order[k]] = i
OnlyFirst   == \A k \in DOMAIN order :
                 unlocked[order[k]] => k = 1 /\ item[order[k]] = cur /\ last = cur
Current     == /\ mpc \in {"blocks", "tail"} => refs[cur].finished
               /\ mpc \in {"lock", "pop"} => order # <<>> /\ item[order[1]] = cur /\ unlocked[order[1]]
               /\ mpc = "replace" => ~refs[cur].finished

Turn ==
  /\ mpc = "create" => order = <<>> /\ cur = 1 /\ mt = 1
  /\ Active => Bounds /\ Increasing /\ Inside /\ NoneMissing /\ OnlyFirst /\ Current

\* What waits for its turn.
Stored ==
  /\ \A i \in skip : i < mt
  /\ \A i \in DOMAIN work :
       /\ ~refs[i].finished => refs[i].blocks = 0
       /\ refs[i].finished => i < mt /\ work[i].kind = "file" /\ i \notin skip
       /\ i < cur => refs[i].blocks = 0

\* What a thread works on, and that one at most may write to the archive.
Working ==
  /\ \A t \in Threads : Engaged(t) => item[t] \in DOMAIN work /\ work[item[t]].kind = "file"
  /\ \A t \in Threads : pc[t] \in {"run", "alloc"} => pass[t] \in 1 .. Len(Sizes(t))
  /\ \A t \in Threads : real[t] \/ realEvent[t] => unlocked[t]
  /\ \A t, u \in Threads : Engaged(t) /\ unlocked[t] /\ Engaged(u) /\ unlocked[u] => t = u

\* The blocks of memory.
Allocating == {t \in Threads : pc[t] = "alloc"}
Accounted  == IsFiniteSet(InUse) /\ free + Cardinality(InUse) = pool
Promised   == sem + Cardinality(Allocating) = free
Roomy      == \A t \in Threads :
                /\ Len(mem[t]) <= held[t] * BlockSize
                /\ Engaged(t) /\ ~real[t] => at[t] <= held[t] * BlockSize
GivenBack  == Active \/ mpc = "create" => \A t \in Threads : isFree[t] => held[t] = 0
Memory     == Accounted /\ Promised /\ Roomy /\ GivenBack

IInv == Types /\ Life /\ Counted /\ Turn /\ Stored /\ Working /\ Memory

-----------------------------------------------------------------------------
(* The helpers *)

\* A set of natural numbers has a smallest one: FreeThreads has a first thread.
LEMMA Least == ASSUME NEW S \in SUBSET Nat, S # {} PROVE \E x \in S : \A y \in S : x <= y
<1>1. IsWellFoundedOn(OpToRel(<,Nat), Nat) BY NatLessThanWellFounded
<1>2. PICK x \in S : \A y \in S : ~(<<y, x>> \in OpToRel(<,Nat)) BY <1>1, WFMin
<1>3. \A y \in S : ~(y < x) BY <1>2 DEF OpToRel
<1> QED BY <1>3

\* The blocks of data that fits in h blocks are not more than h.
LEMMA BlocksFit == ASSUME NEW h \in Nat, NEW n \in Nat, n <= h * BlockSize
                   PROVE Blocks(n) \in Nat /\ Blocks(n) <= h
<1> USE ConstantsAssumption
<1>1. Blocks(n) \in Nat /\ Blocks(n) * BlockSize <= n + BlockSize - 1 BY DEF Blocks
<1>2. ASSUME Blocks(n) >= h + 1 PROVE FALSE
  <2>1. Blocks(n) * BlockSize >= (h + 1) * BlockSize BY <1>1, <1>2
  <2>2. (h + 1) * BlockSize = h * BlockSize + BlockSize OBVIOUS
  <2> QED BY <2>1, <2>2, <1>1
<1> QED BY <1>1, <1>2

\* More blocks have more room.
LEMMA MoreRoom == ASSUME NEW h \in Nat
                  PROVE h * BlockSize \in Nat /\ (h + 1) * BlockSize = h * BlockSize + BlockSize
BY ConstantsAssumption

\* threadIndices.Delete moves the indices behind the one that goes to the front.
LEMMA Removed ==
  ASSUME NEW S, NEW s \in Seq(S), NEW k \in 1 .. Len(s)
  PROVE  /\ RemoveAt(s, k) \in Seq(S) /\ Len(RemoveAt(s, k)) = Len(s) - 1
         /\ \A i \in 1 .. Len(s) - 1 : RemoveAt(s, k)[i] = s[IF i < k THEN i ELSE i + 1]
<1> DEFINE a == SubSeq(s, 1, k - 1)
           b == SubSeq(s, k + 1, Len(s))
<1>1. a \in Seq(S) /\ Len(a) = k - 1 /\ \A i \in 1 .. k - 1 : a[i] = s[i]
  OBVIOUS
<1>2. b \in Seq(S) /\ Len(b) = Len(s) - k /\ \A i \in 1 .. Len(s) - k : b[i] = s[k + i]
  OBVIOUS
<1> HIDE DEF a, b
<1>3. /\ a \o b \in Seq(S) /\ Len(a \o b) = Len(a) + Len(b)
      /\ \A i \in 1 .. Len(a) + Len(b) : (a \o b)[i] = IF i <= Len(a) THEN a[i] ELSE b[i - Len(a)]
  BY <1>1, <1>2, ConcatProperties
<1>4. Len(s) \in Nat OBVIOUS
<1>5. \A i \in 1 .. Len(s) - 1 : (a \o b)[i] = s[IF i < k THEN i ELSE i + 1]
  BY <1>1, <1>2, <1>3, <1>4
<1>6. RemoveAt(s, k) = a \o b BY DEF a, b, RemoveAt
<1>7. Len(a \o b) = Len(s) - 1 BY <1>1, <1>2, <1>3, <1>4
<1> HIDE DEF a, b
<1> QED BY <1>3, <1>5, <1>6, <1>7

\* COutMemStream and CCacheOutStream: what is written lies at its position.
LEMMA PutFacts ==
  ASSUME NEW s \in Seq(Cells), NEW c \in Seq(Cells), NEW p \in Nat
  PROVE  /\ Put(s, p, c) \in Seq(Cells)
         /\ Len(Put(s, p, c)) = IF p + Len(c) > Len(s) THEN p + Len(c) ELSE Len(s)
<1> DEFINE n == IF p + Len(c) > Len(s) THEN p + Len(c) ELSE Len(s)
<1>1. n \in Nat /\ Len(s) \in Nat /\ Len(c) \in Nat OBVIOUS
<1>2. ASSUME NEW j \in 1 .. n
      PROVE (IF j > p /\ j <= p + Len(c) THEN c[j - p] ELSE IF j <= Len(s) THEN s[j] ELSE Directory)
              \in Cells
  <2>1. Directory \in Cells BY DEF Directory, Cells
  <2>2. j > p /\ j <= p + Len(c) => c[j - p] \in Cells BY <1>1
  <2>3. j <= Len(s) => s[j] \in Cells BY <1>1
  <2> QED BY <2>1, <2>2, <2>3
<1>3. Put(s, p, c) \in [1 .. n -> Cells] BY <1>2 DEF Put
<1> QED BY <1>1, <1>3

\* The units that a pass makes.
LEMMA PieceFacts ==
  ASSUME NEW i \in Int, NEW p \in Int, NEW a \in Int, NEW b \in Int, a <= b
  PROVE  Piece(i, p, a, b) \in Seq(Cells) /\ Len(Piece(i, p, a, b)) = b - a
<1>1. b - a \in Nat OBVIOUS
<1>2. \A j \in 1 .. b - a : Data(i, p, a + j) \in Cells BY DEF Data, Cells
<1>3. Piece(i, p, a, b) \in [1 .. b - a -> Cells] BY <1>2 DEF Piece
<1> QED BY <1>1, <1>3

\* FreeThreads' first thread is free.
LEMMA FirstFree ==
  ASSUME FreeThreads # {}
  PROVE  LET t == CHOOSE t \in FreeThreads : \A u \in FreeThreads : t <= u
         IN t \in Threads /\ isFree[t]
<1>1. FreeThreads \subseteq Nat BY DEF FreeThreads, Threads
<1>2. \E t \in FreeThreads : \A u \in FreeThreads : t <= u BY <1>1, Least
<1>3. (CHOOSE t \in FreeThreads : \A u \in FreeThreads : t <= u) \in FreeThreads BY <1>2
<1> QED BY <1>3 DEF FreeThreads

\* The items to pack.
LEMMA ItemFacts ==
  ASSUME CallerTypes, NEW i \in DOMAIN work
  PROVE  /\ DOMAIN work = 1 .. Len(work) /\ Len(work) \in Nat
         /\ work[i].kind \in Kinds /\ work[i].sizes \in Seq(Nat)
         /\ work[i].kind = "file" => Len(work[i].sizes) >= 1
<1>1. work \in Seq(Items) BY ConstantsAssumption DEF CallerTypes
<1>2. work[i] \in Items BY <1>1
<1>3. Len(work) \in Nat /\ DOMAIN work = 1 .. Len(work) BY <1>1
<1>4. work[i].kind \in Kinds /\ work[i].sizes \in Seq(Nat)
      /\ (work[i].kind = "file" => work[i].sizes # <<>>)
  BY <1>2 DEF Items
<1> QED BY <1>3, <1>4, EmptySeq

\* How many items there are.
LEMMA WorkFacts ==
  ASSUME CallerTypes PROVE work \in Seq(Items) /\ DOMAIN work = 1 .. Len(work) /\ Len(work) \in Nat
<1>1. work \in Seq(Items) BY ConstantsAssumption DEF CallerTypes
<1> QED BY <1>1

-----------------------------------------------------------------------------
(* The steps *)

\* What the threads leave to the caller, and what the caller leaves to them.
LEMMA ThreadFrame ==
  ASSUME NEW t \in Threads, Coder(t) \/ CodeFails(t)
  PROVE  UNCHANGED <<given, mpc, ret, callerVars, isFree, item, exit, unlocked, outAt>>
BY DEF Coder, CodeFails, WaitCompress, Fill, StopWriting, GoReal, TakeSemaphore, AllocateBlock,
       WriteReal, NextPass, Packed, Push, Post, Returns, callerVars, threadVars, doneVars,
       coderVars, memVars, realVars

\* How a thread moves.
Begins(t) ==
  /\ pc[t] = "wait" /\ compressEvent[t]
  /\ compressEvent' = [compressEvent EXCEPT ![t] = FALSE]
  /\ pc' = [pc EXCEPT ![t] = IF exit[t] THEN "exited" ELSE "run"]
  /\ pass' = [pass EXCEPT ![t] = 1]
  /\ UNCHANGED <<done, doneSem>>

Packs(t) ==
  /\ pc[t] \in {"run", "alloc"}
  /\ \E p \in {"run", "alloc", "push"} : pc' = [pc EXCEPT ![t] = p]
  /\ UNCHANGED <<compressEvent, done, doneSem>>
  /\ \/ UNCHANGED pass
     \/ pass[t] < Len(Sizes(t)) /\ pass' = [pass EXCEPT ![t] = @ + 1]

Reports(t) ==
  \/ Push(t)
  \/ Post(t)

\* A thread begins, packs, or reports that it has finished: nothing else happens to its place.
LEMMA ThreadMoves ==
  ASSUME Types, NEW t \in Threads, Coder(t) \/ CodeFails(t)
  PROVE  Begins(t) \/ Packs(t) \/ Reports(t)
<1> USE DEF callerVars, threadVars, doneVars, coderVars, memVars, realVars
<1>1. CASE WaitCompress(t) BY <1>1 DEF WaitCompress, Begins
<1>2. ASSUME UNCHANGED pc, pc[t] = "run" PROVE \E p \in {"run", "alloc", "push"} : pc' = [pc EXCEPT ![t] = p]
  BY <1>2 DEF Types, ThreadTypes
<1>3. CASE Fill(t) BY <1>2, <1>3 DEF Fill, Packs
<1>4. CASE StopWriting(t) BY <1>4 DEF StopWriting, Waits, Returns, Packs
<1>5. CASE GoReal(t) BY <1>2, <1>5 DEF GoReal, Waits, Returns, Packs
<1>6. CASE TakeSemaphore(t) BY <1>6 DEF TakeSemaphore, Waits, Packs
<1>7. CASE AllocateBlock(t) BY <1>7 DEF AllocateBlock, Returns, Packs
<1>8. CASE WriteReal(t) BY <1>2, <1>8 DEF WriteReal, Returns, Packs
<1>9. CASE NextPass(t) BY <1>2, <1>9 DEF NextPass, Returns, Packs
<1>10. CASE Packed(t) BY <1>10 DEF Packed, Returns, Packs
<1>11. CASE CodeFails(t) BY <1>11 DEF CodeFails, Returns, Packs
<1>12. CASE Push(t) \/ Post(t) BY <1>12 DEF Reports
<1> QED BY <1>1, <1>3, <1>4, <1>5, <1>6, <1>7, <1>8, <1>9, <1>10, <1>11, <1>12 DEF Coder

\* The thread that CMtSem::GetFreeItem returns.
LEMMA PoppedFacts ==
  ASSUME ThreadTypes, done # <<>>
  PROVE  /\ Len(done) \in Nat \ {0} /\ Popped = done[1] /\ Popped \in Threads
         /\ Tail(done) \in Seq(Threads) /\ Len(Tail(done)) = Len(done) - 1
         /\ \A i \in 1 .. Len(done) - 1 : Tail(done)[i] = done[i + 1]
<1>1. done \in Seq(Threads) BY DEF ThreadTypes
<1> QED BY <1>1, HeadTailProperties, EmptySeq DEF Popped

\* What StartFile does with the thread that it takes.
Starts(t) ==
  /\ isFree[t]
  /\ isFree' = [isFree EXCEPT ![t] = FALSE]
  /\ realEvent' = [realEvent EXCEPT ![t] = FALSE]
  /\ unlocked' = [unlocked EXCEPT ![t] = FALSE]
  /\ real' = [real EXCEPT ![t] = FALSE]
  /\ mem' = [mem EXCEPT ![t] = <<>>] /\ held' = [held EXCEPT ![t] = 0]
  /\ at' = [at EXCEPT ![t] = 0]
  /\ free' = free + held[t] /\ sem' = sem + held[t]
  /\ item' = [item EXCEPT ![t] = mt]
  /\ compressEvent' = [compressEvent EXCEPT ![t] = TRUE]
  /\ order' = Append(order, t)
  /\ UNCHANGED <<mpc, ret, pc, done, doneSem, exit, result, pass, wrote, pack, outAt, stopEvent>>

\* StartFile takes a free thread, or Update2 is left.
LEMMA StartedOrNot ==
  ASSUME StartFile
  PROVE  \/ \E t \in Threads : Starts(t)
         \/ mpc' = "stop" /\ UNCHANGED <<order, threadVars>>
<1>1. CASE FreeThreads = {} BY <1>1 DEF StartFile, Leave
<1>2. CASE FreeThreads # {}
  <2> DEFINE f == CHOOSE t \in FreeThreads : \A u \in FreeThreads : t <= u
  <2>1. f \in Threads /\ isFree[f] BY <1>2, FirstFree
  <2>2. Starts(f) BY <1>2, <2>1 DEF StartFile, EventReset, Starts, doneVars
  <2> QED BY <2>1, <2>2
<1> QED BY <1>1, <1>2

\* The place of a thread in threadIndices.
LEMMA PlaceInOrder ==
  ASSUME CallerTypes, NEW t, t \in Range(order)
  PROVE  LET k == CHOOSE k \in DOMAIN order : order[k] = t
         IN k \in 1 .. Len(order) /\ order[k] = t
<1>1. order \in Seq(Threads) BY DEF CallerTypes
<1>2. \E k \in DOMAIN order : order[k] = t BY DEF Range
<1> QED BY <1>1, <1>2

\* Every step keeps the types of what the caller has.
LEMMA CallerTypesStep == ASSUME IInv, [Next]_vars PROVE CallerTypes'
<1> USE DEF callerVars, given, CallerTypes, Places, Results
<1>1. CallerTypes /\ Turn BY DEF IInv, Types
<1>2. Len(work) \in Nat /\ DOMAIN work = 1 .. Len(work) BY <1>1, WorkFacts
<1>3. ASSUME UNCHANGED <<given, mpc, ret, callerVars>> PROVE CallerTypes'
  BY <1>1, <1>3
<1>4. CASE CreateThreads BY <1>1, <1>4 DEF CreateThreads, Leave
<1>5. CASE PassOver \/ FileGone \/ OpenFails
  BY <1>1, <1>2, <1>5 DEF PassOver, FileGone, OpenFails, Ahead, Leave
<1>6. CASE StartFile
  <2>1. order' \in Seq(Threads)
    <3>1. CASE UNCHANGED order BY <1>1, <3>1
    <3>2. CASE \E t \in Threads : Starts(t)
      <4>1. PICK t \in Threads : order' = Append(order, t) BY <3>2 DEF Starts
      <4> QED BY <1>1, <4>1
    <3> QED BY <1>6, <3>1, <3>2, StartedOrNot
  <2> QED BY <1>1, <1>2, <1>6, <2>1 DEF StartFile, Ahead, Leave
<1>7. CASE SkipItem \/ CopyItem
  BY <1>1, <1>2, <1>7 DEF SkipItem, CopyItem, InTurn, Leave, NextItem
<1>8. CASE HeaderOfFinished BY <1>1, <1>2, <1>8 DEF HeaderOfFinished, InTurn, Leave
<1>9. CASE WriteBlocks BY <1>1, <1>9 DEF WriteBlocks
<1>10. CASE EndFinished \/ Replace
  <2>1. cur < mt BY <1>1, <1>10 DEF EndFinished, Replace, Turn, Active, Bounds
  <2> QED BY <1>1, <1>2, <1>10, <2>1 DEF EndFinished, Replace, Leave, NextItem
<1>11. CASE Unlock
  BY <1>1, <1>2, <1>11 DEF Unlock, InTurn, Leave
<1>12. CASE Lock BY <1>1, <1>12 DEF Lock
<1>13. CASE PopFailed
  <2>1. done # <<>> => result[Popped] \in Results BY PoppedFacts DEF IInv, Types, ThreadTypes
  <2> QED BY <1>1, <1>13, <2>1 DEF PopFailed, Leave
<1>14. CASE PopEarly
  <2>1. Popped \in Range(order) =>
          RemoveAt(order, CHOOSE k \in DOMAIN order : order[k] = Popped) \in Seq(Threads)
    BY <1>1, PlaceInOrder, Removed
  <2> QED BY <1>1, <1>14, <2>1 DEF PopEarly, Leave
<1>15. CASE PopCurrent
  <2>1. order # <<>> BY <1>1, <1>15 DEF PopCurrent, Turn, Active, Current
  <2>2. Tail(order) \in Seq(Threads) BY <1>1, <2>1, HeadTailProperties
  <2> QED BY <1>1, <1>15, <2>2 DEF PopCurrent, Leave
<1>16. CASE WriteCentralDir BY <1>1, <1>16 DEF WriteCentralDir, Leave
<1>17. CASE \E t \in Threads : StopThread(t) \/ JoinThread(t)
  BY <1>1, <1>17 DEF StopThread, JoinThread
<1>18. CASE FinalFlush BY <1>1, <1>18 DEF FinalFlush
<1>19. CASE \E t \in Threads : Coder(t) \/ CodeFails(t) BY <1>3, <1>19, ThreadFrame
<1>20. CASE UNCHANGED vars BY <1>3, <1>20 DEF vars
<1> QED BY <1>4, <1>5, <1>6, <1>7, <1>8, <1>9, <1>10, <1>11, <1>12, <1>13, <1>14, <1>15, <1>16,
           <1>17, <1>18, <1>19, <1>20 DEF Next, Caller, Finished

\* Every step keeps the types of the states of the streams.
LEMMA StreamTypesStep == ASSUME StreamTypes, [Next]_vars PROVE StreamTypes'
<1> USE DEF archiveVars, StreamTypes
<1>1. ASSUME UNCHANGED <<hres, failed>> PROVE StreamTypes' BY <1>1
<1>2. ASSUME NEW p, NEW c, Written(p, c) \/ NotWritten(c) PROVE StreamTypes'
  BY <1>2 DEF Written, NotWritten, Refused, Noted
<1>3. CASE CreateThreads \/ PassOver \/ FileGone \/ OpenFails \/ StartFile \/ SkipItem
  BY <1>3 DEF CreateThreads, PassOver, FileGone, OpenFails, StartFile, SkipItem
<1>4. CASE CopyItem BY <1>2, <1>4 DEF CopyItem
<1>5. CASE HeaderOfFinished BY <1>2, <1>5 DEF HeaderOfFinished
<1>6. CASE WriteBlocks BY <1>2, <1>6 DEF WriteBlocks
<1>7. CASE EndFinished BY <1>2, <1>7 DEF EndFinished
<1>8. CASE Unlock BY <1>2, <1>8 DEF Unlock
<1>9. CASE Lock \/ PopFailed \/ PopEarly BY <1>9 DEF Lock, PopFailed, PopEarly
<1>10. CASE PopCurrent BY <1>2, <1>10 DEF PopCurrent
<1>11. CASE Replace BY <1>2, <1>11 DEF Replace
<1>12. CASE WriteCentralDir BY <1>2, <1>12 DEF WriteCentralDir
<1>13. CASE \E t \in Threads : StopThread(t) \/ JoinThread(t)
  BY <1>13 DEF StopThread, JoinThread
<1>14. CASE FinalFlush BY <1>2, <1>14 DEF FinalFlush
<1>15. CASE \E t \in Threads : Coder(t) \/ CodeFails(t)
  <2> SUFFICES ASSUME NEW t \in Threads, Coder(t) \/ CodeFails(t) PROVE StreamTypes' BY <1>15
  <2>1. CASE WaitCompress(t) \/ Fill(t) \/ StopWriting(t) \/ TakeSemaphore(t) \/ AllocateBlock(t)
             \/ Packed(t) \/ Push(t) \/ Post(t)
    BY <2>1 DEF WaitCompress, Fill, StopWriting, TakeSemaphore, AllocateBlock, Packed, Push, Post
  <2>2. CASE GoReal(t) BY <1>2, <2>2 DEF GoReal
  <2>3. CASE WriteReal(t) BY <1>2, <2>3 DEF WriteReal
  <2>4. CASE NextPass(t) BY <2>4 DEF NextPass, Rewind, Refused, Noted
  <2>5. CASE CodeFails(t) BY <2>5 DEF CodeFails
  <2> QED BY <2>1, <2>2, <2>3, <2>4, <2>5 DEF Coder
<1>16. CASE UNCHANGED vars BY <1>16 DEF vars
<1> QED BY <1>3, <1>4, <1>5, <1>6, <1>7, <1>8, <1>9, <1>10, <1>11, <1>12, <1>13, <1>14, <1>15,
           <1>16 DEF Next, Caller, Finished

\* Every step keeps the types of what waits for its turn.
LEMMA RefTypesStep == ASSUME IInv, [Next]_vars PROVE RefTypes'
<1> USE DEF callerVars, given, RefTypes
<1>1. CallerTypes /\ RefTypes /\ MemTypes /\ ThreadTypes BY DEF IInv, Types
<1>2. ASSUME UNCHANGED <<work, refs>> PROVE RefTypes' BY <1>1, <1>2
<1>3. CASE CreateThreads \/ PassOver \/ FileGone \/ OpenFails \/ StartFile \/ SkipItem
           \/ CopyItem \/ HeaderOfFinished \/ WriteBlocks \/ Unlock \/ Lock \/ PopFailed
           \/ Replace \/ WriteCentralDir
  BY <1>2, <1>3 DEF CreateThreads, PassOver, FileGone, OpenFails, StartFile, SkipItem, CopyItem,
       HeaderOfFinished, WriteBlocks, Unlock, Lock, PopFailed, Replace, WriteCentralDir
<1>4. CASE EndFinished
  <2>1. work' = work BY <1>4 DEF EndFinished
  <2>2. CASE UNCHANGED refs BY <1>2, <2>1, <2>2
  <2>3. CASE refs' = [refs EXCEPT ![cur].data = <<>>, ![cur].blocks = 0]
    BY <1>1, <2>1, <2>3 DEF NoRef
  <2> QED BY <1>4, <2>2, <2>3 DEF EndFinished
<1>5. CASE PopEarly
  <2>1. work' = work BY <1>5 DEF PopEarly
  <2>2. CASE UNCHANGED refs BY <1>2, <2>1, <2>2
  <2>3. CASE refs' = [refs EXCEPT ![item[Popped]] =
                        [finished |-> TRUE, data |-> mem[Popped],
                         blocks |-> Blocks(Len(mem[Popped])), pack |-> pack[Popped]]]
    <3>1. Popped \in Threads BY <1>1, <1>5, PoppedFacts DEF PopEarly
    <3>2. Len(mem[Popped]) \in Nat BY <1>1, <3>1 DEF MemTypes
    <3>3. Blocks(Len(mem[Popped])) \in Nat
      BY <3>1, <3>2, BlocksFit, <1>1 DEF IInv, Memory, Roomy, MemTypes
    <3> QED BY <1>1, <2>1, <2>3, <3>3 DEF NoRef
  <2> QED BY <1>5, <2>2, <2>3 DEF PopEarly
<1>6. CASE PopCurrent
  BY <1>1, <1>6 DEF PopCurrent, NoRef
<1>7. CASE \E t \in Threads : StopThread(t) \/ JoinThread(t)
  BY <1>2, <1>7 DEF StopThread, JoinThread
<1>8. CASE FinalFlush BY <1>2, <1>8 DEF FinalFlush
<1>9. CASE \E t \in Threads : Coder(t) \/ CodeFails(t) BY <1>2, <1>9, ThreadFrame
<1>10. CASE UNCHANGED vars BY <1>2, <1>10 DEF vars
<1> QED BY <1>3, <1>4, <1>5, <1>6, <1>7, <1>8, <1>9, <1>10 DEF Next, Caller, Finished

\* What the callers' actions do to the threads: only these change what a thread has.
LEMMA CallerFrame ==
  /\ PassOver \/ FileGone \/ OpenFails \/ SkipItem \/ CopyItem \/ HeaderOfFinished \/ WriteBlocks
       \/ Replace \/ WriteCentralDir \/ FinalFlush \/ (\E t \in Threads : JoinThread(t))
     => UNCHANGED threadVars
  /\ CreateThreads => UNCHANGED <<doneVars, coderVars, memVars, realVars>>
  /\ EndFinished => UNCHANGED <<pc, doneVars, coderVars, mem, held, at, realVars>>
  /\ Unlock => UNCHANGED <<pc, doneVars, coderVars, memVars>>
  /\ Lock => UNCHANGED <<pc, done, coderVars, memVars, realVars>>
  /\ PopFailed => UNCHANGED <<pc, doneSem, item, exit, compressEvent, result, pass, wrote,
                              pack, memVars, realVars>>
  /\ PopEarly => UNCHANGED <<pc, doneSem, item, exit, compressEvent, result, pass, wrote,
                             pack, at, realVars>>
  /\ PopCurrent => UNCHANGED <<pc, doneSem, item, exit, compressEvent, result, pass, wrote,
                               pack, at, real, unlocked, realEvent, stopEvent>>
BY DEF PassOver, FileGone, OpenFails, SkipItem, CopyItem, HeaderOfFinished, WriteBlocks, Replace,
       WriteCentralDir, FinalFlush, JoinThread, CreateThreads, EndFinished, Unlock, Lock,
       PopFailed, PopEarly, PopCurrent, Emptied, threadVars, memVars, realVars

\* The items, the memory and the kind of archive stay.
LEMMA Steady == ASSUME [Next]_vars PROVE UNCHANGED given
<1>1. CASE CreateThreads \/ PassOver \/ FileGone \/ OpenFails \/ StartFile \/ SkipItem
           \/ CopyItem \/ HeaderOfFinished \/ WriteBlocks \/ EndFinished \/ Unlock \/ Lock
           \/ PopFailed \/ PopEarly \/ PopCurrent \/ Replace \/ WriteCentralDir \/ FinalFlush
  BY <1>1 DEF CreateThreads, PassOver, FileGone, OpenFails, StartFile, SkipItem, CopyItem,
       HeaderOfFinished, WriteBlocks, EndFinished, Unlock, Lock, PopFailed, PopEarly, PopCurrent,
       Replace, WriteCentralDir, FinalFlush
<1>2. CASE \E t \in Threads : StopThread(t) \/ JoinThread(t)
  BY <1>2 DEF StopThread, JoinThread
<1>3. CASE \E t \in Threads : Coder(t) \/ CodeFails(t) BY <1>3, ThreadFrame
<1>4. CASE UNCHANGED vars BY <1>4 DEF vars
<1> QED BY <1>1, <1>2, <1>3, <1>4 DEF Next, Caller, Finished

\* The size of a pass.
LEMMA SizeFacts ==
  ASSUME CallerTypes, Working, ThreadTypes, NEW t \in Threads, pc[t] \in {"run", "alloc"}
  PROVE  /\ item[t] \in DOMAIN work /\ Sizes(t) \in Seq(Nat) /\ Len(Sizes(t)) \in Nat
         /\ pass[t] \in 1 .. Len(Sizes(t)) /\ Sizes(t)[pass[t]] \in Nat /\ Todo(t) \in Int
<1>1. item[t] \in DOMAIN work BY DEF Working, Engaged
<1>2. Sizes(t) \in Seq(Nat) BY <1>1, ItemFacts DEF Sizes
<1>3. pass[t] \in 1 .. Len(Sizes(t)) BY DEF Working
<1> HIDE DEF Sizes
<1>4. Len(Sizes(t)) \in Nat /\ Sizes(t)[pass[t]] \in Nat BY <1>2, <1>3
<1>5. wrote[t] \in Nat BY DEF ThreadTypes
<1> QED BY <1>1, <1>2, <1>3, <1>4, <1>5 DEF Todo

\* Every step keeps the types of what the threads have.
LEMMA ThreadTypesStep == ASSUME IInv, [Next]_vars PROVE ThreadTypes'
<1> USE DEF ThreadTypes
<1>1. CallerTypes /\ ThreadTypes /\ MemTypes /\ Working /\ Memory BY DEF IInv, Types
<1>2. UNCHANGED work BY Steady DEF given
<1> USE DEF doneVars, coderVars, memVars, realVars, threadVars
<1>3. ASSUME UNCHANGED threadVars PROVE ThreadTypes' BY <1>1, <1>2, <1>3
<1>4. CASE PassOver \/ FileGone \/ OpenFails \/ SkipItem \/ CopyItem \/ HeaderOfFinished
           \/ WriteBlocks \/ Replace \/ WriteCentralDir \/ FinalFlush
           \/ (\E t \in Threads : JoinThread(t))
  BY <1>3, <1>4, CallerFrame
<1>5. CASE CreateThreads BY <1>1, <1>2, <1>5 DEF CreateThreads
<1>6. CASE EndFinished \/ Unlock BY <1>1, <1>2, <1>6, CallerFrame
<1>7. CASE Lock BY <1>1, <1>2, <1>7, CallerFrame DEF Lock
<1>8. CASE PopFailed \/ PopEarly \/ PopCurrent
  <2>1. \/ UNCHANGED <<done, isFree>>
        \/ done # <<>> /\ done' = Tail(done) /\ isFree' = [isFree EXCEPT ![Popped] = TRUE]
    BY <1>8 DEF PopFailed, PopEarly, PopCurrent, PopFree
  <2>2. done' \in Seq(Threads) /\ isFree' \in [Threads -> BOOLEAN]
    BY <1>1, <2>1, PoppedFacts
  <2> QED BY <1>1, <1>2, <1>8, <2>2, CallerFrame
<1>9. CASE StartFile
  <2>1. ASSUME NEW t \in Threads, Starts(t) PROVE ThreadTypes'
    BY <1>1, <1>2, <1>9, <2>1, WorkFacts DEF Starts, StartFile, Ahead, CallerTypes
  <2> QED BY <1>3, <1>9, <2>1, StartedOrNot
<1>10. CASE \E t \in Threads : StopThread(t) BY <1>1, <1>2, <1>10 DEF StopThread
<1>11. CASE \E t \in Threads : Coder(t) \/ CodeFails(t)
  <2> SUFFICES ASSUME NEW t \in Threads, Coder(t) \/ CodeFails(t) PROVE ThreadTypes' BY <1>11
  <2>1. UNCHANGED <<item, isFree, exit>> BY ThreadFrame
  <2>2. /\ pc' \in [Threads -> {"none", "wait", "run", "alloc", "push", "post", "exited"}]
        /\ compressEvent' \in [Threads -> BOOLEAN] /\ pass' \in [Threads -> Nat]
        /\ doneSem' \in Nat
    <3>1. CASE Begins(t) BY <1>1, <3>1 DEF Begins
    <3>2. CASE Packs(t)
      <4>1. PICK p \in {"run", "alloc", "push"} : pc' = [pc EXCEPT ![t] = p] BY <3>2 DEF Packs
      <4>2. pc' \in [Threads -> {"none", "wait", "run", "alloc", "push", "post", "exited"}]
        BY <1>1, <4>1
      <4>3. pass' \in [Threads -> Nat] BY <1>1, <3>2 DEF Packs
      <4> QED BY <1>1, <3>2, <4>2, <4>3 DEF Packs
    <3>3. CASE Push(t) BY <1>1, <3>3 DEF Push
    <3>4. CASE Post(t) BY <1>1, <3>4 DEF Post
    <3> QED BY <3>1, <3>2, <3>3, <3>4, ThreadMoves DEF IInv, Reports
  <2>3. done' \in Seq(Threads)
    <3>1. CASE UNCHANGED done BY <1>1, <3>1
    <3>2. CASE Push(t) BY <1>1, <3>2 DEF Push
    <3> QED BY <1>1, <3>1, <3>2, ThreadMoves DEF Begins, Packs, Reports, Post, IInv, Types
  <2>4. result' \in [Threads -> Results]
    BY <1>1 DEF Coder, CodeFails, WaitCompress, Fill, StopWriting, GoReal, TakeSemaphore,
       AllocateBlock, WriteReal, NextPass, Packed, Push, Post, Returns, Results
  <2>5. wrote' \in [Threads -> Nat]
    <3>1. CASE Fill(t)
      <4>1. Todo(t) \in Int /\ Todo(t) > 0 BY <1>1, <3>1, SizeFacts DEF Fill
      <4>2. held[t] * BlockSize \in Nat BY <1>1, ConstantsAssumption DEF MemTypes
      <4>3. at[t] \in Nat /\ at[t] <= held[t] * BlockSize
        BY <1>1, <3>1 DEF Memory, Roomy, Fill, Engaged, MemTypes
      <4>4. Smaller(Todo(t), held[t] * BlockSize - at[t]) \in Nat BY <4>1, <4>2, <4>3 DEF Smaller
      <4> QED BY <1>1, <3>1, <4>4 DEF Fill
    <3>2. CASE ~Fill(t)
      BY <1>1, <3>2 DEF Coder, CodeFails, WaitCompress, StopWriting, GoReal, TakeSemaphore,
         AllocateBlock, WriteReal, NextPass, Packed, Push, Post, Returns
    <3> QED BY <3>1, <3>2
  <2> QED BY <1>1, <1>2, <2>1, <2>2, <2>3, <2>4, <2>5
<1>12. CASE UNCHANGED vars BY <1>3, <1>12 DEF vars
<1> QED BY <1>4, <1>5, <1>6, <1>7, <1>8, <1>9, <1>10, <1>11, <1>12 DEF Next, Caller, Finished

\* Every step keeps the types of what says who may write.
LEMMA RealTypesStep == ASSUME IInv, [Next]_vars PROVE RealTypes'
<1> USE DEF RealTypes
<1>1. CallerTypes /\ RealTypes /\ ThreadTypes BY DEF IInv, Types
<1> USE DEF doneVars, coderVars, memVars, realVars, threadVars
<1>2. ASSUME UNCHANGED <<real, unlocked, realEvent, stopEvent>> PROVE RealTypes' BY <1>1, <1>2
<1>3. CASE PassOver \/ FileGone \/ OpenFails \/ SkipItem \/ CopyItem \/ HeaderOfFinished
           \/ WriteBlocks \/ Replace \/ WriteCentralDir \/ FinalFlush
           \/ (\E t \in Threads : JoinThread(t)) \/ CreateThreads \/ EndFinished \/ Lock
           \/ PopFailed \/ PopEarly \/ PopCurrent
  BY <1>2, <1>3, CallerFrame
<1>4. CASE Unlock BY <1>1, <1>4 DEF Unlock
<1>5. CASE StartFile
  <2>1. ASSUME NEW t \in Threads, Starts(t) PROVE RealTypes' BY <1>1, <2>1 DEF Starts
  <2> QED BY <1>2, <1>5, <2>1, StartedOrNot
<1>6. CASE \E t \in Threads : StopThread(t) BY <1>1, <1>6 DEF StopThread, StopsWriting
<1>7. CASE \E t \in Threads : Coder(t) \/ CodeFails(t)
  BY <1>1, <1>7 DEF Coder, CodeFails, WaitCompress, Fill, StopWriting, GoReal, TakeSemaphore,
     AllocateBlock, WriteReal, NextPass, Packed, Push, Post
<1>8. CASE UNCHANGED vars BY <1>2, <1>8 DEF vars
<1> QED BY <1>3, <1>4, <1>5, <1>6, <1>7, <1>8 DEF Next, Caller, Finished

\* Every step keeps the types of the memory; no counter falls below zero.
LEMMA MemTypesStep == ASSUME IInv, [Next]_vars PROVE MemTypes'
<1> USE DEF MemTypes
<1>1. CallerTypes /\ ThreadTypes /\ MemTypes /\ RefTypes /\ Working /\ Memory /\ Turn
  BY DEF IInv, Types
<1> USE DEF doneVars, coderVars, memVars, realVars, threadVars
<1>2. ASSUME UNCHANGED memVars PROVE MemTypes' BY <1>1, <1>2
<1>3. CASE PassOver \/ FileGone \/ OpenFails \/ SkipItem \/ CopyItem \/ HeaderOfFinished
           \/ WriteBlocks \/ Replace \/ WriteCentralDir \/ FinalFlush
           \/ (\E t \in Threads : JoinThread(t)) \/ CreateThreads \/ Unlock \/ Lock
           \/ PopFailed
  BY <1>2, <1>3, CallerFrame
<1>4. CASE EndFinished
  <2>1. cur \in DOMAIN refs
    BY <1>1, <1>4, WorkFacts DEF EndFinished, Turn, Active, Bounds, CallerTypes, RefTypes
  <2>2. refs[cur].blocks \in Nat BY <1>1, <2>1 DEF RefTypes
  <2> QED BY <1>1, <1>4, <2>2 DEF EndFinished
<1>5. CASE PopEarly
  <2>1. Popped \in Threads BY <1>1, <1>5, PoppedFacts DEF PopEarly
  <2>2. Len(mem[Popped]) \in Nat BY <1>1, <2>1
  <2>3. Excess(Popped, Blocks(Len(mem[Popped]))) \in Nat
    BY <1>1, <2>1, <2>2, BlocksFit DEF Memory, Roomy, Excess
  <2> HIDE DEF MemTypes
  <2>4. mem' \in [Threads -> Seq(Cells)] /\ held' \in [Threads -> Nat] /\ UNCHANGED at
    <3>1. /\ mem' = [mem EXCEPT ![Popped] = <<>>] \/ UNCHANGED mem
          /\ held' = [held EXCEPT ![Popped] = 0] \/ UNCHANGED held
          /\ UNCHANGED at
      BY <1>5 DEF PopEarly
    <3>2. mem' \in [Threads -> Seq(Cells)]
      <4>1. CASE UNCHANGED mem BY <1>1, <4>1 DEF MemTypes
      <4>2. CASE mem' = [mem EXCEPT ![Popped] = <<>>] BY <1>1, <4>2, EmptySeq DEF MemTypes
      <4> QED BY <3>1, <4>1, <4>2
    <3>3. held' \in [Threads -> Nat] BY <1>1, <3>1 DEF MemTypes
    <3> QED BY <3>1, <3>2, <3>3
  <2>5. free' \in Nat /\ sem' \in Nat BY <1>1, <1>5, <2>3 DEF PopEarly, MemTypes
  <2> QED BY <1>1, <2>4, <2>5 DEF MemTypes
<1>6. ASSUME NEW t \in Threads, Emptied(t) PROVE MemTypes' BY <1>1, <1>6 DEF Emptied
<1>7. CASE PopCurrent
  <2>1. Popped \in Threads BY <1>1, <1>7, PoppedFacts DEF PopCurrent
  <2> QED BY <1>2, <1>6, <1>7, <2>1 DEF PopCurrent
<1>8. CASE StartFile
  <2>1. ASSUME NEW t \in Threads, Starts(t) PROVE MemTypes' BY <1>1, <2>1 DEF Starts
  <2> QED BY <1>2, <1>8, <2>1, StartedOrNot
<1>9. CASE \E t \in Threads : StopThread(t) BY <1>2, <1>9 DEF StopThread
<1>10. CASE \E t \in Threads : Coder(t) \/ CodeFails(t)
  <2> SUFFICES ASSUME NEW t \in Threads, Coder(t) \/ CodeFails(t) PROVE MemTypes' BY <1>10
  <2>1. CASE WaitCompress(t) \/ StopWriting(t) \/ WriteReal(t) \/ Packed(t) \/ Push(t) \/ Post(t)
             \/ CodeFails(t)
    BY <1>2, <2>1 DEF WaitCompress, StopWriting, WriteReal, Packed, Push, Post, CodeFails
  <2>2. CASE Fill(t)
    <3> DEFINE n == Smaller(Todo(t), held[t] * BlockSize - at[t])
               new == Piece(item[t], pass[t], wrote[t], wrote[t] + n)
    <3>1. Todo(t) \in Int /\ Todo(t) > 0 BY <1>1, <2>2, SizeFacts DEF Fill
    <3>2. held[t] * BlockSize \in Nat BY <1>1, ConstantsAssumption
    <3>3. at[t] \in Nat /\ at[t] <= held[t] * BlockSize
      BY <1>1, <2>2 DEF Memory, Roomy, Fill, Engaged
    <3>4. n \in Nat BY <3>1, <3>2, <3>3 DEF Smaller
    <3>5. item[t] \in Int /\ pass[t] \in Int /\ wrote[t] \in Int BY <1>1, WorkFacts DEF ThreadTypes
    <3> HIDE DEF n
    <3>6. new \in Seq(Cells) BY <3>4, <3>5, PieceFacts
    <3>7. Put(mem[t], at[t], new) \in Seq(Cells) BY <1>1, <3>6, PutFacts
    <3>8. /\ mem' = [mem EXCEPT ![t] = Put(mem[t], at[t], new)]
          /\ at' = [at EXCEPT ![t] = at[t] + n]
          /\ UNCHANGED <<held, free, sem>>
      BY <2>2 DEF Fill, n
    <3> HIDE DEF new
    <3> QED BY <1>1, <3>4, <3>7, <3>8
  <2>3. CASE GoReal(t) BY <1>2, <1>6, <2>3 DEF GoReal
  <2>4. CASE TakeSemaphore(t) BY <1>1, <2>4 DEF TakeSemaphore
  <2>5. CASE AllocateBlock(t)
    <3>1. CASE free = 0 BY <1>2, <2>5, <3>1 DEF AllocateBlock
    <3>2. CASE free # 0
      <4>1. /\ free' = free - 1 /\ held' = [held EXCEPT ![t] = @ + 1] /\ UNCHANGED <<mem, at, sem>>
        BY <2>5, <3>2 DEF AllocateBlock
      <4> QED BY <1>1, <3>2, <4>1
    <3> QED BY <3>1, <3>2
  <2>6. CASE NextPass(t)
    <3>1. /\ mem' = [mem EXCEPT ![t] = <<>>] \/ UNCHANGED mem
          /\ at' = [at EXCEPT ![t] = 0] \/ UNCHANGED at
          /\ UNCHANGED <<held, free, sem>>
      BY <2>6 DEF NextPass, Rewind
    <3>2. mem' \in [Threads -> Seq(Cells)]
      <4>1. CASE UNCHANGED mem BY <1>1, <4>1
      <4>2. CASE mem' = [mem EXCEPT ![t] = <<>>] BY <1>1, <4>2
      <4> QED BY <3>1, <4>1, <4>2
    <3>3. at' \in [Threads -> Nat]
      <4>1. CASE UNCHANGED at BY <1>1, <4>1
      <4>2. CASE at' = [at EXCEPT ![t] = 0] BY <1>1, <4>2
      <4> QED BY <3>1, <4>1, <4>2
    <3> QED BY <1>1, <3>1, <3>2, <3>3
  <2> QED BY <2>1, <2>2, <2>3, <2>4, <2>5, <2>6 DEF Coder
<1>11. CASE UNCHANGED vars BY <1>2, <1>11 DEF vars
<1> QED BY <1>3, <1>4, <1>5, <1>7, <1>8, <1>9, <1>10, <1>11 DEF Next, Caller, Finished

\* Every step keeps all the types.
LEMMA TypesStep == ASSUME IInv, [Next]_vars PROVE Types'
BY CallerTypesStep, StreamTypesStep, RefTypesStep, ThreadTypesStep, RealTypesStep, MemTypesStep
   DEF IInv, Types

-----------------------------------------------------------------------------
(* Where the threads are *)

\* Only the items change.
LEMMA LifeSame ==
  ASSUME Life, UNCHANGED <<pc, compressEvent, exit, done, order, isFree>>,
         Active' => Active, mpc' = "create" => mpc = "create"
  PROVE  Life'
BY DEF Life, InDone, InOrder

\* The actions of the caller that leave the threads where they are.
LEMMA CallerLife ==
  ASSUME \/ PassOver \/ FileGone \/ OpenFails \/ SkipItem \/ CopyItem \/ HeaderOfFinished
         \/ WriteBlocks \/ EndFinished \/ Unlock \/ Lock \/ Replace \/ WriteCentralDir
         \/ FinalFlush \/ (\E t \in Threads : JoinThread(t))
  PROVE  /\ UNCHANGED <<pc, compressEvent, exit, done, order, isFree>>
         /\ Active' => Active
         /\ mpc' # "create"
BY DEF PassOver, FileGone, OpenFails, SkipItem, CopyItem, HeaderOfFinished, WriteBlocks,
       EndFinished, Unlock, Lock, Replace, WriteCentralDir, FinalFlush, JoinThread, callerVars,
       threadVars, coderVars, doneVars, Ahead, InTurn, Active, Leave

\* The thread that was popped has left done and waits.
LEMMA PoppedLife ==
  ASSUME Types, Life, Active, done # <<>>, done' = Tail(done)
  PROVE  /\ Popped \in Threads /\ ~isFree[Popped] /\ InOrder(Popped)
         /\ pc[Popped] \in {"wait", "post"} /\ ~compressEvent[Popped]
         /\ \A t \in Threads : InDone(t)' <=> InDone(t) /\ t # Popped
         /\ \A j, k \in DOMAIN done' : done'[j] = done'[k] => j = k
<1>1. /\ Len(done) \in Nat \ {0} /\ Popped = done[1] /\ Popped \in Threads
      /\ done' \in Seq(Threads) /\ Len(done') = Len(done) - 1
      /\ \A i \in 1 .. Len(done) - 1 : done'[i] = done[i + 1]
  BY PoppedFacts DEF Types
<1>2. done \in Seq(Threads) BY DEF Types, ThreadTypes
<1>3. InDone(Popped) BY <1>1, <1>2 DEF InDone
<1>4. pc[Popped] \notin {"run", "alloc", "push", "none", "exited"} /\ ~exit[Popped]
      /\ ~compressEvent[Popped] /\ ~isFree[Popped] /\ InOrder(Popped)
  BY <1>1, <1>3 DEF Life, Types, ThreadTypes
<1>5. \A j, k \in DOMAIN done : done[j] = done[k] => j = k BY DEF Life
<1>6. \A t \in Threads : InDone(t)' <=> InDone(t) /\ t # Popped
  <2> SUFFICES ASSUME NEW t \in Threads PROVE InDone(t)' <=> InDone(t) /\ t # Popped OBVIOUS
  <2>1. ASSUME InDone(t)' PROVE InDone(t) /\ t # Popped
    <3>1. PICK k \in 1 .. Len(done) - 1 : done'[k] = t BY <1>1, <2>1 DEF InDone
    <3>2. k + 1 \in DOMAIN done /\ done[k + 1] = t /\ 1 \in DOMAIN done BY <1>1, <1>2, <3>1
    <3>3. done[1] # t BY <1>5, <3>2
    <3> QED BY <1>1, <3>2, <3>3 DEF InDone
  <2>2. ASSUME InDone(t), t # Popped PROVE InDone(t)'
    <3>1. PICK k \in 1 .. Len(done) : done[k] = t BY <1>2, <2>2 DEF InDone
    <3>2. k # 1 BY <1>1, <2>2, <3>1
    <3>3. k - 1 \in DOMAIN done' /\ done'[k - 1] = t BY <1>1, <3>1, <3>2
    <3> QED BY <3>3 DEF InDone
  <2> QED BY <2>1, <2>2
<1>7. ASSUME NEW j \in DOMAIN done', NEW k \in DOMAIN done', done'[j] = done'[k] PROVE j = k
  <2>1. j \in 1 .. Len(done) - 1 /\ k \in 1 .. Len(done) - 1 BY <1>1
  <2>2. j + 1 \in DOMAIN done /\ k + 1 \in DOMAIN done /\ done[j + 1] = done[k + 1]
    BY <1>1, <1>2, <1>7, <2>1
  <2>3. j + 1 = k + 1 BY <1>5, <2>2
  <2> QED BY <2>1, <2>3
<1>8. pc[Popped] \in {"wait", "post"} BY <1>1, <1>4 DEF Types, ThreadTypes
<1> QED BY <1>1, <1>4, <1>6, <1>7, <1>8

\* The index that goes is the thread's only one.
LEMMA OrderWithout ==
  ASSUME NEW t, NEW k \in DOMAIN order, order \in Seq(Threads), order[k] = t,
         \A i, j \in DOMAIN order : order[i] = order[j] => i = j,
         order' = RemoveAt(order, k)
  PROVE  /\ \A u : InOrder(u)' <=> InOrder(u) /\ u # t
         /\ \A i, j \in DOMAIN order' : order'[i] = order'[j] => i = j
         /\ DOMAIN order' = 1 .. Len(order) - 1
         /\ \A i \in DOMAIN order' : /\ (IF i < k THEN i ELSE i + 1) \in DOMAIN order
                                     /\ order'[i] = order[IF i < k THEN i ELSE i + 1]
<1>1. Len(order) \in Nat /\ DOMAIN order = 1 .. Len(order) OBVIOUS
<1>2. /\ order' \in Seq(Threads) /\ Len(order') = Len(order) - 1
      /\ \A i \in 1 .. Len(order) - 1 : order'[i] = order[IF i < k THEN i ELSE i + 1]
  <2>1. k \in 1 .. Len(order) BY <1>1
  <2>2. /\ RemoveAt(order, k) \in Seq(Threads) /\ Len(RemoveAt(order, k)) = Len(order) - 1
        /\ \A i \in 1 .. Len(order) - 1 :
             RemoveAt(order, k)[i] = order[IF i < k THEN i ELSE i + 1]
    BY <2>1, Removed
  <2> QED BY <2>2
<1>3. DOMAIN order' = 1 .. Len(order) - 1 BY <1>2
<1>4. \A i \in DOMAIN order' : /\ (IF i < k THEN i ELSE i + 1) \in DOMAIN order
                               /\ order'[i] = order[IF i < k THEN i ELSE i + 1]
  BY <1>1, <1>2, <1>3
<1>5. ASSUME NEW i \in DOMAIN order', NEW j \in DOMAIN order', order'[i] = order'[j] PROVE i = j
  <2>1. (IF i < k THEN i ELSE i + 1) = (IF j < k THEN j ELSE j + 1) BY <1>4, <1>5
  <2> QED BY <1>1, <1>3, <2>1
<1>6. ASSUME NEW u, InOrder(u)' PROVE InOrder(u) /\ u # t
  <2>1. PICK i \in DOMAIN order' : order'[i] = u BY <1>6 DEF InOrder
  <2>2. (IF i < k THEN i ELSE i + 1) # k BY <1>1, <1>3, <2>1
  <2> QED BY <1>4, <2>1, <2>2 DEF InOrder
<1>7. ASSUME NEW u, InOrder(u), u # t PROVE InOrder(u)'
  <2>1. PICK i \in DOMAIN order : order[i] = u BY <1>7 DEF InOrder
  <2>2. i # k BY <1>7, <2>1
  <2>3. CASE i < k
    <3>1. i \in DOMAIN order' /\ order'[i] = u BY <1>1, <1>2, <1>3, <2>1, <2>3
    <3> QED BY <3>1 DEF InOrder
  <2>4. CASE i > k
    <3>1. i - 1 \in DOMAIN order' /\ order'[i - 1] = u BY <1>1, <1>2, <1>3, <2>1, <2>4
    <3> QED BY <3>1 DEF InOrder
  <2> QED BY <1>1, <2>2, <2>3, <2>4
<1> QED BY <1>3, <1>4, <1>5, <1>6, <1>7

\* Every step leaves each thread in a place that the caller expects.
LEMMA LifeStep == ASSUME IInv, [Next]_vars PROVE Life'
<1>1. Types /\ Life /\ Turn /\ ThreadTypes /\ CallerTypes BY DEF IInv, Types
<1>2. CASE \/ PassOver \/ FileGone \/ OpenFails \/ SkipItem \/ CopyItem \/ HeaderOfFinished
           \/ WriteBlocks \/ EndFinished \/ Unlock \/ Lock \/ Replace \/ WriteCentralDir
           \/ FinalFlush \/ (\E t \in Threads : JoinThread(t))
  BY <1>1, <1>2, CallerLife, LifeSame
<1>3. CASE CreateThreads
  <2>1. order' = <<>> /\ UNCHANGED <<done, isFree, exit, compressEvent>>
    BY <1>1, <1>3 DEF CreateThreads, Turn, callerVars, doneVars, coderVars
  <2>2. /\ \A t \in Threads : ~InDone(t)' /\ isFree'[t] /\ ~exit'[t] /\ ~compressEvent'[t]
        /\ \A j, k \in DOMAIN done' : done'[j] = done'[k] => j = k
    BY <1>1, <1>3, <2>1 DEF CreateThreads, Life, InDone
  <2>3. mpc' # "create" BY <1>3 DEF CreateThreads, Leave
  <2>4. \A t \in Threads : pc'[t] \in {"none", "wait"} /\ ~InOrder(t)'
    BY <1>3, <2>1 DEF CreateThreads, InOrder
  <2>5. Active' => \A t \in Threads : pc'[t] = "wait"
    BY <1>3 DEF CreateThreads, Active, Leave, Threads
  <2>6. \A j, k \in DOMAIN order' : order'[j] = order'[k] => j = k BY <2>1
  <2> QED BY <2>2, <2>3, <2>4, <2>5, <2>6 DEF Life
<1>4. CASE StartFile
  <2>1. ASSUME NEW t \in Threads, Starts(t) PROVE Life'
    <3>1. Active /\ Active' /\ mpc' = mpc
      BY <1>4, <2>1 DEF StartFile, Ahead, Starts, Active
    <3>2. /\ pc[t] \in {"wait", "post"} /\ ~compressEvent[t] /\ ~InDone(t) /\ ~InOrder(t)
          /\ ~exit[t]
      BY <1>1, <2>1, <3>1 DEF Starts, Life
    <3>3. /\ Len(order) \in Nat /\ DOMAIN order = 1 .. Len(order)
          /\ DOMAIN order' = 1 .. Len(order) + 1
          /\ order'[Len(order) + 1] = t /\ \A k \in DOMAIN order : order'[k] = order[k]
      BY <1>1, <2>1 DEF Starts, CallerTypes
    <3>4. \A u \in Threads : InOrder(u)' <=> InOrder(u) \/ u = t
      BY <3>3 DEF InOrder
    <3>5. \A j, k \in DOMAIN order' : order'[j] = order'[k] => j = k
      BY <1>1, <3>1, <3>2, <3>3 DEF InOrder, Life
    <3>6. \A u \in Threads : InDone(u)' <=> InDone(u) BY <2>1 DEF Starts, InDone
    <3>7. /\ UNCHANGED <<done, pc, exit>>
          /\ isFree' = [isFree EXCEPT ![t] = FALSE]
          /\ compressEvent' = [compressEvent EXCEPT ![t] = TRUE]
      BY <2>1 DEF Starts
    <3>8. \A u \in Threads :
            /\ pc'[u] \in {"run", "alloc", "push"} \/ (compressEvent'[u] /\ ~exit'[u]) => ~InDone(u)'
            /\ compressEvent'[u] /\ ~exit'[u] => pc'[u] \in {"wait", "post"}
      BY <1>1, <3>2, <3>6, <3>7 DEF Life, ThreadTypes
    <3>9. \A u \in Threads :
            /\ ~exit'[u] /\ pc'[u] \notin {"none", "exited"}
            /\ ~isFree'[u] <=> InOrder(u)'
            /\ isFree'[u] => pc'[u] \in {"wait", "post"} /\ ~compressEvent'[u] /\ ~InDone(u)'
            /\ ~isFree'[u] /\ pc'[u] \in {"wait", "post"} => compressEvent'[u] \/ InDone(u)'
      BY <1>1, <3>1, <3>2, <3>4, <3>6, <3>7 DEF Life, ThreadTypes
    <3>10. \A j, k \in DOMAIN done' : done'[j] = done'[k] => j = k BY <1>1, <3>7 DEF Life
    <3>11. mpc' # "create" BY <3>1 DEF Active
    <3> QED BY <3>5, <3>8, <3>9, <3>10, <3>11 DEF Life
  <2>2. CASE mpc' = "stop" /\ UNCHANGED <<order, threadVars>>
    BY <1>1, <2>2, LifeSame DEF Active, threadVars, coderVars, doneVars
  <2> QED BY <1>4, <2>1, <2>2, StartedOrNot
<1>5. CASE PopFailed \/ PopEarly \/ PopCurrent
  <2>1. mpc = "pop" /\ Active BY <1>5 DEF PopFailed, PopEarly, PopCurrent, Active
  <2>2. UNCHANGED <<pc, compressEvent, exit>> BY <1>5, CallerFrame
  <2>3. CASE PopFailed /\ done = <<>>
    BY <1>1, <2>2, <2>3, LifeSame DEF PopFailed, Leave, Active, callerVars
  <2>4. CASE done # <<>>
    <3>1. done' = Tail(done) /\ isFree' = [isFree EXCEPT ![Popped] = TRUE]
      BY <1>5, <2>4 DEF PopFailed, PopEarly, PopCurrent, PopFree
    <3>2. /\ Popped \in Threads /\ ~isFree[Popped] /\ InOrder(Popped)
          /\ pc[Popped] \in {"wait", "post"} /\ ~compressEvent[Popped]
          /\ \A t \in Threads : InDone(t)' <=> InDone(t) /\ t # Popped
          /\ \A j, k \in DOMAIN done' : done'[j] = done'[k] => j = k
      BY <1>1, <2>1, <2>4, <3>1, PoppedLife
    <3>3. \A t \in Threads :
            /\ pc'[t] \in {"run", "alloc", "push"} \/ (compressEvent'[t] /\ ~exit'[t]) => ~InDone(t)'
            /\ compressEvent'[t] /\ ~exit'[t] => pc'[t] \in {"wait", "post"}
      BY <1>1, <2>2, <3>2 DEF Life
    <3>4. mpc' # "create" BY <1>5 DEF PopFailed, PopEarly, PopCurrent, Leave
    <3>5. ASSUME Active'
          PROVE  /\ \A j, k \in DOMAIN order' : order'[j] = order'[k] => j = k
                 /\ \A t \in Threads : InOrder(t)' <=> InOrder(t) /\ t # Popped
      <4>1. ~PopFailed BY <3>5, <2>4 DEF PopFailed, Leave, Active
      <4>2. \E k \in DOMAIN order : order[k] = Popped /\ order' = RemoveAt(order, k)
        <5>1. CASE PopEarly
          <6>1. Popped \in Range(order) BY <3>5, <5>1 DEF PopEarly, Leave, Active
          <6>2. order' = RemoveAt(order, CHOOSE k \in DOMAIN order : order[k] = Popped)
            BY <5>1, <6>1 DEF PopEarly
          <6>3. order \in Seq(Threads) BY <1>1 DEF CallerTypes
          <6> DEFINE p == CHOOSE k \in DOMAIN order : order[k] = Popped
          <6>4. p \in 1 .. Len(order) /\ order[p] = Popped BY <1>1, <6>1, PlaceInOrder
          <6>5. order' = RemoveAt(order, p) /\ DOMAIN order = 1 .. Len(order) BY <6>2, <6>3
          <6> HIDE DEF p
          <6> QED BY <6>4, <6>5
        <5>2. CASE PopCurrent
          <6>1. order # <<>> /\ order \in Seq(Threads) BY <1>1, <2>1 DEF Turn, Current, CallerTypes
          <6>2. 1 \in DOMAIN order /\ order[1] = Popped /\ order' = Tail(order)
            BY <5>2, <6>1 DEF PopCurrent
          <6>3. Tail(order) = RemoveAt(order, 1)
            <7>1. Tail(order) \in Seq(Threads) /\ Len(Tail(order)) = Len(order) - 1
                  /\ \A i \in 1 .. Len(order) - 1 : Tail(order)[i] = order[i + 1]
              BY <6>1, HeadTailProperties
            <7>2. 1 \in 1 .. Len(order) BY <6>1, EmptySeq
            <7>3. /\ RemoveAt(order, 1) \in Seq(Threads) /\ Len(RemoveAt(order, 1)) = Len(order) - 1
                  /\ \A i \in 1 .. Len(order) - 1 :
                       RemoveAt(order, 1)[i] = order[IF i < 1 THEN i ELSE i + 1]
              BY <6>1, <7>2, Removed
            <7>4. \A i \in 1 .. Len(order) - 1 : Tail(order)[i] = RemoveAt(order, 1)[i]
              BY <7>1, <7>3
            <7> QED BY <7>1, <7>3, <7>4, SeqEqual
          <6> QED BY <6>2, <6>3
        <5> QED BY <1>5, <4>1, <5>1, <5>2
      <4>3. PICK k \in DOMAIN order : order[k] = Popped /\ order' = RemoveAt(order, k) BY <4>2
      <4>4. order \in Seq(Threads) BY <1>1 DEF CallerTypes
      <4>5. \A i, j \in DOMAIN order : order[i] = order[j] => i = j BY <1>1, <2>1 DEF Life
      <4> QED BY <4>3, <4>4, <4>5, OrderWithout
    <3>6. ASSUME Active'
          PROVE \A t \in Threads :
            /\ ~exit'[t] /\ pc'[t] \notin {"none", "exited"}
            /\ ~isFree'[t] <=> InOrder(t)'
            /\ isFree'[t] => pc'[t] \in {"wait", "post"} /\ ~compressEvent'[t] /\ ~InDone(t)'
            /\ ~isFree'[t] /\ pc'[t] \in {"wait", "post"} => compressEvent'[t] \/ InDone(t)'
      <4>1. \A t \in Threads : isFree'[t] = IF t = Popped THEN TRUE ELSE isFree[t]
        BY <1>1, <3>1 DEF ThreadTypes
      <4> QED BY <1>1, <2>1, <2>2, <3>2, <3>5, <3>6, <4>1 DEF Life
    <3> QED BY <3>2, <3>3, <3>4, <3>5, <3>6 DEF Life
  <2> QED BY <1>5, <2>3, <2>4 DEF PopEarly, PopCurrent
<1>6. CASE \E t \in Threads : StopThread(t)
  <2> SUFFICES ASSUME NEW t \in Threads, StopThread(t) PROVE Life' BY <1>6
  <2>1. /\ UNCHANGED <<pc, done>> /\ exit' = [exit EXCEPT ![t] = TRUE]
        /\ compressEvent' = [compressEvent EXCEPT ![t] = TRUE]
        /\ ~Active' /\ mpc' # "create"
    BY DEF StopThread, Active, doneVars
  <2>2. \A u \in Threads :
          /\ pc'[u] \in {"run", "alloc", "push"} \/ (compressEvent'[u] /\ ~exit'[u]) => ~InDone(u)'
          /\ compressEvent'[u] /\ ~exit'[u] => pc'[u] \in {"wait", "post"}
    BY <1>1, <2>1 DEF Life, InDone, ThreadTypes
  <2> QED BY <1>1, <2>1, <2>2 DEF Life
<1>7. CASE \E t \in Threads : Coder(t) \/ CodeFails(t)
  <2> SUFFICES ASSUME NEW t \in Threads, Coder(t) \/ CodeFails(t) PROVE Life' BY <1>7
  <2>1. UNCHANGED <<mpc, order, isFree, exit>> BY ThreadFrame DEF callerVars
  <2>2. /\ Active' <=> Active
        /\ \A u \in Threads : InOrder(u)' <=> InOrder(u)
    BY <2>1 DEF Active, InOrder
  <2>3. CASE Begins(t)
    <3>1. /\ UNCHANGED done /\ \A u \in Threads : InDone(u)' <=> InDone(u)
          /\ pc[t] = "wait" /\ compressEvent[t]
          /\ pc' = [pc EXCEPT ![t] = IF exit[t] THEN "exited" ELSE "run"]
          /\ compressEvent' = [compressEvent EXCEPT ![t] = FALSE]
      BY <2>3 DEF Begins, InDone
    <3> QED BY <1>1, <2>1, <2>2, <3>1 DEF Life, ThreadTypes
  <2>4. CASE Packs(t)
    <3>1. /\ UNCHANGED <<done, compressEvent>> /\ \A u \in Threads : InDone(u)' <=> InDone(u)
          /\ pc[t] \in {"run", "alloc"}
      BY <2>4 DEF Packs, InDone
    <3>2. PICK p \in {"run", "alloc", "push"} : pc' = [pc EXCEPT ![t] = p] BY <2>4 DEF Packs
    <3> QED BY <1>1, <2>1, <2>2, <3>1, <3>2 DEF Life, ThreadTypes
  <2>5. CASE Push(t)
    <3>1. /\ done' = <<t>> \o done /\ UNCHANGED compressEvent
          /\ pc[t] = "push" /\ pc' = [pc EXCEPT ![t] = "post"]
      BY <2>5 DEF Push, coderVars
    <3>2. /\ done \in Seq(Threads) /\ Len(done) \in Nat /\ DOMAIN done = 1 .. Len(done)
          /\ DOMAIN done' = 1 .. Len(done) + 1
          /\ \A i \in 1 .. Len(done) + 1 : done'[i] = IF i = 1 THEN t ELSE done[i - 1]
      BY <1>1, <3>1 DEF ThreadTypes
    <3>3. ~InDone(t) BY <1>1, <3>1 DEF Life
    <3>4. \A u \in Threads : InDone(u)' <=> InDone(u) \/ u = t
      <4>1. InDone(t)' BY <3>2 DEF InDone
      <4>2. ASSUME NEW u \in Threads, InDone(u) PROVE InDone(u)'
        <5>1. PICK i \in 1 .. Len(done) : done[i] = u BY <3>2, <4>2 DEF InDone
        <5>2. i + 1 \in DOMAIN done' /\ done'[i + 1] = u BY <3>2, <5>1
        <5> QED BY <5>2 DEF InDone
      <4>3. ASSUME NEW u \in Threads, InDone(u)', u # t PROVE InDone(u)
        <5>1. PICK i \in 1 .. Len(done) + 1 : done'[i] = u BY <3>2, <4>3 DEF InDone
        <5>2. i - 1 \in DOMAIN done /\ done[i - 1] = u BY <3>2, <4>3, <5>1
        <5> QED BY <5>2 DEF InDone
      <4> QED BY <4>1, <4>2, <4>3
    <3>5. ASSUME NEW j \in DOMAIN done', NEW k \in DOMAIN done', done'[j] = done'[k] PROVE j = k
      <4>1. \A i \in 1 .. Len(done) : done[i] # t BY <3>2, <3>3 DEF InDone
      <4>2. \A a, b \in 1 .. Len(done) : done[a] = done[b] => a = b BY <1>1, <3>2 DEF Life
      <4>3. j \in 1 .. Len(done) + 1 /\ k \in 1 .. Len(done) + 1 BY <3>2
      <4>4. CASE j = 1 \/ k = 1 BY <3>2, <3>5, <4>1, <4>3, <4>4
      <4>5. CASE j # 1 /\ k # 1
        <5>1. j - 1 \in 1 .. Len(done) /\ k - 1 \in 1 .. Len(done) /\ done[j - 1] = done[k - 1]
          BY <3>2, <3>5, <4>3, <4>5
        <5>2. j - 1 = k - 1 BY <4>2, <5>1
        <5> QED BY <4>3, <5>2
      <4> QED BY <4>4, <4>5
    <3>6. ~(compressEvent[t] /\ ~exit[t]) BY <1>1, <3>1 DEF Life
    <3> QED BY <1>1, <2>1, <2>2, <3>1, <3>3, <3>4, <3>5, <3>6 DEF Life, ThreadTypes
  <2>6. CASE Post(t)
    <3>1. /\ UNCHANGED <<done, compressEvent>> /\ \A u \in Threads : InDone(u)' <=> InDone(u)
          /\ pc[t] = "post" /\ pc' = [pc EXCEPT ![t] = "wait"]
      BY <2>6 DEF Post, coderVars, InDone
    <3> QED BY <1>1, <2>1, <2>2, <3>1 DEF Life, ThreadTypes
  <2> QED BY <1>1, <2>3, <2>4, <2>5, <2>6, ThreadMoves DEF Reports
<1>8. CASE UNCHANGED vars
  BY <1>1, <1>8, LifeSame DEF vars, threadVars, coderVars, doneVars, callerVars, Active
<1> QED BY <1>2, <1>3, <1>4, <1>5, <1>6, <1>7, <1>8 DEF Next, Caller, Finished

-----------------------------------------------------------------------------
(* How many results wait *)

\* Which threads are at the place p, when one of them moves.
AtPlace(p) == {t \in Threads : pc[t] = p}

\* There are finitely many threads.
LEMMA FiniteThreads == IsFiniteSet(Threads) /\ Cardinality(Threads) = NumThreads
BY FS_Interval, ConstantsAssumption DEF Threads

\* How many threads are at a place changes by the thread that moves.
LEMMA PlaceCount ==
  ASSUME ThreadTypes, NEW t \in Threads, NEW p, NEW q,
         pc' = [pc EXCEPT ![t] = q]
  PROVE  /\ IsFiniteSet(AtPlace(p)) /\ Cardinality(AtPlace(p)) \in Nat
         /\ Cardinality(AtPlace(p))' = Cardinality(AtPlace(p))
                                         + (IF q = p THEN 1 ELSE 0) - (IF pc[t] = p THEN 1 ELSE 0)
<1>1. IsFiniteSet(AtPlace(p)) /\ Cardinality(AtPlace(p)) \in Nat
  BY FiniteThreads, FS_Subset, FS_CardinalityType DEF AtPlace
<1>2. CASE q = p
  <2>1. AtPlace(p)' = AtPlace(p) \cup {t} BY <1>2 DEF AtPlace, ThreadTypes
  <2>2. t \in AtPlace(p) <=> pc[t] = p BY DEF AtPlace
  <2>3. Cardinality(AtPlace(p) \cup {t}) = IF t \in AtPlace(p) THEN Cardinality(AtPlace(p))
                                                               ELSE Cardinality(AtPlace(p)) + 1
    BY <1>1, FS_AddElement
  <2> QED BY <1>1, <1>2, <2>1, <2>2, <2>3
<1>3. CASE q # p
  <2>1. AtPlace(p)' = AtPlace(p) \ {t} BY <1>3 DEF AtPlace, ThreadTypes
  <2>2. t \in AtPlace(p) <=> pc[t] = p BY DEF AtPlace
  <2>3. Cardinality(AtPlace(p) \ {t}) = IF t \in AtPlace(p) THEN Cardinality(AtPlace(p)) - 1
                                                            ELSE Cardinality(AtPlace(p))
    BY <1>1, FS_RemoveElement
  <2> QED BY <1>1, <1>3, <2>1, <2>2, <2>3
<1> QED BY <1>1, <1>2, <1>3

\* Every step keeps the count of the threads that have finished: the semaphore of CMtSem and
\* its list agree.
LEMMA CountedStep == ASSUME IInv, [Next]_vars PROVE Counted'
<1>1. Types /\ Life /\ Counted /\ ThreadTypes BY DEF IInv, Types
<1>2. IsFiniteSet(Posting) /\ Cardinality(Posting) \in Nat
  BY FiniteThreads, FS_Subset, FS_CardinalityType DEF Posting
<1>3. ASSUME UNCHANGED <<pc, done, doneSem>>, mpc # "pop", mpc' # "pop" PROVE Counted'
  BY <1>1, <1>3 DEF Counted, Posting
<1>4. CASE \/ PassOver \/ FileGone \/ OpenFails \/ SkipItem \/ CopyItem \/ HeaderOfFinished
           \/ WriteBlocks \/ EndFinished \/ Unlock \/ Replace \/ WriteCentralDir
           \/ FinalFlush \/ (\E t \in Threads : JoinThread(t) \/ StopThread(t))
  <2>1. UNCHANGED <<pc, done, doneSem>>
    BY <1>4, CallerFrame DEF threadVars, doneVars, StopThread
  <2>2. mpc # "pop" /\ mpc' # "pop"
    BY <1>4 DEF PassOver, FileGone, OpenFails, SkipItem, CopyItem, HeaderOfFinished, WriteBlocks,
       EndFinished, Unlock, Replace, WriteCentralDir, FinalFlush, JoinThread, StopThread, Ahead,
       InTurn, Leave
  <2> QED BY <1>3, <2>1, <2>2
<1>5. CASE StartFile
  <2>1. mpc # "pop" /\ mpc' # "pop" /\ UNCHANGED <<pc, done, doneSem>>
    BY <1>5, StartedOrNot DEF StartFile, Ahead, Starts, threadVars, doneVars
  <2> QED BY <1>3, <2>1
<1>6. CASE CreateThreads
  <2>1. Posting = {} /\ Posting' = {} /\ UNCHANGED <<done, doneSem>>
    BY <1>1, <1>6 DEF CreateThreads, Posting, Life, doneVars
  <2>2. mpc # "pop" /\ mpc' # "pop" BY <1>6 DEF CreateThreads, Leave
  <2> QED BY <1>1, <2>1, <2>2 DEF Counted
<1>7. CASE Lock
  <2>1. Posting' = Posting BY <1>7, CallerFrame DEF Posting
  <2> QED BY <1>1, <1>2, <1>7, <2>1, CallerFrame DEF Lock, Counted, ThreadTypes
<1>8. CASE PopFailed \/ PopEarly \/ PopCurrent
  <2>1. Posting' = Posting /\ doneSem' = doneSem BY <1>8, CallerFrame DEF Posting
  <2>2. mpc = "pop" /\ mpc' # "pop" BY <1>8 DEF PopFailed, PopEarly, PopCurrent, Leave
  <2>3. done # <<>>
    <3>1. Len(done) >= 1 BY <1>1, <1>2, <2>2 DEF Counted, ThreadTypes
    <3> QED BY <3>1
  <2>4. Len(done') = Len(done) - 1
    BY <1>1, <1>8, <2>3, PoppedFacts DEF PopFailed, PopEarly, PopCurrent, PopFree
  <2> QED BY <1>1, <1>2, <2>1, <2>2, <2>4 DEF Counted, ThreadTypes
<1>9. CASE \E t \in Threads : Coder(t) \/ CodeFails(t)
  <2> SUFFICES ASSUME NEW t \in Threads, Coder(t) \/ CodeFails(t) PROVE Counted' BY <1>9
  <2>1. mpc' = mpc BY ThreadFrame
  <2>2. Posting = AtPlace("post") /\ Posting' = AtPlace("post")' BY DEF Posting, AtPlace
  <2>7. ASSUME NEW q, pc' = [pc EXCEPT ![t] = q]
        PROVE  /\ q # "post" /\ pc[t] # "post" => Cardinality(Posting)' = Cardinality(Posting)
               /\ q = "post" /\ pc[t] # "post" => Cardinality(Posting)' = Cardinality(Posting) + 1
               /\ q # "post" /\ pc[t] = "post" => Cardinality(Posting)' = Cardinality(Posting) - 1
    <3>1. Cardinality(AtPlace("post"))' =
            Cardinality(AtPlace("post")) + (IF q = "post" THEN 1 ELSE 0)
                                         - (IF pc[t] = "post" THEN 1 ELSE 0)
      BY <1>1, <2>7, PlaceCount
    <3> QED BY <1>2, <2>2, <3>1
  <2>3. CASE Begins(t) \/ Packs(t)
    <3>1. PICK q : pc' = [pc EXCEPT ![t] = q] /\ q # "post" BY <2>3 DEF Begins, Packs
    <3>2. pc[t] # "post" /\ UNCHANGED <<done, doneSem>> BY <2>3 DEF Begins, Packs
    <3>3. Cardinality(Posting)' = Cardinality(Posting)
      BY <1>2, <2>7, <3>1, <3>2
    <3> QED BY <1>1, <2>1, <3>2, <3>3 DEF Counted
  <2>4. CASE Push(t)
    <3>1. pc[t] = "push" /\ pc' = [pc EXCEPT ![t] = "post"] BY <2>4 DEF Push
    <3>2. Cardinality(Posting)' = Cardinality(Posting) + 1
      BY <1>2, <2>7, <3>1
    <3>3. done' = <<t>> \o done /\ doneSem' = doneSem BY <2>4 DEF Push
    <3>4. Len(done') = Len(done) + 1 BY <1>1, <3>3 DEF ThreadTypes
    <3> QED BY <1>1, <1>2, <2>1, <3>2, <3>3, <3>4 DEF Counted, ThreadTypes
  <2>5. CASE Post(t)
    <3>1. pc[t] = "post" /\ pc' = [pc EXCEPT ![t] = "wait"] BY <2>5 DEF Post
    <3>2. Cardinality(Posting)' = Cardinality(Posting) - 1
      <4>1. "wait" # "post" OBVIOUS
      <4> QED BY <2>7, <3>1, <4>1
    <3>3. done' = done /\ doneSem' = doneSem + 1 BY <2>5 DEF Post
    <3> QED BY <1>1, <1>2, <2>1, <3>2, <3>3 DEF Counted, ThreadTypes
  <2> QED BY <1>1, <2>3, <2>4, <2>5, ThreadMoves DEF Reports
<1>10. CASE UNCHANGED vars
  BY <1>1, <1>10 DEF vars, threadVars, doneVars, Counted, Posting
<1> QED BY <1>4, <1>5, <1>6, <1>7, <1>8, <1>9, <1>10 DEF Next, Caller, Finished

-----------------------------------------------------------------------------
(* Whose turn it is *)

\* Once Update2 is left, nobody's.
LEMMA TurnOver == ASSUME ~Active', mpc' # "create" PROVE Turn'
BY DEF Turn

\* The threads do not change the turn.
LEMMA TurnSame ==
  ASSUME Turn, UNCHANGED <<work, mpc, cur, mt, order, item, skip, refs, unlocked, last>>
  PROVE  Turn'
BY DEF Turn, Active, Low, Packing, Bounds, Increasing, Inside, NoneMissing, OnlyFirst, Current

\* The threads have files in front of the caller, at least when it goes on.
LEMMA Behind == ASSUME Types, Turn, InTurn PROVE cur < mt
<1>1. Active /\ Low = cur BY DEF InTurn, Active, Low
<1>2. cur <= mt /\ cur \in Nat /\ mt \in Nat BY <1>1 DEF Turn, Bounds, Types, CallerTypes
<1>3. CASE mt > Len(work) BY <1>2, <1>3, WorkFacts DEF InTurn, Types
<1>4. CASE mt <= Len(work)
  <2>1. Len(order) >= 1 /\ order \in Seq(Threads)
    BY <1>4, ConstantsAssumption DEF InTurn, Types, CallerTypes
  <2>2. 1 \in DOMAIN order BY <2>1
  <2>3. item[order[1]] \in cur .. mt - 1 BY <1>1, <2>2 DEF Turn, Inside
  <2> QED BY <1>2, <2>3
<1> QED BY <1>2, <1>3, <1>4, WorkFacts DEF Types

\* The thread that packs the caller's file is the first.
LEMMA FirstIsCurrent ==
  ASSUME Types, Turn, Active, mpc # "replace", cur < mt, Packing(cur)
  PROVE  order # <<>> /\ 1 \in DOMAIN order /\ item[order[1]] = cur
<1>1. /\ cur \in Nat /\ mt \in Nat /\ order \in Seq(Threads) /\ item \in [Threads -> 0 .. Len(work)]
      /\ Len(work) \in Nat
  BY WorkFacts DEF Types, CallerTypes, ThreadTypes
<1>2. cur \in Low .. mt - 1 BY <1>1 DEF Low
<1>3. PICK k \in DOMAIN order : item[order[k]] = cur BY <1>2 DEF Turn, NoneMissing
<1>4. 1 \in DOMAIN order /\ order # <<>> /\ k \in Nat /\ k >= 1 BY <1>1, <1>3
<1>5. item[order[1]] \in cur .. mt - 1 BY <1>4 DEF Turn, Inside, Low
<1>6. ~(1 < k)
  <2>1. 1 < k => item[order[1]] < item[order[k]] BY <1>3, <1>4 DEF Turn, Increasing
  <2> QED BY <1>1, <1>3, <1>5, <2>1
<1> QED BY <1>3, <1>4, <1>6

\* Items that are not packed are passed over.
LEMMA TurnAhead == ASSUME IInv, PassOver \/ FileGone \/ OpenFails PROVE Turn'
<1>1. Types /\ Turn /\ Stored BY DEF IInv
<1>2. CASE OpenFails BY <1>2, TurnOver DEF OpenFails, Leave, Active
<1>3. CASE PassOver \/ FileGone
  <2>1. /\ mpc = "loop" /\ mpc' = "loop" /\ mt' = mt + 1
        /\ UNCHANGED <<work, cur, order, item, refs, unlocked, last>>
        /\ mt <= Len(work)
    BY <1>3 DEF PassOver, FileGone, Ahead, threadVars, coderVars, realVars, given
  <2>2. \/ skip' = skip /\ work[mt].kind # "file"
        \/ skip' = skip \cup {mt}
    BY <1>3 DEF PassOver, FileGone
  <2>3. cur \in Nat /\ mt \in Nat BY <1>1, WorkFacts DEF Types, CallerTypes
  <2>4. Active /\ Active' /\ Low = cur /\ Low' = cur BY <2>1 DEF Active, Low
  <2>5. /\ \A i \in cur .. mt - 1 : Packing(i)' <=> Packing(i)
        /\ \A i : i = mt => ~Packing(i)'
    BY <2>1, <2>2, <2>3 DEF Packing
  <2>6. Bounds' BY <1>1, <2>1, <2>3, <2>4 DEF Turn, Bounds
  <2>7. Increasing' BY <1>1, <2>1, <2>4 DEF Turn, Increasing
  <2>8. Inside'
    <3> SUFFICES ASSUME NEW k \in DOMAIN order
                 PROVE  item[order[k]] \in cur .. mt' - 1 /\ Packing(item[order[k]])'
      BY <2>1, <2>4 DEF Inside, Packing
    <3>1. item[order[k]] \in cur .. mt - 1 /\ Packing(item[order[k]])
      BY <1>1, <2>4 DEF Turn, Inside
    <3>2. work[item[order[k]]].kind = "file" /\ item[order[k]] \notin skip'
          /\ ~refs[item[order[k]]].finished
      BY <2>2, <2>3, <3>1 DEF Packing
    <3> QED BY <2>1, <2>3, <3>1, <3>2 DEF Packing
  <2>9. NoneMissing'
    <3> SUFFICES ASSUME NEW i \in cur .. mt', i < mt', Packing(i)'
                 PROVE  \E k \in DOMAIN order : item[order[k]] = i
      BY <2>1, <2>3, <2>4 DEF NoneMissing
    <3>1. i \in cur .. mt - 1 BY <2>1, <2>3, <2>5
    <3> QED BY <1>1, <2>4, <2>5, <3>1 DEF Turn, NoneMissing
  <2>10. OnlyFirst' BY <1>1, <2>1, <2>4 DEF Turn, OnlyFirst
  <2>11. Current' BY <2>1 DEF Current
  <2> QED BY <2>1, <2>6, <2>7, <2>8, <2>9, <2>10, <2>11 DEF Turn
<1> QED BY <1>2, <1>3

\* The thread that gets the next file is the last.
LEMMA TurnStarts == ASSUME IInv, StartFile PROVE Turn'
<1>1. Types /\ Turn /\ Stored /\ Life BY DEF IInv
<1>2. CASE mpc' = "stop" BY <1>2, TurnOver DEF Active
<1>3. ASSUME NEW t \in Threads, Starts(t) PROVE Turn'
  <2>1. /\ mpc = "loop" /\ mpc' = "loop" /\ mt' = mt + 1 /\ mt <= Len(work)
        /\ work[mt].kind = "file"
        /\ UNCHANGED <<work, cur, refs, last, skip>>
        /\ order' = Append(order, t) /\ item' = [item EXCEPT ![t] = mt]
        /\ unlocked' = [unlocked EXCEPT ![t] = FALSE]
    BY <1>3 DEF StartFile, Ahead, Starts, given
  <2>2. /\ cur \in Nat /\ mt \in Nat \ {0} /\ order \in Seq(Threads)
        /\ item \in [Threads -> 0 .. Len(work)] /\ unlocked \in [Threads -> BOOLEAN]
    BY <1>1, WorkFacts DEF Types, CallerTypes, ThreadTypes, RealTypes
  <2>3. Active /\ Active' /\ Low = cur /\ Low' = cur BY <2>1 DEF Active, Low
  <2>4. \A k \in DOMAIN order : order[k] # t
    BY <1>1, <1>3, <2>3 DEF Starts, Life, InOrder
  <2>5. /\ Len(order) \in Nat /\ DOMAIN order = 1 .. Len(order)
        /\ DOMAIN order' = 1 .. Len(order) + 1 /\ order'[Len(order) + 1] = t
        /\ \A k \in DOMAIN order : order'[k] = order[k] /\ order[k] \in Threads
    BY <2>1, <2>2
  <2>6. /\ item'[t] = mt /\ ~unlocked'[t]
        /\ \A k \in DOMAIN order : /\ item'[order[k]] = item[order[k]]
                                   /\ unlocked'[order[k]] = unlocked[order[k]]
    BY <2>1, <2>2, <2>4, <2>5
  <2>7. \A i : Packing(i)' <=> Packing(i) BY <2>1 DEF Packing
  <2>8. Packing(mt)
    <3>1. mt \in DOMAIN work BY <1>1, <2>1, <2>2, WorkFacts DEF Types
    <3>2. ~refs[mt].finished /\ mt \notin skip BY <1>1, <2>2, <3>1 DEF Stored
    <3> QED BY <2>1, <3>2 DEF Packing
  <2>9. Bounds' BY <1>1, <2>1, <2>2, <2>3 DEF Turn, Bounds
  <2>10. Increasing'
    <3> SUFFICES ASSUME NEW j \in DOMAIN order', NEW k \in DOMAIN order', j < k
                 PROVE  item'[order'[j]] < item'[order'[k]]
      BY DEF Increasing
    <3>1. j \in DOMAIN order BY <2>5
    <3>2. item[order[j]] < mt BY <1>1, <2>2, <2>3, <3>1 DEF Turn, Inside
    <3>3. CASE k \in DOMAIN order BY <1>1, <2>3, <2>5, <2>6, <3>1, <3>3 DEF Turn, Increasing
    <3>4. CASE k = Len(order) + 1 BY <2>5, <2>6, <3>1, <3>2, <3>4
    <3> QED BY <2>5, <3>3, <3>4
  <2>11. Inside'
    <3> SUFFICES ASSUME NEW k \in DOMAIN order'
                 PROVE  item'[order'[k]] \in cur .. mt /\ Packing(item'[order'[k]])
      BY <2>1, <2>2, <2>3, <2>7 DEF Inside, Packing
    <3>1. CASE k \in DOMAIN order
      BY <1>1, <2>2, <2>3, <2>5, <2>6, <3>1 DEF Turn, Inside
    <3>2. CASE k = Len(order) + 1
      BY <1>1, <2>2, <2>3, <2>5, <2>6, <2>8, <3>2 DEF Turn, Bounds
    <3> QED BY <2>5, <3>1, <3>2
  <2>12. NoneMissing'
    <3> SUFFICES ASSUME NEW i \in cur .. mt, Packing(i)
                 PROVE  \E k \in DOMAIN order' : item'[order'[k]] = i
      BY <2>1, <2>2, <2>3, <2>7 DEF NoneMissing
    <3>1. CASE i = mt BY <2>5, <2>6, <3>1
    <3>2. CASE i < mt
      <4>1. PICK k \in DOMAIN order : item[order[k]] = i
        BY <1>1, <2>2, <2>3, <3>2 DEF Turn, NoneMissing
      <4>2. k \in DOMAIN order' /\ item'[order'[k]] = i BY <2>5, <2>6, <4>1
      <4> QED BY <4>2
    <3> QED BY <2>2, <3>1, <3>2
  <2>13. OnlyFirst'
    <3> SUFFICES ASSUME NEW k \in DOMAIN order', unlocked'[order'[k]]
                 PROVE  k = 1 /\ item'[order'[k]] = cur /\ last = cur
      BY <2>1 DEF OnlyFirst
    <3>1. k \in DOMAIN order BY <2>5, <2>6
    <3> QED BY <1>1, <2>3, <2>5, <2>6, <3>1 DEF Turn, OnlyFirst
  <2>14. Current' BY <2>1 DEF Current
  <2> QED BY <2>1, <2>9, <2>10, <2>11, <2>12, <2>13, <2>14 DEF Turn
<1> QED BY <1>2, <1>3, StartedOrNot

\* The caller goes on to the next item when no thread has the last one.
LEMMA TurnGoesOn ==
  ASSUME Types, Turn, Active, cur < mt, mpc # "replace" => ~Packing(cur),
         mpc' = "loop", cur' = cur + 1,
         UNCHANGED <<work, mt, order, item, skip, unlocked, last>>,
         \A i \in DOMAIN work : refs'[i].finished = refs[i].finished
  PROVE  Turn'
<1>1. /\ cur \in Nat \ {0} /\ mt \in Nat /\ Len(work) \in Nat /\ mt <= Len(work) + 1
      /\ DOMAIN work = 1 .. Len(work)
  BY WorkFacts DEF Types, CallerTypes
<1>2. Low \in {cur, cur + 1} /\ Low' = cur + 1 BY DEF Low
<1>3. \A i \in cur .. mt - 1 : Packing(i)' <=> Packing(i) BY <1>1 DEF Packing
<1>4. Bounds' BY <1>1 DEF Bounds
<1>5. Increasing' BY DEF Turn, Increasing
<1>6. \A k \in DOMAIN order : item[order[k]] \in cur + 1 .. mt - 1 /\ Packing(item[order[k]])
  <2> SUFFICES ASSUME NEW k \in DOMAIN order
               PROVE  item[order[k]] \in cur + 1 .. mt - 1 /\ Packing(item[order[k]])
    OBVIOUS
  <2>1. item[order[k]] \in Low .. mt - 1 /\ Packing(item[order[k]]) BY DEF Turn, Inside
  <2>2. CASE mpc = "replace" BY <2>1, <2>2 DEF Low
  <2>3. CASE mpc # "replace" BY <1>1, <2>1, <2>3 DEF Low
  <2> QED BY <2>2, <2>3
<1>7. Inside'
  <2> SUFFICES ASSUME NEW k \in DOMAIN order
               PROVE  item[order[k]] \in cur + 1 .. mt - 1 /\ Packing(item[order[k]])'
    BY <1>2 DEF Inside, Packing
  <2>1. work[item[order[k]]].kind = "file" /\ item[order[k]] \notin skip
        /\ ~refs'[item[order[k]]].finished
    BY <1>1, <1>6 DEF Packing
  <2> QED BY <1>6, <2>1 DEF Packing
<1>8. NoneMissing'
  <2> SUFFICES ASSUME NEW i \in cur + 1 .. mt - 1, Packing(i)
               PROVE  \E k \in DOMAIN order : item[order[k]] = i
    BY <1>1, <1>2, <1>3 DEF NoneMissing
  <2> QED BY <1>1, <1>2 DEF Turn, NoneMissing
<1>9. OnlyFirst'
  <2> SUFFICES ASSUME NEW k \in DOMAIN order, unlocked[order[k]] PROVE FALSE
    BY DEF OnlyFirst
  <2>1. item[order[k]] = cur BY DEF Turn, OnlyFirst
  <2> QED BY <1>1, <1>6, <2>1
<1>10. Current' BY DEF Current
<1> QED BY <1>4, <1>5, <1>7, <1>8, <1>9, <1>10 DEF Turn

\* The next item is due: what is left out, copied or written has no thread.
LEMMA TurnNext ==
  ASSUME IInv, SkipItem \/ CopyItem \/ EndFinished \/ Replace PROVE Turn'
<1>1. Types /\ Turn /\ Stored BY DEF IInv
<1>2. CASE mpc' = "stop" BY <1>2, TurnOver DEF Active
<1>3. CASE SkipItem
  <2>1. /\ Active /\ mpc # "replace" /\ mpc' = "loop" /\ cur' = cur + 1
        /\ UNCHANGED <<work, mt, order, item, skip, unlocked, last, refs>>
    BY <1>3 DEF SkipItem, InTurn, Active, threadVars, coderVars, realVars, given
  <2>2. ~Packing(cur) BY <1>3 DEF SkipItem, Packing
  <2>3. cur < mt BY <1>1, <1>3, Behind DEF SkipItem
  <2> QED BY <1>1, <2>1, <2>2, <2>3, TurnGoesOn
<1>4. CASE CopyItem /\ mpc' # "stop"
  <2>1. /\ Active /\ mpc # "replace" /\ mpc' = "loop" /\ cur' = cur + 1
        /\ UNCHANGED <<work, mt, order, item, skip, unlocked, last, refs>>
    BY <1>4 DEF CopyItem, InTurn, Active, threadVars, coderVars, realVars, given, NextItem, Leave
  <2>2. ~Packing(cur) BY <1>4 DEF CopyItem, Packing
  <2>3. cur < mt BY <1>1, <1>4, Behind DEF CopyItem
  <2> QED BY <1>1, <2>1, <2>2, <2>3, TurnGoesOn
<1>5. CASE EndFinished /\ mpc' # "stop"
  <2>1. /\ Active /\ mpc # "replace" /\ mpc' = "loop" /\ cur' = cur + 1
        /\ UNCHANGED <<work, mt, order, item, skip, unlocked, last>>
        /\ refs' = [refs EXCEPT ![cur].data = <<>>, ![cur].blocks = 0]
    BY <1>5 DEF EndFinished, Active, coderVars, realVars, given, NextItem, Leave
  <2>2. cur < mt /\ refs[cur].finished
    BY <1>1, <1>5, <2>1 DEF EndFinished, Turn, Bounds, Current
  <2>3. ~Packing(cur) BY <2>2 DEF Packing
  <2>4. \A i \in DOMAIN work : refs'[i].finished = refs[i].finished
    BY <1>1, <2>1 DEF Types, RefTypes, NoRef
  <2> QED BY <1>1, <2>1, <2>2, <2>3, <2>4, TurnGoesOn
<1>6. CASE Replace /\ mpc' # "stop"
  <2>1. /\ Active /\ mpc = "replace" /\ mpc' = "loop" /\ cur' = cur + 1
        /\ UNCHANGED <<work, mt, order, item, skip, unlocked, last, refs>>
    BY <1>6 DEF Replace, Active, threadVars, coderVars, realVars, given, NextItem, Leave
  <2>2. cur < mt BY <1>1, <2>1 DEF Turn, Bounds
  <2> QED BY <1>1, <2>1, <2>2, TurnGoesOn
<1> QED BY <1>2, <1>3, <1>4, <1>5, <1>6

\* A finished file: no thread may write.
LEMMA TurnFinished == ASSUME IInv, HeaderOfFinished \/ WriteBlocks PROVE Turn'
<1>1. Types /\ Turn BY DEF IInv
<1>2. CASE mpc' = "stop" BY <1>2, TurnOver DEF Active
<1>3. CASE mpc' # "stop"
  <2>1. /\ Active /\ mpc # "replace" /\ mpc' \in {"blocks", "tail"}
        /\ UNCHANGED <<work, cur, mt, order, item, skip, unlocked, refs>>
        /\ refs[cur].finished /\ cur < mt
    BY <1>1, <1>3, Behind DEF HeaderOfFinished, WriteBlocks, InTurn, Active, threadVars, coderVars,
       realVars, given, Leave, Turn, Bounds, Current, callerVars
  <2>2. \A i : Packing(i)' <=> Packing(i) BY <2>1 DEF Packing
  <2>3. Low = cur /\ Low' = cur BY <2>1 DEF Low
  <2>4. Bounds' /\ Increasing' /\ Inside' /\ NoneMissing'
    <3>1. Bounds' /\ Increasing' BY <1>1, <2>1 DEF Turn, Bounds, Increasing
    <3>2. Inside' BY <1>1, <2>1, <2>3 DEF Turn, Inside, Packing
    <3>3. NoneMissing' BY <1>1, <2>1, <2>2, <2>3 DEF Turn, NoneMissing
    <3> QED BY <3>1, <3>2, <3>3
  <2>5. OnlyFirst'
    <3> SUFFICES ASSUME NEW k \in DOMAIN order, unlocked[order[k]] PROVE FALSE
      BY <2>1 DEF OnlyFirst
    <3>1. item[order[k]] = cur /\ Packing(item[order[k]])
      BY <1>1, <2>1 DEF Turn, OnlyFirst, Inside
    <3> QED BY <2>1, <3>1 DEF Packing
  <2>6. Current' BY <2>1 DEF Current
  <2> QED BY <2>1, <2>4, <2>5, <2>6 DEF Turn
<1> QED BY <1>2, <1>3

\* The first thread is told to write to the archive.
LEMMA TurnUnlocks == ASSUME IInv, Unlock \/ Lock PROVE Turn'
<1>1. Types /\ Turn BY DEF IInv
<1>2. CASE mpc' = "stop" BY <1>2, TurnOver DEF Active
<1>3. CASE Unlock /\ mpc' # "stop"
  <2>1. /\ Active /\ InTurn /\ mpc = "loop" /\ mpc' = "lock" /\ last' = cur
        /\ UNCHANGED <<work, cur, mt, order, item, skip, refs>>
        /\ unlocked' = [unlocked EXCEPT ![order[1]] = TRUE]
        /\ Packing(cur)
    BY <1>3 DEF Unlock, InTurn, Active, coderVars, given, Leave, Packing, InFront
  <2>2. cur < mt BY <1>1, <2>1, Behind
  <2>3. order # <<>> /\ 1 \in DOMAIN order /\ item[order[1]] = cur
    BY <1>1, <2>1, <2>2, FirstIsCurrent
  <2>4. order[1] \in Threads /\ \A k \in DOMAIN order : order[k] \in Threads
    BY <1>1, <2>3 DEF Types, CallerTypes
  <2>5. \A i : Packing(i)' <=> Packing(i) BY <2>1 DEF Packing
  <2>6. Low = cur /\ Low' = cur BY <2>1 DEF Low
  <2>7. Bounds' /\ Increasing' /\ Inside' /\ NoneMissing'
    <3>1. Bounds' /\ Increasing' BY <1>1, <2>1, <2>2 DEF Turn, Bounds, Increasing
    <3>2. Inside' BY <1>1, <2>1, <2>6 DEF Turn, Inside, Packing
    <3>3. NoneMissing' BY <1>1, <2>1, <2>5, <2>6 DEF Turn, NoneMissing
    <3> QED BY <3>1, <3>2, <3>3
  <2>8. unlocked'[order[1]] /\ \A t \in Threads : t # order[1] => unlocked'[t] = unlocked[t]
    BY <1>1, <2>1, <2>4 DEF Types, RealTypes
  <2>9. OnlyFirst'
    <3> SUFFICES ASSUME NEW k \in DOMAIN order, unlocked'[order[k]]
                 PROVE  k = 1 /\ item[order[k]] = cur
      BY <2>1 DEF OnlyFirst
    <3>1. CASE order[k] # order[1] BY <1>1, <2>1, <2>4, <2>8, <3>1 DEF Turn, OnlyFirst
    <3>2. CASE order[k] = order[1]
      <4>1. order[k] = order[1] => k = 1 BY <2>1, <2>3 DEF IInv, Life
      <4> QED BY <2>3, <3>2, <4>1
    <3> QED BY <3>1, <3>2
  <2>10. Current' BY <2>1, <2>3, <2>8 DEF Current
  <2> QED BY <2>1, <2>7, <2>9, <2>10 DEF Turn
<1>4. CASE Lock
  <2>1. /\ Active /\ mpc = "lock" /\ mpc' = "pop"
        /\ UNCHANGED <<work, cur, mt, order, item, skip, refs, unlocked, last>>
    BY <1>4 DEF Lock, Active, callerVars, coderVars, realVars, given
  <2>2. Low = cur /\ Low' = cur BY <2>1 DEF Low
  <2>3. Bounds' /\ Increasing' /\ OnlyFirst' /\ Current'
    BY <1>1, <2>1 DEF Turn, Bounds, Increasing, OnlyFirst, Current
  <2>4. Inside' BY <1>1, <2>1, <2>2 DEF Turn, Inside, Packing
  <2>5. NoneMissing' BY <1>1, <2>1, <2>2 DEF Turn, NoneMissing, Packing
  <2> QED BY <2>1, <2>3, <2>4, <2>5 DEF Turn
<1> QED BY <1>2, <1>3, <1>4

\* What taking the result of a thread does to threadIndices.
LEMMA PopOrder ==
  ASSUME Types, Life, Turn, PopEarly \/ PopCurrent, mpc' # "stop"
  PROVE  \E k \in DOMAIN order :
           /\ k = 1 <=> PopCurrent
           /\ order[k] = Popped /\ Popped \in Threads
           /\ DOMAIN order' = 1 .. Len(order) - 1
           /\ \A i \in DOMAIN order' : /\ (IF i < k THEN i ELSE i + 1) \in DOMAIN order
                                       /\ order'[i] = order[IF i < k THEN i ELSE i + 1]
<1>1. Active /\ order \in Seq(Threads) /\ order # <<>>
      /\ Len(order) \in Nat \ {0} /\ DOMAIN order = 1 .. Len(order)
  <2>1. Active /\ mpc = "pop" BY DEF PopEarly, PopCurrent, Active
  <2>2. order \in Seq(Threads) BY DEF Types, CallerTypes
  <2>3. order # <<>> BY <2>1 DEF Turn, Current
  <2> QED BY <2>1, <2>2, <2>3, EmptySeq
<1>2. Popped \in Threads BY PoppedFacts DEF PopEarly, PopCurrent, Types
<1>3. CASE PopCurrent
  <2>1. order[1] = Popped /\ order' = Tail(order) BY <1>3 DEF PopCurrent
  <2>2. order' \in Seq(Threads) /\ Len(order') = Len(order) - 1
        /\ \A i \in 1 .. Len(order') : order'[i] = order[i + 1]
    BY <1>1, <2>1, HeadTailProperties
  <2>3. 1 \in DOMAIN order BY <1>1
  <2>4. DOMAIN order' = 1 .. Len(order) - 1 BY <1>1, <2>2
  <2>5. \A i \in DOMAIN order' : /\ (IF i < 1 THEN i ELSE i + 1) \in DOMAIN order
                                 /\ order'[i] = order[IF i < 1 THEN i ELSE i + 1]
    BY <1>1, <2>2, <2>4
  <2> QED BY <1>2, <1>3, <2>1, <2>3, <2>4, <2>5
<1>4. CASE PopEarly
  <2>1. order[1] # Popped /\ ~PopCurrent BY <1>4 DEF PopEarly, PopCurrent
  <2>2. Popped \in Range(order) /\ order' = RemoveAt(order, CHOOSE k \in DOMAIN order : order[k] = Popped)
    BY <1>4 DEF PopEarly, Leave
  <2> DEFINE p == CHOOSE k \in DOMAIN order : order[k] = Popped
  <2>3. p \in 1 .. Len(order) /\ order[p] = Popped BY <2>2, PlaceInOrder DEF Types
  <2>4. order' = RemoveAt(order, p) BY <2>2
  <2> HIDE DEF p
  <2>5. /\ DOMAIN order' = 1 .. Len(order) - 1
        /\ \A i \in DOMAIN order' : /\ (IF i < p THEN i ELSE i + 1) \in DOMAIN order
                                    /\ order'[i] = order[IF i < p THEN i ELSE i + 1]
    <3>1. \A i, j \in DOMAIN order : order[i] = order[j] => i = j BY <1>1 DEF Life
    <3>2. p \in DOMAIN order BY <1>1, <2>3
    <3> QED BY <1>1, <2>3, <2>4, <3>1, <3>2, OrderWithout
  <2>6. p # 1 BY <2>1, <2>3
  <2> QED BY <1>1, <1>2, <2>1, <2>3, <2>5, <2>6
<1> QED BY <1>3, <1>4

\* The order of the files survives the removal of a thread that has finished.
LEMMA TurnPops == ASSUME IInv, PopFailed \/ PopEarly \/ PopCurrent PROVE Turn'
<1>1. Types /\ Turn /\ Life BY DEF IInv
<1>2. CASE mpc' # "pop" /\ ~Active' /\ mpc' # "create" BY <1>2, TurnOver
<1>3. CASE PopFailed
  <2>1. ~Active' /\ mpc' # "create" BY <1>3 DEF PopFailed, Leave, Active
  <2> QED BY <2>1, TurnOver
<1>4. CASE PopEarly \/ PopCurrent
  <2>1. CASE mpc' = "stop" BY <2>1, TurnOver DEF Active
  <2>2. CASE mpc' # "stop"
    <3>1. PICK k \in DOMAIN order :
           /\ k = 1 <=> PopCurrent
           /\ order[k] = Popped /\ Popped \in Threads
           /\ DOMAIN order' = 1 .. Len(order) - 1
           /\ \A i \in DOMAIN order' : /\ (IF i < k THEN i ELSE i + 1) \in DOMAIN order
                                       /\ order'[i] = order[IF i < k THEN i ELSE i + 1]
      BY <1>1, <1>4, <2>2, PopOrder
    <3>2. /\ Active /\ mpc = "pop" /\ mpc' = IF k = 1 THEN "replace" ELSE "loop"
          /\ UNCHANGED <<work, cur, mt, item, skip, unlocked, last>>
          /\ k = 1 => item[Popped] = cur
      BY <1>4, <2>2, <3>1 DEF PopEarly, PopCurrent, Active, Leave, given, realVars
    <3>3. /\ cur \in Nat \ {0} /\ mt \in Nat /\ cur < mt /\ mt <= Len(work) + 1
          /\ Len(work) \in Nat /\ DOMAIN work = 1 .. Len(work)
          /\ Len(order) \in Nat /\ DOMAIN order = 1 .. Len(order)
      BY <1>1, <3>2, WorkFacts DEF Types, CallerTypes, Turn, Bounds
    <3>4. /\ Active' /\ Low = cur /\ Low' = IF k = 1 THEN cur + 1 ELSE cur
          /\ \A i \in DOMAIN order' : i \in Nat /\ i >= 1
      BY <3>1, <3>2, <3>3 DEF Active, Low
    <3>5. item[order[1]] = cur /\ 1 \in DOMAIN order
      BY <1>1, <3>2, <3>3, <3>1 DEF Turn, Current
    <3>6. \A i, j \in DOMAIN order : order[i] = order[j] => i = j BY <1>1, <3>2 DEF Life
    <3>7. \A i \in DOMAIN work : i # item[Popped] => (Packing(i)' <=> Packing(i))
      <4>1. CASE PopEarly
        <5>1. refs' = [refs EXCEPT ![item[Popped]] =
                         [finished |-> TRUE, data |-> mem[Popped],
                          blocks |-> Blocks(Len(mem[Popped])), pack |-> pack[Popped]]]
          BY <2>2, <4>1 DEF PopEarly, Leave
        <5> QED BY <1>1, <3>2, <5>1 DEF Packing, Types, RefTypes
      <4>2. CASE PopCurrent
        <5>1. refs' = [refs EXCEPT ![cur].pack = pack[Popped]] BY <4>2 DEF PopCurrent
        <5> QED BY <1>1, <3>1, <3>2, <4>2, <5>1 DEF Packing, Types, RefTypes
      <4> QED BY <1>4, <4>1, <4>2
    <3>8. \A i, j \in DOMAIN order : i < j => item[order[i]] < item[order[j]]
      BY <1>1, <3>2 DEF Turn, Increasing
    <3>9. \A i \in DOMAIN order : item[order[i]] \in cur .. mt - 1 /\ Packing(item[order[i]])
      BY <1>1, <3>2, <3>4 DEF Turn, Inside
    <3>10. \A i \in DOMAIN order : i # k => item[order[i]] # item[order[k]]
      <4> SUFFICES ASSUME NEW i \in DOMAIN order, i # k PROVE item[order[i]] # item[order[k]]
        OBVIOUS
      <4>1. i < k \/ k < i BY <3>3
      <4>2. item[order[i]] \in Nat /\ item[order[k]] \in Nat BY <3>3, <3>9
      <4> QED BY <3>8, <4>1, <4>2
    <3>11. Increasing'
      <4> SUFFICES ASSUME NEW i \in DOMAIN order', NEW j \in DOMAIN order', i < j
                   PROVE  item[order'[i]] < item[order'[j]]
        BY <3>2 DEF Increasing
      <4>1. (IF i < k THEN i ELSE i + 1) < (IF j < k THEN j ELSE j + 1) BY <3>3, <3>4
      <4> QED BY <3>1, <3>8, <4>1
    <3>12. \A i \in DOMAIN order' :
             /\ item[order'[i]] \in Low' .. mt - 1 /\ item[order'[i]] # item[Popped]
             /\ Packing(item[order'[i]])
      <4> SUFFICES ASSUME NEW i \in DOMAIN order'
                   PROVE  /\ item[order'[i]] \in Low' .. mt - 1 /\ item[order'[i]] # item[Popped]
                          /\ Packing(item[order'[i]])
        OBVIOUS
      <4> DEFINE j == IF i < k THEN i ELSE i + 1
      <4>1. j \in DOMAIN order /\ order'[i] = order[j] /\ j # k BY <3>1, <3>3, <3>4
      <4> HIDE DEF j
      <4>2. item[order[j]] # item[Popped] BY <3>1, <3>10, <4>1
      <4>3. item[order[j]] \in Low' .. mt - 1 BY <3>1, <3>2, <3>3, <3>4, <3>9, <4>1, <4>2
      <4> QED BY <3>9, <4>1, <4>2, <4>3
    <3>13. Inside'
      <4> SUFFICES ASSUME NEW i \in DOMAIN order'
                   PROVE  item[order'[i]] \in Low' .. mt - 1 /\ Packing(item[order[i]])'
        BY <3>2 DEF Inside
      <4>1. \A n \in DOMAIN work : n = item[order'[i]] => Packing(n)'
        BY <3>7, <3>12
      <4>2. item[order'[i]] \in DOMAIN work BY <3>3, <3>4, <3>12
      <4> QED BY <3>2, <3>12, <4>1, <4>2 DEF Packing
    <3>14. NoneMissing'
      <4> SUFFICES ASSUME NEW n \in Low' .. mt - 1, Packing(n)'
                   PROVE  \E i \in DOMAIN order' : item[order'[i]] = n
        BY <3>2, <3>4 DEF NoneMissing
      <4>1. n \in DOMAIN work /\ n \in Low .. mt - 1 BY <3>3, <3>4
      <4>2. n # item[Popped]
        <5>1. CASE k = 1 BY <3>2, <3>3, <3>4, <5>1
        <5>2. CASE k # 1
          <6>1. refs' = [refs EXCEPT ![item[Popped]] =
                           [finished |-> TRUE, data |-> mem[Popped],
                            blocks |-> Blocks(Len(mem[Popped])), pack |-> pack[Popped]]]
            BY <1>4, <2>2, <3>1, <5>2 DEF PopEarly, Leave
          <6> QED BY <1>1, <4>1, <6>1 DEF Packing, Types, RefTypes
        <5> QED BY <5>1, <5>2
      <4>3. Packing(n) BY <3>7, <4>1, <4>2
      <4>4. PICK j \in DOMAIN order : item[order[j]] = n
        BY <1>1, <3>2, <4>1, <4>3 DEF Turn, NoneMissing
      <4>5. j # k BY <3>1, <4>2, <4>4
      <4>6. CASE j < k
        <5>1. j \in DOMAIN order' /\ order'[j] = order[j] BY <3>1, <3>3, <4>6
        <5> QED BY <4>4, <5>1
      <4>7. CASE j > k
        <5>1. j - 1 \in DOMAIN order' /\ order'[j - 1] = order[j] BY <3>1, <3>3, <4>7
        <5> QED BY <4>4, <5>1
      <4> QED BY <3>3, <4>5, <4>6, <4>7
    <3>15. OnlyFirst'
      <4> SUFFICES ASSUME NEW i \in DOMAIN order', unlocked[order'[i]]
                   PROVE  i = 1 /\ item[order'[i]] = cur /\ last = cur
        BY <3>2 DEF OnlyFirst
      <4> DEFINE j == IF i < k THEN i ELSE i + 1
      <4>1. j \in DOMAIN order /\ order'[i] = order[j] /\ j # k BY <3>1, <3>3, <3>4
      <4>2. j = 1 /\ item[order[j]] = cur /\ last = cur
        BY <1>1, <3>2, <4>1 DEF Turn, OnlyFirst
      <4>3. i = 1 BY <3>3, <3>4, <4>2
      <4> QED BY <4>1, <4>2, <4>3
    <3>16. Current'
      <4>1. CASE k # 1 BY <3>2, <4>1 DEF Current
      <4>2. CASE k = 1
        <5>1. refs' = [refs EXCEPT ![cur].pack = pack[Popped]] BY <3>1, <4>2 DEF PopCurrent
        <5>2. Packing(cur) /\ cur \in DOMAIN work BY <3>3, <3>5, <3>9
        <5>3. ~refs'[cur].finished
          BY <1>1, <5>1, <5>2 DEF Packing, Types, RefTypes, NoRef
        <5> QED BY <3>2, <4>2, <5>3 DEF Current
      <4> QED BY <4>1, <4>2
    <3>17. Bounds' BY <3>2, <3>3 DEF Bounds
    <3> QED BY <3>2, <3>4, <3>11, <3>13, <3>14, <3>15, <3>16, <3>17 DEF Turn
  <2> QED BY <2>1, <2>2
<1> QED BY <1>3, <1>4

\* Every step keeps the order of the files and that only the first may write.
LEMMA TurnStep == ASSUME IInv, [Next]_vars PROVE Turn'
<1>1. Types /\ Turn BY DEF IInv
<1>2. CASE CreateThreads
  <2>1. CASE mpc' = "stop" BY <2>1, TurnOver DEF Active
  <2>2. CASE mpc' # "stop"
    <3>1. order' = <<>> /\ cur' = 1 /\ mt' = 1 /\ mpc' = "loop"
      BY <1>1, <1>2, <2>2 DEF CreateThreads, Turn, callerVars, Leave
    <3> QED BY <3>1 DEF Turn, Low, Bounds, Increasing, Inside, NoneMissing, OnlyFirst, Current
  <2> QED BY <2>1, <2>2
<1>3. CASE PassOver \/ FileGone \/ OpenFails BY <1>3, TurnAhead
<1>4. CASE StartFile BY <1>4, TurnStarts
<1>5. CASE SkipItem \/ CopyItem \/ EndFinished \/ Replace BY <1>5, TurnNext
<1>6. CASE HeaderOfFinished \/ WriteBlocks BY <1>6, TurnFinished
<1>7. CASE Unlock \/ Lock BY <1>7, TurnUnlocks
<1>8. CASE PopFailed \/ PopEarly \/ PopCurrent BY <1>8, TurnPops
<1>9. CASE WriteCentralDir \/ FinalFlush \/ (\E t \in Threads : StopThread(t) \/ JoinThread(t))
  BY <1>9, TurnOver DEF WriteCentralDir, FinalFlush, StopThread, JoinThread, Leave, Active
<1>10. CASE \E t \in Threads : Coder(t) \/ CodeFails(t)
  BY <1>1, <1>10, ThreadFrame, TurnSame DEF given, callerVars
<1>11. CASE UNCHANGED vars
  BY <1>1, <1>11, TurnSame DEF vars, given, callerVars, threadVars, coderVars, realVars
<1> QED BY <1>2, <1>3, <1>4, <1>5, <1>6, <1>7, <1>8, <1>9, <1>10, <1>11 DEF Next, Caller, Finished

-----------------------------------------------------------------------------
(* What waits for its turn *)

\* The item of a thread is not stored, as long as the caller goes on.
LEMMA PackingItem ==
  ASSUME Types, Turn, Active, NEW k \in DOMAIN order
  PROVE  /\ item[order[k]] \in DOMAIN work /\ Packing(item[order[k]])
         /\ item[order[k]] < mt /\ cur <= item[order[k]]
<1>1. item[order[k]] \in Low .. mt - 1 /\ Packing(item[order[k]]) BY DEF Turn, Inside
<1>2. /\ cur \in Nat \ {0} /\ mt \in Nat /\ mt <= Len(work) + 1 /\ Len(work) \in Nat
      /\ DOMAIN work = 1 .. Len(work)
  BY WorkFacts DEF Types, CallerTypes
<1>3. Low \in {cur, cur + 1} BY DEF Low
<1> QED BY <1>1, <1>2, <1>3

\* Every step keeps what waits for its turn: it belongs to a file that is to be written.
LEMMA StoredStep == ASSUME IInv, [Next]_vars PROVE Stored'
<1>1. Types /\ Turn /\ Stored /\ Life BY DEF IInv
<1>2. /\ cur \in Nat \ {0} /\ mt \in Nat \ {0} /\ Len(work) \in Nat /\ DOMAIN work = 1 .. Len(work)
      /\ DOMAIN refs = DOMAIN work /\ skip \subseteq DOMAIN work
      /\ \A i \in DOMAIN work : DOMAIN refs[i] = DOMAIN NoRef /\ refs[i].finished \in BOOLEAN
  BY <1>1, WorkFacts DEF Types, CallerTypes, RefTypes
<1>3. work' = work BY Steady DEF given
<1>4. ASSUME UNCHANGED <<cur, refs, skip>>, mt' \in {mt, mt + 1} PROVE Stored'
  BY <1>1, <1>2, <1>3, <1>4 DEF Stored
<1>5. CASE \/ CreateThreads \/ PassOver \/ OpenFails \/ StartFile \/ HeaderOfFinished \/ WriteBlocks
           \/ Unlock \/ Lock \/ PopFailed \/ WriteCentralDir \/ FinalFlush
           \/ (\E t \in Threads : StopThread(t) \/ JoinThread(t))
  BY <1>4, <1>5 DEF CreateThreads, PassOver, OpenFails, StartFile, HeaderOfFinished, WriteBlocks,
     Unlock, Lock, PopFailed, WriteCentralDir, FinalFlush, StopThread, JoinThread, callerVars
<1>6. CASE FileGone
  <2>1. UNCHANGED <<cur, refs>> /\ skip' = skip \cup {mt} /\ mt' = mt + 1
    BY <1>6 DEF FileGone
  <2>2. \A i \in DOMAIN work : refs[i].finished => i # mt BY <1>1, <1>2 DEF Stored
  <2> QED BY <1>1, <1>2, <1>3, <2>1, <2>2 DEF Stored
<1>7. ASSUME cur' = cur + 1, UNCHANGED <<mt, skip, refs>>,
             cur \in DOMAIN work => ~refs[cur].finished
      PROVE  Stored'
  BY <1>1, <1>2, <1>3, <1>7 DEF Stored
<1>8. CASE SkipItem
  <2>1. cur' = cur + 1 /\ UNCHANGED <<mt, skip, refs>> /\ cur \in skip BY <1>8 DEF SkipItem
  <2> QED BY <1>1, <1>7, <2>1 DEF Stored
<1>9. CASE CopyItem
  <2>1. UNCHANGED <<mt, skip, refs>> /\ work[cur].kind # "file" BY <1>9 DEF CopyItem
  <2>2. cur' = cur + 1 \/ cur' = cur BY <1>9 DEF CopyItem, NextItem
  <2> QED BY <1>1, <1>4, <1>7, <2>1, <2>2 DEF Stored
<1>10. CASE Replace
  <2>1. UNCHANGED <<mt, skip, refs>> /\ mpc = "replace" BY <1>10 DEF Replace
  <2>2. cur' = cur + 1 \/ cur' = cur BY <1>10 DEF Replace, NextItem
  <2>3. ~refs[cur].finished BY <1>1, <2>1 DEF Turn, Active, Current
  <2> QED BY <1>4, <1>7, <2>1, <2>2, <2>3
<1>11. CASE EndFinished
  <2>1. UNCHANGED <<mt, skip>> /\ mpc = "tail" BY <1>11 DEF EndFinished
  <2>2. CASE UNCHANGED <<cur, refs>> BY <1>4, <2>1, <2>2
  <2>3. CASE cur' = cur + 1 /\ refs' = [refs EXCEPT ![cur].data = <<>>, ![cur].blocks = 0]
    <3>1. refs[cur].finished BY <1>1, <2>1 DEF Turn, Active, Current
    <3>2. \A i \in DOMAIN work : /\ refs'[i].finished = refs[i].finished
                                 /\ refs'[i].blocks = IF i = cur THEN 0 ELSE refs[i].blocks
      BY <1>2, <2>3 DEF NoRef
    <3> QED BY <1>1, <1>2, <1>3, <2>1, <2>3, <3>1, <3>2 DEF Stored
  <2> QED BY <1>11, <2>2, <2>3 DEF EndFinished, NextItem
<1>12. CASE PopEarly
  <2>1. UNCHANGED <<cur, mt, skip>> BY <1>12 DEF PopEarly
  <2>2. CASE UNCHANGED refs BY <1>4, <2>1, <2>2
  <2>3. CASE mpc' # "stop"
    <3>1. PICK k \in DOMAIN order : order[k] = Popped
      BY <1>1, <1>12, <2>3, PopOrder
    <3> DEFINE i == item[Popped]
    <3>2. Active BY <1>12 DEF PopEarly, Active
    <3>3. i \in DOMAIN work /\ Packing(i) /\ i < mt /\ cur <= i BY <1>1, <3>1, <3>2, PackingItem
    <3>4. refs' = [refs EXCEPT ![i] =
                     [finished |-> TRUE, data |-> mem[Popped],
                      blocks |-> Blocks(Len(mem[Popped])), pack |-> pack[Popped]]]
      BY <1>12, <2>3 DEF PopEarly, Leave
    <3> HIDE DEF i
    <3>5. /\ refs'[i].finished /\ \A j \in DOMAIN work : j # i => refs'[j] = refs[j]
      BY <1>2, <3>3, <3>4
    <3> QED BY <1>1, <1>2, <1>3, <2>1, <3>3, <3>5 DEF Stored, Packing
  <2> QED BY <1>12, <2>2, <2>3 DEF PopEarly, Leave
<1>13. CASE PopCurrent
  <2>1. UNCHANGED <<cur, mt, skip>> /\ refs' = [refs EXCEPT ![cur].pack = pack[Popped]]
    BY <1>13 DEF PopCurrent
  <2>2. \A i \in DOMAIN work : /\ refs'[i].finished = refs[i].finished
                               /\ refs'[i].blocks = refs[i].blocks
    BY <1>2, <2>1 DEF NoRef
  <2> QED BY <1>1, <1>3, <2>1, <2>2 DEF Stored
<1>14. CASE \E t \in Threads : Coder(t) \/ CodeFails(t)
  BY <1>4, <1>14, ThreadFrame DEF callerVars
<1>15. CASE UNCHANGED vars BY <1>4, <1>15 DEF vars, callerVars
<1> QED BY <1>5, <1>6, <1>8, <1>9, <1>10, <1>11, <1>12, <1>13, <1>14, <1>15 DEF Next, Caller, Finished

-----------------------------------------------------------------------------
(* Who may write to the archive *)

\* A thread that has a file and may write is the first, and its file is the caller's.
LEMMA WriterIsFirst ==
  ASSUME Types, Life, Turn, Active, NEW t \in Threads, Engaged(t), unlocked[t]
  PROVE  order # <<>> /\ order[1] = t /\ item[t] = cur /\ last = cur /\ Packing(cur)
<1>1. ~isFree[t] BY DEF Life, Engaged
<1>2. PICK k \in DOMAIN order : order[k] = t BY <1>1 DEF Life, InOrder
<1>3. k = 1 /\ item[order[k]] = cur /\ last = cur BY <1>2 DEF Turn, OnlyFirst
<1>4. Packing(cur) BY <1>2, <1>3 DEF Turn, Inside
<1>5. order # <<>> BY <1>2 DEF Types, CallerTypes
<1> QED BY <1>2, <1>3, <1>4, <1>5

\* Nothing but the start of a file makes a thread work.
LEMMA EngagedStep ==
  ASSUME Types, Life, NEW t \in Threads, Coder(t) \/ CodeFails(t)
  PROVE  \A u \in Threads : Engaged(u)' => Engaged(u)
<1> SUFFICES ASSUME NEW u \in Threads, Engaged(u)' PROVE Engaged(u) OBVIOUS
<1>1. exit' = exit BY ThreadFrame
<1>2. CASE Begins(t) BY <1>1, <1>2 DEF Begins, Engaged, Types, ThreadTypes
<1>3. CASE Packs(t)
  <2>1. PICK p \in {"run", "alloc", "push"} : pc' = [pc EXCEPT ![t] = p] BY <1>3 DEF Packs
  <2> QED BY <1>1, <1>3, <2>1 DEF Packs, Engaged, Types, ThreadTypes
<1>4. CASE Push(t) \/ Post(t)
  <2>1. compressEvent' = compressEvent BY <1>4 DEF Push, Post, coderVars
  <2>2. ~(pc[t] = "push" /\ compressEvent[t] /\ ~exit[t]) BY DEF Life
  <2>3. CASE Push(t)
    <3>1. pc[t] = "push" /\ pc' = [pc EXCEPT ![t] = "post"] BY <2>3 DEF Push
    <3> QED BY <1>1, <2>1, <2>2, <3>1 DEF Engaged, Types, ThreadTypes
  <2>4. CASE Post(t)
    <3>1. pc[t] = "post" /\ pc' = [pc EXCEPT ![t] = "wait"] BY <2>4 DEF Post
    <3> QED BY <1>1, <2>1, <3>1 DEF Engaged, Types, ThreadTypes
  <2> QED BY <1>4, <2>3, <2>4
<1> QED BY <1>2, <1>3, <1>4, ThreadMoves DEF Reports

\* Every step keeps what a thread works on, and one at most may write.
LEMMA WorkingStep == ASSUME IInv, [Next]_vars PROVE Working'
<1>1. Types /\ Life /\ Turn /\ Stored /\ Working BY DEF IInv
<1>2. work' = work BY Steady DEF given
<1>3. /\ pc \in [Threads -> {"none", "wait", "run", "alloc", "push", "post", "exited"}]
      /\ item \in [Threads -> 0 .. Len(work)] /\ exit \in [Threads -> BOOLEAN]
      /\ compressEvent \in [Threads -> BOOLEAN] /\ pass \in [Threads -> Nat]
      /\ real \in [Threads -> BOOLEAN] /\ unlocked \in [Threads -> BOOLEAN]
      /\ realEvent \in [Threads -> BOOLEAN]
  BY <1>1 DEF Types, ThreadTypes, RealTypes
<1>4. ASSUME UNCHANGED <<pc, exit, compressEvent, item, pass, real, realEvent, unlocked>>
      PROVE  Working'
  BY <1>1, <1>2, <1>4 DEF Working, Engaged, Sizes
<1>5. CASE \/ PassOver \/ FileGone \/ OpenFails \/ SkipItem \/ CopyItem \/ HeaderOfFinished
           \/ WriteBlocks \/ Replace \/ WriteCentralDir \/ FinalFlush
           \/ (\E t \in Threads : JoinThread(t)) \/ EndFinished \/ Lock \/ PopFailed \/ PopEarly
           \/ PopCurrent
  BY <1>4, <1>5, CallerFrame DEF threadVars, coderVars, realVars
<1>6. CASE CreateThreads
  <2>1. UNCHANGED <<exit, compressEvent, item, pass, real, realEvent, unlocked>>
    BY <1>6 DEF CreateThreads, coderVars, realVars
  <2>2. \A t \in Threads : ~compressEvent[t] /\ pc'[t] \in {"wait", "none"}
    BY <1>1, <1>6 DEF CreateThreads, Life
  <2>3. \A t \in Threads : ~Engaged(t)' BY <2>1, <2>2 DEF Engaged
  <2> QED BY <1>1, <2>1, <2>2, <2>3 DEF Working
<1>7. CASE StartFile
  <2>1. CASE UNCHANGED threadVars BY <1>4, <2>1 DEF threadVars, coderVars, realVars
  <2>2. ASSUME NEW t \in Threads, Starts(t) PROVE Working'
    <3>1. Active /\ mt \in DOMAIN work /\ work[mt].kind = "file"
      BY <1>1, <1>7, WorkFacts DEF StartFile, Ahead, Active, Types, CallerTypes
    <3>2. pc[t] \in {"wait", "post"} BY <1>1, <2>2, <3>1 DEF Starts, Life
    <3>3. /\ UNCHANGED <<pc, exit, pass>>
          /\ item' = [item EXCEPT ![t] = mt] /\ unlocked' = [unlocked EXCEPT ![t] = FALSE]
          /\ real' = [real EXCEPT ![t] = FALSE] /\ realEvent' = [realEvent EXCEPT ![t] = FALSE]
          /\ compressEvent' = [compressEvent EXCEPT ![t] = TRUE]
      BY <2>2 DEF Starts
    <3>4. \A u \in Threads : u # t => /\ Engaged(u)' <=> Engaged(u)
                                      /\ item'[u] = item[u] /\ unlocked'[u] = unlocked[u]
                                      /\ real'[u] = real[u] /\ realEvent'[u] = realEvent[u]
                                      /\ Sizes(u)' = Sizes(u)
      BY <1>2, <1>3, <3>3 DEF Engaged, Sizes
    <3>5. item'[t] = mt /\ ~unlocked'[t] /\ ~real'[t] /\ ~realEvent'[t] BY <1>3, <3>3
    <3>6. \A u \in Threads : Engaged(u)' => item'[u] \in DOMAIN work' /\ work'[item'[u]].kind = "file"
      BY <1>1, <1>2, <3>1, <3>4, <3>5 DEF Working
    <3>7. \A u \in Threads : pc'[u] \in {"run", "alloc"} => pass'[u] \in 1 .. Len(Sizes(u)')
      BY <1>1, <3>2, <3>3, <3>4 DEF Working
    <3>8. \A u \in Threads : real'[u] \/ realEvent'[u] => unlocked'[u]
      BY <1>1, <3>4, <3>5 DEF Working
    <3>9. \A u, v \in Threads : Engaged(u)' /\ unlocked'[u] /\ Engaged(v)' /\ unlocked'[v] => u = v
      BY <1>1, <3>4, <3>5 DEF Working
    <3> QED BY <3>6, <3>7, <3>8, <3>9 DEF Working
  <2> QED BY <1>7, <2>1, <2>2, StartedOrNot
<1>8. CASE Unlock
  <2>1. UNCHANGED <<pc, exit, compressEvent, item, pass, real>>
    BY <1>8, CallerFrame DEF coderVars, Unlock, realVars
  <2>2. CASE UNCHANGED realVars BY <1>4, <2>1, <2>2 DEF realVars
  <2>3. CASE /\ unlocked' = [unlocked EXCEPT ![order[1]] = TRUE]
             /\ \E b : realEvent' = [realEvent EXCEPT ![order[1]] = @ \/ b]
    <3>1. Active /\ cur < mt /\ Packing(cur) /\ mpc # "replace"
      BY <1>1, <1>8, Behind DEF Unlock, InTurn, Active, Packing
    <3>2. order[1] \in Threads /\ 1 \in DOMAIN order
      BY <1>1, <3>1, FirstIsCurrent DEF Types, CallerTypes
    <3>3. \A u \in Threads : u # order[1] => unlocked'[u] = unlocked[u] /\ realEvent'[u] = realEvent[u]
      BY <1>3, <2>3, <3>2
    <3>4. unlocked'[order[1]] BY <1>3, <2>3, <3>2
    <3>5. \A u \in Threads : (Engaged(u)' <=> Engaged(u)) /\ Sizes(u)' = Sizes(u)
      BY <1>2, <2>1 DEF Engaged, Sizes
    <3>6. \A u \in Threads : Engaged(u)' => item'[u] \in DOMAIN work' /\ work'[item'[u]].kind = "file"
      BY <1>1, <1>2, <2>1, <3>5 DEF Working
    <3>7. \A u \in Threads : pc'[u] \in {"run", "alloc"} => pass'[u] \in 1 .. Len(Sizes(u)')
      BY <1>1, <2>1, <3>5 DEF Working
    <3>8. \A u \in Threads : real'[u] \/ realEvent'[u] => unlocked'[u]
      BY <1>1, <2>1, <3>3, <3>4 DEF Working
    <3>9. \A u \in Threads : Engaged(u)' /\ unlocked'[u] => u = order[1]
      BY <1>1, <3>1, <3>3, <3>5, WriterIsFirst
    <3> QED BY <3>6, <3>7, <3>8, <3>9 DEF Working
  <2> QED BY <1>8, <2>2, <2>3 DEF Unlock, InFront
<1>9. CASE \E t \in Threads : StopThread(t)
  <2> SUFFICES ASSUME NEW t \in Threads, StopThread(t) PROVE Working' BY <1>9
  <2>1. /\ UNCHANGED <<pc, item, pass, real, realEvent, unlocked>>
        /\ exit' = [exit EXCEPT ![t] = TRUE] /\ compressEvent' = [compressEvent EXCEPT ![t] = TRUE]
    BY DEF StopThread
  <2>2. \A u \in Threads : (Engaged(u)' => Engaged(u)) /\ Sizes(u)' = Sizes(u)
    BY <1>2, <1>3, <2>1 DEF Engaged, Sizes
  <2> QED BY <1>1, <1>2, <2>1, <2>2 DEF Working
<1>10. CASE \E t \in Threads : Coder(t) \/ CodeFails(t)
  <2> SUFFICES ASSUME NEW t \in Threads, Coder(t) \/ CodeFails(t) PROVE Working' BY <1>10
  <2>1. UNCHANGED <<item, exit, unlocked>> BY ThreadFrame
  <2>2. \A u \in Threads : (Engaged(u)' => Engaged(u)) /\ Sizes(u)' = Sizes(u)
    BY <1>1, <1>2, <2>1, EngagedStep DEF Sizes
  <2>3. \A u \in Threads : pc'[u] \in {"run", "alloc"} => pass'[u] \in 1 .. Len(Sizes(u))
    <3>1. CASE Begins(t)
      <4>1. /\ pc[t] = "wait" /\ compressEvent[t] /\ pass' = [pass EXCEPT ![t] = 1]
            /\ pc' = [pc EXCEPT ![t] = IF exit[t] THEN "exited" ELSE "run"]
        BY <3>1 DEF Begins
      <4>2. ~exit[t] => Len(Sizes(t)) \in Nat /\ Len(Sizes(t)) >= 1
        <5>1. ~exit[t] => Engaged(t) BY <4>1 DEF Engaged
        <5>2. ~exit[t] => item[t] \in DOMAIN work /\ work[item[t]].kind = "file"
          BY <1>1, <5>1 DEF Working
        <5> QED BY <1>1, <5>2, ItemFacts DEF Types, Sizes
      <4> QED BY <1>1, <1>3, <4>1, <4>2 DEF Working
    <3>2. CASE Packs(t)
      <4>1. pc[t] \in {"run", "alloc"} /\ \A u \in Threads : u # t => pc'[u] = pc[u]
        BY <1>3, <3>2 DEF Packs
      <4>2. Len(Sizes(t)) \in Nat /\ pass[t] \in 1 .. Len(Sizes(t))
        BY <1>1, <4>1, SizeFacts DEF Types
      <4>3. CASE UNCHANGED pass BY <1>1, <4>1, <4>2, <4>3 DEF Working
      <4>4. CASE pass[t] < Len(Sizes(t)) /\ pass' = [pass EXCEPT ![t] = @ + 1]
        BY <1>1, <1>3, <4>1, <4>2, <4>4 DEF Working
      <4> QED BY <3>2, <4>3, <4>4 DEF Packs
    <3>3. CASE Push(t) \/ Post(t)
      <4>1. pass' = pass /\ \E p \in {"post", "wait"} : pc' = [pc EXCEPT ![t] = p]
        BY <3>3 DEF Push, Post, coderVars
      <4> QED BY <1>1, <1>3, <4>1 DEF Working
    <3> QED BY <1>1, <3>1, <3>2, <3>3, ThreadMoves DEF Reports
  <2>4. \A u \in Threads : real'[u] \/ realEvent'[u] => unlocked'[u]
    <3>1. CASE GoReal(t)
      <4>1. realEvent[t] /\ realEvent' = [realEvent EXCEPT ![t] = FALSE]
            /\ real' = [real EXCEPT ![t] = TRUE]
        BY <3>1 DEF GoReal
      <4> QED BY <1>1, <1>3, <2>1, <4>1 DEF Working
    <3>2. CASE ~GoReal(t)
      <4>1. UNCHANGED <<real, realEvent>>
        BY <3>2 DEF Coder, CodeFails, WaitCompress, Fill, StopWriting, TakeSemaphore, AllocateBlock,
           WriteReal, NextPass, Packed, Push, Post, realVars
      <4> QED BY <1>1, <2>1, <4>1 DEF Working
    <3> QED BY <3>1, <3>2
  <2> QED BY <1>1, <1>2, <2>1, <2>2, <2>3, <2>4 DEF Working
<1>11. CASE UNCHANGED vars
  BY <1>4, <1>11 DEF vars, threadVars, coderVars, realVars
<1> QED BY <1>5, <1>6, <1>7, <1>8, <1>9, <1>10, <1>11 DEF Next, Caller, Finished

-----------------------------------------------------------------------------
(* The blocks of memory *)

\* n pieces of an owner are n blocks.
LEMMA PiecesCount ==
  ASSUME NEW o, NEW n \in Nat
  PROVE  IsFiniteSet(Pieces(o, n)) /\ Cardinality(Pieces(o, n)) = n
<1>1. IsFiniteSet({o}) /\ Cardinality({o}) = 1 BY FS_Singleton
<1>2. IsFiniteSet(1 .. n) /\ Cardinality(1 .. n) = n BY FS_Interval
<1>3. IsFiniteSet({o} \X (1 .. n))
      /\ Cardinality({o} \X (1 .. n)) = Cardinality({o}) * Cardinality(1 .. n)
  BY <1>1, <1>2, FS_Product
<1>4. Cardinality({o}) * Cardinality(1 .. n) = n
  <2> HIDE DEF Pieces
  <2>1. Cardinality(1 .. n) = n BY <1>2
  <2>2. 1 * n = n OBVIOUS
  <2> QED BY <1>1, <2>1, <2>2, Zenon
<1> QED BY <1>3, <1>4, Zenon DEF Pieces

\* When one owner has n blocks instead of some of those that there are.
LEMMA Exchange ==
  ASSUME NEW U, IsFiniteSet(U), NEW o, NEW m \in Nat, NEW n \in Nat,
         Pieces(o, m) \subseteq U, \A x \in U : x \in {o} \X Nat => x \in Pieces(o, m),
         NEW V, V = (U \ Pieces(o, m)) \cup Pieces(o, n)
  PROVE  IsFiniteSet(V) /\ Cardinality(V) = Cardinality(U) - m + n
         /\ Cardinality(U) \in Nat /\ Cardinality(V) \in Nat
<1> DEFINE R == U \ Pieces(o, m)
<1>1. /\ IsFiniteSet(Pieces(o, m)) /\ Cardinality(Pieces(o, m)) = m
      /\ IsFiniteSet(Pieces(o, n)) /\ Cardinality(Pieces(o, n)) = n
  BY PiecesCount
<1>2. IsFiniteSet(R) BY FS_Subset
<1>3. R \cap Pieces(o, m) = {} /\ R \cup Pieces(o, m) = U OBVIOUS
<1>4. R \cap Pieces(o, n) = {} BY DEF Pieces
<1> HIDE DEF R
<1>5. Cardinality(U) = Cardinality(R) + m /\ Cardinality(R) \in Nat
  <2>1. Cardinality(R \cup Pieces(o, m))
          = Cardinality(R) + Cardinality(Pieces(o, m)) - Cardinality(R \cap Pieces(o, m))
    BY <1>1, <1>2, FS_Union
  <2>2. Cardinality(R \cap Pieces(o, m)) = 0 BY <1>3, FS_EmptySet
  <2>3. Cardinality(R) \in Nat BY <1>2, FS_CardinalityType
  <2> QED BY <1>1, <1>3, <2>1, <2>2, <2>3
<1>6. IsFiniteSet(V) /\ Cardinality(V) = Cardinality(R) + n
  <2>1. V = R \cup Pieces(o, n) BY DEF R
  <2>2. /\ IsFiniteSet(R \cup Pieces(o, n))
        /\ Cardinality(R \cup Pieces(o, n))
             = Cardinality(R) + Cardinality(Pieces(o, n)) - Cardinality(R \cap Pieces(o, n))
    BY <1>1, <1>2, FS_Union
  <2>3. Cardinality(R \cap Pieces(o, n)) = 0 BY <1>4, FS_EmptySet
  <2>4. Cardinality(R \cup Pieces(o, n)) = Cardinality(R) + n
    BY <1>1, <1>5, <2>2, <2>3
  <2> QED BY <2>1, <2>2, <2>4, Zenon
<1> QED BY <1>5, <1>6

\* The blocks of the threads, who have h, and of the items, who have b.
Taken(h, b) == UNION ({Pieces(<<"thread", t>>, h[t]) : t \in Threads}
                      \cup {Pieces(<<"item", i>>, b[i]) : i \in DOMAIN work})
Stock == [i \in DOMAIN work |-> refs[i].blocks]

\* The blocks in use, as a function of how many each owner has.
LEMMA InUseIsTaken == InUse = Taken(held, Stock)
<1>1. \A i \in DOMAIN work : Stock[i] = refs[i].blocks BY DEF Stock
<1> QED BY <1>1 DEF InUse, Taken

\* A thread that changes its number of blocks changes the number of blocks in use as much.
LEMMA ThreadTakes ==
  ASSUME NEW h \in [Threads -> Nat], NEW b \in [DOMAIN work -> Nat], NEW t \in Threads, NEW n \in Nat,
         IsFiniteSet(Taken(h, b))
  PROVE  /\ IsFiniteSet(Taken([h EXCEPT ![t] = n], b))
         /\ Cardinality(Taken([h EXCEPT ![t] = n], b)) = Cardinality(Taken(h, b)) - h[t] + n
         /\ Cardinality(Taken(h, b)) \in Nat /\ Cardinality(Taken([h EXCEPT ![t] = n], b)) \in Nat
<1> DEFINE o == <<"thread", t>>
           g == [h EXCEPT ![t] = n]
<1>1. h[t] \in Nat /\ g \in [Threads -> Nat] /\ g[t] = n /\ \A u \in Threads : u # t => g[u] = h[u]
  OBVIOUS
<1>2. Pieces(o, h[t]) \subseteq Taken(h, b) BY DEF Taken
<1>3. \A x \in Taken(h, b) : x \in {o} \X Nat => x \in Pieces(o, h[t]) BY DEF Taken, Pieces
<1>4. Taken(g, b) = (Taken(h, b) \ Pieces(o, h[t])) \cup Pieces(o, n)
  <2> HIDE DEF g
  <2>1. ASSUME NEW x \in Taken(g, b) PROVE x \in (Taken(h, b) \ Pieces(o, h[t])) \cup Pieces(o, n)
    <3>1. CASE \E u \in Threads : x \in Pieces(<<"thread", u>>, g[u])
      <4>1. PICK u \in Threads : x \in Pieces(<<"thread", u>>, g[u]) BY <3>1
      <4>2. CASE u = t BY <1>1, <4>1, <4>2
      <4>3. CASE u # t
        <5>1. x \in Pieces(<<"thread", u>>, h[u]) BY <1>1, <4>1, <4>3
        <5>2. x \in Taken(h, b) BY <5>1 DEF Taken
        <5>3. x \notin Pieces(o, h[t]) BY <4>3, <5>1 DEF Pieces
        <5> QED BY <5>2, <5>3
      <4> QED BY <4>2, <4>3
    <3>2. CASE \E i \in DOMAIN work : x \in Pieces(<<"item", i>>, b[i])
      <4>1. x \in Taken(h, b) BY <3>2 DEF Taken
      <4>2. x \notin Pieces(o, h[t]) BY <3>2 DEF Pieces
      <4> QED BY <4>1, <4>2
    <3> QED BY <3>1, <3>2 DEF Taken
  <2>2. ASSUME NEW x \in Taken(h, b), x \notin Pieces(o, h[t]) PROVE x \in Taken(g, b)
    <3>1. CASE \E u \in Threads : x \in Pieces(<<"thread", u>>, h[u])
      <4>1. PICK u \in Threads : x \in Pieces(<<"thread", u>>, h[u]) BY <3>1
      <4>2. u # t BY <2>2, <4>1
      <4> QED BY <1>1, <4>1, <4>2 DEF Taken
    <3>2. CASE \E i \in DOMAIN work : x \in Pieces(<<"item", i>>, b[i]) BY <3>2 DEF Taken
    <3> QED BY <3>1, <3>2 DEF Taken
  <2>3. Pieces(o, n) \subseteq Taken(g, b) BY <1>1 DEF Taken
  <2> QED BY <2>1, <2>2, <2>3
<1> HIDE DEF o, g
<1>5. /\ IsFiniteSet(Taken(g, b)) /\ Cardinality(Taken(g, b)) = Cardinality(Taken(h, b)) - h[t] + n
      /\ Cardinality(Taken(h, b)) \in Nat /\ Cardinality(Taken(g, b)) \in Nat
  BY <1>1, <1>2, <1>3, <1>4, Exchange
<1> QED BY <1>5 DEF g

\* So does an item.
LEMMA ItemTakes ==
  ASSUME NEW h \in [Threads -> Nat], NEW b \in [DOMAIN work -> Nat], NEW i \in DOMAIN work,
         NEW n \in Nat, IsFiniteSet(Taken(h, b))
  PROVE  /\ IsFiniteSet(Taken(h, [b EXCEPT ![i] = n]))
         /\ Cardinality(Taken(h, [b EXCEPT ![i] = n])) = Cardinality(Taken(h, b)) - b[i] + n
         /\ Cardinality(Taken(h, b)) \in Nat /\ Cardinality(Taken(h, [b EXCEPT ![i] = n])) \in Nat
<1> DEFINE o == <<"item", i>>
           g == [b EXCEPT ![i] = n]
<1>1. b[i] \in Nat /\ g \in [DOMAIN work -> Nat] /\ g[i] = n
      /\ \A u \in DOMAIN work : u # i => g[u] = b[u]
  OBVIOUS
<1>2. Pieces(o, b[i]) \subseteq Taken(h, b) BY DEF Taken
<1>3. \A x \in Taken(h, b) : x \in {o} \X Nat => x \in Pieces(o, b[i]) BY DEF Taken, Pieces
<1>4. Taken(h, g) = (Taken(h, b) \ Pieces(o, b[i])) \cup Pieces(o, n)
  <2> HIDE DEF g
  <2>1. ASSUME NEW x \in Taken(h, g) PROVE x \in (Taken(h, b) \ Pieces(o, b[i])) \cup Pieces(o, n)
    <3>1. CASE \E u \in DOMAIN work : x \in Pieces(<<"item", u>>, g[u])
      <4>1. PICK u \in DOMAIN work : x \in Pieces(<<"item", u>>, g[u]) BY <3>1
      <4>2. CASE u = i BY <1>1, <4>1, <4>2
      <4>3. CASE u # i
        <5>1. x \in Pieces(<<"item", u>>, b[u]) BY <1>1, <4>1, <4>3
        <5>2. x \in Taken(h, b) BY <5>1 DEF Taken
        <5>3. x \notin Pieces(o, b[i]) BY <4>3, <5>1 DEF Pieces
        <5> QED BY <5>2, <5>3
      <4> QED BY <4>2, <4>3
    <3>2. CASE \E t \in Threads : x \in Pieces(<<"thread", t>>, h[t])
      <4>1. x \in Taken(h, b) BY <3>2 DEF Taken
      <4>2. x \notin Pieces(o, b[i]) BY <3>2 DEF Pieces
      <4> QED BY <4>1, <4>2
    <3> QED BY <3>1, <3>2 DEF Taken
  <2>2. ASSUME NEW x \in Taken(h, b), x \notin Pieces(o, b[i]) PROVE x \in Taken(h, g)
    <3>1. CASE \E u \in DOMAIN work : x \in Pieces(<<"item", u>>, b[u])
      <4>1. PICK u \in DOMAIN work : x \in Pieces(<<"item", u>>, b[u]) BY <3>1
      <4>2. u # i BY <2>2, <4>1
      <4> QED BY <1>1, <4>1, <4>2 DEF Taken
    <3>2. CASE \E t \in Threads : x \in Pieces(<<"thread", t>>, h[t]) BY <3>2 DEF Taken
    <3> QED BY <3>1, <3>2 DEF Taken
  <2>3. Pieces(o, n) \subseteq Taken(h, g) BY <1>1 DEF Taken
  <2> QED BY <2>1, <2>2, <2>3
<1> HIDE DEF o, g
<1>5. /\ IsFiniteSet(Taken(h, g)) /\ Cardinality(Taken(h, g)) = Cardinality(Taken(h, b)) - b[i] + n
      /\ Cardinality(Taken(h, b)) \in Nat /\ Cardinality(Taken(h, g)) \in Nat
  BY <1>1, <1>2, <1>3, <1>4, Exchange
<1> QED BY <1>5 DEF g

\* InUse after a step.
LEMMA InUseAfter == ASSUME work' = work PROVE InUse' = Taken(held', Stock')
<1>1. \A i \in DOMAIN work : Stock'[i] = refs'[i].blocks BY DEF Stock
<1> QED BY <1>1 DEF InUse, Taken

\* What the threads and the items have are numbers of blocks.
LEMMA StockTypes ==
  ASSUME Types PROVE held \in [Threads -> Nat] /\ Stock \in [DOMAIN work -> Nat] /\ free \in Nat
BY DEF Types, MemTypes, RefTypes, Stock

\* Where only a thread's number of blocks changes, by as many as the free ones do.
LEMMA ThreadAccounts ==
  ASSUME Types, Accounted, work' = work, pool' = pool, Stock' = Stock,
         NEW t \in Threads, NEW n \in Nat,
         held' = [held EXCEPT ![t] = n], free' = free + held[t] - n
  PROVE  Accounted'
<1>1. IsFiniteSet(Taken(held, Stock)) /\ free + Cardinality(Taken(held, Stock)) = pool
  BY InUseIsTaken DEF Accounted
<1>2. held[t] \in Nat /\ free \in Nat BY StockTypes
<1>3. /\ IsFiniteSet(Taken(held', Stock))
      /\ Cardinality(Taken(held', Stock)) = Cardinality(Taken(held, Stock)) - held[t] + n
      /\ Cardinality(Taken(held, Stock)) \in Nat
  BY <1>1, StockTypes, ThreadTakes
<1>4. InUse' = Taken(held', Stock) BY InUseAfter
<1>5. free' + Cardinality(Taken(held', Stock)) = pool'
  BY <1>1, <1>2, <1>3
<1> QED BY <1>3, <1>4, <1>5 DEF Accounted

\* Where only an item's number changes.
LEMMA ItemAccounts ==
  ASSUME Types, Accounted, work' = work, pool' = pool, held' = held,
         NEW i \in DOMAIN work, NEW n \in Nat,
         Stock' = [Stock EXCEPT ![i] = n], free' = free + Stock[i] - n
  PROVE  Accounted'
<1>1. IsFiniteSet(Taken(held, Stock)) /\ free + Cardinality(Taken(held, Stock)) = pool
  BY InUseIsTaken DEF Accounted
<1>2. Stock[i] \in Nat /\ free \in Nat BY StockTypes
<1>3. /\ IsFiniteSet(Taken(held, Stock'))
      /\ Cardinality(Taken(held, Stock')) = Cardinality(Taken(held, Stock)) - Stock[i] + n
      /\ Cardinality(Taken(held, Stock)) \in Nat
  BY <1>1, StockTypes, ItemTakes
<1>4. InUse' = Taken(held, Stock') BY InUseAfter
<1>5. free' + Cardinality(Taken(held, Stock')) = pool'
  BY <1>1, <1>2, <1>3
<1> QED BY <1>3, <1>4, <1>5 DEF Accounted

\* Where the data of a thread goes to an item that had none.
LEMMA Handed ==
  ASSUME Types, Accounted, work' = work, pool' = pool, NEW t \in Threads, NEW i \in DOMAIN work,
         NEW n \in Nat, Stock[i] = 0, held' = [held EXCEPT ![t] = 0],
         Stock' = [Stock EXCEPT ![i] = n], free' = free + (held[t] - n)
  PROVE  Accounted'
<1>1. IsFiniteSet(Taken(held, Stock)) /\ free + Cardinality(Taken(held, Stock)) = pool
  BY InUseIsTaken DEF Accounted
<1>2. held[t] \in Nat /\ free \in Nat /\ held' \in [Threads -> Nat] BY StockTypes
<1>3. /\ IsFiniteSet(Taken(held', Stock))
      /\ Cardinality(Taken(held', Stock)) = Cardinality(Taken(held, Stock)) - held[t] + 0
      /\ Cardinality(Taken(held, Stock)) \in Nat
  BY <1>1, StockTypes, ThreadTakes
<1>4. /\ IsFiniteSet(Taken(held', Stock'))
      /\ Cardinality(Taken(held', Stock')) = Cardinality(Taken(held', Stock)) - Stock[i] + n
  <2>1. IsFiniteSet(Taken(held', Stock)) BY <1>3
  <2>2. Stock \in [DOMAIN work -> Nat] BY StockTypes
  <2>3. /\ IsFiniteSet(Taken(held', [Stock EXCEPT ![i] = n]))
        /\ Cardinality(Taken(held', [Stock EXCEPT ![i] = n]))
             = Cardinality(Taken(held', Stock)) - Stock[i] + n
    <3>1. ASSUME NEW h \in [Threads -> Nat], IsFiniteSet(Taken(h, Stock))
          PROVE  /\ IsFiniteSet(Taken(h, [Stock EXCEPT ![i] = n]))
                 /\ Cardinality(Taken(h, [Stock EXCEPT ![i] = n]))
                      = Cardinality(Taken(h, Stock)) - Stock[i] + n
      BY <2>2, <3>1, ItemTakes
    <3> QED BY <1>2, <2>1, <3>1
  <2> QED BY <2>3
<1>5. InUse' = Taken(held', Stock') BY InUseAfter
<1>6. free' + Cardinality(Taken(held', Stock')) = pool'
  BY <1>1, <1>2, <1>3, <1>4
<1> QED BY <1>4, <1>5, <1>6 DEF Accounted

\* No step loses a block or gives it twice.
LEMMA AccountedStep == ASSUME IInv, [Next]_vars PROVE Accounted'
<1>1. Types /\ Life /\ Turn /\ Stored /\ Accounted /\ Roomy BY DEF IInv, Memory
<1>2. work' = work /\ pool' = pool BY Steady DEF given
<1>3. ASSUME UNCHANGED <<held, free, refs>> PROVE Accounted'
  <2>1. Stock' = Stock BY <1>2, <1>3 DEF Stock
  <2> QED BY <1>1, <1>2, <1>3, <2>1, InUseAfter, InUseIsTaken DEF Accounted
<1>4. ASSUME NEW t \in Threads, Emptied(t), Stock' = Stock PROVE Accounted'
  <2>1. held' = [held EXCEPT ![t] = 0] /\ free' = free + held[t] BY <1>4 DEF Emptied
  <2>2. held[t] \in Nat /\ free \in Nat BY <1>1, StockTypes
  <2>3. free' = free + held[t] - 0 BY <2>1, <2>2
  <2> QED BY <1>1, <1>2, <1>4, <2>1, <2>3, ThreadAccounts
<1>5. ASSUME UNCHANGED refs PROVE Stock' = Stock BY <1>2, <1>5 DEF Stock
<1>6. CASE \/ PassOver \/ FileGone \/ OpenFails \/ SkipItem \/ CopyItem \/ HeaderOfFinished
           \/ WriteBlocks \/ Replace \/ WriteCentralDir \/ FinalFlush \/ CreateThreads \/ Unlock
           \/ Lock \/ PopFailed \/ (\E t \in Threads : StopThread(t) \/ JoinThread(t))
  BY <1>3, <1>6 DEF PassOver, FileGone, OpenFails, SkipItem, CopyItem, HeaderOfFinished, WriteBlocks,
     Replace, WriteCentralDir, FinalFlush, CreateThreads, Unlock, Lock, PopFailed, StopThread,
     JoinThread, callerVars, threadVars, memVars
<1>7. CASE StartFile
  <2>1. refs' = refs BY <1>7 DEF StartFile
  <2>2. CASE UNCHANGED threadVars BY <1>3, <2>1, <2>2 DEF threadVars, memVars
  <2>3. ASSUME NEW t \in Threads, Starts(t) PROVE Accounted'
    <3>1. held' = [held EXCEPT ![t] = 0] /\ free' = free + held[t] BY <2>3 DEF Starts
    <3>2. held[t] \in Nat /\ free \in Nat BY <1>1, StockTypes
    <3>3. free' = free + held[t] - 0 BY <3>1, <3>2
    <3> QED BY <1>1, <1>2, <1>5, <2>1, <3>1, <3>3, ThreadAccounts
  <2> QED BY <1>7, <2>2, <2>3, StartedOrNot
<1>8. CASE EndFinished
  <2>1. held' = held BY <1>8 DEF EndFinished
  <2>2. CASE UNCHANGED <<free, refs>> BY <1>3, <2>1, <2>2
  <2>3. CASE /\ free' = free + refs[cur].blocks
             /\ refs' = [refs EXCEPT ![cur].data = <<>>, ![cur].blocks = 0]
    <3>1. cur \in DOMAIN work
      BY <1>1, <1>8, WorkFacts DEF EndFinished, Active, Turn, Bounds, Types, CallerTypes
    <3>2. Stock' = [Stock EXCEPT ![cur] = 0]
      BY <1>1, <1>2, <2>3, <3>1 DEF Stock, Types, RefTypes, NoRef
    <3>3. free' = free + Stock[cur] - 0
      <4>1. Stock[cur] = refs[cur].blocks BY <3>1 DEF Stock
      <4>2. Stock[cur] \in Nat /\ free \in Nat BY <1>1, <3>1, StockTypes
      <4> QED BY <2>3, <4>1, <4>2
    <3> QED BY <1>1, <1>2, <2>1, <3>1, <3>2, <3>3, ItemAccounts
  <2> QED BY <1>8, <2>2, <2>3 DEF EndFinished
<1>9. CASE PopEarly
  <2> DEFINE t == Popped
             i == item[t]
             n == Blocks(Len(mem[t]))
  <2>1. t \in Threads BY <1>1, <1>9, PoppedFacts DEF PopEarly, Types
  <2>2. CASE UNCHANGED <<refs, memVars>> BY <1>3, <2>2 DEF memVars
  <2>3. CASE /\ t \in Range(order)
             /\ refs' = [refs EXCEPT ![i] = [finished |-> TRUE, data |-> mem[t],
                                             blocks |-> n, pack |-> pack[t]]]
             /\ free' = free + Excess(t, n) /\ held' = [held EXCEPT ![t] = 0]
    <3>1. n \in Nat
      <4>1. Len(mem[t]) \in Nat /\ held[t] \in Nat /\ Len(mem[t]) <= held[t] * BlockSize
        BY <1>1, <2>1 DEF Types, MemTypes, Roomy
      <4> QED BY <4>1, BlocksFit
    <3>2. PICK k \in DOMAIN order : order[k] = t BY <2>3 DEF Range
    <3>3. Active BY <1>9 DEF PopEarly, Active
    <3>4. i \in DOMAIN work /\ Packing(i)
      <4>1. i \in Low .. mt - 1 /\ Packing(i) BY <1>1, <3>2, <3>3 DEF Turn, Inside
      <4>2. i \in 1 .. Len(work)
        <5>1. i \in 0 .. Len(work) /\ cur \in Nat \ {0} /\ mt \in Nat
          BY <1>1, <2>1, WorkFacts DEF Types, ThreadTypes, CallerTypes
        <5>2. Low \in Nat \ {0} BY <5>1 DEF Low
        <5> HIDE DEF i
        <5> QED BY <4>1, <5>1, <5>2
      <4> QED BY <1>1, <4>1, <4>2, WorkFacts DEF Types
    <3>5. Stock[i] = 0 BY <1>1, <3>4 DEF Stock, Stored, Packing
    <3>6. Stock' = [Stock EXCEPT ![i] = n]
      BY <1>1, <1>2, <2>3, <3>4 DEF Stock, Types, RefTypes
    <3> HIDE DEF n, t, i
    <3> QED BY <1>1, <1>2, <2>1, <2>3, <3>1, <3>4, <3>5, <3>6, Handed DEF Excess
  <2> QED BY <1>9, <2>2, <2>3 DEF PopEarly
<1>10. CASE PopCurrent
  <2>1. Popped \in Threads BY <1>1, <1>10, PoppedFacts DEF PopCurrent, Types
  <2>2. Stock' = Stock
    <3>1. refs' = [refs EXCEPT ![cur].pack = pack[Popped]] BY <1>10 DEF PopCurrent
    <3>2. \A i \in DOMAIN work : refs'[i].blocks = refs[i].blocks
      BY <1>1, <3>1 DEF Types, RefTypes, NoRef
    <3> QED BY <1>2, <3>2 DEF Stock
  <2>3. CASE Emptied(Popped) BY <1>4, <2>1, <2>2, <2>3
  <2>4. CASE UNCHANGED memVars
    BY <1>1, <1>2, <2>2, <2>4, InUseAfter, InUseIsTaken DEF Accounted, memVars
  <2> QED BY <1>10, <2>3, <2>4 DEF PopCurrent
<1>11. CASE \E t \in Threads : Coder(t) \/ CodeFails(t)
  <2> SUFFICES ASSUME NEW t \in Threads, Coder(t) \/ CodeFails(t) PROVE Accounted' BY <1>11
  <2>1. refs' = refs BY ThreadFrame DEF callerVars
  <2>2. CASE GoReal(t)
    <3>1. CASE Emptied(t) BY <1>4, <1>5, <2>1, <3>1
    <3>2. CASE UNCHANGED memVars BY <1>3, <2>1, <3>2 DEF memVars
    <3> QED BY <2>2, <3>1, <3>2 DEF GoReal
  <2>3. CASE AllocateBlock(t)
    <3>1. CASE UNCHANGED <<free, held>> BY <1>3, <2>1, <3>1
    <3>2. CASE free' = free - 1 /\ held' = [held EXCEPT ![t] = @ + 1]
      <4>1. held[t] \in Nat /\ free \in Nat BY <1>1, StockTypes
      <4>2. held' = [held EXCEPT ![t] = held[t] + 1] /\ free' = free + held[t] - (held[t] + 1)
        BY <3>2, <4>1
      <4>3. held[t] + 1 \in Nat /\ Stock' = Stock BY <1>5, <2>1, <4>1
      <4>4. ASSUME NEW n \in Nat, held' = [held EXCEPT ![t] = n], free' = free + held[t] - n
            PROVE Accounted'
        BY <1>1, <1>2, <4>3, <4>4, ThreadAccounts
      <4> QED BY <4>2, <4>3, <4>4
    <3> QED BY <2>3, <3>1, <3>2 DEF AllocateBlock
  <2>4. CASE ~GoReal(t) /\ ~AllocateBlock(t)
    <3>1. UNCHANGED <<held, free>>
      BY <2>4 DEF Coder, CodeFails, WaitCompress, Fill, StopWriting, TakeSemaphore, WriteReal,
         NextPass, Packed, Push, Post, memVars
    <3> QED BY <1>3, <2>1, <3>1
  <2> QED BY <2>2, <2>3, <2>4
<1>12. CASE UNCHANGED vars BY <1>3, <1>12 DEF vars, callerVars, threadVars, memVars
<1> QED BY <1>6, <1>7, <1>8, <1>9, <1>10, <1>11, <1>12 DEF Next, Caller, Finished

\* The number of threads that have been promised a block changes with a thread's place.
LEMMA AllocatingCount ==
  ASSUME ThreadTypes, NEW t \in Threads, NEW q, pc' = [pc EXCEPT ![t] = q]
  PROVE  /\ Cardinality(Allocating) \in Nat
         /\ q # "alloc" /\ pc[t] # "alloc" => Cardinality(Allocating)' = Cardinality(Allocating)
         /\ q = "alloc" /\ pc[t] # "alloc" => Cardinality(Allocating)' = Cardinality(Allocating) + 1
         /\ q # "alloc" /\ pc[t] = "alloc" => Cardinality(Allocating)' = Cardinality(Allocating) - 1
<1>1. Allocating = AtPlace("alloc") /\ Allocating' = AtPlace("alloc")' BY DEF Allocating, AtPlace
<1>2. Cardinality(AtPlace("alloc")) \in Nat
      /\ Cardinality(AtPlace("alloc"))' = Cardinality(AtPlace("alloc"))
                                           + (IF q = "alloc" THEN 1 ELSE 0)
                                           - (IF pc[t] = "alloc" THEN 1 ELSE 0)
  BY PlaceCount
<1> QED BY <1>1, <1>2

\* Whoever has got the semaphore finds a free block: the semaphore and the threads that have
\* got it count the free blocks.
LEMMA BlockIsThere ==
  ASSUME ThreadTypes, MemTypes, Promised, NEW t \in Threads, pc[t] = "alloc"
  PROVE  free # 0
<1>1. IsFiniteSet(Allocating) BY FiniteThreads, FS_Subset DEF Allocating
<1>2. Allocating # {} BY DEF Allocating
<1>3. Cardinality(Allocating) \in Nat /\ Cardinality(Allocating) # 0
  BY <1>1, <1>2, FS_CardinalityType, FS_EmptySet
<1> QED BY <1>3 DEF Promised, MemTypes

\* Every step keeps the semaphore equal to the free blocks that nobody has been promised.
LEMMA PromisedStep == ASSUME IInv, [Next]_vars PROVE Promised'
<1>1. Types /\ ThreadTypes /\ MemTypes /\ Life /\ Turn /\ Stored /\ Working /\ Promised
  BY DEF IInv, Memory, Types
<1>2. free \in Nat /\ sem \in Nat BY <1>1 DEF MemTypes
<1>3. Cardinality(Allocating) \in Nat
  BY FiniteThreads, FS_Subset, FS_CardinalityType DEF Allocating
<1>4. ASSUME Allocating' = Allocating, UNCHANGED <<free, sem>> PROVE Promised'
  BY <1>1, <1>4 DEF Promised
<1>5. ASSUME Allocating' = Allocating, NEW d \in Int, free' = free + d, sem' = sem + d
      PROVE  Promised'
  BY <1>1, <1>2, <1>3, <1>5 DEF Promised
<1>6. ASSUME pc' = pc PROVE Allocating' = Allocating BY <1>6 DEF Allocating
<1>7. \A t \in Threads : held[t] \in Nat BY <1>1 DEF MemTypes
<1>8. CASE \/ PassOver \/ FileGone \/ OpenFails \/ SkipItem \/ CopyItem \/ HeaderOfFinished
           \/ WriteBlocks \/ Replace \/ WriteCentralDir \/ FinalFlush \/ Unlock
           \/ Lock \/ PopFailed \/ (\E t \in Threads : StopThread(t) \/ JoinThread(t))
  BY <1>4, <1>6, <1>8, CallerFrame DEF threadVars, memVars, StopThread
<1>9. CASE CreateThreads
  <2>1. Allocating = {} /\ Allocating' = {} BY <1>1, <1>9 DEF CreateThreads, Allocating, Life
  <2> QED BY <1>4, <1>9, <2>1 DEF CreateThreads, memVars
<1>10. CASE StartFile
  <2>1. CASE UNCHANGED threadVars BY <1>4, <1>6, <2>1 DEF threadVars, memVars
  <2>2. ASSUME NEW t \in Threads, Starts(t) PROVE Promised'
    <3>1. free' = free + held[t] /\ sem' = sem + held[t] /\ pc' = pc BY <2>2 DEF Starts
    <3> QED BY <1>5, <1>6, <1>7, <3>1
  <2> QED BY <1>10, <2>1, <2>2, StartedOrNot
<1>11. CASE EndFinished
  <2>1. pc' = pc BY <1>11, CallerFrame
  <2>2. CASE UNCHANGED <<free, sem>> BY <1>4, <1>6, <2>1, <2>2
  <2>3. CASE free' = free + refs[cur].blocks /\ sem' = sem + refs[cur].blocks
    <3>1. cur \in DOMAIN work
      BY <1>1, <1>11, WorkFacts DEF EndFinished, Active, Turn, Bounds, Types, CallerTypes
    <3>2. refs[cur].blocks \in Nat BY <1>1, <3>1 DEF Types, RefTypes
    <3> QED BY <1>5, <1>6, <2>1, <2>3, <3>2
  <2> QED BY <1>11, <2>2, <2>3 DEF EndFinished
<1>12. CASE PopEarly
  <2> DEFINE n == Blocks(Len(mem[Popped]))
  <2>1. pc' = pc BY <1>12, CallerFrame
  <2>2. CASE UNCHANGED memVars BY <1>4, <1>6, <2>1, <2>2 DEF memVars
  <2>3. CASE free' = free + Excess(Popped, n) /\ sem' = sem + Excess(Popped, n)
    <3>1. Popped \in Threads BY <1>1, <1>12, PoppedFacts DEF PopEarly
    <3>2. Len(mem[Popped]) \in Nat BY <1>1, <3>1 DEF MemTypes
    <3>3. n \in Int BY <3>2, ConstantsAssumption DEF Blocks
    <3> HIDE DEF n
    <3>4. Excess(Popped, n) \in Int BY <1>7, <3>1, <3>3 DEF Excess
    <3> QED BY <1>5, <1>6, <2>1, <2>3, <3>4
  <2> QED BY <1>12, <2>2, <2>3 DEF PopEarly
<1>13. CASE PopCurrent
  <2>1. pc' = pc BY <1>13, CallerFrame
  <2>2. Popped \in Threads BY <1>1, <1>13, PoppedFacts DEF PopCurrent
  <2>3. CASE UNCHANGED memVars BY <1>4, <1>6, <2>1, <2>3 DEF memVars
  <2>4. CASE Emptied(Popped) BY <1>5, <1>6, <1>7, <2>1, <2>2, <2>4 DEF Emptied
  <2> QED BY <1>13, <2>3, <2>4 DEF PopCurrent
<1>14. CASE \E t \in Threads : Coder(t) \/ CodeFails(t)
  <2> SUFFICES ASSUME NEW t \in Threads, Coder(t) \/ CodeFails(t) PROVE Promised' BY <1>14
  <2>1. CASE TakeSemaphore(t)
    <3>1. pc[t] = "run" /\ pc' = [pc EXCEPT ![t] = "alloc"] /\ sem' = sem - 1 /\ free' = free
      BY <2>1 DEF TakeSemaphore, Waits
    <3>2. Cardinality(Allocating)' = Cardinality(Allocating) + 1 BY <1>1, <3>1, AllocatingCount
    <3> QED BY <1>1, <1>2, <1>3, <3>1, <3>2 DEF Promised
  <2>2. CASE AllocateBlock(t)
    <3>1. pc[t] = "alloc" /\ pc' = [pc EXCEPT ![t] = "run"] /\ sem' = sem /\ free' = free - 1
      BY <1>1, <2>2, BlockIsThere DEF AllocateBlock
    <3>2. Cardinality(Allocating)' = Cardinality(Allocating) - 1
      <4>1. "run" # "alloc" OBVIOUS
      <4> QED BY <1>1, <3>1, <4>1, AllocatingCount
    <3> QED BY <1>1, <1>2, <1>3, <3>1, <3>2 DEF Promised
  <2>3. CASE GoReal(t)
    <3>1. pc[t] = "run" BY <2>3 DEF GoReal, Waits
    <3>2. CASE pc' = pc /\ Emptied(t) BY <1>5, <1>6, <1>7, <3>2 DEF Emptied
    <3>3. CASE UNCHANGED memVars /\ pc' = [pc EXCEPT ![t] = "push"]
      <4>1. Allocating' = Allocating BY <1>1, <3>1, <3>3 DEF Allocating, ThreadTypes
      <4> QED BY <1>4, <3>3, <4>1 DEF memVars
    <3> QED BY <2>3, <3>2, <3>3 DEF GoReal, Returns
  <2>4. CASE ~TakeSemaphore(t) /\ ~AllocateBlock(t) /\ ~GoReal(t)
    <3>1. UNCHANGED <<free, sem>>
      BY <2>4 DEF Coder, CodeFails, WaitCompress, Fill, StopWriting, WriteReal, NextPass, Packed,
         Push, Post, memVars
    <3>2. pc[t] # "alloc" /\ (pc' = pc \/ \E q : q # "alloc" /\ pc' = [pc EXCEPT ![t] = q])
      BY <2>4 DEF Coder, CodeFails, WaitCompress, Fill, StopWriting, Waits, WriteReal, NextPass,
         Packed, Push, Post, Returns
    <3>3. Allocating' = Allocating BY <1>1, <3>2 DEF Allocating, ThreadTypes
    <3> QED BY <1>4, <3>1, <3>3
  <2> QED BY <2>1, <2>2, <2>3, <2>4
<1>15. CASE UNCHANGED vars BY <1>4, <1>6, <1>15 DEF vars, threadVars, memVars
<1> QED BY <1>8, <1>9, <1>10, <1>11, <1>12, <1>13, <1>14, <1>15 DEF Next, Caller, Finished

\* A thread that the caller takes holds nothing.
LEMMA GivenBackStep == ASSUME IInv, [Next]_vars PROVE GivenBack'
<1>1. Types /\ ThreadTypes /\ MemTypes /\ Life /\ GivenBack BY DEF IInv, Memory, Types
<1>2. held \in [Threads -> Nat] /\ isFree \in [Threads -> BOOLEAN]
  BY <1>1 DEF MemTypes, ThreadTypes
<1>3. ASSUME Active' \/ mpc' = "create" => Active \/ mpc = "create", UNCHANGED <<isFree, held>>
      PROVE  GivenBack'
  BY <1>1, <1>3 DEF GivenBack
<1>4. ASSUME NEW t \in Threads, Active \/ mpc = "create", held' = [held EXCEPT ![t] = 0],
             \A u \in Threads : u # t => isFree'[u] = isFree[u]
      PROVE  GivenBack'
  BY <1>1, <1>2, <1>4 DEF GivenBack
<1>5. ASSUME mpc' = "stop" PROVE GivenBack' BY <1>5 DEF GivenBack, Active
<1>6. CASE \/ PassOver \/ FileGone \/ OpenFails \/ SkipItem \/ CopyItem \/ HeaderOfFinished
           \/ WriteBlocks \/ EndFinished \/ Replace \/ WriteCentralDir \/ FinalFlush \/ Unlock
           \/ Lock \/ CreateThreads \/ (\E t \in Threads : StopThread(t) \/ JoinThread(t))
  <2>1. UNCHANGED <<isFree, held>>
    BY <1>6, CallerFrame DEF threadVars, memVars, coderVars, StopThread
  <2>2. Active' \/ mpc' = "create" => Active \/ mpc = "create"
    BY <1>6 DEF PassOver, FileGone, OpenFails, SkipItem, CopyItem, HeaderOfFinished, WriteBlocks,
       EndFinished, Replace, WriteCentralDir, FinalFlush, Unlock, Lock, CreateThreads, StopThread,
       JoinThread, Active, Leave, Ahead, InTurn
  <2> QED BY <1>3, <2>1, <2>2
<1>7. CASE StartFile
  <2>1. mpc = "loop" BY <1>7 DEF StartFile, Ahead
  <2>2. CASE mpc' = "stop" BY <1>5, <2>2
  <2>3. ASSUME NEW t \in Threads, Starts(t) PROVE GivenBack'
    <3>1. held' = [held EXCEPT ![t] = 0] /\ isFree' = [isFree EXCEPT ![t] = FALSE]
      BY <2>3 DEF Starts
    <3> QED BY <1>2, <1>4, <2>1, <3>1 DEF Active
  <2> QED BY <1>7, <2>2, <2>3, StartedOrNot
<1>8. CASE PopFailed BY <1>5, <1>8 DEF PopFailed, Leave
<1>9. CASE PopEarly \/ PopCurrent
  <2>1. Popped \in Threads /\ mpc = "pop" /\ isFree' = [isFree EXCEPT ![Popped] = TRUE]
    BY <1>1, <1>9, PoppedFacts DEF PopEarly, PopCurrent, PopFree
  <2>2. mpc' = "stop" \/ held' = [held EXCEPT ![Popped] = 0]
    BY <1>9 DEF PopEarly, PopCurrent, Leave, Emptied
  <2> QED BY <1>2, <1>4, <1>5, <2>1, <2>2 DEF Active
<1>10. CASE \E t \in Threads : Coder(t) \/ CodeFails(t)
  <2> SUFFICES ASSUME NEW t \in Threads, Coder(t) \/ CodeFails(t) PROVE GivenBack' BY <1>10
  <2>1. UNCHANGED <<isFree, mpc>> BY ThreadFrame
  <2>2. Active' <=> Active BY <2>1 DEF Active
  <2>3. CASE GoReal(t) /\ Emptied(t)
    <3>1. held' = [held EXCEPT ![t] = 0] BY <2>3 DEF Emptied
    <3> QED BY <1>3, <1>4, <2>1, <2>2, <3>1 DEF GivenBack
  <2>4. CASE AllocateBlock(t) /\ held' = [held EXCEPT ![t] = @ + 1]
    <3>1. pc[t] = "alloc" BY <2>4 DEF AllocateBlock
    <3>2. Active \/ mpc = "create" => ~isFree[t] BY <1>1, <3>1 DEF Life
    <3>3. \A u \in Threads : u # t => held'[u] = held[u] BY <1>2, <2>4
    <3> QED BY <1>1, <2>1, <2>2, <3>2, <3>3 DEF GivenBack
  <2>5. CASE held' = held BY <1>3, <2>1, <2>2, <2>5
  <2> QED BY <2>3, <2>4, <2>5 DEF Coder, CodeFails, WaitCompress, Fill, StopWriting, GoReal,
       TakeSemaphore, AllocateBlock, WriteReal, NextPass, Packed, Push, Post, memVars
<1>11. CASE UNCHANGED vars
  BY <1>3, <1>11 DEF vars, threadVars, coderVars, memVars, Active
<1> QED BY <1>6, <1>7, <1>8, <1>9, <1>10, <1>11 DEF Next, Caller, Finished

\* A stream never holds more data than its blocks have room for.
LEMMA RoomyStep == ASSUME IInv, [Next]_vars PROVE Roomy'
<1>1. Types /\ ThreadTypes /\ CallerTypes /\ MemTypes /\ RealTypes /\ Life /\ Working /\ Roomy
  BY DEF IInv, Memory, Types
<1>2. /\ held \in [Threads -> Nat] /\ mem \in [Threads -> Seq(Cells)] /\ at \in [Threads -> Nat]
      /\ real \in [Threads -> BOOLEAN]
  BY <1>1 DEF MemTypes, RealTypes
<1>3. ASSUME UNCHANGED <<mem, held, at>>,
             \A t \in Threads : Engaged(t)' /\ ~real'[t] => Engaged(t) /\ ~real[t]
      PROVE  Roomy'
  BY <1>1, <1>3 DEF Roomy
<1>4. ASSUME NEW t \in Threads,
             \A u \in Threads : u # t => /\ mem'[u] = mem[u] /\ held'[u] = held[u] /\ at'[u] = at[u]
                                         /\ Engaged(u)' /\ ~real'[u] => Engaged(u) /\ ~real[u],
             Len(mem'[t]) <= held'[t] * BlockSize,
             Engaged(t)' /\ ~real'[t] => at'[t] <= held'[t] * BlockSize
      PROVE  Roomy'
  BY <1>1, <1>4 DEF Roomy
<1>5. \A t \in Threads : InDone(t) => ~Engaged(t) BY <1>1 DEF Life, Engaged
<1>6. Len(<<>>) = 0 /\ 0 * BlockSize = 0 BY ConstantsAssumption
<1>7. ASSUME NEW t \in Threads, Emptied(t), UNCHANGED <<pc, compressEvent, exit>>,
             \A u \in Threads : u # t => real'[u] = real[u], Engaged(t) => real'[t]
      PROVE  Roomy'
  <2>1. \A u \in Threads : Engaged(u)' <=> Engaged(u) BY <1>7 DEF Engaged
  <2>2. /\ held' = [held EXCEPT ![t] = 0] /\ mem' = [mem EXCEPT ![t] = <<>>] /\ at' = at
    BY <1>7 DEF Emptied
  <2>3. \A u \in Threads : u # t => mem'[u] = mem[u] /\ held'[u] = held[u] /\ at'[u] = at[u]
    BY <1>2, <2>2
  <2>4. Len(mem'[t]) <= held'[t] * BlockSize
    <3>1. mem'[t] = <<>> /\ held'[t] = 0 BY <1>2, <2>2
    <3> QED BY <1>6, <3>1
  <2> QED BY <1>4, <1>7, <2>1, <2>3, <2>4
<1>8. CASE \/ PassOver \/ FileGone \/ OpenFails \/ SkipItem \/ CopyItem \/ HeaderOfFinished
           \/ WriteBlocks \/ EndFinished \/ Replace \/ WriteCentralDir \/ FinalFlush \/ Unlock
           \/ Lock \/ PopFailed \/ (\E t \in Threads : JoinThread(t))
  <2>1. UNCHANGED <<mem, held, at, real, pc, compressEvent, exit>>
    BY <1>8, CallerFrame DEF threadVars, memVars, coderVars, realVars, Unlock
  <2> QED BY <1>3, <2>1 DEF Engaged
<1>9. CASE CreateThreads
  <2>1. UNCHANGED <<mem, held, at, compressEvent>> BY <1>9 DEF CreateThreads, memVars, coderVars
  <2>2. \A t \in Threads : ~compressEvent[t] /\ pc'[t] \in {"wait", "none"}
    BY <1>1, <1>9 DEF CreateThreads, Life
  <2> QED BY <1>3, <2>1, <2>2 DEF Engaged
<1>10. CASE \E t \in Threads : StopThread(t)
  <2>1. PICK t \in Threads : StopThread(t) BY <1>10
  <2>2. /\ UNCHANGED <<mem, held, at, real, pc>> /\ exit' = [exit EXCEPT ![t] = TRUE]
        /\ compressEvent' = [compressEvent EXCEPT ![t] = TRUE]
    BY <2>1 DEF StopThread, memVars
  <2>3. \A u \in Threads : Engaged(u)' => Engaged(u)
    BY <1>1, <2>2 DEF Engaged, ThreadTypes
  <2> QED BY <1>3, <2>2, <2>3
<1>11. CASE StartFile
  <2>1. CASE UNCHANGED threadVars
    BY <1>3, <2>1 DEF Engaged, threadVars, memVars, coderVars, realVars
  <2>2. ASSUME NEW t \in Threads, Starts(t) PROVE Roomy'
    <3>1. /\ real' = [real EXCEPT ![t] = FALSE]
          /\ mem' = [mem EXCEPT ![t] = <<>>] /\ held' = [held EXCEPT ![t] = 0]
          /\ at' = [at EXCEPT ![t] = 0] /\ UNCHANGED <<pc, exit>>
          /\ compressEvent' = [compressEvent EXCEPT ![t] = TRUE]
      BY <2>2 DEF Starts
    <3>2. \A u \in Threads : u # t => /\ mem'[u] = mem[u] /\ held'[u] = held[u] /\ at'[u] = at[u]
                                      /\ real'[u] = real[u] /\ compressEvent'[u] = compressEvent[u]
      BY <1>1, <1>2, <3>1 DEF ThreadTypes
    <3>3. mem'[t] = <<>> /\ held'[t] = 0 /\ at'[t] = 0 BY <1>2, <3>1
    <3>4. \A u \in Threads : u # t => (Engaged(u)' => Engaged(u)) BY <3>1, <3>2 DEF Engaged
    <3>5. Len(mem'[t]) <= held'[t] * BlockSize /\ at'[t] <= held'[t] * BlockSize BY <1>6, <3>3
    <3> QED BY <1>4, <3>2, <3>4, <3>5
  <2> QED BY <1>11, <2>1, <2>2, StartedOrNot
<1>12. CASE PopEarly \/ PopCurrent
  <2>1. Popped \in Threads /\ UNCHANGED <<pc, compressEvent, exit, real, at>>
    <3>1. Popped \in Threads BY <1>1, <1>12, PoppedFacts DEF PopEarly, PopCurrent
    <3> QED BY <1>12, <3>1, CallerFrame DEF realVars
  <2>2. ~Engaged(Popped)
    <3>1. InDone(Popped)
      BY <1>1, <1>12, PoppedFacts DEF PopEarly, PopCurrent, InDone, ThreadTypes
    <3> QED BY <1>5, <2>1, <3>1
  <2>3. \A u \in Threads : Engaged(u)' <=> Engaged(u) BY <2>1 DEF Engaged
  <2>4. CASE UNCHANGED memVars BY <1>3, <2>1, <2>3, <2>4 DEF memVars
  <2>5. CASE Emptied(Popped) BY <1>7, <2>1, <2>2, <2>5
  <2>6. CASE held' = [held EXCEPT ![Popped] = 0] /\ mem' = [mem EXCEPT ![Popped] = <<>>]
    <3>1. mem'[Popped] = <<>> /\ held'[Popped] = 0 BY <1>2, <2>1, <2>6
    <3>2. \A u \in Threads : u # Popped => mem'[u] = mem[u] /\ held'[u] = held[u]
      BY <1>2, <2>6
    <3>3. Len(mem'[Popped]) <= held'[Popped] * BlockSize BY <1>6, <3>1
    <3> QED BY <1>4, <2>1, <2>2, <2>3, <3>2, <3>3
  <2> QED BY <1>12, <2>4, <2>5, <2>6 DEF PopEarly, PopCurrent
<1>13. CASE \E t \in Threads : Coder(t) \/ CodeFails(t)
  <2> SUFFICES ASSUME NEW t \in Threads, Coder(t) \/ CodeFails(t) PROVE Roomy' BY <1>13
  <2>1. \A u \in Threads : Engaged(u)' => Engaged(u) BY <1>1, EngagedStep
  <2>2. held[t] \in Nat /\ at[t] \in Nat /\ Len(mem[t]) \in Nat
        /\ held[t] * BlockSize \in Nat /\ (held[t] + 1) * BlockSize = held[t] * BlockSize + BlockSize
    <3>1. held[t] \in Nat /\ at[t] \in Nat /\ mem[t] \in Seq(Cells) BY <1>2
    <3>2. Len(mem[t]) \in Nat BY <3>1
    <3> QED BY <3>1, <3>2, MoreRoom
  <2>3. Len(mem[t]) <= held[t] * BlockSize
        /\ (Engaged(t) /\ ~real[t] => at[t] <= held[t] * BlockSize)
    BY <1>1 DEF Roomy
  <2>4. CASE Fill(t)
    <3> DEFINE n == Smaller(Todo(t), held[t] * BlockSize - at[t])
               new == Piece(item[t], pass[t], wrote[t], wrote[t] + n)
    <3>1. /\ pc[t] = "run" /\ ~real[t] /\ Todo(t) > 0 /\ held' = held /\ real' = real
          /\ mem' = [mem EXCEPT ![t] = Put(@, at[t], new)] /\ at' = [at EXCEPT ![t] = @ + n]
      BY <2>4 DEF Fill, realVars
    <3>2. Engaged(t) BY <3>1 DEF Engaged
    <3>3. n \in Nat /\ at[t] + n <= held[t] * BlockSize
      <4>1. Todo(t) \in Int BY <1>1, <3>1, SizeFacts
      <4> QED BY <2>2, <2>3, <3>1, <3>2, <4>1 DEF Smaller
    <3> HIDE DEF n
    <3>4. new \in Seq(Cells) /\ Len(new) = n
      <4>1. item[t] \in Int /\ pass[t] \in Int /\ wrote[t] \in Int
        BY <1>1, WorkFacts DEF ThreadTypes
      <4>2. wrote[t] + n \in Int /\ wrote[t] <= wrote[t] + n /\ (wrote[t] + n) - wrote[t] = n
        BY <3>3, <4>1
      <4>3. ASSUME NEW b \in Int, wrote[t] <= b, b - wrote[t] = n
            PROVE  /\ Piece(item[t], pass[t], wrote[t], b) \in Seq(Cells)
                   /\ Len(Piece(item[t], pass[t], wrote[t], b)) = n
        <5>1. /\ Piece(item[t], pass[t], wrote[t], b) \in Seq(Cells)
              /\ Len(Piece(item[t], pass[t], wrote[t], b)) = b - wrote[t]
          <6>1. \A i, q, a \in Int : a <= b => /\ Piece(i, q, a, b) \in Seq(Cells)
                                             /\ Len(Piece(i, q, a, b)) = b - a
            BY PieceFacts
          <6> QED BY <4>1, <4>3, <6>1
        <5> QED BY <4>3, <5>1
      <4> DEFINE b == wrote[t] + n
      <4>4. b \in Int /\ wrote[t] <= b /\ b - wrote[t] = n BY <4>2
      <4> HIDE DEF b
      <4>5. Piece(item[t], pass[t], wrote[t], b) \in Seq(Cells)
            /\ Len(Piece(item[t], pass[t], wrote[t], b)) = n
        BY <4>3, <4>4
      <4> QED BY <4>5 DEF b
    <3> HIDE DEF new
    <3>5. Len(Put(mem[t], at[t], new)) <= held[t] * BlockSize
      <4>1. mem[t] \in Seq(Cells) BY <1>2
      <4>2. Len(Put(mem[t], at[t], new))
              = IF at[t] + Len(new) > Len(mem[t]) THEN at[t] + Len(new) ELSE Len(mem[t])
        BY <2>2, <3>4, <4>1, PutFacts
      <4> QED BY <2>2, <2>3, <3>3, <3>4, <4>2
    <3>6. mem'[t] = Put(mem[t], at[t], new) /\ at'[t] = at[t] + n BY <1>2, <3>1
    <3>7. \A u \in Threads : u # t => mem'[u] = mem[u] /\ at'[u] = at[u] BY <1>2, <3>1
    <3> QED BY <1>4, <2>1, <3>1, <3>3, <3>5, <3>6, <3>7
  <2>5. CASE GoReal(t)
    <3>1. real' = [real EXCEPT ![t] = TRUE] BY <2>5 DEF GoReal
    <3>2. \A u \in Threads : (u # t => real'[u] = real[u]) /\ real'[t] BY <1>2, <3>1
    <3>3. CASE Emptied(t) /\ UNCHANGED <<pc, exit, compressEvent>> BY <1>7, <3>2, <3>3
    <3>4. CASE UNCHANGED memVars BY <1>3, <2>1, <3>2, <3>4 DEF memVars
    <3> QED BY <2>5, <3>3, <3>4 DEF GoReal
  <2>6. CASE AllocateBlock(t)
    <3>1. mem' = mem /\ at' = at /\ real' = real BY <2>6 DEF AllocateBlock, realVars
    <3>2. CASE held' = held BY <1>3, <2>1, <3>1, <3>2
    <3>3. CASE held' = [held EXCEPT ![t] = @ + 1]
      <4>1. held'[t] = held[t] + 1 /\ \A u \in Threads : u # t => held'[u] = held[u]
        BY <1>2, <3>3
      <4>2. held[t] * BlockSize <= (held[t] + 1) * BlockSize BY <2>2, ConstantsAssumption
      <4>3. Len(mem[t]) <= (held[t] + 1) * BlockSize
            /\ (Engaged(t) /\ ~real[t] => at[t] <= (held[t] + 1) * BlockSize)
        BY <2>2, <2>3, <4>2, ConstantsAssumption
      <4> QED BY <1>4, <2>1, <3>1, <4>1, <4>3
    <3> QED BY <2>6, <3>2, <3>3 DEF AllocateBlock
  <2>7. CASE NextPass(t)
    <3>1. held' = held /\ real' = real BY <2>7 DEF NextPass, realVars
    <3>2. CASE UNCHANGED <<mem, at>> BY <1>3, <2>1, <3>1, <3>2
    <3>3. CASE mem' = [mem EXCEPT ![t] = <<>>] /\ at' = [at EXCEPT ![t] = 0]
      <4>1. mem'[t] = <<>> /\ at'[t] = 0 BY <1>2, <3>3
      <4>2. \A u \in Threads : u # t => mem'[u] = mem[u] /\ at'[u] = at[u] BY <1>2, <3>3
      <4> QED BY <1>4, <1>6, <2>1, <2>2, <3>1, <4>1, <4>2
    <3> QED BY <2>7, <3>2, <3>3 DEF NextPass, Rewind
  <2>8. CASE ~Fill(t) /\ ~GoReal(t) /\ ~AllocateBlock(t) /\ ~NextPass(t)
    <3>1. UNCHANGED <<mem, held, at, real>>
      BY <2>8 DEF Coder, CodeFails, WaitCompress, StopWriting, TakeSemaphore, WriteReal, Packed,
         Push, Post, memVars, realVars
    <3> QED BY <1>3, <2>1, <3>1
  <2> QED BY <2>4, <2>5, <2>6, <2>7, <2>8
<1>14. CASE UNCHANGED vars
  BY <1>3, <1>14 DEF vars, threadVars, coderVars, memVars, realVars, Engaged
<1> QED BY <1>8, <1>9, <1>10, <1>11, <1>12, <1>13, <1>14 DEF Next, Caller, Finished

\* The memory is accounted for after every step.
LEMMA MemoryStep == ASSUME IInv, [Next]_vars PROVE Memory'
BY AccountedStep, PromisedStep, RoomyStep, GivenBackStep DEF Memory

-----------------------------------------------------------------------------
(* The invariant *)

\* Update2 starts without threads, with all blocks free.
LEMMA InitInvariant == ASSUME Init PROVE IInv
<1> USE DEF Init
<1>1. work \in Seq(Items) /\ Len(work) \in Nat /\ DOMAIN work = 1 .. Len(work)
  BY ConstantsAssumption
<1>2. pool \in Nat BY ConstantsAssumption
<1>3. CallerTypes BY <1>1 DEF CallerTypes, Places, Results
<1>4. StreamTypes BY DEF StreamTypes
<1>5. RefTypes BY <1>1 DEF RefTypes, NoRef
<1>6. ThreadTypes BY <1>1 DEF ThreadTypes, None, Results
<1>7. RealTypes BY DEF RealTypes
<1>8. MemTypes BY <1>2 DEF MemTypes
<1>9. Life BY DEF Life, InDone, Active
<1>10. Counted
  <2>1. Posting = {} BY DEF Posting
  <2>2. Cardinality(Posting) = 0 BY <2>1, FS_EmptySet
  <2> QED BY <2>2 DEF Counted
<1>11. Turn BY DEF Turn, Active
<1>12. Stored BY <1>1 DEF Stored, NoRef
<1>13. Working BY DEF Working, Engaged
<1>14. Accounted
  <2>1. \A o : Pieces(o, 0) = {} BY DEF Pieces
  <2>2. \A i \in DOMAIN work : refs[i].blocks = 0 BY DEF NoRef
  <2>3. InUse = {} BY <2>1, <2>2 DEF InUse
  <2>4. IsFiniteSet(InUse) /\ Cardinality(InUse) = 0 BY <2>3, FS_EmptySet
  <2> QED BY <1>2, <2>4 DEF Accounted
<1>15. Promised
  <2>1. Allocating = {} BY DEF Allocating
  <2>2. Cardinality(Allocating) = 0 BY <2>1, FS_EmptySet
  <2> QED BY <1>2, <2>2 DEF Promised
<1>16. Roomy
  <2>1. Len(<<>>) = 0 /\ 0 * BlockSize = 0 BY ConstantsAssumption
  <2> QED BY <2>1 DEF Roomy
<1>17. GivenBack BY DEF GivenBack
<1> QED BY <1>3, <1>4, <1>5, <1>6, <1>7, <1>8, <1>9, <1>10, <1>11, <1>12, <1>13, <1>14, <1>15,
           <1>16, <1>17 DEF IInv, Types, Memory

\* The inductive invariant of an update with threads: where each thread is and how many of
\* them wait to be noticed, whose turn it is, what waits for its turn, who may write, and where
\* the blocks of memory are.
THEOREM Invariant == Spec => []IInv
<1>1. Init => IInv BY InitInvariant
<1>2. IInv /\ [Next]_vars => IInv'
  BY TypesStep, LifeStep, CountedStep, TurnStep, StoredStep, WorkingStep, MemoryStep DEF IInv
<1> QED BY <1>1, <1>2, PTL DEF Spec

\* No more threads than there are have finished: done has each of them once.
LEMMA DoneBound == ASSUME IInv PROVE doneSem \in 0 .. NumThreads
<1>1. ThreadTypes /\ Life /\ Counted BY DEF IInv, Types
<1>2. done \in [1 .. Len(done) -> Threads] /\ Len(done) \in Nat BY <1>1 DEF ThreadTypes
<1>3. \A j, k \in 1 .. Len(done) : done[j] = done[k] => j = k BY <1>1, <1>2 DEF Life
<1>4. IsFiniteSet(1 .. Len(done)) /\ Cardinality(1 .. Len(done)) = Len(done)
  <2>1. \A n \in Nat : IsFiniteSet(1 .. n) /\ Cardinality(1 .. n) = n BY FS_Interval
  <2> QED BY <1>2, <2>1
<1>5. Len(done) <= NumThreads
  <2>1. Cardinality(Threads) < Cardinality(1 .. Len(done)) =>
          \E j, k \in 1 .. Len(done) : j # k /\ done[j] = done[k]
    BY <1>2, <1>4, FiniteThreads, FS_PigeonHole
  <2>2. ~(NumThreads < Len(done)) BY <1>3, <1>4, <2>1, FiniteThreads
  <2> QED BY <1>2, <2>2, ConstantsAssumption
<1>6. Cardinality(Posting) \in Nat
  BY FiniteThreads, FS_Subset, FS_CardinalityType DEF Posting
<1> QED BY <1>1, <1>2, <1>5, <1>6, ConstantsAssumption DEF Counted, ThreadTypes

\* No block is lost or used twice, the semaphore and the threads that have got it count the
\* free ones, a thread that waits for a file has none, and an item that is written has none.
THEOREM BlocksAreKept == Spec => []BlocksKept
<1>1. IInv => BlocksKept
  <2> SUFFICES ASSUME IInv PROVE BlocksKept OBVIOUS
  <2>1. Types /\ Stored /\ Memory BY DEF IInv
  <2>2. TypeOK
    BY <2>1, DoneBound DEF TypeOK, Types, CallerTypes, StreamTypes, RefTypes, ThreadTypes, MemTypes
  <2>3. sem + Cardinality({t \in Threads : pc[t] = "alloc"}) = free
    BY <2>1 DEF Memory, Promised, Allocating
  <2>4. \A t \in Threads : isFree[t] /\ mpc = "loop" => held[t] = 0
    BY <2>1 DEF Memory, GivenBack, Active
  <2> QED BY <2>1, <2>2, <2>3, <2>4 DEF BlocksKept, Memory, Accounted, Stored
<1> QED BY <1>1, Invariant, PTL

-----------------------------------------------------------------------------
(* Who uses the archive *)

\* A thread that may write has been told to: no two threads may write.
LEMMA UserFacts ==
  ASSUME IInv
  PROVE  /\ \A t \in Users : t \in Threads /\ Engaged(t) /\ unlocked[t]
         /\ \A t, u \in Users : t = u
<1>1. Working BY DEF IInv
<1>2. \A t \in Users : t \in Threads /\ Engaged(t) /\ unlocked[t]
  BY <1>1 DEF Users, Busy, Engaged, Working
<1> QED BY <1>1, <1>2 DEF Working

\* While one may, its file is the one whose turn it is, and its header has been written.
LEMMA UserIsFirst ==
  ASSUME IInv, Active, NEW t \in Users
  PROVE  order # <<>> /\ order[1] = t /\ item[t] = cur /\ last = cur /\ Packing(cur) /\ unlocked[t]
<1>1. Types /\ Life /\ Turn BY DEF IInv
<1> QED BY <1>1, UserFacts, WriterIsFirst

\* The caller does not touch the archive while a thread may write.
LEMMA CallerWaits ==
  ASSUME IInv, Caller, Users # {} PROVE UNCHANGED <<arc, pos>>
<1>1. Types /\ CallerTypes /\ ThreadTypes /\ RealTypes /\ Life /\ Turn BY DEF IInv, Types
<1>2. PICK t : t \in Users OBVIOUS
<1>3. Active => /\ order # <<>> /\ order[1] = t /\ item[t] = cur /\ last = cur /\ Packing(cur)
                /\ unlocked[t]
  BY <1>2, UserIsFirst
<1>4. CASE CopyItem \/ HeaderOfFinished \/ WriteBlocks \/ EndFinished
  <2>1. CASE CopyItem BY <1>3, <2>1 DEF CopyItem, InTurn, Active, Packing
  <2>2. CASE HeaderOfFinished BY <1>3, <2>2 DEF HeaderOfFinished, InTurn, Active, Packing
  <2>3. CASE WriteBlocks \/ EndFinished
    BY <1>1, <1>3, <2>3 DEF WriteBlocks, EndFinished, Active, Packing, Turn, Current
  <2> QED BY <1>4, <2>1, <2>2, <2>3
<1>5. CASE Unlock
  <2>1. last = cur /\ unlocked[order[1]] BY <1>3, <1>5 DEF Unlock, InTurn, Active
  <2>2. ~(last < cur) BY <1>1, <2>1, WorkFacts DEF CallerTypes
  <2> QED BY <1>5, <2>1, <2>2 DEF Unlock, InFront, NotWritten, archiveVars
<1>6. CASE PopCurrent
  <2>1. Popped = t BY <1>3, <1>6 DEF PopCurrent, Active
  <2>2. InDone(t)
    BY <1>1, <1>6, <2>1, PoppedFacts DEF PopCurrent, InDone, ThreadTypes
  <2>3. t \in Threads /\ Engaged(t) BY <1>2, UserFacts
  <2> QED BY <1>1, <2>2, <2>3 DEF Life, Engaged
<1>7. CASE Replace \/ WriteCentralDir
  <2>1. Active BY <1>7 DEF Replace, WriteCentralDir, Active
  <2>2. 1 \in DOMAIN order BY <1>1, <1>3, <2>1 DEF CallerTypes
  <2>3. cur \in Low .. mt - 1 BY <1>1, <1>3, <2>1, <2>2 DEF Turn, Inside
  <2>4. cur \in Nat /\ mt \in 1 .. Len(work) + 1 /\ Len(work) \in Nat
    BY <1>1, WorkFacts DEF CallerTypes
  <2> QED BY <1>7, <2>3, <2>4 DEF Replace, WriteCentralDir, Low
<1>8. CASE \/ CreateThreads \/ PassOver \/ FileGone \/ OpenFails \/ StartFile \/ SkipItem \/ Lock
           \/ PopFailed \/ PopEarly \/ (\E u \in Threads : StopThread(u) \/ JoinThread(u))
           \/ FinalFlush
  BY <1>8 DEF CreateThreads, PassOver, FileGone, OpenFails, StartFile, SkipItem, Lock, PopFailed,
     PopEarly, StopThread, JoinThread, FinalFlush, NotWritten, archiveVars
<1> QED BY <1>4, <1>5, <1>6, <1>7, <1>8 DEF Caller

\* A step of a thread that writes to the archive is seen in its place, pass, progress or mode.
LEMMA WriterMoves ==
  ASSUME Types, NEW t \in Threads, Coder(t) \/ CodeFails(t), UNCHANGED <<pc, pass, wrote, real>>
  PROVE  UNCHANGED <<arc, pos>>
<1> USE DEF Types, ThreadTypes, RealTypes
<1>1. CASE GoReal(t) BY <1>1 DEF GoReal, Waits
<1>2. CASE WriteReal(t) BY <1>2 DEF WriteReal, NotWritten
<1>3. CASE NextPass(t) BY <1>3 DEF NextPass, Returns
<1>4. CASE ~GoReal(t) /\ ~WriteReal(t) /\ ~NextPass(t)
  BY <1>4 DEF Coder, CodeFails, WaitCompress, Fill, StopWriting, TakeSemaphore, AllocateBlock,
     Packed, Push, Post, archiveVars
<1> QED BY <1>1, <1>2, <1>3, <1>4

\* No two threads may write to the archive, and the caller writes to it or moves in it only
\* while none may.
THEOREM ArchiveHasOneUser == Spec => OneArchiveUser
<1>1. IInv => Cardinality(Users) <= 1
  <2> SUFFICES ASSUME IInv PROVE Cardinality(Users) <= 1 OBVIOUS
  <2>1. CASE Users = {} BY <2>1, FS_EmptySet
  <2>2. CASE Users # {}
    <3>1. PICK t : t \in Users BY <2>2
    <3>2. Users = {t} BY <3>1, UserFacts
    <3>3. Cardinality(Users) = 1 BY <3>2, FS_Singleton
    <3> QED BY <3>3
  <2> QED BY <2>1, <2>2
<1>2. IInv /\ [Next]_vars =>
        [UNCHANGED <<pc, pass, wrote, real>> /\ <<arc, pos>>' # <<arc, pos>> => Users = {}]_vars
  <2> SUFFICES ASSUME IInv, Next, UNCHANGED <<pc, pass, wrote, real>>, Users # {}
               PROVE  UNCHANGED <<arc, pos>>
    OBVIOUS
  <2>1. CASE Caller BY <2>1, CallerWaits
  <2>2. CASE \E t \in Threads : Coder(t) \/ CodeFails(t) BY <2>2, WriterMoves DEF IInv
  <2>3. CASE Finished BY <2>3 DEF Finished, vars, archiveVars
  <2> QED BY <2>1, <2>2, <2>3 DEF Next
<1>3. [][/\ Cardinality(Users') <= 1
         /\ UNCHANGED <<pc, pass, wrote, real>> /\ <<arc, pos>>' # <<arc, pos>> => Users = {}]_vars
        <=> OneArchiveUser
  BY DEF OneArchiveUser
<1>4. Spec => [][Next]_vars BY DEF Spec
<1>5. IInv' => Cardinality(Users') <= 1
  <2>1. [](IInv => Cardinality(Users) <= 1) BY <1>1, PTL
  <2>2. IInv' => (Cardinality(Users) <= 1)' BY <2>1, PTL
  <2> QED BY <2>2
<1>6. IInv /\ IInv' /\ [Next]_vars =>
        [/\ Cardinality(Users') <= 1
         /\ UNCHANGED <<pc, pass, wrote, real>> /\ <<arc, pos>>' # <<arc, pos>> => Users = {}]_vars
  BY <1>2, <1>5
<1> QED BY <1>3, <1>4, <1>6, Invariant, PTL

-----------------------------------------------------------------------------
(* What Update answers, and what the archive holds then *)

\* The last pass of a file and what it makes.
LastPass(i) == Len(work[i].sizes)
Size(i)     == work[i].sizes[LastPass(i)]

\* Update2 has been left; no thread has anything to pack.
Leaving == mpc \in {"stop", "join", "flush", "end"}
Idle(t) == pc[t] \notin {"run", "alloc", "push"} /\ (compressEvent[t] => exit[t])

\* The thread has failed, and the caller will find its result.
Failing(t) == ~isFree[t] /\ (pc[t] = "push" \/ InDone(t)) /\ result[t] # "OK"

\* A failure is known, and somebody will report it: the archive's stream, a thread whose result
\* is still to be taken, or the caller.
Reported ==
  /\ \A t \in Threads : stopEvent[t] => exit[t]
  /\ hres # "OK" \/ ret # "OK" => failed
  /\ mpc = "create" \/ Active => ret = "OK" /\ \A t \in Threads : result[t] # "OK" => failed
  /\ mpc = "create" => ~failed
  /\ Active /\ failed => hres # "OK" \/ \E t \in Threads : Failing(t)
  /\ Leaving /\ ret = "OK" => ~failed /\ \A t \in Threads : Idle(t)

\* The items in front of the caller are listed in their order, unless they are left out.
Listed ==
  /\ items \in Seq((DOMAIN work) \X Nat)
  /\ \A i \in skip : work[i].kind = "file"
  /\ \A k \in DOMAIN items : items[k][1] < cur /\ items[k][1] \notin skip
  /\ \A j, k \in DOMAIN items : j < k => items[j][1] < items[k][1]
  /\ \A i \in 1 .. cur - 1 : i \notin skip => \E k \in DOMAIN items : items[k][1] = i

\* The items that are listed are in the archive, one behind the other.
End == Start(Len(items) + 1)
Lies(k) ==
  LET c == Content(items[k][1]) IN
  /\ items[k][2] = Start(k) /\ Start(k) \in Nat
  /\ Start(k) + Len(c) <= End
  /\ \A j \in 1 .. Len(c) : arc[Start(k) + j] = c[j]
Filed == arc \in Seq(Cells) /\ End \in Nat /\ \A k \in DOMAIN items : Lies(k)

\* Behind them nothing, or the item that is being written: its header, and n units of pass p.
Between == Len(arc) = End /\ pos = End /\ curPos = End
Holds(h, p, n) ==
  /\ headerPos = End /\ curPos = End + 1
  /\ Len(arc) = End + 1 + n /\ pos = Len(arc)
  /\ arc[End + 1] = Header(cur, h)
  /\ \A j \in 1 .. n : arc[End + 1 + j] = Data(cur, p, j)

\* The size in the header, if it is known when the header is written.
Known(i) == IF outSeq THEN -1 ELSE Size(i)

\* How much of the first thread's file is in the archive.
InArchive(t) == IF real[t] THEN wrote[t] ELSE 0
Unlocked(t)  == item[t] = cur /\ unlocked[t] /\ outAt[t] = End + 1 /\ Holds(-1, pass[t], InArchive(t))
Progress ==
  /\ last <= cur
  /\ mpc = "loop" /\ last < cur => Between
  /\ mpc \in {"loop", "lock", "pop"} /\ last = cur => order # <<>> /\ Unlocked(order[1])
  /\ mpc \in {"lock", "pop"} => last = cur
  /\ mpc = "blocks" => Holds(Known(cur), LastPass(cur), 0)
  /\ mpc = "tail" => Holds(Known(cur), LastPass(cur), Size(cur))
  /\ mpc = "replace" =>
       Packing(cur) /\ Holds(-1, LastPass(cur), Size(cur)) /\ refs[cur].pack = Size(cur)

\* What a thread has made of its file is in its memory, unless it writes to the archive.
Made(t)  == Piece(item[t], pass[t], 0, wrote[t])
Fresh(t) == mem[t] = <<>> /\ at[t] = 0 /\ ~real[t]
Underway(t) ==
  /\ pass[t] \in 1 .. Len(Sizes(t)) /\ wrote[t] \in 0 .. Sizes(t)[pass[t]]
  /\ mem[t] = IF real[t] THEN <<>> ELSE Made(t)
  /\ pc[t] \in {"run", "alloc"} /\ ~real[t] => at[t] = wrote[t]
  /\ pc[t] \notin {"run", "alloc"} /\ result[t] = "OK" =>
       pass[t] = LastPass(item[t]) /\ wrote[t] = Size(item[t]) /\ pack[t] = wrote[t]
MadeSoFar(t) == IF compressEvent[t] THEN Fresh(t) ELSE Underway(t)
AllMade == \A t \in Threads : ~isFree[t] => MadeSoFar(t)

\* What waits for its turn is whole.
Waiting(i) == refs[i].data = Piece(i, LastPass(i), 0, Size(i)) /\ refs[i].pack = Size(i)
Early == \A i \in DOMAIN work : refs[i].finished /\ cur <= i => Waiting(i)

\* The archive is complete.
Complete == /\ Listed /\ Filed /\ cur = Len(work) + 1
            /\ Len(arc) = End + 1 /\ arc[Len(arc)] = Directory

Shapes == DOMAIN pack = Threads /\ DOMAIN outAt = Threads
Blank  == /\ items = <<>> /\ last = 0 /\ arc = <<>> /\ pos = 0 /\ curPos = 0 /\ hres = "OK" /\ skip = {}
          /\ \A i \in DOMAIN work : ~refs[i].finished

\* The archive, the threads and what waits are as they must be, or there is an error of the stream.
Sound == Listed /\ Filed /\ Progress /\ AllMade /\ Early

Archived ==
  /\ Shapes
  /\ mpc = "create" => Blank
  /\ Active /\ hres = "OK" => Sound
  /\ Leaving /\ ret = "OK" => Complete /\ hres = "OK"

RInv == IInv /\ Reported /\ Archived

\* One sequence of cells behind another.
LEMMA JoinedCells ==
  ASSUME NEW s \in Seq(Cells), NEW c \in Seq(Cells)
  PROVE  /\ s \o c \in Seq(Cells) /\ Len(s \o c) = Len(s) + Len(c)
         /\ \A j \in 1 .. Len(s) : (s \o c)[j] = s[j]
         /\ \A j \in 1 .. Len(c) : (s \o c)[Len(s) + j] = c[j]
<1>1. /\ s \o c \in Seq(Cells) /\ Len(s \o c) = Len(s) + Len(c)
      /\ \A i \in 1 .. Len(s) + Len(c) :
           (s \o c)[i] = IF i <= Len(s) THEN s[i] ELSE c[i - Len(s)]
  BY ConcatProperties
<1>2. PICK n, m, r : n \in Nat /\ m \in Nat /\ n = Len(s) /\ m = Len(c) /\ r = s \o c BY LenProperties
<1>3. \A i \in 1 .. n + m : r[i] = IF i <= n THEN s[i] ELSE c[i - n] BY <1>1, <1>2
<1>4. \A j \in 1 .. m : n + j \in 1 .. n + m /\ ~(n + j <= n) /\ (n + j) - n = j BY <1>2
<1>5. \A j \in 1 .. n : j \in 1 .. n + m BY <1>2
<1>6. /\ \A j \in 1 .. n : r[j] = s[j]
      /\ \A j \in 1 .. m : r[n + j] = c[j]
  BY <1>2, <1>3, <1>4, <1>5
<1> QED BY <1>1, <1>2, <1>6

\* The units of a pass.
LEMMA MadePiece ==
  ASSUME NEW i \in Int, NEW p \in Int, NEW n \in Nat
  PROVE  /\ Piece(i, p, 0, n) \in Seq(Cells) /\ Len(Piece(i, p, 0, n)) = n
         /\ \A j \in 1 .. n : Piece(i, p, 0, n)[j] = Data(i, p, j)
<1>1. \A a, b \in Int : a <= b => Piece(i, p, a, b) \in Seq(Cells) /\ Len(Piece(i, p, a, b)) = b - a
  BY PieceFacts
<1>2. 0 \in Int /\ n \in Int /\ 0 <= n /\ n - 0 = n OBVIOUS
<1>3. \A j \in 1 .. n : Piece(i, p, 0, n)[j] = Data(i, p, 0 + j) /\ 0 + j = j BY <1>2 DEF Piece
<1> QED BY <1>1, <1>2, <1>3

\* What the archive must hold for an item.
LEMMA ContentFacts ==
  ASSUME CallerTypes, NEW i \in DOMAIN work
  PROVE  /\ Content(i) \in Seq(Cells) /\ Len(Content(i)) \in Nat
         /\ work[i].kind = "dir" => Content(i) = <<Header(i, 0)>>
         /\ work[i].kind = "old" => Content(i) = <<Header(i, 1), OldData(i)>>
         /\ work[i].kind = "file" =>
              /\ Size(i) \in Nat /\ LastPass(i) \in Nat \ {0}
              /\ Len(Content(i)) = 1 + Size(i) + (IF outSeq THEN 1 ELSE 0)
              /\ Content(i)[1] = Header(i, Known(i))
              /\ \A j \in 1 .. Size(i) : Content(i)[1 + j] = Data(i, LastPass(i), j)
              /\ outSeq => Content(i)[Size(i) + 2] = Descriptor(i, Size(i))
<1>1. /\ work[i].kind \in Kinds /\ work[i].sizes \in Seq(Nat) /\ i \in Int
      /\ work[i].kind = "file" => Len(work[i].sizes) >= 1
  BY ItemFacts
<1>2. CASE work[i].kind = "dir"
  <2>1. Content(i) = <<Header(i, 0)>> BY <1>2 DEF Content
  <2>2. Header(i, 0) \in Cells BY <1>1 DEF Header, Cells
  <2> QED BY <1>2, <2>1, <2>2
<1>3. CASE work[i].kind = "old"
  <2>1. Content(i) = <<Header(i, 1), OldData(i)>> BY <1>3 DEF Content
  <2>2. Header(i, 1) \in Cells /\ OldData(i) \in Cells BY <1>1 DEF Header, OldData, Cells
  <2> QED BY <1>3, <2>1, <2>2
<1>4. CASE work[i].kind = "file"
  <2>1. LastPass(i) \in Nat \ {0} /\ Size(i) \in Nat BY <1>1, <1>4 DEF LastPass, Size
  <2>2. PICK n \in Nat, p \in Nat : n = Size(i) /\ p = LastPass(i) BY <2>1
  <2> DEFINE h == IF outSeq THEN -1 ELSE n
             a == <<Header(i, h)>>
             b == Piece(i, p, 0, n)
             e == IF outSeq THEN <<Descriptor(i, n)>> ELSE <<>>
  <2>3. Content(i) = (a \o b) \o e BY <1>4, <2>2 DEF Content, Size, LastPass
  <2>4. a \in Seq(Cells) /\ Len(a) = 1 /\ a[1] = Header(i, h)
    <3>1. Header(i, h) \in Cells BY <1>1 DEF Header, Cells
    <3> QED BY <3>1
  <2>5. b \in Seq(Cells) /\ Len(b) = n /\ \A j \in 1 .. n : b[j] = Data(i, p, j)
    <3>1. b \in Seq(Cells) /\ Len(b) = n BY <1>1, <2>2, MadePiece
    <3>2. \A j \in 1 .. n : b[j] = Data(i, p, j) BY DEF Piece
    <3> QED BY <3>1, <3>2
  <2>6. e \in Seq(Cells) /\ Len(e) = (IF outSeq THEN 1 ELSE 0) /\ (outSeq => e[1] = Descriptor(i, n))
    <3>1. Descriptor(i, n) \in Cells BY <1>1 DEF Descriptor, Cells
    <3> QED BY <3>1
  <2>7. h = Known(i) BY <2>2 DEF Known
  <2> HIDE DEF a, b, e, h
  <2>8. PICK ab : ab = a \o b OBVIOUS
  <2>9. PICK m \in Nat : m = Len(e) BY <2>6
  <2>10. /\ ab \in Seq(Cells) /\ Len(ab) = 1 + n /\ ab[1] = a[1]
         /\ \A j \in 1 .. n : ab[1 + j] = b[j]
    <3>1. /\ ab \in Seq(Cells) /\ Len(ab) = Len(a) + Len(b)
          /\ \A j \in 1 .. Len(a) : ab[j] = a[j]
          /\ \A j \in 1 .. Len(b) : ab[Len(a) + j] = b[j]
      BY <2>4, <2>5, <2>8, JoinedCells
    <3> QED BY <2>4, <2>5, <3>1
  <2>11. /\ Content(i) \in Seq(Cells) /\ Len(Content(i)) = 1 + n + m
         /\ \A j \in 1 .. 1 + n : Content(i)[j] = ab[j]
         /\ \A j \in 1 .. m : Content(i)[(1 + n) + j] = e[j]
    <3>1. Content(i) = ab \o e BY <2>3, <2>8
    <3>2. PICK c : c = ab \o e OBVIOUS
    <3>4. e \in Seq(Cells) /\ ab \in Seq(Cells) BY <2>6, <2>10
    <3>3. /\ c \in Seq(Cells) /\ Len(c) = Len(ab) + Len(e)
          /\ \A j \in 1 .. Len(ab) : c[j] = ab[j]
          /\ \A j \in 1 .. Len(e) : c[Len(ab) + j] = e[j]
      BY <3>2, <3>4, JoinedCells
    <3> QED BY <2>9, <2>10, <3>1, <3>2, <3>3
  <2>12. /\ Content(i)[1] = Header(i, h)
         /\ \A j \in 1 .. n : Content(i)[1 + j] = Data(i, p, j)
    <3>1. 1 \in 1 .. 1 + n /\ \A j \in 1 .. n : 1 + j \in 1 .. 1 + n BY <2>2
    <3> QED BY <2>4, <2>5, <2>10, <2>11, <3>1
  <2>13. outSeq => Content(i)[n + 2] = Descriptor(i, n)
    <3> SUFFICES ASSUME outSeq PROVE Content(i)[n + 2] = Descriptor(i, n) OBVIOUS
    <3>1. 1 \in 1 .. m /\ e[1] = Descriptor(i, n) BY <2>6, <2>9
    <3>2. Content(i)[(1 + n) + 1] = e[1] BY <2>11, <3>1
    <3>3. (1 + n) + 1 = n + 2 BY <2>2
    <3> QED BY <3>1, <3>2, <3>3
  <2>14. m = IF outSeq THEN 1 ELSE 0 BY <2>6, <2>9
  <2>15. Len(Content(i)) \in Nat BY <2>2, <2>9, <2>11
  <2>16. /\ Len(Content(i)) = 1 + Size(i) + (IF outSeq THEN 1 ELSE 0)
         /\ Content(i)[1] = Header(i, Known(i))
         /\ \A j \in 1 .. Size(i) : Content(i)[1 + j] = Data(i, LastPass(i), j)
         /\ outSeq => Content(i)[Size(i) + 2] = Descriptor(i, Size(i))
    BY <2>2, <2>7, <2>11, <2>12, <2>13, <2>14
  <2> QED BY <1>4, <2>1, <2>11, <2>15, <2>16
<1> QED BY <1>1, <1>2, <1>3, <1>4 DEF Kinds

\* What lies where after a write: the rest stays.
LEMMA PutAt ==
  ASSUME NEW s \in Seq(Cells), NEW c \in Seq(Cells), NEW p \in Nat, p <= Len(s)
  PROVE  /\ Put(s, p, c) \in Seq(Cells)
         /\ Len(Put(s, p, c)) = IF p + Len(c) > Len(s) THEN p + Len(c) ELSE Len(s)
         /\ \A j \in 1 .. Len(s) : j <= p \/ j > p + Len(c) => Put(s, p, c)[j] = s[j]
         /\ \A j \in 1 .. Len(c) : Put(s, p, c)[p + j] = c[j]
<1>1. Len(s) \in Nat /\ Len(c) \in Nat OBVIOUS
<1>2. PICK n \in Nat : n = IF p + Len(c) > Len(s) THEN p + Len(c) ELSE Len(s) BY <1>1
<1>3. \A j \in 1 .. n : Put(s, p, c)[j] =
        IF j > p /\ j <= p + Len(c) THEN c[j - p] ELSE IF j <= Len(s) THEN s[j] ELSE Directory
  BY <1>2 DEF Put
<1>4. \A j \in 1 .. Len(s) : j <= p \/ j > p + Len(c) => Put(s, p, c)[j] = s[j]
  BY <1>1, <1>2, <1>3
<1>5. ASSUME NEW j \in 1 .. Len(c) PROVE Put(s, p, c)[p + j] = c[j]
  <2>1. p + j \in 1 .. n /\ p + j > p /\ p + j <= p + Len(c) /\ (p + j) - p = j BY <1>1, <1>2
  <2> QED BY <1>3, <2>1
<1> QED BY <1>4, <1>5, PutFacts

\* Writing nothing changes nothing.
LEMMA PutEmpty ==
  ASSUME NEW s \in Seq(Cells), NEW c \in Seq(Cells), Len(c) = 0, NEW p \in Nat, p <= Len(s)
  PROVE  Put(s, p, c) = s
<1>1. Len(s) \in Nat OBVIOUS
<1>2. /\ Put(s, p, c) \in Seq(Cells) /\ Len(Put(s, p, c)) = IF p + Len(c) > Len(s) THEN p + Len(c) ELSE Len(s)
      /\ \A j \in 1 .. Len(s) : j <= p \/ j > p + Len(c) => Put(s, p, c)[j] = s[j]
  BY PutAt
<1> DEFINE q == Put(s, p, c)
<1>3. q \in Seq(Cells) /\ Len(q) = Len(s) /\ \A j \in 1 .. Len(s) : q[j] = s[j] BY <1>1, <1>2
<1> HIDE DEF q
<1>4. q = s BY <1>3, SeqEqual
<1> QED BY <1>4 DEF q

\* What an item is, and where it lies, changes only with the list of the items.
LEMMA SamePlaces ==
  ASSUME UNCHANGED <<work, outSeq>>
  PROVE  /\ \A i : Content(i)' = Content(i) /\ Size(i)' = Size(i) /\ LastPass(i)' = LastPass(i)
         /\ \A i : Known(i)' = Known(i)
         /\ UNCHANGED items => End' = End /\ \A k : Start(k)' = Start(k)
<1>1. \A i : Content(i)' = Content(i)
  BY DEF Content, Header, OldData, Piece, Data, Descriptor
<1>2. \A i : Size(i)' = Size(i) /\ LastPass(i)' = LastPass(i) BY DEF Size, LastPass
<1>3. \A i : Known(i)' = Known(i) BY <1>2 DEF Known
<1>4. ASSUME UNCHANGED items PROVE \A k : Start(k)' = Start(k)
  BY <1>1, <1>4 DEF Start
<1>5. ASSUME UNCHANGED items PROVE End' = End BY <1>1, <1>5 DEF End, Start
<1> QED BY <1>1, <1>2, <1>3, <1>4, <1>5

\* What is listed stays, as long as nothing is written in front of what comes next.
LEMMA FiledSame ==
  ASSUME CallerTypes, Listed, Filed, UNCHANGED <<work, outSeq, items>>,
         arc' \in Seq(Cells), \A j \in 1 .. End : arc'[j] = arc[j]
  PROVE  Filed' /\ End' = End
<1>1. End' = End /\ (\A k : Start(k)' = Start(k)) /\ \A i : Content(i)' = Content(i) BY SamePlaces
<1>2. ASSUME NEW k \in DOMAIN items PROVE Lies(k)'
  <2>1. items[k][1] \in DOMAIN work
    <3>1. items[k] \in (DOMAIN work) \X Nat BY <1>2 DEF Listed
    <3> QED BY <3>1
  <2>2. PICK c : c = Content(items[k][1]) OBVIOUS
  <2>3. Len(c) \in Nat BY <2>1, <2>2, ContentFacts
  <2>4. /\ items[k][2] = Start(k) /\ Start(k) \in Nat /\ Start(k) + Len(c) <= End
        /\ \A j \in 1 .. Len(c) : arc[Start(k) + j] = c[j]
    BY <1>2, <2>2 DEF Filed, Lies
  <2>5. \A j \in 1 .. Len(c) : Start(k) + j \in 1 .. End BY <2>3, <2>4 DEF Filed
  <2>6. \A j \in 1 .. Len(c) : arc'[Start(k) + j] = c[j] BY <2>4, <2>5
  <2>7. Content(items[k][1])' = c BY <1>1, <2>2
  <2> QED BY <1>1, <2>4, <2>6, <2>7 DEF Lies
<1> QED BY <1>1, <1>2 DEF Filed

\* The next item is listed and lies behind the others.
LEMMA FiledNext ==
  ASSUME CallerTypes, Listed, Filed, UNCHANGED <<work, outSeq>>, cur \in DOMAIN work,
         items' = Append(items, <<cur, End>>),
         arc' \in Seq(Cells), \A j \in 1 .. End : arc'[j] = arc[j],
         \A j \in 1 .. Len(Content(cur)) : arc'[End + j] = Content(cur)[j]
  PROVE  Filed' /\ End' = End + Len(Content(cur))
<1>0. PICK n \in Nat : n = Len(items) BY DEF Listed
<1>1. items \in Seq((DOMAIN work) \X Nat) /\ n \in Nat /\ DOMAIN items = 1 .. n BY <1>0 DEF Listed
<1>2. \A i : Content(i)' = Content(i) BY SamePlaces
<1>3. End \in Nat /\ Len(Content(cur)) \in Nat BY ContentFacts DEF Filed
<1>4. /\ Len(items') = n + 1 /\ DOMAIN items' = 1 .. n + 1
      /\ items'[n + 1] = <<cur, End>> /\ \A k \in 1 .. n : items'[k] = items[k]
  <2>1. <<cur, End>> \in (DOMAIN work) \X Nat BY <1>3
  <2> QED BY <1>0, <1>1, <2>1
<1>5. \A k \in 1 .. n + 1 : Start(k)' = Start(k)
  <2>1. ASSUME NEW k \in 1 .. n + 1, k # 1 PROVE Start(k)' = Start(k)
    <3>1. k - 1 \in 1 .. n BY <1>1, <2>1
    <3>2. items'[k - 1] = items[k - 1] BY <1>4, <3>1
    <3> QED BY <1>2, <2>1, <3>2 DEF Start
  <2>2. Start(1)' = Start(1) BY DEF Start
  <2> QED BY <2>1, <2>2
<1>6. End = Start(n + 1) BY <1>0 DEF End
<1>7. End' = End + Len(Content(cur))
  <2>1. End' = Start(n + 2)' BY <1>1, <1>4 DEF End
  <2>2. n + 2 # 1 /\ (n + 2) - 1 = n + 1 BY <1>1
  <2>3. Start(n + 2)' = items'[n + 1][2] + Len(Content(items[n + 1][1])') BY <2>2 DEF Start
  <2>4. items'[n + 1][2] = End /\ items'[n + 1][1] = cur BY <1>4
  <2> QED BY <1>2, <2>1, <2>3, <2>4
<1>8. ASSUME NEW k \in 1 .. n PROVE Lies(k)'
  <2>1. items[k][1] \in DOMAIN work
    <3>1. items[k] \in (DOMAIN work) \X Nat BY <1>1, <1>8
    <3> QED BY <3>1
  <2>2. PICK c : c = Content(items[k][1]) OBVIOUS
  <2>3. Len(c) \in Nat BY <2>1, <2>2, ContentFacts
  <2>4. /\ items[k][2] = Start(k) /\ Start(k) \in Nat /\ Start(k) + Len(c) <= End
        /\ \A j \in 1 .. Len(c) : arc[Start(k) + j] = c[j]
    BY <1>1, <1>8, <2>2 DEF Filed, Lies
  <2>5. \A j \in 1 .. Len(c) : Start(k) + j \in 1 .. End BY <1>3, <2>3, <2>4
  <2>6. \A j \in 1 .. Len(c) : arc'[Start(k) + j] = c[j] BY <2>4, <2>5
  <2>7. items'[k] = items[k] /\ \A i : Content(i)' = Content(i) BY <1>2, <1>4, <1>8
  <2>8. Start(k)' = Start(k) BY <1>1, <1>5, <1>8
  <2>9. Start(k) + Len(c) <= End' BY <1>3, <1>7, <2>3, <2>4
  <2>10. Content(items[k][1])' = c BY <2>2, <2>7
  <2> QED BY <2>4, <2>6, <2>7, <2>8, <2>9, <2>10 DEF Lies
<1>9. Lies(n + 1)'
  <2>1. PICK c : c = Content(cur) OBVIOUS
  <2>2. Start(n + 1)' = End BY <1>1, <1>5, <1>6
  <2>3. items'[n + 1][2] = End /\ items'[n + 1][1] = cur BY <1>4
  <2>4. Content(items[n + 1][1])' = c BY <1>2, <2>1, <2>3
  <2>5. End + Len(c) <= End' /\ \A j \in 1 .. Len(c) : arc'[End + j] = c[j] BY <1>3, <1>7, <2>1
  <2> QED BY <1>3, <2>2, <2>3, <2>4, <2>5 DEF Lies
<1>10. \A k \in DOMAIN items' : Lies(k)' BY <1>1, <1>4, <1>8, <1>9
<1>11. End' \in Nat BY <1>3, <1>7
<1> QED BY <1>7, <1>10, <1>11 DEF Filed

\* The list grows by the caller's item, unless it is left out.
LEMMA ListedNext ==
  ASSUME CallerTypes, Listed, UNCHANGED <<work, skip>>, cur \in DOMAIN work, cur \notin skip,
         NEW h \in Nat, cur' = cur + 1, items' = Append(items, <<cur, h>>)
  PROVE  Listed'
<1>0. PICK n \in Nat : n = Len(items) BY DEF Listed
<1>1. /\ items \in Seq((DOMAIN work) \X Nat) /\ n \in Nat /\ DOMAIN items = 1 .. n
      /\ DOMAIN work = 1 .. Len(work) /\ cur \in Nat
  BY <1>0, WorkFacts DEF Listed
<1>2. /\ items' \in Seq((DOMAIN work) \X Nat) /\ DOMAIN items' = 1 .. n + 1
      /\ items'[n + 1] = <<cur, h>> /\ \A k \in 1 .. n : items'[k] = items[k]
  <2>1. <<cur, h>> \in (DOMAIN work) \X Nat OBVIOUS
  <2> QED BY <1>0, <1>1, <2>1
<1>3. \A k \in 1 .. n : /\ items'[k][1] = items[k][1] /\ items[k][1] < cur /\ items[k][1] \in Nat
                        /\ items[k][1] \notin skip
  <2>1. \A k \in 1 .. n : items[k] \in (DOMAIN work) \X Nat BY <1>1
  <2>2. \A k \in 1 .. n : items[k][1] \in DOMAIN work BY <2>1
  <2>3. \A i \in DOMAIN work : i \in Nat BY <1>1, WorkFacts
  <2>4. \A k \in 1 .. n : items[k][1] < cur /\ items[k][1] \notin skip BY <1>1 DEF Listed
  <2> QED BY <1>2, <2>2, <2>3, <2>4
<1>4. items'[n + 1][1] = cur BY <1>2
<1>5. \A k \in 1 .. n + 1 : items'[k][1] < cur' /\ items'[k][1] \notin skip'
  BY <1>1, <1>3, <1>4
<1>6. \A j, k \in 1 .. n + 1 : j < k => items'[j][1] < items'[k][1]
  <2> SUFFICES ASSUME NEW j \in 1 .. n + 1, NEW k \in 1 .. n + 1, j < k
               PROVE  items'[j][1] < items'[k][1]
    OBVIOUS
  <2>1. j \in 1 .. n BY <1>1
  <2>2. CASE k \in 1 .. n
    <3>1. items[j][1] < items[k][1] BY <1>1, <2>1, <2>2 DEF Listed
    <3> QED BY <1>3, <2>1, <2>2, <3>1
  <2>3. CASE k = n + 1 BY <1>3, <1>4, <2>1, <2>3
  <2> QED BY <1>1, <2>2, <2>3
<1>7. ASSUME NEW i \in 1 .. cur' - 1, i \notin skip'
      PROVE  \E k \in DOMAIN items' : items'[k][1] = i
  <2>1. CASE i = cur BY <1>1, <1>2, <1>4, <2>1
  <2>2. CASE i # cur
    <3>1. i \in 1 .. cur - 1 BY <1>1, <2>2
    <3>2. PICK k \in 1 .. n : items[k][1] = i BY <1>1, <1>7, <3>1 DEF Listed
    <3>3. k \in 1 .. n + 1 BY <1>1
    <3> QED BY <1>2, <1>3, <3>2, <3>3
  <2> QED BY <2>1, <2>2
<1> QED BY <1>2, <1>5, <1>6, <1>7 DEF Listed

\* It stays when an item further on is left out, or one that is left out is passed.
LEMMA ListedSame ==
  ASSUME CallerTypes, Listed, UNCHANGED <<work, items>>,
         \/ cur' = cur /\ skip' = skip
         \/ cur' = cur /\ cur <= mt /\ work[mt].kind = "file" /\ skip' = skip \cup {mt}
         \/ cur' = cur + 1 /\ cur \in skip /\ skip' = skip
  PROVE  Listed'
<1>1. /\ items \in Seq((DOMAIN work) \X Nat) /\ cur \in Nat /\ mt \in Nat
      /\ DOMAIN work = 1 .. Len(work)
  BY WorkFacts DEF Listed, CallerTypes
<1>2. \A k \in DOMAIN items : items[k][1] \in Nat /\ items[k][1] < cur /\ items[k][1] \notin skip
  <2>1. \A k \in DOMAIN items : items[k] \in (DOMAIN work) \X Nat BY <1>1
  <2> QED BY <1>1, <2>1 DEF Listed
<1>3. \A k \in DOMAIN items : items[k][1] < cur' /\ items[k][1] \notin skip' BY <1>1, <1>2
<1>4. ASSUME NEW i \in 1 .. cur' - 1, i \notin skip' PROVE \E k \in DOMAIN items : items[k][1] = i
  <2>1. i \in 1 .. cur - 1 /\ i \notin skip BY <1>1, <1>4
  <2> QED BY <2>1 DEF Listed
<1> QED BY <1>1, <1>3, <1>4 DEF Listed

\* The caller's steps: an error of the archive's stream remains, and a new failure is an error
\* of that stream, or the caller leaves Update2.
LEMMA CallerFailures ==
  ASSUME StreamTypes, Caller
  PROVE  /\ hres # "OK" => hres' = hres
         /\ failed => failed'
         /\ hres' # hres => failed'
         /\ failed' # failed => hres' # "OK" \/ ~Active'
<1> USE DEF archiveVars, StreamTypes
<1> DEFINE Goal == /\ hres # "OK" => hres' = hres
                   /\ failed => failed'
                   /\ hres' # hres => failed'
                   /\ failed' # failed => hres' # "OK" \/ ~Active'
<1>1. ASSUME UNCHANGED <<hres, failed>> PROVE Goal BY <1>1
<1>2. ASSUME NEW p, NEW c, Written(p, c) \/ NotWritten(c) PROVE Goal
  BY <1>2 DEF Written, NotWritten, Refused, Noted
<1>3. ASSUME UNCHANGED hres, failed', ~Active' PROVE Goal BY <1>3
<1>4. CASE PassOver \/ FileGone \/ StartFile \/ SkipItem \/ Lock \/ PopFailed \/ PopEarly
  BY <1>1, <1>4 DEF PassOver, FileGone, StartFile, SkipItem, Lock, PopFailed, PopEarly
<1>5. CASE CreateThreads \/ OpenFails
  <2>1. CASE UNCHANGED failed BY <1>1, <1>5, <2>1 DEF CreateThreads, OpenFails
  <2>2. CASE failed' # failed
    <3>1. failed' /\ mpc' = "stop" /\ UNCHANGED hres BY <1>5, <2>2 DEF CreateThreads, OpenFails, Leave
    <3> QED BY <1>3, <3>1 DEF Active
  <2> QED BY <2>1, <2>2
<1>6. CASE CopyItem
  <2>1. CASE \E c : Written(pos, c) \/ NotWritten(c) BY <1>2, <2>1
  <2>2. CASE UNCHANGED hres /\ failed' /\ mpc' = "stop" BY <1>3, <2>2 DEF Active
  <2> QED BY <1>6, <2>1, <2>2 DEF CopyItem, Leave
<1>7. CASE HeaderOfFinished BY <1>2, <1>7 DEF HeaderOfFinished
<1>8. CASE WriteBlocks BY <1>2, <1>8 DEF WriteBlocks
<1>9. CASE EndFinished BY <1>2, <1>9 DEF EndFinished
<1>10. CASE Unlock BY <1>1, <1>2, <1>10 DEF Unlock
<1>11. CASE PopCurrent BY <1>1, <1>2, <1>11 DEF PopCurrent
<1>12. CASE Replace BY <1>1, <1>2, <1>12 DEF Replace
<1>13. CASE WriteCentralDir
  <2>1. CASE \E c : Written(pos, c) \/ NotWritten(c) BY <1>2, <2>1
  <2>2. CASE UNCHANGED hres /\ failed' /\ mpc' = "stop" BY <1>3, <2>2 DEF Active
  <2> QED BY <1>13, <2>1, <2>2 DEF WriteCentralDir, Leave
<1>14. CASE \E t \in Threads : StopThread(t) \/ JoinThread(t)
  BY <1>1, <1>14 DEF StopThread, JoinThread
<1>15. CASE FinalFlush BY <1>1, <1>2, <1>15 DEF FinalFlush
<1> QED BY <1>4, <1>5, <1>6, <1>7, <1>8, <1>9, <1>10, <1>11, <1>12, <1>13, <1>14, <1>15 DEF Caller

\* The threads' steps: likewise, or Compress fails.
LEMMA ThreadFailures ==
  ASSUME StreamTypes, NEW t \in Threads, Coder(t) \/ CodeFails(t)
  PROVE  /\ hres # "OK" => hres' = hres
         /\ failed => failed'
         /\ hres' # hres => failed'
         /\ failed' # failed => hres' # "OK" \/ CodeFails(t)
<1> USE DEF archiveVars, StreamTypes
<1> DEFINE Goal == /\ hres # "OK" => hres' = hres
                   /\ failed => failed'
                   /\ hres' # hres => failed'
                   /\ failed' # failed => hres' # "OK" \/ CodeFails(t)
<1>1. ASSUME UNCHANGED <<hres, failed>> PROVE Goal BY <1>1
<1>2. ASSUME NEW p, NEW c, Written(p, c) \/ NotWritten(c) PROVE Goal
  BY <1>2 DEF Written, NotWritten, Refused, Noted
<1>3. CASE WaitCompress(t) \/ Fill(t) \/ StopWriting(t) \/ TakeSemaphore(t) \/ AllocateBlock(t)
           \/ Packed(t) \/ Push(t) \/ Post(t)
  BY <1>1, <1>3 DEF WaitCompress, Fill, StopWriting, TakeSemaphore, AllocateBlock, Packed, Push, Post
<1>4. CASE GoReal(t) BY <1>2, <1>4 DEF GoReal
<1>5. CASE WriteReal(t) BY <1>2, <1>5 DEF WriteReal
<1>6. CASE NextPass(t) BY <1>6 DEF NextPass, Rewind, Refused, Noted
<1>7. CASE CodeFails(t) BY <1>7 DEF CodeFails
<1> QED BY <1>3, <1>4, <1>5, <1>6, <1>7 DEF Coder

\* What Compress returns: a failure is known, or the thread has been told to stop.
LEMMA CompressReturns ==
  ASSUME IInv, Reported, NEW t \in Threads, Coder(t) \/ CodeFails(t)
  PROVE  \/ UNCHANGED result
         \/ /\ pc[t] \in {"run", "alloc"} /\ pc' = [pc EXCEPT ![t] = "push"]
            /\ \E r : /\ result' = [result EXCEPT ![t] = r]
                      /\ r # "OK" => failed' \/ stopEvent[t]
<1> DEFINE Fine(r) == result' = [result EXCEPT ![t] = r] /\ (r # "OK" => failed' \/ stopEvent[t])
<1>0. StreamTypes BY DEF IInv, Types
<1>1. hres' # "OK" => failed'
  BY <1>0, ThreadFailures DEF Reported
<1>3. \A c : NotWritten(c) => hres' # "OK" BY DEF NotWritten, Refused, Noted
<1>4. ASSUME NEW r, Returns(t, r), pc[t] \in {"run", "alloc"}, r # "OK" => failed' \/ stopEvent[t]
      PROVE  /\ pc[t] \in {"run", "alloc"} /\ pc' = [pc EXCEPT ![t] = "push"]
             /\ \E q : Fine(q)
  <2>1. Fine(r) BY <1>4 DEF Returns
  <2> QED BY <1>4, <2>1 DEF Returns
<1> USE DEF coderVars, threadVars
<1>5. CASE WaitCompress(t) \/ Fill(t) \/ TakeSemaphore(t) \/ Push(t) \/ Post(t)
  BY <1>5 DEF WaitCompress, Fill, TakeSemaphore, Push, Post
<1>6. CASE StopWriting(t)
  <2>1. Returns(t, "ABORT") /\ pc[t] = "run" /\ stopEvent[t] BY <1>6 DEF StopWriting, Waits
  <2> QED BY <1>4, <2>1
<1>7. CASE GoReal(t)
  <2>1. CASE UNCHANGED result BY <2>1
  <2>2. CASE Returns(t, "WRITE") /\ NotWritten(mem[t])
    <3>1. pc[t] = "run" BY <1>7 DEF GoReal, Waits
    <3> QED BY <1>1, <1>3, <1>4, <2>2, <3>1
  <2> QED BY <1>7, <2>1, <2>2 DEF GoReal
<1>8. CASE AllocateBlock(t)
  <2>1. free # 0 BY <1>8, BlockIsThere DEF AllocateBlock, IInv, Types, Memory
  <2> QED BY <1>8, <2>1 DEF AllocateBlock
<1>9. CASE WriteReal(t)
  <2>1. CASE UNCHANGED result BY <2>1
  <2>2. CASE Returns(t, "WRITE") /\ \E c : NotWritten(c)
    <3>1. pc[t] = "run" BY <1>9 DEF WriteReal
    <3> QED BY <1>1, <1>3, <1>4, <2>2, <3>1
  <2> QED BY <1>9, <2>1, <2>2 DEF WriteReal
<1>10. CASE NextPass(t)
  <2>1. CASE UNCHANGED result BY <2>1
  <2>2. CASE Returns(t, "WRITE") /\ Refused
    <3>1. pc[t] = "run" /\ hres' # "OK" BY <1>10, <2>2 DEF NextPass, Refused, Noted
    <3> QED BY <1>1, <1>4, <2>2, <3>1
  <2> QED BY <1>10, <2>1, <2>2 DEF NextPass
<1>11. CASE Packed(t)
  <2>1. Returns(t, "OK") /\ pc[t] = "run" BY <1>11 DEF Packed
  <2> QED BY <1>4, <2>1
<1>12. CASE CodeFails(t)
  <2>1. Returns(t, "FAIL") /\ pc[t] = "run" /\ failed' BY <1>12 DEF CodeFails
  <2> QED BY <1>4, <2>1
<1> QED BY <1>5, <1>6, <1>7, <1>8, <1>9, <1>10, <1>11, <1>12 DEF Coder

\* As long as Update2 goes on, a failure is not forgotten by a step that drops no result.
LEMMA ReportedStays ==
  ASSUME IInv, Reported, Active, Active', Caller, UNCHANGED <<ret, result, stopEvent, exit>>,
         \A t \in Threads : Failing(t) => Failing(t)'
  PROVE  Reported'
<1>1. StreamTypes BY DEF IInv, Types
<1>2. /\ hres # "OK" => hres' # "OK"
      /\ hres' # "OK" => failed'
      /\ failed => failed'
      /\ failed' # failed => hres' # "OK"
  BY <1>1, CallerFailures DEF Reported
<1>3. failed \in BOOLEAN /\ failed' \in BOOLEAN
  <2>1. [Next]_vars BY DEF Next
  <2> QED BY <1>1, <2>1, StreamTypesStep DEF StreamTypes
<1>4. ~Leaving' /\ mpc' # "create" BY DEF Active, Leaving
<1>5. ret = "OK" /\ \A t \in Threads : result[t] # "OK" => failed BY DEF Reported
<1>6. failed' => hres' # "OK" \/ \E t \in Threads : Failing(t)' BY <1>2, <1>3 DEF Reported
<1> QED BY <1>2, <1>4, <1>5, <1>6 DEF Reported

\* Update2 is left because of a failure.
LEMMA ReportedLeaves ==
  ASSUME Reported, failed', mpc' = "stop", ret' # "OK", UNCHANGED <<stopEvent, exit>>
  PROVE  Reported'
BY DEF Reported, Leaving, Active

\* An error of the archive's stream is a failure.
LEMMA RefusedFails == ASSUME StreamTypes, Reported, NEW c, NotWritten(c) PROVE failed' /\ hres' # "OK"
BY DEF StreamTypes, Reported, NotWritten, Refused, Noted

\* While fewer threads than there are have files, one is free.
LEMMA ThreadIsFree ==
  ASSUME Types, Life, Active, Len(order) < NumThreads PROVE FreeThreads # {}
<1>1. PICK n \in Nat : n = Len(order) /\ order \in Seq(Threads) /\ DOMAIN order = 1 .. n
  BY LenProperties DEF Types, CallerTypes
<1>2. SUFFICES ASSUME FreeThreads = {} PROVE FALSE OBVIOUS
<1>3. \A t \in Threads : \E k \in 1 .. n : order[k] = t BY <1>1, <1>2 DEF FreeThreads, Life, InOrder
<1> DEFINE f == [t \in Threads |-> CHOOSE k \in 1 .. n : order[k] = t]
<1>4. f \in [Threads -> 1 .. n] /\ \A t \in Threads : order[f[t]] = t BY <1>3
<1>5. IsFiniteSet(1 .. n) /\ Cardinality(1 .. n) = n
  <2>1. \A m \in Nat : IsFiniteSet(1 .. m) /\ Cardinality(1 .. m) = m BY FS_Interval
  <2> QED BY <2>1
<1> HIDE DEF f
<1>6. Cardinality(1 .. n) < Cardinality(Threads) => \E t, u \in Threads : t # u /\ f[t] = f[u]
  BY <1>4, <1>5, FiniteThreads, FS_PigeonHole
<1> QED BY <1>1, <1>4, <1>5, <1>6, FiniteThreads

\* The caller goes on to its next item, or leaves because of a failure.
LEMMA ReportedAhead ==
  ASSUME IInv, Reported, PassOver \/ FileGone \/ OpenFails \/ StartFile \/ SkipItem
  PROVE  Reported'
<1>1. Types /\ Life /\ Caller /\ Active
  BY DEF IInv, Caller, PassOver, FileGone, OpenFails, StartFile, SkipItem, Ahead, InTurn, Active
<1>2. CASE OpenFails
  BY <1>2, ReportedLeaves DEF OpenFails, Leave, threadVars, realVars, coderVars
<1>3. CASE PassOver \/ FileGone \/ SkipItem
  <2>1. UNCHANGED <<mpc, ret, result, stopEvent, exit, isFree, pc, done>>
    BY <1>3 DEF PassOver, FileGone, SkipItem, threadVars, realVars, coderVars, doneVars
  <2>2. \A t \in Threads : Failing(t) => Failing(t)' BY <2>1 DEF Failing, InDone
  <2>3. Active' BY <1>1, <2>1 DEF Active
  <2> QED BY <1>1, <2>1, <2>2, <2>3, ReportedStays
<1>4. CASE StartFile
  <2>1. FreeThreads # {} BY <1>1, <1>4, ThreadIsFree DEF StartFile, Ahead
  <2> DEFINE f == CHOOSE t \in FreeThreads : \A u \in FreeThreads : t <= u
  <2>2. f \in Threads /\ isFree[f] BY <2>1, FirstFree
  <2>3. /\ isFree' = [isFree EXCEPT ![f] = FALSE]
        /\ UNCHANGED <<mpc, ret, result, stopEvent, exit, pc, done>>
    BY <1>4, <2>1 DEF StartFile, doneVars
  <2> HIDE DEF f
  <2>4. \A t \in Threads : Failing(t) => Failing(t)'
    BY <1>1, <2>2, <2>3 DEF Failing, InDone, Types, ThreadTypes
  <2>5. Active' BY <1>1, <2>3 DEF Active
  <2> QED BY <1>1, <2>3, <2>4, <2>5, ReportedStays
<1> QED BY <1>2, <1>3, <1>4

\* The caller writes an item, or leaves because that fails.
LEMMA ReportedWrites ==
  ASSUME IInv, Reported,
         CopyItem \/ HeaderOfFinished \/ WriteBlocks \/ EndFinished \/ Unlock \/ Lock \/ Replace
  PROVE  Reported'
<1>1. Types /\ StreamTypes /\ Life /\ Turn /\ Stored /\ Caller /\ Active
  BY DEF IInv, Types, Caller, CopyItem, HeaderOfFinished, WriteBlocks, EndFinished, Unlock, Lock,
     Replace, InTurn, Active
<1>2. UNCHANGED <<result, stopEvent, exit, isFree, pc, done>>
  BY DEF CopyItem, HeaderOfFinished, WriteBlocks, EndFinished, Unlock, Lock, Replace,
     threadVars, realVars, coderVars, doneVars
<1>3. \A t \in Threads : Failing(t) => Failing(t)' BY <1>2 DEF Failing, InDone
<1>4. CASE Active' /\ ret' = ret BY <1>1, <1>2, <1>3, <1>4, ReportedStays
<1>5. CASE mpc' = "stop" /\ ret' # "OK" /\ failed' BY <1>2, <1>5, ReportedLeaves
<1>6. \A c : NotWritten(c) => failed' BY <1>1, RefusedFails
<1>7. CASE CopyItem BY <1>1, <1>4, <1>5, <1>6, <1>7 DEF CopyItem, Leave, Active
<1>8. CASE HeaderOfFinished \/ EndFinished \/ Replace
  BY <1>4, <1>5, <1>6, <1>8 DEF HeaderOfFinished, EndFinished, Replace, Leave, Active
<1>9. CASE WriteBlocks \/ Lock BY <1>4, <1>9 DEF WriteBlocks, Lock, Active
<1>10. CASE Unlock
  <2>1. cur < mt BY <1>1, <1>10, Behind DEF Unlock
  <2>2. order # <<>>
    BY <1>1, <1>10, <2>1, FirstIsCurrent DEF Unlock, InTurn, Packing
  <2> QED BY <1>4, <1>5, <1>6, <1>10, <2>2 DEF Unlock, Leave, Active
<1> QED BY <1>7, <1>8, <1>9, <1>10

\* The caller takes the result of a thread, and reports it if it is a failure.
LEMMA ReportedPops ==
  ASSUME IInv, Reported, PopFailed \/ PopEarly \/ PopCurrent
  PROVE  Reported'
<1>1. Types /\ StreamTypes /\ ThreadTypes /\ Life /\ Turn /\ Counted /\ Caller /\ Active /\ mpc = "pop"
  BY DEF IInv, Types, Caller, PopFailed, PopEarly, PopCurrent, Active
<1>2. done # <<>>
  <2>1. doneSem \in Nat /\ Cardinality(Posting) \in Nat
    BY <1>1, FiniteThreads, FS_Subset, FS_CardinalityType DEF Posting, ThreadTypes
  <2>2. Len(done) >= 1 BY <1>1, <2>1 DEF Counted
  <2> QED BY <2>2
<1>3. done' = Tail(done) /\ isFree' = [isFree EXCEPT ![Popped] = TRUE]
      /\ UNCHANGED <<result, stopEvent, exit, pc>>
  BY <1>2 DEF PopFailed, PopEarly, PopCurrent, PopFree, realVars
<1>4. /\ Popped \in Threads /\ InOrder(Popped)
      /\ \A t \in Threads : InDone(t)' <=> InDone(t) /\ t # Popped
      /\ pc[Popped] \in {"wait", "post"}
  BY <1>1, <1>2, <1>3, PoppedLife
<1>5. CASE PopFailed
  <2>1. result[Popped] # "OK" /\ mpc' = "stop" /\ ret' = result[Popped] /\ UNCHANGED failed
    BY <1>2, <1>5 DEF PopFailed, Leave
  <2>2. failed BY <1>1, <1>4, <2>1 DEF Reported
  <2> QED BY <1>3, <2>1, <2>2, ReportedLeaves
<1>6. CASE PopEarly \/ PopCurrent
  <2>1. result[Popped] = "OK" BY <1>6 DEF PopEarly, PopCurrent
  <2>2. \A t \in Threads : Failing(t) => Failing(t)'
    <3> SUFFICES ASSUME NEW t \in Threads, Failing(t) PROVE Failing(t)' OBVIOUS
    <3>1. t # Popped BY <2>1 DEF Failing
    <3> QED BY <1>1, <1>3, <1>4, <3>1 DEF Failing, ThreadTypes
  <2>3. \/ Active' /\ ret' = ret
        \/ mpc' = "stop" /\ ret' # "OK" /\ failed'
    <3>1. CASE PopEarly
      <4>1. Popped \in Range(order) BY <1>4 DEF InOrder, Range
      <4> QED BY <3>1, <4>1 DEF PopEarly, Active
    <3>2. CASE PopCurrent
      <4>1. item[Popped] = cur BY <1>1, <3>2 DEF PopCurrent, Turn, Current
      <4>2. \A c : NotWritten(c) => failed' BY <1>1, RefusedFails
      <4> QED BY <3>2, <4>1, <4>2 DEF PopCurrent, Leave, Active
    <3> QED BY <1>6, <3>1, <3>2
  <2> QED BY <1>1, <1>3, <2>2, <2>3, ReportedStays, ReportedLeaves
<1> QED BY <1>5, <1>6

\* When the caller has written all items, no thread has one.
LEMMA AllFree ==
  ASSUME IInv, mpc = "loop", cur > Len(work)
  PROVE  order = <<>> /\ cur = Len(work) + 1
         /\ \A t \in Threads : isFree[t] /\ pc[t] \in {"wait", "post"} /\ ~compressEvent[t]
<1>1. Types /\ CallerTypes /\ Life /\ Turn /\ Active BY DEF IInv, Types, Active
<1>2. /\ Len(work) \in Nat /\ cur \in 1 .. Len(work) + 1 /\ mt \in 1 .. Len(work) + 1
      /\ order \in Seq(Threads)
  BY <1>1, WorkFacts DEF CallerTypes
<1>3. cur = Len(work) + 1 BY <1>2
<1>4. \A k \in DOMAIN order : FALSE
  <2> SUFFICES ASSUME NEW k \in DOMAIN order PROVE FALSE OBVIOUS
  <2>1. item[order[k]] \in cur .. mt - 1 BY <1>1 DEF Turn, Inside, Low
  <2> QED BY <1>2, <1>3, <2>1
<1>5. order = <<>>
  <2> SUFFICES ASSUME order # <<>> PROVE FALSE OBVIOUS
  <2>1. Len(order) \in Nat \ {0} BY <1>2, EmptySeq
  <2>2. 1 \in DOMAIN order BY <1>2, <2>1
  <2> QED BY <1>4, <2>2
<1>6. \A t \in Threads : isFree[t] BY <1>1, <1>4 DEF Life, InOrder
<1> QED BY <1>1, <1>3, <1>5, <1>6 DEF Life

\* Update2 is left with success only when nothing has failed.
LEMMA ReportedAtEnd ==
  ASSUME IInv, Reported,
         WriteCentralDir \/ FinalFlush \/ \E t \in Threads : StopThread(t) \/ JoinThread(t)
  PROVE  Reported'
<1>1. Types /\ StreamTypes /\ Life BY DEF IInv, Types
<1>2. ASSUME NEW c, NotWritten(c) PROVE failed' /\ hres' # "OK" BY <1>1, <1>2, RefusedFails
<1>3. CASE WriteCentralDir
  <2>1. mpc = "loop" /\ cur > Len(work) /\ mpc' = "stop"
        /\ UNCHANGED <<stopEvent, exit, result, isFree, pc, done, compressEvent>>
    BY <1>3 DEF WriteCentralDir, Leave, threadVars, realVars, coderVars, doneVars
  <2>2. CASE ret' # "OK"
    <3>1. failed' BY <1>2, <1>3, <2>2 DEF WriteCentralDir, Leave
    <3> QED BY <2>1, <2>2, <3>1, ReportedLeaves
  <2>3. CASE ret' = "OK"
    <3>1. Written(pos, <<Directory>>) BY <1>3, <2>3 DEF WriteCentralDir, Leave
    <3>2. <<Directory>> # <<>> OBVIOUS
    <3>3. hres = "OK" /\ UNCHANGED <<hres, failed>> BY <3>1, <3>2 DEF Written
    <3>4. \A t \in Threads : isFree[t] /\ pc[t] \in {"wait", "post"} /\ ~compressEvent[t]
      BY <2>1, AllFree
    <3>5. ~failed BY <2>1, <3>3, <3>4 DEF Reported, Active, Failing
    <3>6. \A t \in Threads : Idle(t)' BY <2>1, <3>4 DEF Idle
    <3> QED BY <2>1, <2>3, <3>3, <3>5, <3>6 DEF Reported, Active, Leaving
  <2> QED BY <2>2, <2>3
<1>4. CASE FinalFlush
  <2>1. /\ mpc = "flush" /\ mpc' = "end"
        /\ UNCHANGED <<stopEvent, exit, pc, compressEvent>>
    BY <1>4 DEF FinalFlush, threadVars, realVars, coderVars
  <2>2. CASE UNCHANGED <<ret, hres, failed>>
    BY <2>1, <2>2 DEF Reported, Leaving, Active, Idle
  <2>3. CASE NotWritten(<<Directory>>) /\ ret' = "WRITE"
    BY <1>2, <2>1, <2>3 DEF Reported, Leaving, Active
  <2> QED BY <1>4, <2>2, <2>3 DEF FinalFlush, archiveVars
<1>5. CASE \E t \in Threads : StopThread(t)
  <2> PICK t \in Threads : StopThread(t) BY <1>5
  <2>1. /\ mpc = "stop" /\ mpc' = "join" /\ UNCHANGED <<ret, hres, failed, pc>>
        /\ exit' = [exit EXCEPT ![t] = TRUE]
        /\ stopEvent' = [stopEvent EXCEPT ![t] = StopsWriting(t)]
        /\ compressEvent' = [compressEvent EXCEPT ![t] = TRUE]
    BY DEF StopThread, archiveVars
  <2>2. \A u \in Threads : Idle(u) => Idle(u)' BY <1>1, <2>1 DEF Idle, Types, ThreadTypes
  <2>3. \A u \in Threads : stopEvent'[u] => exit'[u]
    BY <1>1, <2>1 DEF Reported, Types, ThreadTypes, RealTypes
  <2> QED BY <2>1, <2>2, <2>3 DEF Reported, Leaving, Active
<1>6. CASE \E t \in Threads : JoinThread(t)
  <2>1. /\ mpc = "join" /\ mpc' \in {"flush", "stop"}
        /\ UNCHANGED <<ret, hres, failed, stopEvent, exit, pc, compressEvent>>
    BY <1>6 DEF JoinThread, threadVars, realVars, coderVars, archiveVars
  <2> QED BY <2>1 DEF Reported, Leaving, Active, Idle
<1> QED BY <1>3, <1>4, <1>5, <1>6

\* A thread keeps the result of another, and the one that it is about to report.
LEMMA FailingStays ==
  ASSUME IInv, Reported, Active, NEW t \in Threads, Coder(t) \/ CodeFails(t), NEW u \in Threads, Failing(u)
  PROVE  Failing(u)'
<1>1. Types /\ ThreadTypes /\ Life BY DEF IInv, Types
<1>2. UNCHANGED <<isFree, exit>> BY ThreadFrame
<1>3. ~exit[u] /\ pc[u] \notin {"run", "alloc"} BY <1>1 DEF Failing, Life
<1>4. result'[u] = result[u]
  <2>1. CASE UNCHANGED result BY <2>1
  <2>2. CASE /\ pc[t] \in {"run", "alloc"} /\ pc' = [pc EXCEPT ![t] = "push"]
             /\ \E r : /\ result' = [result EXCEPT ![t] = r]
                       /\ r # "OK" => failed' \/ stopEvent[t]
    <3>1. u # t BY <1>3, <2>2
    <3> QED BY <1>1, <2>2, <3>1 DEF ThreadTypes
  <2> QED BY <2>1, <2>2, CompressReturns
<1>5. pc'[u] = "push" \/ InDone(u)'
  <2>1. CASE Begins(t)
    <3>1. UNCHANGED done BY <2>1 DEF Begins
    <3>2. pc[u] = "push" => u # t BY <2>1 DEF Begins
    <3>3. pc[u] = "push" => pc'[u] = "push" BY <1>1, <2>1, <3>2 DEF Begins, ThreadTypes
    <3> QED BY <3>1, <3>3 DEF Failing, InDone
  <2>2. CASE Packs(t)
    <3>1. UNCHANGED done BY <2>2 DEF Packs
    <3>2. u # t BY <1>3, <2>2 DEF Packs
    <3>3. pc'[u] = pc[u] BY <1>1, <2>2, <3>2 DEF Packs, ThreadTypes
    <3> QED BY <3>1, <3>3 DEF Failing, InDone
  <2>3. CASE Push(t)
    <3>1. done' = <<t>> \o done /\ pc' = [pc EXCEPT ![t] = "post"] BY <2>3 DEF Push
    <3>2. PICK n \in Nat : n = Len(done) /\ done \in Seq(Threads) /\ DOMAIN done = 1 .. n
      BY <1>1, LenProperties DEF ThreadTypes
    <3>3. DOMAIN done' = 1 .. n + 1 /\ done'[1] = t /\ \A k \in 1 .. n : done'[k + 1] = done[k]
      BY <3>1, <3>2
    <3>4. CASE u = t
      <4>1. 1 \in DOMAIN done' BY <3>2, <3>3
      <4> QED BY <3>3, <3>4, <4>1 DEF InDone
    <3>5. CASE u # t /\ pc[u] = "push" BY <1>1, <3>1, <3>5 DEF ThreadTypes
    <3>6. CASE InDone(u)
      <4>1. PICK k \in 1 .. n : done[k] = u BY <3>2, <3>6 DEF InDone
      <4>2. k + 1 \in DOMAIN done' /\ done'[k + 1] = u BY <3>2, <3>3, <4>1
      <4> QED BY <4>2 DEF InDone
    <3> QED BY <3>4, <3>5, <3>6 DEF Failing
  <2>4. CASE Post(t)
    <3>1. UNCHANGED done /\ pc[t] = "post" /\ pc' = [pc EXCEPT ![t] = "wait"] BY <2>4 DEF Post
    <3>2. pc[u] = "push" => pc'[u] = "push" BY <1>1, <3>1 DEF ThreadTypes
    <3> QED BY <3>1, <3>2 DEF Failing, InDone
  <2> QED BY <1>1, <2>1, <2>2, <2>3, <2>4, ThreadMoves DEF Reports
<1> QED BY <1>2, <1>4, <1>5 DEF Failing

\* A thread that fails is found.
LEMMA ReportedCodes ==
  ASSUME IInv, Reported, NEW t \in Threads, Coder(t) \/ CodeFails(t)
  PROVE  Reported'
<1>1. Types /\ ThreadTypes /\ RealTypes /\ StreamTypes /\ Life BY DEF IInv, Types
<1>2. UNCHANGED <<mpc, ret, isFree, exit>> BY ThreadFrame
<1>3. /\ hres # "OK" => hres' = hres
      /\ failed => failed'
      /\ hres' # hres => failed'
      /\ failed' # failed => hres' # "OK" \/ CodeFails(t)
  BY <1>1, ThreadFailures
<1>4. \A u \in Threads : stopEvent'[u] => exit'[u]
  <2>1. UNCHANGED stopEvent \/ stopEvent' = [stopEvent EXCEPT ![t] = FALSE]
    BY DEF Coder, CodeFails, WaitCompress, Fill, StopWriting, GoReal, TakeSemaphore,
       AllocateBlock, WriteReal, NextPass, Packed, Push, Post, Returns, threadVars, realVars
  <2> QED BY <1>1, <1>2, <2>1 DEF Reported, RealTypes
<1>5. hres' # "OK" \/ ret' # "OK" => failed' BY <1>2, <1>3 DEF Reported
<1>6. mpc # "create"
  <2> SUFFICES ASSUME mpc = "create" PROVE FALSE OBVIOUS
  <2>1. pc[t] = "none" BY <1>1 DEF Life
  <2> QED BY <2>1 DEF Coder, CodeFails, WaitCompress, Fill, StopWriting, GoReal, TakeSemaphore,
                AllocateBlock, WriteReal, NextPass, Packed, Push, Post, Waits
<1>7. Active => ret' = "OK" /\ \A u \in Threads : result'[u] # "OK" => failed'
  <2> SUFFICES ASSUME Active, NEW u \in Threads, result'[u] # "OK" PROVE failed'
    BY <1>2 DEF Reported
  <2>1. ~stopEvent[t] BY <1>1 DEF Reported, Life
  <2>2. result[u] # "OK" => failed BY DEF Reported
  <2>3. CASE UNCHANGED result BY <1>3, <2>2, <2>3
  <2>4. CASE \E r : /\ result' = [result EXCEPT ![t] = r]
                    /\ r # "OK" => failed' \/ stopEvent[t]
    <3>1. PICK r : result' = [result EXCEPT ![t] = r] /\ (r # "OK" => failed' \/ stopEvent[t])
      BY <2>4
    <3>2. u # t => result'[u] = result[u] BY <1>1, <3>1 DEF ThreadTypes
    <3>3. u = t => result'[u] = r BY <1>1, <3>1 DEF ThreadTypes
    <3> QED BY <1>3, <2>1, <2>2, <3>1, <3>2, <3>3
  <2> QED BY <2>3, <2>4, CompressReturns
<1>8. Active /\ failed' => hres' # "OK" \/ \E u \in Threads : Failing(u)'
  <2> SUFFICES ASSUME Active, failed', hres' = "OK" PROVE \E u \in Threads : Failing(u)'
    OBVIOUS
  <2>1. CASE failed
    <3>1. PICK u \in Threads : Failing(u) BY <1>3, <2>1 DEF Reported
    <3> QED BY <3>1, FailingStays
  <2>2. CASE ~failed
    <3>1. CodeFails(t) BY <1>3, <2>2
    <3>2. pc[t] = "run" /\ pc' = [pc EXCEPT ![t] = "push"] /\ result' = [result EXCEPT ![t] = "FAIL"]
      BY <3>1 DEF CodeFails, Returns
    <3>3. ~isFree[t] BY <1>1, <3>2 DEF Life
    <3> QED BY <1>1, <1>2, <3>2, <3>3 DEF Failing, ThreadTypes
  <2> QED BY <2>1, <2>2
<1>9. Leaving /\ ret = "OK" => ~failed' /\ \A u \in Threads : Idle(u)'
  <2> SUFFICES ASSUME Leaving, ret = "OK" PROVE ~failed' /\ \A u \in Threads : Idle(u)' OBVIOUS
  <2>1. ~failed /\ \A u \in Threads : Idle(u) BY DEF Reported
  <2>2. WaitCompress(t) \/ Post(t)
    BY <2>1 DEF Idle, Coder, CodeFails, WaitCompress, Fill, StopWriting, GoReal, TakeSemaphore,
       AllocateBlock, WriteReal, NextPass, Packed, Push, Post, Waits
  <2>3. CASE WaitCompress(t)
    <3>1. /\ UNCHANGED failed /\ exit[t]
          /\ compressEvent' = [compressEvent EXCEPT ![t] = FALSE]
          /\ pc' = [pc EXCEPT ![t] = "exited"]
      BY <2>1, <2>3 DEF WaitCompress, Idle
    <3> QED BY <1>1, <1>2, <2>1, <3>1 DEF Idle, ThreadTypes
  <2>4. CASE Post(t)
    <3>1. UNCHANGED <<failed, compressEvent>> /\ pc' = [pc EXCEPT ![t] = "wait"]
      BY <2>4 DEF Post, coderVars
    <3> QED BY <1>1, <1>2, <2>1, <3>1 DEF Idle, ThreadTypes
  <2> QED BY <2>2, <2>3, <2>4
<1> QED BY <1>2, <1>4, <1>5, <1>6, <1>7, <1>8, <1>9 DEF Reported, Active, Leaving

\* Every step keeps that failures are known and reported.
LEMMA ReportedStep == ASSUME IInv, Reported, [Next]_vars PROVE Reported'
<1>1. CASE CreateThreads
  <2>1. UNCHANGED <<hres, result, stopEvent, exit>> /\ mpc = "create"
    BY <1>1 DEF CreateThreads, archiveVars, coderVars, realVars
  <2>2. CASE UNCHANGED <<ret, failed>> /\ mpc' = "loop"
    BY <2>1, <2>2 DEF Reported, Active, Leaving
  <2>3. CASE failed' /\ mpc' = "stop" /\ ret' # "OK" BY <2>1, <2>3, ReportedLeaves
  <2> QED BY <1>1, <2>2, <2>3 DEF CreateThreads, Leave
<1>2. CASE UNCHANGED vars
  BY <1>2 DEF vars, given, callerVars, archiveVars, threadVars, doneVars, coderVars, memVars, realVars,
     Reported, Active, Leaving, Failing, InDone, Idle
<1> QED BY <1>1, <1>2, ReportedAhead, ReportedWrites, ReportedPops, ReportedAtEnd, ReportedCodes
        DEF Next, Caller, Finished

\* Cells are written at the end of the archive.
LEMMA AppendCells ==
  ASSUME arc \in Seq(Cells), NEW c \in Seq(Cells), NEW p, p = Len(arc), arc' = Put(arc, p, c)
  PROVE  /\ arc' \in Seq(Cells) /\ Len(arc') = Len(arc) + Len(c) /\ Len(arc) \in Nat /\ Len(c) \in Nat
         /\ \A j \in 1 .. Len(arc) : arc'[j] = arc[j]
         /\ \A j \in 1 .. Len(c) : arc'[Len(arc) + j] = c[j]
<1>1. PICK n \in Nat : n = Len(arc) BY LenProperties
<1>2. PICK m \in Nat : m = Len(c) BY LenProperties
<1>3. PICK q : q = Put(arc, n, c) OBVIOUS
<1>4. /\ q \in Seq(Cells) /\ Len(q) = IF n + Len(c) > Len(arc) THEN n + Len(c) ELSE Len(arc)
      /\ \A j \in 1 .. Len(arc) : j <= n \/ j > n + Len(c) => q[j] = arc[j]
      /\ \A j \in 1 .. Len(c) : q[n + j] = c[j]
  <2>1. arc \in Seq(Cells) /\ c \in Seq(Cells) /\ n \in Nat /\ n <= Len(arc) BY <1>1
  <2>2. /\ Put(arc, n, c) \in Seq(Cells)
        /\ Len(Put(arc, n, c)) = IF n + Len(c) > Len(arc) THEN n + Len(c) ELSE Len(arc)
        /\ \A j \in 1 .. Len(arc) : j <= n \/ j > n + Len(c) => Put(arc, n, c)[j] = arc[j]
        /\ \A j \in 1 .. Len(c) : Put(arc, n, c)[n + j] = c[j]
    BY <2>1, PutAt
  <2> QED BY <1>3, <2>2
<1>5. q = arc' BY <1>1, <1>3
<1>6. Len(q) = n + m /\ \A j \in 1 .. n : q[j] = arc[j] BY <1>1, <1>2, <1>4
<1> QED BY <1>1, <1>2, <1>4, <1>5, <1>6

\* What the archive holds, as long as nothing is written.
LEMMA HoldsSame ==
  ASSUME CallerTypes, Listed, Filed, UNCHANGED <<work, outSeq, items, cur, headerPos, curPos, arc, pos>>
  PROVE  /\ Filed' /\ End' = End
         /\ Between => Between'
         /\ \A h, p, n : Holds(h, p, n) => Holds(h, p, n)'
<1>1. Filed' /\ End' = End BY FiledSame DEF Filed
<1>2. Between => Between' BY <1>1 DEF Between
<1>3. \A h, p, n : Holds(h, p, n) => Holds(h, p, n)' BY <1>1 DEF Holds, Header, Data
<1> QED BY <1>1, <1>2, <1>3

\* The units that follow are written behind those that are there.
LEMMA HoldsMore ==
  ASSUME CallerTypes, Listed, Filed, UNCHANGED <<work, outSeq, items, cur, headerPos, curPos>>,
         NEW h, NEW p \in Nat, NEW a \in Nat, NEW b \in Nat, a <= b, Holds(h, p, a),
         NEW c, c = Piece(cur, p, a, b), Written(pos, c)
  PROVE  Filed' /\ End' = End /\ Holds(h, p, b)'
<1>1. cur \in Int /\ a \in Int /\ b \in Int /\ p \in Int /\ arc \in Seq(Cells) /\ End \in Nat
  BY WorkFacts DEF CallerTypes, Filed
<1>2. c \in Seq(Cells) /\ Len(c) = b - a
  <2>1. PICK i \in Int : i = cur BY <1>1
  <2>2. \A x, y \in Int : x <= y => Piece(i, p, x, y) \in Seq(Cells) /\ Len(Piece(i, p, x, y)) = y - x
    BY <1>1, PieceFacts
  <2>3. Piece(i, p, a, b) \in Seq(Cells) /\ Len(Piece(i, p, a, b)) = b - a BY <1>1, <2>2
  <2>4. c = Piece(i, p, a, b) BY <2>1
  <2> QED BY <2>3, <2>4
<1>3. \A j \in 1 .. b - a : c[j] = Data(cur, p, a + j) BY DEF Piece
<1>4. /\ headerPos = End /\ curPos = End + 1 /\ Len(arc) = End + 1 + a /\ pos = Len(arc)
      /\ arc[End + 1] = Header(cur, h) /\ \A j \in 1 .. a : arc[End + 1 + j] = Data(cur, p, j)
  BY DEF Holds
<1>5. arc' = Put(arc, pos, c) /\ pos' = pos + Len(c) BY DEF Written
<1>6. /\ arc' \in Seq(Cells) /\ Len(arc') = Len(arc) + Len(c)
      /\ \A j \in 1 .. Len(arc) : arc'[j] = arc[j]
      /\ \A j \in 1 .. Len(c) : arc'[Len(arc) + j] = c[j]
  BY <1>1, <1>2, <1>4, <1>5, AppendCells
<1>7. \A j \in 1 .. End : arc'[j] = arc[j] BY <1>1, <1>4, <1>6
<1>8. Filed' /\ End' = End BY <1>6, <1>7, FiledSame
<1>9. Len(arc') = End + 1 + b /\ pos' = Len(arc') BY <1>1, <1>2, <1>4, <1>5, <1>6
<1>10. arc'[End + 1] = Header(cur, h) BY <1>1, <1>4, <1>6
<1>11. ASSUME NEW j \in 1 .. b PROVE arc'[End + 1 + j] = Data(cur, p, j)
  <2>1. CASE j <= a
    <3>1. End + 1 + j \in 1 .. Len(arc) /\ j \in 1 .. a BY <1>1, <1>4, <2>1
    <3> QED BY <1>4, <1>6, <3>1
  <2>2. CASE j > a
    <3>1. PICK k \in 1 .. b - a : k = j - a BY <1>1, <2>2
    <3>2. arc'[Len(arc) + k] = c[k] BY <1>2, <1>6
    <3>3. Len(arc) + k = End + 1 + j /\ a + k = j BY <1>1, <1>4, <3>1
    <3> QED BY <1>3, <3>1, <3>2, <3>3
  <2> QED BY <1>1, <2>1, <2>2
<1>12. cur' = cur /\ headerPos' = headerPos /\ curPos' = curPos OBVIOUS
<1>13. Holds(h, p, b)' BY <1>4, <1>8, <1>9, <1>10, <1>11, <1>12 DEF Holds, Header, Data
<1> QED BY <1>8, <1>13

\* The header of the next item is written.
LEMMA HoldsHeader ==
  ASSUME CallerTypes, Listed, Filed, UNCHANGED <<work, outSeq, items, cur>>, Between,
         NEW h \in Int, NEW p, headerPos' = curPos, curPos' = curPos + 1,
         arc' = Put(arc, pos, <<Header(cur, h)>>), pos' = pos + 1
  PROVE  Filed' /\ End' = End /\ Holds(h, p, 0)'
<1>1. arc \in Seq(Cells) /\ End \in Nat /\ Len(arc) = End /\ pos = End /\ curPos = End
  BY DEF Filed, Between
<1>2. PICK c : c = <<Header(cur, h)>> /\ c \in Seq(Cells) /\ Len(c) = 1 /\ c[1] = Header(cur, h)
  <2>1. cur \in Int BY WorkFacts DEF CallerTypes
  <2>2. Header(cur, h) \in Cells BY <2>1 DEF Header, Cells
  <2>3. /\ <<Header(cur, h)>> \in Seq(Cells) /\ Len(<<Header(cur, h)>>) = 1
        /\ <<Header(cur, h)>>[1] = Header(cur, h)
    BY <2>2
  <2> QED BY <2>3
<1>3. /\ arc' \in Seq(Cells) /\ Len(arc') = Len(arc) + Len(c)
      /\ \A j \in 1 .. Len(arc) : arc'[j] = arc[j]
      /\ \A j \in 1 .. Len(c) : arc'[Len(arc) + j] = c[j]
  BY <1>1, <1>2, AppendCells
<1>4. Filed' /\ End' = End BY <1>1, <1>3, FiledSame
<1>5. arc'[End + 1] = Header(cur, h)
  <2>1. 1 \in 1 .. Len(c) BY <1>2
  <2> QED BY <1>1, <1>2, <1>3, <2>1
<1>6. Holds(h, p, 0)'
  <2>1. Len(arc') = End + 1 /\ pos' = End + 1 /\ curPos' = End + 1 /\ headerPos' = End
    BY <1>1, <1>2, <1>3
  <2>2. 1 .. 0 = {} /\ End + 1 + 0 = End + 1 BY <1>1
  <2>3. cur' = cur OBVIOUS
  <2> QED BY <1>4, <1>5, <2>1, <2>2, <2>3 DEF Holds, Header
<1> QED BY <1>4, <1>6

\* The file is whole.
LEMMA FileWhole ==
  ASSUME CallerTypes, cur \in DOMAIN work, work[cur].kind = "file", Filed,
         NEW s, s[End + 1] = Header(cur, Known(cur)),
         \A j \in 1 .. Size(cur) : s[End + 1 + j] = Data(cur, LastPass(cur), j),
         outSeq => s[End + 1 + Size(cur) + 1] = Descriptor(cur, Size(cur))
  PROVE  \A j \in 1 .. Len(Content(cur)) : s[End + j] = Content(cur)[j]
<1>0. PICK c : c = Content(cur) OBVIOUS
<1>1. PICK n \in Nat : n = Size(cur) BY ContentFacts
<1>2. /\ Len(c) = 1 + n + (IF outSeq THEN 1 ELSE 0)
      /\ c[1] = Header(cur, Known(cur))
      /\ \A j \in 1 .. n : c[1 + j] = Data(cur, LastPass(cur), j)
      /\ outSeq => c[n + 2] = Descriptor(cur, n)
  BY <1>0, <1>1, ContentFacts
<1>3. End \in Nat BY DEF Filed
<1> SUFFICES ASSUME NEW j \in 1 .. Len(c) PROVE s[End + j] = c[j] BY <1>0
<1>4. CASE j = 1 BY <1>2, <1>4
<1>5. CASE j \in 2 .. 1 + n
  <2>1. PICK k \in 1 .. n : j = 1 + k
    <3>1. j - 1 \in 1 .. n /\ j = 1 + (j - 1) BY <1>1, <1>5
    <3> QED BY <3>1
  <2>2. End + j = End + 1 + k BY <1>1, <1>3, <2>1
  <2> QED BY <1>1, <1>2, <2>1, <2>2
<1>6. CASE j > 1 + n
  <2>1. outSeq /\ j = n + 2 BY <1>1, <1>2, <1>6
  <2>2. End + j = End + 1 + n + 1 BY <1>1, <1>3, <2>1
  <2> QED BY <1>1, <1>2, <2>1, <2>2
<1> QED BY <1>1, <1>2, <1>4, <1>5, <1>6

\* What the first thread's file has in the archive stays, while that thread does not write.
LEMMA UnlockedSame ==
  ASSUME CallerTypes, Listed, Filed, UNCHANGED <<work, outSeq, items, cur, headerPos, curPos, arc, pos>>,
         NEW t, Unlocked(t), item'[t] = item[t], unlocked'[t] = unlocked[t], outAt'[t] = outAt[t],
         real'[t] = real[t], ~real[t] \/ (pass'[t] = pass[t] /\ wrote'[t] = wrote[t])
  PROVE  Unlocked(t)'
<1>1. End' = End BY FiledSame DEF Filed
<1>2. PICK n : n = InArchive(t) OBVIOUS
<1>3. InArchive(t)' = n BY <1>2 DEF InArchive
<1>4. n = 0 \/ pass'[t] = pass[t] BY <1>2 DEF InArchive
<1>5. /\ headerPos = End /\ curPos = End + 1 /\ Len(arc) = End + 1 + n /\ pos = Len(arc)
      /\ arc[End + 1] = Header(cur, -1)
      /\ \A j \in 1 .. n : arc[End + 1 + j] = Data(cur, pass[t], j)
  BY <1>2 DEF Unlocked, Holds
<1>6. \A j \in 1 .. n : arc[End + 1 + j] = Data(cur, pass'[t], j) BY <1>4, <1>5
<1>7. Holds(-1, pass[t], InArchive(t))' BY <1>1, <1>3, <1>5, <1>6 DEF Holds, Header, Data
<1> QED BY <1>1, <1>7 DEF Unlocked

\* Which thread is unlocked: it has the caller's file.
LEMMA FirstUnlocked ==
  ASSUME IInv, Sound, Active, last = cur, mpc \in {"loop", "lock", "pop"}
  PROVE  /\ 1 \in DOMAIN order /\ order # <<>>
         /\ order[1] \in Threads /\ InOrder(order[1]) /\ Unlocked(order[1]) /\ Packing(cur)
<1>1. Types /\ CallerTypes /\ Turn BY DEF IInv, Types
<1>2. order \in Seq(Threads) /\ order # <<>> /\ Unlocked(order[1])
  BY <1>1 DEF CallerTypes, Sound, Progress
<1>3. 1 \in DOMAIN order /\ order[1] \in Threads BY <1>2
<1>4. item[order[1]] = cur BY <1>2 DEF Unlocked
<1> QED BY <1>1, <1>2, <1>3, <1>4 DEF Turn, Inside, InOrder

\* No header of the caller's item has been written, unless a thread packs it.
LEMMA NothingYet ==
  ASSUME IInv, Sound, mpc = "loop", cur > Len(work) \/ ~Packing(cur)
  PROVE  last < cur /\ Between
<1>1. Active /\ CallerTypes BY DEF Active, IInv, Types
<1>2. last \in Nat /\ cur \in Nat /\ last <= Len(work) /\ Len(work) \in Nat /\ last <= cur
  BY <1>1, WorkFacts DEF CallerTypes, Sound, Progress
<1>3. cur > Len(work) => last < cur BY <1>2
<1>4. ~Packing(cur) => last # cur BY <1>1, FirstUnlocked
<1>5. last < cur BY <1>2, <1>3, <1>4
<1> QED BY <1>5 DEF Sound, Progress

\* The caller goes ahead of the items that it writes.
LEMMA ArchiveAhead ==
  ASSUME IInv, Sound, PassOver \/ FileGone \/ StartFile, Active'
  PROVE  Listed' /\ Filed' /\ Progress'
<1>1. CallerTypes /\ Types /\ ThreadTypes /\ RealTypes /\ Turn /\ Life /\ Active /\ mpc = "loop"
      /\ Listed /\ Filed /\ Progress
  BY DEF IInv, Types, PassOver, FileGone, StartFile, Ahead, Active, Sound
<1>2. /\ UNCHANGED <<work, outSeq, items, cur, last, headerPos, curPos, arc, pos, outAt, pass, wrote>>
      /\ mpc' = "loop"
  BY <1>1 DEF PassOver, FileGone, StartFile, Leave, Active, given, archiveVars, threadVars, realVars,
     coderVars
<1>3. Listed'
  <2>1. CASE PassOver \/ StartFile
    <3>1. UNCHANGED skip BY <2>1 DEF PassOver, StartFile
    <3> QED BY <1>1, <1>2, <3>1, ListedSame
  <2>2. CASE FileGone
    <3>1. cur <= mt BY <1>1 DEF Turn, Bounds
    <3>2. skip' = skip \cup {mt} /\ work[mt].kind = "file" BY <2>2 DEF FileGone
    <3> QED BY <1>1, <1>2, <3>1, <3>2, ListedSame
  <2> QED BY <2>1, <2>2
<1>4. Filed' /\ (Between => Between') BY <1>1, <1>2, HoldsSame
<1>5. ASSUME last = cur PROVE order' # <<>> /\ Unlocked(order[1])'
  <2>1. /\ 1 \in DOMAIN order /\ order # <<>> /\ order[1] \in Threads /\ InOrder(order[1])
        /\ Unlocked(order[1])
    BY <1>1, <1>5, FirstUnlocked
  <2>2. PICK t \in Threads : t = order[1] BY <2>1
  <2>3. ~isFree[t] BY <1>1, <2>1, <2>2 DEF Life
  <2>4. order' # <<>> /\ order'[1] = t /\ item'[t] = item[t] /\ unlocked'[t] = unlocked[t]
        /\ real'[t] = real[t]
    <3>1. CASE UNCHANGED <<order, threadVars>> BY <2>1, <2>2, <3>1 DEF threadVars, coderVars, realVars
    <3>2. ASSUME NEW u \in Threads, Starts(u), StartFile
          PROVE  order' # <<>> /\ order'[1] = t /\ item'[t] = item[t] /\ unlocked'[t] = unlocked[t]
                 /\ real'[t] = real[t]
      <4>1. u # t BY <2>3, <3>2 DEF Starts
      <4>2. order \in Seq(Threads) /\ order' = Append(order, u) BY <1>1, <3>2 DEF CallerTypes, Starts
      <4>3. order' # <<>> /\ order'[1] = t BY <2>1, <2>2, <4>2
      <4> QED BY <1>1, <3>2, <4>1, <4>3 DEF Starts, ThreadTypes, RealTypes
    <3>3. CASE PassOver \/ FileGone BY <3>1, <3>3 DEF PassOver, FileGone
    <3> QED BY <1>2, <3>2, <3>3, StartedOrNot
  <2>5. Unlocked(t)' BY <1>1, <1>2, <2>1, <2>2, <2>4, UnlockedSame
  <2>6. t = order'[1] BY <2>4
  <2> QED BY <2>4, <2>5, <2>6 DEF Unlocked, Holds, InArchive
<1>6. Progress' BY <1>1, <1>2, <1>4, <1>5 DEF Progress
<1> QED BY <1>3, <1>4, <1>6

\* An item that is left out is passed; a directory or an old item is written.
LEMMA ArchiveNext ==
  ASSUME IInv, Sound, SkipItem \/ CopyItem, Active'
  PROVE  Listed' /\ Filed' /\ Progress'
<1>1. CallerTypes /\ mpc = "loop" /\ Listed /\ Filed /\ cur \in 1 .. Len(work)
      /\ DOMAIN work = 1 .. Len(work) /\ Len(work) \in Nat
  <2>1. CallerTypes /\ mpc = "loop" /\ Listed /\ Filed /\ cur <= Len(work)
    BY DEF IInv, Types, SkipItem, CopyItem, InTurn, Sound
  <2> QED BY <2>1, WorkFacts DEF CallerTypes
<1>2. ~Packing(cur) BY DEF SkipItem, CopyItem, Packing
<1>3. last < cur /\ last \in Nat /\ Between BY <1>1, <1>2, NothingYet DEF CallerTypes
<1>4. UNCHANGED <<work, outSeq, skip, last>> /\ mpc' = "loop" /\ cur' = cur + 1
  BY <1>1 DEF SkipItem, CopyItem, Leave, Active, given, NextItem
<1>5. CASE SkipItem
  <2>1. UNCHANGED <<items, arc, pos, curPos>> /\ cur \in skip BY <1>5 DEF SkipItem, archiveVars
  <2>2. Listed' BY <1>1, <1>4, <2>1, ListedSame
  <2>3. Filed' /\ End' = End BY <1>1, <1>4, <2>1, FiledSame DEF Filed
  <2>4. Between' BY <1>3, <2>1, <2>3 DEF Between
  <2>5. Progress' BY <1>1, <1>3, <1>4, <2>4 DEF Progress
  <2> QED BY <2>2, <2>3, <2>5
<1>6. CASE CopyItem
  <2> DEFINE cells == IF work[cur].kind = "dir" THEN <<Header(cur, 0)>> ELSE <<Header(cur, 1), OldData(cur)>>
  <2>1. /\ work[cur].kind # "file" /\ headerPos' = curPos /\ curPos' = curPos + Len(cells)
        /\ arc' = Put(arc, pos, cells) /\ pos' = pos + Len(cells)
        /\ items' = Append(items, <<cur, headerPos'>>)
    BY <1>4, <1>6 DEF CopyItem, Leave, Written, NextItem
  <2>2. /\ work[cur].kind \in Kinds /\ Content(cur) \in Seq(Cells) /\ Len(Content(cur)) \in Nat
        /\ work[cur].kind = "dir" => Content(cur) = <<Header(cur, 0)>>
        /\ work[cur].kind = "old" => Content(cur) = <<Header(cur, 1), OldData(cur)>>
    BY <1>1, ContentFacts, ItemFacts
  <2>3. cells = Content(cur) BY <2>1, <2>2 DEF Kinds
  <2> HIDE DEF cells
  <2>4. PICK c : c = Content(cur) /\ c \in Seq(Cells) /\ Len(c) \in Nat BY <2>2
  <2>5. Len(arc) = End /\ pos = End /\ curPos = End /\ End \in Nat /\ arc \in Seq(Cells)
    BY <1>1, <1>3 DEF Between, Filed
  <2>6. arc' = Put(arc, pos, c) /\ pos = Len(arc) BY <2>1, <2>3, <2>4, <2>5
  <2>7. /\ arc' \in Seq(Cells) /\ Len(arc') = Len(arc) + Len(c)
        /\ \A j \in 1 .. Len(arc) : arc'[j] = arc[j]
        /\ \A j \in 1 .. Len(c) : arc'[Len(arc) + j] = c[j]
    BY <2>4, <2>5, <2>6, AppendCells
  <2>8. items' = Append(items, <<cur, End>>) BY <2>1, <2>5
  <2>9. cur \notin skip /\ cur \in DOMAIN work BY <1>1, <2>1 DEF Listed
  <2>10. Filed' /\ End' = End + Len(c) BY <1>1, <1>4, <2>4, <2>5, <2>7, <2>8, <2>9, FiledNext
  <2>11. Listed' BY <1>1, <1>4, <2>5, <2>8, <2>9, ListedNext
  <2>12. Between' BY <2>1, <2>3, <2>4, <2>5, <2>7, <2>10 DEF Between
  <2>13. Progress' BY <1>1, <1>3, <1>4, <2>12 DEF Progress
  <2> QED BY <2>10, <2>11, <2>13
<1> QED BY <1>5, <1>6

\* The item that is whole in the archive is listed.
LEMMA FileListed ==
  ASSUME CallerTypes, Listed, Filed, UNCHANGED <<work, outSeq, skip, last>>, cur \in DOMAIN work, cur \notin skip,
         work[cur].kind = "file", last <= cur, cur' = cur + 1, items' = Append(items, <<cur, End>>), mpc' = "loop",
         arc' \in Seq(Cells), Len(arc') = End + 1 + Size(cur) + (IF outSeq THEN 1 ELSE 0),
         pos' = Len(arc'), curPos' = Len(arc'),
         \A j \in 1 .. End : arc'[j] = arc[j],
         arc'[End + 1] = Header(cur, Known(cur)),
         \A j \in 1 .. Size(cur) : arc'[End + 1 + j] = Data(cur, LastPass(cur), j),
         outSeq => arc'[End + 1 + Size(cur) + 1] = Descriptor(cur, Size(cur))
  PROVE  Listed' /\ Filed' /\ Progress'
<1>1. End \in Nat BY DEF Filed
<1>2. Size(cur) \in Nat /\ Len(Content(cur)) = 1 + Size(cur) + (IF outSeq THEN 1 ELSE 0) BY ContentFacts
<1>3. Listed' BY <1>1, ListedNext
<1>4. \A j \in 1 .. Len(Content(cur)) : arc'[End + j] = Content(cur)[j]
  <2>1. PICK s : s = arc' OBVIOUS
  <2>2. /\ s[End + 1] = Header(cur, Known(cur))
        /\ \A j \in 1 .. Size(cur) : s[End + 1 + j] = Data(cur, LastPass(cur), j)
        /\ outSeq => s[End + 1 + Size(cur) + 1] = Descriptor(cur, Size(cur))
    BY <2>1
  <2>3. \A j \in 1 .. Len(Content(cur)) : s[End + j] = Content(cur)[j] BY <2>2, FileWhole
  <2> QED BY <2>1, <2>3
<1>5. Filed' /\ End' = End + Len(Content(cur)) BY <1>4, FiledNext
<1>6. Len(arc') = End + (1 + Size(cur) + (IF outSeq THEN 1 ELSE 0)) BY <1>1, <1>2
<1>7. Between' BY <1>2, <1>5, <1>6 DEF Between
<1>8. cur \in Nat /\ last \in Nat BY WorkFacts DEF CallerTypes
<1>9. Progress' BY <1>7, <1>8 DEF Progress
<1> QED BY <1>3, <1>5, <1>9

\* A file that was packed before its turn gets its header and its data.
LEMMA ArchiveFinished ==
  ASSUME IInv, Sound, HeaderOfFinished \/ WriteBlocks, Active', hres = "OK", hres' = "OK"
  PROVE  Listed' /\ Filed' /\ Progress'
<1>1. CallerTypes /\ Turn /\ Active /\ Listed /\ Filed
  BY DEF IInv, Types, HeaderOfFinished, WriteBlocks, InTurn, Active, Sound
<1>2. cur \in 1 .. Len(work) /\ DOMAIN work = 1 .. Len(work) /\ Len(work) \in Nat
  <2>1. CASE HeaderOfFinished
    BY <1>1, <2>1, WorkFacts DEF HeaderOfFinished, InTurn, CallerTypes
  <2>2. CASE WriteBlocks
    <3>1. cur < mt BY <1>1, <2>2 DEF WriteBlocks, Turn, Bounds
    <3> QED BY <1>1, <3>1, WorkFacts DEF CallerTypes
  <2> QED BY <2>1, <2>2
<1>3. UNCHANGED <<work, outSeq, skip, items, cur>>
  BY DEF HeaderOfFinished, WriteBlocks, given, callerVars
<1>4. Listed' BY <1>1, <1>3, ListedSame
<1>5. refs[cur].finished BY <1>1 DEF HeaderOfFinished, WriteBlocks, Turn, Current
<1>6. /\ refs[cur].data = Piece(cur, LastPass(cur), 0, Size(cur)) /\ refs[cur].pack = Size(cur)
  BY <1>2, <1>5 DEF Sound, Early, Waiting
<1>7. Known(cur)' = Known(cur) /\ LastPass(cur)' = LastPass(cur) /\ Size(cur)' = Size(cur)
  BY <1>3, SamePlaces
<1>8. PICK h : h = Known(cur) OBVIOUS
<1>9. PICK p : p = LastPass(cur) OBVIOUS
<1>10. CASE HeaderOfFinished
  <2>1. last < cur /\ Between BY <1>5, <1>10, NothingYet DEF HeaderOfFinished, InTurn, Packing
  <2>2. work[cur].kind = "file" BY <1>10 DEF HeaderOfFinished
  <2>3. mpc' = "blocks" /\ last' = cur BY <1>1, <1>10, <2>1 DEF HeaderOfFinished, Leave, Active
  <2>4. h = IF outSeq THEN -1 ELSE refs[cur].pack BY <1>6, <1>8 DEF Known
  <2>5. h \in Int BY <1>1, <1>2, <1>6, <2>2, <2>4, ContentFacts
  <2>6. /\ headerPos' = curPos /\ curPos' = curPos + 1
        /\ Written(pos, <<Header(cur, h)>>)
    BY <1>1, <1>10, <2>3, <2>4 DEF HeaderOfFinished, Leave
  <2>7. arc' = Put(arc, pos, <<Header(cur, h)>>) /\ pos' = pos + 1
    <3>1. Len(<<Header(cur, h)>>) = 1 OBVIOUS
    <3> QED BY <2>6, <3>1 DEF Written
  <2>8. Filed' /\ Holds(h, p, 0)' BY <1>1, <1>3, <2>1, <2>5, <2>6, <2>7, HoldsHeader
  <2>9. Holds(Known(cur), LastPass(cur), 0)' BY <1>3, <1>7, <1>8, <1>9, <2>8 DEF Holds, Header, Data
  <2>10. cur \in Nat BY <1>2
  <2>11. Progress' BY <1>3, <2>3, <2>9, <2>10 DEF Progress
  <2> QED BY <1>4, <2>8, <2>11
<1>11. CASE WriteBlocks
  <2>1. mpc = "blocks" /\ mpc' = "tail" /\ UNCHANGED <<last, headerPos, curPos>> /\ last <= cur
    BY <1>11 DEF WriteBlocks, callerVars, Sound, Progress
  <2>2. work[cur].kind = "file" BY <1>2, <1>5 DEF IInv, Stored
  <2>3. p \in Nat /\ Size(cur) \in Nat BY <1>1, <1>2, <1>9, <2>2, ContentFacts
  <2>4. PICK n \in Nat : n = Size(cur) BY <2>3
  <2>5. Holds(h, p, 0) BY <1>8, <1>9, <2>1 DEF Sound, Progress
  <2>6. ~NotWritten(refs[cur].data) BY DEF NotWritten, Refused, Noted
  <2>7. PICK c : c = refs[cur].data OBVIOUS
  <2>8. Written(pos, c) /\ c = Piece(cur, p, 0, n) BY <1>6, <1>9, <1>11, <2>4, <2>6, <2>7 DEF WriteBlocks
  <2>9. 0 \in Nat /\ 0 <= n BY <2>4
  <2>10. Filed' /\ Holds(h, p, n)' BY <1>1, <1>3, <2>1, <2>3, <2>4, <2>5, <2>8, <2>9, HoldsMore
  <2>11. Holds(Known(cur), LastPass(cur), Size(cur))'
    BY <1>3, <1>7, <1>8, <1>9, <2>4, <2>10 DEF Holds, Header, Data
  <2>12. Progress' BY <1>3, <2>1, <2>11 DEF Progress
  <2> QED BY <1>4, <2>10, <2>12
<1> QED BY <1>10, <1>11

\* The end of such a file.
LEMMA ArchiveEnded ==
  ASSUME IInv, Sound, EndFinished, Active', hres' = "OK"
  PROVE  Listed' /\ Filed' /\ Progress'
<1>1. CallerTypes /\ Turn /\ Active /\ Listed /\ Filed /\ mpc = "tail"
  BY DEF IInv, Types, EndFinished, Active, Sound
<1>2. cur \in DOMAIN work
  <2>1. cur < mt BY <1>1 DEF Turn, Bounds
  <2> QED BY <1>1, <2>1, WorkFacts DEF CallerTypes
<1>3. refs[cur].finished BY <1>1 DEF Turn, Current
<1>4. work[cur].kind = "file" /\ cur \notin skip BY <1>2, <1>3 DEF IInv, Stored
<1>5. PICK n \in Nat : n = Size(cur) BY <1>1, <1>2, <1>4, ContentFacts
<1>6. refs[cur].pack = n
  <2>1. cur <= cur BY <1>1, WorkFacts DEF CallerTypes
  <2> QED BY <1>2, <1>3, <1>5, <2>1 DEF Sound, Early, Waiting
<1>7. PICK h, p : h = Known(cur) /\ p = LastPass(cur) OBVIOUS
<1>8. /\ headerPos = End /\ curPos = End + 1 /\ Len(arc) = End + 1 + n /\ pos = Len(arc)
      /\ arc[End + 1] = Header(cur, h)
      /\ \A j \in 1 .. n : arc[End + 1 + j] = Data(cur, p, j)
  BY <1>1, <1>5, <1>7 DEF Sound, Progress, Holds
<1>9. End \in Nat /\ arc \in Seq(Cells) BY <1>1 DEF Filed
<1>10. PICK c : c = IF outSeq THEN <<Descriptor(cur, n)>> ELSE <<>> OBVIOUS
<1>11. /\ mpc' = "loop" /\ cur' = cur + 1 /\ items' = Append(items, <<cur, headerPos>>)
       /\ arc' = Put(arc, pos, c) /\ pos' = pos + Len(c)
       /\ curPos' = headerPos + 1 + n + Len(c)
       /\ UNCHANGED <<work, outSeq, skip, last>>
  BY <1>6, <1>10 DEF EndFinished, Leave, Active, Written, NextItem, given
<1>12. c \in Seq(Cells) /\ Len(c) = (IF outSeq THEN 1 ELSE 0) /\ (outSeq => c[1] = Descriptor(cur, n))
  <2>1. cur \in Int BY <1>1, WorkFacts DEF CallerTypes
  <2>2. Descriptor(cur, n) \in Cells BY <1>5, <2>1 DEF Descriptor, Cells
  <2>3. /\ <<Descriptor(cur, n)>> \in Seq(Cells) /\ Len(<<Descriptor(cur, n)>>) = 1
        /\ <<Descriptor(cur, n)>>[1] = Descriptor(cur, n)
    BY <2>2
  <2>4. <<>> \in Seq(Cells) /\ Len(<<>>) = 0 OBVIOUS
  <2> QED BY <1>10, <2>3, <2>4
<1>13. /\ arc' \in Seq(Cells) /\ Len(arc') = Len(arc) + Len(c)
       /\ \A j \in 1 .. Len(arc) : arc'[j] = arc[j]
       /\ \A j \in 1 .. Len(c) : arc'[Len(arc) + j] = c[j]
  BY <1>8, <1>9, <1>11, <1>12, AppendCells
<1>14. Len(arc') = End + 1 + n + (IF outSeq THEN 1 ELSE 0) /\ pos' = Len(arc') /\ curPos' = Len(arc')
  BY <1>5, <1>8, <1>9, <1>11, <1>12, <1>13
<1>15. \A j \in 1 .. End : arc'[j] = arc[j] BY <1>5, <1>8, <1>9, <1>13
<1>16. arc'[End + 1] = Header(cur, h) BY <1>5, <1>8, <1>9, <1>13
<1>17. \A j \in 1 .. n : arc'[End + 1 + j] = Data(cur, p, j)
  <2>1. \A j \in 1 .. n : End + 1 + j \in 1 .. Len(arc) BY <1>5, <1>8, <1>9
  <2> QED BY <1>8, <1>13, <2>1
<1>18. outSeq => arc'[End + 1 + n + 1] = Descriptor(cur, n)
  <2>1. outSeq => 1 \in 1 .. Len(c) BY <1>12
  <2> QED BY <1>8, <1>12, <1>13, <2>1
<1>19. items' = Append(items, <<cur, End>>) BY <1>8, <1>11
<1>20. last <= cur BY DEF Sound, Progress
<1>21. Len(arc') = End + 1 + Size(cur) + (IF outSeq THEN 1 ELSE 0) BY <1>5, <1>14
<1>22. /\ arc'[End + 1] = Header(cur, Known(cur))
       /\ \A j \in 1 .. Size(cur) : arc'[End + 1 + j] = Data(cur, LastPass(cur), j)
       /\ outSeq => arc'[End + 1 + Size(cur) + 1] = Descriptor(cur, Size(cur))
  BY <1>5, <1>7, <1>16, <1>17, <1>18
<1> QED BY <1>1, <1>2, <1>4, <1>11, <1>13, <1>14, <1>15, <1>19, <1>20, <1>21, <1>22, FileListed

\* The end of a file whose thread has written it: the descriptor, or the header again.
LEMMA ArchiveReplaced ==
  ASSUME IInv, Sound, Replace, Active', hres' = "OK"
  PROVE  Listed' /\ Filed' /\ Progress'
<1>1. CallerTypes /\ Turn /\ Active /\ Listed /\ Filed /\ mpc = "replace"
  BY DEF IInv, Types, Replace, Active, Sound
<1>2. cur \in DOMAIN work
  <2>1. cur < mt BY <1>1 DEF Turn, Bounds
  <2> QED BY <1>1, <2>1, WorkFacts DEF CallerTypes
<1>3. work[cur].kind = "file" /\ cur \notin skip /\ last <= cur
  BY <1>1 DEF Sound, Progress, Packing
<1>4. PICK n \in Nat : n = Size(cur) BY <1>1, <1>2, <1>3, ContentFacts
<1>5. PICK p : p = LastPass(cur) OBVIOUS
<1>6. /\ headerPos = End /\ curPos = End + 1 /\ Len(arc) = End + 1 + n /\ pos = Len(arc)
      /\ arc[End + 1] = Header(cur, -1) /\ refs[cur].pack = n
      /\ \A j \in 1 .. n : arc[End + 1 + j] = Data(cur, p, j)
  BY <1>1, <1>4, <1>5 DEF Sound, Progress, Holds
<1>7. End \in Nat /\ arc \in Seq(Cells) BY <1>1 DEF Filed
<1>8. PICK x : x = IF outSeq THEN Descriptor(cur, n) ELSE Header(cur, n) OBVIOUS
<1>9. PICK q \in Nat : q = IF outSeq THEN Len(arc) ELSE End BY <1>7
<1>10. PICK c : c = <<x>> OBVIOUS
<1>11. /\ mpc' = "loop" /\ cur' = cur + 1 /\ items' = Append(items, <<cur, headerPos>>)
       /\ arc' = Put(arc, q, c)
       /\ pos' = IF outSeq THEN pos + 1 ELSE headerPos + 1 + n
       /\ curPos' = IF outSeq THEN headerPos + 1 + n + 1 ELSE headerPos + 1 + n
       /\ UNCHANGED <<work, outSeq, skip, last>>
  BY <1>6, <1>8, <1>9, <1>10 DEF Replace, Leave, Active, NextItem, given
<1>12. c \in Seq(Cells) /\ Len(c) = 1 /\ c[1] = x
  <2>1. cur \in Int BY <1>1, WorkFacts DEF CallerTypes
  <2>2. x \in Cells BY <1>4, <1>8, <2>1 DEF Descriptor, Header, Cells
  <2> QED BY <1>10, <2>2
<1>13. /\ arc' \in Seq(Cells)
       /\ Len(arc') = IF q + 1 > Len(arc) THEN q + 1 ELSE Len(arc)
       /\ \A j \in 1 .. Len(arc) : j <= q \/ j > q + 1 => arc'[j] = arc[j]
       /\ arc'[q + 1] = x
  <2>1. q <= Len(arc) BY <1>4, <1>6, <1>7, <1>9
  <2>2. /\ Put(arc, q, c) \in Seq(Cells)
        /\ Len(Put(arc, q, c)) = IF q + Len(c) > Len(arc) THEN q + Len(c) ELSE Len(arc)
        /\ \A j \in 1 .. Len(arc) : j <= q \/ j > q + Len(c) => Put(arc, q, c)[j] = arc[j]
        /\ \A j \in 1 .. Len(c) : Put(arc, q, c)[q + j] = c[j]
    BY <1>7, <1>12, <2>1, PutAt
  <2>3. 1 \in 1 .. Len(c) BY <1>12
  <2> QED BY <1>11, <1>12, <2>2, <2>3
<1>14. Len(arc') = End + 1 + n + (IF outSeq THEN 1 ELSE 0) /\ pos' = Len(arc') /\ curPos' = Len(arc')
  <2>1. CASE outSeq
    <3>1. q = Len(arc) /\ Len(arc') = Len(arc) + 1 BY <1>4, <1>6, <1>7, <1>9, <1>13, <2>1
    <3> QED BY <1>4, <1>6, <1>7, <1>11, <2>1, <3>1
  <2>2. CASE ~outSeq
    <3>1. q = End /\ Len(arc') = Len(arc) BY <1>4, <1>6, <1>7, <1>9, <1>13, <2>2
    <3> QED BY <1>4, <1>6, <1>7, <1>11, <2>2, <3>1
  <2> QED BY <2>1, <2>2
<1>15. \A j \in 1 .. End : arc'[j] = arc[j]
  <2>1. End <= q /\ q <= Len(arc) BY <1>4, <1>6, <1>7, <1>9
  <2>2. \A j \in 1 .. End : j \in 1 .. Len(arc) /\ j <= q BY <1>4, <1>6, <1>7, <1>9, <2>1
  <2> QED BY <1>13, <2>2
<1>16. arc'[End + 1] = Header(cur, Known(cur))
  <2>1. CASE outSeq BY <1>4, <1>6, <1>7, <1>9, <1>13, <2>1 DEF Known
  <2>2. CASE ~outSeq BY <1>4, <1>8, <1>9, <1>13, <2>2 DEF Known
  <2> QED BY <2>1, <2>2
<1>17. \A j \in 1 .. n : arc'[End + 1 + j] = Data(cur, p, j)
  <2>1. \A j \in 1 .. n : End + 1 + j \in 1 .. Len(arc) /\ (End + 1 + j <= q \/ End + 1 + j > q + 1)
    BY <1>4, <1>6, <1>7, <1>9
  <2> QED BY <1>6, <1>13, <2>1
<1>18. outSeq => arc'[End + 1 + n + 1] = Descriptor(cur, n) BY <1>6, <1>8, <1>9, <1>13
<1>19. items' = Append(items, <<cur, End>>) BY <1>6, <1>11
<1>20. Len(arc') = End + 1 + Size(cur) + (IF outSeq THEN 1 ELSE 0) BY <1>4, <1>14
<1>21. /\ \A j \in 1 .. Size(cur) : arc'[End + 1 + j] = Data(cur, LastPass(cur), j)
       /\ outSeq => arc'[End + 1 + Size(cur) + 1] = Descriptor(cur, Size(cur))
  BY <1>4, <1>5, <1>17, <1>18
<1> QED BY <1>1, <1>2, <1>3, <1>11, <1>13, <1>14, <1>15, <1>16, <1>19, <1>20, <1>21, FileListed

\* The header of a file that is being packed, whose thread may then write.
LEMMA ArchiveUnlocks ==
  ASSUME IInv, Shapes, Sound, Unlock, Active', hres = "OK", hres' = "OK"
  PROVE  Listed' /\ Filed' /\ Progress'
<1>1. Types /\ CallerTypes /\ RealTypes /\ Turn /\ Working /\ Active /\ Listed /\ Filed
      /\ mpc = "loop" /\ Packing(cur)
  BY DEF IInv, Types, Unlock, InTurn, Active, Sound, Packing
<1>2. cur < mt BY <1>1, Behind DEF Unlock
<1>3. 1 \in DOMAIN order /\ order # <<>> /\ item[order[1]] = cur BY <1>1, <1>2, FirstIsCurrent
<1>4. PICK t \in Threads : t = order[1] /\ item[t] = cur
  BY <1>1, <1>3 DEF CallerTypes
<1>5. cur \in Nat /\ last \in Nat /\ last <= cur /\ End \in Nat
  BY <1>1, WorkFacts DEF CallerTypes, Sound, Progress, Filed
<1>6. /\ UNCHANGED <<work, outSeq, skip, items, cur, order, item, pass, wrote, real>>
      /\ last' = cur /\ mpc' = "lock"
  BY <1>1, <1>3 DEF Unlock, given, coderVars, Leave, Active, realVars
<1>7. Listed' BY <1>1, <1>6, ListedSame
<1>8. CASE last < cur
  <2>1. Between BY <1>1, <1>8 DEF Sound, Progress
  <2>2. ~unlocked[t] BY <1>1, <1>3, <1>4, <1>5, <1>8 DEF Turn, OnlyFirst
  <2>3. ~real[t] BY <1>1, <2>2 DEF Working
  <2>4. unlocked[order[1]] = FALSE BY <1>1, <1>4, <2>2 DEF RealTypes
  <2>5. PICK c : c = <<Header(cur, -1)>> /\ Len(c) = 1
    <3>1. Len(<<Header(cur, -1)>>) = 1 OBVIOUS
    <3> QED BY <3>1
  <2>6. headerPos' = curPos /\ curPos' = curPos + 1
    BY <1>8, <2>5 DEF Unlock
  <2>7. /\ arc' = Put(arc, pos, c) /\ pos' = curPos'
        /\ unlocked' = [unlocked EXCEPT ![t] = TRUE]
        /\ outAt' = [outAt EXCEPT ![t] = curPos']
    BY <1>3, <1>4, <1>6, <1>8, <2>4, <2>5 DEF Unlock, InFront, Leave
  <2>8. arc' = Put(arc, pos, <<Header(cur, -1)>>) /\ pos' = pos + 1
    BY <2>1, <2>5, <2>6, <2>7 DEF Between
  <2>9. PICK p : p = pass[t] OBVIOUS
  <2>10. Filed' /\ End' = End /\ Holds(-1, p, 0)'
    <3>1. -1 \in Int OBVIOUS
    <3> QED BY <1>1, <1>6, <2>1, <2>6, <2>8, <3>1, HoldsHeader
  <2>11. /\ item'[t] = cur' /\ unlocked'[t] /\ outAt'[t] = End' + 1
         /\ InArchive(t)' = 0 /\ pass'[t] = p /\ order'[1] = t /\ order' # <<>>
    <3>1. DOMAIN outAt = Threads BY DEF Shapes
    <3> QED BY <1>1, <1>3, <1>4, <1>6, <2>1, <2>3, <2>6, <2>7, <2>9, <2>10, <3>1
            DEF InArchive, RealTypes, Between
  <2>12. Unlocked(order[1])' BY <2>10, <2>11 DEF Unlocked, Holds, Header, Data, InArchive
  <2>13. Progress' BY <1>5, <1>6, <2>11, <2>12 DEF Progress
  <2> QED BY <1>7, <2>10, <2>13
<1>9. CASE last = cur
  <2>1. Unlocked(order[1]) /\ Unlocked(t) BY <1>1, <1>4, <1>9, FirstUnlocked
  <2>2. unlocked[t] /\ unlocked[order[1]] BY <1>4, <2>1 DEF Unlocked
  <2>3. ~(last < cur) /\ curPos \in Nat
    <3>1. PICK p, n : Holds(-1, p, n) BY <2>1 DEF Unlocked
    <3> QED BY <1>5, <1>9, <3>1 DEF Holds
  <2>4. headerPos' = headerPos /\ curPos' = curPos
    <3>1. Len(<<>>) = 0 OBVIOUS
    <3> QED BY <2>3, <3>1 DEF Unlock
  <2>5. /\ UNCHANGED <<arc, pos>>
        /\ unlocked' = [unlocked EXCEPT ![t] = TRUE]
        /\ outAt' = [outAt EXCEPT ![t] = @]
    BY <1>3, <1>4, <1>6, <2>2, <2>3 DEF Unlock, InFront, Leave, NotWritten
  <2>6. unlocked'[t] = unlocked[t] /\ outAt'[t] = outAt[t]
    BY <1>1, <2>1, <2>5 DEF RealTypes, Unlocked
  <2>7. Filed' /\ Unlocked(t)'
    <3>1. UNCHANGED <<work, outSeq, items, cur, headerPos, curPos, arc, pos>>
          /\ item'[t] = item[t] /\ real'[t] = real[t] /\ pass'[t] = pass[t] /\ wrote'[t] = wrote[t]
      BY <1>6, <2>4, <2>5
    <3> QED BY <1>1, <2>1, <2>6, <3>1, UnlockedSame, HoldsSame
  <2>8. order' # <<>> /\ order'[1] = t BY <1>3, <1>4, <1>6
  <2>9. Unlocked(order[1])' BY <2>7, <2>8 DEF Unlocked, Holds, InArchive
  <2>10. Progress' BY <1>5, <1>6, <2>8, <2>9 DEF Progress
  <2> QED BY <1>7, <2>7, <2>10
<1> QED BY <1>5, <1>8, <1>9

\* The caller waits, and takes the data of a file whose turn has not come.
LEMMA ArchiveWaits ==
  ASSUME IInv, Sound, Lock \/ PopEarly, Active'
  PROVE  Listed' /\ Filed' /\ Progress'
<1>1. Types /\ CallerTypes /\ ThreadTypes /\ RealTypes /\ Turn /\ Life /\ Active /\ Listed /\ Filed
      /\ last = cur /\ mpc \in {"lock", "pop"}
  BY DEF IInv, Types, Lock, PopEarly, Active, Sound, Progress
<1>2. /\ 1 \in DOMAIN order /\ order # <<>> /\ order[1] \in Threads /\ Unlocked(order[1])
  BY <1>1, FirstUnlocked
<1>3. UNCHANGED <<work, outSeq, skip, items, cur, last, headerPos, curPos, arc, pos, item, pass, wrote,
                  real, unlocked, outAt>>
      /\ mpc' \in {"pop", "loop"}
  BY DEF Lock, PopEarly, given, callerVars, archiveVars, coderVars, realVars, Leave, Active
<1>4. Listed' BY <1>1, <1>3, ListedSame
<1>5. PICK t \in Threads : t = order[1] /\ Unlocked(t) BY <1>2
<1>6. Filed' /\ Unlocked(t)' BY <1>1, <1>3, <1>5, HoldsSame, UnlockedSame
<1>7. order' # <<>> /\ order'[1] = t
  <2>1. CASE Lock BY <1>2, <1>5, <2>1 DEF Lock, callerVars
  <2>2. CASE PopEarly
    <3>1. mpc' # "stop" BY <1>3
    <3>2. ~PopCurrent BY <2>2 DEF PopEarly, PopCurrent
    <3>3. PICK k \in DOMAIN order :
            /\ k # 1
            /\ DOMAIN order' = 1 .. Len(order) - 1
            /\ \A i \in DOMAIN order' : order'[i] = order[IF i < k THEN i ELSE i + 1]
      BY <1>1, <2>2, <3>1, <3>2, PopOrder
    <3>4. k \in 1 .. Len(order) /\ Len(order) \in Nat BY <1>1 DEF CallerTypes
    <3>5. 1 \in DOMAIN order' /\ 1 < k BY <3>3, <3>4
    <3>6. order'[1] = order[1] BY <3>3, <3>5
    <3>7. order' # <<>> BY <3>5
    <3> QED BY <1>5, <3>6, <3>7
  <2> QED BY <2>1, <2>2
<1>8. Unlocked(order[1])' BY <1>6, <1>7 DEF Unlocked, Holds, InArchive
<1>9. cur \in Nat BY <1>1, WorkFacts DEF CallerTypes
<1>10. Progress' BY <1>1, <1>3, <1>7, <1>8, <1>9 DEF Progress
<1> QED BY <1>4, <1>6, <1>10

\* A thread that has finished has made all of its file.
LEMMA PoppedMade ==
  ASSUME IInv, Sound, PopEarly \/ PopCurrent
  PROVE  /\ Popped \in Threads /\ Underway(Popped)
         /\ item[Popped] \in DOMAIN work /\ Packing(item[Popped])
         /\ pass[Popped] = LastPass(item[Popped]) /\ wrote[Popped] = Size(item[Popped])
         /\ pack[Popped] = wrote[Popped]
<1>1. Types /\ Life /\ Turn /\ Active /\ done # <<>> /\ done' = Tail(done) /\ result[Popped] = "OK"
  BY DEF IInv, PopEarly, PopCurrent, PopFree, Active
<1>2. /\ Popped \in Threads /\ ~isFree[Popped] /\ pc[Popped] \in {"wait", "post"}
      /\ ~compressEvent[Popped] /\ InOrder(Popped)
  BY <1>1, PoppedLife
<1>3. Underway(Popped) BY <1>2 DEF Sound, AllMade, MadeSoFar
<1>4. PICK k \in DOMAIN order : order[k] = Popped BY <1>2 DEF InOrder
<1>5. item[Popped] \in DOMAIN work /\ Packing(item[Popped]) BY <1>1, <1>4, PackingItem
<1> QED BY <1>1, <1>2, <1>3, <1>5 DEF Underway

\* The rest of the caller's file is written.
LEMMA ArchivePops ==
  ASSUME IInv, Sound, PopCurrent, Active', hres = "OK", hres' = "OK"
  PROVE  Listed' /\ Filed' /\ Progress'
<1>1. Types /\ CallerTypes /\ ThreadTypes /\ RefTypes /\ MemTypes /\ Turn /\ Life /\ Active /\ Listed /\ Filed
      /\ last = cur /\ mpc = "pop"
  BY DEF IInv, Types, PopCurrent, Active, Sound, Progress
<1>2. PICK t \in Threads : t = Popped BY PoppedMade
<1>3. Unlocked(t) /\ order[1] = t /\ item[t] = cur
  BY <1>1, <1>2, FirstUnlocked DEF PopCurrent, Unlocked
<1>4. /\ Underway(t) /\ cur \in DOMAIN work /\ Packing(cur)
      /\ pass[t] = LastPass(cur) /\ wrote[t] = Size(cur) /\ pack[t] = Size(cur)
  BY <1>2, <1>3, PoppedMade
<1>5. PICK n \in Nat, p \in Nat : n = Size(cur) /\ p = LastPass(cur)
  BY <1>1, <1>4, ContentFacts DEF Packing
<1>6. PICK c : c = mem[t] OBVIOUS
<1>7. c \in Seq(Cells) BY <1>1, <1>6 DEF MemTypes
<1>8. ~NotWritten(mem[t]) BY DEF NotWritten, Refused, Noted
<1>9. /\ Written(pos, c) /\ mpc' = "replace"
      /\ UNCHANGED <<work, outSeq, items, cur, skip, last, headerPos, curPos>>
      /\ refs' = [refs EXCEPT ![cur].pack = n]
  BY <1>2, <1>3, <1>4, <1>5, <1>6, <1>8 DEF PopCurrent, given
<1>10. Listed' BY <1>1, <1>9, ListedSame
<1>11. Filed' /\ Holds(-1, p, n)'
  <2>1. CASE real[t]
    <3>1. Len(c) = 0 BY <1>4, <1>6, <2>1 DEF Underway
    <3>2. Holds(-1, p, n) BY <1>3, <1>4, <1>5, <2>1 DEF Unlocked, InArchive
    <3>3. arc \in Seq(Cells) /\ pos = Len(arc) /\ pos \in Nat BY <1>1, <3>2 DEF Filed, Holds
    <3>4. Put(arc, pos, c) = arc
      <4>1. pos <= Len(arc) BY <3>3
      <4> QED BY <1>7, <3>1, <3>3, <4>1, PutEmpty
    <3>5. UNCHANGED <<arc, pos>> BY <1>9, <3>1, <3>3, <3>4 DEF Written
    <3> QED BY <1>1, <1>9, <3>2, <3>5, HoldsSame
  <2>2. CASE ~real[t]
    <3>1. c = Piece(cur, p, 0, n) BY <1>3, <1>4, <1>5, <1>6, <2>2 DEF Underway, Made
    <3>2. Holds(-1, p, 0) BY <1>3, <1>4, <1>5, <2>2 DEF Unlocked, InArchive
    <3>3. 0 \in Nat /\ 0 <= n OBVIOUS
    <3> QED BY <1>1, <1>9, <3>1, <3>2, <3>3, HoldsMore
  <2> QED BY <2>1, <2>2
<1>12. Size(cur)' = n /\ LastPass(cur)' = p /\ cur' = cur
  BY <1>5, <1>9, SamePlaces
<1>13. Holds(-1, LastPass(cur), Size(cur))' BY <1>11, <1>12 DEF Holds, Header, Data
<1>14. refs'[cur].pack = n /\ refs'[cur].finished = refs[cur].finished
  BY <1>1, <1>4, <1>9 DEF RefTypes, NoRef
<1>15. Packing(cur)' BY <1>4, <1>9, <1>14 DEF Packing
<1>16. cur \in Nat BY <1>1, WorkFacts DEF CallerTypes
<1>17. Progress' BY <1>1, <1>9, <1>12, <1>13, <1>14, <1>15, <1>16 DEF Progress
<1> QED BY <1>10, <1>11, <1>17

\* A thread that packs has its file.
LEMMA PackerHas ==
  ASSUME IInv, Sound, Active, NEW t \in Threads, pc[t] \in {"run", "alloc"}
  PROVE  /\ ~isFree[t] /\ ~compressEvent[t] /\ Underway(t)
         /\ item[t] \in DOMAIN work /\ work[item[t]].kind = "file"
         /\ Sizes(t) \in Seq(Nat) /\ pass[t] \in Nat /\ wrote[t] \in Nat
         /\ Sizes(t)[pass[t]] \in Nat /\ wrote[t] <= Sizes(t)[pass[t]]
<1>1. Types /\ CallerTypes /\ ThreadTypes /\ Life /\ Working BY DEF IInv, Types
<1>2. ~isFree[t] /\ ~compressEvent[t] BY <1>1 DEF Life
<1>3. Underway(t) BY <1>2 DEF Sound, AllMade, MadeSoFar
<1>4. Engaged(t) BY DEF Engaged
<1>5. item[t] \in DOMAIN work /\ work[item[t]].kind = "file" BY <1>1, <1>4 DEF Working
<1>6. Sizes(t) \in Seq(Nat) BY <1>1, <1>5, ItemFacts DEF Sizes
<1>7. pass[t] \in Nat /\ wrote[t] \in Nat BY <1>1 DEF ThreadTypes
<1>8. pass[t] \in 1 .. Len(Sizes(t)) /\ wrote[t] \in 0 .. Sizes(t)[pass[t]] BY <1>3 DEF Underway
<1>9. Sizes(t)[pass[t]] \in Nat BY <1>6, <1>8
<1> QED BY <1>2, <1>3, <1>5, <1>6, <1>7, <1>8, <1>9

\* A thread that writes to the archive packs the caller's file, whose header was written.
LEMMA WriterHas ==
  ASSUME IInv, Sound, Active, NEW t \in Threads, pc[t] \in {"run", "alloc"}, real[t] \/ realEvent[t]
  PROVE  /\ order # <<>> /\ order[1] = t /\ item[t] = cur /\ last = cur /\ Unlocked(t)
         /\ cur \in DOMAIN work /\ mpc \in {"loop", "lock", "pop"}
<1>1. Types /\ Life /\ Turn /\ Working BY DEF IInv
<1>2. unlocked[t] BY <1>1 DEF Working
<1>3. Engaged(t) BY DEF Engaged
<1>4. order # <<>> /\ order[1] = t /\ item[t] = cur /\ last = cur /\ Packing(cur)
  BY <1>1, <1>2, <1>3, WriterIsFirst
<1>5. mpc \notin {"blocks", "tail"} BY <1>1, <1>4 DEF Turn, Current, Packing
<1>6. mpc # "replace"
  <2> SUFFICES ASSUME mpc = "replace" PROVE FALSE OBVIOUS
  <2>1. 1 \in DOMAIN order BY <1>1, <1>4 DEF Types, CallerTypes
  <2>2. cur \in cur + 1 .. mt - 1 BY <1>1, <1>4, <2>1 DEF Turn, Inside, Low
  <2> QED BY <1>1, <2>2, WorkFacts DEF Types, CallerTypes
<1>7. mpc \in {"loop", "lock", "pop"} BY <1>5, <1>6 DEF Active
<1>8. Unlocked(t) BY <1>4, <1>7 DEF Sound, Progress
<1>9. cur \in DOMAIN work BY <1>4, PackerHas
<1> QED BY <1>4, <1>7, <1>8, <1>9

\* The steps of a thread that do not write to the archive.
LEMMA ArchiveQuiet ==
  ASSUME IInv, Sound, Active, UNCHANGED <<given, mpc, ret, callerVars, item, unlocked, outAt, arc, pos, real>>,
         \A u \in Threads : ~real[u] \/ (pass'[u] = pass[u] /\ wrote'[u] = wrote[u])
  PROVE  Listed' /\ Filed' /\ Progress'
<1> USE DEF given, callerVars
<1>1. Types /\ CallerTypes /\ Listed /\ Filed BY DEF IInv, Types, Sound
<1>2. Listed' BY <1>1, ListedSame
<1>3. Filed' /\ (Between => Between') /\ \A h, p, n : Holds(h, p, n) => Holds(h, p, n)' BY <1>1, HoldsSame
<1>4. ASSUME mpc \in {"loop", "lock", "pop"}, last = cur PROVE order' # <<>> /\ Unlocked(order[1])'
  <2>1. order # <<>> /\ order[1] \in Threads /\ Unlocked(order[1]) BY <1>4, FirstUnlocked
  <2>2. PICK t \in Threads : t = order[1] /\ Unlocked(t) BY <2>1
  <2>3. Unlocked(t)' BY <1>1, <2>2, UnlockedSame
  <2>4. t = order'[1] /\ order' # <<>> BY <2>1, <2>2
  <2> QED BY <2>3, <2>4 DEF Unlocked, Holds, InArchive
<1>5. /\ Known(cur)' = Known(cur) /\ LastPass(cur)' = LastPass(cur) /\ Size(cur)' = Size(cur)
  BY SamePlaces
<1>6. PICK k, l, s : k = Known(cur) /\ l = LastPass(cur) /\ s = Size(cur) OBVIOUS
<1>7. /\ mpc = "blocks" => Holds(k, l, 0)'
      /\ mpc = "tail" => Holds(k, l, s)'
      /\ mpc = "replace" => Holds(-1, l, s)' /\ refs[cur].pack = s /\ Packing(cur)
  BY <1>3, <1>6 DEF Sound, Progress
<1>8. /\ mpc' = "blocks" => Holds(Known(cur), LastPass(cur), 0)'
      /\ mpc' = "tail" => Holds(Known(cur), LastPass(cur), Size(cur))'
      /\ mpc' = "replace" => /\ Holds(-1, LastPass(cur), Size(cur))' /\ refs'[cur'].pack = Size(cur)'
                             /\ Packing(cur)'
  BY <1>5, <1>6, <1>7 DEF Holds, Header, Data, Packing
<1>9. last <= cur /\ (mpc = "loop" /\ last < cur => Between) /\ (mpc \in {"lock", "pop"} => last = cur)
  BY DEF Sound, Progress
<1>10. Progress' BY <1>3, <1>4, <1>8, <1>9 DEF Progress
<1> QED BY <1>2, <1>3, <1>10

\* What a thread writes to the archive follows what its file has there, or begins it again.
LEMMA ArchiveWriter ==
  ASSUME IInv, Sound, Active, NEW t \in Threads, pc[t] \in {"run", "alloc"}, real[t] \/ realEvent[t],
         UNCHANGED <<given, mpc, ret, callerVars, item, unlocked, outAt>>, NEW n, NEW p,
         wrote'[t] = n, pass'[t] = p, real'[t], Filed', Holds(-1, p, n)'
  PROVE  Listed' /\ Filed' /\ Progress'
<1> USE DEF given, callerVars
<1>1. Types /\ CallerTypes /\ Listed /\ Filed BY DEF IInv, Types, Sound
<1>2. Listed' BY <1>1, ListedSame
<1>3. order # <<>> /\ order[1] = t /\ last = cur /\ Unlocked(t) /\ mpc \in {"loop", "lock", "pop"}
  BY WriterHas
<1>4. End' = End BY SamePlaces
<1>5. Unlocked(t)'
  BY <1>3, <1>4 DEF Unlocked, InArchive, Holds, Data
<1>6. t = order'[1] /\ order' # <<>> BY <1>3
<1>7. Unlocked(order[1])' BY <1>5, <1>6 DEF Unlocked, Holds, InArchive
<1>8. cur \in Nat BY <1>1, WorkFacts DEF CallerTypes
<1>9. Progress' BY <1>3, <1>6, <1>7, <1>8 DEF Progress
<1> QED BY <1>2, <1>9

\* A thread's steps, as long as the archive's stream has no error.
LEMMA ArchiveCodes ==
  ASSUME IInv, Sound, Active, NEW t \in Threads, Coder(t) \/ CodeFails(t), hres = "OK", hres' = "OK"
  PROVE  Listed' /\ Filed' /\ Progress'
<1>1. Types /\ CallerTypes /\ ThreadTypes /\ RealTypes /\ MemTypes /\ Life /\ Working /\ Listed /\ Filed
  BY DEF IInv, Types, Sound
<1>2. UNCHANGED <<given, mpc, ret, callerVars, item, unlocked, outAt>> BY ThreadFrame
<1>3. \A c : ~NotWritten(c) /\ ~Refused BY DEF NotWritten, Refused, Noted
<1>4. UNCHANGED <<work, outSeq, items, cur, headerPos, curPos>> BY <1>2 DEF given, callerVars
<1>5. CASE UNCHANGED <<pass, wrote, real, arc, pos>> BY <1>2, <1>5, ArchiveQuiet
<1>6. CASE WaitCompress(t)
  <2>1. UNCHANGED <<arc, pos, real>> /\ pass' = [pass EXCEPT ![t] = 1] /\ wrote' = [wrote EXCEPT ![t] = 0]
    BY <1>6 DEF WaitCompress, archiveVars, realVars
  <2>2. ~exit[t] /\ compressEvent[t] /\ ~isFree[t] BY <1>1, <1>6 DEF WaitCompress, Life
  <2>3. ~real[t] BY <2>2 DEF Sound, AllMade, MadeSoFar, Fresh
  <2>4. \A u \in Threads : ~real[u] \/ (pass'[u] = pass[u] /\ wrote'[u] = wrote[u])
    BY <1>1, <2>1, <2>3 DEF ThreadTypes
  <2> QED BY <1>2, <2>1, <2>4, ArchiveQuiet
<1>7. CASE Fill(t)
  <2>1. UNCHANGED <<arc, pos, real, pass>> /\ ~real[t] BY <1>7 DEF Fill, archiveVars, realVars
  <2>2. \A u \in Threads : u # t => wrote'[u] = wrote[u] BY <1>1, <1>7 DEF Fill, ThreadTypes
  <2>3. \A u \in Threads : ~real[u] \/ (pass'[u] = pass[u] /\ wrote'[u] = wrote[u]) BY <2>1, <2>2
  <2> QED BY <1>2, <2>1, <2>3, ArchiveQuiet
<1>8. CASE GoReal(t)
  <2>1. pc[t] = "run" /\ realEvent[t] /\ ~real[t] BY <1>8 DEF GoReal, Waits
  <2>2. item[t] = cur /\ Unlocked(t) /\ Underway(t) /\ pass[t] \in Nat /\ wrote[t] \in Nat
    BY <2>1, WriterHas, PackerHas
  <2>3. PICK p \in Nat, n \in Nat : p = pass[t] /\ n = wrote[t] BY <2>2
  <2>4. PICK c : c = mem[t] OBVIOUS
  <2>5. c = Piece(cur, p, 0, n) BY <2>1, <2>2, <2>3, <2>4 DEF Underway, Made
  <2>6. Written(pos, c) /\ UNCHANGED <<pass, wrote>> /\ real' = [real EXCEPT ![t] = TRUE]
    BY <1>3, <1>8, <2>4 DEF GoReal
  <2>7. Holds(-1, p, 0) BY <2>1, <2>2, <2>3 DEF Unlocked, InArchive
  <2>8. 0 \in Nat /\ 0 <= n OBVIOUS
  <2>9. Filed' /\ Holds(-1, p, n)' BY <1>1, <1>4, <2>5, <2>6, <2>7, <2>8, HoldsMore
  <2>10. real'[t] BY <1>1, <2>6 DEF RealTypes
  <2> QED BY <1>2, <2>1, <2>3, <2>6, <2>9, <2>10, ArchiveWriter
<1>9. CASE WriteReal(t)
  <2>1. pc[t] = "run" /\ real[t] BY <1>9 DEF WriteReal
  <2>2. item[t] = cur /\ Unlocked(t) /\ pass[t] \in Nat /\ wrote[t] \in Nat
    BY <2>1, WriterHas, PackerHas
  <2>3. PICK p \in Nat, n \in Nat, m \in Nat : p = pass[t] /\ n = wrote[t] /\ m = n + 1 BY <2>2
  <2>4. PICK c : c = Piece(cur, p, n, m) OBVIOUS
  <2>5. Written(pos, c) /\ pass' = pass /\ UNCHANGED real /\ wrote' = [wrote EXCEPT ![t] = @ + 1]
    BY <1>3, <1>9, <2>2, <2>3, <2>4 DEF WriteReal, realVars
  <2>6. Holds(-1, p, n) BY <2>1, <2>2, <2>3 DEF Unlocked, InArchive
  <2>7. n <= m BY <2>3
  <2>8. Filed' /\ Holds(-1, p, m)' BY <1>1, <1>4, <2>4, <2>5, <2>6, <2>7, HoldsMore
  <2>9. wrote'[t] = m BY <1>1, <2>3, <2>5 DEF ThreadTypes
  <2> QED BY <1>2, <2>1, <2>3, <2>5, <2>8, <2>9, ArchiveWriter
<1>10. CASE NextPass(t) /\ real[t]
  <2>1. pc[t] = "run" /\ real[t] BY <1>10 DEF NextPass
  <2>2. Unlocked(t) BY <2>1, WriterHas
  <2>3. PICK p, n \in Nat : p = pass[t] /\ n = wrote[t] BY <2>1, PackerHas
  <2>4. /\ pos' = outAt[t] /\ arc' = SubSeq(arc, 1, outAt[t]) /\ UNCHANGED real
        /\ pass' = [pass EXCEPT ![t] = @ + 1] /\ wrote' = [wrote EXCEPT ![t] = 0]
    BY <1>3, <1>10 DEF NextPass, Rewind, realVars
  <2>5. /\ headerPos = End /\ curPos = End + 1 /\ Len(arc) = End + 1 + n /\ outAt[t] = End + 1
        /\ arc[End + 1] = Header(cur, -1)
    BY <2>1, <2>2, <2>3 DEF Unlocked, InArchive, Holds
  <2>6. End \in Nat /\ arc \in Seq(Cells) BY <1>1 DEF Filed
  <2>7. /\ arc' \in Seq(Cells) /\ Len(arc') = End + 1
        /\ \A j \in 1 .. End + 1 : arc'[j] = arc[j]
    <3>1. PICK m \in Nat : m = End + 1 BY <2>6
    <3>2. m <= Len(arc) /\ arc' = SubSeq(arc, 1, m) BY <2>3, <2>4, <2>5, <2>6, <3>1
    <3> QED BY <2>6, <3>1, <3>2
  <2>8. Filed' /\ End' = End
    <3>1. \A j \in 1 .. End : arc'[j] = arc[j] BY <2>6, <2>7
    <3> QED BY <1>1, <1>4, <2>7, <3>1, FiledSame
  <2>9. PICK q : q = pass'[t] OBVIOUS
  <2>10. Holds(-1, q, 0)' BY <1>4, <2>4, <2>5, <2>6, <2>7, <2>8 DEF Holds, Header
  <2>11. wrote'[t] = 0 /\ real'[t] BY <1>1, <2>1, <2>4 DEF ThreadTypes
  <2> QED BY <1>2, <2>1, <2>8, <2>9, <2>10, <2>11, ArchiveWriter
<1>11. CASE NextPass(t) /\ ~real[t]
  <2>1. /\ UNCHANGED <<arc, pos, real>>
        /\ pass' = [pass EXCEPT ![t] = @ + 1] /\ wrote' = [wrote EXCEPT ![t] = 0]
    BY <1>11 DEF NextPass, Rewind, realVars
  <2>2. \A u \in Threads : ~real[u] \/ (pass'[u] = pass[u] /\ wrote'[u] = wrote[u])
    BY <1>1, <1>11, <2>1 DEF ThreadTypes
  <2> QED BY <1>2, <2>1, <2>2, ArchiveQuiet
<1>12. CASE \/ StopWriting(t) \/ TakeSemaphore(t) \/ AllocateBlock(t) \/ Packed(t) \/ CodeFails(t)
            \/ Push(t) \/ Post(t)
  <2>1. UNCHANGED <<pass, wrote, real, arc, pos>>
    BY <1>12 DEF StopWriting, TakeSemaphore, AllocateBlock, Packed, CodeFails, Push, Post, Returns,
       archiveVars, realVars, coderVars
  <2> QED BY <1>5, <2>1
<1> QED BY <1>6, <1>7, <1>8, <1>9, <1>10, <1>11, <1>12 DEF Coder

-----------------------------------------------------------------------------
(* What the threads have made *)

\* What a thread has stays, when its step is another's.
LEMMA MadeSame ==
  ASSUME NEW t, MadeSoFar(t), work' = work, item'[t] = item[t], pass'[t] = pass[t], wrote'[t] = wrote[t],
         mem'[t] = mem[t], at'[t] = at[t], real'[t] = real[t], pack'[t] = pack[t],
         result'[t] = result[t], compressEvent'[t] = compressEvent[t],
         pc'[t] \in {"run", "alloc"} <=> pc[t] \in {"run", "alloc"}
  PROVE  MadeSoFar(t)'
BY DEF MadeSoFar, Fresh, Underway, Made, Sizes, LastPass, Size, Piece, Data

\* The caller's steps: a thread that begins has nothing yet.
LEMMA MadeCaller ==
  ASSUME IInv, Sound, Caller, Active, Active'
  PROVE  AllMade'
<1> SUFFICES ASSUME NEW t \in Threads, ~isFree'[t] PROVE MadeSoFar(t)'
  BY DEF AllMade
<1>1. Types /\ ThreadTypes /\ MemTypes /\ RealTypes /\ AllMade BY DEF IInv, Types, Sound
<1>2. work' = work
  <2>1. [Next]_vars BY DEF Next
  <2> QED BY <2>1, Steady DEF given
<1>3. ASSUME UNCHANGED <<isFree, item, pass, wrote, pack, result, compressEvent, pc, mem, at, real>>
      PROVE  MadeSoFar(t)'
  BY <1>1, <1>2, <1>3, MadeSame DEF AllMade
<1>4. CASE \/ PassOver \/ FileGone \/ OpenFails \/ SkipItem \/ CopyItem \/ HeaderOfFinished \/ WriteBlocks
           \/ Replace \/ WriteCentralDir \/ FinalFlush \/ (\E u \in Threads : JoinThread(u))
           \/ EndFinished \/ Lock
  <2>1. UNCHANGED <<isFree, item, pass, wrote, pack, result, compressEvent, pc, mem, at, real>>
    BY <1>4, CallerFrame DEF threadVars, coderVars, memVars, realVars
  <2> QED BY <1>3, <2>1
<1>5. CASE Unlock
  <2>1. UNCHANGED <<isFree, item, pass, wrote, pack, result, compressEvent, pc, mem, at, real>>
    BY <1>5 DEF Unlock, coderVars, memVars, realVars
  <2> QED BY <1>3, <2>1
<1>6. CASE StartFile
  <2>1. PICK u \in Threads : Starts(u) BY <1>6, StartedOrNot DEF Active
  <2>2. CASE t = u
    <3>1. compressEvent'[t] /\ mem'[t] = <<>> /\ at'[t] = 0 /\ ~real'[t]
      BY <1>1, <2>1, <2>2 DEF Starts, ThreadTypes, MemTypes, RealTypes
    <3> QED BY <3>1 DEF MadeSoFar, Fresh
  <2>3. CASE t # u
    <3>1. /\ isFree'[t] = isFree[t] /\ item'[t] = item[t] /\ mem'[t] = mem[t] /\ at'[t] = at[t]
          /\ real'[t] = real[t] /\ compressEvent'[t] = compressEvent[t]
          /\ UNCHANGED <<pc, pass, wrote, pack, result>>
      BY <1>1, <2>1, <2>3 DEF Starts, ThreadTypes, MemTypes, RealTypes
    <3> QED BY <1>1, <1>2, <3>1, MadeSame DEF AllMade
  <2> QED BY <2>2, <2>3
<1>7. CASE PopEarly \/ PopCurrent
  <2>1. /\ isFree' = [isFree EXCEPT ![Popped] = TRUE] /\ Popped \in Threads
        /\ UNCHANGED <<item, pass, wrote, pack, result, compressEvent, pc, at, real>>
    BY <1>1, <1>7, PoppedFacts, CallerFrame DEF PopEarly, PopCurrent, PopFree, realVars
  <2>2. mem' = [mem EXCEPT ![Popped] = <<>>]
    BY <1>7 DEF PopEarly, PopCurrent, Leave, Active, Emptied
  <2>3. t # Popped BY <1>1, <2>1 DEF ThreadTypes
  <2>4. isFree'[t] = isFree[t] /\ mem'[t] = mem[t] BY <1>1, <2>1, <2>2, <2>3 DEF ThreadTypes, MemTypes
  <2> QED BY <1>1, <1>2, <2>1, <2>4, MadeSame DEF AllMade
<1>8. CASE PopFailed \/ (\E u \in Threads : StopThread(u)) \/ CreateThreads
  BY <1>8 DEF PopFailed, StopThread, CreateThreads, Leave, Active
<1> QED BY <1>4, <1>5, <1>6, <1>7, <1>8 DEF Caller

\* What follows the units of a pass makes more of them.
LEMMA PieceGrows ==
  ASSUME NEW i \in Int, NEW p \in Int, NEW a \in Nat, NEW b \in Nat, a <= b
  PROVE  Put(Piece(i, p, 0, a), a, Piece(i, p, a, b)) = Piece(i, p, 0, b)
<1>1. PICK s, c, r : s = Piece(i, p, 0, a) /\ c = Piece(i, p, a, b) /\ r = Piece(i, p, 0, b) OBVIOUS
<1>2. /\ s \in Seq(Cells) /\ Len(s) = a /\ \A j \in 1 .. a : s[j] = Data(i, p, j)
      /\ r \in Seq(Cells) /\ Len(r) = b /\ \A j \in 1 .. b : r[j] = Data(i, p, j)
  BY <1>1, MadePiece
<1>3. c \in Seq(Cells) /\ Len(c) = b - a
  <2>1. \A x, y \in Int : x <= y => Piece(i, p, x, y) \in Seq(Cells) /\ Len(Piece(i, p, x, y)) = y - x
    BY PieceFacts
  <2>2. Piece(i, p, a, b) \in Seq(Cells) /\ Len(Piece(i, p, a, b)) = b - a BY <2>1
  <2> QED BY <1>1, <2>2
<1>4. \A j \in 1 .. b - a : c[j] = Data(i, p, a + j) BY <1>1 DEF Piece
<1>5. PICK q : q = Put(s, a, c) OBVIOUS
<1>6. /\ q \in Seq(Cells) /\ Len(q) = b
      /\ \A j \in 1 .. a : q[j] = s[j]
      /\ \A j \in 1 .. b - a : q[a + j] = c[j]
  <2>1. /\ Put(s, a, c) \in Seq(Cells)
        /\ Len(Put(s, a, c)) = IF a + Len(c) > Len(s) THEN a + Len(c) ELSE Len(s)
        /\ \A j \in 1 .. Len(s) : j <= a \/ j > a + Len(c) => Put(s, a, c)[j] = s[j]
        /\ \A j \in 1 .. Len(c) : Put(s, a, c)[a + j] = c[j]
    <3>1. a <= Len(s) BY <1>2
    <3> QED BY <1>2, <1>3, <3>1, PutAt
  <2> QED BY <1>2, <1>3, <1>5, <2>1
<1>7. \A j \in 1 .. b : q[j] = r[j]
  <2> SUFFICES ASSUME NEW j \in 1 .. b PROVE q[j] = r[j] OBVIOUS
  <2>1. CASE j <= a BY <1>2, <1>6, <2>1
  <2>2. CASE j > a
    <3>1. PICK k \in 1 .. b - a : k = j - a BY <2>2
    <3>2. a + k = j BY <3>1
    <3>3. q[a + k] = c[k] /\ c[k] = Data(i, p, a + k) BY <1>4, <1>6, <3>1
    <3> QED BY <1>2, <3>2, <3>3
  <2> QED BY <2>1, <2>2
<1>8. q = r BY <1>2, <1>6, <1>7, SeqEqual
<1> QED BY <1>1, <1>5, <1>8

\* A thread's step changes nothing that another has.
LEMMA OthersSame ==
  ASSUME Types, Shapes, NEW t \in Threads, Coder(t) \/ CodeFails(t), NEW u \in Threads, u # t
  PROVE  /\ pass'[u] = pass[u] /\ wrote'[u] = wrote[u] /\ mem'[u] = mem[u] /\ at'[u] = at[u]
         /\ real'[u] = real[u] /\ pack'[u] = pack[u] /\ result'[u] = result[u]
         /\ compressEvent'[u] = compressEvent[u] /\ pc'[u] = pc[u]
<1> USE DEF Types, ThreadTypes, RealTypes, MemTypes, Shapes, coderVars, memVars, realVars
<1>1. CASE WaitCompress(t) BY <1>1 DEF WaitCompress
<1>2. CASE Fill(t) BY <1>2 DEF Fill
<1>3. CASE StopWriting(t) BY <1>3 DEF StopWriting, Returns
<1>4. CASE GoReal(t) BY <1>4 DEF GoReal, Returns, Emptied
<1>5. CASE TakeSemaphore(t) BY <1>5 DEF TakeSemaphore
<1>6. CASE AllocateBlock(t) BY <1>6 DEF AllocateBlock, Returns
<1>7. CASE WriteReal(t) BY <1>7 DEF WriteReal, Returns
<1>8. CASE NextPass(t) BY <1>8 DEF NextPass, Rewind, Returns
<1>9. CASE Packed(t) BY <1>9 DEF Packed, Returns
<1>10. CASE CodeFails(t) BY <1>10 DEF CodeFails, Returns
<1>11. CASE Push(t) \/ Post(t) BY <1>11 DEF Push, Post
<1> QED BY <1>1, <1>2, <1>3, <1>4, <1>5, <1>6, <1>7, <1>8, <1>9, <1>10, <1>11 DEF Coder

\* The threads' steps: what a thread has made is in its memory or in the archive.
LEMMA MadeCodes ==
  ASSUME IInv, Shapes, Sound, Active, NEW t \in Threads, Coder(t) \/ CodeFails(t), hres = "OK", hres' = "OK"
  PROVE  AllMade'
<1>1. Types /\ CallerTypes /\ ThreadTypes /\ MemTypes /\ RealTypes /\ Life /\ Working /\ Memory /\ AllMade
  BY DEF IInv, Types, Sound
<1>2. UNCHANGED <<given, mpc, ret, callerVars, isFree, item, exit>> /\ work' = work
  BY ThreadFrame DEF given
<1>3. \A c : ~NotWritten(c) /\ ~Refused BY DEF NotWritten, Refused, Noted
<1>4. ASSUME NEW u \in Threads, u # t, ~isFree'[u] PROVE MadeSoFar(u)'
  <2>1. MadeSoFar(u) BY <1>1, <1>2, <1>4 DEF AllMade
  <2>2. item'[u] = item[u] BY <1>2
  <2>3. /\ pass'[u] = pass[u] /\ wrote'[u] = wrote[u] /\ mem'[u] = mem[u] /\ at'[u] = at[u]
        /\ real'[u] = real[u] /\ pack'[u] = pack[u] /\ result'[u] = result[u]
        /\ compressEvent'[u] = compressEvent[u] /\ pc'[u] = pc[u]
    BY <1>1, <1>4, OthersSame
  <2> QED BY <1>2, <2>1, <2>2, <2>3, MadeSame
<1> SUFFICES ASSUME ~isFree'[t] PROVE MadeSoFar(t)'
  BY <1>4 DEF AllMade
<1>5. PICK i : i = item[t] OBVIOUS
<1>6. item'[t] = i /\ ~isFree[t] /\ MadeSoFar(t) /\ ~exit[t]
  BY <1>1, <1>2, <1>5 DEF AllMade, Life
<1>7. ASSUME pc[t] \in {"run", "alloc"}
      PROVE  /\ ~compressEvent[t] /\ Underway(t) /\ i \in DOMAIN work /\ i \in Int
             /\ pass[t] \in Nat /\ wrote[t] \in Nat /\ Sizes(t) = work[i].sizes
             /\ work[i].sizes \in Seq(Nat)
             /\ pass[t] \in 1 .. Len(work[i].sizes) /\ wrote[t] \in 0 .. work[i].sizes[pass[t]]
             /\ work[i].sizes[pass[t]] \in Nat
             /\ mem[t] = IF real[t] THEN <<>> ELSE Piece(i, pass[t], 0, wrote[t])
             /\ pc[t] \in {"run", "alloc"} /\ ~real[t] => at[t] = wrote[t]
  <2>1. ~compressEvent[t] /\ Underway(t) /\ i \in DOMAIN work /\ pass[t] \in Nat /\ wrote[t] \in Nat
        /\ Sizes(t) = work[i].sizes /\ Sizes(t) \in Seq(Nat) /\ Sizes(t)[pass[t]] \in Nat
    BY <1>1, <1>5, <1>7, PackerHas DEF IInv, Sizes
  <2>2. i \in Int BY <1>1, <2>1, WorkFacts
  <2> QED BY <1>5, <1>7, <2>1, <2>2 DEF Underway, Made
\* What is to be shown when the thread goes on packing, and when it returns.
<1>8. ASSUME pc[t] \in {"run", "alloc"}, compressEvent' = compressEvent, pc'[t] \in {"run", "alloc"},
             pass'[t] \in 1 .. Len(work[i].sizes), wrote'[t] \in 0 .. work[i].sizes[pass'[t]],
             mem'[t] = IF real'[t] THEN <<>> ELSE Piece(i, pass'[t], 0, wrote'[t]),
             real'[t] \/ at'[t] = wrote'[t]
      PROVE  MadeSoFar(t)'
  BY <1>2, <1>6, <1>7, <1>8 DEF MadeSoFar, Underway, Made, Sizes, Piece, Data
<1>9. ASSUME NEW r, r # "OK", pc[t] \in {"run", "alloc"}, Returns(t, r), UNCHANGED <<mem, real>>
      PROVE  MadeSoFar(t)'
  <2>1. /\ result'[t] = r /\ pc'[t] = "push"
        /\ UNCHANGED <<compressEvent, pass, wrote>>
    BY <1>1, <1>9 DEF Returns, ThreadTypes
  <2> QED BY <1>2, <1>6, <1>7, <1>9, <2>1 DEF MadeSoFar, Underway, Made, Sizes, Piece, Data
<1>10. CASE WaitCompress(t)
  <2>1. /\ compressEvent[t] /\ pc'[t] = "run" /\ ~compressEvent'[t] /\ pass'[t] = 1 /\ wrote'[t] = 0
        /\ UNCHANGED <<mem, at, real>>
    BY <1>1, <1>6, <1>10 DEF WaitCompress, ThreadTypes, memVars, realVars
  <2>2. mem[t] = <<>> /\ at[t] = 0 /\ ~real[t] BY <1>6, <2>1 DEF MadeSoFar, Fresh
  <2>3. i \in DOMAIN work /\ work[i].kind = "file"
    <3>1. Engaged(t) BY <1>6, <1>10 DEF WaitCompress, Engaged
    <3> QED BY <1>1, <1>5, <3>1 DEF Working
  <2>4. work[i].sizes \in Seq(Nat) /\ Len(work[i].sizes) >= 1 BY <1>1, <2>3, ItemFacts
  <2>5. 1 \in 1 .. Len(work[i].sizes) /\ work[i].sizes[1] \in Nat BY <2>4
  <2>6. Piece(i, 1, 0, 0) = <<>>
    <3>1. i \in Int BY <1>1, <2>3, WorkFacts
    <3>2. 0 \in Nat /\ 1 \in Int OBVIOUS
    <3>3. Piece(i, 1, 0, 0) \in Seq(Cells) /\ Len(Piece(i, 1, 0, 0)) = 0 BY <3>1, <3>2, MadePiece
    <3> QED BY <3>3, EmptySeq
  <2>7. Underway(t)'
    <3>1. Made(t)' = Piece(i, 1, 0, 0) BY <1>6, <2>1 DEF Made, Piece, Data
    <3>2. Sizes(t)' = work[i].sizes BY <1>2, <1>6 DEF Sizes
    <3> QED BY <2>1, <2>2, <2>5, <2>6, <3>1, <3>2 DEF Underway
  <2> QED BY <2>1, <2>7 DEF MadeSoFar
<1>11. CASE Fill(t)
  <2>1. pc[t] = "run" /\ ~real[t] /\ pc' = pc /\ pass' = pass /\ UNCHANGED <<compressEvent, real>>
    BY <1>11 DEF Fill, realVars
  <2>2. PICK p \in Nat, w \in Nat, s \in Nat :
          /\ p = pass[t] /\ w = wrote[t] /\ s = work[i].sizes[p] /\ w <= s
          /\ p \in 1 .. Len(work[i].sizes) /\ at[t] = w /\ mem[t] = Piece(i, p, 0, w)
    BY <1>7, <2>1
  <2>3. PICK n : n = Smaller(Todo(t), held[t] * BlockSize - at[t]) OBVIOUS
  <2>4. Todo(t) = s - w BY <1>7, <2>1, <2>2 DEF Todo
  <2>5. PICK h \in Nat : h = held[t] * BlockSize /\ w <= h
    <3>1. held[t] \in Nat BY <1>1 DEF MemTypes
    <3>2. held[t] * BlockSize \in Nat BY <3>1, MoreRoom
    <3>3. Engaged(t) BY <2>1 DEF Engaged
    <3>4. at[t] <= held[t] * BlockSize BY <1>1, <2>1, <3>3 DEF Memory, Roomy
    <3> QED BY <2>2, <3>2, <3>4
  <2>6. n = Smaller(s - w, h - w) BY <2>2, <2>3, <2>4, <2>5
  <2>7. n \in Nat /\ n <= s - w BY <2>2, <2>5, <2>6 DEF Smaller
  <2>8. PICK b \in Nat : b = w + n /\ w <= b /\ b <= s BY <2>2, <2>7
  <2>9. /\ mem'[t] = Put(mem[t], at[t], Piece(i, p, w, b)) /\ at'[t] = b /\ wrote'[t] = b
    BY <1>1, <1>5, <1>11, <2>2, <2>3, <2>8 DEF Fill, MemTypes, ThreadTypes
  <2>10. Put(Piece(i, p, 0, w), w, Piece(i, p, w, b)) = Piece(i, p, 0, b)
    <3>1. i \in Int /\ p \in Int BY <1>7, <2>1, <2>2
    <3> QED BY <2>8, <3>1, PieceGrows
  <2>11. mem'[t] = Piece(i, p, 0, b) BY <2>2, <2>9, <2>10
  <2>12. b \in 0 .. s BY <2>8
  <2> QED BY <1>8, <2>1, <2>2, <2>9, <2>11, <2>12
<1>12. CASE StopWriting(t)
  <2>1. pc[t] = "run" /\ Returns(t, "ABORT") /\ UNCHANGED <<mem, real>>
    BY <1>12 DEF StopWriting, Waits, memVars
  <2> QED BY <1>9, <2>1
<1>13. CASE GoReal(t)
  <2>1. pc[t] = "run" /\ real'[t] /\ mem'[t] = <<>> /\ UNCHANGED <<pc, compressEvent, pass, wrote>>
    BY <1>1, <1>3, <1>13 DEF GoReal, Waits, Emptied, RealTypes, MemTypes
  <2> QED BY <1>7, <1>8, <2>1
<1>14. CASE TakeSemaphore(t)
  <2>1. /\ pc[t] = "run" /\ pc'[t] = "alloc"
        /\ UNCHANGED <<compressEvent, pass, wrote, mem, at, real>>
    BY <1>1, <1>14 DEF TakeSemaphore, Waits, coderVars, realVars, ThreadTypes
  <2> QED BY <1>7, <1>8, <2>1
<1>15. CASE AllocateBlock(t)
  <2>1. pc[t] = "alloc" /\ UNCHANGED <<mem, at, real>> BY <1>15 DEF AllocateBlock, realVars
  <2>2. CASE Returns(t, "INTERNAL") BY <1>9, <2>1, <2>2
  <2>3. CASE pc'[t] = "run" /\ UNCHANGED <<compressEvent, pass, wrote>> BY <1>7, <1>8, <2>1, <2>3
  <2> QED BY <1>1, <1>15, <2>2, <2>3 DEF AllocateBlock, ThreadTypes
<1>16. CASE WriteReal(t)
  <2>1. /\ pc[t] = "run" /\ real[t] /\ Todo(t) > 0 /\ wrote'[t] = wrote[t] + 1
        /\ UNCHANGED <<pc, compressEvent, pass, mem, real>>
    BY <1>1, <1>3, <1>16 DEF WriteReal, memVars, realVars, ThreadTypes
  <2>2. wrote[t] < work[i].sizes[pass[t]] BY <1>7, <2>1 DEF Todo
  <2>3. wrote'[t] \in 0 .. work[i].sizes[pass[t]] BY <1>7, <2>1, <2>2
  <2> QED BY <1>7, <1>8, <2>1, <2>3
<1>17. CASE NextPass(t)
  <2>1. /\ pc[t] = "run" /\ pass[t] < Len(work[i].sizes) /\ pass'[t] = pass[t] + 1 /\ wrote'[t] = 0
        /\ UNCHANGED <<pc, compressEvent, real>>
        /\ real[t] => mem'[t] = mem[t]
        /\ ~real[t] => mem'[t] = <<>> /\ at'[t] = 0
    <3>1. /\ pc[t] = "run" /\ pass[t] < Len(Sizes(t)) /\ Rewind(t)
          /\ pass' = [pass EXCEPT ![t] = @ + 1] /\ wrote' = [wrote EXCEPT ![t] = 0]
          /\ UNCHANGED <<pc, compressEvent, real>>
      BY <1>3, <1>17 DEF NextPass, realVars
    <3>2. pass'[t] = pass[t] + 1 /\ wrote'[t] = 0 BY <1>1, <3>1 DEF ThreadTypes
    <3>3. /\ real[t] => mem'[t] = mem[t]
          /\ ~real[t] => mem'[t] = <<>> /\ at'[t] = 0
      BY <1>1, <3>1 DEF Rewind, MemTypes
    <3> QED BY <1>7, <3>1, <3>2, <3>3
  <2>2. PICK p \in Nat : p = pass[t] + 1 BY <1>7, <2>1
  <2>3. p \in 1 .. Len(work[i].sizes) /\ work[i].sizes[p] \in Nat BY <1>7, <2>1, <2>2
  <2>4. Piece(i, p, 0, 0) = <<>>
    <3>1. 0 \in Nat /\ p \in Int /\ i \in Int BY <1>7, <2>1
    <3>2. Piece(i, p, 0, 0) \in Seq(Cells) /\ Len(Piece(i, p, 0, 0)) = 0 BY <3>1, MadePiece
    <3> QED BY <3>2, EmptySeq
  <2>5. pass'[t] = p /\ 0 \in 0 .. work[i].sizes[p] BY <2>1, <2>2, <2>3
  <2>6. mem'[t] = IF real'[t] THEN <<>> ELSE Piece(i, p, 0, 0) BY <1>7, <2>1, <2>4
  <2> QED BY <1>8, <2>1, <2>3, <2>5, <2>6
<1>18. CASE Packed(t)
  <2>1. /\ pc[t] = "run" /\ Todo(t) = 0 /\ pass[t] = Len(Sizes(t)) /\ pc'[t] = "push" /\ result'[t] = "OK"
        /\ pack'[t] = IF real[t] THEN pos - outAt[t] ELSE at[t]
        /\ UNCHANGED <<compressEvent, pass, wrote, mem, real>>
    BY <1>1, <1>18 DEF Packed, Returns, ThreadTypes, Shapes, memVars, realVars
  <2>2. wrote[t] = work[i].sizes[pass[t]] BY <1>7, <2>1 DEF Todo
  <2>3. pack'[t] = wrote[t]
    <3>1. CASE real[t]
      <4>1. Unlocked(t) BY <2>1, <3>1, WriterHas
      <4>2. PICK n \in Nat : n = wrote[t] BY <1>7, <2>1
      <4>3. pos = End + 1 + n /\ outAt[t] = End + 1 /\ End \in Nat
        BY <3>1, <4>1, <4>2 DEF Unlocked, Holds, InArchive, Sound, Filed
      <4> QED BY <2>1, <3>1, <4>2, <4>3
    <3>2. CASE ~real[t] BY <1>7, <2>1, <3>2
    <3> QED BY <3>1, <3>2
  <2>4. pass[t] = LastPass(i) /\ wrote[t] = Size(i) BY <1>7, <2>1, <2>2 DEF LastPass, Size
  <2>5. LastPass(i)' = LastPass(i) /\ Size(i)' = Size(i) BY <1>2 DEF LastPass, Size
  <2> QED BY <1>2, <1>6, <1>7, <2>1, <2>3, <2>4, <2>5
          DEF MadeSoFar, Underway, Made, Sizes, LastPass, Size, Piece, Data
<1>19. CASE CodeFails(t)
  <2>1. pc[t] = "run" /\ Returns(t, "FAIL") /\ UNCHANGED <<mem, real>> BY <1>19 DEF CodeFails, memVars, realVars
  <2> QED BY <1>9, <2>1
<1>20. CASE Push(t) \/ Post(t)
  <2>1. /\ pc[t] \in {"push", "post"} /\ pc'[t] \in {"post", "wait"}
        /\ UNCHANGED <<pass, wrote, mem, at, real, pack, result, compressEvent>>
    BY <1>1, <1>20 DEF Push, Post, coderVars, memVars, realVars, ThreadTypes
  <2> QED BY <1>2, <1>6, <2>1, MadeSame
<1> QED BY <1>10, <1>11, <1>12, <1>13, <1>14, <1>15, <1>16, <1>17, <1>18, <1>19, <1>20 DEF Coder

-----------------------------------------------------------------------------
(* Every step *)

\* The caller's steps keep the archive.
LEMMA ArchiveCaller ==
  ASSUME IInv, Shapes, Sound, Caller, Active, Active', hres = "OK", hres' = "OK"
  PROVE  Listed' /\ Filed' /\ Progress'
<1>1. ~CreateThreads /\ ~OpenFails /\ ~PopFailed /\ ~WriteCentralDir /\ ~FinalFlush
      /\ ~(\E t \in Threads : StopThread(t) \/ JoinThread(t))
  BY DEF CreateThreads, OpenFails, PopFailed, WriteCentralDir, FinalFlush, StopThread, JoinThread,
     Leave, Active
<1>2. CASE PassOver \/ FileGone \/ StartFile BY <1>2, ArchiveAhead
<1>3. CASE SkipItem \/ CopyItem BY <1>3, ArchiveNext
<1>4. CASE HeaderOfFinished \/ WriteBlocks BY <1>4, ArchiveFinished
<1>5. CASE EndFinished BY <1>5, ArchiveEnded
<1>6. CASE Replace BY <1>6, ArchiveReplaced
<1>7. CASE Unlock BY <1>7, ArchiveUnlocks
<1>8. CASE Lock \/ PopEarly BY <1>8, ArchiveWaits
<1>9. CASE PopCurrent BY <1>9, ArchivePops
<1> QED BY <1>1, <1>2, <1>3, <1>4, <1>5, <1>6, <1>7, <1>8, <1>9 DEF Caller

\* What waits for its turn was made by its thread, and stays.
LEMMA EarlyStep ==
  ASSUME IInv, Sound, [Next]_vars, Active, Active'
  PROVE  Early'
<1>1. Types /\ CallerTypes /\ RefTypes /\ Turn /\ Working /\ Early BY DEF IInv, Types, Sound
<1>2. work' = work /\ DOMAIN refs = DOMAIN work BY <1>1, Steady DEF given, RefTypes
<1>3. \A i : Size(i)' = Size(i) /\ LastPass(i)' = LastPass(i) BY <1>2 DEF Size, LastPass
<1>4. ASSUME NEW i \in DOMAIN work, Waiting(i), refs'[i].data = refs[i].data, refs'[i].pack = refs[i].pack
      PROVE  Waiting(i)'
  BY <1>3, <1>4 DEF Waiting, Piece, Data
<1>5. CASE UNCHANGED <<refs, cur>> BY <1>1, <1>2, <1>4, <1>5 DEF Early
<1>6. cur \in Nat /\ \A i \in DOMAIN work : i \in Nat BY <1>1, WorkFacts DEF CallerTypes
<1>7. CASE UNCHANGED refs /\ cur' = cur + 1
  <2> SUFFICES ASSUME NEW i \in DOMAIN work, refs[i].finished, cur + 1 <= i PROVE Waiting(i)'
    BY <1>2, <1>7 DEF Early
  <2>1. cur <= i BY <1>6
  <2> QED BY <1>1, <1>4, <1>7, <2>1 DEF Early
<1>8. CASE \/ PassOver \/ FileGone \/ StartFile \/ SkipItem \/ CopyItem \/ HeaderOfFinished \/ WriteBlocks
           \/ Unlock \/ Lock \/ Replace
  <2>1. UNCHANGED refs /\ (cur' = cur \/ cur' = cur + 1)
    BY <1>8 DEF PassOver, FileGone, StartFile, SkipItem, CopyItem, HeaderOfFinished, WriteBlocks,
       Unlock, Lock, Replace, callerVars, NextItem
  <2> QED BY <1>5, <1>7, <2>1
<1>9. CASE EndFinished
  <2>1. cur' = cur + 1 /\ refs' = [refs EXCEPT ![cur].data = <<>>, ![cur].blocks = 0]
    BY <1>9 DEF EndFinished, Leave, Active, NextItem
  <2> SUFFICES ASSUME NEW i \in DOMAIN work, refs'[i].finished, cur + 1 <= i PROVE Waiting(i)'
    BY <1>2, <2>1 DEF Early
  <2>2. i # cur /\ cur <= i BY <1>6
  <2>3. refs'[i] = refs[i] BY <1>2, <2>1, <2>2
  <2> QED BY <1>1, <1>4, <2>2, <2>3 DEF Early
<1>10. CASE PopCurrent
  <2>1. cur' = cur /\ refs' = [refs EXCEPT ![cur].pack = pack[Popped]] BY <1>10 DEF PopCurrent
  <2>2. ~refs[cur].finished
    <3>1. item[Popped] = cur
      <4>1. mpc' # "stop" BY DEF Active
      <4> QED BY <1>10, <4>1 DEF PopCurrent, Leave
    <3> QED BY <1>10, <3>1, PoppedMade DEF Packing
  <2> SUFFICES ASSUME NEW i \in DOMAIN work, refs'[i].finished, cur <= i PROVE Waiting(i)'
    BY <1>2, <2>1 DEF Early
  <2>3. refs'[i].finished = refs[i].finished BY <1>1, <1>2, <2>1 DEF RefTypes, NoRef
  <2>4. i # cur BY <2>2, <2>3
  <2>5. refs'[i] = refs[i] BY <1>2, <2>1, <2>4
  <2> QED BY <1>1, <1>4, <2>5 DEF Early
<1>11. CASE PopEarly
  <2>1. PICK t \in Threads, i \in DOMAIN work :
          /\ t = Popped /\ i = item[t] /\ Underway(t)
          /\ pass[t] = LastPass(i) /\ wrote[t] = Size(i) /\ pack[t] = wrote[t]
    BY <1>11, PoppedMade
  <2>2. /\ cur' = cur /\ order[1] # t
        /\ refs' = [refs EXCEPT ![i] = [finished |-> TRUE, data |-> mem[t],
                                        blocks |-> Blocks(Len(mem[t])), pack |-> pack[t]]]
    BY <1>11, <2>1 DEF PopEarly, Leave, Active
  <2>3. ~real[t]
    <3>1. InOrder(t) /\ PopEarly
      <4>1. done # <<>> /\ done' = Tail(done) BY <1>11 DEF PopEarly, PopFree
      <4> QED BY <1>1, <1>11, <2>1, <4>1, PoppedLife DEF IInv
    <3>2. PICK k \in DOMAIN order : order[k] = t BY <3>1 DEF InOrder
    <3>3. k # 1 BY <2>2, <3>2
    <3>4. ~unlocked[t] BY <1>1, <3>2, <3>3 DEF Turn, OnlyFirst
    <3> QED BY <1>1, <3>4 DEF Working
  <2>4. mem[t] = Piece(i, LastPass(i), 0, Size(i)) BY <2>1, <2>3 DEF Underway, Made
  <2> SUFFICES ASSUME NEW j \in DOMAIN work, refs'[j].finished, cur <= j PROVE Waiting(j)'
    BY <1>2, <2>2 DEF Early
  <2>5. CASE j = i
    <3>1. refs'[i].data = mem[t] /\ refs'[i].pack = pack[t] BY <1>2, <2>2
    <3> QED BY <1>3, <2>1, <2>4, <2>5, <3>1 DEF Waiting, Piece, Data
  <2>6. CASE j # i
    <3>1. refs'[j] = refs[j] BY <1>2, <2>2, <2>6
    <3> QED BY <1>1, <1>4, <3>1 DEF Early
  <2> QED BY <2>5, <2>6
<1>12. CASE \E t \in Threads : Coder(t) \/ CodeFails(t)
  <2>1. UNCHANGED <<refs, cur>> BY <1>12, ThreadFrame DEF callerVars
  <2> QED BY <1>5, <2>1
<1>13. CASE \/ CreateThreads \/ OpenFails \/ PopFailed \/ WriteCentralDir \/ FinalFlush
            \/ (\E t \in Threads : StopThread(t) \/ JoinThread(t))
  BY <1>13 DEF CreateThreads, OpenFails, PopFailed, WriteCentralDir, FinalFlush, StopThread, JoinThread,
     Leave, Active
<1>14. CASE UNCHANGED vars BY <1>5, <1>14 DEF vars, callerVars
<1> QED BY <1>8, <1>9, <1>10, <1>11, <1>12, <1>13, <1>14 DEF Next, Caller, Finished

\* Before the threads are created, nothing is.
LEMMA BlankStep ==
  ASSUME IInv, [Next]_vars, mpc' = "create" PROVE UNCHANGED vars
<1>1. CASE Caller
  BY <1>1 DEF Caller, CreateThreads, PassOver, FileGone, OpenFails, StartFile, SkipItem, CopyItem,
     HeaderOfFinished, WriteBlocks, EndFinished, Unlock, Lock, PopFailed, PopEarly, PopCurrent,
     Replace, WriteCentralDir, StopThread, JoinThread, FinalFlush, Leave, Ahead, InTurn
<1>2. ASSUME NEW t \in Threads, Coder(t) \/ CodeFails(t) PROVE FALSE
  <2>1. mpc = "create" BY <1>2, ThreadFrame
  <2>2. pc[t] = "none" BY <2>1 DEF IInv, Life
  <2> QED BY <1>2, <2>2 DEF Coder, CodeFails, WaitCompress, Fill, StopWriting, GoReal, TakeSemaphore,
     AllocateBlock, WriteReal, NextPass, Packed, Push, Post, Waits
<1> QED BY <1>1, <1>2 DEF Next, Finished

\* The arrays of the threads keep their size.
LEMMA ShapesStep ==
  ASSUME Shapes, [Next]_vars PROVE Shapes'
<1> USE DEF Shapes
<1>1. CASE UNCHANGED <<pack, outAt>> BY <1>1
<1>2. CASE Unlock BY <1>2 DEF Unlock, coderVars, realVars
<1>3. CASE PopCurrent BY <1>3 DEF PopCurrent
<1>4. CASE \E t \in Threads : Packed(t) BY <1>4 DEF Packed, realVars
<1>5. CASE Caller /\ ~Unlock /\ ~PopCurrent
  BY <1>1, <1>5 DEF Caller, CreateThreads, PassOver, FileGone, OpenFails, StartFile, SkipItem, CopyItem,
     HeaderOfFinished, WriteBlocks, EndFinished, Lock, PopFailed, PopEarly, Replace, WriteCentralDir,
     StopThread, JoinThread, FinalFlush, threadVars, coderVars, realVars
<1>6. CASE \E t \in Threads : (Coder(t) \/ CodeFails(t)) /\ ~Packed(t)
  BY <1>1, <1>6 DEF Coder, CodeFails, WaitCompress, Fill, StopWriting, GoReal, TakeSemaphore,
     AllocateBlock, WriteReal, NextPass, Push, Post, Returns, coderVars, realVars
<1>7. CASE UNCHANGED vars BY <1>1, <1>7 DEF vars, threadVars, coderVars, realVars
<1> QED BY <1>2, <1>3, <1>4, <1>5, <1>6, <1>7 DEF Next, Finished

\* Nothing is written to the archive that is complete.
LEMMA CompleteSame ==
  ASSUME CallerTypes, Complete, UNCHANGED <<given, callerVars, arc, pos, hres>>, hres = "OK"
  PROVE  Complete' /\ hres' = "OK"
<1> USE DEF given, callerVars
<1>1. Listed' BY ListedSame DEF Complete
<1>2. Filed' /\ End' = End BY FiledSame DEF Complete, Filed
<1> QED BY <1>1, <1>2 DEF Complete

\* The central directory completes the archive.
LEMMA DirectoryCompletes ==
  ASSUME IInv, Sound, WriteCentralDir, ret' = "OK"
  PROVE  Complete' /\ hres' = "OK"
<1>1. CallerTypes /\ mpc = "loop" /\ cur > Len(work) /\ Listed /\ Filed
  BY DEF IInv, Types, WriteCentralDir, Sound
<1>2. Between BY <1>1, NothingYet
<1>3. cur = Len(work) + 1 BY <1>1, AllFree
<1>4. PICK c : c = <<Directory>> OBVIOUS
<1>5. c \in Seq(Cells) /\ Len(c) = 1 /\ c[1] = Directory
  <2>1. Directory \in Cells BY DEF Directory, Cells
  <2> QED BY <1>4, <2>1
<1>6. Written(pos, c) /\ UNCHANGED <<given, cur, skip, items>> BY <1>4 DEF WriteCentralDir, Leave
<1>7. hres = "OK" /\ hres' = "OK" BY <1>4, <1>6 DEF Written
<1>8. Len(arc) = End /\ pos = End /\ End \in Nat /\ arc \in Seq(Cells) BY <1>1, <1>2 DEF Between, Filed
<1>9. /\ arc' \in Seq(Cells) /\ Len(arc') = Len(arc) + Len(c)
      /\ \A j \in 1 .. Len(arc) : arc'[j] = arc[j]
      /\ \A j \in 1 .. Len(c) : arc'[Len(arc) + j] = c[j]
  <2>1. arc' = Put(arc, pos, c) /\ pos = Len(arc) BY <1>6, <1>8 DEF Written
  <2> QED BY <1>5, <1>8, <2>1, AppendCells
<1>10. Filed' /\ End' = End BY <1>1, <1>6, <1>8, <1>9, FiledSame DEF given
<1>11. Listed' BY <1>1, <1>6, ListedSame DEF given
<1>12. Len(arc') = End + 1 /\ arc'[Len(arc')] = Directory
  <2>1. 1 \in 1 .. Len(c) BY <1>5
  <2> QED BY <1>5, <1>8, <1>9, <2>1
<1>13. cur' = Len(work') + 1 BY <1>3, <1>6 DEF given
<1> QED BY <1>7, <1>10, <1>11, <1>12, <1>13 DEF Complete

\* What is complete stays so until Update returns.
LEMMA CompleteStep ==
  ASSUME IInv, Reported, Archived, [Next]_vars, Leaving', ret' = "OK"
  PROVE  Complete' /\ hres' = "OK"
<1>1. Types /\ CallerTypes BY DEF IInv, Types
<1>2. ASSUME Leaving, ret = "OK", UNCHANGED <<given, callerVars, arc, pos, hres>> PROVE Complete' /\ hres' = "OK"
  BY <1>1, <1>2, CompleteSame DEF Archived
<1>3. CASE WriteCentralDir
  <2>1. Active /\ hres = "OK"
    <3>1. Written(pos, <<Directory>>) BY <1>3 DEF WriteCentralDir, Leave
    <3>2. <<Directory>> # <<>> OBVIOUS
    <3> QED BY <1>3, <3>1, <3>2 DEF Written, WriteCentralDir, Active
  <2> QED BY <1>3, <2>1, DirectoryCompletes DEF Archived
<1>4. CASE FinalFlush
  <2>1. Leaving BY <1>4 DEF FinalFlush, Leaving
  <2>2. ret = "OK" /\ UNCHANGED <<given, callerVars, arc, pos, hres>>
    BY <1>4 DEF FinalFlush, archiveVars
  <2> QED BY <1>2, <2>1, <2>2
<1>5. CASE \E t \in Threads : StopThread(t) \/ JoinThread(t)
  <2>1. Leaving BY <1>5 DEF StopThread, JoinThread, Leaving
  <2>2. ret = "OK" /\ UNCHANGED <<given, callerVars, arc, pos, hres>>
    BY <1>5 DEF StopThread, JoinThread, archiveVars
  <2> QED BY <1>2, <2>1, <2>2
<1>6. CASE PopFailed BY <1>6 DEF PopFailed, Leave, Leaving
<1>7. CASE \/ CreateThreads \/ PassOver \/ FileGone \/ OpenFails \/ StartFile \/ SkipItem \/ CopyItem
           \/ HeaderOfFinished \/ WriteBlocks \/ EndFinished \/ Unlock \/ Lock
           \/ PopEarly \/ PopCurrent \/ Replace
  BY <1>7 DEF CreateThreads, PassOver, FileGone, OpenFails, StartFile, SkipItem, CopyItem,
     HeaderOfFinished, WriteBlocks, EndFinished, Unlock, Lock, PopEarly, PopCurrent, Replace,
     Leave, Leaving, Ahead, InTurn
<1>8. ASSUME NEW t \in Threads, Coder(t) \/ CodeFails(t) PROVE Complete' /\ hres' = "OK"
  <2>1. UNCHANGED <<given, mpc, ret, callerVars>> BY <1>8, ThreadFrame
  <2>2. Leaving /\ ret = "OK" BY <2>1 DEF Leaving
  <2>3. Idle(t) BY <2>2 DEF Reported
  <2>4. WaitCompress(t) \/ Post(t)
    BY <1>8, <2>3 DEF Idle, Coder, CodeFails, Fill, StopWriting, GoReal, TakeSemaphore, AllocateBlock,
       WriteReal, NextPass, Packed, Push, Waits
  <2>5. UNCHANGED <<arc, pos, hres>> BY <2>4 DEF WaitCompress, Post, archiveVars
  <2> QED BY <1>2, <2>1, <2>2, <2>5
<1>9. CASE UNCHANGED vars BY <1>2, <1>9 DEF vars, archiveVars, Leaving
<1> QED BY <1>3, <1>4, <1>5, <1>6, <1>7, <1>8, <1>9 DEF Next, Caller, Finished

\* When the threads have been created, there is nothing yet.
LEMMA SoundStarts ==
  ASSUME IInv, Blank, CreateThreads, mpc' = "loop"
  PROVE  Sound'
<1>1. CallerTypes /\ Types /\ Life /\ Turn /\ RefTypes /\ mpc = "create" BY DEF IInv, Types, CreateThreads
<1>2. UNCHANGED <<work, outSeq, pool, cur, mt, order, last, skip, refs, items, headerPos, curPos, arc, pos, isFree>>
  BY DEF CreateThreads, given, callerVars, archiveVars, coderVars
<1>3. items = <<>> /\ arc = <<>> /\ cur = 1 /\ skip = {} /\ Len(items) = 0 /\ Len(arc) = 0
  BY <1>1 DEF Blank, Turn
<1>4. Listed'
  <2>1. items' \in Seq((DOMAIN work') \X Nat) /\ DOMAIN items' = {} BY <1>2, <1>3
  <2>2. 1 .. cur' - 1 = {} BY <1>2, <1>3
  <2> QED BY <1>2, <1>3, <2>1, <2>2 DEF Listed
<1>5. End' = 0
  <2>1. Len(items') = 0 /\ 0 + 1 = 1 BY <1>2, <1>3
  <2> QED BY <2>1 DEF End, Start
<1>6. Filed'
  <2>1. arc' \in Seq(Cells) /\ DOMAIN items' = {} BY <1>2, <1>3
  <2> QED BY <1>5, <2>1 DEF Filed
<1>7. Between' BY <1>2, <1>3, <1>5 DEF Between, Blank
<1>8. Progress'
  <2>1. last' = 0 /\ cur' = 1 BY <1>2, <1>3 DEF Blank
  <2> QED BY <1>7, <2>1 DEF Progress
<1>9. AllMade' BY <1>1, <1>2 DEF Life, AllMade
<1>10. Early' BY <1>2 DEF Blank, Early
<1> QED BY <1>4, <1>6, <1>8, <1>9, <1>10 DEF Sound

\* Every step keeps the archive.
LEMMA ArchivedStep == ASSUME IInv, Reported, Archived, [Next]_vars PROVE Archived'
<1>1. Types /\ StreamTypes /\ Shapes BY DEF IInv, Types, Archived
<1>2. Shapes' BY <1>1, ShapesStep
<1>3. ASSUME mpc' = "create" PROVE Blank'
  <2>1. UNCHANGED vars BY <1>3, BlankStep
  <2> QED BY <1>3, <2>1 DEF Archived, Blank, vars, given, callerVars, archiveVars
<1>4. ASSUME Leaving', ret' = "OK" PROVE Complete' /\ hres' = "OK" BY <1>4, CompleteStep
<1>5. ASSUME Active', hres' = "OK" PROVE Sound'
  <2>1. hres = "OK"
    <3>1. CASE Caller BY <1>1, <1>5, <3>1, CallerFailures
    <3>2. CASE \E t \in Threads : Coder(t) \/ CodeFails(t) BY <1>1, <1>5, <3>2, ThreadFailures
    <3>3. CASE UNCHANGED vars BY <1>5, <3>3 DEF vars, archiveVars
    <3> QED BY <3>1, <3>2, <3>3 DEF Next, Finished
  <2>2. CASE CreateThreads
    <3>1. mpc' = "loop" /\ Blank BY <1>5, <2>2 DEF CreateThreads, Leave, Active, Archived
    <3> QED BY <2>2, <3>1, SoundStarts
  <2>3. CASE Caller /\ ~CreateThreads
    <3>1. Active
      BY <1>5, <2>3 DEF Caller, PassOver, FileGone, OpenFails, StartFile, SkipItem, CopyItem,
         HeaderOfFinished, WriteBlocks, EndFinished, Unlock, Lock, PopFailed, PopEarly, PopCurrent,
         Replace, WriteCentralDir, StopThread, JoinThread, FinalFlush, Leave, Ahead, InTurn, Active
    <3>2. Sound BY <2>1, <3>1 DEF Archived
    <3>3. Listed' /\ Filed' /\ Progress' BY <1>1, <1>5, <2>1, <2>3, <3>1, <3>2, ArchiveCaller
    <3>4. AllMade' BY <1>5, <2>3, <3>1, <3>2, MadeCaller
    <3>5. Early' BY <1>5, <3>1, <3>2, EarlyStep
    <3> QED BY <3>3, <3>4, <3>5 DEF Sound
  <2>4. ASSUME NEW t \in Threads, Coder(t) \/ CodeFails(t) PROVE Sound'
    <3>1. Active BY <1>5, <2>4, ThreadFrame DEF Active
    <3>2. Sound BY <2>1, <3>1 DEF Archived
    <3>3. Listed' /\ Filed' /\ Progress' BY <1>5, <2>1, <2>4, <3>1, <3>2, ArchiveCodes
    <3>4. AllMade' BY <1>1, <1>5, <2>1, <2>4, <3>1, <3>2, MadeCodes
    <3>5. Early' BY <1>5, <3>1, <3>2, EarlyStep
    <3> QED BY <3>3, <3>4, <3>5 DEF Sound
  <2>5. CASE UNCHANGED vars
    <3>1. UNCHANGED <<given, mpc, ret, callerVars, archiveVars, threadVars>> BY <2>5 DEF vars
    <3>2. Active BY <1>5, <3>1 DEF Active
    <3>3. Sound BY <2>1, <3>2 DEF Archived
    <3>4. Listed' /\ Filed' /\ Progress'
      BY <3>1, <3>2, <3>3, ArchiveQuiet DEF threadVars, coderVars, realVars, archiveVars
    <3>5. AllMade'
      <4>1. UNCHANGED <<work, isFree, item, pass, wrote, mem, at, real, pack, result, compressEvent, pc>>
        BY <3>1 DEF given, threadVars, coderVars, memVars, realVars
      <4>2. \A t \in Threads : MadeSoFar(t) => MadeSoFar(t)' BY <4>1, MadeSame
      <4> QED BY <3>3, <4>1, <4>2 DEF Sound, AllMade
    <3>6. Early' BY <1>5, <3>2, <3>3, EarlyStep
    <3> QED BY <3>4, <3>5, <3>6 DEF Sound
  <2> QED BY <2>2, <2>3, <2>4, <2>5 DEF Next, Finished
<1> QED BY <1>2, <1>3, <1>4, <1>5 DEF Archived

\* The initial states.
LEMMA InitReported == ASSUME Init PROVE Reported /\ Archived
<1>1. Reported BY DEF Init, Reported, Active, Leaving
<1>2. Shapes /\ mpc = "create" BY DEF Init, Shapes
<1>3. Blank BY DEF Init, Blank, NoRef
<1> QED BY <1>1, <1>2, <1>3 DEF Archived, Active, Leaving

\* A failure is known to somebody who reports it, and the archive holds what it must.
THEOREM ReportInvariant == Spec => [](IInv /\ Reported /\ Archived)
<1>1. Init => Reported /\ Archived BY InitReported
<1>2. IInv /\ Reported /\ Archived /\ [Next]_vars => Reported' /\ Archived'
  BY ReportedStep, ArchivedStep
<1> QED BY <1>1, <1>2, Invariant, PTL DEF Spec

\* The archive that is complete is what ResultIsRight asks for.
LEMMA CompleteIsRight ==
  ASSUME CallerTypes, Complete
  PROVE  /\ {items[k][1] : k \in DOMAIN items} = DOMAIN work \ skip
         /\ \A j, k \in DOMAIN items : j < k => items[j][1] < items[k][1]
         /\ \A k \in DOMAIN items :
              /\ items[k][2] = Start(k)
              /\ SubSeq(arc, Start(k) + 1, Start(k + 1)) = Content(items[k][1])
         /\ Len(arc) = Start(Len(items) + 1) + 1 /\ arc[Len(arc)] = Directory
<1>1. DOMAIN work = 1 .. Len(work) /\ Len(work) \in Nat BY WorkFacts
<1>2. Listed /\ Filed /\ cur - 1 = Len(work) BY <1>1 DEF Complete
<1>3. {items[k][1] : k \in DOMAIN items} = DOMAIN work \ skip
  <2>1. ASSUME NEW k \in DOMAIN items PROVE items[k][1] \in DOMAIN work \ skip
    <3>1. items[k] \in (DOMAIN work) \X Nat BY <1>2, <2>1 DEF Listed
    <3> QED BY <1>2, <3>1 DEF Listed
  <2>2. ASSUME NEW i \in DOMAIN work \ skip PROVE \E k \in DOMAIN items : items[k][1] = i
    BY <1>1, <1>2, <2>2 DEF Listed
  <2> QED BY <2>1, <2>2
<1>4. ASSUME NEW k \in DOMAIN items
      PROVE  /\ items[k][2] = Start(k)
             /\ SubSeq(arc, Start(k) + 1, Start(k + 1)) = Content(items[k][1])
  <2>1. items[k][1] \in DOMAIN work
    <3>1. items[k] \in (DOMAIN work) \X Nat BY <1>2, <1>4 DEF Listed
    <3> QED BY <3>1
  <2>2. PICK c : c = Content(items[k][1]) OBVIOUS
  <2>3. c \in Seq(Cells) /\ Len(c) \in Nat BY <2>1, <2>2, ContentFacts
  <2>4. /\ items[k][2] = Start(k) /\ Start(k) \in Nat /\ Start(k) + Len(c) <= End
        /\ \A j \in 1 .. Len(c) : arc[Start(k) + j] = c[j]
    BY <1>2, <1>4, <2>2 DEF Filed, Lies
  <2>5. k \in Nat /\ k >= 1 BY <1>2, <1>4 DEF Listed
  <2>6. Start(k + 1) = Start(k) + Len(c)
    <3>1. k + 1 # 1 /\ (k + 1) - 1 = k BY <2>5
    <3> QED BY <2>2, <2>4, <3>1 DEF Start
  <2>7. PICK a \in Nat, b \in Nat : a = Start(k) /\ b = Start(k) + Len(c) BY <2>3, <2>4
  <2>8. arc \in Seq(Cells) /\ b <= Len(arc) /\ a <= b
    BY <1>2, <2>3, <2>4, <2>7 DEF Complete, Filed
  <2>9. PICK s : s = SubSeq(arc, a + 1, b) OBVIOUS
  <2>10. s \in Seq(Cells) /\ Len(s) = b - a /\ \A j \in 1 .. b - a : s[j] = arc[a + j]
    BY <2>8, <2>9
  <2>11. Len(s) = Len(c) /\ \A j \in 1 .. Len(c) : s[j] = c[j]
    <3>1. b - a = Len(c) BY <2>3, <2>7
    <3>2. \A j \in 1 .. Len(c) : s[j] = arc[a + j] BY <2>10, <3>1
    <3>3. \A j \in 1 .. Len(c) : arc[a + j] = c[j] BY <2>4, <2>7
    <3> QED BY <2>10, <3>1, <3>2, <3>3
  <2>12. s = c BY <2>3, <2>10, <2>11, SeqEqual
  <2>13. SubSeq(arc, Start(k) + 1, Start(k + 1)) = s BY <2>6, <2>7, <2>9
  <2> QED BY <2>2, <2>4, <2>12, <2>13
<1>5. Len(arc) = Start(Len(items) + 1) + 1 /\ arc[Len(arc)] = Directory BY DEF Complete, End
<1>6. \A j, k \in DOMAIN items : j < k => items[j][1] < items[k][1] BY <1>2 DEF Listed
<1> QED BY <1>3, <1>4, <1>5, <1>6

\* When Update returns, it has succeeded just when nothing failed, and then the archive holds
\* every item with the result of its last pass, one behind the other, and the directory.
THEOREM UpdateIsRight == Spec => []ResultIsRight
<1>1. IInv /\ Reported /\ Archived => ResultIsRight
  <2> SUFFICES ASSUME IInv, Reported, Archived, mpc = "end"
               PROVE  /\ ret = "OK" <=> ~failed
                      /\ ret = "OK" => Complete
    BY CompleteIsRight DEF ResultIsRight, IInv, Types
  <2>1. Leaving BY DEF Leaving
  <2>2. ret = "OK" => ~failed /\ Complete BY <2>1 DEF Reported, Archived
  <2>3. ~failed => ret = "OK" BY DEF Reported
  <2> QED BY <2>2, <2>3
<1> QED BY <1>1, ReportInvariant, PTL

=============================================================================
