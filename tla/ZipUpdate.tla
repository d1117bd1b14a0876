----------------------------- MODULE ZipUpdate -----------------------------
(* Update2 of the zip handler with several threads (ZipUpdate.cpp): each     *)
(* thread packs a file into blocks of memory (COutMemStream) that all share  *)
(* (CMemBlockManagerMt).  The caller writes the items in their order; the    *)
(* thread whose file's turn has come is told to write to the archive itself. *)
EXTENDS Integers, SequencesExt

CONSTANTS
  NumThreads,       \* threads, at most as many as files
  Works,            \* sequences of items
  Pools,            \* how many blocks AllocateSpaceAlways may have got
  BlockSize,        \* the units of data in a block
  Faults            \* the failures that may happen

Threads    == 1 .. NumThreads
Kinds      == {"file", "old", "dir"}
FaultKinds == {"thread", "gone", "open", "code", "write"}

\* An item to pack has a size for each method that Compress may try.
Items == {w \in [kind : Kinds, sizes : Seq(Nat)] : w.kind = "file" => w.sizes # <<>>}

ASSUME ConstantsAssumption ==
  /\ NumThreads \in Nat \ {0} /\ BlockSize \in Nat \ {0}
  /\ Pools \subseteq Nat
  /\ \A w \in Works : w \in Seq(Items)
  /\ Faults \subseteq FaultKinds

VARIABLES
  work, outSeq,     \* the items; the archive can only be written in sequence
  pool,             \* the blocks that there are
  mpc, cur, mt, ret,\* the caller; itemIndex, mtItemIndex and the result
  order,            \* threadIndices
  last,             \* lastRealStreamItemIndex
  skip,             \* the items with CMemBlocks2::Skip
  refs,             \* the packed data of items whose turn has not come
  items,            \* the items for the central directory and their positions
  headerPos, curPos,\* COutArchive
  arc, pos, hres,   \* the archive behind CCacheOutStream, its _virtPos and _hres
  free, sem,        \* the free blocks, CMemBlockManagerMt::Semaphore
  done, doneSem,    \* CMtSem: the threads that have finished, and its semaphore
  pc,               \* the place of each thread
  isFree, item, exit, compressEvent, result,       \* CThreadInfo
  pass, wrote, pack,                             \* CAddCommon::Compress
  mem, held, at,    \* Blocks' data and number, the position in them
  real, outAt, unlocked, realEvent, stopEvent,   \* COutMemStream
  failed            \* history: something has failed

given       == <<work, outSeq, pool>>
callerVars  == <<cur, mt, order, last, skip, refs, items, headerPos, curPos>>
archiveVars == <<arc, pos, hres>>
doneVars    == <<done, doneSem>>
coderVars   == <<isFree, item, exit, compressEvent, result, pass, wrote, pack>>
memVars     == <<mem, held, at, free, sem>>
realVars    == <<real, outAt, unlocked, realEvent, stopEvent>>
threadVars  == <<pc, doneVars, coderVars, memVars, realVars>>
vars == <<given, mpc, ret, callerVars, archiveVars, threadVars, failed>>

May(f)     == f \in Faults
None       == 0
NoRef      == [finished |-> FALSE, data |-> <<>>, blocks |-> 0, pack |-> 0]
Blocks(n)  == (n + BlockSize - 1) \div BlockSize
Smaller(a, b) == IF a < b THEN a ELSE b

Init ==
  /\ work \in Works /\ outSeq \in BOOLEAN
  /\ outSeq => \A i \in DOMAIN work : Len(work[i].sizes) <= 1
  /\ mpc = "create" /\ cur = 1 /\ mt = 1 /\ ret = "OK"
  /\ order = <<>> /\ last = 0 /\ skip = {} /\ refs = [i \in DOMAIN work |-> NoRef]
  /\ items = <<>> /\ headerPos = 0 /\ curPos = 0
  /\ arc = <<>> /\ pos = 0 /\ hres = "OK"
  /\ pool \in Pools /\ free = pool /\ sem = pool
  /\ done = <<>> /\ doneSem = 0
  /\ pc = [t \in Threads |-> "none"] /\ isFree = [t \in Threads |-> TRUE]
  /\ item = [t \in Threads |-> None] /\ exit = [t \in Threads |-> FALSE]
  /\ compressEvent = [t \in Threads |-> FALSE] /\ result = [t \in Threads |-> "OK"]
  /\ pass = [t \in Threads |-> 0] /\ wrote = [t \in Threads |-> 0]
  /\ pack = [t \in Threads |-> 0]
  /\ mem = [t \in Threads |-> <<>>] /\ held = [t \in Threads |-> 0]
  /\ at = [t \in Threads |-> 0] /\ real = [t \in Threads |-> FALSE]
  /\ outAt = [t \in Threads |-> None] /\ unlocked = [t \in Threads |-> FALSE]
  /\ realEvent = [t \in Threads |-> FALSE] /\ stopEvent = [t \in Threads |-> FALSE]
  /\ failed = FALSE

-----------------------------------------------------------------------------
(* The archive: cells <<item, what, number>>.  A header holds the packed size *)
(* or -1, as long as that is not known or when a descriptor follows.          *)

Header(i, n)     == <<i, 0, n>>
Data(i, p, j)    == <<i, p, j>>      \* the j-th unit that pass p has made
Piece(i, p, a, b) == [j \in 1 .. b - a |-> Data(i, p, a + j)]
Descriptor(i, n) == <<i, -1, n>>
OldData(i)       == <<i, -2, 0>>
Directory        == <<0, 0, 0>>

\* s after the cells c were written at position p.
Put(s, p, c) ==
  [j \in 1 .. (IF p + Len(c) > Len(s) THEN p + Len(c) ELSE Len(s)) |->
     IF j > p /\ j <= p + Len(c) THEN c[j - p] ELSE IF j <= Len(s) THEN s[j] ELSE Directory]

\* CCacheOutStream accepts data and writes it later; an error remains.  Mutant: only the
\* call that met it reports it.
Forgotten == "OK"
Noted     == "WRITE"

Written(p, c) ==
  /\ hres = "OK" \/ c = <<>>
  /\ arc' = Put(arc, p, c) /\ pos' = p + Len(c)
  /\ UNCHANGED <<hres, failed>>

Refused ==
  \/ hres # "OK" /\ UNCHANGED <<hres, failed>>
  \/ hres = "OK" /\ May("write") /\ hres' = Noted /\ failed' = TRUE

NotWritten(c) == c # <<>> /\ Refused /\ UNCHANGED <<arc, pos>>

-----------------------------------------------------------------------------
(* The blocks of a thread's stream *)

\* CMemBlocks::Free, after which each block is in the list and counted.
Emptied(t) ==
  /\ free' = free + held[t] /\ sem' = sem + held[t]
  /\ held' = [held EXCEPT ![t] = 0] /\ mem' = [mem EXCEPT ![t] = <<>>]
  /\ UNCHANGED at

\* CMemLockBlocks::Detach hands n blocks over and frees the others.  Mutant: these are
\* forgotten.
Nothing(t, n) == 0
Excess(t, n)  == held[t] - n

-----------------------------------------------------------------------------
(* The caller: Update2 *)

\* Leaving Update2, also by an exception, destroys the threads first.
Leave(r) == mpc' = "stop" /\ ret' = r

\* All threads are created, or it fails before the last of them.
CreateThreads ==
  /\ mpc = "create"
  /\ \E n \in 0 .. NumThreads :
       /\ pc' = [t \in Threads |-> IF t <= n THEN "wait" ELSE "none"]
       /\ \/ n = NumThreads /\ mpc' = "loop" /\ UNCHANGED <<ret, failed>>
          \/ n < NumThreads /\ May("thread") /\ failed' = TRUE /\ Leave("THREAD")
  /\ UNCHANGED <<given, callerVars, archiveVars, doneVars, coderVars, memVars, realVars>>

\* The threads are started ahead of the items that are written.
Ahead    == mpc = "loop" /\ cur <= Len(work) /\ Len(order) < NumThreads /\ mt <= Len(work)
InTurn   == mpc = "loop" /\ cur <= Len(work) /\ ~(Len(order) < NumThreads /\ mt <= Len(work))
FreeThreads == {t \in Threads : isFree[t]}

PassOver ==
  /\ Ahead /\ work[mt].kind # "file"
  /\ mt' = mt + 1
  /\ UNCHANGED <<given, mpc, cur, ret, order, last, skip, refs, items, headerPos,
                 curPos, archiveVars, threadVars, failed>>

\* GetStream answers S_FALSE: the file is left out.
FileGone ==
  /\ Ahead /\ work[mt].kind = "file" /\ May("gone")
  /\ skip' = skip \cup {mt} /\ mt' = mt + 1
  /\ UNCHANGED <<given, mpc, cur, ret, order, last, refs, items, headerPos, curPos,
                 archiveVars, threadVars, failed>>

\* GetStream fails; or what an item keeps of the old archive cannot be read (E_NOTIMPL), its
\* old properties when it is started, any part of it in its turn.
OpenFails ==
  /\ May("open") /\ failed' = TRUE /\ Leave("OPEN")
  /\ \/ Ahead /\ work[mt].kind # "old" /\ mt' = mt + 1
     \/ InTurn /\ cur \notin skip /\ UNCHANGED mt
  /\ UNCHANGED <<given, cur, order, last, skip, refs, items, headerPos, curPos,
                 archiveVars, threadVars>>

\* COutMemStream::Init resets the event.  Mutant: it does not.
EventKept(t)  == realEvent[t]
EventReset(t) == FALSE

StartFile ==
  /\ Ahead /\ work[mt].kind = "file"
  /\ IF FreeThreads = {}
     THEN Leave("INTERNAL") /\ UNCHANGED <<order, threadVars>>
     ELSE LET t == CHOOSE t \in FreeThreads : \A u \in FreeThreads : t <= u IN
          /\ isFree' = [isFree EXCEPT ![t] = FALSE]
          /\ realEvent' = [realEvent EXCEPT ![t] = EventReset(t)]
          /\ unlocked' = [unlocked EXCEPT ![t] = FALSE]
          /\ real' = [real EXCEPT ![t] = FALSE]
          /\ mem' = [mem EXCEPT ![t] = <<>>] /\ held' = [held EXCEPT ![t] = 0]
          /\ at' = [at EXCEPT ![t] = 0]
          /\ free' = free + held[t] /\ sem' = sem + held[t]
          /\ item' = [item EXCEPT ![t] = mt]
          /\ compressEvent' = [compressEvent EXCEPT ![t] = TRUE]
          /\ order' = Append(order, t)
          /\ UNCHANGED <<mpc, ret, pc, doneVars, exit, result, pass, wrote, pack, outAt,
                         stopEvent>>
  /\ mt' = mt + 1
  /\ UNCHANGED <<given, cur, last, skip, refs, items, headerPos, curPos, archiveVars,
                 failed>>

\* The item is in the archive.
NextItem == cur' = cur + 1 /\ items' = Append(items, <<cur, headerPos'>>)

SkipItem ==
  /\ InTurn /\ cur \in skip
  /\ cur' = cur + 1
  /\ UNCHANGED <<given, mpc, mt, ret, order, last, skip, refs, items, headerPos,
                 curPos, archiveVars, threadVars, failed>>

\* A directory, or an item that is copied from the old archive.
CopyItem ==
  LET cells == IF work[cur].kind = "dir" THEN <<Header(cur, 0)>>
                                         ELSE <<Header(cur, 1), OldData(cur)>> IN
  /\ InTurn /\ work[cur].kind # "file"
  /\ headerPos' = curPos /\ curPos' = curPos + Len(cells)
  /\ \/ Written(pos, cells) /\ NextItem /\ UNCHANGED <<mpc, ret>>
     \/ NotWritten(cells) /\ Leave("WRITE") /\ UNCHANGED <<cur, items>>
     \/ /\ work[cur].kind = "old" /\ May("open") /\ Leave("OPEN") /\ failed' = TRUE
        /\ UNCHANGED <<cur, items, archiveVars>>
  /\ UNCHANGED <<given, mt, order, last, skip, refs, threadVars>>

\* A file that was packed before its turn.
HeaderOfFinished ==
  LET cells == <<Header(cur, IF outSeq THEN -1 ELSE refs[cur].pack)>> IN
  /\ InTurn /\ cur \notin skip /\ work[cur].kind = "file" /\ refs[cur].finished
  /\ last' = IF last < cur THEN cur ELSE last
  /\ headerPos' = curPos /\ curPos' = curPos + 1
  /\ \/ Written(pos, cells) /\ mpc' = "blocks" /\ UNCHANGED ret
     \/ NotWritten(cells) /\ Leave("WRITE")
  /\ UNCHANGED <<given, cur, mt, order, skip, refs, items, threadVars>>

\* The result of WriteToStream is ignored.
WriteBlocks ==
  /\ mpc = "blocks" /\ mpc' = "tail"
  /\ Written(pos, refs[cur].data) \/ NotWritten(refs[cur].data)
  /\ UNCHANGED <<given, ret, callerVars, threadVars>>

\* The descriptor, or MoveCurPos; then FreeOpt.
EndFinished ==
  LET cells == IF outSeq THEN <<Descriptor(cur, refs[cur].pack)>> ELSE <<>> IN
  /\ mpc = "tail"
  /\ curPos' = headerPos + 1 + refs[cur].pack + Len(cells)
  /\ headerPos' = headerPos
  /\ \/ /\ Written(pos, cells) /\ mpc' = "loop" /\ ret' = ret /\ NextItem
        /\ free' = free + refs[cur].blocks /\ sem' = sem + refs[cur].blocks
        /\ refs' = [refs EXCEPT ![cur].data = <<>>, ![cur].blocks = 0]
     \/ /\ NotWritten(cells) /\ Leave("WRITE")
        /\ UNCHANGED <<cur, items, free, sem, refs>>
  /\ UNCHANGED <<given, mt, order, last, skip, pc, doneVars, coderVars, mem, held, at,
                 realVars>>

\* The file whose turn has come is still being packed: its header is written, and its
\* thread is told to write to the archive.
InFront == order[1]

Unlock ==
  LET first == last < cur
      t     == InFront
      open  == ~unlocked[t]
      head  == IF first THEN <<Header(cur, -1)>> ELSE <<>> IN
  /\ InTurn /\ cur \notin skip /\ work[cur].kind = "file" /\ ~refs[cur].finished
  /\ last' = cur
  /\ headerPos' = IF first THEN curPos ELSE headerPos
  /\ curPos' = curPos + Len(head)
  /\ IF order = <<>> THEN Leave("INTERNAL") /\ UNCHANGED <<realVars, archiveVars, failed>>
     ELSE \/ /\ hres = "OK" \/ ~first
             /\ arc' = IF first THEN Put(arc, pos, head) ELSE arc
             /\ pos' = IF open THEN curPos' ELSE pos
             /\ UNCHANGED <<hres, failed, ret>>
             /\ mpc' = "lock"
             /\ unlocked' = [unlocked EXCEPT ![t] = TRUE]
             /\ realEvent' = [realEvent EXCEPT ![t] = @ \/ open]
             /\ outAt' = [outAt EXCEPT ![t] = IF open THEN curPos' ELSE @]
             /\ UNCHANGED <<real, stopEvent>>
          \/ NotWritten(head) /\ Leave("WRITE") /\ UNCHANGED realVars
  /\ UNCHANGED <<given, cur, mt, order, skip, refs, items, pc, doneVars, coderVars,
                 memVars>>

\* mtSem.Semaphore.Lock
Lock ==
  /\ mpc = "lock" /\ doneSem > 0
  /\ doneSem' = doneSem - 1 /\ mpc' = "pop"
  /\ UNCHANGED <<given, ret, callerVars, archiveVars, pc, done, coderVars, memVars,
                 realVars, failed>>

\* GetFreeItem: the thread that finished last.
Popped   == Head(done)
PopFree  == done' = Tail(done) /\ isFree' = [isFree EXCEPT ![Popped] = TRUE]

PopFailed ==
  /\ mpc = "pop"
  /\ IF done = <<>> THEN Leave("INTERNAL") /\ UNCHANGED <<done, isFree>>
     ELSE result[Popped] # "OK" /\ PopFree /\ Leave(result[Popped])
  /\ UNCHANGED <<given, callerVars, archiveVars, pc, doneSem, item, exit, compressEvent,
                 result, pass, wrote, pack, memVars, realVars, failed>>

\* The file of another item: its data waits for its turn.
PopEarly ==
  LET t == Popped
      i == item[t] IN
  /\ mpc = "pop" /\ done # <<>> /\ result[t] = "OK" /\ order[1] # t
  /\ PopFree
  /\ IF t \notin Range(order)
     THEN Leave("INTERNAL") /\ UNCHANGED <<order, refs, memVars>>
     ELSE /\ order' = RemoveAt(order, CHOOSE k \in DOMAIN order : order[k] = t)
          /\ refs' = [refs EXCEPT ![i] = [finished |-> TRUE, data |-> mem[t],
                                          blocks |-> Blocks(Len(mem[t])), pack |-> pack[t]]]
          /\ free' = free + Excess(t, Blocks(Len(mem[t])))
          /\ sem' = sem + Excess(t, Blocks(Len(mem[t])))
          /\ held' = [held EXCEPT ![t] = 0] /\ mem' = [mem EXCEPT ![t] = <<>>]
          /\ mpc' = "loop" /\ UNCHANGED <<ret, at>>
  /\ UNCHANGED <<given, cur, mt, last, skip, items, headerPos, curPos, archiveVars, pc,
                 doneSem, item, exit, compressEvent, result, pass, wrote, pack, realVars, failed>>

\* The file whose turn it is: what still is in memory is written.
PopCurrent ==
  LET t == Popped IN
  /\ mpc = "pop" /\ done # <<>> /\ result[t] = "OK" /\ order[1] = t
  /\ PopFree
  /\ order' = Tail(order)
  /\ IF item[t] # cur
     THEN Leave("INTERNAL") /\ UNCHANGED <<archiveVars, failed, memVars, outAt>>
     ELSE \/ /\ Written(pos, mem[t]) /\ mpc' = "replace" /\ ret' = ret
             /\ Emptied(t)
             /\ outAt' = [outAt EXCEPT ![t] = None]
          \/ NotWritten(mem[t]) /\ Leave("WRITE") /\ UNCHANGED <<memVars, outAt>>
  /\ refs' = [refs EXCEPT ![cur].pack = pack[t]]
  /\ UNCHANGED <<given, cur, mt, last, skip, items, headerPos, curPos, pc, doneSem, item,
                 exit, compressEvent, result, pass, wrote, pack, real, unlocked, realEvent,
                 stopEvent>>

\* WriteLocalHeader_Replace: the descriptor, or the header again with the sizes.
Replace ==
  LET n    == refs[cur].pack
      next == headerPos + 1 + n
      cell == IF outSeq THEN Descriptor(cur, n) ELSE Header(cur, n) IN
  /\ mpc = "replace"
  /\ headerPos' = headerPos
  /\ \/ /\ hres = "OK"
        /\ arc' = Put(arc, IF outSeq THEN pos ELSE headerPos, <<cell>>)
        /\ pos' = IF outSeq THEN pos + 1 ELSE next
        /\ curPos' = IF outSeq THEN next + 1 ELSE next
        /\ mpc' = "loop" /\ NextItem /\ UNCHANGED <<hres, ret, failed>>
     \/ NotWritten(<<cell>>) /\ Leave("WRITE") /\ curPos' = next /\ UNCHANGED <<cur, items>>
  /\ UNCHANGED <<given, mt, order, last, skip, refs, threadVars>>

\* The central directory.  The progress of the whole may break the update before and after.
WriteCentralDir ==
  /\ mpc = "loop" /\ cur > Len(work)
  /\ \/ /\ Written(pos, <<Directory>>) /\ Leave("OK") /\ curPos' = curPos + 1
     \/ /\ NotWritten(<<Directory>>) /\ Leave("WRITE") /\ UNCHANGED curPos
     \/ /\ May("code") /\ Leave("ABORT") /\ failed' = TRUE
        /\ \/ UNCHANGED <<curPos, archiveVars>>
           \/ /\ hres = "OK" /\ UNCHANGED hres
              /\ arc' = Put(arc, pos, <<Directory>>) /\ pos' = pos + 1 /\ curPos' = curPos + 1
  /\ UNCHANGED <<given, cur, mt, order, last, skip, refs, items, headerPos, threadVars>>

-----------------------------------------------------------------------------
(* The end: CThreads is destroyed, then the blocks; Update flushes the cache *)

\* StopWriting lets a thread go that waits for memory.  Mutant: only CompressEvent is set.
OnlyCompress(t) == stopEvent[t]
StopsWriting(t) == TRUE

\* StopWait_Close of the next thread, which is waited for.
StopThread(t) ==
  /\ mpc = "stop" /\ ~exit[t] /\ \A u \in Threads : u < t => exit[u]
  /\ mpc' = "join"
  /\ exit' = [exit EXCEPT ![t] = TRUE]
  /\ stopEvent' = [stopEvent EXCEPT ![t] = StopsWriting(t)]
  /\ compressEvent' = [compressEvent EXCEPT ![t] = TRUE]
  /\ UNCHANGED <<given, ret, callerVars, archiveVars, pc, doneVars, isFree, item, result,
                 pass, wrote, pack, memVars, real, outAt, unlocked, realEvent, failed>>

JoinThread(t) ==
  /\ mpc = "join" /\ exit[t] /\ \A u \in Threads : exit[u] => u <= t
  /\ pc[t] \in {"none", "exited"}
  /\ mpc' = IF t = NumThreads THEN "flush" ELSE "stop"
  /\ UNCHANGED <<given, ret, callerVars, archiveVars, threadVars, failed>>

\* FinalFlush writes what the cache still holds, when Update2 has succeeded.
FinalFlush ==
  /\ mpc = "flush" /\ mpc' = "end"
  /\ \/ ret # "OK" /\ UNCHANGED <<ret, archiveVars, failed>>
     \/ ret = "OK" /\ hres = "OK" /\ UNCHANGED <<ret, archiveVars, failed>>
     \/ ret = "OK" /\ NotWritten(<<Directory>>) /\ ret' = "WRITE"
  /\ UNCHANGED <<given, callerVars, threadVars>>

-----------------------------------------------------------------------------
(* A thread: WaitAndCode, CAddCommon::Compress and COutMemStream *)

Sizes(t) == work[item[t]].sizes
Todo(t)  == Sizes(t)[pass[t]] - wrote[t]
Full(t)  == at[t] = held[t] * BlockSize

WaitCompress(t) ==
  /\ pc[t] = "wait" /\ compressEvent[t]
  /\ compressEvent' = [compressEvent EXCEPT ![t] = FALSE]
  /\ pc' = [pc EXCEPT ![t] = IF exit[t] THEN "exited" ELSE "run"]
  /\ pass' = [pass EXCEPT ![t] = 1] /\ wrote' = [wrote EXCEPT ![t] = 0]
  /\ UNCHANGED <<given, mpc, ret, callerVars, archiveVars, doneVars, isFree, item, exit,
                 result, pack, memVars, realVars, failed>>

\* Compress returns r.
Returns(t, r) ==
  /\ result' = [result EXCEPT ![t] = r]
  /\ pc' = [pc EXCEPT ![t] = "push"]
  /\ UNCHANGED <<given, mpc, ret, callerVars, doneVars, isFree, item, exit, compressEvent,
                 pass, wrote>>

\* Write copies to the blocks that the stream has.
Fill(t) ==
  LET n == Smaller(Todo(t), held[t] * BlockSize - at[t])
      new == Piece(item[t], pass[t], wrote[t], wrote[t] + n) IN
  /\ pc[t] = "run" /\ ~real[t] /\ Todo(t) > 0 /\ ~Full(t)
  /\ mem' = [mem EXCEPT ![t] = Put(@, at[t], new)]
  /\ at' = [at EXCEPT ![t] = @ + n]
  /\ wrote' = [wrote EXCEPT ![t] = @ + n]
  /\ UNCHANGED <<given, mpc, ret, callerVars, archiveVars, pc, doneVars, isFree, item,
                 exit, compressEvent, result, pass, pack, held, free, sem, realVars, failed>>

\* Write waits for the first of: StopWritingEvent, WriteToRealStreamEvent, a block.
Waits(t) == pc[t] = "run" /\ ~real[t] /\ Todo(t) > 0 /\ Full(t)

StopWriting(t) ==
  /\ Waits(t) /\ stopEvent[t]
  /\ stopEvent' = [stopEvent EXCEPT ![t] = FALSE]
  /\ Returns(t, "ABORT")
  /\ UNCHANGED <<archiveVars, pack, memVars, real, outAt, unlocked, realEvent, failed>>

\* The mode is set before the blocks are written.
GoReal(t) ==
  /\ Waits(t) /\ ~stopEvent[t] /\ realEvent[t]
  /\ realEvent' = [realEvent EXCEPT ![t] = FALSE]
  /\ real' = [real EXCEPT ![t] = TRUE]
  /\ \/ /\ Written(pos, mem[t])
        /\ Emptied(t)
        /\ UNCHANGED <<given, mpc, ret, callerVars, pc, doneVars, isFree, item, exit,
                       compressEvent, result, pass, wrote>>
     \/ NotWritten(mem[t]) /\ Returns(t, "WRITE") /\ UNCHANGED memVars
  /\ UNCHANGED <<pack, outAt, unlocked, stopEvent>>

TakeSemaphore(t) ==
  /\ Waits(t) /\ ~stopEvent[t] /\ ~realEvent[t] /\ sem > 0
  /\ sem' = sem - 1
  /\ pc' = [pc EXCEPT ![t] = "alloc"]
  /\ UNCHANGED <<given, mpc, ret, callerVars, archiveVars, doneVars, coderVars, mem,
                 held, at, free, realVars, failed>>

AllocateBlock(t) ==
  /\ pc[t] = "alloc"
  /\ IF free = 0 THEN Returns(t, "INTERNAL") /\ UNCHANGED <<free, held>>
     ELSE /\ free' = free - 1
          /\ held' = [held EXCEPT ![t] = @ + 1]
          /\ pc' = [pc EXCEPT ![t] = "run"]
          /\ UNCHANGED <<given, mpc, ret, callerVars, doneVars, isFree, item, exit,
                         compressEvent, result, pass, wrote>>
  /\ UNCHANGED <<archiveVars, pack, mem, at, sem, realVars, failed>>

\* In real mode Write goes to the archive.
WriteReal(t) ==
  LET new == Piece(item[t], pass[t], wrote[t], wrote[t] + 1) IN
  /\ pc[t] = "run" /\ real[t] /\ Todo(t) > 0
  /\ \/ /\ Written(pos, new)
        /\ wrote' = [wrote EXCEPT ![t] = @ + 1]
        /\ UNCHANGED <<given, mpc, ret, callerVars, pc, doneVars, isFree, item, exit,
                       compressEvent, result, pass>>
     \/ NotWritten(new) /\ Returns(t, "WRITE")
  /\ UNCHANGED <<pack, memVars, realVars>>

\* Another method is tried: Seek to the beginning and SetSize(0).
Rewind(t) ==
  /\ IF real[t] THEN pos' = outAt[t] /\ arc' = SubSeq(arc, 1, outAt[t]) /\ hres = "OK"
                    /\ UNCHANGED <<mem, at>>
                ELSE /\ mem' = [mem EXCEPT ![t] = <<>>] /\ at' = [at EXCEPT ![t] = 0]
                     /\ UNCHANGED <<arc, pos>>
  /\ UNCHANGED <<hres, failed>>

NextPass(t) ==
  /\ pc[t] = "run" /\ Todo(t) = 0 /\ pass[t] < Len(Sizes(t))
  /\ \/ /\ Rewind(t)
        /\ pass' = [pass EXCEPT ![t] = @ + 1] /\ wrote' = [wrote EXCEPT ![t] = 0]
        /\ UNCHANGED <<given, mpc, ret, callerVars, pc, doneVars, isFree, item, exit,
                       compressEvent, result>>
     \/ /\ real[t] /\ Refused /\ pos' = outAt[t] /\ UNCHANGED <<arc, mem, at>>
        /\ Returns(t, "WRITE")
  /\ UNCHANGED <<pack, held, free, sem, realVars>>

\* The packed size is the position in the stream.
Packed(t) ==
  /\ pc[t] = "run" /\ Todo(t) = 0 /\ pass[t] = Len(Sizes(t))
  /\ pack' = [pack EXCEPT ![t] = IF real[t] THEN pos - outAt[t] ELSE at[t]]
  /\ Returns(t, "OK")
  /\ UNCHANGED <<archiveVars, memVars, realVars, failed>>

\* Reading, packing or the progress fails, between two writes.
CodeFails(t) ==
  /\ pc[t] = "run" /\ May("code")
  /\ failed' = TRUE
  /\ Returns(t, "FAIL")
  /\ UNCHANGED <<archiveVars, pack, memVars, realVars>>

\* CMtSem::ReleaseItem
Push(t) ==
  /\ pc[t] = "push"
  /\ done' = <<t>> \o done
  /\ pc' = [pc EXCEPT ![t] = "post"]
  /\ UNCHANGED <<given, mpc, ret, callerVars, archiveVars, doneSem, coderVars, memVars,
                 realVars, failed>>

Post(t) ==
  /\ pc[t] = "post"
  /\ doneSem' = doneSem + 1
  /\ pc' = [pc EXCEPT ![t] = "wait"]
  /\ UNCHANGED <<given, mpc, ret, callerVars, archiveVars, done, coderVars, memVars,
                 realVars, failed>>

Coder(t) ==
  \/ WaitCompress(t) \/ Fill(t) \/ StopWriting(t) \/ GoReal(t) \/ TakeSemaphore(t)
  \/ AllocateBlock(t) \/ WriteReal(t) \/ NextPass(t) \/ Packed(t) \/ Push(t) \/ Post(t)

Caller ==
  \/ CreateThreads \/ PassOver \/ FileGone \/ OpenFails \/ StartFile \/ SkipItem \/ CopyItem
  \/ HeaderOfFinished \/ WriteBlocks \/ EndFinished \/ Unlock \/ Lock \/ PopFailed
  \/ PopEarly \/ PopCurrent \/ Replace \/ WriteCentralDir
  \/ \E t \in Threads : StopThread(t) \/ JoinThread(t)
  \/ FinalFlush

Finished == mpc = "end" /\ UNCHANGED vars

Next == Caller \/ (\E t \in Threads : Coder(t) \/ CodeFails(t)) \/ Finished

\* A failure is not what lets a thread go that waits for memory.
Fairness == WF_vars(Caller) /\ \A t \in Threads : WF_vars(Coder(t))

Spec == Init /\ [][Next]_vars /\ Fairness

-----------------------------------------------------------------------------
(* Properties *)

Results == {"OK", "THREAD", "OPEN", "WRITE", "ABORT", "FAIL", "INTERNAL"}
Places  == {"create", "loop", "blocks", "tail", "lock", "pop", "replace", "stop", "join",
            "flush", "end"}

TypeOK ==
  /\ work \in Works /\ outSeq \in BOOLEAN /\ mpc \in Places
  /\ ret \in Results /\ hres \in {"OK", "WRITE"} /\ failed \in BOOLEAN
  /\ cur \in 1 .. Len(work) + 1 /\ mt \in 1 .. Len(work) + 1 /\ last \in 0 .. Len(work)
  /\ order \in Seq(Threads) /\ done \in Seq(Threads) /\ doneSem \in 0 .. NumThreads
  /\ skip \subseteq DOMAIN work
  /\ \A i \in DOMAIN work : refs[i].blocks \in Nat /\ refs[i].finished \in BOOLEAN
  /\ pc \in [Threads -> {"none", "wait", "run", "alloc", "push", "post", "exited"}]
  /\ item \in [Threads -> 0 .. Len(work)] /\ result \in [Threads -> Results]
  /\ free \in Nat /\ sem \in Nat /\ held \in [Threads -> Nat] /\ at \in [Threads -> Nat]

\* What the archive must hold for item i.
Content(i) ==
  LET w == work[i]
      p == Len(w.sizes)
      n == w.sizes[p] IN
  CASE w.kind = "dir"  -> <<Header(i, 0)>>
    [] w.kind = "old"  -> <<Header(i, 1), OldData(i)>>
    [] w.kind = "file" -> <<Header(i, IF outSeq THEN -1 ELSE n)>> \o Piece(i, p, 0, n)
                            \o (IF outSeq THEN <<Descriptor(i, n)>> ELSE <<>>)
\* Where item k of the directory lies: behind the item before it.
Start(k) == IF k = 1 THEN 0 ELSE items[k - 1][2] + Len(Content(items[k - 1][1]))

\* When Update returns, it has succeeded just when nothing failed (an ignored result of a
\* write is not lost), and then the archive holds every item with the result of its last
\* pass, under a header with its size, one behind the other in their order; the directory
\* names the place of each, and nothing but the directory comes behind them.
ResultIsRight ==
  mpc = "end" =>
    /\ ret = "OK" <=> ~failed
    /\ ret = "OK" =>
         /\ {items[k][1] : k \in DOMAIN items} = DOMAIN work \ skip
         /\ \A j, k \in DOMAIN items : j < k => items[j][1] < items[k][1]
         /\ \A k \in DOMAIN items :
              /\ items[k][2] = Start(k)
              /\ SubSeq(arc, Start(k) + 1, Start(k + 1)) = Content(items[k][1])
         /\ Len(arc) = Start(Len(items) + 1) + 1 /\ arc[Len(arc)] = Directory

\* The threads that may write to the archive now.
Busy(t) == pc[t] \in {"run", "alloc"} \/ (pc[t] = "wait" /\ compressEvent[t] /\ ~exit[t])
Users   == {t \in Threads : Busy(t) /\ (real[t] \/ realEvent[t])}

\* The caller touches the archive only while no thread may, and no two threads may.
OneArchiveUser ==
  [][/\ Cardinality(Users') <= 1
     /\ UNCHANGED <<pc, pass, wrote, real>> /\ <<arc, pos>>' # <<arc, pos>> => Users = {}]_vars

\* The blocks that threads hold, and those that wait with the data of an item.
Pieces(owner, n) == {owner} \X (1 .. n)
InUse == UNION ({Pieces(<<"thread", t>>, held[t]) : t \in Threads}
                \cup {Pieces(<<"item", i>>, refs[i].blocks) : i \in DOMAIN work})

\* No block is lost or used twice, the semaphore counts the free ones, so whoever has got
\* it finds a block; and a block is free again when no item needs it.
BlocksKept ==
  /\ TypeOK
  /\ free + Cardinality(InUse) = pool
  /\ sem + Cardinality({t \in Threads : pc[t] = "alloc"}) = free
  /\ \A t \in Threads : isFree[t] /\ mpc = "loop" => held[t] = 0
  /\ \A i \in DOMAIN work : i < cur => refs[i].blocks = 0

\* Every update ends, though files wait for memory that others hold.
EveryUpdateEnds == <>(mpc = "end")
=============================================================================
