------------------------------- MODULE MtDec -------------------------------
(***************************************************************************)
(* The multithreaded block decoder of C/MtDec.c, as C/Lzma2DecMt.c drives  *)
(* it.  Threads form a ring.  The thread that holds canRead reads input    *)
(* and parses one block, passes canRead to the next thread, decodes, waits *)
(* for canWrite, writes, and passes canWrite on.  Input behind the parsed  *)
(* block goes to the next thread through the cross block.  When memory or  *)
(* threads run out, or a block is too large, the last block ends the ring, *)
(* and a single-thread decoder (Lzma2Dec_Decode_ST) takes the input that   *)
(* was read and not decoded out of the threads' buffers.                   *)
(*                                                                         *)
(* The input is a sequence of units 1, 2, 3 ...; ends[b] is the last unit  *)
(* of block b, that of the last block being the end mark.  A decoded unit  *)
(* is represented by its number.  Thread 0 is the caller's own thread.     *)
(* Calls on valid synchronization objects do not fail.  The size of the    *)
(* output is not known to the decoder (outSize_Defined is False).          *)
(***************************************************************************)
EXTENDS Naturals, Sequences, FiniteSets

CONSTANTS
  NumThreads,   \* the largest number of threads
  ThreadCounts, \* CLzma2DecMtProps::numThreads, a choice of the caller in each call
  BufSize,      \* inBufSize, in units
  Streams,      \* inputs: [ends, size, big, bad], see Stream
  NumCalls,     \* how many calls of Lzma2DecMt_Decode are made
  Faults        \* which of these may go wrong, see FaultKinds

FaultKinds == {"alloc", "allocST", "thread", "read", "write", "progress"}

\* An input of size units: the blocks in big exceed outBlockMax, and decoding
\* unit bad fails (0 when there is none).
Stream(s) ==
  /\ s.ends \in Seq(Nat \ {0}) /\ s.ends # <<>>
  /\ \A b \in 2 .. Len(s.ends) : s.ends[b - 1] < s.ends[b]
  /\ s.size \in Nat /\ s.bad \in Nat
  /\ s.big \subseteq DOMAIN s.ends

ASSUME ConstantsAssumption ==
  /\ NumThreads \in Nat \ {0} /\ BufSize \in Nat \ {0}
  /\ ThreadCounts \subseteq {1, NumThreads}
  /\ NumCalls \in Nat
  /\ \A s \in Streams : Stream(s)
  /\ Faults \subseteq FaultKinds

Threads == 0 .. NumThreads - 1

VARIABLES
  mpc,              \* where Lzma2DecMt_Decode or MtDec_Destruct is
  calls, stream, result, freeIdx,
  pc, local,        \* each thread's place in MtDec_ThreadFunc2, and its locals
  canRead, canWrite,
  buf,              \* inBuf: the thread's list of input buffers
  saved,            \* inDataSize_Start and inDataSize of CMtDecThread
  coder,            \* CLzma2DecMtThread
  exitThread, blockIndex, numStarted, limit,
  readPos, readWasFinished, readRes,
  crossBlock, cross, \* whether the cross block is allocated, and what it holds
  interruptIndex,   \* needInterrupt and interruptIndex; 0 is not_defined
  progRes,          \* mtProgress.res
  wasInterrupted, isAllocError, overflow, threadingError,
  filledStart, numFilled,
  inProcessed, out, \* what the caller is told, and what was written
  refused,          \* whether the output stream failed to take a part of it
  tMode, chunk      \* Lzma2Dec_Decode_ST: more from the threads; inData

mainVars   == <<mpc, calls, stream, result, freeIdx, tMode, chunk>>
readerVars == <<blockIndex, numStarted, limit, readPos, readWasFinished, readRes,
                crossBlock, cross>>
writerVars == <<wasInterrupted, isAllocError, overflow, threadingError, filledStart,
                numFilled, saved, inProcessed, out, refused>>
lockVars   == <<interruptIndex, progRes>>
vars == <<mainVars, pc, local, canRead, canWrite, buf, coder, exitThread, readerVars,
          writerVars, lockVars>>

\* The locals of one iteration of MtDec_ThreadFunc2.
NewLocal ==
  [block |-> 0, res |-> "OK", codeRes |-> "OK", interrupted |-> FALSE,
   alloc |-> FALSE, over |-> FALSE, finish |-> FALSE, thr |-> FALSE,
   needCode |-> FALSE, needWrite |-> FALSE, toStream |-> FALSE,
   start |-> 0, size |-> 0, link |-> 0, isCross |-> FALSE, src |-> <<>>,
   next |-> 0, needContinue |-> FALSE, canRecode |-> TRUE]

NewCoder == [state |-> "CONTINUE", mark |-> FALSE, inPre |-> 0, end |-> 0,
             data |-> <<>>, codeRes |-> "OK"]

Minimum(a, b) == IF a < b THEN a ELSE b
From(p, n)    == [i \in 1 .. n |-> p + i - 1]
Drop(s, n)    == SubSeq(s, n + 1, Len(s))
\* The units of s in front of unit u; the units of s follow one another.
Before(s, u)  == IF s = <<>> \/ u <= Head(s) THEN <<>>
                 ELSE SubSeq(s, 1, Minimum(Len(s), u - Head(s)))
LastUnit      == stream.ends[Len(stream.ends)]
EndOf(p)      == CHOOSE e \in {stream.ends[b] : b \in DOMAIN stream.ends} :
                    /\ p <= e
                    /\ \A b \in DOMAIN stream.ends : p <= stream.ends[b] => e <= stream.ends[b]
TooBig(e)     == \E b \in stream.big : stream.ends[b] = e
May(f)        == f \in Faults

Init ==
  /\ mpc = "idle" /\ calls = 0 /\ result = "none" /\ freeIdx = 0
  /\ stream \in Streams
  /\ tMode = FALSE /\ chunk = <<>>
  /\ pc = [t \in Threads |-> "none"]
  /\ local = [t \in Threads |-> NewLocal]
  /\ canRead = [t \in Threads |-> FALSE] /\ canWrite = [t \in Threads |-> FALSE]
  /\ buf = [t \in Threads |-> <<>>]
  /\ saved = [t \in Threads |-> [start |-> 0, size |-> 0]]
  /\ coder = [t \in Threads |-> NewCoder]
  /\ exitThread = FALSE /\ blockIndex = 1 /\ numStarted = 0 /\ limit = NumThreads
  /\ readPos = 0 /\ readWasFinished = FALSE /\ readRes = "OK"
  /\ crossBlock = FALSE /\ cross = <<>>
  /\ interruptIndex = 0 /\ progRes = "OK"
  /\ wasInterrupted = FALSE /\ isAllocError = FALSE /\ overflow = FALSE
  /\ threadingError = FALSE
  /\ filledStart = 0 /\ numFilled = 0
  /\ inProcessed = 0 /\ out = <<>> /\ refused = FALSE

-----------------------------------------------------------------------------
(* The critical section mtProgress.cs *)

\* A call of the progress callback may end the operation; the first error stays.
ProgressCall ==
  progRes' \in IF progRes = "OK" /\ May("progress") THEN {"OK", "PROGRESS"} ELSE {progRes}

\* MtDec_GetError_Spec, as block b sees it.
IsInterrupted(b) == interruptIndex # 0 /\ b > interruptIndex

\* MtDec_Interrupt: the earliest block wins.
LowerIndex(b) == IF interruptIndex = 0 \/ b < interruptIndex THEN b ELSE interruptIndex

\* Event_Wait consumes the event.  Mutant: a manual-reset event.
StaysSet(event, t) == event
Consumed(event, t) == [event EXCEPT ![t] = FALSE]

-----------------------------------------------------------------------------
(* Lzma2DecMt_MtCallback_Parse *)

\* What Parse of src may answer in a block that ends with unit e: the state, the
\* number n of units it takes, and whether it has seen the end mark.  A block's
\* end is seen in the first unit behind it.
ParseNormally(src, e) ==
  IF src = <<>> \/ src[Len(src)] < e \/ (src[Len(src)] = e /\ e # LastUnit)
  THEN [state |-> "CONTINUE", n |-> Len(src), mark |-> FALSE]
  ELSE [state |-> IF e = LastUnit THEN "END" ELSE "NEW",
        n |-> e + 1 - Head(src), mark |-> e = LastUnit]

Parse(src, e) ==
  LET normal == ParseNormally(src, e) IN
     (IF src # <<>> /\ TooBig(e)
      THEN {[state |-> "OVERFLOW", n |-> 0, mark |-> FALSE]} ELSE {})
  \cup
     (IF stream.bad \in {src[i] : i \in 1 .. Len(src)} /\ stream.bad <= e
      THEN {[state |-> "END", n |-> stream.bad + 1 - Head(src), mark |-> FALSE]} ELSE {})
  \cup
     (IF src # <<>> /\ TooBig(e) /\ normal.state # "CONTINUE" THEN {} ELSE {normal})

-----------------------------------------------------------------------------
(* MtDec_ThreadFunc2: reading and parsing, with canRead *)

TakeRead(t) ==
  /\ pc[t] = "waitRead"
  /\ canRead[t]
  /\ canRead' = Consumed(canRead, t)
  /\ IF exitThread
     THEN /\ pc' = [pc EXCEPT ![t] = IF t = 0 THEN "out" ELSE "exited"]
          /\ UNCHANGED <<local, blockIndex>>
     ELSE /\ pc' = [pc EXCEPT ![t] = "check"]
          /\ local' = [local EXCEPT ![t] = [NewLocal EXCEPT !.block = blockIndex,
                                                            !.finish = readWasFinished]]
          /\ blockIndex' = blockIndex + 1
  /\ UNCHANGED <<mainVars, canWrite, buf, coder, exitThread, numStarted, limit, readPos,
                 readWasFinished, readRes, crossBlock, cross, writerVars, lockVars>>

\* MtDec_Progress_GetError_Spec at the three places that call it: where the
\* thread goes on when all is well, when it is interrupted and when the operation
\* has failed.
CheckError(t, at, ok, interrupted, failed) ==
  /\ pc[t] = at
  /\ ProgressCall
  /\ local' = [local EXCEPT ![t].res = progRes',
                            ![t].interrupted = IsInterrupted(local[t].block)]
  /\ pc' = [pc EXCEPT ![t] = IF progRes' # "OK" THEN failed
                             ELSE IF IsInterrupted(local[t].block) THEN interrupted
                             ELSE ok]
  /\ UNCHANGED <<mainVars, canRead, canWrite, buf, coder, exitThread, readerVars,
                 writerVars, interruptIndex>>

StartCheck(t) == CheckError(t, "check", "read", "precode", "precode")
ReadCheck(t)  == CheckError(t, "readCheck", "parse", "recheck", "precode")
CodeCheck(t)  == CheckError(t, "codeCheck", "code", "waitWrite", "waitWrite")

\* No memory for the next input buffer.
NoBuffer(t) ==
  /\ pc[t] = "read"
  /\ May("alloc")
  /\ local[t].link = Len(buf[t])
  /\ local' = [local EXCEPT ![t].alloc = TRUE, ![t].finish = TRUE]
  /\ pc' = [pc EXCEPT ![t] = "recheck"]
  /\ UNCHANGED <<mainVars, canRead, canWrite, buf, coder, exitThread, readerVars,
                 writerVars, lockVars>>

\* The input the previous block left over is parsed first.
ReadCross(t) ==
  /\ pc[t] = "read"
  /\ local[t].link = 0 /\ cross # <<>>
  /\ local' = [local EXCEPT ![t].isCross = TRUE, ![t].src = cross,
                            ![t].size = Len(cross), ![t].start = Len(cross)]
  /\ pc' = [pc EXCEPT ![t] = "parse"]
  /\ UNCHANGED <<mainVars, canRead, canWrite, buf, coder, exitThread, readerVars,
                 writerVars, lockVars>>

\* The number of units a read of the input brings, and whether it failed.
Reads ==
  LET n == Minimum(BufSize, stream.size - readPos) IN
  {<<n, "OK">>} \cup (IF May("read") THEN (0 .. n) \X {"READ"} ELSE {})

\* There is no check when nothing was read; the cross block counts as read.
ReadStream(t) ==
  /\ pc[t] = "read"
  /\ ~(local[t].link = 0 /\ cross # <<>>)
  /\ \E r \in Reads :
       LET src  == From(readPos + 1, r[1])
           last == r[1] # BufSize \/ r[2] # "OK"
       IN
       /\ readPos' = readPos + r[1]
       /\ readRes' = IF r[2] = "OK" THEN readRes ELSE r[2]
       /\ readWasFinished' = (readWasFinished \/ last)
       /\ buf' = [buf EXCEPT ![t] = SubSeq(@, 1, local[t].link) \o <<src>>
                                      \o Drop(@, local[t].link + 1)]
       /\ local' = [local EXCEPT ![t].src = src, ![t].isCross = FALSE,
                                 ![t].finish = last,
                                 ![t].size = @ + r[1],
                                 ![t].start = IF local[t].link = 0 THEN r[1] ELSE @]
       /\ pc' = [pc EXCEPT ![t] = IF r[1] = 0 /\ ~local[t].isCross THEN "parse"
                                  ELSE "readCheck"]
  /\ UNCHANGED <<mainVars, canRead, canWrite, coder, exitThread, blockIndex, numStarted,
                 limit, crossBlock, cross, writerVars, lockVars>>

\* What is parsed into the coder: Parse begins a block when link is 0.
ParsedCoder(t, o) ==
  LET src == local[t].src
      c   == IF local[t].link = 0 THEN NewCoder ELSE coder[t]
      e   == IF c.end = 0 /\ src # <<>> THEN EndOf(Head(src)) ELSE c.end
  IN  [c EXCEPT !.state = o.state, !.mark = o.mark, !.end = e, !.inPre = @ + o.n]

Outcomes(t) ==
  LET src == local[t].src
      e   == IF local[t].link # 0 /\ coder[t].end # 0 THEN coder[t].end
             ELSE IF src # <<>> THEN EndOf(Head(src)) ELSE 0
  IN  Parse(src, e)

\* The cross block moves into the thread's own buffer as far as it was parsed.
MoveCross(t, n) ==
  buf' = IF local[t].isCross
         THEN [buf EXCEPT ![t] = <<SubSeq(local[t].src, 1, n)>> \o Drop(@, 1)]
         ELSE buf

\* The part of a step of the parser that does not depend on the outcome.
Parsed(t, o) ==
  /\ coder' = [coder EXCEPT ![t] = ParsedCoder(t, o)]
  /\ UNCHANGED <<mainVars, canRead, canWrite, exitThread, blockIndex, numStarted, limit,
                 readPos, readWasFinished, readRes, writerVars, lockVars>>

ParseOverflow(t) ==
  /\ pc[t] = "parse"
  /\ \E o \in Outcomes(t) : o.state = "OVERFLOW" /\ Parsed(t, o)
  /\ MoveCross(t, Len(local[t].src))
  /\ cross' = <<>>
  /\ local' = [local EXCEPT ![t].needWrite = TRUE, ![t].over = TRUE, ![t].finish = TRUE]
  /\ pc' = [pc EXCEPT ![t] = "recheck"]
  /\ UNCHANGED crossBlock

\* The block goes on behind this input.
ParseContinue(t) ==
  /\ pc[t] = "parse"
  /\ ~local[t].finish
  /\ \E o \in Outcomes(t) :
       o.state = "CONTINUE" /\ Parsed(t, o) /\ MoveCross(t, o.n)
  /\ cross' = <<>>
  /\ local' = [local EXCEPT ![t].needWrite = TRUE, ![t].link = @ + 1, ![t].src = <<>>]
  /\ pc' = [pc EXCEPT ![t] = "read"]
  /\ UNCHANGED crossBlock

\* This input is the last of the block, or of the stream; n units of it were parsed.
LastParsed(t, l, n, finish) ==
  LET size == Len(l.src) IN
  [l EXCEPT !.needWrite = TRUE, !.needCode = TRUE, !.finish = finish,
            !.size = @ - (size - n),
            !.start = IF l.link = 0 THEN n ELSE @]

ParseAll(t) ==
  LET l == local[t] IN
  /\ pc[t] = "parse"
  /\ \E o \in Outcomes(t) :
       /\ o.state \in {"NEW", "END"} \/ (o.state = "CONTINUE" /\ l.finish)
       /\ o.n = Len(l.src)
       /\ Parsed(t, o) /\ MoveCross(t, o.n)
       /\ local' = [local EXCEPT ![t] = LastParsed(t, l, o.n, l.finish \/ o.state = "END")]
  /\ cross' = <<>>
  /\ pc' = [pc EXCEPT ![t] = "recheck"]
  /\ UNCHANGED crossBlock

\* Behind the end of the stream, what was read is dropped; the cross block keeps it.
ParseAfterEnd(t) ==
  LET l == local[t] IN
  /\ pc[t] = "parse"
  /\ \E o \in Outcomes(t) :
       /\ o.state = "END" /\ o.n # Len(l.src)
       /\ Parsed(t, o) /\ MoveCross(t, o.n)
       /\ cross' = IF l.isCross THEN Drop(l.src, o.n) ELSE cross
       /\ local' = [local EXCEPT ![t] = LastParsed(t, l, o.n, TRUE)]
  /\ pc' = [pc EXCEPT ![t] = "recheck"]
  /\ UNCHANGED crossBlock

\* What becomes the cross block.  Mutant: a cross block keeps its parsed part.
KeptParsed(l, n)  == IF l.isCross THEN l.src ELSE Drop(l.src, n)
Unparsed(l, n)    == Drop(l.src, n)

ParseNew(t) ==
  LET l == local[t] IN
  /\ pc[t] = "parse"
  /\ \E o \in Outcomes(t) :
       /\ o.state = "NEW" /\ o.n # Len(l.src)
       /\ Parsed(t, o) /\ MoveCross(t, o.n)
       /\ cross' = Unparsed(l, o.n)
       /\ local' = [local EXCEPT ![t] = LastParsed(t, l, o.n, FALSE)]
  /\ crossBlock' = TRUE
  /\ pc' = [pc EXCEPT ![t] = "recheck"]

\* No memory for the cross block: the thread keeps all the input.
NoCrossBlock(t) ==
  LET l == local[t] IN
  /\ pc[t] = "parse"
  /\ May("alloc") /\ ~crossBlock
  /\ \E o \in Outcomes(t) :
       o.state = "NEW" /\ o.n # Len(l.src) /\ Parsed(t, o)
  /\ local' = [local EXCEPT ![t].needWrite = TRUE, ![t].needCode = TRUE,
                            ![t].finish = TRUE, ![t].alloc = TRUE]
  /\ pc' = [pc EXCEPT ![t] = "recheck"]
  /\ UNCHANGED <<buf, crossBlock, cross>>

Recheck(t) ==
  /\ pc[t] = "recheck"
  /\ local' = [local EXCEPT ![t].res = progRes,
                            ![t].interrupted = IsInterrupted(local[t].block),
                            ![t].src = <<>>]
  /\ pc' = [pc EXCEPT ![t] = "precode"]
  /\ UNCHANGED <<mainVars, canRead, canWrite, buf, coder, exitThread, readerVars,
                 writerVars, lockVars>>

-----------------------------------------------------------------------------
(* MtDec_ThreadFunc2: the next thread gets canRead *)

\* Lzma2DecMt_MtCallback_PreCode allocates the output buffer.
PreCodeResults(t) ==
  IF coder[t].inPre = 0 THEN {"DATA"}
  ELSE IF May("alloc") THEN {"OK", "MEM"} ELSE {"OK"}

PreCode(t) ==
  LET l    == local[t]
      good == l.res = "OK" /\ ~l.interrupted
  IN
  /\ pc[t] = "precode"
  /\ \E r \in IF good /\ l.needCode THEN PreCodeResults(t) ELSE {"OK"} :
       LET finish == l.finish \/ ~good \/ r # "OK" IN
       /\ local' = [local EXCEPT ![t].codeRes = r, ![t].finish = finish,
                                 ![t].needCode = @ /\ r = "OK", ![t].link = 0]
       /\ coder' = [coder EXCEPT ![t].codeRes = IF r = "DATA" THEN r ELSE @]
       /\ pc' = [pc EXCEPT ![t] = IF ~finish THEN "pass"
                                  ELSE IF good /\ l.needCode /\ r = "OK" THEN "code"
                                  ELSE "waitWrite"]
  /\ UNCHANGED <<mainVars, canRead, canWrite, buf, exitThread, readerVars,
                 writerVars, lockVars>>

\* Mutant: the ring wraps around one thread too late.
LateIndex(t, started) == IF t + 1 > started THEN 0 ELSE t + 1
NextIndex(t, started) == IF t + 1 >= started THEN 0 ELSE t + 1

\* canRead goes to the next thread of the ring.  Only a thread with a block to
\* decode gets here.
PassRead(t) ==
  LET next == NextIndex(t, numStarted) IN
  /\ canRead' = [canRead EXCEPT ![next] = TRUE]
  /\ local' = [local EXCEPT ![t].next = next]

Unspawned == <<mainVars, buf, coder, exitThread, blockIndex, readPos, readWasFinished,
               readRes, crossBlock, cross, writerVars, lockVars>>

\* Mutant: one thread more than the limit.
MayOvershoot == numStarted <= limit
MaySpawn     == numStarted < limit

\* MtDecThread_CreateAndStart of a thread that may exist from an earlier call.
SpawnAndPass(t) ==
  /\ pc[t] = "pass"
  /\ MaySpawn
  /\ LET next == NextIndex(t, numStarted + 1) IN
       /\ canRead' = [canRead EXCEPT ![numStarted] = FALSE, ![next] = TRUE]
       /\ local' = [local EXCEPT ![t].next = next]
  /\ pc' = [pc EXCEPT ![t] = "code",
                      ![numStarted] = IF @ = "none" THEN "waitRead" ELSE @]
  /\ canWrite' = [canWrite EXCEPT ![numStarted] = FALSE]
  /\ numStarted' = numStarted + 1
  /\ UNCHANGED <<limit, Unspawned>>

PassOnly(t) ==
  /\ pc[t] = "pass"
  /\ ~MaySpawn
  /\ PassRead(t)
  /\ pc' = [pc EXCEPT ![t] = "code"]
  /\ UNCHANGED <<canWrite, numStarted, limit, Unspawned>>

\* A thread cannot be created: the ring stays as it is, and with only one thread
\* it ends.
SpawnFails(t) ==
  /\ pc[t] = "pass"
  /\ MaySpawn
  /\ May("thread") /\ pc[numStarted] = "none"
  /\ \/ /\ numStarted = 1
        /\ local' = [local EXCEPT ![t].finish = TRUE, ![t].needCode = FALSE,
                                  ![t].thr = TRUE]
        /\ pc' = [pc EXCEPT ![t] = "waitWrite"]
        /\ UNCHANGED <<canRead, limit>>
     \/ /\ numStarted > 1
        /\ limit' = numStarted
        /\ PassRead(t)
        /\ pc' = [pc EXCEPT ![t] = "code"]
  /\ UNCHANGED <<canWrite, numStarted, Unspawned>>

-----------------------------------------------------------------------------
(* MtDec_ThreadFunc2: decoding, in parallel *)

\* What the decoder makes of the units src, of which at most room belong to the
\* block: the units it decodes, and the result.
Decoded(src, room, blockWasFinished) ==
  LET own  == SubSeq(src, 1, room)
      good == IF stream.bad = 0 THEN own ELSE Before(own, stream.bad)
  IN
  IF good # own THEN [data |-> good, dec |-> "DATA", res |-> "DATA"]
  ELSE [data |-> own, dec |-> "OK",
        res |-> IF blockWasFinished /\ own # src THEN "FAIL" ELSE "OK"]

BlockWasFinished(t) == coder[t].state = "NEW" \/ coder[t].mark

\* Lzma2DecMt_MtCallback_Code of one input buffer.
Code(t) ==
  LET l    == local[t]
      c    == coder[t]
      done == Len(c.data)
      n    == IF l.link = 0 THEN l.start ELSE Minimum(BufSize, l.size - done)
      d    == Decoded(SubSeq(buf[t][l.link + 1], 1, n), Minimum(n, c.inPre - done),
                      BlockWasFinished(t))
      all  == done + Len(d.data)
  IN
  /\ pc[t] = "code"
  /\ coder' = [coder EXCEPT ![t].data = @ \o d.data, ![t].codeRes = d.dec]
  /\ local' = [local EXCEPT ![t].codeRes = d.res, ![t].link = @ + 1]
  /\ pc' = [pc EXCEPT ![t] = IF d.res # "OK" THEN "interrupt"
                             ELSE IF all \in {c.inPre, l.size} THEN "waitWrite"
                             ELSE "codeCheck"]
  /\ UNCHANGED <<mainVars, canRead, canWrite, buf, exitThread, readerVars, writerVars,
                 lockVars>>

\* MtDec_Interrupt after Code and after Write.
Interrupt(t, at, then) ==
  /\ pc[t] = at
  /\ interruptIndex' = LowerIndex(local[t].block)
  /\ pc' = [pc EXCEPT ![t] = then]
  /\ UNCHANGED <<mainVars, local, canRead, canWrite, buf, coder, exitThread, readerVars,
                 writerVars, progRes>>

CodeInterrupt(t)  == Interrupt(t, "interrupt", "waitWrite")
WriteInterrupt(t) == Interrupt(t, "interrupt2", "register")

-----------------------------------------------------------------------------
(* MtDec_ThreadFunc2: writing, with canWrite *)

\* A failed allocation by the thread or by PreCode.  Mutant: only the former.
OwnAlloc(l)   == l.alloc
AllocError(l) == l.alloc \/ l.codeRes = "MEM"

\* The wait for canWrite, what it finds and leaves in CMtDec, and the addition to
\* the progress.
TakeWrite(t) ==
  LET l     == local[t]
      alloc == AllocError(l)
  IN
  /\ pc[t] = "waitWrite"
  /\ canWrite[t]
  /\ canWrite' = Consumed(canWrite, t)
  /\ IF wasInterrupted
     THEN UNCHANGED <<wasInterrupted, isAllocError, overflow, threadingError>>
     ELSE /\ wasInterrupted' = (l.codeRes # "OK" \/ l.thr \/ alloc \/ l.over)
          /\ threadingError' = (threadingError \/ l.thr)
          /\ isAllocError' = (isAllocError \/ alloc)
          /\ overflow' = (overflow \/ l.over)
  /\ IF l.needCode THEN ProgressCall ELSE UNCHANGED progRes
  /\ local' = [local EXCEPT
       ![t].interrupted = @ \/ wasInterrupted,
       ![t].toStream = l.needWrite /\ (wasInterrupted \/ ~(l.thr \/ alloc \/ l.over)),
       ![t].res = IF l.needCode THEN progRes' ELSE @,
       ![t].needContinue = ~l.finish]
  /\ pc' = [pc EXCEPT ![t] = IF l.needWrite THEN "write" ELSE "register"]
  /\ UNCHANGED <<mainVars, canRead, buf, coder, exitThread, readerVars, filledStart,
                 numFilled, saved, inProcessed, out, refused, interruptIndex>>

\* How many units the output takes, and the result of Lzma2DecMt_MtCallback_Write:
\* the progress callback is asked between two parts.
Writes(data) ==
  {<<Len(data), "OK">>}
    \cup (IF May("write") /\ data # <<>> THEN {<<Len(data) - 1, "WRITE">>} ELSE {})
    \cup (IF May("progress") /\ Len(data) > 1 THEN {<<1, "PROGRESS">>} ELSE {})

Mismatch(t) ==
  /\ coder[t].codeRes = "OK" /\ BlockWasFinished(t)
  /\ coder[t].inPre # Len(coder[t].data)

\* Whether the block goes to the stream.  Mutant: even behind an interrupted one.
ToStreamAlways(l) == l.res = "OK" /\ l.toStream
ToStream(l)       == l.res = "OK" /\ l.toStream /\ ~l.interrupted

\* The input counted as processed.  Mutant: that of blocks not written, too.
AllInput(t)     == Len(coder[t].data)
WrittenInput(t) == IF ToStream(local[t]) THEN Len(coder[t].data) ELSE 0

Write(t) ==
  LET l == local[t]
      c == coder[t]
      after(res, needContinue, canRecode) ==
        /\ local' = [local EXCEPT ![t].res = res, ![t].needContinue = needContinue,
                                  ![t].canRecode = canRecode]
        /\ wasInterrupted' = (wasInterrupted \/ res # "OK")
        /\ pc' = [pc EXCEPT ![t] = IF res # "OK" \/ (~needContinue /\ ~l.finish)
                                   THEN "interrupt2" ELSE "register"]
  IN
  /\ pc[t] = "write"
  /\ inProcessed' = inProcessed + WrittenInput(t)
  /\ \/ /\ ~ToStream(l)
        /\ after("OK", FALSE, TRUE)
        /\ UNCHANGED <<out, refused, progRes>>
     \/ /\ ToStream(l)
        /\ IF Mismatch(t)
           THEN after("FAIL", FALSE, TRUE) /\ UNCHANGED <<out, refused, progRes>>
           ELSE \E w \in Writes(c.data) :
                  /\ out' = out \o SubSeq(c.data, 1, w[1])
                  /\ refused' = (refused \/ w[2] = "WRITE")
                  /\ progRes' = IF w[2] = "PROGRESS" /\ progRes = "OK" THEN w[2] ELSE progRes
                  /\ after(w[2], w[2] = "OK" /\ c.state \notin {"OVERFLOW", "END"}, FALSE)
  /\ UNCHANGED <<mainVars, canRead, canWrite, buf, coder, exitThread, readerVars,
                 isAllocError, overflow, threadingError, filledStart, numFilled, saved,
                 interruptIndex>>

\* Whether the thread's input is kept for the single-thread decoder.
KeepsInput(t) ==
  LET l == local[t] IN
  /\ l.canRecode
  /\ \/ ~l.needCode \/ l.res # "OK" \/ l.codeRes # "OK" \/ l.interrupted
     \/ wasInterrupted \/ numFilled # 0

\* Who wakes thread 0 with canRead: a thread that ends the ring or restores it,
\* unless it is thread 0 that ends it.  Mutant: thread 0 then, too.
WakesAlways(t, l) == l.finish
WakesZero(t, l)   == l.finish /\ (l.needContinue \/ t # 0)

\* The thread's bookkeeping, and the end of its iteration: canWrite goes to the
\* next thread, or the decoding is restored with thread 0, or it ends.  Neither
\* the coder nor, when the input is not kept, the contents of the buffers are
\* read again, so they are forgotten.
Register(t) ==
  LET l     == local[t]
      keeps == KeepsInput(t) /\ (l.size # 0 \/ ~l.finish)
      over  == l.finish /\ ~l.needContinue
  IN
  /\ pc[t] = "register"
  /\ filledStart' = IF KeepsInput(t) /\ numFilled = 0 THEN t ELSE filledStart
  /\ numFilled' = IF keeps THEN numFilled + 1 ELSE numFilled
  /\ saved' = IF keeps THEN [saved EXCEPT ![t] = [start |-> l.start, size |-> l.size]]
              ELSE saved
  /\ buf' = IF keeps THEN buf ELSE [buf EXCEPT ![t] = [i \in DOMAIN @ |-> <<>>]]
  /\ canWrite' = IF over THEN canWrite
                 ELSE [canWrite EXCEPT ![IF l.finish THEN 0 ELSE l.next] = TRUE]
  /\ canRead' = IF WakesZero(t, l) THEN [canRead EXCEPT ![0] = TRUE]
                ELSE canRead
  /\ exitThread' = (exitThread \/ (over /\ t # 0))
  /\ pc' = [pc EXCEPT ![t] = IF over /\ t = 0 THEN "out" ELSE "waitRead"]
  /\ local' = [local EXCEPT ![t] = NewLocal]
  /\ coder' = [coder EXCEPT ![t] = NewCoder]
  /\ UNCHANGED <<mainVars, readerVars, wasInterrupted, isAllocError, overflow,
                 threadingError, inProcessed, out, refused, lockVars>>

-----------------------------------------------------------------------------
(* Lzma2DecMt_Decode *)

\* The reset of MtDec_Code.  Thread 0 gets both events, and the caller's thread
\* becomes thread 0.
StartThreads ==
  /\ mpc' = "threads"
  /\ pc' = [pc EXCEPT ![0] = "waitRead"]
  /\ canRead' = [canRead EXCEPT ![0] = TRUE]
  /\ canWrite' = [canWrite EXCEPT ![0] = TRUE]
  /\ blockIndex' = 1 /\ numStarted' = 1 /\ limit' = NumThreads
  /\ interruptIndex' = 0 /\ progRes' = "OK" /\ exitThread' = FALSE
  /\ wasInterrupted' = FALSE /\ isAllocError' = FALSE /\ overflow' = FALSE
  /\ threadingError' = FALSE
  /\ cross' = <<>> /\ filledStart' = 0 /\ numFilled' = 0

StartAlone ==
  /\ mpc' = "prepare"
  /\ UNCHANGED <<pc, canRead, canWrite, blockIndex, numStarted, limit, interruptIndex,
                 progRes, exitThread, wasInterrupted, isAllocError, overflow,
                 threadingError, cross, filledStart, numFilled>>

\* The threads' buffers stay allocated; what they held is not read again, so it is
\* forgotten, with the counts that went with it and the result of the call before.
Decode ==
  /\ mpc = "idle"
  /\ calls < NumCalls
  /\ calls' = calls + 1 /\ result' = "none"
  /\ stream' \in Streams
  /\ \E n \in ThreadCounts : IF n > 1 THEN StartThreads ELSE StartAlone
  /\ tMode' = FALSE /\ chunk' = <<>>
  /\ readPos' = 0 /\ readWasFinished' = FALSE /\ readRes' = "OK"
  /\ inProcessed' = 0 /\ out' = <<>> /\ refused' = FALSE
  /\ buf' = [t \in Threads |-> [i \in DOMAIN buf[t] |-> <<>>]]
  /\ saved' = [t \in Threads |-> [start |-> 0, size |-> 0]]
  /\ UNCHANGED <<freeIdx, local, coder, crossBlock>>

\* MtDec_Code and its caller after thread 0 has left the ring.  Mutant: the
\* overflow is forgotten.
MoreByMemory == isAllocError \/ threadingError
NeedContinue == isAllocError \/ threadingError \/ overflow

ThreadsReturn ==
  /\ mpc = "threads"
  /\ pc[0] = "out"
  /\ pc' = [pc EXCEPT ![0] = "none"]
  /\ \/ /\ progRes # "OK"
        /\ mpc' = "idle" /\ result' = progRes
        /\ UNCHANGED tMode
     \/ /\ progRes = "OK" /\ ~NeedContinue
        /\ mpc' = "idle" /\ result' = readRes
        /\ UNCHANGED tMode
     \/ /\ progRes = "OK" /\ NeedContinue
        /\ mpc' = "prepare" /\ tMode' = TRUE
        /\ UNCHANGED result
  /\ UNCHANGED <<calls, stream, freeIdx, chunk, local, canRead, canWrite, buf, coder,
                 exitThread, readerVars, writerVars, lockVars>>

\* Whether MtDec_PrepareRead frees the buffers of thread i.
Unfilled(i) ==
  \/ i > numStarted
  \/ numFilled <= IF i >= filledStart THEN i - filledStart
                  ELSE i + numStarted - filledStart

\* MtDec_PrepareRead, when threads were used, and Lzma2Dec_Prepare_ST.
Prepare ==
  /\ mpc = "prepare"
  /\ IF tMode
     THEN /\ buf' = [t \in Threads |-> IF Unfilled(t) THEN <<>> ELSE buf[t]]
          /\ crossBlock' = (crossBlock /\ cross # <<>>)
          /\ tMode' = (numFilled # 0 \/ cross # <<>>)
     ELSE UNCHANGED <<buf, crossBlock, tMode>>
  /\ \/ mpc' = "fetch" /\ UNCHANGED result
     \/ May("allocST") /\ mpc' = "idle" /\ result' = "MEM"
  /\ UNCHANGED <<calls, stream, freeIdx, chunk, pc, local, canRead, canWrite, coder,
                 exitThread, blockIndex, numStarted, limit, readPos, readWasFinished,
                 readRes, cross, writerVars, lockVars>>

\* MtDec_Read: the rest of the first filled thread, after its first buffer was
\* freed when it has been used up; and whether there is no such thread.
Used        == chunk # <<>> /\ numFilled # 0
ThreadEmpty == Used /\ saved[filledStart].size = 0
LastThread  == numFilled = 0 \/ (ThreadEmpty /\ numFilled = 1)
NextFilled  ==
  IF ~ThreadEmpty THEN filledStart
  ELSE IF filledStart + 1 = numStarted THEN 0 ELSE filledStart + 1

FreedBuf ==
  IF ~Used THEN buf
  ELSE [buf EXCEPT ![filledStart] = IF ThreadEmpty THEN <<>> ELSE Tail(@)]

Unfetched == <<calls, stream, result, freeIdx, pc, local, canRead, canWrite, coder,
               exitThread, blockIndex, numStarted, limit, inProcessed, out, refused,
               wasInterrupted, isAllocError, overflow, threadingError, lockVars>>

FetchFilled ==
  LET t == NextFilled
      n == IF saved[t].start # 0 THEN saved[t].start ELSE Minimum(BufSize, saved[t].size)
  IN
  /\ mpc = "fetch" /\ tMode
  /\ ~LastThread
  /\ buf' = FreedBuf
  /\ numFilled' = IF ThreadEmpty THEN numFilled - 1 ELSE numFilled
  /\ filledStart' = t
  /\ saved' = [saved EXCEPT ![t] = [start |-> 0, size |-> @.size - n]]
  /\ chunk' = SubSeq(FreedBuf[t][1], 1, n)
  /\ mpc' = "decode"
  /\ UNCHANGED <<tMode, readPos, readWasFinished, readRes, crossBlock, cross, Unfetched>>

FetchCross ==
  /\ mpc = "fetch" /\ tMode
  /\ LastThread /\ cross # <<>>
  /\ buf' = FreedBuf
  /\ numFilled' = 0
  /\ chunk' = cross /\ cross' = <<>>
  /\ mpc' = "decode"
  /\ UNCHANGED <<tMode, filledStart, saved, readPos, readWasFinished, readRes, crossBlock,
                 Unfetched>>

FetchNothing ==
  /\ mpc = "fetch" /\ tMode
  /\ LastThread /\ cross = <<>>
  /\ buf' = FreedBuf
  /\ numFilled' = 0 /\ tMode' = FALSE /\ crossBlock' = FALSE
  /\ chunk' = <<>>
  /\ UNCHANGED <<mpc, filledStart, saved, readPos, readWasFinished, readRes, cross,
                 Unfetched>>

\* ISeqInStream_Read may bring less than it was asked for, and nothing only at the
\* end of the input or when it fails.
FetchStream ==
  LET most == Minimum(BufSize, stream.size - readPos) IN
  /\ mpc = "fetch" /\ ~tMode
  /\ IF readWasFinished
     THEN chunk' = <<>> /\ UNCHANGED <<readPos, readWasFinished, readRes>>
     ELSE \E n \in 0 .. most :
            /\ chunk' = From(readPos + 1, n)
            /\ readPos' = readPos + n
            /\ readRes' \in IF May("read") THEN {"OK", "READ"} ELSE {"OK"}
            /\ n # 0 \/ most = 0 \/ readRes' # "OK"
            /\ readWasFinished' = (n = 0 \/ readRes' # "OK")
  /\ mpc' = "decode"
  /\ UNCHANGED <<tMode, buf, saved, filledStart, numFilled, crossBlock, cross, Unfetched>>

\* What Lzma2Dec_Decode_ST answers after a short write, and at the end of the
\* input.
ShortWrite  == "WRITE"
NoMoreInput == "INPUT_EOF"

\* One round of Lzma2Dec_Decode_ST takes all of the input up to the end mark, and
\* writes what it has decoded: outStep_ST and the dictionary only say how much
\* output may wait for a later round.
DecodeChunk ==
  LET own == Before(chunk, LastUnit + 1)
      d   == Decoded(own, Len(own), FALSE)
      res == IF d.res # "OK" THEN d.res
             ELSE IF LastUnit \in {own[i] : i \in DOMAIN own} THEN "OK"
             ELSE IF own = <<>> THEN NoMoreInput ELSE "more"
  IN
  /\ mpc = "decode"
  /\ inProcessed' = inProcessed + Len(d.data)
  /\ \/ /\ out' = out \o d.data /\ UNCHANGED refused
        /\ \/ result' = res /\ mpc' = IF res = "more" THEN "fetch" ELSE "return"
           \/ /\ May("progress") /\ res = "more"
              /\ result' = "PROGRESS" /\ mpc' = "return"
     \/ /\ May("write") /\ d.data # <<>>
        /\ out' = out \o SubSeq(d.data, 1, Len(d.data) - 1) /\ refused' = TRUE
        /\ result' = ShortWrite /\ mpc' = "return"
  /\ UNCHANGED <<calls, stream, freeIdx, tMode, chunk, pc, local, canRead, canWrite, buf,
                 saved, coder, exitThread, readerVars, wasInterrupted, isAllocError,
                 overflow, threadingError, filledStart, numFilled, lockVars>>

\* An error of reading explains the lack of input.
Return ==
  /\ mpc = "return"
  /\ mpc' = "idle"
  /\ result' = IF result \in {"OK", "INPUT_EOF"} /\ readRes # "OK" THEN readRes ELSE result
  /\ chunk' = <<>>
  /\ UNCHANGED <<calls, stream, freeIdx, tMode, pc, local, canRead, canWrite, buf, coder,
                 exitThread, readerVars, writerVars, lockVars>>

-----------------------------------------------------------------------------
(* Lzma2DecMt_Destroy: MtDec_Free closes the threads one after another *)

Destroy ==
  /\ mpc = "idle"
  /\ mpc' = "close" /\ freeIdx' = 1 /\ exitThread' = TRUE
  /\ UNCHANGED <<calls, stream, result, tMode, chunk, pc, local, canRead, canWrite, buf,
                 coder, readerVars, writerVars, lockVars>>

CloseThread ==
  /\ mpc = "close" /\ freeIdx \in Threads
  /\ IF pc[freeIdx] = "none"
     THEN /\ freeIdx' = freeIdx + 1
          /\ UNCHANGED <<mpc, canRead, canWrite>>
     ELSE /\ mpc' = "join"
          /\ canRead' = [canRead EXCEPT ![freeIdx] = TRUE]
          /\ canWrite' = [canWrite EXCEPT ![freeIdx] = TRUE]
          /\ UNCHANGED freeIdx
  /\ UNCHANGED <<calls, stream, result, tMode, chunk, pc, local, buf, coder, exitThread,
                 readerVars, writerVars, lockVars>>

JoinThread ==
  /\ mpc = "join" /\ pc[freeIdx] = "exited"
  /\ mpc' = "close" /\ freeIdx' = freeIdx + 1
  /\ pc' = [pc EXCEPT ![freeIdx] = "none"]
  /\ canRead' = [canRead EXCEPT ![freeIdx] = FALSE]
  /\ canWrite' = [canWrite EXCEPT ![freeIdx] = FALSE]
  /\ UNCHANGED <<calls, stream, result, tMode, chunk, local, buf, coder, exitThread,
                 readerVars, writerVars, lockVars>>

Destroyed ==
  /\ mpc = "close" /\ freeIdx = NumThreads
  /\ mpc' = "end"
  /\ UNCHANGED <<calls, stream, result, freeIdx, tMode, chunk, pc, local, canRead,
                 canWrite, buf, coder, exitThread, readerVars, writerVars, lockVars>>

Finished == mpc = "end" /\ UNCHANGED vars

-----------------------------------------------------------------------------

Thread(t) ==
  \/ TakeRead(t) \/ StartCheck(t) \/ ReadCheck(t) \/ CodeCheck(t)
  \/ NoBuffer(t) \/ ReadCross(t) \/ ReadStream(t)
  \/ ParseOverflow(t) \/ ParseContinue(t) \/ ParseAll(t) \/ ParseAfterEnd(t)
  \/ ParseNew(t) \/ NoCrossBlock(t) \/ Recheck(t)
  \/ PreCode(t) \/ SpawnAndPass(t) \/ PassOnly(t) \/ SpawnFails(t)
  \/ Code(t) \/ CodeInterrupt(t)
  \/ TakeWrite(t) \/ Write(t) \/ WriteInterrupt(t) \/ Register(t)

Main ==
  \/ Decode \/ ThreadsReturn \/ Prepare
  \/ FetchFilled \/ FetchCross \/ FetchNothing \/ FetchStream \/ DecodeChunk \/ Return
  \/ Destroy \/ CloseThread \/ JoinThread \/ Destroyed

Next == Main \/ (\E t \in Threads : Thread(t)) \/ Finished

\* The scheduler runs every thread that can run; calling Lzma2DecMt_Decode and
\* Lzma2DecMt_Destroy is up to the caller.
Fairness ==
  /\ WF_vars(Main /\ mpc # "idle")
  /\ \A t \in Threads : WF_vars(Thread(t))

Spec == Init /\ [][Next]_vars /\ Fairness

-----------------------------------------------------------------------------
(* Properties *)

MainPcs  == {"idle", "threads", "prepare", "fetch", "decode", "return", "close",
             "join", "end"}
ThreadPcs == {"none", "waitRead", "check", "read", "readCheck", "parse", "recheck",
              "precode", "pass", "code", "codeCheck", "interrupt", "waitWrite", "write",
              "interrupt2", "register", "out", "exited"}
Results  == {"none", "OK", "READ", "PROGRESS", "MEM", "DATA", "FAIL", "WRITE",
             "INPUT_EOF", "more"}
Unit     == Nat \ {0}

(* The types of the variables; counts stay within the ring of threads.        *)
TypeOK ==
  /\ mpc \in MainPcs /\ calls \in 0 .. NumCalls /\ stream \in Streams
  /\ result \in Results /\ freeIdx \in 0 .. NumThreads
  /\ tMode \in BOOLEAN /\ chunk \in Seq(Unit)
  /\ pc \in [Threads -> ThreadPcs]
  /\ canRead \in [Threads -> BOOLEAN] /\ canWrite \in [Threads -> BOOLEAN]
  /\ buf \in [Threads -> Seq(Seq(Unit))]
  /\ saved \in [Threads -> [start : Nat, size : Nat]]
  /\ \A t \in Threads : coder[t].data \in Seq(Unit) /\ coder[t].codeRes \in Results
  /\ exitThread \in BOOLEAN /\ blockIndex \in Unit
  /\ numStarted \in 0 .. NumThreads /\ limit \in 1 .. NumThreads
  /\ readPos \in Nat /\ readWasFinished \in BOOLEAN /\ readRes \in {"OK", "READ"}
  /\ crossBlock \in BOOLEAN /\ cross \in Seq(Unit)
  /\ interruptIndex \in Nat /\ progRes \in {"OK", "PROGRESS"}
  /\ {wasInterrupted, isAllocError, overflow, threadingError} \subseteq BOOLEAN
  /\ filledStart \in Threads /\ numFilled \in 0 .. numStarted
  /\ inProcessed \in Nat /\ out \in Seq(Unit) /\ refused \in BOOLEAN

(* What reaches the output is a prefix of what a sequential decoder makes of  *)
(* the input: no block is written twice, out of turn or after one that was    *)
(* not written, whichever threads fail and whenever the single-thread decoder *)
(* takes over.                                                                *)
OutInOrder == out = From(1, Len(out))

\* The input that thread t still keeps for the single-thread decoder.
Kept(t) ==
  LET links == buf[t]
      first == IF links = <<>> THEN <<>> ELSE SubSeq(links[1], 1, saved[t].start)
      rest  == IF links = <<>> THEN <<>> ELSE Tail(links)
      flat[i \in 0 .. Len(rest)] == IF i = 0 THEN first ELSE flat[i - 1] \o rest[i]
  IN  SubSeq(flat[Len(rest)], 1, saved[t].size)

KeptInput ==
  LET nth(i) == (filledStart + i - 1) % numStarted
      flat[i \in 0 .. numFilled] == IF i = 0 THEN <<>> ELSE flat[i - 1] \o Kept(nth(i))
  IN  flat[numFilled]

(* When the threads hand over to the single-thread decoder, the input they    *)
(* read and did not decode is there, complete and in order: first in the      *)
(* buffers of the filled thread, which are freed as they are used up, then in *)
(* the cross block.  Only input behind the end mark may be missing.  At most  *)
(* one thread is filled then: the loop of MtDec_Read over several threads has *)
(* nothing to do for LZMA2.                                                   *)
NothingLost ==
  mpc \in {"prepare", "fetch", "decode"} /\ stream.bad = 0 =>
    LET pending == IF mpc = "decode" THEN chunk ELSE <<>>
        all     == out \o pending \o (IF tMode THEN KeptInput \o cross ELSE <<>>)
    IN  /\ tMode => numFilled <= 1
        /\ all = From(1, Len(all))
        /\ Len(all) = readPos \/ Len(all) >= LastUnit

ReaderPcs == {"check", "read", "readCheck", "parse", "recheck", "precode", "pass"}
WriterPcs == {"write", "interrupt2", "register"}
Tokens(event, pcs) ==
  {t \in Threads : event[t]} \cup {t \in Threads : pc[t] \in pcs}

(* There is one canRead and one canWrite at most, set or held by a thread,    *)
(* through spawning, restarting and ending the ring: the stream, the cross    *)
(* block and the fields of CMtDec need no other lock.                         *)
OneTokenEach ==
  mpc = "threads" =>
    /\ Cardinality(Tokens(canRead, ReaderPcs)) <= 1
    /\ \A t \in Threads : ~(canRead[t] /\ pc[t] \in ReaderPcs)
    /\ Cardinality(Tokens(canWrite, WriterPcs)) <= 1
    /\ \A t \in Threads : ~(canWrite[t] /\ pc[t] \in WriterPcs)

(* When the caller has left the ring, every other thread waits for canRead    *)
(* and no event is set, although one of them ended the ring: the caller takes *)
(* the threads' buffers, frees their output and may start again.              *)
AllParked ==
  mpc \in {"idle", "prepare", "fetch", "decode", "return"} =>
    \A t \in Threads :
      /\ pc[t] \in {"none", "waitRead"}
      /\ ~canRead[t] /\ ~canWrite[t]

(* An error of the read callback is not lost, in the threads or out of them,  *)
(* and without errors of writing a valid and complete stream is decoded to    *)
(* its end when the answer is SZ_OK, whatever an earlier call left behind: so *)
(* nothing that stopped the threads early, a failing progress callback        *)
(* included, is forgotten.                                                    *)
OkMeansDone ==
  mpc = "idle" /\ result = "OK" =>
    /\ readRes = "OK"
    /\ stream.bad = 0 /\ stream.size >= LastUnit /\ ~refused
         => Len(out) = LastUnit

(* The number of input units the caller is told were processed is that of the *)
(* blocks written, also when a thread decoded more: the caller continues      *)
(* reading, and reports what follows the stream, from there.                  *)
ProcessedIsWritten ==
  mpc \in {"idle", "prepare"} /\ calls > 0 /\ ~refused /\ "progress" \notin Faults
    => inProcessed = Len(out)

(* finishMode 1 of Lzma2DecMt.h: the stream must be finished, so a truncated  *)
(* stream is not answered with SZ_OK.                                         *)
FinishedOrError ==
  mpc = "idle" /\ result = "OK" => stream.size >= LastUnit

(* Every call returns, and so does the destructor: no thread waits for an     *)
(* event that nobody sets.                                                    *)
EveryDecodeReturns == []<>(mpc \in {"idle", "end"})

(* Without a fault of the outside world, lack of memory, lack of threads and  *)
(* blocks that are too large are not visible: the threads do what one         *)
(* sequential decoder does.                                                   *)
Sequential == INSTANCE SequentialDecoder WITH
  Sizes <- {s.ends[Len(s.ends)] : s \in Streams},
  size  <- IF calls = 0 THEN 0 ELSE LastUnit,
  busy  <- mpc \in {"threads", "prepare", "fetch", "decode", "return"},
  ok    <- mpc \notin {"threads", "prepare", "fetch", "decode", "return"} /\ calls > 0
             /\ result = "OK"

ImplementsSequentialDecoder == Sequential!Spec
=============================================================================
