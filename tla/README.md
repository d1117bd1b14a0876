# TLA+ models of the concurrent core of WinZST

WinZST is a fork of 7-Zip that writes tarball-first archives.  Most of its code is
sequential: parsers and writers of archive formats, codecs, and a Windows user
interface.  What is hard to get right and hard to test is the concurrent core:
engines that split a stream among threads, pipes between coder threads, and the
protocols by which they start, stop, fail and are used again.  That core is the
subject of this project, with one protocol of a single thread that has to survive
failures and crashes: the update of an archive through temporary files.

Contents: [the system](#the-system), [modules](#modules), [runs](#runs),
[fairness](#fairness), [proofs](#proofs), [findings](#findings),
[limits](#limits), [plan](#plan).

## The system

| component | state | operations | interacts with | hard part | correct when |
|---|---|---|---|---|---|
| **CMtCoder** `C/MtCoder.c`: block encoder of LZMA2 and xz | threads and their events, `readEvent`, `finishedEvent`, `blocksSemaphore`, ring of slots, list of output buffers, first error | `MtCoder_Code`, `MtCoder_Free`, the loop of each thread | callbacks `Code`, `Write`, the input stream; owned by `CLzma2Enc`, which uses it again | threads start each other, the writer's role moves between threads, failures anywhere, use after use | blocks are written in order, once; no slot or buffer is lost; SZ_OK exactly when complete; the call returns |
| **CMtDec** `C/MtDec.c` with **CLzma2DecMt** `C/Lzma2DecMt.c`: block decoder | ring of threads, tokens `canRead` and `canWrite` per thread, chains of input buffers, cross block, interruption index, flags of what ran out | `MtDec_Code`, `MtDec_Read`, `Lzma2DecMt_Decode`, destructor | callbacks Parse, PreCode, Code, Write; the caller's thread is thread 0 | input behind a block moves on; when memory or threads run out a single-thread decoder continues in the middle | output is a prefix of the right one; no input is lost; each token exists once |
| **CStreamBinder** `CPP/7zip/Common/StreamBinder.*`: pipe without a buffer | lent buffer, auto-reset event, semaphore, one flag per side | `Read`, `Write`, `CloseRead_CallOnce`, `CloseWrite`, `Create_ReInit` | a reader and a writer thread of the coder graph | either side closes at any moment | order, no loss, lent buffer not touched after `Write` returned, nobody waits forever |
| **CMixerMT, CVirtThread** `CoderMixer2.cpp`, `VirtThread.cpp`: graph of coders | one thread per coder, binders between them, a result each | `Code`, `Init`, `ReturnIfError` | StreamBinder | one result of many, failure in starting threads | the cause of a failure wins over its consequences; S_OK means every coder got its data; nothing runs after `Code` |
| **Threads.c, Synchronization.cpp** | mutex and condition variable per object on POSIX | wait, set, release | all of the above | lost wake-up, count limits | objects behave as events and semaphores |
| **Match finder threads** `C/LzFindMt.c` | two producer-consumer pairs (`CMtSync`) | start, next block, stop, `MtSync_StopWriting` | LZMA encoder | stop and restart while the producer waits or runs | each thread finds in the window the bytes it reads, though the window moves; a stop parks both threads |
| **xz decoder** `C/XzDec.c` | as CMtDec, with stream and block headers | callbacks of MtDec | CMtDec | several filled threads, input behind the end | as CMtDec |
| **BZip2 coders** `BZip2Encoder.cpp`, `BZip2Decoder.cpp` | ring of `CanWriteEvent`, finishing rendezvous; scout thread | encode, decode | – | order and CRC; restart for the next stream | blocks and combined CRC in input order; S_OK means whole; the call returns |
| **zip update** `ZipUpdate.cpp`, `OutMemStream.cpp`, `MemBlocks.cpp` | worker threads, blocks of memory, one item written directly, positions of the archive | `Update2`, the loop of each thread | archive output cache, update callback | items finish in any order, memory runs out, a write error is remembered by the cache only | S_OK means the whole archive; no block is lost; one writer at a time; the update ends |
| **Tarball-first update** `TarWrapUpdate.cpp` and the handlers | a temporary tar | `Create`, then the compression of one item | update callback | failure after the items were read | no half archive is reported as complete |
| **Archive update** `Update.cpp`, `UpdatePair.cpp` | list of pairs, temporary archive, what was processed | pairing, producing, replacing the original, `-sdel` | file system, other programs | failure, break or crash between deletion and move; sources that change | in no state is the archive lost, or a deleted source in no archive; nothing partial stays |
| Codecs, formats, extraction, encryption, user interface, installers | – | – | – | sequential or bound to the system | see PROJECT.json |

`PROJECT.json` lists every part, modelled or not, and every hazard with its line
and the properties that cover it.

How the parts fit together: a format handler builds a graph of coders (CMixerMT).
Each coder but one runs in a thread of its own and talks to its neighbours through
CStreamBinder.  A coder for LZMA2 in turn uses CMtCoder or CMtDec, whose threads
share one input and one output stream.

## Modules

```
OrderedOutput      <-- implemented by --  MtCoder       MCMtCoder   MtCoderProofs
SequentialDecoder  <-- implemented by --  MtDec         MCMtDec     MtDecProofs, MtDecDataProofs
Pipe               <-- implemented by --  StreamBinder              CoderThreadsProofs
Pipe               <-- relied on by   --  Mixer         MCMixer     CoderThreadsProofs
                                          LzFindMt                  LzFindMtProofs
                                          BZip2Enc                  BZip2EncProofs
                                          Update        MCUpdate    UpdateProofs
                                          ZipUpdate     MCZipUpdate ZipUpdateProofs
```

The MC modules hold the instances that a configuration file cannot write down.
In every module a thread's program counter names the place *before* the next
statement that another thread could notice: a wait, a set, a critical section, a
callback, or an access of a shared field.  Everything between two such places is
one action.  Events are booleans (auto-reset: a wait consumes them), semaphores are
numbers, critical sections are single actions.  Operators marked *Mutant* are
plausible mistakes; they are used by no action and only serve to show that each
property depends on the code.

### MtCoder (`C/MtCoder.c`)

Two kinds of processes: the calling thread (`mpc`: `MtCoder_Code` up to
`Event_Wait(finishedEvent)` and the collection of results, then `MtCoder_Free`) and the worker threads
(`pc[t]`: one action per step of `ThreadFunc2`, from `WaitRead` through `ReadBlock`,
`AcquireSlot`, `Spawn`, `UnlockRead`, `TakeBuffer`, `Code` to the writer's loop, and
`CountExit`, `CompareExit` of `ThreadFunc`).  `local[t]` holds the locals that live over a wait.
A block of input is its number; an output buffer holds the number of the block
encoded in it.  `freeBlocks` is the linked list `freeBlockList`/`freeBlockHead` as a
sequence.  Errors carry their origin, so the order in which results are
chosen is visible.  `CountExit` and `CompareExit` are two steps because the code has no lock
around them; the first finding depends on that.

### MtDec (`C/MtDec.c` as driven by `C/Lzma2DecMt.c`)

The callbacks have no life of their own, so they are part of the module: Parse is an
operator with a set of outcomes, PreCode, Code and Write are actions of the thread.
The input is a sequence of units; a block is a run of units, the last unit of the
stream is its end mark.  The end of a block is seen in the first unit of the next,
as in LZMA2, where the control byte of the next chunk tells.  A decoded unit is represented by
the input unit it comes from: the ratio of sizes plays no part in the control.

* Reading: `TakeRead`, `StartCheck`, `ReadCross`, `ReadStream`, `ReadCheck`, the six outcomes of parsing, `PreCode`, then one of `SpawnAndPass`, `PassOnly`, `SpawnFails`.
* Coding and writing: `Code`, `CodeInterrupt`, `CodeCheck`, `TakeWrite`, `Write`, `WriteInterrupt`, `Register`.
* The caller: `Decode` (start), `ThreadsReturn` (what `MtDec_Code` answers), `Prepare` (`MtDec_PrepareRead`), `FetchFilled`/`FetchCross`/`FetchStream`/`FetchNothing`/`DecodeChunk` (`Lzma2Dec_Decode_ST` over `MtDec_Read`), `Return`, and the destructor's `Destroy`, `CloseThread`, `JoinThread`, `Destroyed`.

`NumCalls` calls are made on one decoder; between them the caller may take another
stream and another number of threads (`ThreadCounts`).  Each stream names the blocks that exceed `outBlockMax` and a unit that does
not decode.

### StreamBinder (`CPP/7zip/Common/StreamBinder.{h,cpp}`)

A reader and a writer.  Bytes are their positions, so `got` shows loss, repetition and
order at once.  `Read` is `ReadCall`, `ReadLock`, `ReadCopy`, `ReadSignal`; `Write` is
`WriteCall`, `WriteSignal`, `WriteLock`, `WriteReturn` or, after the cut, `WriteCut`.
Between calls each side may close.  `Create_ReInit` starts the next run when both
sides have let go, as the mixer does for the next folder.

### Mixer (`CPP/7zip/Archive/Common/CoderMixer2.cpp`, `CPP/7zip/Common/VirtThread.cpp`)

One process per coder and the calling thread, which runs one coder itself: `main` is `MainCoderIndex`,
which `SelectMainCoder` chooses anew for each call, and `created` are the coders that have a thread by now.  A graph
(`graph`) is a set of bonds, each from a writer to a reader.  `Code` creates and then
starts the helpers (`Create`, `Start`; `CreateFails` when a thread cannot be made), runs the main coder, lets the
main coder's streams go and waits for each helper; then it picks a result, by
classes: `E_ABORT`, `E_OUTOFMEMORY`, others such as those of writing, `S_FALSE`, and last `E_FAIL`
(`Chosen`).  A bond is used through what `Pipe` promises of CStreamBinder, which run
`stream_binder` and the theorem `Implementation` establish: a write returns when its data
was read or when the reader has closed.  The codecs are external: they read, write, end,
fail or throw.  A coder that does not run keeps the `Result` of
the call before, and `Unset` is what it holds before the first.  Only a success, a data error
or E_NOTIMPL is followed by another call (7zExtract.cpp:397); in the model a "WRITE" stands for it.

### LzFindMt (`C/LzFindMt.c`)

Three processes: the LZ thread (the LZMA encoder, `pc["lz"]`), the tree thread (`bt`) and
the hash thread (`hash`), and the two `CMtSync` between neighbours, one record each in
`sync`.  `GetNextBlock`, `StopWriting` and `Init` of a CMtSync are operators that both
pairs use, as in the source.  A byte is its position in the stream; `mf` says which
positions lie in the window and where; `HashMove` is what the hash thread does inside both
critical sections, and the room that `KeepAddBefore` leaves for the rings is what makes it safe.  A block is the
range of positions it describes, and the bytes a consumer may look at.  Left out: hash values and matches, the
normalisation of positions and `directInput`, which only the numbers notice.  The contents of
the rings are forgotten at `InitMt`: `MtSync_Init` says that nothing is filled, and a reader that took an old
block all the same would violate the invariants.

### BZip2Enc (`CPP/7zip/Compress/BZip2Encoder.cpp`)

The caller (`mpc`: `CreateThread`, `Start`, the rendezvous `Gather`, `Release`,
`Drain`, the footer, `Destroy` and `Join`) and the threads (`pc[t]`: `ThreadFunc` from the wait for
`CanProcessEvent` through reading under the critical section, encoding, the wait for the
place's `CanWriteEvent`, writing, to the two meetings with the caller).  A block is its number;
`out` are the blocks written, `crc` those in the combined CRC.  The mode
without threads is part of the module.  The caller gives the encoder up after a failed call.

### Update (`CPP/7zip/UI/Common/Update.cpp`, `Archive/Common/TarWrapUpdate.cpp`)

A single process; the environment is the file system, other programs that change the
sources, the user who breaks in, and a crash in any state.  `file` says what lies at
each path (the archive, an additional one, the temporary one, the temporary tar) by its worth: nothing,
another's, the old archive, created, partly written, complete.  One action per step
of `UpdateArchive` that touches a file, each with its failure: `Create`, `PackSource`, `CloseOutput`, `DeleteOriginal`,
`MyMoveFile_with_Progress` in its POSIX variant (`Rename`, or `CopyOpens` to `UnlinkTemp` across
volumes), the destructor of `CTempFiles` (`ClearTempFiles`), and `-sdel` with its comparison of size and time
(`CompareSource`, `DeleteSource`).
`CreateTar`, `CloseTar` and `CompressTar` are the way of a new compressed tarball through a temporary tar, which is
removed when the handler returns.  `Done` may fail after the sources were deleted (`FinishDeletingAfterArchiving`).
A copy that cannot open the temporary archive leaves the empty file it has created under the final name
(FileDir.cpp:1042); `Tidy` allows it there and nowhere else, and only beside the
complete temporary archive (`EmptyArcOnly`).

### ZipUpdate (`CPP/7zip/Archive/Zip/ZipUpdate.cpp`, `CPP/7zip/Common/OutMemStream.cpp`, `MemBlocks.cpp`)

The caller is the loop of Update2 for several threads.  It runs ahead of the item it writes (`cur`)
and starts a thread for each file up to `mt` (`StartFile`, `PassOver`, `FileGone`, and `OpenFails`, which also stands for E_NOTIMPL); in its turn an item is copied
(`CopyItem`), taken from memory (`HeaderOfFinished`, `WriteBlocks`, `EndFinished`), or waited for: `Unlock`
writes its header and sets `WriteToRealStreamEvent`, `Lock` waits for some thread to finish, and
`PopCurrent` or `PopEarly` says whose file it was.  A thread packs its file in passes, one for each method that is tried;
`Fill` writes to the blocks it has, and when they are full it waits for the first of three things (`StopWriting`,
`GoReal`, `TakeSemaphore`).  After `GoReal` it writes to the archive itself (`WriteReal`).  Leaving Update2 in any
way is `StopThread` and `JoinThread` for each thread, then `FinalFlush`.

The archive is a sequence of cells: headers, units of packed data that know their item, pass and
place, descriptors, and the directory.  So one comparison shows order, sizes, the result of
an earlier pass that was not cut off, and a header that was not corrected.  `hres` is the error that
`CCacheOutStream` remembers; when the cache writes is not visible to the others, so a write fails at any
call or at the flush.

### Abstract specifications

`OrderedOutput` is an encoder without threads that emits blocks in order and answers
"ok" only when all are out.  `SequentialDecoder` is a decoder without threads or
limits of memory.  `Pipe` is what a reader and a writer may rely on.  None has a word
of the mechanism, so the refinements say that the mechanism cannot be noticed.

## Runs

| run | instance | states | shows |
|---|---|---|---|
| `mtcoder_faults` | 2 threads, 3 slots, calls of 1 and of 4 blocks, every fault, fair | 599767 | results, slots, buffers, reader and writer are right, every call returns, every thread can be joined; the refinement of OrderedOutput |
| `mtcoder_race` | 2 threads, 2 calls, no fault | violation | see [findings](#findings) |
| `mtdec_faults` | 1 or 2 threads, 2 calls, buffers of 2 units, 7 valid and broken streams, every fault | 1566444 | output, hand-over, error results, use after success and after failure |
| `mtdec_memory` | 1 or 3 threads, 2 calls, 5 valid streams up to 5 blocks, lack of memory and of threads, fair | 19973 | refinement of SequentialDecoder, termination, `inProcessed`, tokens while the ring grows, wraps around and stops growing |
| `mtdec_cutoff` | 2 threads, a stream that is cut off | violation | see [findings](#findings) |
| `stream_binder` | 4 bytes, writes up to 3, reads up to 2, 2 runs, fair | 1505 | all properties of the pipe and its refinement |
| `mixer` | 3 coders in 4 graphs, 2 calls, errors of coders and threads, exceptions of the main coder, fair | 856673 | S_OK means that all data arrived; the cause of a failure is reported, whatever the call before has left; nothing is left running; every call returns |
| `lzfind` | 22 bytes in a smaller window, rings of 2 blocks, 2 encodings, every fault, fair | 943937 | the threads find the bytes they believe to read; the end is not taken too early; stopping parks and ends the threads |
| `bzip2` | 1 or 3 threads, inputs of 0, 1 and 4 blocks, 2 calls, every fault, fair | 151432 | order, CRC and result; only a write that fails while another thread holds a later block can make a call hang |
| `bzip2_full` | 2 threads, 2 blocks, a write fails, fair | violation | see [findings](#findings) |
| `update` | 2 sources of which one is empty, 1 or 2 archives, every combination of options | 195128 | the archive and the deleted sources survive in every state; nothing partial is left at the end |
| `zip_update` | 2 threads, 3 archives of 3 or 4 items, 0, 1 or 3 blocks of memory, with and without seeking, every fault, fair | 504592 | S_OK means the whole archive and every other failure is reported; blocks are conserved; one at a time uses the archive; the update ends |

Why these bounds are enough for the cases that matter:

* MtCoder: the ring has n + n/8 + 1 slots, so 4 blocks with two threads make it wrap
  around, with one slot more than threads as in the real configuration.  Two threads
  meet in every pair of places.  The first call leaves the second thread unstarted, so the
  second call starts it on an object that was used before.  Two *long* calls are the finding: as
  the first call here has one thread only, none is left between counting and comparing when it
  returns, and the race over `numFinishedThreads` is seen in run `mtcoder_race` alone.
* MtDec: blocks of 1 to 3 units with buffers of 2 give blocks that span buffers, two
  blocks in one buffer, a block that ends with its buffer, a block that lies inside the cross
  block and one that only begins in it.  The oversized block is tried in the middle
  and at the end, the corrupt unit in the middle of a block, the cut inside and before blocks.
  Five blocks take a ring of three threads around almost twice.
* StreamBinder: sizes 3 and 2 make reads that empty, split and exceed a buffer; the
  second run begins with whatever the first left in the semaphore.
* Mixer: the chain has a coder that both reads and writes, as main coder and as helper;
  fan-in is BCJ2's decoder, fan-out its encoder.  In streams of one or two units (two
  in the chain `Long`) a reader can close before, between and behind the units.  The second call of the
  short chain may find another main coder, a thread that it does not need, and the results of the first.
  A coder's own E_FAIL, which `CauseNamed` exempts because a data error downstream hides it, is left to the proofs:
  with it TLC finds the invariants to hold in 2320183 states, but the liveness takes too long.
* LzFindMt: the window holds less than the input, so that it moves; a tree block covers
  less than a hash block and the reverse; the second encoding finds threads that were stopped
  or have failed.
* BZip2Enc: four blocks take a ring of three around; with an empty input and with one block
  some threads read nothing and only meet at the rendezvous.
* Update: two sources suffice for one packed and one not; two archives for the
  second command to fail after the first archive was finished.
* ZipUpdate: no block makes every file wait for its turn, one lets some wait, three hold a whole file
  and part of another; a file is tried with two methods, of which the second makes less or
  more; a thread gets a second file while the other still works, and an old item, a directory and a
  file that is gone lie between.

A counter in the models is bounded by its input: blocks by `Inputs` or `Sizes`, units by
`Streams` or `size`, bytes by `Total` or `StreamSize`, items by `Works`, calls by `NumCalls` or `NumEncodes`.
No run has a state constraint.

Deadlock is checked in all runs but those of BZip2Enc, where a failed write may stop the
encoder for ever: `OnlyLeftBlocksHang` says precisely when.  The modules allow stuttering only
where everything has ended (`Terminated`, `Finished`).

## Fairness

* MtCoder, MtDec: weak fairness for each thread, that is, the operating system
  runs a thread that can run.  Waits on events and semaphores do not need strong fairness,
  because what they wait for is not taken away by others for ever: readers take
  turns a bounded number of times.  Weak fairness also applies to the caller inside
  a call; whether it calls again is up to it (in MtDec, `Main /\ mpc # "idle"`; in
  MtCoder the calls are bounded and `EveryCallReturns` is satisfied by resting in "ready").
* LzFindMt, Mixer, BZip2Enc, ZipUpdate: weak fairness for each thread and for the caller inside a call.  That
  something fails, that the user breaks in, and that another call is made are choices; no property
  needs them.  In ZipUpdate the failure of a coder is outside the
  fair part: else a thread that waits for memory would be saved by failing.  An auto-reset event has one waiter at a time in all four, and a critical
  section that is held is given back after a bounded number of steps, so weak fairness is enough.
* Update states no fairness: its properties are about every state, which is what a crash asks for.
* The callbacks return: their steps are part of a thread.
* StreamBinder: a coder does not stop inside a call, and either calls or closes in the
  end.  Strong fairness is used once: a reader that has seen the end of the data
  closes some time, though it may read again before that.

## Proofs

### MtCoderProofs

Proved with TLAPS, for any number of threads, any ring size, any
inputs and any set of faults:

* `Typing`: `Spec => []TypeOK`.  It carries the arithmetic of the ring (`NextSlotType`:
  the successor of a slot is a slot) and the length of the free list.
* For one call: `Invariant` (`Spec => []IInv`), `ReaderExclusion` (`OneReader`),
  `FinishedIsDone` (`FinishedMeansDone`), `WriterExclusion` (`OneWriter`), `PendingIsStable`
  (`PendingStable`), `ResourcesAreKept` (`ResourcesKept`), `OkMeansComplete` (`OkIffComplete`) and
  `OutputIsOrdered` (`ImplementsOrderedOutput`).

All but `Typing` assume `OneCall` (`Len(Inputs) <= 1`).  The assumption cannot be
dropped: run `mtcoder_race` is a counterexample with two calls.

Argument.  None of these is inductive by itself.  The first strengthening is about the threads:
that a step of one thread keeps `FinishedMeansDone` depends on what `numFinished` and `numStarted` count.
`IInv` adds

* before the call nothing exists (`Fresh`); while the first thread is created and
  `readEvent` is not yet set, no thread is past `readEvent`;
* `Running`: the started threads are 0 .. `numStarted` - 1, except one that was created
  but is not counted yet (`JustStarted`).  It cannot get past `readEvent`, because its
  creator holds it.  `numFinished` is the number of threads that have left
  (`Done`), so `numFinished = numStarted` means that all of them have (`LastOut`);
* once `finishedEvent` was set, or the caller is not waiting for it, all threads are
  at rest (`AtRest`).

`ThreadStep` shows that a step of a thread keeps `Running` (by `RunningStep`, action by action)
and `OneReader` (by `OneReaderStep`); the only step that sets `finishedEvent` is
`CompareExit`, where `LastOut` applies.  `MainStep` does the same for the caller.

Over that lie three invariants about the blocks, each proved with the one before it.

* `Ring(f)`: the slots in use are consecutive from the front `f`, where the writer is or will be; at most
  one thread is a writer, and none while `writeIndex` names a slot.  The places that
  the semaphore has given away are exactly those in use and those on their way (`Claimed`), so a
  new block finds its slot free although positions come round.
* `BufInv`: every output buffer is at one place - with a thread, in a slot, in the free list or not
  allocated - and the count of the semaphore is what is left of the ring.
* `OrderInv`: `k` slots have been passed by the writer; each read block has the slot of its number, those
  before `f` are out or have recorded an error, and the first error stands in front of what is
  out.  At the end of the call all blocks have been passed (`AllWritten`), which gives `OkIffComplete`.

The refinement (`AbstractStep`) follows step by step: WriteBlock emits a block, the first error fails,
the caller's collecting of the results succeeds or gives up, everything else is invisible.
TLC checked each invariant for two and three threads before it was proved.

### MtDecProofs and MtDecDataProofs

Proved for any number of threads, any streams, any number of calls and any faults: all invariants that the passing runs check.  The control: `RingInvariant` (`Spec => []IInv`), `OneTokenAlways` (`OneTokenEach`) and `ParkedOutside`
(`AllParked`).  The data: `DataInvariant`
(`Spec => [](IInv /\ DInv)`), `OutputIsInOrder` (`OutInOrder`), `OkIsDone` (`OkMeansDone`), `InputIsKept`
(`NothingLost`), `ProcessedIsTrue` (`ProcessedIsWritten`) and `TypesAreKept` (`TypeOK`).  Under the hypothesis `Harmless`
- only memory and threads may be missing, and the streams are complete and correct, as in run `mtdec_memory` -
`DecodesSequentially` (`Spec => ImplementsSequentialDecoder`).

Argument.  That there is one `canRead` depends on which thread is `next` for whom, and the ring of threads
grows while it turns, restarts at thread 0 and is ended by any thread.  `IInv` describes the whole ring.

* `Ring(f, k)`: counted from the front `f`, `k` threads with unfinished blocks, each of which has the thread behind
  it as its `next`; then the reader, who has `canRead`, reads, or keeps `canRead` for ever because its
  block is the last; the others wait.  `canWrite` is at the front only, set or held.
* While threads may still be added, the ring has not come round (`f + k < numStarted`).  Therefore
  the thread that `MtDecThread_CreateAndStart` adds is the one behind the reader (`RingGrows`), and that
  thread 0 is given as `next` is right only in the last step of the growth (`RingPasses`).
* The front moves on when a block is written (`FrontMoves`).  The last block of the ring restores the ring with
  thread 0 in front, or ends it (`RingEnds`): then everybody else is parked already, and `canRead` of thread
  0 is set together with `exitThread` (`Leaving`).
* Outside of the ring nobody runs and no event is set (`AllRest`), and the destructor has at most the one
  thread awake that it joins (`Joining`).

The proofs about the data need that the number of a block is never 0, which is how "no interruption" is
written: `Numbered` says so of every thread that has a block (`BlockStays`, `OthersStay`), and the call that starts the ring
is the only one that numbers anew (`MainNumbers`).

Going round is arithmetic on `Dist`, the distance from the front (`DistNext`, `DistOne`, `GrowDist`).  TLC checked
`IInv` on the instances of runs `mtdec_faults` and `mtdec_memory` before it was proved.

The data, whose theorems are in MtDecDataProofs (MtDecProofs has `DInv` itself and what a thread knows of its
block up to decoding).  What is written depends on what several threads did with one input, some of which failed.  `DInv` gives
each block a place in the stream, `pos`, that depends on its number only, and says what its thread must know in
each place of its loop.

* `Chain(B, m, p, start, size)`: the first `m` buffers hold the `size` units behind `p`, of which `start` are in the first;
  the last buffer may hold more, which belongs to the next block.  `FullChain`: nothing is left over, so that the next
  buffer may follow.  `ChainNext` and `ReplaceBuffer` say that reading on and copying a rest into the cross
  block keep it; `ChainTail` is the single-thread decoder that drops its first buffer.
* By place: `Fresh` (no input yet), `ReadOn` (more input is needed), `ToParse` (input that is not parsed, from the stream
  or the cross block), `Early` (all is parsed), `Decoding` (a part is decoded, and `Cursor` is where the next buffer begins) and
  `Writing`.  They carry the reasons for which a block may be given up (`Excused`, `Failed`) until the writer sees them.
* Between threads: `Numbers` (blocks are numbered from the front of the ring), the place of a block is where the one before
  it ends, and the last block is followed by the cross block and the stream (`LastBlock`, `InputFrom`).
  `Interrupts`: an interruption that the writer has not seen yet belongs to a thread that will come to write.
* The hand-over: `Filled` limits how many threads can keep input when an earlier block was not written, `HandOver`
  and `Left` say what the caller finds.  It follows that with LZMA2 at most one thread is filled.  `Single` takes it
  through the single-thread decoder, and `Returning` to the result.

Only one step in the loop concerns several threads at a time, the end of a turn (`FrontData`, `EndData`): the front
moves on, and all blocks keep their places.  All others change one thread (`OthersData`, `OtherWriting`, `DataStays`).
`InputIsKept` compares the buffers, joined by recursive functions in `Kept` and `KeptInput`, with one piece of the
stream.  `UpTo` shows that such a function exists up to any length, by the least length at which it would not;
`AppendChain` that it yields the chain's units.  TLC checked each part of `DInv`, with two threads and
two calls and with three threads, over whole, cut, corrupt and oversized streams, before it was proved.

The refinement needs little more: without harm no error is recorded, what is written ends with the stream at
the latest (`Calm`, with `WrittenUpTo`), and the single-thread decoder never runs out of input (`RoundWrites`).  Then
Write and DecodeChunk emit (`Emits`), Decode begins, ThreadsReturn and Return answer (`CallEnds`), and all else is invisible.

### LzFindMtProofs

Proved for an input of any size, any window, hash length and dictionary, rings of any size, any number of encodings
and any faults: `Control` (`Spec => []SyncInv`), `StoppedThreads` (`StoppedMeansParked`, with `TypeOK`),
`Invariant` (`Spec => []IInv`), `TreeSeesItsBytes` (`BtSeesItsBytes`), `EncoderSeesItsBytes`
(`LzSeesItsBytes`) and `OkIsWhole` (`OkMeansWhole`).

Argument.  What the LZ thread believes about its bytes was decided two rings earlier, by a thread that has since gone
on and may have moved the window.  `IInv` carries that knowledge along in three layers.

* `SyncInv`, which knows no data.  `Lives` says in which phase each CMtSync is: not created, resting, starting,
  active or stopped.  `Counts`: the two semaphores and the blocks that are sent, held and claimed make up the ring, which
  is why no block is overwritten while it is held, and why the extra release of `MtSync_StopWriting` stays
  below the maximum: the consumer gives up the block it holds without freeing it.  `Sections`: who owns each critical
  section.
* `WindowInv`: pointer and position of each thread differ by what was moved out of the window, and by
  `offset` between the move and the adjustment, when the other two are kept out by their sections.
* `Data`.  `HashRing` and `BtRing`: the blocks of a ring describe consecutive ranges, the last of which ends at the
  producer's position (`HashItem`, `BtItem`).  `BtData`, `BtFilling` and `LzData` tie a thread's position to the
  block it holds.  Only at the end of the input may a position lag behind (`BtEnded`, `StartOf`): the last bytes are too
  few to be hashed, a block of them says "0 available", and nothing is read any more (`Frozen`).

The one step that can drop bytes is `MatchFinder_MoveBlock`.  While there is more to read, a hash block covers at most
`HashBlockSize - 2` positions and a tree block at most `BtBlockSize - 2`, so that what lies between the hash thread and
its readers is less than `KeepAddBefore`: `MoveBt` and `MoveLz`.  The mutant `NoKeepAdd` takes that room away.
`LzKeepsData` and `IInvStep` put the lemmas of the three threads together.  TLC checked `IInv` on an
instance like that of run `lzfind` before it was proved.

### CoderThreadsProofs: the pipe between coders

This module holds the proofs about StreamBinder, whose specification is `BinderSpec`, and then those about Mixer.

Proved for a stream of any length, writes and reads of any size and any number of runs:
`Typing`, `Delivery` (`ReaderGotWhatWriterSent`), `Lending` (`BufferLent`), `Releasing`
(`ReleaseNeverFails`), `Endings` (`EofIsEnd` and `CutIsClosed`), and `Implementation`
(`BinderSpec => ImplementsPipe`).

Argument.  One inductive invariant, `BinderInv`, serves all of them.  `PhaseInv` lists what
the two sides, the event and the semaphore can be together while the reader is open:
nothing to read (`NoData`), a buffer announced, taken, emptied, the writer unlocked, the
end announced, the end seen.  In each the semaphore holds at most one count, which is
why three are enough once the reader has released its two.  `StreamInv` says where the buffer
lies: it begins behind the bytes the reader has and ends where the current Write ends.
The phases make the copying safe: `Read` is in `copy` only in `Taken` or `EndSeen`, and in
`Taken` the writer waits for the semaphore, which is empty.  When the reader is closed no phase
is needed, because only the writer moves.  `Continues` is the one fact about
sequences: the bytes copied continue those delivered before.
The refinement follows step by step (`NextRefines`): ReadCopy is Deliver or End, WriteReturn is
Accept or Refuse, the closings are the closings, all else is invisible.
TLC checked `BinderInv` on three instances before it was proved.

### CoderThreadsProofs: the graph of coders

Proved for any graph whose coders have one unpacked stream each, any sizes, any number of calls and any
faults: `QuietAfterCode` (`Spec => []Consistent`), `OkIsWhole` (`Spec => []OkMeansWhole`) and
`CauseIsNamed` (`Spec => []CauseNamed`).

Argument.  The result of the whole is chosen from results that arise in other threads, so `IInv`
follows each coder through its life.

* `Place`: where a coder's thread and its two events can be while the caller creates, starts, codes, waits
  or rests.  After the wait for the last coder all are at rest: that is `Consistent`.
* `Life`: a coder that has not returned has its streams open and no result (`Fresh`); one that
  has returned has let go of them (`Gone`), and its result tells whether it failed by itself (`Ended`).
* While nobody has failed by itself, a coder that has returned got all it needed, and gave all of its
  output or all that its reader wanted (`Given`).  So an early end of the data, or a Write
  that is cut, is met only behind a reader that was satisfied or after a failure
  (`NoEarlyEnd`, `CutFacts`).  This needs the assumption of one unpacked stream: a decoder with two outputs
  could be cut on one while the reader of the other still waits.
* `Verdict`: the result that `Code` returns is the one of the first class that occurs among the results
  (`ChosenFirst`), and S_OK is the last class.  What the call before has left in a `Result` plays no part, because every
  coder has ended when the results are compared.

`CoderStep` shows that a step of a coder keeps this, `BeginStep`, `PassStep` and `ReturnCode` do it for the
caller.  `SameGraph` states that the graph never changes.  TLC checked `IInv` on the four graphs of
run `mixer` before it was proved.

### UpdateProofs

Proved for any sources, any archives and any combination of options and faults:
`UpdateTypes` (`Spec => []TypeOK`), `NothingIsLost` (`Spec => []DataSurvives`) and `NothingIsLeft`
(`Spec => []Tidy`).

Argument.  `DataSurvives` is about two things that are lost at different times, so `IInv` has
two halves.  `ArcKept` and `ArcPlace` follow the archive: up to the deletion the old one lies
under its name, from then on the complete new one lies at the temporary path, until the
move or the end of the copy brings it to its name; the temporary path is deleted only by those who
still have the other.  `OutputsMade` and `SourcesPacked` follow the sources: each target that the run has come past is
complete and holds every processed source in the version that was scanned, or no
source is processed; `match` may only contain sources whose version was compared after that.
`TypeStep`, `ArcStep`, `OutputsStep` and `SourcesStep` show the parts one by one, action by action.

`Tidy` needs another invariant, `TInv`, for the files that must *not* be there.  `TempOrAsBefore`: a path
that is not on the list of temporary paths is as it was before the run.  `Parts`: a partial file lies only under
the name that is being written, and at the exit only on that list.  `Created` (lemma `CreatedStep`):
an empty file lies where a file is being opened or copied, and else only where `EmptyArcOnly` allows.  `Outcome`: what is known when the list
is given up, and which results stand for it.  The
lemmas `TempStep`, `PartsStep`, `OutcomeStep` and `TidyStep` follow the actions; `RenameFiles` says what a rename
does to the files.

### BZip2EncProofs

Proved for any number of threads, any inputs, any number of calls and any faults:
`EncoderTypes` (`Spec => []TypeOK`) and `StreamStaysWhole` (`Spec => []StreamIsWhole`).

Argument.  The order of the output is the order in which tokens go round the ring of events, so
`IInv` says where every block and the token are.

* `Section`: a thread is in the critical section exactly when `cs` names it.
* `Held`: each block that was read and is not out lies with exactly one thread, unless a
  thread has given it up on an error.
* `Ring`: there is one turn.  The place whose turn it is writes block `Len(out) + 1`, and the
  blocks behind it lie around the ring from there.  `NextType`, `WrapNext`, `WrapShift` and `WrapSelf` are
  the arithmetic of going round.  That a new block finds its place empty needs counting: while
  a thread is free to read, fewer blocks are held than there are places (`Room`, from the
  pigeonhole principle of the library).
* `Errors`: a failure that happened is in some thread's or the encoder's result, and once it is there no thread answers "whole".
* `Phases` says at each place of the caller where the threads can be, and which of the
  above hold there: between calls all wait for `CanProcessEvent` and nothing is left in the ring.
  That makes the induction go through a second call.

`ThreadStep` has one lemma for each part (`SectionStep`, `HeldStep`, `RingStep`, `ErrorsStep`, `WorkingStep`,
`OutStep`), the caller's steps one for each place.  TLC checked `IInv` before it was proved.

### ZipUpdateProofs

Proved for any number of threads, any items, any number and size of blocks and any faults: `BlocksAreKept`
(`Spec => []BlocksKept`, which holds the type invariant), `ArchiveHasOneUser` (`Spec => OneArchiveUser`,
an action property) and `UpdateIsRight` (`Spec => []ResultIsRight`).  The first two rest on `Invariant`
(`Spec => []IInv`), the third on `ReportInvariant` (`Spec => [](IInv /\ Reported /\ Archived)`).

Argument.  A block belongs to a thread's stream or to an item that waits, the caller moves it from one
to the other, and it may do so only because of where the thread is.  So `IInv` follows threads and items together.

* `Life`: a thread has no file (`isFree`, nothing set, not in `done`), a file that is about to begin or being
  packed (`Engaged`), or a file that is packed and that the caller has not noticed.  `order` names the
  threads with a file, each once; `done` names each once too, so that `doneSem` has a bound (`DoneBound`, by the pigeonhole
  principle).  After Update2 is left, StopThread sets `CompressEvent` of threads that are in `done`, so `Engaged`
  looks at `exit` as well.
* `Counted`: `done` is as long as its semaphore, the threads between Push and Post, and a Lock that
  has not popped yet.  Hence GetFreeItem always finds an item.
* `Turn`: the files in `order` increase, each is still to be written, none of those between `cur` and `mt` is missing, and
  only the first can be `unlocked`: then its file is `cur` and its header is written.  The last part
  is what a second Unlock of the same file, and a thread that finishes early, have to keep.
* `Stored`: what waits for its turn is a file before `mt`; what is not finished, or already written, has no blocks.
* `Working`: a thread in real mode, or told to go there, is `unlocked`, and of the engaged threads only one is.
* `Memory`: the blocks in use are a set (`InUse`), so that the free ones and its cardinality make up `pool`; the semaphore and
  the threads that have got it make up the free ones (`BlockIsThere`: whoever has got it
  finds a block); data never outgrows the blocks of its stream (`Roomy`), which is why Detach never hands over more
  than there is (`BlocksFit`).

`ThreadTakes`, `ItemTakes` and `Handed` say how `InUse` changes when an owner has another number of
blocks.  `CallerWaits` and `WriterMoves` give the action property: an engaged thread that is unlocked is the first of
`order`, its item is `cur` and neither finished, nor left out, nor a directory, so none of the caller's writes can happen.

`UpdateIsRight` says two things, and each needs an invariant of its own.

* `Reported`: that something failed is always known to somebody who will say so: the stream of the archive (`hres`), a
  thread whose result the caller has still to take (`Failing`), or the caller (`ret`).  When Update2 is left with S_OK
  no thread has anything to pack (`Idle`), so nothing can fail behind its back.
* `Archived`: as long as the stream has no error (`Sound`), the items in front of the caller are listed in order unless
  they were left out (`Listed`); they lie one behind the other from position 0 (`Filed`); behind
  them is nothing (`Between`) or the current item with what has been written of it (`Holds`, and at which place of the
  caller in `Progress`); the file of each thread is in its memory, or in the archive from the header on (`AllMade`,
  `Unlocked`); and what waits for its turn is whole (`Early`).  When Update2 is left with S_OK the archive is `Complete`.

A file that is packed in two passes has to keep the second: a thread in real mode goes back to
behind the header and cuts the archive there (`Rewind`), and what it wrote before may have been longer than what follows.
At the switch from memory to the archive (`GoReal`) it writes first what memory holds.
The ignored result of `WriteToStream` is the reason for the split on `hres`: without an error of the stream
the data is there; with one, Update2 cannot end with S_OK, because the header, a later item or the
final flush meets the error.

The lemmas on cells (`JoinedCells`, `PutAt`, `PutEmpty`, `MadePiece`, `PieceGrows`, `ContentFacts`) say what writing at a position
leaves in the archive; then there is one lemma for each step that touches it (`ArchiveAhead`, `ArchiveNext`, `ArchivePops`,
`ArchiveUnlocks`, `ArchiveWaits`, `ArchiveReplaced`, `ArchiveFinished`, `ArchiveEnded`, `ArchiveCodes`).  `ResultIsRight` says of each item where it
begins (`Start`, behind the item before it) and what lies there, not that the archive is the
concatenation of all contents; the two agree, and the first needs no induction over the list of items.

TLC checked each part of `IInv`, `Reported` and `Archived` on the instance of run `zip_update` before it was proved.

### What the proofs assume and leave out

They assume the named `ASSUME` of each module (`ConstantsAssumption`, `BinderAssumption`, `RunsAssumption`), which TLC
evaluates in every run, and nothing else but `OneCall` and `Harmless` where they are named.  Only model-checked
is all liveness, which needs ENABLED and fairness.

## Findings

1. `mtcoder_race`.  A thread adds itself to `numFinishedThreads` and then reads
   `numStartedThreads` without a lock (MtCoder.c:349-351).  Another thread may be the last one
   out and wake the caller in between.  A caller that uses the object again resets both
   counters; when the delayed thread compares its old number (1) with the new
   count of started threads (1, the first thread of the new call), it sets `finishedEvent`
   of the new call.  `MtCoder_Code` then returns SZ_OK with blocks missing.  `CLzma2Enc`
   keeps one CMtCoder for all its calls, so an archive whose blocks are packed by one encoder is exposed.  The window is a few
   instructions wide, which is why no test would show it.
2. `mtdec_cutoff`.  With several threads a stream that is cut off is answered with SZ_OK
   although `finishMode` is 1.  PreCode does find out; `MtDec_Code` stores it in `codeRes`,
   which nobody reads.  The C++ caller compares sizes when it knows them.
3. `bzip2_full`.  When the output cannot be written, the thread that holds the turn leaves
   `EncodeBlock3` before it sets the next `CanWriteEvent` (BZip2Encoder.cpp:902, 916).  A thread that
   holds a later block waits for that event without end, and the caller waits for that thread.  A
   full disk can so hang the program.  `OnlyLeftBlocksHang` shows that it is the only way to hang.

Observations, of which no run makes a finding:

* With several threads, the result of a failed Write callback (MtDec.c:741) is neither in `readRes` nor in the
  progress, and `Lzma2DecMt_Decode` answers SZ_OK, where Lzma2DecMt.h:35 has SZ_ERROR_WRITE.  With one thread the error is
  reported.  The C++ caller (`Lzma2Decoder.cpp`) asks its stream wrapper, which remembers
  the error; a C caller would not notice.  `OkMeansDone` and `ProcessedIsWritten` leave calls with such an error out.
* An empty source counts as processed as soon as the archive is finished, also when it could not be opened and tar left it
  out; `-sdel` then deletes a file that is in no archive (Update.cpp:937).  It loses a name and its
  attributes, no data; `DataSurvives` leaves empty sources out for that reason.
* Update2 ignores the result of `WriteToStream` (ZipUpdate.cpp:1451).  `ResultIsRight`, which is proved, shows that this is harmless as long as the stream
  below remembers its error, as CCacheOutStream does; its mutant, a stream that does not, gives an archive with missing data and S_OK.
* The update of an existing compressed tarball takes the first element of a list of input
  streams that the handler has not filled (TarUpdate.cpp:193 and 255).  That is undefined
  behaviour as soon as it is reached, so there is no protocol to model.
* The zstd handler gives its tar to the compressor through a stream that cannot go back.  A file whose size
  differs from the one scanned ends the update with E_FAIL; in Update that is `PackFails`.
* For LZMA2 at most one thread is filled when the ring hands over (second part of
  `NothingLost`), so the loop of `MtDec_Read` over threads is there for xz only.

## Limits

* `MTCODER_USE_WRITE_THREAD` (a separate writer thread) is defined by no build of this
  repository and is not modelled.
* Calls on valid synchronization objects do not fail.  Creating a thread
  may fail, also when that is due to its events.
* In MtDec the size of the output is not known (`outDataSize` is NULL), and a chunk of the
  single-thread decoder is written as soon as it is decoded.  `coder`, and buffers
  that no longer count, are normalised when a thread takes its next block, because the
  next block overwrites them.
* `Lzma2DecMt_Init` and `Lzma2DecMt_Read`, the pull interface, are not modelled.
* Mixer leaves out CMixerST, which has no threads, and the check of data behind the end of a
  packed stream.
* BZip2Enc leaves out a change of `SetNumberOfThreads` between two calls.  No caller does it; `Free` would
  use the new number for the old array.
* ZipUpdate leaves out Update2St, the choice of the number of threads, the lock of the progress mixer, `SetRestriction`, which only
  delays the cache's writes, and what a header contains but the packed size, with the exceptions
  of `WriteLocalHeader` for sizes that do not fit.  The E_FAIL for a changed descriptor mode (ZipUpdate.cpp:1540) is left out because
  the mode depends on the output stream only and cannot change (ZipAddCommon.cpp:228).
* Update: deleting one's own file does not fail, what was written is on the disk (the program never calls
  `fsync`, so a loss of power is a different matter), and volumes, output to stdout, e-mail and directories are left out.
* The contents of blocks, the codecs and all formats are outside.
* Memory is sequentially consistent.  The fields in question are accessed with
  interlocked operations, under a critical section, or by the holder of an event.  The exception is
  `numStartedThreads` in the first finding.

## Not modelled

Other formats, codecs, encryption and the user interface are the bulk of the repository: long
sequential parsers, writers and arithmetic, or code bound to Windows messages, whose correctness is
a matter of data and not of control.  That is why the map names a small share of all lines.  The
reason for each part is in `PROJECT.json`.

## Plan

What is left, in order of importance; each item is a module, its abstract specification where one is
worth stating, instances and mutants.

1. **xz as a client of MtDec**: its Parse and its answers in PreCode; several filled
   threads, `afterEndData`, a stream behind the stream.  The callbacks become operators
   that two modules instantiate.
2. **BZip2 decoder**: the scout thread that parses the next block.
3. **LZMA2 and xz encoders** as clients of MtCoder.
4. **Pairing** of disk and archive items, a pure algorithm against a reference definition.
5. **Threads.c**: events and semaphores on mutex and condition variable implement the ones
   the models use.
