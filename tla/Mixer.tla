------------------------------- MODULE Mixer -------------------------------
(***************************************************************************)
(* The graph of coders of CMixerMT (CoderMixer2.cpp): every coder but the  *)
(* main one has a thread of its own (CVirtThread), the main coder runs in  *)
(* the thread that called Code, and a coder's output is another coder's    *)
(* input through a CStreamBinder.  A coder that ends, well or badly, lets  *)
(* its streams go, which ends or cuts the streams of its neighbours, and   *)
(* Code chooses one result among those of all coders.                      *)
(*                                                                         *)
(* The binders are used through what module Pipe promises of them: a write *)
(* returns when the data was read or when the reader has closed, a read    *)
(* brings data or, when the writer has closed, the end.  What a codec does *)
(* between its calls of the streams is external; a stream is a few units.  *)
(* Calls on valid synchronization objects do not fail.                     *)
(***************************************************************************)
EXTENDS Naturals, FiniteSets

CONSTANTS
  NumCoders,
  Graphs,    \* [bonds : sets of <<writer, reader>>, mains : the coders that
             \* SelectMainCoder may choose, encode, size : the units of a whole stream]
  NumCalls,  \* how often Code is called
  Unset,     \* what Result may hold before the first call: nobody initializes it
  Faults     \* which of these may go wrong, see FaultKinds

OwnErrors  == {"ABORT", "MEM", "WRITE", "FALSE", "FAIL"}
FaultKinds == OwnErrors \cup {"thread", "throw"}
Results    == OwnErrors \cup {"OK", "CUT"}
Coders     == 1 .. NumCoders

ASSUME ConstantsAssumption ==
  /\ NumCoders \in Nat \ {0} /\ NumCalls \in Nat
  /\ \A g \in Graphs : /\ g.bonds \subseteq Coders \X Coders
                       /\ g.mains \subseteq Coders /\ g.mains # {} /\ g.encode \in BOOLEAN
                       /\ g.size \in Nat \ {0}
                       /\ \A b, d \in g.bonds :    \* a coder has one unpacked stream
                            b # d => IF g.encode THEN b[2] # d[2] ELSE b[1] # d[1]
  /\ Unset \subseteq Results
  /\ Faults \subseteq FaultKinds

VARIABLES
  graph,            \* the graph that SetBindInfo has been given
  main,             \* MainCoderIndex
  mpc, idx, calls, ret,       \* the calling thread, in Code and in the destructor
  created,          \* the coders whose Thread.IsCreated
  pc, at,           \* each coder's place, and the bond it reads or writes
  result,           \* CCoderMT::Result
  startEvent, finishedEvent, exit,
  offered,          \* the writer of the bond is inside Write and was not read yet
  received,              \* the units the reader of the bond has got
  want,             \* the units it needs
  ended,            \* it has seen the end of the data
  readOpen, writeOpen, \* the two streams of a bond are not released
  own               \* history: the coders that failed, and not by a neighbour's end

mainVars   == <<graph, main, mpc, idx, calls, ret, created>>
threadVars == <<startEvent, finishedEvent, exit>>
pipeVars   == <<offered, received, want, ended, readOpen, writeOpen>>
vars == <<mainVars, pc, at, result, threadVars, pipeVars, own>>

Bonds      == graph.bonds
Size       == graph.size
InBonds(c)  == {b \in Bonds : b[2] = c}
OutBonds(c) == {b \in Bonds : b[1] = c}
Helpers     == Coders \ {main}
May(f)      == f \in Faults

Init ==
  /\ graph \in Graphs /\ main \in graph.mains /\ created = {}
  /\ mpc = "idle" /\ idx = 0 /\ calls = 0 /\ ret = "OK"
  /\ pc = [c \in Coders |-> "none"] /\ at = [c \in Coders |-> <<>>]
  /\ \E r \in Unset : result = [c \in Coders |-> r]
  /\ startEvent = [c \in Coders |-> FALSE] /\ finishedEvent = [c \in Coders |-> FALSE]
  /\ exit = [c \in Coders |-> FALSE]
  /\ offered = [b \in Bonds |-> FALSE] /\ received = [b \in Bonds |-> 0]
  /\ want = [b \in Bonds |-> Size] /\ ended = [b \in Bonds |-> FALSE]
  /\ readOpen = [b \in Bonds |-> FALSE] /\ writeOpen = [b \in Bonds |-> FALSE]
  /\ own = {}

-----------------------------------------------------------------------------
(* CMixerMT::Code, in the calling thread *)

\* ReInit2, SetCoderInfo, SelectMainCoder and Init.  A decoder may need less than its
\* neighbour can give; an encoder reads to the end.  The users of the mixer go on with
\* it after S_FALSE and E_NOTIMPL (one of the errors that "WRITE" stands for) only.
\* The results of the call before are still there.
Begin ==
  /\ mpc = "idle" /\ calls < NumCalls /\ ret \in {"OK", "FALSE", "WRITE"}
  /\ main' \in graph.mains
  /\ mpc' = "create" /\ idx' = 1 /\ calls' = calls + 1
  /\ offered' = [b \in Bonds |-> FALSE] /\ received' = [b \in Bonds |-> 0]
  /\ want' \in [Bonds -> IF graph.encode THEN {Size} ELSE {Size - 1, Size}]
  /\ ended' = [b \in Bonds |-> FALSE]
  /\ readOpen' = [b \in Bonds |-> TRUE] /\ writeOpen' = [b \in Bonds |-> TRUE]
  /\ ret' = "OK" /\ own' = {}
  /\ UNCHANGED <<graph, created, pc, at, result, threadVars>>

\* CVirtThread::Create, for every coder but the main one.
Create ==
  /\ mpc = "create" /\ idx \in Coders
  /\ idx' = idx + 1
  /\ IF idx = main
     THEN UNCHANGED <<created, pc, threadVars>>
     ELSE /\ startEvent' = [startEvent EXCEPT ![idx] = FALSE]
          /\ finishedEvent' = [finishedEvent EXCEPT ![idx] = FALSE]
          /\ exit' = [exit EXCEPT ![idx] = FALSE]
          /\ pc' = [pc EXCEPT ![idx] = "wait"]
          /\ created' = created \cup {idx}
  /\ UNCHANGED <<graph, main, mpc, calls, ret, at, result, pipeVars, own>>

\* The thread cannot be created: Code returns, and all streams stay with the coders.
CreateFails ==
  /\ mpc = "create" /\ idx \in Helpers
  /\ May("thread") /\ idx \notin created
  /\ mpc' = "failed"
  /\ UNCHANGED <<graph, main, created, idx, calls, ret, pc, at, result, threadVars,
                 pipeVars, own>>

Created ==
  /\ mpc = "create" /\ idx \notin Coders
  /\ mpc' = "start" /\ idx' = 1
  /\ UNCHANGED <<graph, main, created, calls, ret, pc, at, result, threadVars,
                 pipeVars, own>>

\* CVirtThread::Start.
Start ==
  /\ mpc = "start" /\ idx \in Coders
  /\ idx' = idx + 1
  /\ IF idx = main
     THEN UNCHANGED <<startEvent, exit>>
     ELSE /\ startEvent' = [startEvent EXCEPT ![idx] = TRUE]
          /\ exit' = [exit EXCEPT ![idx] = FALSE]
  /\ UNCHANGED <<graph, main, created, mpc, calls, ret, pc, at, result, finishedEvent,
                 pipeVars, own>>

MainCode ==
  /\ mpc = "start" /\ idx \notin Coders
  /\ mpc' = "code"
  /\ pc' = [pc EXCEPT ![main] = "run"]
  /\ UNCHANGED <<graph, main, created, idx, calls, ret, at, result, threadVars,
                 pipeVars, own>>

\* An exception of the main coder leaves Code without waiting for the others.
MainReturns ==
  /\ mpc = "code" /\ pc[main] \in {"done", "thrown"}
  /\ mpc' = IF pc[main] = "done" THEN "wait" ELSE "failed"
  /\ idx' = 1
  /\ pc' = [pc EXCEPT ![main] = IF main \in created THEN "wait" ELSE "none"]
  /\ UNCHANGED <<graph, main, created, calls, ret, at, result, threadVars, pipeVars, own>>

\* Which coders Code waits for.  Mutant: not for those behind one that has failed.
WaitedUntilError == {c \in Helpers : \A d \in Helpers : d < c => result[d] \in {"OK", "CUT"}}
Waited           == Helpers

WaitExecuteFinish ==
  /\ mpc = "wait" /\ idx \in Coders
  /\ idx' = idx + 1
  /\ IF idx \in Waited
     THEN /\ finishedEvent[idx]
          /\ finishedEvent' = [finishedEvent EXCEPT ![idx] = FALSE]
     ELSE UNCHANGED finishedEvent
  /\ UNCHANGED <<graph, main, created, mpc, calls, ret, pc, at, result, startEvent,
                 exit, pipeVars, own>>

\* The errors in the order in which Code looks for them; "WRITE" is any that it does not
\* name.  Mutant: S_FALSE is looked for first.
ClassesFalse == <<"FALSE", "ABORT", "MEM", "WRITE", "FAIL">>
Classes      == <<"ABORT", "MEM", "WRITE", "FALSE", "FAIL">>

\* Whose results count.  Mutant: only that of the main coder.
OnlyMain == {main}
Judged   == Coders

Chosen ==
  LET found == {k \in DOMAIN Classes : \E c \in Judged : result[c] = Classes[k]}
  IN  IF found = {} THEN "OK" ELSE Classes[CHOOSE k \in found : \A j \in found : k <= j]

Return ==
  /\ mpc = "wait" /\ idx \notin Coders
  /\ mpc' = "idle" /\ idx' = 0
  /\ ret' = Chosen
  /\ UNCHANGED <<graph, main, created, calls, pc, at, result, threadVars, pipeVars, own>>

-----------------------------------------------------------------------------
(* The destructor of the mixer: its coders from the last to the first *)

Destroy ==
  /\ mpc \in {"idle", "failed"}
  /\ mpc' = "destroy" /\ idx' = NumCoders
  /\ UNCHANGED <<graph, main, created, calls, ret, pc, at, result, threadVars,
                 pipeVars, own>>

\* WaitThreadFinish before it waits.
StopThread ==
  /\ mpc = "destroy" /\ idx \in Coders
  /\ mpc' = "join"
  /\ exit' = [exit EXCEPT ![idx] = TRUE]
  /\ startEvent' = [startEvent EXCEPT ![idx] = TRUE]
  /\ UNCHANGED <<graph, main, created, idx, calls, ret, pc, at, result, finishedEvent,
                 pipeVars, own>>

\* The thread has ended; the coder's streams that are left are released.
JoinThread ==
  /\ mpc = "join" /\ pc[idx] \in {"none", "exited"}
  /\ mpc' = "destroy" /\ idx' = idx - 1
  /\ pc' = [pc EXCEPT ![idx] = "none"] /\ created' = created \ {idx}
  /\ startEvent' = [startEvent EXCEPT ![idx] = FALSE]
  /\ readOpen' = [b \in Bonds |-> readOpen[b] /\ b[2] # idx]
  /\ writeOpen' = [b \in Bonds |-> writeOpen[b] /\ b[1] # idx]
  /\ UNCHANGED <<graph, main, calls, ret, at, result, finishedEvent, exit, offered,
                 received, want,
                 ended, own>>

Destroyed ==
  /\ mpc = "destroy" /\ idx = 0
  /\ mpc' = "end"
  /\ UNCHANGED <<graph, main, created, idx, calls, ret, pc, at, result, threadVars,
                 pipeVars, own>>

-----------------------------------------------------------------------------
(* A coder: CoderThread, CCoderMT::Execute and CCoderMT::Code *)

WaitStart(c) ==
  /\ pc[c] = "wait"
  /\ startEvent[c]
  /\ startEvent' = [startEvent EXCEPT ![c] = FALSE]
  /\ pc' = [pc EXCEPT ![c] = IF exit[c] THEN "exited" ELSE "run"]
  /\ UNCHANGED <<mainVars, at, result, finishedEvent, exit, pipeVars, own>>

Satisfied(b) == received[b] = want[b]

CoderReads(c) ==
  /\ pc[c] = "run"
  /\ \E b \in InBonds(c) :
       /\ ~Satisfied(b) /\ ~ended[b]
       /\ at' = [at EXCEPT ![c] = b]
  /\ pc' = [pc EXCEPT ![c] = "read"]
  /\ UNCHANGED <<mainVars, result, threadVars, pipeVars, own>>

ReadData(c) ==
  LET b == at[c] IN
  /\ pc[c] = "read"
  /\ offered[b]
  /\ offered' = [offered EXCEPT ![b] = FALSE]
  /\ received' = [received EXCEPT ![b] = @ + 1]
  /\ pc' = [pc EXCEPT ![c] = "run"]
  /\ UNCHANGED <<mainVars, at, result, threadVars, want, ended, readOpen, writeOpen, own>>

ReadEnd(c) ==
  LET b == at[c] IN
  /\ pc[c] = "read"
  /\ ~offered[b] /\ ~writeOpen[b]
  /\ ended' = [ended EXCEPT ![b] = TRUE]
  /\ pc' = [pc EXCEPT ![c] = "run"]
  /\ UNCHANGED <<mainVars, at, result, threadVars, offered, received, want, readOpen,
                 writeOpen, own>>

\* A coder makes no more output than its inputs allow.
CoderWrites(c) ==
  /\ pc[c] = "run"
  /\ \E b \in OutBonds(c) :
       /\ received[b] < Size
       /\ \A i \in InBonds(c) : received[i] > received[b] \/ Satisfied(i)
       /\ at' = [at EXCEPT ![c] = b]
       /\ offered' = [offered EXCEPT ![b] = TRUE]
  /\ pc' = [pc EXCEPT ![c] = "write"]
  /\ UNCHANGED <<mainVars, result, threadVars, received, want, ended, readOpen,
                 writeOpen, own>>

WriteReturns(c) ==
  /\ pc[c] = "write"
  /\ ~offered[at[c]]
  /\ pc' = [pc EXCEPT ![c] = "run"]
  /\ UNCHANGED <<mainVars, at, result, threadVars, pipeVars, own>>

\* The coder's own Code returns r.
Returns(c, r) ==
  /\ result' = [result EXCEPT ![c] = r]
  /\ pc' = [pc EXCEPT ![c] = "close"]
  /\ at' = [at EXCEPT ![c] = <<>>]
  /\ UNCHANGED <<mainVars, threadVars, received, want, ended, readOpen, writeOpen>>

\* k_My_HRESULT_WritingWasCut: the reader has closed without reading the data.
CoderIsCut(c) ==
  LET b == at[c] IN
  /\ pc[c] = "write"
  /\ offered[b] /\ ~readOpen[b]
  /\ offered' = [offered EXCEPT ![b] = FALSE]
  /\ Returns(c, "CUT")
  /\ UNCHANGED own

\* The whole work is done; the last decoder may be told by the archive's own
\* output stream that no more is needed.
Succeeds(c) ==
  /\ pc[c] = "run"
  /\ \A b \in InBonds(c) : Satisfied(b)
  /\ \A b \in OutBonds(c) : received[b] = Size
  /\ \/ Returns(c, "OK")
     \/ ~graph.encode /\ OutBonds(c) = {} /\ Returns(c, "CUT")
  /\ UNCHANGED <<offered, own>>

\* The input ended too early: an error of the data, which some coders do not see.
EndsEarly(c) ==
  /\ pc[c] = "run"
  /\ \E b \in InBonds(c) : ended[b]
  /\ \/ Returns(c, "OK") \/ Returns(c, "FALSE")
  /\ UNCHANGED <<offered, own>>

\* The coder fails by itself, or its stream outside the graph does.  An exception
\* is E_FAIL in a coder's own thread.
Fails(c) ==
  /\ pc[c] = "run"
  /\ \E r \in OwnErrors \cap Faults : Returns(c, r)
  /\ own' = own \cup {c}
  /\ UNCHANGED offered

Throws ==
  /\ pc[main] = "run"
  /\ May("throw")
  /\ pc' = [pc EXCEPT ![main] = "unwind"]
  /\ own' = own \cup {main}
  /\ UNCHANGED <<mainVars, at, result, threadVars, pipeVars>>

Closing(c) == pc[c] \in {"close", "unwind"}

\* CReleaser: the input streams, then the output streams.  Mutant: only the latter.
HeldOut(c) == {}
Held(c)    == {b \in InBonds(c) : readOpen[b]}

CloseRead(c) ==
  /\ Closing(c)
  /\ \E b \in Held(c) : readOpen' = [readOpen EXCEPT ![b] = FALSE]
  /\ UNCHANGED <<mainVars, pc, at, result, threadVars, offered, received, want, ended,
                 writeOpen, own>>

CoderClosesWrite(c) ==
  /\ Closing(c) /\ Held(c) = {}
  /\ \E b \in OutBonds(c) : /\ writeOpen[b]
                            /\ writeOpen' = [writeOpen EXCEPT ![b] = FALSE]
  /\ UNCHANGED <<mainVars, pc, at, result, threadVars, offered, received, want, ended,
                 readOpen, own>>

\* Code has returned in the caller's thread, or the thread sets FinishedEvent.
Finish(c) ==
  /\ Closing(c)
  /\ Held(c) = {} /\ \A b \in OutBonds(c) : ~writeOpen[b]
  /\ IF c = main
     THEN /\ pc' = [pc EXCEPT ![c] = IF pc[c] = "unwind" THEN "thrown" ELSE "done"]
          /\ UNCHANGED finishedEvent
     ELSE /\ pc' = [pc EXCEPT ![c] = "wait"]
          /\ finishedEvent' = [finishedEvent EXCEPT ![c] = TRUE]
  /\ UNCHANGED <<mainVars, at, result, startEvent, exit, pipeVars, own>>

-----------------------------------------------------------------------------

Coder(c) ==
  \/ WaitStart(c)
  \/ CoderReads(c) \/ ReadData(c) \/ ReadEnd(c)
  \/ CoderWrites(c) \/ WriteReturns(c) \/ CoderIsCut(c)
  \/ Succeeds(c) \/ EndsEarly(c) \/ Fails(c) \/ (c = main /\ Throws)
  \/ CloseRead(c) \/ CoderClosesWrite(c) \/ Finish(c)

Caller ==
  \/ Begin \/ Create \/ CreateFails \/ Created \/ Start \/ MainCode \/ MainReturns
  \/ WaitExecuteFinish \/ Return
  \/ Destroy \/ StopThread \/ JoinThread \/ Destroyed

Finished == mpc = "end" /\ UNCHANGED vars

Next == Caller \/ (\E c \in Coders : Coder(c)) \/ Finished

\* Every thread that can run does; whether Code is called again is up to the user.
Spec ==
  /\ Init /\ [][Next]_vars
  /\ WF_vars(Caller /\ mpc # "idle")
  /\ \A c \in Coders : WF_vars(Coder(c))

-----------------------------------------------------------------------------
(* Properties *)

CallerTypes ==
  /\ graph \in Graphs /\ main \in graph.mains /\ created \subseteq Coders
  /\ idx \in 0 .. NumCoders + 1 /\ calls \in 0 .. NumCalls
  /\ mpc \in {"idle", "create", "start", "code", "wait", "failed", "destroy", "join", "end"}
  /\ ret \in Results \ {"CUT"}
CoderTypes ==
  /\ pc \in [Coders -> {"none", "wait", "run", "read", "write", "close", "unwind",
                        "done", "thrown", "exited"}]
  /\ at \in [Coders -> Bonds \cup {<<>>}]
  /\ result \in [Coders -> Results] /\ own \subseteq Coders
EventTypes ==
  /\ startEvent \in [Coders -> BOOLEAN] /\ finishedEvent \in [Coders -> BOOLEAN]
  /\ exit \in [Coders -> BOOLEAN]
PipeTypes ==
  /\ offered \in [Bonds -> BOOLEAN] /\ ended \in [Bonds -> BOOLEAN]
  /\ readOpen \in [Bonds -> BOOLEAN] /\ writeOpen \in [Bonds -> BOOLEAN]
  /\ received \in [Bonds -> 0 .. Size] /\ want \in [Bonds -> 0 .. Size]

\* Type correctness of the whole state.
TypeOK == CallerTypes /\ CoderTypes /\ EventTypes /\ PipeTypes

(* The types; and when Code has returned, no coder still runs on data of its  *)
(* neighbours, all streams are released and no event is left for the next     *)
(* call to take.                                                              *)
Consistent ==
  /\ TypeOK
  /\ mpc = "idle" =>
       \A c \in Coders :
         /\ pc[c] \in {"none", "wait"} /\ ~startEvent[c] /\ ~finishedEvent[c]
         /\ \A b \in InBonds(c) : ~readOpen[b] /\ ~offered[b]
         /\ \A b \in OutBonds(c) : ~writeOpen[b]

(* Code returns S_OK exactly when no coder failed by itself, and then every   *)
(* coder has got all the data it needed: that writing was cut is no error,    *)
(* and an input that ended early, because its writer failed, is not taken for *)
(* the whole even when the reader saw nothing wrong.                          *)
OkMeansWhole ==
  mpc = "idle" /\ calls > 0 =>
    /\ ret = "OK" <=> own = {}
    /\ ret = "OK" => \A b \in Bonds : Satisfied(b)

(* A failure is reported with its cause and not with what it caused in other  *)
(* coders, for every cause but E_FAIL, which a data error downstream hides.   *)
CauseNamed ==
  LET causes == {result[c] : c \in own} IN
  mpc = "idle" /\ calls > 0 /\ causes \ {"FAIL"} # {} => ret \in causes

(* Whatever coders fail, in whatever order they are started, Code returns and *)
(* the destructor joins every thread.                                         *)
EveryCodeReturns == []<>(mpc \in {"idle", "end"})
=============================================================================
