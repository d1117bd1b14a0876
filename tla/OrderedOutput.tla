--------------------------- MODULE OrderedOutput ---------------------------
(***************************************************************************)
(* What a caller of MtCoder_Code (C/MtCoder.c) is promised, with no        *)
(* threads, slots or buffers in sight: each call takes an input of         *)
(* consecutive blocks, emits the compressed blocks in input order, and     *)
(* answers "ok" only when every block has been emitted.  A failure is      *)
(* recorded before anything is skipped, and a call that failed never       *)
(* answers "ok".                                                           *)
(***************************************************************************)
EXTENDS Naturals, Sequences

CONSTANT Inputs      \* Inputs[c] is the number of the last block of call c

VARIABLES
  call,     \* how many calls have begun
  out,      \* the blocks emitted by the current call
  failed,   \* whether the current call has recorded an error
  status    \* "new", "busy", "ok" or "failed"

vars == <<call, out, failed, status>>

Init ==
  /\ call = 0
  /\ out = <<>>
  /\ failed = FALSE
  /\ status = "new"

Begin ==
  /\ status # "busy"
  /\ call < Len(Inputs)
  /\ call' = call + 1
  /\ out' = <<>>
  /\ failed' = FALSE
  /\ status' = "busy"

Fail ==
  /\ status = "busy"
  /\ failed' = TRUE
  /\ UNCHANGED <<call, out, status>>

\* Once an error is recorded, blocks already in flight may still be emitted:
\* in order, but no longer without gaps.
Emit(b) ==
  /\ \A i \in 1 .. Len(out) : out[i] < b
  /\ ~failed => b = Len(out)
  /\ out' = Append(out, b)
  /\ UNCHANGED <<call, failed, status>>

EmitAny == status = "busy" /\ \E b \in 0 .. Inputs[call] : Emit(b)

Succeed ==
  /\ status = "busy"
  /\ ~failed
  /\ Len(out) = Inputs[call] + 1
  /\ status' = "ok"
  /\ UNCHANGED <<call, out, failed>>

\* A call may also be refused before its first block.
GiveUp ==
  /\ status = "busy"
  /\ failed \/ out = <<>>
  /\ status' = "failed"
  /\ UNCHANGED <<call, out, failed>>

Next == Begin \/ Fail \/ EmitAny \/ Succeed \/ GiveUp

Spec == Init /\ [][Next]_vars
=============================================================================
