------------------------- MODULE SequentialDecoder -------------------------
(***************************************************************************)
(* What a decoder with one thread and enough memory does (Decode_ST of     *)
(* C/Lzma2DecMt.c): it emits the stream unit by unit, in order, and        *)
(* answers "OK" exactly when it has emitted all of it.                     *)
(***************************************************************************)
EXTENDS Naturals, Sequences

CONSTANTS Sizes, NumCalls   \* Sizes: how long the streams are

VARIABLES calls, size, out, busy, ok

vars == <<calls, size, out, busy, ok>>

Init ==
  /\ calls = 0 /\ size = 0 /\ out = <<>>
  /\ busy = FALSE /\ ok = FALSE

Begin ==
  /\ ~busy /\ calls < NumCalls
  /\ calls' = calls + 1
  /\ size' \in Sizes
  /\ out' = <<>> /\ busy' = TRUE /\ ok' = FALSE

\* Several units may be emitted at once.
Emit ==
  /\ busy
  /\ \E k \in 1 .. size :
        /\ Len(out) + k <= size
        /\ out' = out \o [i \in 1 .. k |-> Len(out) + i]
  /\ UNCHANGED <<calls, size, busy, ok>>

Return ==
  /\ busy
  /\ Len(out) = size
  /\ busy' = FALSE /\ ok' = TRUE
  /\ UNCHANGED <<calls, size, out>>

Next == Begin \/ Emit \/ Return

Spec == Init /\ [][Next]_vars
=============================================================================
