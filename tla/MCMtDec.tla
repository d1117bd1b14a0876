------------------------------ MODULE MCMtDec ------------------------------
(* Small instances of MtDec for TLC.  A stream of blocks ends with its mark.  *)
EXTENDS MtDec

Plain(ends, size) == [ends |-> ends, size |-> size, big |-> {}, bad |-> 0]

\* Small blocks make the ring wrap around.
FiveBlocks == {Plain(<<1, 2, 4, 5, 8>>, 8)}
TwoBlocks  == {Plain(<<2, 3>>, 3)}

\* A block inside a cross block, input behind the end, and one block that is too
\* large, in the middle and at the end.
Mixed      == {Plain(<<2, 3, 6>>, 7), Plain(<<1, 4, 5>>, 6),
               [ends |-> <<1, 4, 6>>, size |-> 6, big |-> {2}, bad |-> 0],
               [ends |-> <<2, 5>>, size |-> 5, big |-> {2}, bad |-> 0]}
Valid      == Mixed \cup FiveBlocks

\* Streams that were cut off, and one with a corrupt unit.
CutOff     == {Plain(<<2, 4>>, 3)}
Broken     == {Plain(<<1, 4, 6>>, 5), Plain(<<1, 4, 6>>, 1),
               [ends |-> <<1, 4, 6>>, size |-> 6, big |-> {}, bad |-> 3]}
Everything == Mixed \cup Broken
=============================================================================
