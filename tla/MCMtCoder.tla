----------------------------- MODULE MCMtCoder -----------------------------
(* Small instances of MtCoder for TLC.                                     *)
EXTENDS MtCoder

SmallThenLarge == <<0, 3>>    \* a call that needs one thread, then one of four blocks
LargeThenLarge == <<1, 2>>
Unknown        == -1
=============================================================================
