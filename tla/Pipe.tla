-------------------------------- MODULE Pipe --------------------------------
(***************************************************************************)
(* What the two users of a CStreamBinder may rely on: the reader gets the  *)
(* writer's bytes in order, the writer is told of exactly the bytes that   *)
(* were read, the end of the data is reported only after the writer has    *)
(* closed, and a Write is refused only after the reader has closed.        *)
(***************************************************************************)
EXTENDS Naturals, Sequences

CONSTANTS Total, MaxRead, NumRuns

VARIABLES got, accepted, readerOpen, writerOpen, eof, cut, runs

vars == <<got, accepted, readerOpen, writerOpen, eof, cut, runs>>

Init ==
  /\ got = <<>> /\ accepted = 0
  /\ readerOpen = FALSE /\ writerOpen = FALSE
  /\ eof = FALSE /\ cut = FALSE
  /\ runs = 0

Start ==
  /\ ~readerOpen /\ ~writerOpen /\ runs < NumRuns
  /\ got' = <<>> /\ accepted' = 0
  /\ readerOpen' = TRUE /\ writerOpen' = TRUE
  /\ eof' = FALSE /\ cut' = FALSE
  /\ runs' = runs + 1

Deliver ==
  /\ readerOpen /\ writerOpen
  /\ \E k \in 1 .. MaxRead :
        /\ Len(got) + k <= Total
        /\ got' = got \o [i \in 1 .. k |-> Len(got) + i - 1]
  /\ UNCHANGED <<accepted, readerOpen, writerOpen, eof, cut, runs>>

Accept ==
  /\ writerOpen
  /\ accepted' = Len(got)
  /\ UNCHANGED <<got, readerOpen, writerOpen, eof, cut, runs>>

End ==
  /\ readerOpen /\ ~writerOpen
  /\ eof' = TRUE
  /\ UNCHANGED <<got, accepted, readerOpen, writerOpen, cut, runs>>

Refuse ==
  /\ writerOpen /\ ~readerOpen
  /\ accepted = Len(got)
  /\ cut' = TRUE
  /\ UNCHANGED <<got, accepted, readerOpen, writerOpen, eof, runs>>

CloseReader ==
  /\ readerOpen
  /\ readerOpen' = FALSE
  /\ UNCHANGED <<got, accepted, writerOpen, eof, cut, runs>>

CloseWriter ==
  /\ writerOpen
  /\ accepted = Len(got)
  /\ writerOpen' = FALSE
  /\ UNCHANGED <<got, accepted, readerOpen, eof, cut, runs>>

Next == \/ Start \/ Deliver \/ Accept \/ End \/ Refuse \/ CloseReader \/ CloseWriter

Spec == Init /\ [][Next]_vars
=============================================================================
