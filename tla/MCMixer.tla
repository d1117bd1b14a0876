------------------------------ MODULE MCMixer ------------------------------
(* Small graphs for Mixer: a chain of decoders, two decoders that feed one  *)
(* (as BCJ2 does), and one encoder that feeds two.                          *)
EXTENDS Mixer

Decoders(bonds, mains, size) ==
  [bonds |-> bonds, mains |-> mains, encode |-> FALSE, size |-> size]
Encoders(bonds, mains, size) ==
  [bonds |-> bonds, mains |-> mains, encode |-> TRUE, size |-> size]

\* SelectMainCoder passes filters of one stream only, and only when all is unpacked.
Chain  == {Decoders({<<3, 2>>, <<2, 1>>}, {1, 2}, 1)}
Long   == {Decoders({<<3, 2>>, <<2, 1>>}, {2}, 2)}
FanIn  == {Decoders({<<2, 1>>, <<3, 1>>}, {1}, 1)}
FanOut == {Encoders({<<1, 2>>, <<1, 3>>}, {1}, 1)}
Mixed  == Chain \cup Long \cup FanIn \cup FanOut
=============================================================================
