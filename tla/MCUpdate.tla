------------------------------ MODULE MCUpdate ------------------------------
(* Every kind of run of Update, with two sources of which one is empty.     *)
EXTENDS Update

CONSTANTS s1, s2

AllSources == {s1, s2}
OneEmpty   == {s2}
AllRuns ==
  {r \in [targets : {<<"arc">>, <<"arc", "more">>, <<"more">>},
          inArc : BOOLEAN, workDir : BOOLEAN, otherVolume : BOOLEAN, sdel : BOOLEAN,
          opensEmpty : BOOLEAN, tarball : BOOLEAN] :
     (r.targets = <<"more">> => r.inArc) /\ (r.otherVolume => r.workDir)
     /\ (r.tarball => r.opensEmpty /\ ~r.inArc)}
=============================================================================
