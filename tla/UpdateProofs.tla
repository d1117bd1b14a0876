---------------------------- MODULE UpdateProofs ----------------------------
(* Proof that an update loses nothing (Update), whatever the sources are,   *)
(* whatever fails and wherever it stops, and what it leaves behind when it  *)
(* has ended.                                                               *)
EXTENDS Update, TLAPS

\* The original is untouched, or the new archive is complete and is not deleted any more.
ArcKept ==
  run.inArc => \/ file["arc"] = "old" /\ "arc" \notin tempPaths
               \/ ~needDelete /\ (Complete("arc") \/ Complete("tmp"))

\* Where the original still stands, and where the new archive is at each step of the move.
ArcPlace ==
  /\ pc \in {"check", "create", "tar", "pack", "compress", "close", "finish", "keep",
             "delete"} =>
       (run.inArc => file["arc"] = "old" /\ "arc" \notin tempPaths)
  /\ pc \in {"delete", "move", "rename", "copy", "copying", "unlink", "failed"} =>
       CreateTemp /\ Complete("tmp") /\ ~needDelete
  /\ pc \in {"unlink", "moved"} => CreateTemp /\ Complete("arc") /\ ~needDelete

\* The outputs of the commands that are done are complete.
OutputOf(i) == IF CreateTemp /\ i = 1 THEN "tmp" ELSE run.targets[i]
Making == {"create", "tar", "pack", "compress", "close", "finish"}
OutputsMade ==
  /\ pc = "check" => ci = 1
  /\ pc \in Making => \A i \in 1 .. (ci - 1) : Complete(OutputOf(i))
  /\ pc = "finish" => Complete(OutputOf(ci))
  /\ pc \in Making => \A i \in 1 .. (ci - 1) : OutputOf(i) # OutputOf(ci)
  /\ pc = "keep" => \A i \in DOMAIN run.targets : Complete(OutputOf(i))
  /\ pc \in {"delete", "move", "rename", "copy", "copying", "unlink", "failed", "moved"} =>
       \A i \in DOMAIN run.targets : run.targets[i] = "more" => Complete("more")
  /\ pc = "sources" \/ gone # {} =>
       ~needDelete /\ \A i \in DOMAIN run.targets : Complete(run.targets[i])

\* What is known of the version of a source that was read.
Reading == {"check", "create", "tar", "pack", "compress", "close", "finish", "keep",
            "delete", "move", "rename", "copy", "copying", "unlink", "failed", "moved",
            "sources"}
HoldsScanned(s) == \E i \in DOMAIN run.targets : packed[run.targets[i]][s] = 0
SourcesPacked ==
  /\ \A t \in Targets, s \in Sources : packed[t][s] = 1 => version[s] = 1
  /\ pc \in Reading => \A s \in processed \ Empty : version[s] = 0 => HoldsScanned(s)
  /\ \A s \in (match \cup gone) \ Empty : HoldsScanned(s)
  /\ match # {} \/ gone # {} => pc \in {"sources", "return", "end"}

IInv == TypeOK /\ ArcKept /\ ArcPlace /\ OutputsMade /\ SourcesPacked


\* What a run's commands are: one archive or two, the second one additional.
LEMMA Commands ==
  ASSUME TypeOK
  PROVE  /\ Len(run.targets) \in {1, 2} /\ DOMAIN run.targets = 1 .. Len(run.targets)
         /\ run.targets[1] \in Targets
         /\ Len(run.targets) = 2 => run.targets[1] = "arc" /\ run.targets[2] = "more"
         /\ run.targets[1] = "more" => run.inArc
         /\ run.inArc \in BOOLEAN
<1>1. run \in Runs
  BY DEF TypeOK
<1>2. /\ run.targets \in {<<"arc">>, <<"arc", "more">>, <<"more">>}
      /\ run.targets = <<"more">> => run.inArc
      /\ run.inArc \in BOOLEAN
  BY <1>1, RunsAssumption
<1>3. CASE run.targets = <<"arc">>
  BY <1>2, <1>3 DEF Targets
<1>4. CASE run.targets = <<"arc", "more">>
  BY <1>2, <1>4 DEF Targets
<1>5. CASE run.targets = <<"more">>
  BY <1>2, <1>5 DEF Targets
<1> QED
  BY <1>2, <1>3, <1>4, <1>5

LEMMA OneOfTwo == \A n \in {1, 2}, c \in Nat : c \in 1 .. n /\ c < n => c = 1 /\ n = 2
  OBVIOUS

LEMMA OutputIsPath == ASSUME TypeOK PROVE Final \in Targets /\ Output \in Paths
<1>1. Final \in Targets
  BY Commands DEF Final, TypeOK, Targets
<1> QED
  BY <1>1 DEF Output, Paths

LEMMA InitEstablishes == Init => IInv
<1> SUFFICES ASSUME Init PROVE IInv
  OBVIOUS
<1>1. TypeOK
  <2>1. /\ run \in Runs /\ Len(run.targets) \in {1, 2}
        /\ DOMAIN run.targets = 1 .. Len(run.targets)
    <3>1. run \in Runs
      BY DEF Init
    <3>2. run.targets \in {<<"arc">>, <<"arc", "more">>, <<"more">>}
      BY <3>1, RunsAssumption
    <3> QED
      BY <3>1, <3>2
  <2>2. file \in [Paths -> Contents]
    <3>1. PICK m \in {"none", "other"} :
            file = [arc |-> IF run.inArc THEN "old" ELSE "none", more |-> m, tmp |-> "none",
                    tar |-> "none"]
      BY DEF Init
    <3>2. Paths = {"arc", "more", "tmp", "tar"}
      BY DEF Paths, Targets
    <3>3. file["arc"] \in Contents /\ file["more"] \in Contents
      BY <3>1 DEF Contents
    <3>4. file["tmp"] \in Contents /\ file["tar"] \in Contents
      BY <3>1 DEF Contents
    <3>5. DOMAIN file = Paths /\ file = [p \in Paths |-> file[p]]
      BY <3>1, <3>2
    <3>6. \A p \in Paths : file[p] \in Contents
      BY <3>2, <3>3, <3>4
    <3> QED
      BY <3>5, <3>6
  <2>3. /\ version \in [Sources -> {0, 1}]
        /\ packed \in [Targets -> [Sources -> {0, 1, NotPacked}]]
    BY DEF Init
  <2>4. ci \in DOMAIN run.targets
    <3>1. ci = 1
      BY DEF Init
    <3> QED
      BY <2>1, <3>1
  <2>5. /\ tempPaths = {} /\ needDelete = TRUE /\ callbackResult = "OK" /\ result = "none"
        /\ todo = Sources /\ processed = {} /\ match = {} /\ gone = {}
    BY DEF Init
  <2> QED
    BY <2>1, <2>2, <2>3, <2>4, <2>5 DEF TypeOK
<1>2. ArcKept /\ ArcPlace
  <2>1. run.inArc => file["arc"] = "old"
    BY DEF Init
  <2> QED
    BY <2>1 DEF Init, ArcKept, ArcPlace
<1>3. OutputsMade
  BY DEF Init, OutputsMade, Making
<1>4. SourcesPacked
  BY DEF Init, SourcesPacked, NotPacked
<1> QED
  BY <1>1, <1>2, <1>3, <1>4 DEF IInv

\* What Rename does to the files.
LEMMA RenameFiles ==
  ASSUME TypeOK, Rename
  PROVE  /\ \/ file' = [file EXCEPT !["arc"] = "created"]
            \/ file' = [file EXCEPT !["arc"] = file["tmp"], !["tmp"] = "none"]
            \/ file' = file
         /\ file' \in [Paths -> Contents]
         /\ pc = "rename" /\ pc' \in {"copy", "moved", "failed"}
         /\ UNCHANGED <<run, ci, tempPaths, needDelete, callbackResult, sourceVars, version>>
<1>1. \/ file' = [file EXCEPT !["arc"] = "created"]
      \/ file' = [file EXCEPT !["arc"] = file["tmp"], !["tmp"] = "none"]
      \/ file' = file
  BY DEF Rename, Put
<1>2. "tmp" \in Paths /\ "arc" \in Paths
  BY DEF Paths, Targets
<1>3. file' \in [Paths -> Contents]
  <2>1. file \in [Paths -> Contents]
    BY DEF TypeOK
  <2>2. "none" \in Contents /\ "created" \in Contents
    BY DEF Contents
  <2> QED
    BY <1>1, <1>2, <2>1, <2>2
<1>4. /\ pc = "rename" /\ pc' \in {"copy", "moved", "failed"}
      /\ UNCHANGED <<run, ci, tempPaths, needDelete, callbackResult, sourceVars, version>>
  BY DEF Rename, Goto
<1> QED
  BY <1>1, <1>3, <1>4

LEMMA TypeStep == IInv /\ [Next]_vars => TypeOK'
<1> SUFFICES ASSUME IInv, [Next]_vars PROVE TypeOK'
  OBVIOUS
<1> USE Commands DEF IInv, TypeOK, Goto, Return, Put, fileVars, sourceVars
<1>1. CASE Check
  BY <1>1 DEF Check
<1>2. CASE Create
  BY <1>2, OutputIsPath DEF Create, Contents
<1>3. CASE PackFails
  BY <1>3 DEF PackFails, Paths, Contents
<1>4. CASE CloseOutput
  BY <1>4, OutputIsPath, RunsAssumption DEF CloseOutput, Contents
<1>5. CASE Finish
  BY <1>5 DEF Finish
<1>6. CASE Keep
  BY <1>6 DEF Keep
<1>7. CASE DeleteOriginal
  BY <1>7 DEF DeleteOriginal, Contents
<1>8. CASE Rename
  <2>1. file' \in [Paths -> Contents]
    BY <1>8, RenameFiles
  <2> QED
    BY <1>8, <2>1 DEF Rename
<1>9. CASE CopyOpens
  BY <1>9 DEF CopyOpens, Contents
<1>10. CASE CopyBreaks
  BY <1>10 DEF CopyBreaks, Contents
<1>11. CASE CopyEnds
  BY <1>11 DEF CopyEnds, Contents
<1>12. CASE UnlinkTemp
  BY <1>12 DEF UnlinkTemp, Contents
<1>13. CASE MoveFailed
  BY <1>13 DEF MoveFailed
<1>14. CASE Moved
  BY <1>14 DEF Moved
<1>15. CASE DeleteSource
  BY <1>15 DEF DeleteSource
<1>16. CASE Done
  BY <1>16 DEF Done
<1>17. CASE ClearTempFiles
  BY <1>17 DEF ClearTempFiles, Contents
<1>18. ASSUME NEW s \in Sources, PackSource(s) PROVE TypeOK'
  BY <1>18 DEF PackSource
<1>19. ASSUME NEW s \in Sources, CompareSource(s) PROVE TypeOK'
  BY <1>19 DEF CompareSource
<1>20. ASSUME NEW s \in Sources, ChangeSource(s) PROVE TypeOK'
  BY <1>20 DEF ChangeSource
<1>21. CASE MoveStart
  BY <1>21 DEF MoveStart
<1>22. CASE UNCHANGED vars
  BY <1>22 DEF vars
<1>23. CASE CreateTar
  BY <1>23 DEF CreateTar, Paths, Contents
<1>24. CASE CloseTar
  BY <1>24 DEF CloseTar, Paths, Contents
<1>25. CASE CompressTar
  BY <1>25 DEF CompressTar, Paths, Contents
<1> QED
  BY <1>1, <1>2, <1>3, <1>4, <1>5, <1>6, <1>7, <1>8, <1>9, <1>10, <1>11, <1>12, <1>13,
     <1>14, <1>15, <1>16, <1>17, <1>18, <1>19, <1>20, <1>21, <1>22, <1>23, <1>24, <1>25
     DEF Next, Ended

LEMMA ArcStep == IInv /\ [Next]_vars => ArcKept' /\ ArcPlace'
<1> SUFFICES ASSUME IInv, [Next]_vars PROVE ArcKept' /\ ArcPlace'
  OBVIOUS
<1>0. TypeOK'
  BY TypeStep
<1> USE Commands, OutputIsPath DEF IInv, Goto, Return, Put, fileVars, sourceVars, TypeOK,
    CreateTemp, UpdatesArc, ArcKept, ArcPlace, Complete
<1>1. CASE Check
  BY <1>1 DEF Check
<1>2. CASE Create
  BY <1>2 DEF Create, Paths, Targets
<1>3. CASE PackFails
  BY <1>3 DEF PackFails, Paths, Targets
<1>4. CASE CloseOutput
  BY <1>4 DEF CloseOutput, Output, Final, Paths, Targets
<1>5. CASE Finish
  BY <1>5 DEF Finish
<1>6. CASE Keep
  <2>1. Complete(OutputOf(1))
    BY <1>6 DEF Keep, OutputsMade
  <2> QED
    BY <1>6, <2>1 DEF Keep, OutputOf
<1>7. CASE DeleteOriginal
  BY <1>7 DEF DeleteOriginal, Paths
<1>8. CASE Rename
  BY <1>8 DEF Rename, Paths, Targets
<1>9. CASE CopyOpens
  BY <1>9 DEF CopyOpens, Paths
<1>10. CASE CopyBreaks
  BY <1>10 DEF CopyBreaks
<1>11. CASE CopyEnds
  BY <1>11 DEF CopyEnds, Paths
<1>12. CASE UnlinkTemp
  BY <1>12 DEF UnlinkTemp, Paths
<1>13. CASE MoveFailed
  BY <1>13 DEF MoveFailed
<1>14. CASE Moved
  BY <1>14 DEF Moved
<1>15. CASE DeleteSource
  BY <1>15 DEF DeleteSource
<1>16. CASE Done
  BY <1>16 DEF Done
<1>17. CASE ClearTempFiles
  BY <1>17 DEF ClearTempFiles, Paths, Targets
<1>18. ASSUME NEW s \in Sources, PackSource(s) PROVE ArcKept' /\ ArcPlace'
  BY <1>18 DEF PackSource
<1>19. ASSUME NEW s \in Sources, CompareSource(s) PROVE ArcKept' /\ ArcPlace'
  BY <1>19 DEF CompareSource
<1>20. ASSUME NEW s \in Sources, ChangeSource(s) PROVE ArcKept' /\ ArcPlace'
  BY <1>20 DEF ChangeSource
<1>21. CASE MoveStart
  BY <1>21 DEF MoveStart
<1>22. CASE UNCHANGED vars
  BY <1>22 DEF vars
<1>23. CASE CreateTar
  BY <1>23 DEF CreateTar, Paths, Targets
<1>24. CASE CloseTar
  BY <1>24 DEF CloseTar, Paths, Targets
<1>25. CASE CompressTar
  BY <1>25 DEF CompressTar, Paths, Targets
<1> QED
  BY <1>1, <1>2, <1>3, <1>4, <1>5, <1>6, <1>7, <1>8, <1>9, <1>10, <1>11, <1>12, <1>13,
     <1>14, <1>15, <1>16, <1>17, <1>18, <1>19, <1>20, <1>21, <1>22, <1>23, <1>24, <1>25
     DEF Next, Ended

LEMMA OutputsStep == IInv /\ [Next]_vars => OutputsMade'
<1> SUFFICES ASSUME IInv, [Next]_vars PROVE OutputsMade'
  OBVIOUS
<1>0. TypeOK'
  BY TypeStep
<1> USE Commands, OutputIsPath DEF IInv, Goto, Return, Put, fileVars, sourceVars, TypeOK,
    CreateTemp, UpdatesArc, OutputsMade, ArcPlace, Complete,
    OutputOf, Making
<1>1. CASE Check
  BY <1>1 DEF Check
<1>2. CASE Create
  BY <1>2 DEF Create, Paths, Targets
<1>3. CASE PackFails
  BY <1>3 DEF PackFails, Paths, Targets
<1>4. CASE CloseOutput
  BY <1>4 DEF CloseOutput, Output, Final, Paths, Targets
<1>5. CASE Finish
  <2>1. /\ \A i \in 1 .. ci : Complete(OutputOf(i))'
        /\ run' = run /\ file' = file /\ needDelete' = needDelete /\ gone' = gone
    BY <1>5 DEF Finish
  <2>0. gone' = {}
    BY <1>5 DEF Finish, SourcesPacked
  <2>2. CASE pc' = "return"
    BY <2>0, <2>2
  <2>4. CASE ci = Len(run.targets) /\ pc' = "keep"
    BY <2>0, <2>1, <2>4
  <2>3. CASE ci < Len(run.targets) /\ ci' = ci + 1 /\ pc' = "create"
    <3>1. ci = 1 /\ ci' = 2 /\ run.targets[1] = "arc" /\ run.targets[2] = "more"
      <4>1. ci \in Nat /\ ci \in 1 .. Len(run.targets)
        BY Commands DEF TypeOK
      <4>2. Len(run.targets) \in {1, 2}
        BY Commands
      <4>3. ci = 1 /\ Len(run.targets) = 2
        BY <2>3, <4>1, <4>2, OneOfTwo
      <4> QED
        BY <2>3, <4>3
    <3>2. OutputOf(1)' # OutputOf(2)'
      BY <2>1, <3>1
    <3> QED
      BY <1>5, <2>1, <2>3, <3>1, <3>2 DEF Finish
  <2> QED
    BY <1>5, <2>2, <2>3, <2>4 DEF Finish
<1>6. CASE Keep
  BY <1>6 DEF Keep
<1>7. CASE DeleteOriginal
  <2>1. gone' = {}
    BY <1>7 DEF DeleteOriginal, SourcesPacked
  <2> QED
    BY <1>7, <2>1 DEF DeleteOriginal, Paths, Targets
<1>8. CASE Rename
  <2>1. gone' = {}
    BY <1>8 DEF Rename, SourcesPacked
  <2>2. /\ pc' \in {"copy", "moved", "failed"}
        /\ UNCHANGED <<run, ci, version, sourceVars>>
    BY <1>8, RenameFiles
  <2> QED
    BY <1>8, <2>1, <2>2, RenameFiles DEF Paths, Targets
<1>9. CASE CopyOpens
  <2>1. gone' = {}
    BY <1>9 DEF CopyOpens, SourcesPacked
  <2> QED
    BY <1>9, <2>1 DEF CopyOpens, Paths, Targets
<1>10. CASE CopyBreaks
  <2>1. gone' = {}
    BY <1>10 DEF CopyBreaks, SourcesPacked
  <2> QED
    BY <1>10, <2>1 DEF CopyBreaks
<1>11. CASE CopyEnds
  BY <1>11 DEF CopyEnds
<1>12. CASE UnlinkTemp
  BY <1>12 DEF UnlinkTemp, Paths, Targets
<1>13. CASE MoveFailed
  <2>1. gone' = {}
    BY <1>13 DEF MoveFailed, SourcesPacked
  <2> QED
    BY <1>13, <2>1 DEF MoveFailed
<1>14. CASE Moved
  BY <1>14 DEF Moved
<1>15. CASE DeleteSource
  BY <1>15 DEF DeleteSource
<1>16. CASE Done
  BY <1>16 DEF Done
<1>17. CASE ClearTempFiles
  BY <1>17 DEF ClearTempFiles
<1>18. ASSUME NEW s \in Sources, PackSource(s) PROVE OutputsMade'
  BY <1>18 DEF PackSource
<1>19. ASSUME NEW s \in Sources, CompareSource(s) PROVE OutputsMade'
  BY <1>19 DEF CompareSource
<1>20. ASSUME NEW s \in Sources, ChangeSource(s) PROVE OutputsMade'
  BY <1>20 DEF ChangeSource
<1>21. CASE MoveStart
  BY <1>21 DEF MoveStart
<1>22. CASE UNCHANGED vars
  BY <1>22 DEF vars
<1>23. CASE CreateTar
  BY <1>23 DEF CreateTar, Paths, Targets
<1>24. CASE CloseTar
  BY <1>24 DEF CloseTar, Paths, Targets
<1>25. CASE CompressTar
  BY <1>25 DEF CompressTar, Paths, Targets
<1> QED
  BY <1>1, <1>2, <1>3, <1>4, <1>5, <1>6, <1>7, <1>8, <1>9, <1>10, <1>11, <1>12, <1>13,
     <1>14, <1>15, <1>16, <1>17, <1>18, <1>19, <1>20, <1>21, <1>22, <1>23, <1>24, <1>25
     DEF Next, Ended

LEMMA SourcesStep == IInv /\ [Next]_vars => SourcesPacked'
<1> SUFFICES ASSUME IInv, [Next]_vars PROVE SourcesPacked'
  OBVIOUS
<1>0. TypeOK'
  BY TypeStep
<1> USE Commands, OutputIsPath DEF IInv, Goto, Return, Put, fileVars, sourceVars, TypeOK,
    CreateTemp, UpdatesArc, SourcesPacked, HoldsScanned, Reading
<1>1. CASE Check
  BY <1>1 DEF Check
<1>2. CASE Create
  BY <1>2 DEF Create
<1>3. CASE PackFails
  BY <1>3 DEF PackFails
<1>4. CASE CloseOutput
  BY <1>4 DEF CloseOutput
<1>5. CASE Finish
  BY <1>5 DEF Finish
<1>6. CASE Keep
  BY <1>6 DEF Keep
<1>7. CASE DeleteOriginal
  BY <1>7 DEF DeleteOriginal
<1>8. CASE Rename
  BY <1>8 DEF Rename
<1>9. CASE CopyOpens
  BY <1>9 DEF CopyOpens
<1>10. CASE CopyBreaks
  BY <1>10 DEF CopyBreaks
<1>11. CASE CopyEnds
  BY <1>11 DEF CopyEnds
<1>12. CASE UnlinkTemp
  BY <1>12 DEF UnlinkTemp
<1>13. CASE MoveFailed
  BY <1>13 DEF MoveFailed
<1>14. CASE Moved
  BY <1>14 DEF Moved
<1>15. CASE DeleteSource
  BY <1>15 DEF DeleteSource
<1>16. CASE Done
  BY <1>16 DEF Done
<1>17. CASE ClearTempFiles
  BY <1>17 DEF ClearTempFiles
<1>18. ASSUME NEW s \in Sources, PackSource(s) PROVE SourcesPacked'
  BY <1>18 DEF PackSource, Final, Targets
<1>19. ASSUME NEW s \in Sources, CompareSource(s) PROVE SourcesPacked'
  BY <1>19 DEF CompareSource, Unchanged
<1>20. ASSUME NEW s \in Sources, ChangeSource(s) PROVE SourcesPacked'
  BY <1>20 DEF ChangeSource
<1>21. CASE MoveStart
  BY <1>21 DEF MoveStart
<1>22. CASE UNCHANGED vars
  BY <1>22 DEF vars
<1>23. CASE CreateTar
  BY <1>23 DEF CreateTar
<1>24. CASE CloseTar
  BY <1>24 DEF CloseTar
<1>25. CASE CompressTar
  BY <1>25 DEF CompressTar
<1> QED
  BY <1>1, <1>2, <1>3, <1>4, <1>5, <1>6, <1>7, <1>8, <1>9, <1>10, <1>11, <1>12, <1>13,
     <1>14, <1>15, <1>16, <1>17, <1>18, <1>19, <1>20, <1>21, <1>22, <1>23, <1>24, <1>25
     DEF Next, Ended

LEMMA Surviving == IInv => DataSurvives
<1> SUFFICES ASSUME IInv PROVE DataSurvives
  OBVIOUS
<1>1. run.inArc => file.arc = "old" \/ Complete("arc") \/ Complete("tmp")
  BY DEF IInv, ArcKept
<1>2. ASSUME NEW s \in gone \ Empty
      PROVE  \E i \in DOMAIN run.targets :
               Complete(run.targets[i]) /\ packed[run.targets[i]][s] = 0
  <2>1. \A i \in DOMAIN run.targets : Complete(run.targets[i])
    BY <1>2 DEF IInv, OutputsMade
  <2>2. HoldsScanned(s)
    BY <1>2 DEF IInv, SourcesPacked
  <2> QED
    BY <2>1, <2>2 DEF HoldsScanned
<1> QED
  BY <1>1, <1>2 DEF DataSurvives

LEMMA Inductive == Spec => []IInv
<1>1. IInv /\ [Next]_vars => IInv'
  BY TypeStep, ArcStep, OutputsStep, SourcesStep DEF IInv
<1> QED
  BY InitEstablishes, <1>1, PTL DEF Spec

\* Every state of every run is of its type.
THEOREM UpdateTypes == Spec => []TypeOK
<1>1. IInv => TypeOK
  BY DEF IInv
<1> QED
  BY Inductive, <1>1, PTL

\* Wherever the program stops, the updated archive is there, as it was or complete, and every
\* source that was deleted is in a complete archive, as it was compared.
THEOREM NothingIsLost == Spec => []DataSurvives
  BY Inductive, Surviving, PTL

-----------------------------------------------------------------------------
(* What the run leaves behind.                                             *)

\* Which files a failed run has still to delete, and which were never touched.
TempOrAsBefore == pc # "end" =>
  /\ "tmp" \in tempPaths => CreateTemp
  /\ "tmp" \notin tempPaths => file["tmp"] = "none"
  /\ "more" \notin tempPaths => file["more"] \in {"none", "other"}
  /\ needDelete /\ "arc" \notin tempPaths => file["arc"] = IF run.inArc THEN "old" ELSE "none"

\* Where a partly written file can be.
Parts ==
  /\ pc = "tar" => run.tarball
  /\ file["tar"] # "none" => pc = "compress" \/ (pc = "pack" /\ run.tarball)
  /\ pc \in {"tar", "pack", "compress", "close"} =>
       Output \in tempPaths /\ \A p \in Paths : file[p] = "part" => p \in {Output, "tar"}
  /\ pc = "copying" => \A p \in Paths : file[p] = "part" => p = "arc"
  /\ pc = "return" => \A p \in Paths : file[p] = "part" => needDelete /\ p \in tempPaths
  /\ pc \notin {"tar", "pack", "compress", "close", "copying", "return"} =>
       \A p \in Paths : file[p] # "part"

\* What is known when the archives are to be kept, and how the calls end.
Outcome ==
  /\ pc \in Making \cup {"check", "keep"} => needDelete
  /\ pc = "return" /\ ~needDelete => AllMade
  /\ pc \in {"moved", "sources"} => file["tmp"] = "none"
  /\ result = "OK" => pc \in {"return", "end"}
  /\ result = "OK" /\ pc = "return" => 
       ~needDelete /\ file["tmp"] = "none" /\ callbackResult = "OK"
  /\ callbackResult = "ABORT" =>
       /\ pc \in {"failed", "return", "end"}
       /\ ~run.inArc => (pc = "failed" => file["arc"] = "none") /\ (pc = "return" => needDelete)

\* Where the empty file of a copy can be, and until when.
Created == \A p \in Paths : file[p] = "created" =>
  /\ p = "arc" /\ CreateTemp /\ run.otherVolume /\ ~needDelete
  /\ pc \in {"copy", "failed", "return", "end"}

TInv == IInv /\ TempOrAsBefore /\ Parts /\ Outcome /\ Created /\ Tidy

LEMMA TempStep == TInv /\ [Next]_vars => TempOrAsBefore'
<1> SUFFICES ASSUME TInv, [Next]_vars PROVE TempOrAsBefore'
  OBVIOUS
<1>0. TypeOK'
  BY TypeStep DEF TInv
<1> USE Commands, OutputIsPath DEF TInv, IInv, Goto, Return, Put, fileVars, sourceVars, TypeOK,
    CreateTemp, UpdatesArc, TempOrAsBefore, Making, ArcPlace, Outcome, Complete
<1>1. CASE Check
  BY <1>1 DEF Check, Paths, Targets
<1>2. CASE Create
  BY <1>2 DEF Create, Output, Final, Paths, Targets
<1>3. CASE PackFails
  BY <1>3 DEF PackFails, Paths, Targets
<1>4. CASE CloseOutput
  BY <1>4 DEF CloseOutput, Output, Final, Paths, Targets, Parts
<1>5. CASE Finish
  BY <1>5 DEF Finish, Paths, Targets
<1>6. CASE Keep
  BY <1>6 DEF Keep, Paths, Targets
<1>7. CASE DeleteOriginal
  BY <1>7 DEF DeleteOriginal, Paths, Targets
<1>8. CASE Rename
  BY <1>8 DEF Rename, Paths, Targets
<1>9. CASE CopyOpens
  BY <1>9 DEF CopyOpens, Paths, Targets
<1>10. CASE CopyBreaks
  BY <1>10 DEF CopyBreaks, Paths, Targets
<1>11. CASE CopyEnds
  BY <1>11 DEF CopyEnds, Paths, Targets
<1>12. CASE UnlinkTemp
  BY <1>12 DEF UnlinkTemp, Paths, Targets
<1>13. CASE MoveFailed
  BY <1>13 DEF MoveFailed, Paths, Targets
<1>14. CASE Moved
  BY <1>14 DEF Moved, Paths, Targets
<1>15. CASE DeleteSource
  BY <1>15 DEF DeleteSource, Paths, Targets
<1>16. CASE Done
  BY <1>16 DEF Done, Paths, Targets
<1>17. CASE ClearTempFiles
  BY <1>17 DEF ClearTempFiles, Paths, Targets
<1>18. ASSUME NEW s \in Sources, PackSource(s) PROVE TempOrAsBefore'
  BY <1>18 DEF PackSource, Paths, Targets
<1>19. ASSUME NEW s \in Sources, CompareSource(s) PROVE TempOrAsBefore'
  BY <1>19 DEF CompareSource, Paths, Targets
<1>20. ASSUME NEW s \in Sources, ChangeSource(s) PROVE TempOrAsBefore'
  BY <1>20 DEF ChangeSource, Paths, Targets
<1>21. CASE MoveStart
  BY <1>21 DEF MoveStart, Paths, Targets
<1>22. CASE UNCHANGED vars
  BY <1>22 DEF vars
<1>23. CASE CreateTar
  BY <1>23 DEF CreateTar, Paths, Targets
<1>24. CASE CloseTar
  BY <1>24 DEF CloseTar, Paths, Targets
<1>25. CASE CompressTar
  BY <1>25 DEF CompressTar, Paths, Targets
<1> QED
  BY <1>1, <1>2, <1>3, <1>4, <1>5, <1>6, <1>7, <1>8, <1>9, <1>10, <1>11, <1>12, <1>13,
     <1>14, <1>15, <1>16, <1>17, <1>18, <1>19, <1>20, <1>21, <1>22, <1>23, <1>24, <1>25
     DEF Next, Ended

LEMMA PartsStep == TInv /\ [Next]_vars => Parts'
<1> SUFFICES ASSUME TInv, [Next]_vars PROVE Parts'
  OBVIOUS
<1>0. TypeOK'
  BY TypeStep DEF TInv
<1>00. UNCHANGED <<run, ci>> => Output' = Output
  BY DEF Output, Final, CreateTemp, UpdatesArc
<1> USE Commands, OutputIsPath DEF TInv, IInv, Goto, Return, Put, fileVars, sourceVars, TypeOK,
    Parts, TempOrAsBefore, Outcome, Making, ArcPlace, Complete
<1>1. CASE Check
  BY <1>1 DEF Check, Paths, Targets
<1>2. CASE Create
  <2>1. CASE file' = [file EXCEPT ![Output] = "part"] /\ pc' \in {"tar", "pack"}
    <3>1. \A p \in Paths : file'[p] = "part" => p = Output
      BY <1>2, <2>1 DEF Create
    <3>2. Output \in tempPaths' /\ Output' = Output
      BY <1>00, <1>2, <2>1 DEF Create
    <3>3. Output # "tar" /\ file'["tar"] = file["tar"] /\ file["tar"] = "none"
      BY <1>2, <2>1 DEF Create, Output, Paths, Targets
    <3> QED
      BY <1>2, <2>1, <3>1, <3>2, <3>3 DEF Create
  <2> QED
    BY <1>2, <2>1 DEF Create
<1>3. CASE PackFails
  BY <1>3 DEF PackFails, Paths, Targets
<1>4. CASE CloseOutput
  <2>1. file["tar"] = "none"
    BY <1>4 DEF CloseOutput
  <2>2. /\ Output \in tempPaths /\ needDelete
        /\ \A p \in Paths : file[p] = "part" => p \in {Output, "tar"}
    BY <1>4 DEF CloseOutput
  <2>3. CASE file' = file /\ pc' = "return"
    BY <1>4, <2>1, <2>2, <2>3 DEF CloseOutput
  <2>4. CASE file' = [file EXCEPT ![Output] = "new"] /\ pc' = "finish"
    <3>1. \A p \in Paths : file'[p] # "part"
      BY <2>1, <2>2, <2>4 DEF Paths
    <3>2. file'["tar"] = "none"
      BY <2>1, <2>4 DEF Output, Targets
    <3> QED
      BY <2>4, <3>1, <3>2
  <2> QED
    BY <1>4, <2>3, <2>4 DEF CloseOutput
<1>5. CASE Finish
  BY <1>5 DEF Finish, Paths, Targets
<1>6. CASE Keep
  BY <1>6 DEF Keep, Paths, Targets
<1>7. CASE DeleteOriginal
  BY <1>7 DEF DeleteOriginal, Paths, Targets
<1>8. CASE Rename
  <2>1. file["tar"] = "none" /\ \A p \in Paths : file[p] # "part"
    BY <1>8 DEF Rename
  <2>2. file'["tar"] = "none" /\ \A p \in Paths : file'[p] # "part"
    <3>1. "tmp" \in Paths /\ "arc" \in Paths /\ "tar" \in Paths
      BY DEF Paths, Targets
    <3>2. \/ file' = [file EXCEPT !["arc"] = "created"]
          \/ file' = [file EXCEPT !["arc"] = file["tmp"], !["tmp"] = "none"]
          \/ file' = file
      BY <1>8, RenameFiles
    <3> QED
      BY <2>1, <3>1, <3>2
  <2>3. pc' \in {"copy", "moved", "failed"}
    BY <1>8, RenameFiles
  <2> QED
    BY <2>2, <2>3
<1>9. CASE CopyOpens
  BY <1>9 DEF CopyOpens, Paths, Targets
<1>10. CASE CopyBreaks
  BY <1>10 DEF CopyBreaks, Paths, Targets
<1>11. CASE CopyEnds
  BY <1>11 DEF CopyEnds, Paths, Targets
<1>12. CASE UnlinkTemp
  BY <1>12 DEF UnlinkTemp, Paths, Targets
<1>13. CASE MoveFailed
  BY <1>13 DEF MoveFailed, Paths, Targets
<1>14. CASE Moved
  BY <1>14 DEF Moved, Paths, Targets
<1>15. CASE DeleteSource
  BY <1>15 DEF DeleteSource, Paths, Targets
<1>16. CASE Done
  BY <1>16 DEF Done, Paths, Targets
<1>17. CASE ClearTempFiles
  BY <1>17 DEF ClearTempFiles, Paths, Targets
<1>18. ASSUME NEW s \in Sources, PackSource(s) PROVE Parts'
  BY <1>00, <1>18 DEF PackSource, Paths, Targets
<1>19. ASSUME NEW s \in Sources, CompareSource(s) PROVE Parts'
  BY <1>19 DEF CompareSource, Paths, Targets
<1>20. ASSUME NEW s \in Sources, ChangeSource(s) PROVE Parts'
  BY <1>00, <1>20 DEF ChangeSource, Paths, Targets
<1>21. CASE MoveStart
  BY <1>21 DEF MoveStart, Paths, Targets
<1>22. CASE UNCHANGED vars
  BY <1>00, <1>22 DEF vars
<1>23. CASE CreateTar
  BY <1>00, <1>23 DEF CreateTar, Paths, Targets
<1>24. CASE CloseTar
  BY <1>00, <1>24 DEF CloseTar, Paths, Targets
<1>25. CASE CompressTar
  BY <1>00, <1>25 DEF CompressTar, Paths, Targets
<1> QED
  BY <1>1, <1>2, <1>3, <1>4, <1>5, <1>6, <1>7, <1>8, <1>9, <1>10, <1>11, <1>12, <1>13,
     <1>14, <1>15, <1>16, <1>17, <1>18, <1>19, <1>20, <1>21, <1>22, <1>23, <1>24, <1>25
     DEF Next, Ended

LEMMA OutcomeStep == TInv /\ [Next]_vars => Outcome'
<1> SUFFICES ASSUME TInv, [Next]_vars PROVE Outcome'
  OBVIOUS
<1>0. TypeOK'
  BY TypeStep DEF TInv
<1> USE Commands, OutputIsPath DEF TInv, IInv, Goto, Return, Put, fileVars, sourceVars, TypeOK,
    Outcome, AllMade, OutputsMade, ArcPlace, Making, TempOrAsBefore, CreateTemp, UpdatesArc,
    Complete
<1>1. CASE Check
  BY <1>1 DEF Check, Paths, Targets
<1>2. CASE Create
  BY <1>2 DEF Create, Paths, Targets
<1>3. CASE PackFails
  BY <1>3 DEF PackFails, Paths, Targets
<1>4. CASE CloseOutput
  BY <1>4 DEF CloseOutput, Paths, Targets
<1>5. CASE Finish
  BY <1>5 DEF Finish, Paths, Targets
<1>6. CASE Keep
  BY <1>6 DEF Keep, Paths, Targets
<1>7. CASE DeleteOriginal
  BY <1>7 DEF DeleteOriginal, Paths, Targets
<1>8. CASE Rename
  BY <1>8 DEF Rename, Paths, Targets
<1>9. CASE CopyOpens
  BY <1>9 DEF CopyOpens, Paths, Targets
<1>10. CASE CopyBreaks
  BY <1>10 DEF CopyBreaks, Paths, Targets
<1>11. CASE CopyEnds
  BY <1>11 DEF CopyEnds, Paths, Targets
<1>12. CASE UnlinkTemp
  BY <1>12 DEF UnlinkTemp, Paths, Targets
<1>13. CASE MoveFailed
  BY <1>13 DEF MoveFailed, Paths, Targets
<1>14. CASE Moved
  BY <1>14 DEF Moved, Paths, Targets
<1>15. CASE DeleteSource
  BY <1>15 DEF DeleteSource, Paths, Targets
<1>16. CASE Done
  BY <1>16 DEF Done, Paths, Targets
<1>17. CASE ClearTempFiles
  BY <1>17 DEF ClearTempFiles, Paths, Targets
<1>18. ASSUME NEW s \in Sources, PackSource(s) PROVE Outcome'
  BY <1>18 DEF PackSource, Paths, Targets
<1>19. ASSUME NEW s \in Sources, CompareSource(s) PROVE Outcome'
  BY <1>19 DEF CompareSource, Paths, Targets
<1>20. ASSUME NEW s \in Sources, ChangeSource(s) PROVE Outcome'
  BY <1>20 DEF ChangeSource, Paths, Targets
<1>21. CASE MoveStart
  BY <1>21 DEF MoveStart, Paths, Targets
<1>22. CASE UNCHANGED vars
  BY <1>22 DEF vars
<1>23. CASE CreateTar
  BY <1>23 DEF CreateTar, Paths, Targets
<1>24. CASE CloseTar
  BY <1>24 DEF CloseTar, Paths, Targets
<1>25. CASE CompressTar
  BY <1>25 DEF CompressTar, Paths, Targets
<1> QED
  BY <1>1, <1>2, <1>3, <1>4, <1>5, <1>6, <1>7, <1>8, <1>9, <1>10, <1>11, <1>12, <1>13,
     <1>14, <1>15, <1>16, <1>17, <1>18, <1>19, <1>20, <1>21, <1>22, <1>23, <1>24, <1>25
     DEF Next, Ended

LEMMA CreatedStep == TInv /\ [Next]_vars => Created'
<1> SUFFICES ASSUME TInv, [Next]_vars PROVE Created'
  OBVIOUS
<1>0. TypeOK'
  BY TypeStep DEF TInv
<1> USE Commands, OutputIsPath DEF TInv, IInv, Goto, Return, Put, fileVars, sourceVars, TypeOK,
    Created, Outcome, Making, ArcPlace, CreateTemp, UpdatesArc
<1>1. CASE Check
  BY <1>1 DEF Check, Paths, Targets
<1>2. CASE Create
  BY <1>2 DEF Create, Paths, Targets
<1>3. CASE PackFails
  BY <1>3 DEF PackFails, Paths, Targets
<1>4. CASE CloseOutput
  BY <1>4 DEF CloseOutput, Paths, Targets
<1>5. CASE Finish
  BY <1>5 DEF Finish, Paths, Targets
<1>6. CASE Keep
  BY <1>6 DEF Keep, Paths, Targets
<1>7. CASE DeleteOriginal
  BY <1>7 DEF DeleteOriginal, Paths, Targets
<1>8. CASE Rename
  <2>1. "tmp" \in Paths /\ "arc" \in Paths /\ \A p \in Paths : file[p] # "created"
    BY <1>8 DEF Rename, Paths, Targets
  <2>2. CreateTemp' = CreateTemp /\ CreateTemp /\ ~needDelete'
    BY <1>8 DEF Rename
  <2>3. CASE run.otherVolume /\ Put("arc", "created") /\ pc' = "copy"
    <3>1. run' = run /\ \A p \in Paths : file'[p] = "created" => p = "arc"
      BY <1>8, <2>1, <2>3 DEF Rename
    <3> QED
      BY <2>2, <2>3, <3>1
  <2>4. CASE file' = [file EXCEPT !["arc"] = file["tmp"], !["tmp"] = "none"]
    <3>1. \A p \in Paths : file'[p] # "created"
      BY <2>1, <2>4
    <3> QED
      BY <3>1
  <2>5. CASE file' = file
    BY <2>1, <2>5
  <2> QED
    BY <1>8, <2>3, <2>4, <2>5 DEF Rename
<1>9. CASE CopyOpens
  BY <1>9 DEF CopyOpens, Paths, Targets
<1>10. CASE CopyBreaks
  BY <1>10 DEF CopyBreaks, Paths, Targets
<1>11. CASE CopyEnds
  BY <1>11 DEF CopyEnds, Paths, Targets
<1>12. CASE UnlinkTemp
  BY <1>12 DEF UnlinkTemp, Paths, Targets
<1>13. CASE MoveFailed
  BY <1>13 DEF MoveFailed, Paths, Targets
<1>14. CASE Moved
  BY <1>14 DEF Moved, Paths, Targets
<1>15. CASE DeleteSource
  BY <1>15 DEF DeleteSource, Paths, Targets
<1>16. CASE Done
  BY <1>16 DEF Done, Paths, Targets
<1>17. CASE ClearTempFiles
  BY <1>17 DEF ClearTempFiles, Paths, Targets
<1>18. ASSUME NEW s \in Sources, PackSource(s) PROVE Created'
  BY <1>18 DEF PackSource, Paths, Targets
<1>19. ASSUME NEW s \in Sources, CompareSource(s) PROVE Created'
  BY <1>19 DEF CompareSource, Paths, Targets
<1>20. ASSUME NEW s \in Sources, ChangeSource(s) PROVE Created'
  BY <1>20 DEF ChangeSource, Paths, Targets
<1>21. CASE MoveStart
  BY <1>21 DEF MoveStart, Paths, Targets
<1>22. CASE UNCHANGED vars
  BY <1>22 DEF vars
<1>23. CASE CreateTar
  BY <1>23 DEF CreateTar, Paths, Targets
<1>24. CASE CloseTar
  BY <1>24 DEF CloseTar, Paths, Targets
<1>25. CASE CompressTar
  BY <1>25 DEF CompressTar, Paths, Targets
<1> QED
  BY <1>1, <1>2, <1>3, <1>4, <1>5, <1>6, <1>7, <1>8, <1>9, <1>10, <1>11, <1>12, <1>13,
     <1>14, <1>15, <1>16, <1>17, <1>18, <1>19, <1>20, <1>21, <1>22, <1>23, <1>24, <1>25
     DEF Next, Ended

LEMMA TidyStep == TInv /\ [Next]_vars => Tidy'
<1> SUFFICES ASSUME TInv, [Next]_vars PROVE Tidy'
  OBVIOUS
<1>0. TypeOK'
  BY TypeStep DEF TInv
<1> USE Commands, OutputIsPath DEF TInv, IInv, Goto, Return, Put, fileVars, sourceVars, TypeOK,
    Tidy, Outcome, AllMade, NothingMade, TempOrAsBefore, Parts, ArcKept, UpdatesArc, Complete,
    Created, EmptyArcOnly, CreateTemp
<1>1. CASE Check
  BY <1>1 DEF Check, Paths, Targets
<1>2. CASE Create
  BY <1>2 DEF Create, Paths, Targets
<1>3. CASE PackFails
  BY <1>3 DEF PackFails, Paths, Targets
<1>4. CASE CloseOutput
  BY <1>4 DEF CloseOutput, Paths, Targets
<1>5. CASE Finish
  BY <1>5 DEF Finish, Paths, Targets
<1>6. CASE Keep
  BY <1>6 DEF Keep, Paths, Targets
<1>7. CASE DeleteOriginal
  BY <1>7 DEF DeleteOriginal, Paths, Targets
<1>8. CASE Rename
  BY <1>8 DEF Rename, Paths, Targets
<1>9. CASE CopyOpens
  BY <1>9 DEF CopyOpens, Paths, Targets
<1>10. CASE CopyBreaks
  BY <1>10 DEF CopyBreaks, Paths, Targets
<1>11. CASE CopyEnds
  BY <1>11 DEF CopyEnds, Paths, Targets
<1>12. CASE UnlinkTemp
  BY <1>12 DEF UnlinkTemp, Paths, Targets
<1>13. CASE MoveFailed
  BY <1>13 DEF MoveFailed, Paths, Targets
<1>14. CASE Moved
  BY <1>14 DEF Moved, Paths, Targets
<1>15. CASE DeleteSource
  BY <1>15 DEF DeleteSource, Paths, Targets
<1>16. CASE Done
  BY <1>16 DEF Done, Paths, Targets
<1>17. CASE ClearTempFiles
  BY <1>17 DEF ClearTempFiles, Paths, Targets
<1>18. ASSUME NEW s \in Sources, PackSource(s) PROVE Tidy'
  BY <1>18 DEF PackSource, Paths, Targets
<1>19. ASSUME NEW s \in Sources, CompareSource(s) PROVE Tidy'
  BY <1>19 DEF CompareSource, Paths, Targets
<1>20. ASSUME NEW s \in Sources, ChangeSource(s) PROVE Tidy'
  BY <1>20 DEF ChangeSource, Paths, Targets
<1>21. CASE MoveStart
  BY <1>21 DEF MoveStart, Paths, Targets
<1>22. CASE UNCHANGED vars
  BY <1>22 DEF vars
<1>23. CASE CreateTar
  BY <1>23 DEF CreateTar, Paths, Targets
<1>24. CASE CloseTar
  BY <1>24 DEF CloseTar, Paths, Targets
<1>25. CASE CompressTar
  BY <1>25 DEF CompressTar, Paths, Targets
<1> QED
  BY <1>1, <1>2, <1>3, <1>4, <1>5, <1>6, <1>7, <1>8, <1>9, <1>10, <1>11, <1>12, <1>13,
     <1>14, <1>15, <1>16, <1>17, <1>18, <1>19, <1>20, <1>21, <1>22, <1>23, <1>24, <1>25
     DEF Next, Ended

LEMMA InitTidy == Init => TInv
<1> SUFFICES ASSUME Init PROVE TInv
  OBVIOUS
<1>1. IInv
  BY InitEstablishes
<1>2. PICK m \in {"none", "other"} :
        file = [arc |-> IF run.inArc THEN "old" ELSE "none", more |-> m, tmp |-> "none",
                tar |-> "none"]
  BY DEF Init
<1>3. /\ file["arc"] = IF run.inArc THEN "old" ELSE "none"
      /\ file["more"] \in {"none", "other"} /\ file["tmp"] = "none" /\ file["tar"] = "none"
  BY <1>2
<1>4. \A p \in Paths : file[p] \notin {"part", "created"}
  BY <1>3 DEF Paths, Targets
<1>5. /\ pc = "check" /\ tempPaths = {} /\ needDelete = TRUE
      /\ callbackResult = "OK" /\ result = "none"
  BY DEF Init
<1> QED
  BY <1>1, <1>3, <1>4, <1>5 DEF TInv, TempOrAsBefore, Parts, Outcome, Tidy, Making,
     Created

\* When a run has ended, its archives are all there under their final names and nothing else,
\* or it failed and left nothing of its own, or every archive complete; never a partial file
\* or the temporary tar, whichever step failed or was broken off.
THEOREM NothingIsLeft == Spec => []Tidy
<1>1. TInv /\ [Next]_vars => TInv'
  <2>1. IInv /\ [Next]_vars => IInv'
    BY TypeStep, ArcStep, OutputsStep, SourcesStep DEF IInv
  <2> QED
    BY <2>1, TempStep, PartsStep, OutcomeStep, CreatedStep, TidyStep
       DEF TInv
<1>2. TInv => Tidy
  BY DEF TInv
<1> QED
  BY InitTidy, <1>1, <1>2, PTL DEF Spec
=============================================================================
