------------------------------- MODULE Update -------------------------------
(***************************************************************************)
(* UpdateArchive (UI/Common/Update.cpp): how the files of a run come and   *)
(* go.  A run writes one or two archives.  The first may replace an        *)
(* existing archive; then it is written to a temporary file, the original  *)
(* is deleted and the temporary file is moved to its name, by copying when *)
(* it is on another volume.  A new tar.gz, tar.bz2 or tar.xz is packed     *)
(* into a temporary tar, which is then compressed (TarWrapUpdate.cpp).     *)
(* With -sdel the sources are deleted at the end.                          *)
(* Every step may fail or be interrupted by the user, other programs       *)
(* change the sources meanwhile, and the program may die in any state:     *)
(* what must survive a crash is stated of every state.                     *)
(*                                                                         *)
(* A file is what its content is worth: another's, the old archive, just   *)
(* created, partly written, complete.  Volumes, stdout, e-mail,            *)
(* directories and the update of a compressed tarball are left out.        *)
(* Deleting one's own file does not fail.                                  *)
(***************************************************************************)
EXTENDS Naturals, Sequences

CONSTANTS
  Sources,   \* the files to be archived
  Empty,     \* those that were empty when scanned
  Runs       \* [targets, inArc, workDir, otherVolume, sdel : what the user asks for,
             \*  opensEmpty : the format opens the empty sources, as tar does,
             \*  tarball : the format compresses a temporary tar]

Targets  == {"arc", "more"}      \* final names of the archives
Paths    == Targets \cup {"tmp", "tar"}
Contents == {"none", "other", "old", "created", "part", "new"}

ASSUME RunsAssumption ==
  /\ Empty \subseteq Sources
  /\ \A r \in Runs :
       /\ r.targets \in {<<"arc">>, <<"arc", "more">>, <<"more">>}
       /\ {r.inArc, r.workDir, r.otherVolume, r.sdel, r.opensEmpty, r.tarball}
            \subseteq BOOLEAN
       /\ r.targets = <<"more">> => r.inArc      \* another archive is made of this one
       /\ r.otherVolume => r.workDir
       /\ r.tarball => r.opensEmpty /\ ~r.inArc

VARIABLES
  run, pc,
  ci,               \* the command at work
  file,             \* the files on the disk
  tempPaths,        \* CTempFiles::Paths
  needDelete,       \* CTempFiles::NeedDeleteFiles
  callbackResult,   \* C_CopyFileProgress_to_IUpdateCallbackUI2::CallbackResult
  result,           \* of UpdateArchive
  todo,             \* sources this command, or the deletion, has not come to
  processed,        \* processedItems
  version,          \* of each source: 0 as scanned, 1 changed since
  packed,           \* the version a target, or its tar, holds; NotPacked if none
  match,            \* the source that was compared and may be deleted
  gone              \* the sources that were deleted

optionVars == <<run>>
fileVars   == <<file, tempPaths, needDelete, callbackResult>>
sourceVars == <<todo, processed, packed, match, gone>>
vars == <<run, pc, ci, fileVars, result, sourceVars, version>>

NotPacked  == 2
UpdatesArc == run.targets[1] = "arc"                       \* options.UpdateArchiveItself
CreateTemp == UpdatesArc /\ (run.inArc \/ run.workDir)     \* createTempFile
Final      == run.targets[ci]
Output     == IF CreateTemp /\ ci = 1 THEN "tmp" ELSE Final

Init ==
  /\ run \in Runs /\ pc = "check" /\ ci = 1
  /\ file \in {[arc  |-> IF run.inArc THEN "old" ELSE "none", more |-> m, tmp |-> "none",
               tar |-> "none"] :
                 m \in {"none", "other"}}
  /\ tempPaths = {} /\ needDelete = TRUE /\ callbackResult = "OK" /\ result = "none"
  /\ todo = Sources /\ processed = {} /\ match = {} /\ gone = {}
  /\ version = [s \in Sources |-> 0]
  /\ packed = [t \in Targets |-> [s \in Sources |-> NotPacked]]

Goto(l) == pc' = l /\ UNCHANGED result
Return(r) == pc' = "return" /\ result' = r
Put(p, c) == file' = [file EXCEPT ![p] = c]

-----------------------------------------------------------------------------
(* Making the archives.                                                    *)

\* The final names that are written directly must be free.
Check ==
  /\ pc = "check"
  /\ IF \E i \in DOMAIN run.targets :
          (i > 1 \/ ~CreateTemp) /\ file[run.targets[i]] # "none"
       THEN Return("ERROR") ELSE Goto("create")
  /\ UNCHANGED <<run, ci, fileVars, sourceVars, version>>

\* Compress: open the output; a failure of anything before that ends the run as well.
Create ==
  /\ pc = "create"
  /\ \/ /\ file[Output] = "none" /\ Goto(IF run.tarball THEN "tar" ELSE "pack")
        /\ Put(Output, "part") /\ tempPaths' = tempPaths \cup {Output}
     \/ Return("ERROR") /\ UNCHANGED <<file, tempPaths>>
  /\ UNCHANGED <<run, ci, needDelete, callbackResult, sourceVars, version>>

\* CTempTarInStream::Create: a file in the folder for temporary files
CreateTar ==
  /\ pc = "tar"
  /\ \/ Put("tar", "part") /\ Goto("pack")
     \/ Return("ERROR") /\ UNCHANGED file
  /\ UNCHANGED <<run, ci, tempPaths, needDelete, callbackResult, sourceVars, version>>

\* A source that is opened is processed; one that cannot be opened is skipped.
Opened(s) == s \notin Empty \/ run.opensEmpty

PackSource(s) ==
  /\ pc = "pack" /\ s \in todo /\ todo' = todo \ {s}
  /\ \/ /\ packed' = [packed EXCEPT ![Final][s] = version[s]]
        /\ processed' = IF Opened(s) THEN processed \cup {s} ELSE processed
     \/ Opened(s) /\ UNCHANGED <<packed, processed>>
  /\ Goto("pack") /\ UNCHANGED <<run, ci, fileVars, match, gone, version>>

\* UpdateItems fails, in the middle of a source or between two; a temporary tar goes when
\* the handler returns.
PackFails ==
  /\ pc = "pack"
  /\ \E s \in todo : processed' \in {processed, processed \cup {x \in {s} : Opened(x)}}
  /\ Put("tar", "none") /\ Return("ERROR")
  /\ UNCHANGED <<run, ci, tempPaths, needDelete, callbackResult, todo, packed, match, gone,
                 version>>

\* The tar is closed and opened for reading.
CloseTar ==
  /\ pc = "pack" /\ run.tarball /\ todo = {}
  /\ \/ Put("tar", "new") /\ Goto("compress")
     \/ Put("tar", "none") /\ Return("ERROR")
  /\ UNCHANGED <<run, ci, tempPaths, needDelete, callbackResult, sourceVars, version>>

\* EncodeStream or CompressStream of the handler, and its return
CompressTar ==
  /\ pc = "compress" /\ Put("tar", "none")
  /\ Goto("close") \/ Return("ERROR")
  /\ UNCHANGED <<run, ci, tempPaths, needDelete, callbackResult, sourceVars, version>>

\* The output is closed; what needed no reading is then processed too.
CloseOutput ==
  /\ pc = "close" \/ (pc = "pack" /\ ~run.tarball /\ todo = {})
  /\ \/ Put(Output, "new") /\ processed' = processed \cup Empty /\ Goto("finish")
     \/ Return("ERROR") /\ UNCHANGED <<file, processed>>
  /\ UNCHANGED <<run, ci, tempPaths, needDelete, callbackResult, todo, packed, match, gone,
                 version>>

Finish ==
  /\ pc = "finish"
  /\ \/ Return("ERROR") /\ UNCHANGED <<ci, todo>>
     \/ ci < Len(run.targets) /\ ci' = ci + 1 /\ todo' = Sources /\ Goto("create")
     \/ ci = Len(run.targets) /\ Goto("keep") /\ todo' = Sources /\ UNCHANGED ci
  /\ UNCHANGED <<run, fileVars, processed, packed, match, gone, version>>

-----------------------------------------------------------------------------
(* The original gives way to the new archive.                              *)

\* From here on the new archives are kept, whatever happens.
Keep ==
  /\ pc = "keep"
  /\ \/ needDelete' = FALSE /\ Goto(IF CreateTemp THEN "delete" ELSE "sources")
     \/ Return("ERROR") /\ UNCHANGED needDelete
  /\ UNCHANGED <<run, ci, file, tempPaths, callbackResult, sourceVars, version>>

DeleteOriginal ==
  /\ pc = "delete"
  /\ \/ Put("arc", "none") /\ Goto("move")
     \/ run.inArc /\ Return("ERROR") /\ UNCHANGED file
  /\ UNCHANGED <<run, ci, tempPaths, needDelete, callbackResult, sourceVars, version>>

\* The user may break before the move, when the original is deleted already.
MoveStart ==
  /\ pc = "move"
  /\ Return("ABORT") \/ Goto("rename")
  /\ UNCHANGED <<run, ci, fileVars, sourceVars, version>>

Rename ==
  /\ pc = "rename"
  /\ \/ run.otherVolume /\ Goto("copy") /\ Put("arc", "created")
     \/ /\ ~run.otherVolume /\ Goto("moved")
        /\ file' = [file EXCEPT !.arc = file.tmp, !.tmp = "none"]
     \/ Goto("failed") /\ UNCHANGED file
  /\ UNCHANGED <<run, ci, tempPaths, needDelete, callbackResult, sourceVars, version>>

CopyOpens ==
  /\ pc = "copy"
  /\ \/ Goto("copying") /\ Put("arc", "part")
     \/ Goto("failed") /\ UNCHANGED file          \* the new file stays
  /\ UNCHANGED <<run, ci, tempPaths, needDelete, callbackResult, sourceVars, version>>

\* mutant: an interrupted copy stays
CopyBreaksOff ==
  /\ pc = "copying" /\ callbackResult' \in {"OK", "ABORT"}
  /\ Goto("failed")
  /\ UNCHANGED <<run, ci, file, tempPaths, needDelete, sourceVars, version>>

CopyBreaks ==
  /\ pc = "copying" /\ callbackResult' \in {"OK", "ABORT"}
  /\ Put("arc", "none") /\ Goto("failed")
  /\ UNCHANGED <<run, ci, tempPaths, needDelete, sourceVars, version>>

CopyEnds ==
  /\ pc = "copying" /\ Put("arc", "new") /\ Goto("unlink")
  /\ UNCHANGED <<run, ci, tempPaths, needDelete, callbackResult, sourceVars, version>>

UnlinkTemp ==
  /\ pc = "unlink"
  /\ \/ Put("tmp", "none") /\ Goto("moved")
     \/ Goto("failed") /\ UNCHANGED file
  /\ UNCHANGED <<run, ci, tempPaths, needDelete, callbackResult, sourceVars, version>>

MoveFailed ==
  /\ pc = "failed"
  /\ needDelete' = (needDelete \/ (~run.inArc /\ callbackResult = "ABORT"))
  /\ Return(IF callbackResult = "OK" THEN "ERROR" ELSE callbackResult)
  /\ UNCHANGED <<run, ci, file, tempPaths, callbackResult, sourceVars, version>>

\* MoveArc_Finish may bring a break that was put off.
Moved ==
  /\ pc = "moved"
  /\ Goto("sources") \/ Return("ABORT")
  /\ UNCHANGED <<run, ci, fileVars, sourceVars, version>>

-----------------------------------------------------------------------------
(* DeleteAfterCompressing, and the return.                                 *)

UnchangedOrSkipped(s) == version[s] = 0   \* mutant: what could not be read goes too

Unchanged(s) == s \in processed /\ version[s] = 0

\* Size and times are compared with those of the scan.
CompareSource(s) ==
  /\ pc = "sources" /\ run.sdel /\ match = {} /\ s \in todo
  /\ todo' = todo \ {s}
  /\ match' = IF Unchanged(s) THEN {s} ELSE {}
  /\ Goto("sources")
  /\ UNCHANGED <<run, ci, fileVars, processed, packed, gone, version>>

DeleteSource ==
  /\ pc = "sources" /\ match # {}
  /\ \/ gone' = gone \cup match /\ match' = {} /\ Goto("sources")
     \/ Return("ABORT") /\ UNCHANGED <<match, gone>>
     \/ match' = {} /\ Goto("sources") /\ UNCHANGED gone    \* it is refused; ignored
  /\ UNCHANGED <<run, ci, fileVars, todo, processed, packed, version>>

\* After a deletion the user interface has the last word.
Done ==
  /\ pc = "sources" /\ match = {} /\ (run.sdel => todo = {})
  /\ Return("OK") \/ (run.sdel /\ Return("ERROR"))
  /\ UNCHANGED <<run, ci, fileVars, sourceVars, version>>

\* ~CTempFiles
ClearTempFiles ==
  /\ pc = "return" /\ pc' = "end"
  /\ file' = [p \in Paths |-> IF needDelete /\ p \in tempPaths THEN "none" ELSE file[p]]
  /\ tempPaths' = {}
  /\ UNCHANGED <<run, ci, needDelete, callbackResult, result, sourceVars, version>>

\* Another program writes a source.
ChangeSource(s) ==
  /\ version[s] = 0 /\ s \notin gone /\ pc # "end"
  /\ version' = [version EXCEPT ![s] = 1]
  /\ UNCHANGED <<run, pc, ci, fileVars, result, sourceVars>>

Ended == pc = "end" /\ UNCHANGED vars

Next ==
  \/ Check \/ Create \/ CreateTar \/ PackFails \/ CloseTar \/ CompressTar
  \/ CloseOutput \/ Finish
  \/ Keep \/ DeleteOriginal \/ MoveStart \/ Rename \/ CopyOpens \/ CopyBreaks \/ CopyEnds
  \/ UnlinkTemp \/ MoveFailed \/ Moved
  \/ DeleteSource \/ Done \/ ClearTempFiles \/ Ended
  \/ \E s \in Sources : PackSource(s) \/ CompareSource(s) \/ ChangeSource(s)

Spec == Init /\ [][Next]_vars

-----------------------------------------------------------------------------
(* Properties.                                                             *)

TypeOK ==
  /\ run \in Runs /\ ci \in DOMAIN run.targets
  /\ file \in [Paths -> Contents] /\ tempPaths \subseteq Paths /\ needDelete \in BOOLEAN
  /\ callbackResult \in {"OK", "ABORT"} /\ result \in {"none", "OK", "ERROR", "ABORT"}
  /\ todo \subseteq Sources /\ processed \subseteq Sources
  /\ match \subseteq Sources /\ gone \subseteq Sources
  /\ version \in [Sources -> {0, 1}]
  /\ packed \in [Targets -> [Sources -> {0, 1, NotPacked}]]

Complete(p) == file[p] = "new"

\* Whenever the program stops, in whatever state, nothing was lost: the archive that was
\* updated is there, as it was or replaced, under its name or the temporary one (the code
\* deletes the original before it moves the new archive), and a source that was deleted is
\* in a complete archive under its final name, in the version that was compared.  Sources that
\* were empty when scanned are left out: CloseOutput counts them as processed although they
\* may never have been packed (Update.cpp:937); what is lost with them is a name.
DataSurvives ==
  /\ run.inArc => file.arc = "old" \/ Complete("arc") \/ Complete("tmp")
  /\ \A s \in gone \ Empty : \E i \in DOMAIN run.targets :
       Complete(run.targets[i]) /\ packed[run.targets[i]][s] = 0

NothingMade == /\ file.arc = IF run.inArc THEN "old" ELSE "none"
               /\ file.tmp = "none" /\ file.more \in {"none", "other"}
AllMade     == /\ UpdatesArc => Complete("arc") \/ Complete("tmp")
               /\ \A i \in DOMAIN run.targets : run.targets[i] = "more" => Complete("more")

\* The one file without content that may stay: under the final name, when a copy to another
\* volume has created it but cannot open the temporary archive, which then is complete.
EmptyArcOnly == \A p \in Paths : file[p] = "created" =>
  p = "arc" /\ CreateTemp /\ run.otherVolume /\ Complete("tmp")

\* What UpdateArchive leaves behind: after success the archives under their final names and
\* nothing else; after a failure either nothing (always when the user breaks off moving an
\* archive that replaces none) or every archive complete, under its final or the temporary
\* name; never a partial one, and never the temporary tar.
Tidy == pc = "end" =>
  /\ result = "OK" => AllMade /\ file.tmp = "none"
  /\ result # "OK" => NothingMade \/ AllMade
  /\ callbackResult = "ABORT" /\ ~run.inArc => NothingMade
  /\ file.tar = "none" /\ (\A p \in Paths : file[p] # "part") /\ EmptyArcOnly
=============================================================================
