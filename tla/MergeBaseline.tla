---------------------------- MODULE MergeBaseline ----------------------------
(***************************************************************************)
(* The merge baseline of an installed component (cli/lib/manifest.js): the *)
(* manifest of the version last installed and the copies of its files that *)
(* the next three-way merge uses as its base.  saveMergeBaseline stages    *)
(* both, commits by renaming the manifest, and then swaps the copies in;   *)
(* recoverMergeBaseline repairs what an interrupted call left behind.      *)
(*                                                                         *)
(* A generation stands for a version's manifest or for the directory of    *)
(* its files.  Every filesystem call is one step that can fail; removing   *)
(* or copying a directory and writing a file can also be seen half done.   *)
(* The process can die between any two steps.  The upgrade lock lets one   *)
(* process at a time work on a component.                                  *)
(***************************************************************************)
CONSTANTS
  Generations,   \* versions of the component
  None,          \* no such file or directory
  Torn           \* a file or directory of which only a part is there

ASSUME GenerationsAssumption == None \notin Generations /\ Torn \notin Generations /\ None # Torn

VARIABLES
  manifest,      \* manifest.json, the live manifest
  originals,     \* originals/, the live copies
  tmp,           \* manifest.json.tmp, the marker of an uncommitted save
  staged,        \* originals.new/
  backup,        \* originals.bak/ of the scheme used before
  call,          \* "none", "sync" (smartSync) or "save" (saveMergeBaseline)
  pc,            \* the filesystem call about to be made, or the answer
  target         \* the generation a save installs

files == <<manifest, originals, tmp, staged, backup>>
vars == <<files, call, pc, target>>

Content == Generations \cup {None, Torn}

RecoverSteps == {"recover", "discard", "unmark", "clear", "install",
                 "legacy", "drop", "clearBad", "restore"}
StageSteps   == {"mark", "stage", "commit"}
UndoSteps    == {"undo", "undoMark"}
SwapSteps    == {"swapOut", "swapIn"}
Answers      == {"merge", "refused", "thrown", "returned"}

-----------------------------------------------------------------------------
\* A pair that matches, or what the scheme used before left behind at a crash:
\* copies of any kind and a backup of any kind.
Init ==
  /\ manifest \in Generations \cup {None}
  /\ \/ originals = manifest /\ backup = None
     \/ originals \in Content /\ backup \in Content \ {None}
  /\ tmp = None /\ staged = None
  /\ call = "none" /\ pc = "idle"
  /\ target \in Generations

\* smartSync, and saveMergeBaseline, begin with a recovery.
Begin(kind, g) ==
  /\ pc = "idle"
  /\ call' = kind /\ pc' = "recover"
  /\ target' = g
  /\ UNCHANGED files

Sync == Begin("sync", target)
Save == \E g \in Generations: Begin("save", g)

\* From one filesystem call to the next.
Go(from, to) ==
  /\ pc = from
  /\ pc' = to
  /\ UNCHANGED <<call, target>>

\* Mutant: smartSync stages a new generation after the recovery.
StagesAlways == "mark"

\* What follows a recovery: the merge reads the baseline, the save stages.
Recovered == IF call = "sync" THEN "merge" ELSE "mark"

\* Mutant: an error during the swap is reported although the save committed.
ThrowsAfterCommit ==
  IF call = "sync" THEN "refused" ELSE IF pc \in StageSteps THEN "undo" ELSE "thrown"

\* What follows an error, by the call that failed.
AfterError ==
  IF call = "sync" THEN "refused"
  ELSE IF pc \in StageSteps THEN "undo"
  ELSE IF pc \in SwapSteps THEN "returned"
  ELSE "thrown"

-----------------------------------------------------------------------------
(* recoverMergeBaseline *)

\* Mutant: the rollback removes the marker first.
MarkerFirst ==
  /\ tmp # None
  /\ Go("recover", "unmark")
  /\ UNCHANGED files

\* The marker says that the last save did not commit.
Uncommitted ==
  /\ tmp # None
  /\ Go("recover", "discard")
  /\ UNCHANGED files

\* No marker but staged copies: committed, the swap is to be completed.
RollForward ==
  /\ tmp = None /\ staged # None
  /\ Go("recover", "clear")
  /\ UNCHANGED files

Settled ==
  /\ tmp = None /\ staged = None
  /\ Go("recover", "legacy")
  /\ UNCHANGED files

\* Roll back: the staged copies first, the marker last.
Discard ==
  /\ Go("discard", "unmark")
  /\ staged' = None
  /\ UNCHANGED <<manifest, originals, tmp, backup>>

Unmark ==
  /\ Go("unmark", "legacy")
  /\ tmp' = None
  /\ UNCHANGED <<manifest, originals, staged, backup>>

\* Roll forward: the staged copies replace the live ones.
Clear ==
  /\ Go("clear", "install")
  /\ originals' = None
  /\ UNCHANGED <<manifest, tmp, staged, backup>>

Install ==
  /\ Go("install", "legacy")
  /\ originals' = staged /\ staged' = None
  /\ UNCHANGED <<manifest, tmp, backup>>

\* dirMatchesManifest: no manifest matches nothing.
Matches(dir) == manifest # None /\ dir = manifest

NoBackup ==
  /\ backup = None
  /\ Go("legacy", Recovered)
  /\ UNCHANGED files

BackupIsStale ==
  /\ backup # None /\ Matches(originals)
  /\ Go("legacy", "drop")
  /\ UNCHANGED files

\* Mutant: the backup is restored without comparing it with the manifest.
GuessesBackup ==
  /\ backup # None /\ ~Matches(originals)
  /\ Go("legacy", "clearBad")
  /\ UNCHANGED files


BackupIsRight ==
  /\ backup # None /\ ~Matches(originals) /\ Matches(backup)
  /\ Go("legacy", "clearBad")
  /\ UNCHANGED files

\* Neither matches: an error, and nothing is touched.
NeitherMatches ==
  /\ backup # None /\ ~Matches(originals) /\ ~Matches(backup)
  /\ Go("legacy", AfterError)
  /\ UNCHANGED files

Drop ==
  /\ Go("drop", Recovered)
  /\ backup' = None
  /\ UNCHANGED <<manifest, originals, tmp, staged>>

ClearBad ==
  /\ Go("clearBad", "restore")
  /\ originals' = None
  /\ UNCHANGED <<manifest, tmp, staged, backup>>

Restore ==
  /\ Go("restore", Recovered)
  /\ originals' = backup /\ backup' = None
  /\ UNCHANGED <<manifest, tmp, staged>>

Recover ==
  \/ Uncommitted \/ RollForward \/ Settled \/ Discard \/ Unmark \/ Clear \/ Install
  \/ NoBackup \/ BackupIsStale \/ BackupIsRight \/ NeitherMatches
  \/ Drop \/ ClearBad \/ Restore

-----------------------------------------------------------------------------
(* saveMergeBaseline *)

\* The marker is written before anything is staged.
Mark ==
  /\ Go("mark", "stage")
  /\ tmp' = target
  /\ UNCHANGED <<manifest, originals, staged, backup>>

Stage ==
  /\ Go("stage", "commit")
  /\ staged' = target
  /\ UNCHANGED <<manifest, originals, tmp, backup>>

\* The commit point: one rename.
Commit ==
  /\ Go("commit", "swapOut")
  /\ manifest' = tmp /\ tmp' = None
  /\ UNCHANGED <<originals, staged, backup>>

\* After an error while staging: the same order as in a recovery.
Undo ==
  /\ Go("undo", "undoMark")
  /\ staged' = None
  /\ UNCHANGED <<manifest, originals, tmp, backup>>

UndoMark ==
  /\ Go("undoMark", "thrown")
  /\ tmp' = None
  /\ UNCHANGED <<manifest, originals, staged, backup>>

SwapOut ==
  /\ Go("swapOut", "swapIn")
  /\ originals' = None
  /\ UNCHANGED <<manifest, tmp, staged, backup>>

SwapIn ==
  /\ Go("swapIn", "returned")
  /\ originals' = staged /\ staged' = None
  /\ UNCHANGED <<manifest, tmp, backup>>

SaveStep == Mark \/ Stage \/ Commit \/ Undo \/ UndoMark \/ SwapOut \/ SwapIn

-----------------------------------------------------------------------------
(* The filesystem and the process *)

\* A removal, a copy or a write of which a part has been done.
TearStaged ==
  /\ \/ pc \in {"discard", "undo"} /\ staged # None
     \/ pc = "stage"
  /\ staged' = Torn
  /\ UNCHANGED <<manifest, originals, tmp, backup>>

TearOriginals ==
  /\ pc \in {"clear", "clearBad", "swapOut"} /\ originals # None
  /\ originals' = Torn
  /\ UNCHANGED <<manifest, tmp, staged, backup>>

TearBackup ==
  /\ pc = "drop"
  /\ backup' = Torn
  /\ UNCHANGED <<manifest, originals, tmp, staged>>

TearMarker ==
  /\ pc = "mark"
  /\ tmp' = Torn
  /\ UNCHANGED <<manifest, originals, staged, backup>>

Tear ==
  /\ TearStaged \/ TearOriginals \/ TearBackup \/ TearMarker
  /\ UNCHANGED <<call, pc, target>>

\* The call about to be made throws.
IOError ==
  /\ pc \in RecoverSteps \cup StageSteps \cup UndoSteps \cup SwapSteps
  /\ pc' = AfterError
  /\ UNCHANGED <<files, call, target>>

\* The caller takes the answer.
Answered ==
  /\ pc \in Answers
  /\ pc' = "idle" /\ call' = "none"
  /\ UNCHANGED <<files, target>>

Crash ==
  /\ pc \notin {"idle"} \cup Answers
  /\ pc' = "idle" /\ call' = "none"
  /\ UNCHANGED <<files, target>>

Next == Sync \/ Save \/ Recover \/ SaveStep \/ Tear \/ IOError \/ Answered \/ Crash

Spec == Init /\ [][Next]_vars

-----------------------------------------------------------------------------
(* Properties *)

\* The variables range over what they stand for, and the steps of a save are
\* made by a save.
TypeOK ==
  /\ manifest \in Generations \cup {None}
  /\ originals \in Content /\ tmp \in Content /\ staged \in Content /\ backup \in Content
  /\ call \in {"none", "sync", "save"}
  /\ pc \in {"idle"} \cup RecoverSteps \cup StageSteps \cup UndoSteps \cup SwapSteps \cup Answers
  /\ target \in Generations
  /\ (call = "none") = (pc = "idle")
  /\ pc \in StageSteps \cup UndoSteps \cup SwapSteps \cup {"thrown", "returned"} => call = "save"
  /\ pc \in {"merge", "refused"} => call = "sync"

\* Whatever was interrupted before, and however often, the merge of smartSync
\* reads copies of the very generation its manifest names, with nothing staged.
MergeSeesOnePair ==
  pc = "merge" => originals = manifest /\ tmp = None /\ staged = None /\ backup = None

\* recoverMergeBaseline never guesses: where no copy matches the manifest, no
\* step of any call removes or overwrites either side.
NothingGuessed ==
  [][tmp = None /\ staged = None /\ backup # None /\ ~Matches(originals) /\ ~Matches(backup)
       => UNCHANGED files]_vars

\* The copies that a recovery would leave live.
Copies ==
  LET swapped == IF tmp = None /\ staged # None THEN staged ELSE originals
  IN  IF backup = None \/ Matches(swapped) THEN swapped
      ELSE IF Matches(backup) THEN backup ELSE Torn

\* How far a save has come, for its caller.
SaveState ==
  IF call # "save" THEN "closed"
  ELSE IF pc \in SwapSteps THEN "committed"
  ELSE IF pc \in {"returned", "thrown"} THEN pc
  ELSE "open"

Atomic == INSTANCE AtomicBaseline WITH
  baseline <- [manifest |-> manifest, originals |-> Copies],
  save     <- SaveState

\* The protocol implements a baseline that changes in one instant, with a
\* throw only before and a return only after it: no error, crash or repeated
\* recovery can show another pair or break the contract of the call.
ImplementsAtomic == Atomic!Spec
=============================================================================
