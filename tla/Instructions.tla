----------------------------- MODULE Instructions -----------------------------
(***************************************************************************)
(* The instruction files: cli/lib/runtime/instruction-builder and its      *)
(* assembler.                                                              *)
(*                                                                         *)
(* A release brings system texts, the assembler and the seed of YOS.md,    *)
(* which is the user's from then on.  They are installed in a transaction  *)
(* over several files: stage everything, move each old file to a backup    *)
(* and its stage into place, and commit by renaming the marker, which      *)
(* names the transaction.  What a dead or failed run left behind is        *)
(* recovered by the next one.  A launch builds what the agent reads from   *)
(* the system text and YOS.md, while all this goes on.                     *)
(*                                                                         *)
(* "system" stands for the system texts of both runtimes with onboarding   *)
(* and memory-system, "output" for CLAUDE.md and AGENTS.md.                *)
(***************************************************************************)
EXTENDS Naturals, FiniteSets, SequencesExt

CONSTANTS
  MaxRelease,    \* bound on the releases whose templates are installed
  MaxRuns,       \* bound on the runs that install them
  MaxEdits,      \* bound on the user's edits of YOS.md
  MaxFaults,     \* bound on the file operations that fail
  MaxDeaths,     \* bound on the runs that die
  MaxLaunches,   \* bound on the launches that rebuild
  NoFile

\* What the files hold: a release or the number of a text, and of the output which
\* of both it was built from.
Texts == Nat \cup [system : Nat, text : Nat]

ASSUME NoFileAssumption ==
  NoFile \notin [of : Texts, at : Nat] \cup [of : Texts, at : Nat, txn : Nat] \cup [txn : Nat, release : Nat]

VARIABLES
  file,          \* the files: what they hold and when it was written, or NoFile
  bak,           \* their backups, with the transaction that made them
  temps,         \* some stage file is left on disk
  marker,        \* meta.json: the transaction and its release, or NoFile
  format,        \* the format version is on record
  writer,        \* the run that installs instructions
  release,       \* the release whose templates the command brings
  stamp,         \* the clock of modification times
  spent          \* bounded events so far

instructionVars == <<file, bak, temps, marker, format, writer, release, stamp, spent>>

Entries == {"system", "assembler", "YOS", "output"}
Idle == [at |-> "idle", call |-> "none", todo |-> <<>>, put |-> <<>>, kept |-> <<>>,
         text |-> 0, wrong |-> FALSE, residue |-> FALSE, txn |-> 0]

InstructionInit ==
  /\ file = [e \in Entries |-> NoFile] /\ bak = [e \in Entries |-> NoFile]
  /\ temps = FALSE /\ marker = NoFile /\ format = FALSE
  /\ writer = Idle /\ release = 1 /\ stamp = 1
  /\ spent = [runs |-> 0, edits |-> 0, faults |-> 0, deaths |-> 0, launches |-> 0]

Spend(what, most) == spent[what] < most /\ spent' = [spent EXCEPT ![what] = @ + 1]
There(e) == file[e] # NoFile
Residue == temps \/ \E e \in Entries: bak[e] # NoFile

\* What the run writes: the output shows the system text and YOS.md it has read.
Content(e) ==
  CASE e = "YOS" -> 1
    [] e = "output" -> [system |-> release, text |-> writer.text]
    [] OTHER -> release

\* Mutant: a backup of the committed transaction is restored as well.
RestoresAll(b) == TRUE

\* recoverSplitTransaction: a backup of the transaction that the marker names is
\* discarded, any other goes back.
Returns(b) == marker = NoFile \/ b.txn # marker.txn

-----------------------------------------------------------------------------
(* Recovery, with which each run begins *)

BeginInstructions(call) ==
  /\ writer.at = "idle" /\ Spend("runs", MaxRuns)
  /\ writer' = [Idle EXCEPT !.at = "recover", !.call = call, !.residue = Residue,
                            !.todo = SetToSeq({e \in Entries: bak[e] # NoFile})]
  /\ UNCHANGED <<file, bak, temps, marker, format, release, stamp>>

Recover ==
  /\ writer.at = "recover" /\ writer.todo # <<>>
  /\ LET e == Head(writer.todo)
         rest == [writer EXCEPT !.todo = Tail(@)]
     IN \/ /\ file' = IF Returns(bak[e])
                      THEN [file EXCEPT ![e] = [of |-> bak[e].of, at |-> bak[e].at]] ELSE file
           /\ bak' = [bak EXCEPT ![e] = NoFile]
           /\ writer' = rest /\ UNCHANGED spent
        \/ Spend("faults", MaxFaults) /\ writer' = [rest EXCEPT !.wrong = TRUE]
           /\ UNCHANGED <<file, bak>>
  /\ UNCHANGED <<temps, marker, format, release, stamp>>

\* A backup that could neither be restored nor discarded ends the run, and so
\* does a layout without marker, unless it is what a first run left.  With a
\* marker also a first run is a refresh.
Recovered ==
  /\ writer.at = "recover" /\ writer.todo = <<>>
  /\ temps' = (temps /\ writer.wrong)
  /\ LET legacy == There("YOS") \/ There("output")
         refused == \/ writer.wrong
                    \/ marker = NoFile /\ (writer.call = "refresh" \/ (legacy /\ ~writer.residue))
     IN writer' = [writer EXCEPT !.at = IF refused THEN "thrown" ELSE "stage",
                                 !.call = IF marker # NoFile THEN "refresh" ELSE @]
  /\ UNCHANGED <<file, bak, marker, format, release, stamp, spent>>

-----------------------------------------------------------------------------
(* commitEntries *)

\* The order of the entries: YOS.md is seeded only where there is none, and a
\* refresh does not touch it.
EntryOrder ==
  IF marker # NoFile THEN <<"system", "output", "assembler">>
  ELSE IF There("YOS") THEN <<"system", "assembler", "output">>
  ELSE <<"system", "assembler", "YOS", "output">>

\* Every file is staged beside its place, the output from YOS.md as it is now.
Stage ==
  /\ writer.at = "stage"
  /\ temps' = TRUE /\ stamp' = stamp + 1
  /\ LET text == IF There("YOS") THEN file["YOS"].of ELSE 1
         ready == [writer EXCEPT !.at = "keep", !.todo = EntryOrder, !.text = text, !.txn = stamp]
     IN \/ writer' = ready /\ UNCHANGED spent
        \/ Spend("faults", MaxFaults) /\ writer' = [ready EXCEPT !.at = "undo"]
  /\ UNCHANGED <<file, bak, marker, format, release>>

\* Renames the old file to its backup.
Keep ==
  /\ writer.at = "keep" /\ writer.todo # <<>>
  /\ LET e == Head(writer.todo)
     IN IF There(e)
        THEN \/ /\ bak' = [bak EXCEPT ![e] = [of |-> file[e].of, at |-> file[e].at, txn |-> writer.txn]]
                /\ file' = [file EXCEPT ![e] = NoFile]
                /\ writer' = [writer EXCEPT !.at = "put", !.kept = <<e>> \o @] /\ UNCHANGED spent
             \/ Spend("faults", MaxFaults) /\ writer' = [writer EXCEPT !.at = "undo"]
                /\ UNCHANGED <<file, bak>>
        ELSE writer' = [writer EXCEPT !.at = "put"] /\ UNCHANGED <<file, bak, spent>>
  /\ UNCHANGED <<temps, marker, format, release, stamp>>

\* Renames the stage into place.
Put ==
  /\ writer.at = "put"
  /\ LET e == Head(writer.todo)
     IN \/ /\ file' = [file EXCEPT ![e] = [of |-> Content(e), at |-> writer.txn]]
           /\ writer' = [writer EXCEPT !.at = "keep", !.todo = Tail(@), !.put = <<e>> \o @]
           /\ UNCHANGED spent
        \/ Spend("faults", MaxFaults) /\ writer' = [writer EXCEPT !.at = "undo"] /\ UNCHANGED file
  /\ UNCHANGED <<bak, temps, marker, format, release, stamp>>

\* The marker's rename commits; its mtime does not matter.
Commit ==
  /\ writer.at = "keep" /\ writer.todo = <<>>
  /\ \/ marker' = [txn |-> writer.txn, release |-> release] /\ UNCHANGED spent
        /\ writer' = [writer EXCEPT !.at = "discard", !.put = <<>>]
     \/ Spend("faults", MaxFaults) /\ writer' = [writer EXCEPT !.at = "undo"] /\ UNCHANGED marker
  /\ UNCHANGED <<file, bak, temps, format, release, stamp>>

\* Failures to remove a backup are swallowed; the next recovery discards it.
DiscardBackup ==
  /\ writer.at = "discard" /\ writer.kept # <<>>
  /\ LET e == Head(writer.kept)
     IN \/ bak' = [bak EXCEPT ![e] = NoFile] /\ UNCHANGED spent
        \/ Spend("faults", MaxFaults) /\ UNCHANGED bak
  /\ writer' = [writer EXCEPT !.kept = Tail(@)]
  /\ UNCHANGED <<file, temps, marker, format, release, stamp>>

\* writeInstructionFormatVersion: the first installation records it, and is
\* complete without.
RecordFormat ==
  /\ writer.at = "discard" /\ writer.kept = <<>>
  /\ temps' = FALSE
  /\ \/ format' = (format \/ writer.call = "fresh") /\ UNCHANGED spent
     \/ writer.call = "fresh" /\ Spend("faults", MaxFaults) /\ UNCHANGED format
  /\ writer' = [writer EXCEPT !.at = "done"]
  /\ UNCHANGED <<file, bak, marker, release, stamp>>

\* The rollback removes what was put into place, the last first, ...
RemovePut ==
  /\ writer.at = "undo" /\ writer.put # <<>>
  /\ LET e == Head(writer.put)
         rest == [writer EXCEPT !.put = Tail(@)]
     IN \/ file' = [file EXCEPT ![e] = NoFile] /\ writer' = rest /\ UNCHANGED spent
        \/ Spend("faults", MaxFaults) /\ writer' = [rest EXCEPT !.wrong = TRUE] /\ UNCHANGED file
  /\ UNCHANGED <<bak, temps, marker, format, release, stamp>>

\* ... and restores the backups.
RestoreKept ==
  /\ writer.at = "undo" /\ writer.put = <<>> /\ writer.kept # <<>>
  /\ LET e == Head(writer.kept)
         rest == [writer EXCEPT !.kept = Tail(@)]
     IN \/ /\ file' = [file EXCEPT ![e] = [of |-> bak[e].of, at |-> bak[e].at]]
           /\ bak' = [bak EXCEPT ![e] = NoFile]
           /\ writer' = rest /\ UNCHANGED spent
        \/ Spend("faults", MaxFaults) /\ writer' = [rest EXCEPT !.wrong = TRUE]
           /\ UNCHANGED <<file, bak>>
  /\ UNCHANGED <<temps, marker, format, release, stamp>>

\* The marker's stage stays as a sign that the rollback did not succeed.
Undone ==
  /\ writer.at = "undo" /\ writer.put = <<>> /\ writer.kept = <<>>
  /\ temps' = writer.wrong
  /\ writer' = [writer EXCEPT !.at = "thrown"]
  /\ UNCHANGED <<file, bak, marker, format, release, stamp, spent>>

WriterStep ==
  Recover \/ Recovered \/ Stage \/ Keep \/ Put \/ Commit \/ DiscardBackup \/ RecordFormat
  \/ RemovePut \/ RestoreKept \/ Undone

-----------------------------------------------------------------------------
(* The command, the user and the launches *)

WriterEnds ==
  /\ writer.at \in {"done", "thrown"} /\ writer' = Idle
  /\ UNCHANGED <<file, bak, temps, marker, format, release, stamp, spent>>

WriterDies ==
  /\ writer.at # "idle" /\ Spend("deaths", MaxDeaths) /\ writer' = Idle
  /\ UNCHANGED <<file, bak, temps, marker, format, release, stamp>>

NewRelease ==
  /\ writer.at = "idle" /\ marker # NoFile /\ marker.release = release
  /\ release < MaxRelease /\ release' = release + 1
  /\ UNCHANGED <<file, bak, temps, marker, format, writer, stamp, spent>>

\* The user edits what an init has installed, not what it is installing.
UserEditsYos ==
  /\ marker # NoFile /\ There("YOS") /\ Spend("edits", MaxEdits)
  /\ stamp' = stamp + 1
  /\ file' = [file EXCEPT !["YOS"] = [of |-> @.of + 1, at |-> stamp]]
  /\ UNCHANGED <<bak, temps, marker, format, writer, release>>

NeedsRebuild ==
  There("output") => \E e \in {"system", "YOS"}: file[e].at > file["output"].at

\* buildInstructionFile, by the guardian before it launches the agent or by a
\* runtime switch; while a file is between its two names it fails.
Launch ==
  /\ marker # NoFile /\ There("system") /\ There("YOS") /\ NeedsRebuild
  /\ Spend("launches", MaxLaunches)
  /\ stamp' = stamp + 1
  /\ file' = [file EXCEPT !["output"] =
                [of |-> [system |-> file["system"].of, text |-> file["YOS"].of], at |-> stamp]]
  /\ UNCHANGED <<bak, temps, marker, format, writer, release>>

InstructionNext ==
  \/ \E call \in {"fresh", "refresh"}: BeginInstructions(call)
  \/ WriterStep \/ WriterEnds \/ WriterDies
  \/ NewRelease \/ UserEditsYos \/ Launch

InstructionSpec == InstructionInit /\ [][InstructionNext]_instructionVars

-----------------------------------------------------------------------------
(* Properties *)

\* What a file holds once the next run has recovered.
AfterRecovery(e) ==
  IF bak[e] # NoFile /\ (marker = NoFile \/ bak[e].txn # marker.txn) THEN bak[e].of
  ELSE IF There(e) THEN file[e].of ELSE 0

\* At whatever point a run dies or fails, and its rollback with it, what the next
\* run recovers is one release of all the files, that of the marker, and the
\* user's own text as it was edited last.
OneGeneration ==
  /\ marker # NoFile => \A e \in {"system", "assembler"}: AfterRecovery(e) = marker.release
  /\ marker # NoFile => AfterRecovery("YOS") = 1 + spent.edits
=============================================================================
