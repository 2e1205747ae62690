-------------------------- MODULE InstallationProof --------------------------
(***************************************************************************)
(* Proofs about the merge baseline, the upgrade lock, the commands on one  *)
(* component and the upgrade of the core, for any number of commands,      *)
(* versions, files and services and any texts of the released files.  The  *)
(* four modules share no variable: each has its own specification and its  *)
(* own invariant.                                                          *)
(***************************************************************************)
EXTENDS MergeBaseline, UpgradeLock, ComponentCommands, SelfUpgrade, TLAPS

-----------------------------------------------------------------------------
(* The merge baseline: it shows a merge one pair, never guesses and implements *)
(* AtomicBaseline.                                                           *)

\* What lies in .yos between any two filesystem calls.  Without a backup the
\* half that is not live yet tells how to complete or discard a save.
PairInv ==
  /\ backup = None /\ (tmp # None \/ staged = None) => originals = manifest
  /\ tmp = None /\ staged # None => staged = manifest
  /\ backup # None => tmp = None /\ staged = None

\* What the process knows about .yos when it is about to make a call.
StepInv ==
  /\ pc \in {"discard", "unmark"} => tmp # None
  /\ pc \in {"unmark", "undoMark", "mark"} => staged = None
  /\ pc = "undo" => tmp # None \/ staged = None
  /\ pc \in {"stage", "commit"} => tmp = target
  /\ pc = "commit" => staged = target
  /\ pc \in {"clear", "install"} \cup SwapSteps => tmp = None /\ staged # None
  /\ pc \in {"legacy", "drop", "clearBad", "restore", "merge"} => tmp = None /\ staged = None
  /\ pc = "drop" => backup # None /\ Matches(originals)
  /\ pc \in {"clearBad", "restore"} => backup # None /\ Matches(backup) /\ ~Matches(originals)
  /\ pc \in StageSteps \cup UndoSteps \cup SwapSteps \cup {"merge", "returned"} => backup = None

Inv == TypeOK /\ PairInv /\ StepInv

\* The initial states satisfy the invariant, legacy leftovers included.
LEMMA InitInv == Init => Inv
BY GenerationsAssumption DEF Init, Inv, TypeOK, PairInv, StepInv, Content, Matches,
   RecoverSteps, StageSteps, UndoSteps, SwapSteps, Answers

\* Every filesystem call, torn directory, error and crash preserves it.
LEMMA NextInv == Inv /\ [Next]_vars => Inv'
<1> SUFFICES ASSUME Inv, [Next]_vars PROVE Inv'
  OBVIOUS
<1> USE GenerationsAssumption DEF Inv, TypeOK, PairInv, StepInv, Content, Matches, files, Go,
        RecoverSteps, StageSteps, UndoSteps, SwapSteps, Answers
<1>1. CASE Sync
  BY <1>1 DEF Sync, Begin
<1>2. CASE Save
  BY <1>2 DEF Save, Begin
<1>3. CASE Uncommitted
  BY <1>3 DEF Uncommitted
<1>4. CASE RollForward
  BY <1>4 DEF RollForward
<1>5. CASE Settled
  BY <1>5 DEF Settled
<1>6. CASE Discard
  BY <1>6 DEF Discard
<1>7. CASE Unmark
  BY <1>7 DEF Unmark
<1>8. CASE Clear
  BY <1>8 DEF Clear
<1>9. CASE Install
  BY <1>9 DEF Install
<1>10. CASE NoBackup
  BY <1>10 DEF NoBackup, Recovered
<1>11. CASE BackupIsStale
  BY <1>11 DEF BackupIsStale
<1>12. CASE BackupIsRight
  BY <1>12 DEF BackupIsRight
<1>13. CASE NeitherMatches
  BY <1>13 DEF NeitherMatches, AfterError
<1>14. CASE Drop
  BY <1>14 DEF Drop, Recovered
<1>15. CASE ClearBad
  BY <1>15 DEF ClearBad
<1>16. CASE Restore
  BY <1>16 DEF Restore, Recovered
<1>17. CASE Mark
  BY <1>17 DEF Mark
<1>18. CASE Stage
  BY <1>18 DEF Stage
<1>19. CASE Commit
  BY <1>19 DEF Commit
<1>20. CASE Undo
  BY <1>20 DEF Undo
<1>21. CASE UndoMark
  BY <1>21 DEF UndoMark
<1>22. CASE SwapOut
  BY <1>22 DEF SwapOut
<1>23. CASE SwapIn
  BY <1>23 DEF SwapIn
<1>24. CASE TearStaged /\ UNCHANGED <<call, pc, target>>
  BY <1>24 DEF TearStaged
<1>25. CASE TearOriginals /\ UNCHANGED <<call, pc, target>>
  BY <1>25 DEF TearOriginals
<1>26. CASE TearBackup /\ UNCHANGED <<call, pc, target>>
  BY <1>26 DEF TearBackup
<1>27. CASE TearMarker /\ UNCHANGED <<call, pc, target>>
  BY <1>27 DEF TearMarker
<1>28. CASE IOError
  BY <1>28 DEF IOError, AfterError
<1>29. CASE Answered
  BY <1>29 DEF Answered
<1>30. CASE Crash
  BY <1>30 DEF Crash
<1>31. CASE UNCHANGED vars
  BY <1>31 DEF vars
<1> QED
  BY <1>1, <1>2, <1>3, <1>4, <1>5, <1>6, <1>7, <1>8, <1>9, <1>10, <1>11,
     <1>12, <1>13, <1>14, <1>15, <1>16, <1>17, <1>18, <1>19, <1>20, <1>21, <1>22,
     <1>23, <1>24, <1>25, <1>26, <1>27, <1>28, <1>29, <1>30, <1>31 DEF Next, Recover, SaveStep, Tear

\* The variables range over what they stand for, for any set of versions.
THEOREM BaselineTypeCorrect == Spec => []TypeOK
<1>1. Inv => TypeOK
  BY DEF Inv
<1> QED
  BY <1>1, InitInv, NextInv, PTL DEF Spec

\* A merge reads copies of the generation its manifest names, whatever was
\* interrupted before it.
THEOREM MergesSeeOnePair == Spec => []MergeSeesOnePair
<1>1. Inv => MergeSeesOnePair
  BY DEF Inv, PairInv, StepInv, MergeSeesOnePair, SwapSteps, StageSteps, UndoSteps
<1> QED
  BY <1>1, InitInv, NextInv, PTL DEF Spec

\* Where no copy matches the manifest no step touches either side.
THEOREM NeverGuesses == Spec => NothingGuessed
<1>1. Inv /\ [Next]_vars
        => [tmp = None /\ staged = None /\ backup # None /\ ~Matches(originals) /\ ~Matches(backup)
              => UNCHANGED files]_vars
  BY DEF Inv, StepInv, Next, Sync, Save, Begin, Go, Recover, SaveStep, Tear, IOError, Answered, Crash,
     Uncommitted, RollForward, Settled, Discard, Unmark, Clear, Install, NoBackup, BackupIsStale,
     BackupIsRight, NeitherMatches, Drop, ClearBad, Restore, Mark, Stage, Commit, Undo, UndoMark,
     SwapOut, SwapIn, TearStaged, TearOriginals, TearBackup, TearMarker, files, vars,
     StageSteps, UndoSteps, SwapSteps
<1> QED
  BY <1>1, InitInv, NextInv, PTL DEF Spec, NothingGuessed

\* Without a backup the pair that a recovery would leave matches.
LEMMA CopiesMatch == ASSUME Inv, backup = None PROVE Copies = manifest
BY DEF Inv, PairInv, Copies

LEMMA CopiesMatchNext == ASSUME Inv', backup' = None PROVE Copies' = manifest'
BY DEF Inv, PairInv, Copies

\* With a backup nothing is staged, and the copies are settled by matching.
LEMMA CopiesOfLegacy ==
  ASSUME Inv, Inv', backup # None, manifest' = manifest, Matches(originals) \/ Matches(backup),
         backup' = None \/ Matches(originals)' \/ Matches(backup)'
  PROVE  Copies' = Copies
<1>1. Copies = manifest
  BY DEF Inv, PairInv, Copies, Matches
<1>2. Copies' = manifest'
  BY DEF Inv, PairInv, Copies, Matches
<1> QED
  BY <1>1, <1>2

\* No step but the commit changes the manifest or the copies a recovery leaves.
LEMMA OnlyCommitChanges ==
  ASSUME Inv, Inv', [Next]_vars, ~Commit
  PROVE  manifest' = manifest /\ Copies' = Copies
<1>1. manifest' = manifest
  BY DEF Next, Sync, Save, Begin, Go, Recover, SaveStep, Tear, IOError, Answered, Crash,
     Uncommitted, RollForward, Settled, Discard, Unmark, Clear, Install, NoBackup, BackupIsStale,
     BackupIsRight, NeitherMatches, Drop, ClearBad, Restore, Mark, Stage, Undo, UndoMark,
     SwapOut, SwapIn, TearStaged, TearOriginals, TearBackup, TearMarker, files, vars
<1>2. backup = None => backup' = None
  BY DEF Inv, StepInv, Next, Sync, Save, Begin, Go, Recover, SaveStep, Tear, IOError, Answered, Crash,
     Uncommitted, RollForward, Settled, Discard, Unmark, Clear, Install, NoBackup, BackupIsStale,
     BackupIsRight, NeitherMatches, Drop, ClearBad, Restore, Mark, Stage, Undo, UndoMark,
     SwapOut, SwapIn, TearStaged, TearOriginals, TearBackup, TearMarker, files, vars
<1>3. CASE backup = None
  BY <1>1, <1>2, <1>3, CopiesMatch, CopiesMatchNext
<1>4. CASE backup # None /\ (Matches(originals) \/ Matches(backup))
  <2>1. backup' = None \/ Matches(originals)' \/ Matches(backup)'
    BY <1>1, <1>4 DEF Inv, PairInv, StepInv, Next, Sync, Save, Begin, Go, Recover, SaveStep, Tear, IOError,
       Answered, Crash, Uncommitted, RollForward, Settled, Discard, Unmark, Clear, Install, NoBackup,
       BackupIsStale, BackupIsRight, NeitherMatches, Drop, ClearBad, Restore, Mark, Stage, Undo, UndoMark,
       SwapOut, SwapIn, TearStaged, TearOriginals, TearBackup, TearMarker, files, vars, Matches,
       StageSteps, UndoSteps, SwapSteps
  <2> QED
    BY <1>1, <1>4, <2>1, CopiesOfLegacy
<1>5. CASE backup # None /\ ~Matches(originals) /\ ~Matches(backup)
  <2>1. UNCHANGED files
    BY <1>5 DEF Inv, PairInv, StepInv, Next, Sync, Save, Begin, Go, Recover, SaveStep, Tear, IOError,
       Answered, Crash, Uncommitted, RollForward, Settled, Discard, Unmark, Clear, Install, NoBackup,
       BackupIsStale, BackupIsRight, NeitherMatches, Drop, ClearBad, Restore, Mark, Stage, Undo, UndoMark,
       SwapOut, SwapIn, TearStaged, TearOriginals, TearBackup, TearMarker, files, vars,
       StageSteps, UndoSteps, SwapSteps
  <2> QED
    BY <2>1 DEF files, Copies, Matches
<1> QED
  BY <1>1, <1>3, <1>4, <1>5

LEMMA InitRefines == Init => Atomic!Init
BY DEF Init, Atomic!Init, SaveState

\* Every step maps to a step of AtomicBaseline or to a stutter.
LEMMA NextRefines == Inv /\ Inv' /\ [Next]_vars => [Atomic!Next]_Atomic!vars
<1> SUFFICES ASSUME Inv, Inv', [Next]_vars PROVE [Atomic!Next]_Atomic!vars
  OBVIOUS
<1> DEFINE pair == [manifest |-> manifest, originals |-> Copies]
<1> USE DEF RecoverSteps, StageSteps, UndoSteps, SwapSteps, Answers
<1>1. CASE Commit
  <2>1. Copies' = manifest'
    BY <1>1, CopiesMatchNext DEF Commit, Go, Inv, StepInv
  <2>2. manifest' = target
    BY <1>1 DEF Commit, Go, Inv, StepInv
  <2>3. pair' = [manifest |-> target, originals |-> target]
    BY <2>1, <2>2
  <2>4. SaveState = "open" /\ SaveState' = "committed" /\ target' = target
    BY <1>1 DEF Commit, Go, Inv, TypeOK, SaveState
  <2>5. Atomic!Commit
    BY <2>3, <2>4 DEF Atomic!Commit
  <2> QED
    BY <2>5 DEF Atomic!Next
<1>2. CASE ~Commit
  <2>1. UNCHANGED pair
    BY <1>2, OnlyCommitChanges
  <2>2. CASE Save
    <3>1. PICK g \in Generations: Begin("save", g)
      BY <2>2 DEF Save
    <3>2. SaveState = "closed" /\ SaveState' = "open" /\ target' = g
      BY <3>1 DEF Begin, SaveState, Inv, TypeOK
    <3>3. Atomic!Open(g)
      BY <2>1, <3>2 DEF Atomic!Open
    <3> QED
      BY <3>3 DEF Atomic!Next
  <2>3. ASSUME ~Save PROVE target' = target
    BY <1>2, <2>3 DEF Next, Sync, Begin, Go, Recover, SaveStep, Tear, IOError, Answered, Crash,
       Uncommitted, RollForward, Settled, Discard, Unmark, Clear, Install, NoBackup, BackupIsStale,
       BackupIsRight, NeitherMatches, Drop, ClearBad, Restore, Mark, Stage, Undo, UndoMark,
       SwapOut, SwapIn, vars
  <2>4. ASSUME ~Save
        PROVE  \/ SaveState' = SaveState
               \/ SaveState # "closed" /\ SaveState' = "closed"
               \/ SaveState = "open" /\ SaveState' = "thrown"
               \/ SaveState = "committed" /\ SaveState' = "returned"
    <3> USE <1>2, <2>4 DEF SaveState, Go, Recovered, AfterError, Inv, TypeOK
    <3>1. CASE Sync
      BY <3>1 DEF Sync, Begin
    <3>2. CASE Recover
      BY <3>2 DEF Recover, Uncommitted, RollForward, Settled, Discard, Unmark, Clear, Install, NoBackup,
         BackupIsStale, BackupIsRight, NeitherMatches, Drop, ClearBad, Restore
    <3>3. CASE SaveStep
      BY <3>3 DEF SaveStep, Mark, Stage, Undo, UndoMark, SwapOut, SwapIn
    <3>4. CASE Tear
      BY <3>4 DEF Tear
    <3>5. CASE IOError
      BY <3>5 DEF IOError
    <3>6. CASE Answered \/ Crash
      BY <3>6 DEF Answered, Crash
    <3>7. CASE UNCHANGED vars
      BY <3>7 DEF vars
    <3> QED
      BY <3>1, <3>2, <3>3, <3>4, <3>5, <3>6, <3>7 DEF Next
  <2>5. CASE ~Save
    BY <2>1, <2>3, <2>4, <2>5 DEF Atomic!Next, Atomic!Close, Atomic!Throw, Atomic!Return, Atomic!vars
  <2> QED
    BY <2>2, <2>5
<1> QED
  BY <1>1, <1>2

\* The protocol implements a baseline that changes in one instant: no error,
\* crash or repeated recovery shows another pair, and a call throws exactly
\* when the baseline has not changed.
THEOREM RefinesAtomic == Spec => ImplementsAtomic
<1> QED
  BY InitRefines, NextRefines, InitInv, NextInv, PTL DEF Spec, ImplementsAtomic, Atomic!Spec

-----------------------------------------------------------------------------
(* The upgrade lock *)

Places == {"idle", "read", "remove", "create", "fill", "holds", "check", "release", "refused"}

LockTypeOK ==
  /\ lockFile \in Commands \cup {NoLock}
  /\ filled \in BOOLEAN /\ aged \in BOOLEAN /\ disturbed \in BOOLEAN
  /\ alive \subseteq Commands
  /\ at \in [Commands -> Places]

\* While nothing was disturbed, the file that is there belongs to a living process
\* which is upgrading, whoever upgrades has his file there, and nobody is about to
\* remove a file that is not his own.
Undisturbed ==
  /\ lockFile # NoLock => lockFile \in alive /\ ~aged
  /\ \A p \in Upgrading: lockFile = p
  /\ \A p \in alive: at[p] # "remove"

LockInv == LockTypeOK /\ (~disturbed => Undisturbed)

\* lockFile, filled, aged, alive, at and disturbed only ever hold what acquireLock
\* and releaseLock put into them.
LEMMA InitLock == LockInit => LockInv
  BY LockAssumption DEF LockInit, LockInv, LockTypeOK, Undisturbed, Upgrading, Places

\* One step of a process, or of the world around it, keeps the invariant.
LEMMA StepLock == LockInv /\ [LockNext]_lockVars => LockInv'
<1> SUFFICES ASSUME LockInv, [LockNext]_lockVars PROVE LockInv'
  OBVIOUS
<1> USE LockAssumption DEF LockInv, LockTypeOK, Undisturbed, Upgrading, Places, Moves
<1>1. ASSUME NEW p \in Commands, LookForLock(p) PROVE LockInv'
  BY <1>1 DEF LookForLock
<1>2. ASSUME NEW p \in Commands, ReadLock(p) PROVE LockInv'
  BY <1>2 DEF ReadLock, Unreadable, Stale
<1>3. ASSUME NEW p \in Commands, RemoveStale(p) PROVE LockInv'
  BY <1>3 DEF RemoveStale, Unlinks
<1>4. ASSUME NEW p \in Commands, CreateLock(p) PROVE LockInv'
  <2>1. CASE lockFile = NoLock
    BY <1>4, <2>1 DEF CreateLock
  <2>2. CASE lockFile # NoLock
    BY <1>4, <2>2 DEF CreateLock
  <2>3. QED
    BY <2>1, <2>2
<1>5. ASSUME NEW p \in Commands, FillLock(p) PROVE LockInv'
  BY <1>5 DEF FillLock
<1>6. ASSUME NEW p \in Commands, LookForOwn(p) PROVE LockInv'
  BY <1>6 DEF LookForOwn
<1>7. ASSUME NEW p \in Commands, ReadOwn(p) PROVE LockInv'
  BY <1>7 DEF ReadOwn
<1>8. ASSUME NEW p \in Commands, Release(p) PROVE LockInv'
  BY <1>8 DEF Release, Unlinks
<1>9. ASSUME NEW p \in Commands, Gives(p) PROVE LockInv'
  BY <1>9 DEF Gives
<1>10. ASSUME NEW p \in Commands, LockOwnerDies(p) PROVE LockInv'
  BY <1>10 DEF LockOwnerDies
<1>11. ASSUME NEW p \in Commands, Relaunch(p) PROVE LockInv'
  BY <1>11 DEF Relaunch
<1>12. CASE TenMinutes
  BY <1>12 DEF TenMinutes
<1>13. CASE UNCHANGED lockVars
  BY <1>13 DEF lockVars
<1>14. QED
  BY <1>1, <1>2, <1>3, <1>4, <1>5, <1>6, <1>7, <1>8, <1>9, <1>10, <1>11, <1>12, <1>13
  DEF LockNext

\* Of any number of commands that upgrade one component at most one is at work,
\* as long as no lock has gone stale or was read half written or just gone.
THEOREM OneUpgrade == LockSpec => []OneUpgradeAtATime
<1>1. LockInv => OneUpgradeAtATime
  BY DEF LockInv, Undisturbed, OneUpgradeAtATime
<1>2. QED
  BY <1>1, InitLock, StepLock, PTL DEF LockSpec

-----------------------------------------------------------------------------
(* The component commands: the invariant *)

AddSteps == {"acquire", "prepare", "register", "link", "launch"}
EarlySteps == {"check", "stop", "backup"}
LateSteps == {"npm", "caddy", "hook", "start", "commit"}
UpgradeSteps == EarlySteps \cup LateSteps \cup {"merge", "record", "prune", "restore", "restart"}
RemoveSteps == {"unlaunch", "unlink", "erase", "unregister"}
Outcomes == {"none", "ok", "failed", "refused", "checked", "verified", "unrecorded"}
Errors == {"backup", "merge", "npm", "start", "commit", "restore", "restart"}

Contexts ==
  [to : Versions \cup {Missing}, mode : {"merge", "overwrite"}, before : Trees \cup {Gone},
   from : Versions \cup {Missing}, wasRunning : BOOLEAN, saved : BOOLEAN,
   todo : SUBSET Files, errors : SUBSET Errors, outcome : Outcomes]

ComponentTypeOK ==
  /\ skill \in Trees \cup {Gone}
  /\ base \in Versions \cup {Missing} /\ record \in Versions \cup {Missing}
  /\ backups \in Seq(Trees)
  /\ service \in Versions \cup {Missing, Stopped}
  /\ cmd \in {"none", "add", "upgrade", "remove"}
  /\ step \in {"idle", "ended"} \cup AddSteps \cup UpgradeSteps \cup RemoveSteps
  /\ ctx \in Contexts
  /\ adrift \in BOOLEAN

\* Which steps a command takes, and what its context holds meanwhile.
Running ==
  /\ cmd = "none" <=> step = "idle"
  /\ step \in AddSteps => cmd = "add"
  /\ step \in UpgradeSteps => cmd = "upgrade"
  /\ step \in RemoveSteps => cmd = "remove"
  /\ step \notin {"idle", "ended"} \cup RemoveSteps => ctx.to # Missing
  /\ step \in AddSteps \cup RemoveSteps \cup {"idle", "check"} =>
       ctx.before = Gone /\ ~ctx.wasRunning /\ ~ctx.saved
  /\ step # "ended" => ctx.outcome = "none"
  /\ step = "ended" => ctx.outcome # "none"
  /\ ctx.before = Gone => ~ctx.wasRunning

\* The directory and the record while a command runs that nothing went wrong before,
\* or that has made good what did.
Paired ==
  /\ step \in {"idle", "acquire", "check", "unlaunch", "unlink"} /\ ~adrift => (record # Missing) = Installed
  /\ step = "ended" /\ (~adrift \/ ctx.outcome = "ok") => (record # Missing) = Installed
  /\ step \in {"prepare", "register"} => Installed /\ record = Missing
  /\ step = "acquire" => record = Missing
  /\ step \in {"link", "launch"} => Installed /\ record # Missing
  /\ step \in UpgradeSteps => record # Missing
  /\ step = "unregister" => ~Installed
  /\ cmd = "remove" /\ Installed => record # Missing

\* From the check on an upgrade knows the directory and the baseline it began with;
\* until the backup is made the directory is untouched, then the backup has it.
Remembered ==
  /\ step \in UpgradeSteps \ {"check"} => ctx.before # Gone
  /\ ctx.before # Gone =>
       /\ Installed
       /\ IF ctx.saved THEN backups # <<>> /\ Last(backups) = ctx.before ELSE skill = ctx.before
  /\ step \in EarlySteps => ~ctx.saved
  /\ step \in {"merge", "record", "prune"} \cup LateSteps => ctx.saved

\* How far the merge is.
MergedSoFar ==
  /\ step \in UpgradeSteps \ {"check", "record", "prune"} => base = ctx.from
  /\ step \in EarlySteps => ctx.errors = {}
  /\ step = "merge" => ctx.errors \subseteq {"merge"}
  /\ step \in LateSteps \cup {"record", "prune"} => ctx.errors = {} /\ ctx.todo = {}
  /\ step \in {"merge", "record", "prune"} \cup LateSteps =>
       \A f \in Files: IF f \in ctx.todo THEN skill[f] = ctx.before[f]
                       ELSE ctx.errors = {} /\ Text[ctx.to][f] # Missing => UpToDateOrKept(f)
  /\ step \in {"record", "prune"} => base = ctx.to
  /\ step = "restart" /\ "restore" \notin ctx.errors => (ctx.saved => skill = ctx.before)

\* The service after it was started again.
Restarted ==
  step \in {"commit", "record", "prune"} /\ ctx.wasRunning =>
    VersionOf # Missing /\ service = VersionOf

ComponentInv ==
  /\ ComponentTypeOK /\ Running /\ Paired /\ Remembered /\ MergedSoFar /\ Restarted
  /\ RunsAgain /\ BaselineFitsFiles


LEMMA LastAppended ==
  ASSUME NEW S, NEW q \in Seq(S), NEW x \in S
  PROVE  Append(q, x) \in Seq(S) /\ Append(q, x) # <<>> /\ Last(Append(q, x)) = x
<1>1. Len(Append(q, x)) = Len(q) + 1 /\ Append(q, x)[Len(q) + 1] = x
  OBVIOUS
<1> QED BY <1>1 DEF Last

LEMMA LastKept ==
  ASSUME NEW S, NEW q \in Seq(S), q # <<>>
  PROVE  Last(q) \in S /\ <<Last(q)>> \in Seq(S) /\ Last(<<Last(q)>>) = Last(q)
<1>1. Len(q) \in DOMAIN q
  OBVIOUS
<1>2. \A U : \A s \in Seq(U) : \A i \in DOMAIN s : s[i] \in U
  OBVIOUS
<1>3. Last(q) \in S
  BY <1>1, <1>2 DEF Last
<1> DEFINE x == Last(q)
<1> HIDE DEF x
<1>4. \A U : \A u \in U : <<u>> \in Seq(U) /\ <<u>>[Len(<<u>>)] = u
  OBVIOUS
<1> QED BY <1>3, <1>4 DEF Last, x

-----------------------------------------------------------------------------
(* What the steps do to the context *)

\* d differs from c in what is to be merged, the errors and the outcome at most.
Alike(c, d) ==
  /\ d.to = c.to /\ d.mode = c.mode /\ d.before = c.before /\ d.from = c.from
  /\ d.wasRunning = c.wasRunning /\ d.saved = c.saved

LEMMA OutcomeChange ==
  ASSUME NEW c \in Contexts, NEW o \in Outcomes
  PROVE  LET d == [c EXCEPT !.outcome = o]
         IN d \in Contexts /\ Alike(c, d) /\ d.outcome = o /\ d.errors = c.errors /\ d.todo = c.todo
BY DEF Contexts, Alike

LEMMA ErrorChange ==
  ASSUME NEW c \in Contexts, NEW e \in Errors
  PROVE  LET d == [c EXCEPT !.errors = @ \cup {e}]
         IN /\ d \in Contexts /\ Alike(c, d) /\ d.outcome = c.outcome
            /\ d.errors = c.errors \cup {e} /\ d.todo = c.todo
BY DEF Contexts, Alike

LEMMA TodoChange ==
  ASSUME NEW c \in Contexts, NEW f
  PROVE  /\ LET d == [c EXCEPT !.todo = @ \ {f}]
            IN /\ d \in Contexts /\ Alike(c, d) /\ d.outcome = c.outcome
               /\ d.errors = c.errors /\ d.todo = c.todo \ {f}
         /\ LET d == [c EXCEPT !.todo = @ \ {f}, !.errors = @ \cup {"merge"}]
            IN /\ d \in Contexts /\ Alike(c, d) /\ d.outcome = c.outcome
               /\ d.errors = c.errors \cup {"merge"} /\ d.todo = c.todo \ {f}
BY DEF Contexts, Alike, Errors

LEMMA RestartChange ==
  ASSUME NEW c \in Contexts
  PROVE  LET d == [c EXCEPT !.outcome = "failed", !.errors = @ \cup {"restart"}]
         IN /\ d \in Contexts /\ Alike(c, d) /\ d.outcome = "failed"
            /\ d.errors = c.errors \cup {"restart"} /\ d.todo = c.todo
BY DEF Contexts, Alike, Errors, Outcomes

LEMMA ContextBegins ==
  /\ NoContext \in Contexts /\ NoContext.before = Gone /\ NoContext.outcome = "none"
  /\ ~NoContext.wasRunning /\ ~NoContext.saved /\ NoContext.errors = {}
  /\ \A v \in Versions, m \in {"merge", "overwrite"} :
       LET d == [NoContext EXCEPT !.to = v, !.mode = m]
       IN /\ d \in Contexts /\ d.to = v /\ d.before = Gone /\ d.outcome = "none"
          /\ ~d.wasRunning /\ ~d.saved /\ d.errors = {}
  /\ \A v \in Versions :
       LET d == [NoContext EXCEPT !.to = v]
       IN /\ d \in Contexts /\ d.to = v /\ d.before = Gone /\ d.outcome = "none"
          /\ ~d.wasRunning /\ ~d.saved /\ d.errors = {}
BY ZenonT(60) DEF NoContext, Contexts, Outcomes

\* The context after a step that ends the command, and after one that fails.
LEMMA EndsEffect ==
  ASSUME ctx \in Contexts, NEW from, NEW o \in Outcomes, Ends(from, o)
  PROVE  /\ step = from /\ step' = "ended" /\ cmd' = cmd /\ adrift' = adrift
         /\ ctx' \in Contexts /\ Alike(ctx, ctx') /\ ctx'.outcome = o
         /\ ctx'.errors = ctx.errors /\ ctx'.todo = ctx.todo
BY OutcomeChange DEF Ends, Step

LEMMA BreaksOffEffect ==
  ASSUME ctx \in Contexts, NEW from, NEW o \in Outcomes, BreaksOff(from, o)
  PROVE  /\ step = from /\ step' = "ended" /\ cmd' = cmd /\ adrift' = TRUE
         /\ ctx' \in Contexts /\ Alike(ctx, ctx') /\ ctx'.outcome = o
         /\ ctx'.errors = ctx.errors /\ ctx'.todo = ctx.todo
BY OutcomeChange DEF BreaksOff

LEMMA FailsEffect ==
  ASSUME ctx \in Contexts, NEW from \in Errors, Fails(from)
  PROVE  /\ step = from /\ step' = "restore" /\ cmd' = cmd /\ adrift' = adrift
         /\ ctx' \in Contexts /\ Alike(ctx, ctx') /\ ctx'.outcome = ctx.outcome
         /\ ctx'.errors = ctx.errors \cup {from}
BY ErrorChange DEF Fails, Step

LEMMA ProceedEffect ==
  ASSUME ctx \in Contexts, skill \in Trees, base \in Versions \cup {Missing}, Proceed
  PROVE  /\ step = "check" /\ step' = "stop" /\ UNCHANGED <<cmd, adrift, skill, base, backups, record, service>>
         /\ ctx' \in Contexts /\ ctx'.to = ctx.to /\ ctx'.before = skill /\ ctx'.from = base
         /\ ctx'.wasRunning = ctx.wasRunning /\ ctx'.saved = ctx.saved
         /\ ctx'.errors = ctx.errors /\ ctx'.outcome = ctx.outcome
<1>1. ctx' = [ctx EXCEPT !.before = skill, !.from = base]
  BY DEF Proceed
<1>2. /\ ctx' \in Contexts /\ ctx'.to = ctx.to /\ ctx'.before = skill /\ ctx'.from = base
      /\ ctx'.wasRunning = ctx.wasRunning /\ ctx'.saved = ctx.saved
      /\ ctx'.errors = ctx.errors /\ ctx'.outcome = ctx.outcome
  BY <1>1 DEF Contexts
<1> QED BY <1>2 DEF Proceed, Step, installed

LEMMA StopEffect ==
  ASSUME ctx \in Contexts, StopForUpgrade
  PROVE  /\ step = "stop" /\ step' = "backup" /\ UNCHANGED <<cmd, adrift, skill, base, backups, record>>
         /\ service' \in {Stopped, service}
         /\ ctx' \in Contexts /\ ctx'.to = ctx.to /\ ctx'.before = ctx.before /\ ctx'.from = ctx.from
         /\ ctx'.saved = ctx.saved /\ ctx'.errors = ctx.errors /\ ctx'.outcome = ctx.outcome
<1> DEFINE on == Online
<1>1. on \in BOOLEAN
  BY DEF Online
<1>2. ctx' = ctx \/ ctx' = [ctx EXCEPT !.wasRunning = on]
  BY DEF StopForUpgrade
<1> HIDE DEF on
<1>3. /\ ctx' \in Contexts /\ ctx'.to = ctx.to /\ ctx'.before = ctx.before /\ ctx'.from = ctx.from
      /\ ctx'.saved = ctx.saved /\ ctx'.errors = ctx.errors /\ ctx'.outcome = ctx.outcome
  BY <1>1, <1>2 DEF Contexts
<1> QED BY <1>3 DEF StopForUpgrade, Step

LEMMA BackUpEffect ==
  ASSUME ctx \in Contexts, BackUp
  PROVE  /\ step = "backup" /\ step' = "merge" /\ UNCHANGED <<cmd, adrift, skill, base, record, service>>
         /\ backups' = Append(backups, skill)
         /\ ctx' \in Contexts /\ ctx'.to = ctx.to /\ ctx'.before = ctx.before /\ ctx'.from = ctx.from
         /\ ctx'.wasRunning = ctx.wasRunning /\ ctx'.saved /\ ctx'.todo = Files
         /\ ctx'.errors = ctx.errors /\ ctx'.outcome = ctx.outcome
<1>1. ctx' = [ctx EXCEPT !.saved = TRUE, !.todo = Files]
  BY DEF BackUp
<1>2. /\ ctx' \in Contexts /\ ctx'.to = ctx.to /\ ctx'.before = ctx.before /\ ctx'.from = ctx.from
      /\ ctx'.wasRunning = ctx.wasRunning /\ ctx'.saved /\ ctx'.todo = Files
      /\ ctx'.errors = ctx.errors /\ ctx'.outcome = ctx.outcome
  BY <1>1 DEF Contexts
<1> QED BY <1>2 DEF BackUp, Step

LEMMA TreeFacts ==
  /\ Gone \notin Trees
  /\ \A t \in Trees, f \in Files : t[f] \in Contents \cup {Missing}
  /\ \A t \in Trees, f \in Files, c \in Contents \cup {Missing} :
       /\ [t EXCEPT ![f] = c] \in Trees /\ [t EXCEPT ![f] = c][f] = c
       /\ \A g \in Files \ {f} : [t EXCEPT ![f] = c][g] = t[g]
  /\ \A t \in Trees : CutShort(t) \subseteq Trees
  /\ \A c \in Contents : c # Missing /\ c.text \in Versions /\ c.edited \in BOOLEAN
BY ComponentAssumption DEF Trees, Contents, CutShort

LEMMA PristineIsTree ==
  ASSUME NEW v \in Versions
  PROVE  Pristine(v) \in Trees
<1>1. \A f \in Files : Text[v][f] \in Versions \cup {Missing}
  BY ComponentAssumption
<1>2. \A f \in Files : Text[v][f] # Missing => [text |-> Text[v][f], edited |-> FALSE] \in Contents
  <2> TAKE f \in Files
  <2> HAVE Text[v][f] # Missing
  <2>1. Text[v][f] \in Versions
    BY <1>1
  <2> DEFINE x == Text[v][f]
  <2> HIDE DEF x
  <2>2. x \in Versions
    BY <2>1 DEF x
  <2>3. [text |-> x, edited |-> FALSE] \in Contents
    BY <2>2 DEF Contents
  <2> QED BY <2>3 DEF x
<1> QED BY <1>2 DEF Pristine, Trees

LEMMA VersionFacts ==
  ASSUME skill \in Trees \cup {Gone}
  PROVE  VersionOf \in Versions \cup {Missing} /\ (VersionOf # Missing => Installed)
BY ComponentAssumption DEF Trees, Contents, VersionOf, Installed

LEMMA AddStep ==
  ASSUME ComponentInv, AddNext
  PROVE  ComponentInv'
<1> USE ComponentAssumption DEF ComponentInv, ComponentTypeOK, installed, AddSteps, EarlySteps, LateSteps,
      UpgradeSteps, RemoveSteps, Running, Paired, Remembered, MergedSoFar, Restarted, RunsAgain, BaselineFitsFiles
<1>0. {"failed", "ok", "refused", "unrecorded"} \subseteq Outcomes
  BY DEF Outcomes
<1>1. ASSUME NEW o \in Outcomes, NEW from \in AddSteps, Ends(from, o),
             skill' \in Trees \cup {Gone}, base' \in Versions \cup {Missing}, backups' \in Seq(Trees),
             record' \in Versions \cup {Missing}, service' \in Versions \cup {Missing, Stopped},
             (record' # Missing) = Installed' \/ (adrift /\ o # "ok"), o # "none"
      PROVE  ComponentInv'
  BY <1>1, EndsEffect DEF Alike
<1>10. ASSUME NEW o \in {"failed", "unrecorded"}, NEW from \in AddSteps, BreaksOff(from, o),
              skill' \in Trees \cup {Gone}, base' \in Versions \cup {Missing}, backups' \in Seq(Trees),
              record' \in Versions \cup {Missing}, service' \in Versions \cup {Missing, Stopped}
       PROVE  ComponentInv'
  BY <1>0, <1>10, BreaksOffEffect DEF Alike
<1>2. CASE DirectoryInTheWay \/ AcquireFails
  <2>1. CASE BreaksOff("acquire", "failed") /\ skill' \in CutShort(Pristine(ctx.to))
             /\ UNCHANGED <<base, backups, record, service>>
    <3>1. ctx.to \in Versions
      BY <2>1 DEF Contexts, BreaksOff
    <3>2. skill' \in Trees
      BY <2>1, <3>1, PristineIsTree, TreeFacts
    <3> QED BY <1>10, <2>1, <3>2
  <2>2. CASE (Ends("acquire", "refused") \/ Ends("acquire", "failed")) /\ UNCHANGED installed
    <3>1. step = "acquire" /\ UNCHANGED installed
      BY <2>2 DEF Ends, Step
    <3>2. (record' # Missing) = Installed' \/ adrift
      BY <3>1 DEF Installed
    <3> QED BY <1>0, <1>1, <2>2, <3>1, <3>2
  <2> QED BY <1>2, <2>1, <2>2 DEF DirectoryInTheWay, AcquireFails
<1>3. CASE Acquire
  <2>1. /\ step = "acquire" /\ step' = "prepare" /\ UNCHANGED <<cmd, adrift, backups, record, service, ctx>>
        /\ skill' = Pristine(ctx.to) /\ base' \in {ctx.to, Missing}
    BY <1>3 DEF Acquire, Step
  <2>2. ctx.to \in Versions
    BY <2>1 DEF Contexts
  <2>3. skill' \in Trees
    BY <2>1, <2>2, PristineIsTree
  <2>4. Installed'
    BY <2>3, TreeFacts DEF Installed
  <2> QED BY <2>1, <2>2, <2>3, <2>4
<1>4. CASE Prepare
  BY <1>4 DEF Prepare, Step, Installed
<1>5. CASE Hand
  <2>1. Ends("prepare", "ok") /\ step = "prepare" /\ record' = ctx.to /\ UNCHANGED <<skill, base, backups, service>>
    BY <1>5 DEF Hand, Ends, Step
  <2>2. record' \in Versions
    BY <2>1 DEF Contexts
  <2> QED BY <1>0, <1>1, <2>1, <2>2 DEF Installed
<1>6. CASE PrepareFails \/ RegisterFails
  <2>1. PICK from \in {"prepare", "register"} : UndoInstall(from)
    BY <1>6 DEF PrepareFails, RegisterFails
  <2>2. CASE Ends(from, "failed") /\ RemoveDirectory /\ UNCHANGED <<record, service>>
    <3>1. step = from /\ skill' = Gone /\ base' = Missing /\ backups' = <<>>
      BY <2>2 DEF RemoveDirectory, Ends, Step
    <3> QED BY <1>0, <1>1, <2>1, <2>2, <3>1 DEF Installed
  <2>3. CASE BreaksOff(from, "failed") /\ RemoveSome /\ UNCHANGED <<record, service>>
    <3>1. skill \in Trees
      BY <2>1, <2>3 DEF BreaksOff, Installed
    <3>2. skill' \in Trees /\ base' \in {base, Missing} /\ backups' \in {backups, <<>>}
      BY <2>3, <3>1, TreeFacts DEF RemoveSome
    <3>3. <<>> \in Seq(Trees)
      OBVIOUS
    <3>4. from \in AddSteps /\ base' \in Versions \cup {Missing} /\ backups' \in Seq(Trees)
      BY <2>1, <3>2, <3>3
    <3> QED BY <1>10, <2>3, <3>2, <3>4
  <2> QED BY <2>1, <2>2, <2>3 DEF UndoInstall
<1>11. CASE LeftUnrecorded
  BY <1>10, <1>11 DEF LeftUnrecorded
<1>7. CASE Register
  <2>1. /\ step = "register" /\ step' = "link" /\ record' = ctx.to
        /\ UNCHANGED <<cmd, adrift, skill, base, backups, service, ctx>>
    BY <1>7 DEF Register, Step
  <2>2. record' \in Versions
    BY <2>1 DEF Contexts
  <2> QED BY <2>1, <2>2 DEF Installed
<1>8. CASE LinkAndRoute
  <2>1. step = "link" /\ UNCHANGED <<skill, base, backups, service>>
    BY <1>8 DEF LinkAndRoute, SaveThrows, BreaksOff, Ends, Step
  <2>2. CASE Ends("link", "failed") /\ UNCHANGED record
    BY <1>0, <1>1, <2>1, <2>2 DEF Installed
  <2>3. CASE Step("link", "launch") /\ UNCHANGED <<ctx, record>>
    BY <2>1, <2>3 DEF Step, Installed
  <2>4. CASE BreaksOff("link", "failed") /\ record' = Missing
    BY <1>10, <2>1, <2>4
  <2> QED BY <1>8, <2>2, <2>3, <2>4 DEF LinkAndRoute, SaveThrows
<1>9. CASE Launch
  <2>1. /\ Ends("launch", "ok") /\ step = "launch" /\ UNCHANGED <<skill, base, backups, record>>
        /\ service' \in {service} \cup {Missing, ctx.to, Stopped}
    BY <1>9 DEF Launch, RegisterService, SettledAs, Ends, Step
  <2>2. ctx.to \in Versions
    BY <2>1 DEF Contexts
  <2> QED BY <1>0, <1>1, <2>1, <2>2 DEF Installed
<1> QED BY <1>2, <1>3, <1>4, <1>5, <1>6, <1>7, <1>8, <1>9, <1>11 DEF AddNext

\* A step of an upgrade that takes the directory, the baseline and the record as they
\* are, and only ends the command before the upgrade began.
LEMMA CheckStep ==
  ASSUME ComponentInv, CheckOnly \/ UpToDate \/ NotFetched \/ NotConfirmed \/ Proceed
  PROVE  ComponentInv'
<1> USE ComponentAssumption DEF ComponentInv, ComponentTypeOK, installed, AddSteps, EarlySteps, LateSteps,
      UpgradeSteps, RemoveSteps, Running, Paired, Remembered, MergedSoFar, Restarted, RunsAgain, BaselineFitsFiles
<1>1. ASSUME NEW o \in {"checked", "verified", "refused"}, Ends("check", o), UNCHANGED installed
      PROVE  ComponentInv'
  <2>1. o \in Outcomes /\ o # "none" /\ o # "ok"
    BY DEF Outcomes
  <2> QED BY <1>1, <2>1, EndsEffect DEF Alike, Installed
<1>2. CASE Proceed
  <2>1. Installed
    BY <1>2, VersionFacts DEF Proceed, HasUpdate
  <2>2. skill \in Trees /\ skill # Gone
    BY <2>1 DEF Installed
  <2> QED BY <1>2, <2>1, <2>2, ProceedEffect DEF Installed
<1> QED BY <1>1, <1>2 DEF CheckOnly, UpToDate, RepairVerdicts, NotFetched, NotConfirmed

\* Before the merge the directory stays as it was found.
LEMMA EarlyStep ==
  ASSUME ComponentInv, StopForUpgrade \/ BackUp \/ BackupFails
  PROVE  ComponentInv'
<1> USE ComponentAssumption DEF ComponentInv, ComponentTypeOK, installed, AddSteps, EarlySteps, LateSteps,
      UpgradeSteps, RemoveSteps, Running, Paired, Remembered, MergedSoFar, Restarted, RunsAgain, BaselineFitsFiles
<1>1. CASE StopForUpgrade
  <2>1. step = "stop" /\ ctx'.before # Gone
    BY <1>1, StopEffect
  <2> QED BY <1>1, <2>1, StopEffect DEF Installed
<1>2. CASE BackUp
  <2>1. skill \in Trees /\ skill = ctx.before /\ ctx.before # Gone
    BY <1>2, BackUpEffect DEF Installed
  <2>2. backups' \in Seq(Trees) /\ backups' # <<>> /\ Last(backups') = skill
    <3>1. backups' = Append(backups, skill) /\ backups \in Seq(Trees)
      BY <1>2, BackUpEffect
    <3>2. \A q \in Seq(Trees), x \in Trees :
            Append(q, x) \in Seq(Trees) /\ Append(q, x) # <<>> /\ Last(Append(q, x)) = x
      BY LastAppended
    <3> QED BY <2>1, <3>1, <3>2
  <2> QED BY <1>2, <2>1, <2>2, BackUpEffect DEF Installed
<1>3. CASE BackupFails
  <2>1. Fails("backup") /\ UNCHANGED <<skill, base, backups, record, service>>
    BY <1>3 DEF BackupFails
  <2>2. "backup" \in Errors
    BY DEF Errors
  <2> QED BY <2>1, <2>2, FailsEffect DEF Alike, Installed
<1> QED BY <1>1, <1>2, <1>3

\* What the merge may leave in a file that the new version has.
LEMMA VerdictFits ==
  ASSUME NEW f \in Files, ctx.to \in Versions, skill \in Trees, base \in Versions \cup {Missing},
         Text[ctx.to][f] # Missing, NEW c \in Verdict(f)
  PROVE  /\ c \in Contents
         /\ c.text = Text[ctx.to][f]
            \/ (base # Missing /\ Text[base][f] = Text[ctx.to][f] /\ c = skill[f])
<1> DEFINE t == Text[ctx.to][f]
           m == ctx.mode = "overwrite"
<1>1. t \in Versions
  <2>1. Text[ctx.to][f] \in Versions \cup {Missing}
    BY ComponentAssumption
  <2> QED BY <2>1
<1>2. skill[f] # Missing => skill[f] \in Contents /\ skill[f].edited \in BOOLEAN
  BY TreeFacts
<1>3. \/ c = [text |-> t, edited |-> FALSE]
      \/ c = [[text |-> t, edited |-> FALSE] EXCEPT !.edited = skill[f].edited] /\ skill[f] # Missing
      \/ c = skill[f] /\ skill[f] # Missing /\ base # Missing /\ Text[ctx.to][f] = Text[base][f]
  <2>1. CASE skill[f] = Missing \/ m \/ ~Known(f) \/ skill[f] = Saved(f)
    BY <2>1 DEF Verdict, New
  <2>2. CASE ~(skill[f] = Missing \/ m \/ ~Known(f) \/ skill[f] = Saved(f)) /\ Text[ctx.to][f] = Text[base][f]
    BY <2>2 DEF Verdict, Known
  <2>3. CASE ~(skill[f] = Missing \/ m \/ ~Known(f) \/ skill[f] = Saved(f)) /\ Text[ctx.to][f] # Text[base][f]
    BY <2>3 DEF Verdict, New
  <2> QED BY <2>1, <2>2, <2>3
<1> HIDE DEF t
<1>4. CASE c = [text |-> t, edited |-> FALSE]
  <2>1. c \in Contents /\ c.text = t
    BY <1>1, <1>4 DEF Contents
  <2> QED BY <2>1 DEF t
<1>5. CASE c = [[text |-> t, edited |-> FALSE] EXCEPT !.edited = skill[f].edited] /\ skill[f] # Missing
  <2>1. c \in Contents /\ c.text = t
    BY <1>1, <1>2, <1>5 DEF Contents
  <2> QED BY <2>1 DEF t
<1> QED BY <1>2, <1>3, <1>4, <1>5

LEMMA MergeStep ==
  ASSUME ComponentInv, NEW f \in Files, MergeFile(f)
  PROVE  ComponentInv'
<1> USE ComponentAssumption DEF ComponentInv, ComponentTypeOK, installed, AddSteps, EarlySteps, LateSteps,
      UpgradeSteps, RemoveSteps, Running, Paired, Remembered, MergedSoFar, Restarted, RunsAgain, BaselineFitsFiles
<1>1. /\ step = "merge" /\ step' = "merge" /\ f \in ctx.todo
      /\ UNCHANGED <<cmd, adrift, base, backups, record, service>>
  BY DEF MergeFile, Step
<1>2. ctx.to \in Versions /\ ctx.before \in Trees /\ skill \in Trees /\ skill[f] = ctx.before[f] /\ base = ctx.from
  BY <1>1 DEF Contexts, Installed
<1>3. CASE ctx' = [ctx EXCEPT !.todo = @ \ {f}, !.errors = @ \cup {"merge"}] /\ UNCHANGED skill
  <2>1. /\ ctx' \in Contexts /\ Alike(ctx, ctx') /\ ctx'.outcome = ctx.outcome
        /\ ctx'.todo = ctx.todo \ {f} /\ ctx'.errors = ctx.errors \cup {"merge"}
    BY <1>3, TodoChange
  <2> QED BY <1>1, <1>2, <1>3, <2>1 DEF Alike, Installed
<1>4. CASE /\ skill' \in {[skill EXCEPT ![f] = c] :
                              c \in IF Text[ctx.to][f] = Missing THEN VerdictOnDropped(f) ELSE Verdict(f)}
           /\ ctx' = [ctx EXCEPT !.todo = @ \ {f}]
  <2>1. /\ ctx' \in Contexts /\ Alike(ctx, ctx') /\ ctx'.outcome = ctx.outcome
        /\ ctx'.todo = ctx.todo \ {f} /\ ctx'.errors = ctx.errors
    BY <1>4, TodoChange
  <2>2. PICK c \in IF Text[ctx.to][f] = Missing THEN VerdictOnDropped(f) ELSE Verdict(f) :
          skill' = [skill EXCEPT ![f] = c]
    BY <1>4
  <2>3. skill[f] \in Contents \cup {Missing}
    BY <1>2, TreeFacts
  <2>4. /\ c \in Contents \cup {Missing}
        /\ Text[ctx.to][f] # Missing =>
             /\ c # Missing
             /\ c.text = Text[ctx.to][f]
                \/ (base # Missing /\ Text[base][f] = Text[ctx.to][f] /\ c = skill[f])
    <3>1. CASE Text[ctx.to][f] = Missing
      BY <2>2, <2>3, <3>1 DEF VerdictOnDropped
    <3>2. CASE Text[ctx.to][f] # Missing
      <4>1. c \in Verdict(f)
        BY <2>2, <3>2
      <4> QED BY <1>2, <3>2, <4>1, VerdictFits, TreeFacts
    <3> QED BY <3>1, <3>2
  <2>5. skill' \in Trees /\ skill'[f] = c /\ \A g \in Files \ {f} : skill'[g] = skill[g]
    <3>1. skill \in Trees /\ c \in Contents \cup {Missing} /\ skill' = [skill EXCEPT ![f] = c]
      BY <1>2, <2>2, <2>4
    <3> HIDE DEF ComponentInv
    <3> QED BY <3>1 DEF Trees
  <2>6. skill' # Gone
    BY <2>5, TreeFacts
  <2>7. \A g \in Files: IF g \in ctx'.todo THEN skill'[g] = ctx'.before[g]
                         ELSE ctx'.errors = {} /\ Text[ctx'.to][g] # Missing => UpToDateOrKept(g)'
    <3> TAKE g \in Files
    <3>1. CASE g = f
      BY <1>2, <2>1, <2>4, <2>5, <3>1 DEF UpToDateOrKept, Alike
    <3>2. CASE g # f
      BY <1>1, <1>2, <2>1, <2>5, <3>2 DEF UpToDateOrKept, Alike
    <3> QED BY <3>1, <3>2
  <2> QED BY <1>1, <1>2, <2>1, <2>5, <2>6, <2>7 DEF Alike, Installed
<1> QED BY <1>3, <1>4 DEF MergeFile

\* The steps between the merge and the new baseline.
LEMMA LateStep ==
  ASSUME ComponentInv, Merged \/ NpmInstall \/ UpdateRoutes \/ RunPostUpgradeHook \/ StartService \/ CommitBaseline
  PROVE  ComponentInv'
<1> USE ComponentAssumption DEF ComponentInv, ComponentTypeOK, installed, AddSteps, EarlySteps, LateSteps,
      UpgradeSteps, RemoveSteps, Running, Paired, Remembered, MergedSoFar, Restarted, RunsAgain, BaselineFitsFiles
<1>0. {"merge", "npm", "start", "commit"} \subseteq Errors
  BY DEF Errors
<1>1. ASSUME NEW from \in {"merge", "npm", "start", "commit"}, Fails(from),
             UNCHANGED <<skill, base, backups, record>>, service' \in {service, Missing}
      PROVE  ComponentInv'
  BY <1>0, <1>1, FailsEffect DEF Alike, Installed
<1>2. ASSUME NEW from \in {"merge", "npm", "caddy", "hook"}, NEW to \in LateSteps, Step(from, to),
             to # "commit", from = "merge" => ctx.todo = {} /\ "merge" \notin ctx.errors,
             UNCHANGED <<skill, base, backups, record, service, ctx>>
      PROVE  ComponentInv'
  BY <1>2 DEF Step, Installed, UpToDateOrKept
<1>3. CASE StartService
  <2>1. CASE Step("start", "commit")
    <3>1. /\ step = "start" /\ step' = "commit" /\ UNCHANGED <<cmd, adrift, skill, base, backups, record, ctx>>
          /\ IF ctx.wasRunning THEN VersionOf # Missing /\ service' = VersionOf ELSE service' = service
      BY <1>3, <2>1 DEF StartService, Step, Fails
    <3>2. VersionOf' = VersionOf /\ VersionOf \in Versions \cup {Missing}
      BY <3>1, VersionFacts DEF VersionOf, Installed
    <3> QED BY <3>1, <3>2 DEF Installed, UpToDateOrKept
  <2> QED BY <1>1, <1>3, <2>1 DEF StartService
<1>4. CASE CommitBaseline
  <2>1. CASE /\ step = "commit" /\ step' = "record" /\ base' = ctx.to
             /\ UNCHANGED <<cmd, adrift, skill, backups, record, service, ctx>>
    <3>1. VersionOf' = VersionOf
      BY <2>1 DEF VersionOf, Installed
    <3>2. ctx.to \in Versions
      BY <2>1 DEF Contexts
    <3> QED BY <2>1, <3>1, <3>2 DEF Installed, UpToDateOrKept
  <2> QED BY <1>1, <1>4, <2>1 DEF CommitBaseline, Step
<1> QED BY <1>1, <1>2, <1>3, <1>4 DEF Merged, NpmInstall, UpdateRoutes, RunPostUpgradeHook

\* The steps after the new baseline: the record and the old backups.
LEMMA LastStep ==
  ASSUME ComponentInv, UpdateRecord \/ Prune
  PROVE  ComponentInv'
<1> USE ComponentAssumption DEF ComponentInv, ComponentTypeOK, installed, AddSteps, EarlySteps, LateSteps,
      UpgradeSteps, RemoveSteps, Running, Paired, Remembered, MergedSoFar, Restarted, RunsAgain, BaselineFitsFiles
<1>0. {"ok", "unrecorded"} \subseteq Outcomes
  BY DEF Outcomes
<1>1. /\ step \in {"record", "prune"} /\ skill' = skill /\ base' = base /\ service' = service
      /\ Installed /\ ctx.to \in Versions
  BY DEF UpdateRecord, SaveThrows, BreaksOff, Prune, Ends, Step, Contexts, Installed
<1>2. VersionOf' = VersionOf /\ VersionOf \in Versions
  <2>1. UpToDateOrKept(SkillMd)
    BY <1>1
  <2>2. skill[SkillMd] # Missing
    BY <2>1 DEF UpToDateOrKept
  <2>3. VersionOf # Missing
    <3>1. skill[SkillMd] \in Contents
      BY <1>1, <2>2, TreeFacts DEF Installed
    <3>2. skill[SkillMd].text \in Versions
      BY <3>1, TreeFacts
    <3> QED BY <1>1, <2>2, <3>2 DEF VersionOf
  <2> QED BY <1>1, <2>3, VersionFacts DEF VersionOf, Installed
<1>3. CASE UpdateRecord
  <2>1. CASE Step("record", "prune") /\ record' = VersionOf /\ UNCHANGED <<backups, ctx>>
    BY <1>1, <1>2, <2>1 DEF Step, Installed, UpToDateOrKept
  <2>2. CASE Ends("record", "unrecorded") /\ UNCHANGED <<record, backups>>
    <3>1. /\ step = "record" /\ step' = "ended" /\ cmd' = cmd /\ adrift' = adrift /\ UNCHANGED <<record, backups>>
          /\ ctx' \in Contexts /\ Alike(ctx, ctx') /\ ctx'.outcome = "unrecorded"
          /\ ctx'.errors = ctx.errors /\ ctx'.todo = ctx.todo
      BY <1>0, <2>2, EndsEffect
    <3> QED BY <1>1, <1>2, <3>1 DEF Alike, Installed, UpToDateOrKept, Online
  <2>3. CASE BreaksOff("record", "unrecorded") /\ record' = Missing /\ UNCHANGED backups
    <3>1. /\ step = "record" /\ step' = "ended" /\ cmd' = cmd /\ adrift' = TRUE
          /\ ctx' \in Contexts /\ Alike(ctx, ctx') /\ ctx'.outcome = "unrecorded"
          /\ ctx'.errors = ctx.errors /\ ctx'.todo = ctx.todo
      BY <1>0, <2>3, BreaksOffEffect
    <3> QED BY <1>1, <1>2, <2>3, <3>1 DEF Alike, Installed, UpToDateOrKept, Online
  <2> QED BY <1>3, <2>1, <2>2, <2>3 DEF UpdateRecord, SaveThrows
<1>4. CASE Prune
  <2>1. /\ step = "prune" /\ step' = "ended" /\ cmd' = cmd /\ adrift' = adrift /\ record' = record
        /\ ctx' \in Contexts /\ Alike(ctx, ctx') /\ ctx'.outcome = "ok"
        /\ ctx'.errors = ctx.errors /\ ctx'.todo = ctx.todo
    BY <1>0, <1>4, EndsEffect DEF Prune
  <2>2. backups' \in Seq(Trees) /\ backups' # <<>> /\ Last(backups') = ctx.before
    <3>1. backups \in Seq(Trees) /\ backups # <<>> /\ backups' = <<Last(backups)>> /\ Last(backups) = ctx.before
      BY <1>4, <2>1 DEF Prune
    <3>2. \A q \in Seq(Trees) : q # <<>> => <<Last(q)>> \in Seq(Trees) /\ Last(<<Last(q)>>) = Last(q)
      BY LastKept
    <3>3. backups' # <<>>
      BY <3>1
    <3> QED BY <3>1, <3>2, <3>3
  <2> QED BY <1>1, <1>2, <2>1, <2>2 DEF Alike, Installed, UpToDateOrKept, Online
<1> QED BY <1>3, <1>4

\* A copy that fails is reported, so only a whole one has to give the old files back.
LEMMA RollbackStep ==
  ASSUME ComponentInv, RestoreFiles \/ RestartService
  PROVE  ComponentInv'
<1> USE ComponentAssumption DEF ComponentInv, ComponentTypeOK, installed, AddSteps, EarlySteps, LateSteps,
      UpgradeSteps, RemoveSteps, Running, Paired, Remembered, MergedSoFar, Restarted, RunsAgain, BaselineFitsFiles
<1>0. {"restore", "restart"} \subseteq Errors /\ "failed" \in Outcomes
  BY DEF Errors, Outcomes
<1>1. CASE RestoreFiles
  <2>1. /\ step = "restore" /\ step' = "restart" /\ UNCHANGED <<cmd, adrift, base, backups, record, service>>
        /\ ctx.before # Gone
    BY <1>1 DEF RestoreFiles, Step
  <2>2. ctx.saved => Last(backups) = ctx.before /\ ctx.before \in Trees
    BY <2>1 DEF Contexts
  <2>3. CASE ctx.saved /\ skill' = Last(backups) /\ UNCHANGED ctx
    BY <2>1, <2>2, <2>3 DEF Installed
  <2>4. CASE ctx.saved /\ ctx' = [ctx EXCEPT !.errors = @ \cup {"restore"}] /\ skill' \in CutShort(Last(backups))
    <3>1. /\ ctx' \in Contexts /\ Alike(ctx, ctx') /\ ctx'.outcome = ctx.outcome
          /\ ctx'.errors = ctx.errors \cup {"restore"} /\ ctx'.todo = ctx.todo
      BY <1>0, <2>4, ErrorChange
    <3>2. skill' \in Trees /\ skill' # Gone
      BY <2>2, <2>4, TreeFacts
    <3> QED BY <2>1, <2>4, <3>1, <3>2 DEF Alike, Installed
  <2>5. CASE ~ctx.saved /\ UNCHANGED <<skill, ctx>>
    BY <2>1, <2>5 DEF Installed
  <2> QED BY <1>1, <2>3, <2>4, <2>5 DEF RestoreFiles
<1>2. CASE RestartService
  <2>1. /\ step = "restart" /\ step' = "ended" /\ UNCHANGED <<cmd, adrift, skill, base, backups, record>>
        /\ ctx.before # Gone /\ VersionOf' = VersionOf /\ VersionOf \in Versions \cup {Missing}
    BY <1>2, VersionFacts DEF RestartService, Step, VersionOf, Installed
  <2>2. CASE /\ ctx.wasRunning => VersionOf # Missing
             /\ ctx' = [ctx EXCEPT !.outcome = "failed"]
             /\ service' = IF ctx.wasRunning THEN VersionOf ELSE service
    <3>1. /\ ctx' \in Contexts /\ Alike(ctx, ctx') /\ ctx'.outcome = "failed"
          /\ ctx'.errors = ctx.errors /\ ctx'.todo = ctx.todo
      BY <1>0, <2>2, OutcomeChange
    <3> QED BY <2>1, <2>2, <3>1 DEF Alike, Installed, Online
  <2>3. CASE ctx' = [ctx EXCEPT !.outcome = "failed", !.errors = @ \cup {"restart"}] /\ UNCHANGED service
    <3>1. /\ ctx' \in Contexts /\ Alike(ctx, ctx') /\ ctx'.outcome = "failed"
          /\ ctx'.errors = ctx.errors \cup {"restart"} /\ ctx'.todo = ctx.todo
      BY <2>3, RestartChange
    <3> QED BY <2>1, <2>3, <3>1 DEF Alike, Installed
  <2> QED BY <1>2, <2>2, <2>3 DEF RestartService
<1> QED BY <1>1, <1>2

LEMMA UpgradeStep ==
  ASSUME ComponentInv, UpgradeNext
  PROVE  ComponentInv'
BY CheckStep, EarlyStep, MergeStep, LateStep, LastStep, RollbackStep DEF UpgradeNext

LEMMA RemoveStep ==
  ASSUME ComponentInv, RemoveNext
  PROVE  ComponentInv'
<1> USE ComponentAssumption DEF ComponentInv, ComponentTypeOK, installed, AddSteps, EarlySteps, LateSteps,
      UpgradeSteps, RemoveSteps, Running, Paired, Remembered, MergedSoFar, Restarted, RunsAgain, BaselineFitsFiles
<1>0. {"ok", "failed", "checked", "refused"} \subseteq Outcomes
  BY DEF Outcomes
<1>1. CASE UninstallCheck \/ Declined
  <2>1. PICK o \in {"checked", "refused"} : Ends("unlaunch", o) /\ UNCHANGED <<skill, base, backups, record, service>>
    BY <1>1 DEF UninstallCheck, Declined
  <2> QED BY <1>0, <2>1, EndsEffect DEF Alike, Installed
<1>2. CASE Unlaunch
  <2>1. /\ step = "unlaunch" /\ step' = "unlink" /\ UNCHANGED <<cmd, adrift, ctx, skill, base, backups, record>>
        /\ service' \in {Missing, Stopped, service}
    BY <1>2 DEF Unlaunch, Step
  <2> QED BY <2>1 DEF Installed
<1>3. CASE Unlink
  BY <1>3 DEF Unlink, Step, Installed
<1>4. CASE Erase
  BY <1>4 DEF Erase, RemoveDirectory, Step, Installed
<1>5. CASE Unregister
  <2>1. CASE /\ Ends("unregister", "ok") \/ Ends("unregister", "failed")
             /\ record' = Missing /\ UNCHANGED <<skill, base, backups, service>>
    BY <1>0, <2>1, EndsEffect DEF Alike, Installed
  <2>2. CASE BreaksOff("unregister", "failed") /\ UNCHANGED <<record, skill, base, backups, service>>
    <3>1. /\ step = "unregister" /\ step' = "ended" /\ cmd' = cmd /\ adrift' = TRUE
          /\ ctx' \in Contexts /\ Alike(ctx, ctx') /\ ctx'.outcome = "failed"
      BY <1>0, <2>2, BreaksOffEffect
    <3> QED BY <2>2, <3>1 DEF Alike, Installed
  <2> QED BY <1>5, <2>1, <2>2 DEF Unregister
<1>6. CASE EraseFails
  <2>1. /\ step = "erase" /\ step' = "ended" /\ cmd' = cmd /\ adrift' = TRUE
        /\ ctx' \in Contexts /\ Alike(ctx, ctx') /\ ctx'.outcome = "failed"
        /\ UNCHANGED <<record, service>>
    BY <1>0, <1>6, BreaksOffEffect DEF EraseFails
  <2>2. CASE Installed /\ RemoveSome
    <3>1. skill' \in Trees /\ base' \in {base, Missing} /\ backups' \in {backups, <<>>}
      BY <2>2, TreeFacts DEF Installed, RemoveSome
    <3>2. Installed /\ cmd = "remove" /\ skill' # Gone
      BY <2>1, <2>2, <3>1, TreeFacts
    <3>3. record # Missing
      BY <3>2
    <3>4. <<>> \in Seq(Trees)
      OBVIOUS
    <3> QED BY <2>1, <3>1, <3>2, <3>3, <3>4 DEF Alike, Installed
  <2>3. CASE RemoveDirectory
    <3>1. skill' = Gone /\ base' = Missing /\ backups' = <<>>
      BY <2>3 DEF RemoveDirectory
    <3>2. <<>> \in Seq(Trees)
      OBVIOUS
    <3> QED BY <2>1, <3>1, <3>2 DEF Alike, Installed
  <2> QED BY <1>6, <2>2, <2>3 DEF EraseFails
<1> QED BY <1>1, <1>2, <1>3, <1>4, <1>5, <1>6 DEF RemoveNext

LEMMA StartEffect ==
  ASSUME NEW v \in Versions, Add(v) \/ Upgrade(v, "merge") \/ Upgrade(v, "overwrite")
  PROVE  /\ cmd = "none" /\ UNCHANGED <<skill, base, backups, record, service, adrift>>
         /\ ctx' \in Contexts /\ ctx'.to = v /\ ctx'.before = Gone /\ ctx'.outcome = "none"
         /\ ~ctx'.wasRunning /\ ~ctx'.saved /\ ctx'.errors = {}
         /\ \/ cmd' = "add" /\ step' = "acquire" /\ record = Missing
            \/ cmd' = "upgrade" /\ step' = "check" /\ record # Missing
<1>1. CASE Add(v)
  <2>1. ctx' = [NoContext EXCEPT !.to = v]
    BY <1>1 DEF Add, StartCommand
  <2> QED BY <1>1, <2>1, ContextBegins DEF Add, StartCommand, installed
<1>2. ASSUME NEW m \in {"merge", "overwrite"}, Upgrade(v, m)
      PROVE  /\ cmd = "none" /\ UNCHANGED <<skill, base, backups, record, service, adrift>>
             /\ ctx' \in Contexts /\ ctx'.to = v /\ ctx'.before = Gone /\ ctx'.outcome = "none"
             /\ ~ctx'.wasRunning /\ ~ctx'.saved /\ ctx'.errors = {}
             /\ cmd' = "upgrade" /\ step' = "check" /\ record # Missing
  <2>1. ctx' = [NoContext EXCEPT !.to = v, !.mode = m]
    BY <1>2 DEF Upgrade, StartCommand
  <2>2. /\ ctx' \in Contexts /\ ctx'.to = v /\ ctx'.before = Gone /\ ctx'.outcome = "none"
        /\ ~ctx'.wasRunning /\ ~ctx'.saved /\ ctx'.errors = {}
    BY <2>1 DEF NoContext, Contexts, Outcomes
  <2> QED BY <1>2, <2>2 DEF Upgrade, StartCommand, installed
<1> QED BY <1>1, <1>2

\* The start and the end of a command, its death, and what the user does in between.
LEMMA OtherStep ==
  ASSUME ComponentInv,
         \/ \E v \in Versions: Add(v) \/ Upgrade(v, "merge") \/ Upgrade(v, "overwrite") \/ UpgradeAll(v)
         \/ Uninstall \/ \E f \in Files: EditFile(f)
         \/ StopService \/ FinishCommand \/ CommandDies \/ DiesInSave \/ UNCHANGED componentVars
  PROVE  ComponentInv'
<1> USE ComponentAssumption DEF ComponentInv, ComponentTypeOK, installed, AddSteps, EarlySteps, LateSteps,
      UpgradeSteps, RemoveSteps, Running, Paired, Remembered, MergedSoFar, Restarted, RunsAgain, BaselineFitsFiles
<1>1. ASSUME NEW v \in Versions, Add(v) \/ Upgrade(v, "merge") \/ Upgrade(v, "overwrite")
      PROVE  ComponentInv'
  BY <1>1, StartEffect DEF Installed
<1>2. CASE Uninstall
  BY <1>2, ContextBegins DEF Uninstall, StartCommand, Installed
<1>3. ASSUME NEW f \in Files, EditFile(f)
      PROVE  ComponentInv'
  <2>1. /\ cmd = "none" /\ step = "idle" /\ skill \in Trees /\ skill[f] # Missing
        /\ skill' = [skill EXCEPT ![f].edited = TRUE]
        /\ UNCHANGED <<base, backups, record, service, cmd, step, ctx, adrift>>
    BY <1>3 DEF EditFile, Installed
  <2>2. skill[f] \in Contents
    BY <2>1, TreeFacts
  <2>3. [skill[f] EXCEPT !.edited = TRUE] \in Contents
    BY <2>2 DEF Contents
  <2>4. skill' = [skill EXCEPT ![f] = [skill[f] EXCEPT !.edited = TRUE]]
    BY <2>1
  <2>5. skill' \in Trees /\ skill' # Gone
    <3> HIDE DEF ComponentInv
    <3>1. skill' \in Trees
      BY <2>1, <2>3, <2>4 DEF Trees
    <3> QED BY <3>1, TreeFacts
  <2> QED BY <2>1, <2>5 DEF Installed
<1>4. CASE StopService
  BY <1>4 DEF StopService, Installed
<1>5. CASE FinishCommand
  BY <1>5, ContextBegins DEF FinishCommand, Installed
<1>6. CASE CommandDies
  BY <1>6, ContextBegins DEF CommandDies, Installed
<1>7. CASE DiesInSave
  BY <1>7, ContextBegins DEF DiesInSave, Installed
<1>8. CASE UNCHANGED componentVars
  BY <1>8 DEF componentVars, Installed, VersionOf, Online, UpToDateOrKept
<1>9. ASSUME NEW v \in Versions, UpgradeAll(v)
      PROVE  ComponentInv'
  BY <1>1, <1>9 DEF UpgradeAll
<1> QED BY <1>1, <1>2, <1>3, <1>4, <1>5, <1>6, <1>7, <1>8, <1>9

LEMMA ComponentStarts ==
  ComponentInit => ComponentInv
<1> SUFFICES ASSUME ComponentInit PROVE ComponentInv
  OBVIOUS
<1>1. <<>> \in Seq(Trees)
  OBVIOUS
<1> QED BY <1>1, ContextBegins DEF ComponentInit, ComponentInv, ComponentTypeOK, AddSteps, EarlySteps, LateSteps,
      UpgradeSteps, RemoveSteps, Running, Paired, Remembered, MergedSoFar, Restarted, RunsAgain, BaselineFitsFiles,
      Installed

LEMMA ComponentInvHolds ==
  ComponentSpec => []ComponentInv
<1>1. ComponentInv /\ [ComponentNext]_componentVars => ComponentInv'
  BY AddStep, UpgradeStep, RemoveStep, OtherStep DEF ComponentNext
<1> QED BY ComponentStarts, <1>1, PTL DEF ComponentSpec

\* What components.json records is in the skills directory and nothing else is: after any
\* answer of success, and between commands of which none died or broke off with nothing
\* undone; a directory that an uninstall has left, however it ended, is recorded.  An
\* upgrade that ends has the service that ran before running with the code now in the
\* directory, or says that it could not start it (installDeclarative, installAI,
\* handleRemoveFlow, startServiceForUpgrade, rollback).
THEOREM EndsWholeCorrect ==
  ComponentSpec => []EndsWhole
<1>1. ComponentInv => EndsWhole
  BY DEF ComponentInv, Running, Paired, EndsWhole, RecordedIsThere
<1> QED BY <1>1, ComponentInvHolds, PTL

\* However an upgrade ends, each file the user had edited is as it was, or merged with the
\* new text, or as it was in the newest backup (step2_backup, smartSync, rollback,
\* cleanOldBackups).
THEOREM NoEditLostCorrect ==
  ComponentSpec => []NoEditLost
<1>1. ComponentInv => NoEditLost
  BY DEF ComponentInv, Remembered, NoEditLost
<1> QED BY <1>1, ComponentInvHolds, PTL

\* An upgrade that ends without a failed restore leaves the merge baseline at the version
\* of the files: the next merge sees no edit where there was none (commitMergeBaseline,
\* rollback).
THEOREM BaselineFitsFilesCorrect ==
  ComponentSpec => []BaselineFitsFiles
<1>1. ComponentInv => BaselineFitsFiles
  BY DEF ComponentInv
<1> QED BY <1>1, ComponentInvHolds, PTL

-----------------------------------------------------------------------------
(* The upgrade of the core: the invariant *)

UpgraderSteps == {"check", "download", "confirm", "prepare", "backup", "pack", "stop", "persist",
                  "install", "handoff"}
FinalizerSteps == {"sync", "deps", "instructions", "hooks", "codex", "start", "verify", "baselines",
                   "cleanup"}
RollbackSteps == {"core", "skills", "restoreDeps", "services", "version"}
BeforeBackup == {"check", "download", "confirm", "prepare", "backup"}

Memories ==
  [from : Nat, to : Nat, skills : SkillVersions \cup {NoSkills}, was : SUBSET CoreServices,
   copied : {"none", "part", "all"}, packed : BOOLEAN, attempted : BOOLEAN,
   failures : SUBSET {"core", "skills", "rest"}]
Verdicts == {"none", "untouched", "upgraded", "warned", "restored", "recovery_required"}

SelfTypeOK ==
  /\ core \in Nat /\ coreSkills \in SkillVersions
  /\ settings \in [SettingParts -> Nat]
  /\ online \in SUBSET CoreServices
  /\ txn \in Directories \cup {NoTransaction}
  /\ older \in SUBSET Directories
  /\ turn \in {"nobody", "upgrader", "finalizer", "recovery"}
               \X ({"idle"} \cup UpgraderSteps \cup FinalizerSteps \cup RollbackSteps)
  /\ turn[2] = "idle" <=> turn[1] = "nobody"
  /\ turn[2] \in UpgraderSteps => turn[1] = "upgrader"
  /\ turn[2] \in FinalizerSteps => turn[1] = "finalizer"
  /\ mem \in Memories
  /\ verdict \in [answer : Verdicts, mem : Memories]
  /\ spoilt \in BOOLEAN

\* What the forward steps have done so far.
Forward ==
  /\ verdict # NoVerdict => turn[2] = "idle"
  /\ turn[2] \in UpgraderSteps \cup FinalizerSteps \cup {"core"} => mem.failures = {}
  /\ turn[2] \in BeforeBackup => coreSkills = mem.skills /\ mem.copied = "none" /\ txn = NoTransaction
  /\ turn[2] \in BeforeBackup \cup {"pack", "stop", "persist"} =>
       core = mem.from /\ ~mem.attempted
  /\ turn[2] \in BeforeBackup \cup {"pack"} => ~mem.packed
  /\ turn[2] \in {"handoff"} \cup FinalizerSteps => core = mem.to
  /\ turn[2] \in FinalizerSteps \ {"sync"} => coreSkills = mem.to
  /\ turn[2] \in {"hooks", "codex", "start", "verify", "baselines", "cleanup"} =>
       settings["instructions"] >= mem.to
  /\ turn[2] \in {"codex", "start", "verify", "baselines", "cleanup"} => settings["hooks"] = mem.to
  /\ turn[2] \in {"baselines", "cleanup"} => mem.was \subseteq online
  /\ turn[2] \in {"install", "handoff"} \/ turn[1] = "finalizer" => mem.attempted

\* The backup of the upgrade that runs.
BackedUp ==
  /\ turn[2] \in {"pack", "stop", "persist", "install", "handoff"} \/ turn[1] = "finalizer" =>
       txn # NoTransaction /\ txn.whole /\ mem.copied = "all" /\ txn.skills = mem.skills
  /\ turn[2] \in RollbackSteps /\ mem.copied = "all" /\ txn # NoTransaction => txn.whole
  /\ turn[2] = "core" /\ mem.copied = "all" =>
       IF txn = NoTransaction THEN mem.attempted ELSE txn.skills = mem.skills
  /\ turn[2] = "skills" /\ mem.failures = {} /\ mem.copied = "all" =>
       txn # NoTransaction /\ txn.skills = mem.skills
  /\ turn[2] \in {"restoreDeps", "services", "version"} /\ mem.failures = {} /\ mem.copied = "all" =>
       coreSkills = mem.skills
  /\ turn[2] = "version" /\ mem.failures = {} => mem.was \subseteq online

\* What --recover is offered has its state file, and its skills until a removal takes them.
OnOffer ==
  /\ \A d \in older : d.state
  /\ \A d \in older \cup ({txn} \ {NoTransaction}) : d.whole => d.skills # NoSkills

\* A directory that brings back a package and skills that belong together.
Sane(d) == d.whole /\ d.packed /\ d.skills \in {d.from, Lost}
HasSane(S) == \E d \in S: Sane(d)
HasWhole(S) == \E d \in S: d.whole
Fitting == core = coreSkills \/ coreSkills = Lost

\* Where package and skills do not belong together there is such a directory; where
\* there is any whole directory there is such a one, and so among those of earlier
\* upgrades; as long as no rollback has had only part of its backup.
Rescuable ==
  /\ turn[2] # "idle" /\ txn # NoTransaction => txn.whole
  /\ HasWhole(Recoverable) => HasSane(Recoverable)
  /\ turn[1] \in {"upgrader", "finalizer"} /\ HasWhole(older) => HasSane(older)
  /\ HasSane(Recoverable) \/ Fitting
  /\ turn[2] \in {"pack", "stop", "persist"} =>
       /\ ~txn.state /\ txn.from = core /\ txn.skills = coreSkills
       /\ turn[2] # "pack" => txn.packed
  /\ turn[2] \in {"install", "handoff"} \/ turn[1] = "finalizer" => HasSane(Recoverable)
  /\ turn[2] \in RollbackSteps /\ ~HasSane(Recoverable) =>
       /\ txn = NoTransaction \/ (~txn.state /\ txn.skills \in {core, Lost})
       /\ mem.packed /\ txn # NoTransaction => core = mem.from

SelfInv == SelfTypeOK /\ Forward /\ BackedUp /\ OnOffer /\ (spoilt \/ Rescuable) /\ AnswerIsTrue

\* What the steps write into the memory of the upgrade.
LEMMA MemoryChanges ==
  ASSUME NEW x \in Memories
  PROVE  /\ \A f \in {"core", "skills", "rest"} :
              LET y == [x EXCEPT !.failures = @ \cup {f}]
              IN /\ y \in Memories /\ y.failures # {} /\ y.from = x.from /\ y.to = x.to
                 /\ y.skills = x.skills /\ y.was = x.was /\ y.copied = x.copied
                 /\ y.packed = x.packed /\ y.attempted = x.attempted
         /\ LET y == [x EXCEPT !.failures = {}]
            IN /\ y \in Memories /\ y.failures = {} /\ y.from = x.from /\ y.to = x.to
               /\ y.skills = x.skills /\ y.was = x.was /\ y.copied = x.copied
               /\ y.packed = x.packed /\ y.attempted = x.attempted
BY DEF Memories

LEMMA NoMemory == NoMem \in Memories /\ NoVerdict \in [answer : Verdicts, mem : Memories]
BY DEF NoMem, NoVerdict, Memories, Verdicts, SkillVersions

\* What an interrupted removal leaves of a directory.
LEMMA RemainsFacts ==
  ASSUME NEW d \in Directories
  PROVE  \A e \in Remains(d) : e \in Directories /\ ~e.whole
<1> SUFFICES ASSUME NEW e \in Remains(d)
             PROVE  e \in Directories /\ ~e.whole
  OBVIOUS
<1>1. PICK s \in {d.skills, Lost, NoSkills}, p \in {FALSE, d.packed}, f \in {FALSE, d.state} :
        e = [d EXCEPT !.skills = s, !.packed = p, !.state = f, !.whole = FALSE]
  BY DEF Remains
<1>2. s \in SkillVersions \cup {NoSkills} /\ p \in BOOLEAN /\ f \in BOOLEAN
  BY DEF Directories, SkillVersions
<1>3. e = [from |-> d.from, skills |-> s, packed |-> p, state |-> f, was |-> d.was, whole |-> FALSE]
  BY <1>1 DEF Directories
<1> QED BY <1>2, <1>3 DEF Directories

LEMMA SelfTypeStep == SelfTypeOK /\ BackedUp /\ [SelfNext]_selfVars => SelfTypeOK'
<1> SUFFICES ASSUME SelfTypeOK, BackedUp, [SelfNext]_selfVars PROVE SelfTypeOK'
  OBVIOUS
<1> USE DEF SelfTypeOK, UpgraderSteps, FinalizerSteps, RollbackSteps, machine, By
<1>1. ASSUME NEW from, NEW answer \in Verdicts, Answer(from, answer), UNCHANGED machine,
             txn' \in {txn, NoTransaction}, UNCHANGED older
      PROVE  SelfTypeOK'
  <2>1. verdict' \in [answer : Verdicts, mem : Memories]
    BY <1>1 DEF Answer
  <2> QED BY <1>1, <2>1, NoMemory DEF Answer
<1>2. CASE StartSelfUpgrade
  <2>1. [NoMem EXCEPT !.from = core, !.to = core, !.skills = coreSkills] \in Memories
    BY NoMemory DEF NoMem, Memories
  <2>2. Recoverable \in SUBSET Directories
    BY DEF Recoverable
  <2> QED BY <1>2, <2>1, <2>2, NoMemory DEF StartSelfUpgrade
<1>3. CASE CheckForCoreUpdates
  <2>1. [mem EXCEPT !.to = core + 1] \in Memories
    BY DEF Memories
  <2>2. "untouched" \in Verdicts
    BY DEF Verdicts
  <2> QED BY <1>1, <1>3, <2>1, <2>2 DEF CheckForCoreUpdates, LeavesAlone
<1>4. CASE DownloadCore \/ ConfirmUpgrade \/ PrepareUpgrade
  <2>2. "untouched" \in Verdicts
    BY DEF Verdicts
  <2> QED BY <1>1, <1>4, <2>2 DEF DownloadCore, ConfirmUpgrade, PrepareUpgrade, LeavesAlone
<1>5. CASE BackupSkills
  <2>1. /\ [mem EXCEPT !.copied = "all"] \in Memories
        /\ [from |-> mem.from, skills |-> coreSkills, packed |-> FALSE, state |-> FALSE, was |-> {},
            whole |-> TRUE] \in Directories
    BY DEF Memories, Directories
  <2> QED BY <1>5, <2>1 DEF BackupSkills
<1>6. CASE BackupCutShort
  <2>1. /\ [mem EXCEPT !.copied = "part"] \in Memories
        /\ [from |-> mem.from, skills |-> Lost, packed |-> FALSE, state |-> FALSE, was |-> {},
            whole |-> TRUE] \in Directories
    BY DEF Memories, Directories, SkillVersions
  <2> QED BY <1>6, <2>1 DEF BackupCutShort, RollsBack
<1>7. CASE PackCore
  <2>1. [mem EXCEPT !.packed = TRUE] \in Memories
    BY DEF Memories
  <2>2. turn[2] = "pack" => txn # NoTransaction
    BY DEF BackedUp
  <2>3. txn # NoTransaction => [txn EXCEPT !.packed = TRUE] \in Directories
    BY DEF Directories
  <2>4. CASE By("upgrader", "pack", "stop")
    BY <1>7, <2>1, <2>2, <2>3, <2>4 DEF PackCore, RollsBack
  <2>5. CASE RollsBack("pack")
    BY <1>7, <2>1, <2>2, <2>3, <2>5 DEF PackCore, RollsBack
  <2> QED BY <1>7, <2>4, <2>5 DEF PackCore
<1>8. CASE StopServices
  <2>1. [mem EXCEPT !.was = online] \in Memories
    BY DEF Memories
  <2> QED BY <1>8, <2>1 DEF StopServices
<1>9. CASE PersistState
  <2>1. [mem EXCEPT !.attempted = TRUE] \in Memories
    BY DEF Memories
  <2>2. turn[2] = "persist" => txn # NoTransaction
    BY DEF BackedUp
  <2>3. txn # NoTransaction => [txn EXCEPT !.state = TRUE, !.was = mem.was] \in Directories
    BY DEF Directories, Memories
  <2>4. CASE By("upgrader", "persist", "install")
    BY <1>9, <2>1, <2>2, <2>3, <2>4 DEF PersistState, RollsBack
  <2>5. CASE RollsBack("persist")
    BY <1>9, <2>1, <2>2, <2>3, <2>5 DEF PersistState, RollsBack
  <2> QED BY <1>9, <2>4, <2>5 DEF PersistState
<1>10. mem.to \in Nat /\ mem.from \in Nat /\ mem.was \in SUBSET CoreServices
  BY DEF Memories
<1>11. CASE InstallCore
  BY <1>10, <1>11 DEF InstallCore, RollsBack
<1>12. CASE HandOver
  BY <1>12 DEF HandOver, RollsBack
<1>13. CASE SyncSkills
  BY <1>10, <1>13 DEF SyncSkills, RollsBack, SkillsAfter, SkillVersions
<1>14. CASE InstallSkillDeps
  BY <1>14 DEF InstallSkillDeps, FinalizerFails, RollsBack
<1>15. \A part \in SettingParts : [settings EXCEPT ![part] = mem.to] \in [SettingParts -> Nat]
  BY <1>10
<1>16. CASE SyncInstructions \/ SyncSettingsHooks \/ EnsureCodexConfig
  <2>1. "instructions" \in SettingParts /\ "hooks" \in SettingParts /\ "codex" \in SettingParts
    BY DEF SettingParts
  <2>2. settings' \in [SettingParts -> Nat]
    BY <1>15, <1>16, <2>1 DEF SyncInstructions, SyncSettingsHooks, EnsureCodexConfig, Refreshed
  <2> QED BY <1>16, <2>2 DEF SyncInstructions, SyncSettingsHooks, EnsureCodexConfig, FinalizerFails, RollsBack
<1>17. CASE StartServices
  BY <1>10, <1>17 DEF StartServices, RollsBack
<1>18. CASE VerifyServices
  BY <1>18 DEF VerifyServices, RollsBack
<1>19. CASE CommitBaselines \/ RemoveBackup
  <2>1. "upgraded" \in Verdicts /\ "warned" \in Verdicts
    BY DEF Verdicts
  <2>2. CASE By("finalizer", "baselines", "cleanup") /\ CommitBaselines
    BY <2>2 DEF CommitBaselines, Answer
  <2>3. CASE RemoveBackup
    BY <1>1, <2>1, <2>3 DEF RemoveBackup
  <2> QED BY <1>1, <1>19, <2>1, <2>2, <2>3 DEF CommitBaselines
<1>20. CASE FinalizerGivenUp
  <2>1. txn \in Directories /\ txn' \in {txn} \cup Remains(txn)
    BY <1>20 DEF FinalizerGivenUp, BackedUp
  <2>2. txn' \in Directories /\ txn'.whole \in BOOLEAN
    BY <2>1, RemainsFacts DEF Directories
  <2>3. mem' \in Memories
    <3> DEFINE c == IF txn'.whole THEN mem.copied ELSE "part"
    <3>1. mem' = [mem EXCEPT !.failures = {}, !.copied = c] /\ c \in {"none", "part", "all"}
      BY <1>20 DEF FinalizerGivenUp, Memories
    <3> HIDE DEF c
    <3> QED BY <3>1 DEF Memories
  <2>4. spoilt' \in BOOLEAN
    BY <1>20, <2>2 DEF FinalizerGivenUp
  <2>5. coreSkills' \in SkillVersions
    BY <1>20 DEF FinalizerGivenUp, SkillVersions
  <2> QED BY <1>20, <2>2, <2>3, <2>4, <2>5 DEF FinalizerGivenUp
<1>21. CASE AnswerUnread
  BY <1>21 DEF AnswerUnread
<1>22. \A f \in {"core", "skills", "rest"} : Noted(f) => mem' \in Memories
  <2>1. \A f \in {"core", "skills", "rest"} : [mem EXCEPT !.failures = @ \cup {f}] \in Memories
    BY MemoryChanges
  <2> QED BY <2>1 DEF Noted
<1>23. CASE RestoreCore
  BY <1>10, <1>22, <1>23 DEF RestoreCore
<1>24. CASE RestoreSkills
  <2>1. HasSkills => txn.skills \in SkillVersions
    BY DEF Directories, HasSkills
  <2>2. HalfRestored \in SkillVersions
    BY DEF HalfRestored, SkillVersions
  <2> QED BY <1>22, <1>24, <2>1, <2>2 DEF RestoreSkills
<1>25. CASE RestoreDependencies
  BY <1>22, <1>25 DEF RestoreDependencies
<1>26. CASE RestoreServices
  BY <1>10, <1>22, <1>26 DEF RestoreServices
<1>27. CASE CheckVersion
  <2>1. "restored" \in Verdicts /\ "recovery_required" \in Verdicts
    BY DEF Verdicts
  <2> QED BY <1>1, <1>27, <2>1 DEF CheckVersion
<1>28. CASE RecoverUpgrade
  <2>1. PICK d \in Recoverable :
          /\ txn' = d /\ older' = Recoverable \ {d}
          /\ mem' = [NoMem EXCEPT !.from = d.from, !.was = d.was, !.packed = TRUE,
                                  !.attempted = TRUE, !.skills = d.skills,
                                  !.copied = IF d.whole THEN "all" ELSE "part"]
          /\ spoilt' = (spoilt \/ ~d.whole)
    BY <1>28 DEF RecoverUpgrade
  <2>2. Recoverable \in SUBSET Directories
    BY DEF Recoverable
  <2>3. mem' \in Memories
    BY <2>1, <2>2, NoMemory DEF NoMem, Memories, Directories
  <2>4. spoilt' \in BOOLEAN
    BY <2>1, <2>2 DEF Directories
  <2> QED BY <1>28, <2>1, <2>2, <2>3, <2>4, NoMemory DEF RecoverUpgrade
<1>29. CASE SelfDies
  <2>1. HalfRestored \in SkillVersions /\ Mixed \in SkillVersions
    BY DEF HalfRestored, SkillVersions
  <2>2. turn[2] = "cleanup" => txn \in Directories
    BY DEF BackedUp
  <2>3. txn' \in Directories \cup {NoTransaction}
    <3>1. CASE turn[2] = "cleanup"
      <4>1. txn' \in {txn, NoTransaction} \cup Remains(txn)
        BY <1>29, <3>1 DEF SelfDies
      <4> QED BY <2>2, <3>1, <4>1, RemainsFacts
    <3>2. CASE turn[2] # "cleanup"
      BY <1>29, <3>2 DEF SelfDies
    <3> QED BY <3>1, <3>2
  <2> QED BY <1>10, <1>29, <2>1, <2>3, NoMemory DEF SelfDies
<1>30. CASE ServiceDies
  BY <1>30 DEF ServiceDies
<1>31. CASE UNCHANGED selfVars
  BY <1>31 DEF selfVars
<1> QED
  BY <1>2, <1>3, <1>4, <1>5, <1>6, <1>7, <1>8, <1>9, <1>11, <1>12, <1>13, <1>14, <1>16, <1>17,
     <1>18, <1>19, <1>20, <1>21, <1>23, <1>24, <1>25, <1>26, <1>27, <1>28, <1>29, <1>30, <1>31
  DEF SelfNext

LEMMA SelfForwardStep == SelfInv /\ SelfTypeOK' /\ [SelfNext]_selfVars => Forward' /\ BackedUp'
<1> SUFFICES ASSUME SelfInv, SelfTypeOK', [SelfNext]_selfVars PROVE Forward' /\ BackedUp'
  OBVIOUS
<1> USE DEF SelfInv, SelfTypeOK, OnOffer, UpgraderSteps, FinalizerSteps, RollbackSteps, BeforeBackup, machine, By, Answer,
      Forward, BackedUp, Memories, NoMem, NoVerdict, Directories
<1>1. CASE StartSelfUpgrade
  BY <1>1 DEF StartSelfUpgrade
<1>2. CASE CheckForCoreUpdates
  BY <1>2 DEF CheckForCoreUpdates, LeavesAlone
<1>3. CASE DownloadCore \/ ConfirmUpgrade \/ PrepareUpgrade
  BY <1>3 DEF DownloadCore, ConfirmUpgrade, PrepareUpgrade, LeavesAlone
<1>4. CASE BackupSkills
  <2>1. txn' \in Directories
    BY <1>4 DEF BackupSkills
  <2>2. txn' # NoTransaction
    BY <2>1, SelfUpgradeAssumption
  <2> QED BY <1>4, <2>2 DEF BackupSkills
<1>5. CASE BackupCutShort
  BY <1>5 DEF BackupCutShort, RollsBack
<1>6. CASE PackCore
  <2>1. turn[2] = "pack" => txn \in Directories
    OBVIOUS
  <2>2. \A d \in Directories :
          LET e == [d EXCEPT !.packed = TRUE]
          IN e \in Directories /\ e.skills = d.skills /\ e.whole = d.whole
    OBVIOUS
  <2>3. \A d \in Directories : d # NoTransaction
    BY SelfUpgradeAssumption
  <2> QED BY <1>6, <2>1, <2>2, <2>3 DEF PackCore, RollsBack
<1>7. CASE StopServices
  BY <1>7 DEF StopServices
<1>8. CASE PersistState
  <2>1. turn[2] = "persist" => txn \in Directories
    OBVIOUS
  <2>2. \A d \in Directories, w \in SUBSET CoreServices :
          LET e == [d EXCEPT !.state = TRUE, !.was = w]
          IN e \in Directories /\ e.skills = d.skills /\ e.whole = d.whole
    OBVIOUS
  <2>3. \A d \in Directories : d # NoTransaction
    BY SelfUpgradeAssumption
  <2>4. turn[2] = "persist"
    BY <1>8 DEF PersistState, RollsBack
  <2>5. txn' = [txn EXCEPT !.state = TRUE, !.was = mem.was] \/ txn' = txn
    BY <1>8 DEF PersistState
  <2>6. txn' # NoTransaction /\ txn'.skills = txn.skills /\ txn'.whole = txn.whole
    <3>1. txn \in Directories /\ mem.was \in SUBSET CoreServices
      BY <2>1, <2>4
    <3>2. [txn EXCEPT !.state = TRUE, !.was = mem.was] \in Directories
      BY <2>2, <3>1
    <3>3. [txn EXCEPT !.state = TRUE, !.was = mem.was].skills = txn.skills
          /\ [txn EXCEPT !.state = TRUE, !.was = mem.was].whole = txn.whole
      BY <2>2, <3>1
    <3> QED BY ZenonT(60), <2>3, <2>5, <3>1, <3>2, <3>3
  <2> QED BY <1>8, <2>4, <2>6 DEF PersistState, RollsBack
<1>9. CASE InstallCore
  BY <1>9 DEF InstallCore, RollsBack
<1>10. CASE HandOver
  BY <1>10 DEF HandOver, RollsBack
<1>11. CASE SyncSkills
  BY <1>11 DEF SyncSkills, RollsBack, SkillsAfter
<1>12. CASE InstallSkillDeps
  BY <1>12 DEF InstallSkillDeps, FinalizerFails, RollsBack
<1>13. CASE SyncInstructions
  BY <1>13 DEF SyncInstructions, FinalizerFails, RollsBack, Refreshed, SettingParts
<1>14. CASE SyncSettingsHooks
  BY <1>14 DEF SyncSettingsHooks, FinalizerFails, RollsBack, Refreshed, SettingParts
<1>15. CASE EnsureCodexConfig
  BY <1>15 DEF EnsureCodexConfig, FinalizerFails, RollsBack, Refreshed, SettingParts
<1>16. CASE StartServices
  BY <1>16 DEF StartServices, RollsBack
<1>17. CASE VerifyServices
  BY <1>17 DEF VerifyServices, RollsBack
<1>18. CASE CommitBaselines
  BY <1>18 DEF CommitBaselines
<1>30. CASE RemoveBackup
  BY <1>30 DEF RemoveBackup
<1>19. CASE FinalizerGivenUp
  <2>1. txn \in Directories /\ txn' \in Directories /\ txn' # NoTransaction
    <3>1. txn \in Directories /\ txn' \in {txn} \cup Remains(txn)
      BY <1>19 DEF FinalizerGivenUp
    <3> QED BY <3>1, RemainsFacts, SelfUpgradeAssumption
  <2>2. txn'.whole => txn' = txn
    BY <1>19, <2>1, RemainsFacts DEF FinalizerGivenUp
  <2>3. /\ mem'.failures = {} /\ mem'.copied = (IF txn'.whole THEN mem.copied ELSE "part")
        /\ mem'.skills = mem.skills /\ mem'.attempted = mem.attempted
    BY <1>19 DEF FinalizerGivenUp
  <2>4. turn' = <<"upgrader", "core">> /\ UNCHANGED <<core, verdict>> /\ mem.attempted /\ verdict = NoVerdict
    BY <1>19 DEF FinalizerGivenUp
  <2>5. txn.skills = mem.skills
    BY <1>19 DEF FinalizerGivenUp
  <2>6. Forward'
    BY <2>3, <2>4
  <2>7. mem'.copied = "all" => txn'.whole /\ txn' = txn /\ mem'.skills = txn'.skills
    BY <2>2, <2>3, <2>5
  <2>8. BackedUp'
    BY <2>1, <2>3, <2>4, <2>7
  <2> QED BY <2>6, <2>8
<1>20. CASE AnswerUnread
  BY <1>20 DEF AnswerUnread
<1>21. CASE RestoreCore
  BY <1>21 DEF RestoreCore, Noted
<1>22. CASE RestoreSkills
  BY <1>22 DEF RestoreSkills, HasSkills, HalfRestored, Noted
<1>23. CASE RestoreDependencies
  BY <1>23 DEF RestoreDependencies, Noted
<1>24. CASE RestoreServices
  BY <1>24 DEF RestoreServices, Noted
<1>25. CASE CheckVersion
  BY <1>25 DEF CheckVersion
<1>26. CASE RecoverUpgrade
  <2>1. PICK d \in Recoverable :
          /\ txn' = d
          /\ mem' = [NoMem EXCEPT !.from = d.from, !.was = d.was, !.packed = TRUE,
                                  !.attempted = TRUE, !.skills = d.skills,
                                  !.copied = IF d.whole THEN "all" ELSE "part"]
    BY <1>26 DEF RecoverUpgrade
  <2>2. d \in Directories /\ d # NoTransaction
    BY SelfUpgradeAssumption DEF Recoverable
  <2>3. /\ mem'.failures = {} /\ mem'.copied = (IF d.whole THEN "all" ELSE "part")
        /\ mem'.skills = d.skills /\ mem'.attempted
    BY <2>1
  <2>4. turn' = <<"recovery", "core">> /\ verdict' = NoVerdict
    BY <1>26 DEF RecoverUpgrade
  <2> QED BY <2>1, <2>2, <2>3, <2>4
<1>27. CASE SelfDies
  BY <1>27 DEF SelfDies
<1>28. CASE ServiceDies
  BY <1>28 DEF ServiceDies
<1>29. CASE UNCHANGED selfVars
  BY <1>29 DEF selfVars
<1> QED BY <1>1, <1>2, <1>3, <1>4, <1>5, <1>6, <1>7, <1>8, <1>9, <1>10, <1>11, <1>12, <1>13, <1>14, <1>15, <1>16, <1>17, <1>18, <1>19, <1>20, <1>21, <1>22, <1>23, <1>24, <1>25, <1>26, <1>27, <1>28, <1>29, <1>30 DEF SelfNext


LEMMA AnswerStep == SelfInv /\ [SelfNext]_selfVars => AnswerIsTrue'
<1> SUFFICES ASSUME SelfInv, [SelfNext]_selfVars PROVE AnswerIsTrue'
  OBVIOUS
<1> USE DEF AnswerIsTrue, UpgradedIsNew, RestoredIsOld
<1>1. verdict' \in {NoVerdict, [answer |-> "untouched", mem |-> mem],
                    [answer |-> "recovery_required", mem |-> mem]} => AnswerIsTrue'
  BY DEF NoVerdict
<1>2. turn[2] # "idle" => verdict = NoVerdict
  BY DEF SelfInv, Forward
<1>3. CASE CommitBaselines \/ RemoveBackup
  <2>1. /\ turn[2] \in {"baselines", "cleanup"} /\ UNCHANGED machine
        /\ \/ verdict' \in {[answer |-> a, mem |-> mem] : a \in {"upgraded", "warned"}}
           \/ verdict' = verdict
    BY <1>3 DEF CommitBaselines, RemoveBackup, Answer, By
  <2>2. verdict = NoVerdict
    BY <1>2, <2>1
  <2>3. mem.to \in Nat /\ settings["instructions"] \in Nat
    BY DEF SelfInv, SelfTypeOK, Memories, SettingParts
  <2> QED BY <1>1, <2>1, <2>2, <2>3 DEF SelfInv, Forward, FinalizerSteps, machine
<1>4. CASE CheckVersion
  <2>1. CASE mem.failures = {} /\ ((mem.attempted \/ mem.packed) => core = mem.from)
    <3>1. /\ turn[2] = "version" /\ UNCHANGED machine
          /\ verdict' = [answer |-> "restored", mem |-> mem]
      BY <1>4, <2>1 DEF CheckVersion, Answer
    <3> QED BY <2>1, <3>1 DEF SelfInv, BackedUp, machine
  <2>2. CASE ~(mem.failures = {} /\ ((mem.attempted \/ mem.packed) => core = mem.from))
    BY <1>1, <1>4, <2>2 DEF CheckVersion, Answer
  <2> QED BY <2>1, <2>2
<1>5. CASE CheckForCoreUpdates \/ DownloadCore \/ ConfirmUpgrade \/ PrepareUpgrade
  BY <1>1, <1>2, <1>5
  DEF CheckForCoreUpdates, DownloadCore, ConfirmUpgrade, PrepareUpgrade, LeavesAlone, Answer, By
<1>6. CASE StartSelfUpgrade \/ RecoverUpgrade \/ SelfDies
  BY <1>1, <1>6 DEF StartSelfUpgrade, RecoverUpgrade, SelfDies
<1>7. CASE ServiceDies
  BY <1>1, <1>7 DEF ServiceDies
<1>8. ASSUME \/ BackupSkills \/ BackupCutShort \/ PackCore \/ StopServices \/ PersistState
             \/ InstallCore \/ HandOver \/ SyncSkills \/ InstallSkillDeps \/ SyncInstructions
             \/ SyncSettingsHooks \/ EnsureCodexConfig \/ StartServices \/ VerifyServices
             \/ FinalizerGivenUp \/ AnswerUnread \/ RestoreCore \/ RestoreSkills
             \/ RestoreDependencies \/ RestoreServices
      PROVE  turn[2] # "idle" /\ UNCHANGED verdict
  <2>1. CASE BackupSkills \/ BackupCutShort \/ PackCore \/ StopServices \/ PersistState \/ InstallCore
    BY <2>1 DEF BackupSkills, BackupCutShort, PackCore, StopServices, PersistState, InstallCore,
      By, RollsBack
  <2>2. CASE HandOver \/ SyncSkills \/ InstallSkillDeps \/ SyncInstructions
    BY <2>2 DEF HandOver, SyncSkills, SkillsAfter, InstallSkillDeps, SyncInstructions,
      FinalizerFails, By, RollsBack
  <2>5. CASE SyncSettingsHooks \/ EnsureCodexConfig \/ StartServices \/ VerifyServices
    BY <2>5 DEF SyncSettingsHooks, EnsureCodexConfig, StartServices, VerifyServices, FinalizerFails,
      By, RollsBack
  <2>3. CASE FinalizerGivenUp \/ AnswerUnread
    BY <2>3 DEF SelfInv, SelfTypeOK, FinalizerGivenUp, AnswerUnread
  <2>4. CASE RestoreCore \/ RestoreSkills \/ RestoreDependencies \/ RestoreServices
    BY <2>4 DEF RestoreCore, RestoreSkills, RestoreDependencies, RestoreServices
  <2> QED BY <1>8, <2>1, <2>2, <2>3, <2>4, <2>5
<1>9. CASE UNCHANGED selfVars
  BY <1>9 DEF selfVars, machine, SelfInv
<1> QED BY <1>1, <1>2, <1>3, <1>4, <1>5, <1>6, <1>7, <1>8, <1>9 DEF SelfNext

\* A rollback from what a removal left is not forgotten.
LEMMA SpoiltStays == [SelfNext]_selfVars /\ spoilt => spoilt'
<1> SUFFICES ASSUME [SelfNext]_selfVars, spoilt PROVE spoilt'
  OBVIOUS
<1> USE DEF By, RollsBack, Answer, LeavesAlone, FinalizerFails
<1>1. CASE \/ StartSelfUpgrade \/ CheckForCoreUpdates \/ DownloadCore \/ ConfirmUpgrade \/ PrepareUpgrade
           \/ BackupSkills \/ BackupCutShort \/ PackCore \/ StopServices \/ PersistState
  BY <1>1 DEF StartSelfUpgrade, CheckForCoreUpdates, DownloadCore, ConfirmUpgrade, PrepareUpgrade,
    BackupSkills, BackupCutShort, PackCore, StopServices, PersistState
<1>2. CASE \/ InstallCore \/ HandOver \/ SyncSkills \/ InstallSkillDeps \/ SyncInstructions
           \/ SyncSettingsHooks \/ EnsureCodexConfig \/ StartServices
  BY <1>2 DEF InstallCore, HandOver, SyncSkills, InstallSkillDeps, SyncInstructions, SyncSettingsHooks,
    EnsureCodexConfig, StartServices
<1>3. CASE \/ VerifyServices \/ CommitBaselines \/ RemoveBackup \/ FinalizerGivenUp \/ AnswerUnread
           \/ RestoreCore \/ RestoreSkills \/ RestoreDependencies \/ RestoreServices \/ CheckVersion
  BY <1>3 DEF VerifyServices, CommitBaselines, RemoveBackup, FinalizerGivenUp, AnswerUnread, RestoreCore,
    RestoreSkills, RestoreDependencies, RestoreServices, CheckVersion
<1>4. CASE RecoverUpgrade \/ SelfDies \/ ServiceDies
  BY <1>4 DEF RecoverUpgrade, SelfDies, ServiceDies
<1>5. CASE UNCHANGED selfVars
  BY <1>5 DEF selfVars
<1> QED BY <1>1, <1>2, <1>3, <1>4, <1>5 DEF SelfNext

LEMMA OfferStep == SelfInv /\ [SelfNext]_selfVars => OnOffer'
<1> SUFFICES ASSUME SelfInv, [SelfNext]_selfVars PROVE OnOffer'
  OBVIOUS
<1> DEFINE complete(d) == d.whole => d.skills # NoSkills
<1>1. /\ \A d \in Recoverable : d.state /\ complete(d)
      /\ txn # NoTransaction => txn \in Directories /\ complete(txn)
      /\ coreSkills \in SkillVersions /\ Lost \in SkillVersions /\ NoSkills \notin SkillVersions
      /\ \A d \in older : d.state /\ complete(d)
  BY SelfUpgradeAssumption DEF SelfInv, SelfTypeOK, OnOffer, Recoverable, SkillVersions
<1>2. SUFFICES /\ older' = older \/ older' \subseteq Recoverable
               /\ txn' # NoTransaction => complete(txn')
  BY <1>1, <1>2 DEF OnOffer
<1> HIDE DEF complete
<1>3. CASE StartSelfUpgrade
  BY <1>3 DEF StartSelfUpgrade
<1>4. CASE BackupSkills \/ BackupCutShort
  BY <1>1, <1>4 DEF BackupSkills, BackupCutShort, complete
<1>5. CASE PackCore \/ PersistState
  <2>1. txn # NoTransaction /\ older' = older /\ turn[2] \in {"pack", "persist"}
    BY <1>5 DEF PackCore, PersistState, By, RollsBack, SelfInv, BackedUp
  <2>2. \/ txn' = txn \/ txn' = [txn EXCEPT !.packed = TRUE]
        \/ txn' = [txn EXCEPT !.state = TRUE, !.was = mem.was]
    BY <1>5 DEF PackCore, PersistState
  <2>3. txn'.whole = txn.whole /\ txn'.skills = txn.skills
    BY <1>1, <2>1, <2>2 DEF Directories
  <2> QED BY <1>1, <2>1, <2>3 DEF complete
<1>6. CASE FinalizerGivenUp \/ SelfDies
  <2>1. /\ older' = older
        /\ txn' \in {txn, NoTransaction} \/ (txn \in Directories /\ txn' \in Remains(txn))
    <3>1. turn[1] = "finalizer" \/ turn[2] = "cleanup" => txn \in Directories
      BY <1>1 DEF SelfInv, SelfTypeOK, BackedUp, FinalizerSteps
    <3> QED BY <1>6, <3>1 DEF FinalizerGivenUp, SelfDies
  <2> QED BY <1>1, <2>1, RemainsFacts DEF complete
<1>7. CASE RecoverUpgrade
  BY <1>1, <1>7 DEF RecoverUpgrade
<1>8. CASE \/ CheckForCoreUpdates \/ DownloadCore \/ ConfirmUpgrade \/ PrepareUpgrade \/ StopServices
           \/ InstallCore \/ HandOver \/ SyncSkills \/ InstallSkillDeps \/ SyncInstructions
           \/ SyncSettingsHooks \/ EnsureCodexConfig \/ StartServices
  <2>1. UNCHANGED <<txn, older>>
    BY <1>8 DEF CheckForCoreUpdates, DownloadCore, ConfirmUpgrade, PrepareUpgrade, LeavesAlone, StopServices,
      InstallCore, HandOver, SyncSkills, InstallSkillDeps, SyncInstructions, SyncSettingsHooks,
      EnsureCodexConfig, StartServices
  <2> QED BY <1>1, <2>1
<1>9. CASE \/ VerifyServices \/ CommitBaselines \/ RemoveBackup \/ AnswerUnread \/ RestoreCore
           \/ RestoreSkills \/ RestoreDependencies \/ RestoreServices \/ CheckVersion \/ ServiceDies
  <2>1. older' = older /\ txn' \in {txn, NoTransaction}
    BY <1>9 DEF VerifyServices, CommitBaselines, RemoveBackup, AnswerUnread, RestoreCore, RestoreSkills,
      RestoreDependencies, RestoreServices, CheckVersion, ServiceDies
  <2> QED BY <1>1, <2>1
<1>10. CASE UNCHANGED selfVars
  BY <1>1, <1>10 DEF selfVars
<1> QED BY <1>3, <1>4, <1>5, <1>6, <1>7, <1>8, <1>9, <1>10 DEF SelfNext

\* One more directory, a sane one gone, none changed: what is left of a sane one.
LEMMA RescueStep == SelfInv /\ SelfTypeOK' /\ [SelfNext]_selfVars => spoilt' \/ Rescuable'
<1> SUFFICES ASSUME SelfInv, SelfTypeOK', [SelfNext]_selfVars, ~spoilt' PROVE Rescuable'
  OBVIOUS
<1>0. ~spoilt /\ Rescuable
  BY SpoiltStays DEF SelfInv
<1> USE <1>0 DEF SelfInv, SelfTypeOK, OnOffer, Rescuable, Fitting, HasSane, HasWhole, Recoverable, UpgraderSteps, FinalizerSteps,
      RollbackSteps, BeforeBackup, machine, By, Answer
<1>1. CASE StartSelfUpgrade
  BY <1>1 DEF StartSelfUpgrade
<1>2. CASE CheckForCoreUpdates
  BY <1>2 DEF CheckForCoreUpdates, LeavesAlone
<1>3. CASE DownloadCore \/ ConfirmUpgrade \/ PrepareUpgrade
  BY <1>3 DEF DownloadCore, ConfirmUpgrade, PrepareUpgrade, LeavesAlone
<1>4. CASE BackupSkills
  <2>1. ~txn'.state /\ txn'.from = mem.from /\ txn'.skills = coreSkills /\ txn'.whole
    BY <1>4 DEF BackupSkills
  <2>2. txn = NoTransaction /\ core = mem.from
    BY <1>4 DEF BackupSkills, Forward
  <2>3. Recoverable' = Recoverable
    BY <1>4, <2>1, <2>2 DEF BackupSkills
  <2> QED BY <1>4, <2>1, <2>2, <2>3 DEF BackupSkills
<1>5. CASE BackupCutShort
  <2>1. ~txn'.state /\ txn'.skills = Lost /\ txn'.whole
    BY <1>5 DEF BackupCutShort
  <2>2. txn = NoTransaction /\ ~mem.packed /\ mem'.packed = mem.packed
    BY <1>5 DEF BackupCutShort, RollsBack, Forward, Memories
  <2>3. Recoverable' = Recoverable
    BY <1>5, <2>1, <2>2 DEF BackupCutShort
  <2> QED BY <1>5, <2>1, <2>2, <2>3 DEF BackupCutShort, RollsBack
<1>6. CASE PackCore
  <2>1. turn[2] = "pack" /\ txn \in Directories /\ ~mem.packed /\ ~txn.state
    BY <1>6 DEF PackCore, RollsBack, BackedUp, Forward
  <2>2. ASSUME By("upgrader", "pack", "stop"), txn' = [txn EXCEPT !.packed = TRUE]
        PROVE  Rescuable'
    <3>1. /\ txn'.state = txn.state /\ txn'.from = txn.from /\ txn'.skills = txn.skills
          /\ txn'.packed /\ txn'.whole = txn.whole
      BY <2>1, <2>2 DEF Directories
    <3>2. Recoverable' = Recoverable
      BY <1>6, <2>1, <3>1 DEF PackCore
    <3>3. /\ turn[1] = "upgrader" /\ turn' = <<"upgrader", "stop">>
          /\ core' = core /\ coreSkills' = coreSkills /\ older' = older
      BY <1>6, <2>2 DEF PackCore
    <3>4. txn.whole /\ txn.from = core /\ txn.skills = coreSkills
      BY <2>1, SelfUpgradeAssumption
    <3> QED BY <2>1, <3>1, <3>2, <3>3, <3>4
  <2>3. ASSUME RollsBack("pack"), UNCHANGED <<txn, mem>>
        PROVE  Rescuable'
    BY <1>6, <2>1, <2>3 DEF PackCore, RollsBack
  <2> QED BY <1>6, <2>2, <2>3 DEF PackCore
<1>7. CASE StopServices
  BY <1>7 DEF StopServices
<1>8. CASE PersistState
  <2>1. /\ turn[2] = "persist" /\ txn \in Directories /\ txn # NoTransaction /\ core = mem.from
        /\ mem'.from = mem.from /\ mem'.packed = mem.packed
    BY <1>8 DEF PersistState, RollsBack, BackedUp, Forward, Memories
  <2>2. ASSUME By("upgrader", "persist", "install"), txn' = [txn EXCEPT !.state = TRUE, !.was = mem.was]
        PROVE  Rescuable'
    <3>1. /\ txn'.state /\ txn'.from = txn.from /\ txn'.skills = txn.skills
          /\ txn'.packed = txn.packed /\ txn'.whole = txn.whole
      BY <2>1, <2>2 DEF Directories
    <3>2. txn' # NoTransaction
      <4> DEFINE w == mem.was
      <4>1. w \in SUBSET CoreServices
        BY DEF Memories
      <4> HIDE DEF w
      <4>2. txn \in Directories /\ txn' = [txn EXCEPT !.state = TRUE, !.was = w]
        BY <2>1, <2>2 DEF w
      <4>3. txn' \in Directories
        BY <4>1, <4>2 DEF Directories
      <4> QED BY <4>3, SelfUpgradeAssumption
    <3>3. Recoverable = older /\ Recoverable' = older \cup {txn'}
      BY <1>8, <2>1, <3>1, <3>2 DEF PersistState
    <3>4. HasSane(Recoverable)'
      BY <2>1, <3>1, <3>3 DEF Sane, BackedUp
    <3> QED BY <1>8, <2>1, <2>2, <3>3, <3>4 DEF PersistState
  <2>3. ASSUME RollsBack("persist"), UNCHANGED txn
        PROVE  Rescuable'
    BY <1>8, <2>1, <2>3 DEF PersistState, RollsBack
  <2> QED BY <1>8, <2>2, <2>3 DEF PersistState
<1>9. CASE InstallCore
  BY <1>9 DEF InstallCore, RollsBack
<1>10. CASE HandOver
  BY <1>10 DEF HandOver, RollsBack
<1>11. CASE SyncSkills
  BY <1>11 DEF SyncSkills, RollsBack, SkillsAfter
<1>12. CASE InstallSkillDeps
  BY <1>12 DEF InstallSkillDeps, FinalizerFails, RollsBack
<1>13. CASE SyncInstructions
  BY <1>13 DEF SyncInstructions, FinalizerFails, RollsBack
<1>14. CASE SyncSettingsHooks
  BY <1>14 DEF SyncSettingsHooks, FinalizerFails, RollsBack
<1>15. CASE EnsureCodexConfig
  BY <1>15 DEF EnsureCodexConfig, FinalizerFails, RollsBack
<1>16. CASE StartServices
  BY <1>16 DEF StartServices, RollsBack
<1>17. CASE VerifyServices
  BY <1>17 DEF VerifyServices, RollsBack
<1>18. CASE CommitBaselines
  BY <1>18 DEF CommitBaselines
<1>30. CASE RemoveBackup
  <2>1. core = coreSkills /\ turn[1] = "finalizer"
    BY <1>30 DEF RemoveBackup, Forward
  <2>2. Recoverable' = older
    BY <1>30 DEF RemoveBackup
  <2> QED BY <1>30, <2>1, <2>2 DEF RemoveBackup
<1>19. CASE FinalizerGivenUp
  <2>1. txn \in Directories /\ txn' \in {txn} \cup Remains(txn) /\ txn'.whole
    <3>1. txn \in Directories /\ txn' \in {txn} \cup Remains(txn) /\ spoilt' = (spoilt \/ ~txn'.whole)
      BY <1>19 DEF FinalizerGivenUp, BackedUp
    <3> QED BY <3>1
  <2>2. txn' = txn
    BY <2>1, RemainsFacts
  <2>3. Recoverable' = Recoverable
    BY <1>19, <2>2 DEF FinalizerGivenUp
  <2> QED BY <1>19, <2>2, <2>3 DEF FinalizerGivenUp, BackedUp
<1>20. CASE AnswerUnread
  <2>1. core = coreSkills /\ turn[1] = "finalizer"
    BY <1>20 DEF AnswerUnread, Forward
  <2>2. Recoverable' = older
    BY <1>20 DEF AnswerUnread
  <2> QED BY <1>20, <2>1, <2>2 DEF AnswerUnread
<1>21. CASE RestoreCore
  <2>1. mem'.packed = mem.packed /\ mem'.from = mem.from
    BY <1>21 DEF RestoreCore, Noted, Memories
  <2>2. Recoverable' = Recoverable
    BY <1>21 DEF RestoreCore
  <2>3. core' = core \/ (mem.packed /\ txn # NoTransaction /\ core' = mem.from)
    BY <1>21 DEF RestoreCore
  <2> QED BY <1>21, <2>1, <2>2, <2>3 DEF RestoreCore
<1>22. CASE RestoreSkills
  <2>1. mem'.packed = mem.packed /\ mem'.from = mem.from
    BY <1>22 DEF RestoreSkills, Noted, Memories
  <2>2. Recoverable' = Recoverable
    BY <1>22 DEF RestoreSkills
  <2>3. \/ coreSkills' = coreSkills
        \/ txn # NoTransaction /\ coreSkills' \in {txn.skills, IF txn.state THEN Mixed ELSE Lost}
    BY <1>22 DEF RestoreSkills, HasSkills, HalfRestored
  <2>4. txn # NoTransaction /\ txn.state => HasSane(Recoverable)
    BY <1>22 DEF RestoreSkills
  <2> QED BY <1>22, <2>1, <2>2, <2>3, <2>4 DEF RestoreSkills
<1>23. CASE RestoreDependencies
  <2>1. mem'.packed = mem.packed /\ mem'.from = mem.from
    BY <1>23 DEF RestoreDependencies, Noted, Memories
  <2> QED BY <1>23, <2>1 DEF RestoreDependencies
<1>24. CASE RestoreServices
  <2>1. mem'.packed = mem.packed /\ mem'.from = mem.from
    BY <1>24 DEF RestoreServices, Noted, Memories
  <2> QED BY <1>24, <2>1 DEF RestoreServices
<1>25. CASE CheckVersion
  BY <1>25 DEF CheckVersion
<1>26. CASE RecoverUpgrade
  <2>1. PICK d \in Recoverable :
          txn' = d /\ older' = Recoverable \ {d} /\ spoilt' = (spoilt \/ ~d.whole)
    BY <1>26 DEF RecoverUpgrade
  <2>2. d # NoTransaction /\ d.whole /\ \A e \in Recoverable : e.state
    BY <2>1, SelfUpgradeAssumption
  <2>3. Recoverable' = Recoverable
    BY <2>1, <2>2
  <2> QED BY <1>26, <2>1, <2>2, <2>3 DEF RecoverUpgrade
<1>27. CASE SelfDies
  <2>1. CASE turn[2] = "cleanup"
    <3>1. /\ core' = core /\ coreSkills' = coreSkills /\ older' = older /\ turn' = <<"nobody", "idle">>
          /\ txn' \in {txn, NoTransaction} \cup Remains(txn) /\ txn \in Directories
      BY <1>27, <2>1 DEF SelfDies, BackedUp
    <3>2. core = coreSkills /\ HasSane(Recoverable) /\ turn[1] = "finalizer"
      BY <2>1 DEF Forward
    <3>3. CASE txn' = txn
      <4>1. Recoverable' = Recoverable
        BY <3>1, <3>3
      <4> QED BY <3>1, <3>2, <3>3, <4>1
    <3>4. CASE txn' # txn
      <4>1. \A d \in Recoverable' : d.whole => d \in older
        BY <3>1, <3>4, RemainsFacts
      <4>2. HasSane(older) => HasSane(Recoverable')
        BY <3>1
      <4> QED BY <3>1, <3>2, <4>1, <4>2
    <3> QED BY <3>3, <3>4
  <2>2. CASE turn[2] # "cleanup"
    <3>1. Recoverable' = Recoverable
      BY <1>27, <2>2 DEF SelfDies
    <3>2. turn' = <<"nobody", "idle">> /\ older' = older /\ txn' = txn
      BY <1>27, <2>2 DEF SelfDies
    <3>3. HasSane(Recoverable) \/ Fitting'
      <4> SUFFICES ASSUME ~HasSane(Recoverable)
                   PROVE  Fitting'
        OBVIOUS
      <4>1. core' = core
        BY <1>27 DEF SelfDies
      <4>2. CASE turn[2] = "skills"
        <5>1. coreSkills' \in {coreSkills, HalfRestored} /\ (txn = NoTransaction \/ ~txn.state)
          BY <1>27, <4>2 DEF SelfDies
        <5> QED BY <4>1, <5>1 DEF HalfRestored, HasSkills
      <4>3. CASE turn[2] # "skills"
        <5>1. coreSkills' = coreSkills
          BY <1>27, <4>3 DEF SelfDies
        <5> QED BY <4>1, <5>1
      <4> QED BY <4>2, <4>3
    <3> QED BY <3>1, <3>2, <3>3
  <2> QED BY <2>1, <2>2
<1>28. CASE ServiceDies
  BY <1>28 DEF ServiceDies
<1>29. CASE UNCHANGED selfVars
  BY <1>29 DEF selfVars
<1> QED BY <1>1, <1>2, <1>3, <1>4, <1>5, <1>6, <1>7, <1>8, <1>9, <1>10, <1>11, <1>12, <1>13, <1>14, <1>15, <1>16, <1>17, <1>18, <1>19, <1>20, <1>21, <1>22, <1>23, <1>24, <1>25, <1>26, <1>27, <1>28, <1>29, <1>30 DEF SelfNext

LEMMA SelfInitInv == SelfInit => SelfInv
<1> SUFFICES ASSUME SelfInit PROVE SelfInv
  OBVIOUS
<1>1. SelfTypeOK
  BY NoMemory DEF SelfInit, SelfTypeOK, SkillVersions, UpgraderSteps, FinalizerSteps, NoMem
<1>2. turn[1] = "nobody" /\ turn[2] = "idle" /\ verdict = NoVerdict
  BY DEF SelfInit
<1>3. Forward /\ BackedUp /\ OnOffer
  BY <1>2 DEF SelfInit, Forward, BackedUp, OnOffer, BeforeBackup, UpgraderSteps, FinalizerSteps, RollbackSteps
<1>4. Rescuable
  BY <1>2 DEF SelfInit, Rescuable, Recoverable, Fitting, HasWhole, RollbackSteps
<1>5. AnswerIsTrue
  BY <1>2 DEF AnswerIsTrue, UpgradedIsNew, RestoredIsOld, NoVerdict
<1> QED BY <1>1, <1>3, <1>4, <1>5 DEF SelfInv

LEMMA SelfInvCorrect == SelfSpec => []SelfInv
<1>1. SelfInv /\ [SelfNext]_selfVars => SelfInv'
  <2> SUFFICES ASSUME SelfInv, [SelfNext]_selfVars PROVE SelfInv'
    OBVIOUS
  <2>1. SelfTypeOK'
    BY SelfTypeStep DEF SelfInv
  <2> QED BY <2>1, SelfForwardStep, AnswerStep, OfferStep, RescueStep DEF SelfInv
<1> QED BY <1>1, SelfInitInv, PTL DEF SelfSpec

\* Whatever fails, times out or is given up on the way, an upgrade of the core that is
\* answered as done has the new package, skills and hooks and instructions no older, one
\* answered as rolled back from a whole backup has the old package and skills, and after
\* either every service that ran runs (runSelfUpgrade, rollbackSelf, buildSelfUpgradeResult).
THEOREM AnswerIsTrueCorrect == SelfSpec => []AnswerIsTrue
<1>1. SelfInv => AnswerIsTrue
  BY DEF SelfInv
<1> QED BY <1>1, SelfInvCorrect, PTL

\* Wherever upgrader and finalizer die, be it while the backup is removed, a package and
\* skills that do not belong together come with a whole transaction directory that --recover
\* accepts and that holds a pair that does, unless some rollback had only what a removal had
\* left of its backup (step1_backupCoreSkills, persistRollbackState, cleanupBackup,
\* recoverSelfUpgrade).
THEOREM MixedIsRecoverableCorrect == SelfSpec => []MixedIsRecoverable
<1>1. SelfInv => MixedIsRecoverable
  BY DEF SelfInv, Rescuable, Fitting, HasSane, Sane, MixedIsRecoverable
<1> QED BY <1>1, SelfInvCorrect, PTL

=============================================================================
