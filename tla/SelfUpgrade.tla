----------------------------- MODULE SelfUpgrade -----------------------------
(***************************************************************************)
(* The upgrade of the core itself: cli/lib/self-upgrade.js,                *)
(* self-upgrade-finalize.js and upgradeSelfCore of component.js.           *)
(*                                                                         *)
(* The old code prepares, backs up, stops the services, installs the new   *)
(* package and hands over to the finalizer of the new package, a child     *)
(* process that merges the core skills, refreshes instructions and hooks   *)
(* and starts the services.  Either process can fail at a step and roll    *)
(* back; the parent kills a child that takes too long and rolls back after *)
(* it; both can die.  yos upgrade --self --recover rolls back from the     *)
(* directory that a transaction left.                                      *)
(***************************************************************************)
EXTENDS Naturals, FiniteSets

CONSTANTS
  MaxVersion,    \* the last core release, counted from 1
  MaxKept,       \* bound: directories of failed upgrades before another begins
  CoreServices,  \* PM2 services that run from the skills directory
  NoTransaction,     \* no transaction directory
  Mixed,         \* core skills of two versions, after a merge or restore cut short
  Lost,          \* core skills damaged by a rollback from a backup that was not whole,
                 \* or with no state on record yet
  NoSkills       \* a directory from which the skills have been removed

\* The versions the core skills may be at, and a transaction directory: the version, the
\* skills and the running services to go back to, the core packed, the state file written;
\* and whether its removal has not begun.
SkillVersions == Nat \cup {Mixed, Lost}
Directories == [from : Nat, skills : SkillVersions \cup {NoSkills}, packed : BOOLEAN,
                state : BOOLEAN, was : SUBSET CoreServices, whole : BOOLEAN]

ASSUME SelfUpgradeAssumption ==
  /\ MaxVersion \in Nat /\ MaxKept \in Nat /\ IsFiniteSet(CoreServices)
  /\ NoTransaction \notin Directories /\ NoSkills \notin SkillVersions

VARIABLES
  core,          \* the installed core package
  coreSkills,    \* the version of the core skills in ~/yos/.claude/skills
  settings,      \* the version of the instructions, the hooks, the Codex configuration
  online,        \* the services that run
  txn,           \* the directory of the last transaction, or NoTransaction
  older,         \* directories of earlier transactions that --recover accepts
  turn,          \* the step about to be made, and by which process
  mem,           \* what the upgrader, and the state file, carry along
  verdict,       \* the answer of the last upgrade or recovery
  spoilt         \* some rollback has had only what a removal left of its backup

machine == <<core, coreSkills, settings, online>>
selfVars == <<machine, txn, older, turn, mem, verdict, spoilt>>

SettingParts == {"instructions", "hooks", "codex"}
NoMem == [from |-> 0, to |-> 0, skills |-> 0, was |-> {}, copied |-> "none", packed |-> FALSE,
          attempted |-> FALSE, failures |-> {}]
NoVerdict == [answer |-> "none", mem |-> NoMem]

SelfInit ==
  /\ core = 1 /\ coreSkills = 1 /\ online = CoreServices
  /\ settings = [p \in SettingParts |-> 1]
  /\ txn = NoTransaction /\ older = {} /\ turn = <<"nobody", "idle">>
  /\ mem = NoMem /\ verdict = NoVerdict /\ spoilt = FALSE

\* What is on disk beside the directory in use: nothing ever removes it.
Recoverable == older \cup {d \in {txn}: d # NoTransaction /\ d.state}

By(process, from, to) ==
  turn = <<process, from>> /\ turn' = <<process, to>> /\ UNCHANGED <<verdict, spoilt>>

Answer(from, answer) ==
  /\ turn[2] = from
  /\ turn' = <<"nobody", "idle">>
  /\ verdict' = [answer |-> answer, mem |-> mem]
  /\ mem' = NoMem
  /\ UNCHANGED spoilt

\* A step that failed: the process that made it rolls back.
RollsBack(from) ==
  /\ turn[2] = from
  /\ turn' = <<turn[1], "core">>
  /\ UNCHANGED <<verdict, spoilt>>

-----------------------------------------------------------------------------
(* The command and steps 0 to 4, the old code *)

\* upgradeSelfCore, under the lock of the core.
StartSelfUpgrade ==
  /\ turn[2] = "idle" /\ Cardinality(Recoverable) <= MaxKept
  /\ turn' = <<"upgrader", "check">>
  /\ mem' = [NoMem EXCEPT !.from = core, !.to = core, !.skills = coreSkills]
  /\ verdict' = NoVerdict
  /\ older' = Recoverable /\ txn' = NoTransaction
  /\ UNCHANGED <<machine, spoilt>>

\* The command ends before it has touched anything.
LeavesAlone(from) ==
  /\ Answer(from, "untouched")
  /\ UNCHANGED <<machine, txn, older>>

\* checkForCoreUpdates: a newer release, or the command ends; so it does with
\* --check, whatever there is.
CheckForCoreUpdates ==
  \/ /\ core < MaxVersion
     /\ By("upgrader", "check", "download")
     /\ mem' = [mem EXCEPT !.to = core + 1]
     /\ UNCHANGED <<machine, txn, older>>
  \/ LeavesAlone("check")

DownloadCore ==
  \/ By("upgrader", "download", "confirm") /\ UNCHANGED <<machine, txn, older, mem>>
  \/ LeavesAlone("download")

ConfirmUpgrade ==
  \/ By("upgrader", "confirm", "prepare") /\ UNCHANGED <<machine, txn, older, mem>>
  \/ LeavesAlone("confirm")

\* Disk space and npm are checked; the candidate is packed and the dependencies
\* of the skills are installed, in a directory of their own.
PrepareUpgrade ==
  \/ By("upgrader", "prepare", "backup") /\ UNCHANGED <<machine, txn, older, mem>>
  \/ LeavesAlone("prepare")

\* The directory is on record before anything is copied into it; the skills
\* and their baselines, the PM2 ecosystem file and the packed core follow.
BackupSkills ==
  /\ By("upgrader", "backup", "pack")
  /\ txn' = [from |-> mem.from, skills |-> coreSkills, packed |-> FALSE, state |-> FALSE,
            was |-> {}, whole |-> TRUE]
  /\ mem' = [mem EXCEPT !.copied = "all"]
  /\ UNCHANGED <<machine, older>>

BackupCutShort ==
  /\ RollsBack("backup")
  /\ txn' = [from |-> mem.from, skills |-> Lost, packed |-> FALSE, state |-> FALSE,
            was |-> {}, whole |-> TRUE]
  /\ mem' = [mem EXCEPT !.copied = "part"]
  /\ UNCHANGED <<machine, older>>

PackCore ==
  /\ \/ /\ By("upgrader", "pack", "stop")
        /\ txn' = [txn EXCEPT !.packed = TRUE]
        /\ mem' = [mem EXCEPT !.packed = TRUE]
     \/ RollsBack("pack") /\ UNCHANGED <<txn, mem>>
  /\ UNCHANGED <<machine, older>>

\* Those that ran are to run again, whether or not PM2 stops them; a list that
\* cannot be read counts as no services.
StopServices ==
  /\ By("upgrader", "stop", "persist")
  /\ \/ /\ online' \in SUBSET online
        /\ mem' = [mem EXCEPT !.was = online]
     \/ UNCHANGED <<online, mem>>
  /\ UNCHANGED <<core, coreSkills, settings, txn, older>>

\* Mutant: the state is written after the install.
InstallsFirst ==
  /\ mem' = [mem EXCEPT !.attempted = TRUE]
  /\ \/ By("upgrader", "persist", "install") /\ core' = mem.to
     \/ RollsBack("persist") /\ UNCHANGED core
  /\ UNCHANGED <<coreSkills, settings, online, txn, older>>

\* rollback-state.json is written before the package is touched.
PersistState ==
  /\ mem' = [mem EXCEPT !.attempted = TRUE]
  /\ \/ /\ By("upgrader", "persist", "install")
        /\ txn' = [txn EXCEPT !.state = TRUE, !.was = mem.was]
     \/ RollsBack("persist") /\ UNCHANGED txn
  /\ UNCHANGED <<machine, older>>

\* npm replaces the package; one that fails or times out may have replaced it.
InstallCore ==
  /\ \/ By("upgrader", "install", "handoff") /\ core' = mem.to
     \/ RollsBack("install") /\ core' \in {core, mem.to}
  /\ UNCHANGED <<coreSkills, settings, online, txn, mem, older>>

-----------------------------------------------------------------------------
(* Steps 5 to 13, the finalizer of the new code *)

HandOver ==
  /\ \/ turn = <<"upgrader", "handoff">> /\ turn' = <<"finalizer", "sync">> /\ UNCHANGED <<verdict, spoilt>>
     \/ RollsBack("handoff")
  /\ UNCHANGED <<machine, txn, mem, older>>

\* syncCoreSkills: every skill is merged; an error in one leaves the others.
SkillsAfter(errors) == IF errors THEN Mixed ELSE mem.to

SyncSkills ==
  /\ \/ By("finalizer", "sync", "deps") /\ coreSkills' = SkillsAfter(FALSE)
     \/ turn[1] = "finalizer" /\ RollsBack("sync") /\ coreSkills' = SkillsAfter(TRUE)
  /\ UNCHANGED <<core, settings, online, txn, mem, older>>

FinalizerFails(step) == turn[1] = "finalizer" /\ RollsBack(step)
Refreshed(part) == settings' = [settings EXCEPT ![part] = mem.to]

\* npm install in every skill that declares dependencies; one that fails fails
\* the step.
InstallSkillDeps ==
  /\ By("finalizer", "deps", "instructions") \/ FinalizerFails("deps")
  /\ UNCHANGED <<machine, txn, mem, older>>

\* The split instructions are replaced as a whole or not at all; those in a format of
\* a later release, which a rollback has left, stay.
SyncInstructions ==
  /\ \/ By("finalizer", "instructions", "hooks") /\ Refreshed("instructions")
     \/ /\ By("finalizer", "instructions", "hooks")
        /\ settings["instructions"] > mem.to /\ UNCHANGED settings
     \/ FinalizerFails("instructions") /\ UNCHANGED settings
  /\ UNCHANGED <<core, coreSkills, online, txn, mem, older>>

\* The sync script of the new package, with a minute to end: one that is killed
\* may have written the settings or not.
SyncSettingsHooks ==
  /\ \/ By("finalizer", "hooks", "codex") /\ Refreshed("hooks")
     \/ FinalizerFails("hooks") /\ (Refreshed("hooks") \/ UNCHANGED settings)
  /\ UNCHANGED <<core, coreSkills, online, txn, mem, older>>

\* Only a machine that runs Codex fails on it; one that does not use it skips it.
EnsureCodexConfig ==
  /\ \/ By("finalizer", "codex", "start") /\ (Refreshed("codex") \/ UNCHANGED settings)
     \/ FinalizerFails("codex") /\ UNCHANGED settings
  /\ UNCHANGED <<core, coreSkills, online, txn, mem, older>>

\* All are tried; the activity monitor's environment and pm2 save are checked.
StartServices ==
  /\ \/ By("finalizer", "start", "verify") /\ online' = online \cup mem.was
     \/ /\ turn[1] = "finalizer" /\ mem.was # {} /\ RollsBack("start")
        /\ \E s \in SUBSET mem.was: online' = online \cup s
  /\ UNCHANGED <<core, coreSkills, settings, txn, mem, older>>

\* Mutant: the services are not looked at again.
NotVerified ==
  /\ By("finalizer", "verify", "baselines")
  /\ UNCHANGED <<machine, txn, mem, older>>

\* A service that has died again within thirty seconds fails the upgrade.
VerifyServices ==
  /\ \/ By("finalizer", "verify", "baselines") /\ mem.was \subseteq online
     \/ turn[1] = "finalizer" /\ mem.was # {} /\ RollsBack("verify")
  /\ UNCHANGED <<machine, txn, mem, older>>

\* The baselines come last: an error there is a warning, and the backup stays.
CommitBaselines ==
  /\ turn[1] = "finalizer"
  /\ \/ By("finalizer", "baselines", "cleanup") /\ UNCHANGED mem
     \/ Answer("baselines", "warned")
  /\ UNCHANGED <<machine, txn, older>>

\* cleanupBackup, and the answer is printed.
RemoveBackup ==
  /\ turn[1] = "finalizer" /\ Answer("cleanup", "upgraded")
  /\ txn' = NoTransaction
  /\ UNCHANGED <<machine, older>>

\* What a removal that throws or is killed leaves: any part of the skills, of the packed
\* core and of the state file.
Remains(d) ==
  {[d EXCEPT !.skills = s, !.packed = p, !.state = f, !.whole = FALSE] :
     s \in {d.skills, Lost, NoSkills}, p \in {FALSE, d.packed}, f \in {FALSE, d.state}}

\* The upgrader gives up on the finalizer: no answer in three minutes, output that is
\* not an answer, or a child that died or threw, be it while it removed the backup.
FinalizerGivenUp ==
  /\ turn[1] = "finalizer"
  /\ turn' = <<"upgrader", "core">>
  /\ coreSkills' \in IF turn[2] = "sync" THEN {coreSkills, Mixed} ELSE {coreSkills}
  /\ txn' \in IF turn[2] = "cleanup" THEN {txn} \cup Remains(txn) ELSE {txn}
  /\ mem' = [mem EXCEPT !.failures = {}, !.copied = IF txn'.whole THEN @ ELSE "part"]
  /\ spoilt' = (spoilt \/ ~txn'.whole)
  /\ UNCHANGED <<core, settings, online, verdict, older>>

\* The backup is gone, and the answer did not arrive.
AnswerUnread ==
  /\ turn = <<"finalizer", "cleanup">>
  /\ turn' = <<"upgrader", "core">>
  /\ txn' = NoTransaction
  /\ UNCHANGED <<machine, mem, verdict, older, spoilt>>

-----------------------------------------------------------------------------
(* rollbackSelf *)

Noted(failure) == mem' = [mem EXCEPT !.failures = @ \cup {failure}]

\* The packed core is installed again, where the install was tried or packed.
\* npm may succeed without bringing the old version back.
RestoreCore ==
  /\ turn[2] = "core" /\ turn' = <<turn[1], "skills">> /\ UNCHANGED <<verdict, spoilt>>
  /\ \/ ~mem.attempted /\ ~mem.packed /\ UNCHANGED <<core, mem>>
     \/ /\ mem.packed /\ txn # NoTransaction /\ txn.packed
        /\ core' \in {mem.from, core}
        /\ UNCHANGED mem
     \/ (mem.attempted \/ mem.packed) /\ Noted("core") /\ UNCHANGED core
  /\ UNCHANGED <<coreSkills, settings, online, txn, older>>

HasSkills == txn # NoTransaction /\ txn.skills # NoSkills

\* What a restore cut short leaves.
HalfRestored ==
  IF ~HasSkills THEN coreSkills ELSE IF txn.state /\ txn.whole THEN Mixed ELSE Lost

\* syncTree from the backup, wherever the backup has a skills directory, and the
\* two trees compared; neither tells a part of a backup from all of it.
RestoreSkills ==
  /\ turn[2] = "skills" /\ turn' = <<turn[1], "restoreDeps">> /\ UNCHANGED <<verdict, spoilt>>
  /\ \/ HasSkills /\ coreSkills' = txn.skills /\ UNCHANGED mem
     \/ HasSkills /\ coreSkills' = HalfRestored /\ Noted("skills")
     \/ ~HasSkills /\ UNCHANGED <<coreSkills, mem>>
  /\ UNCHANGED <<core, settings, online, txn, older>>

\* npm install in every skill again, and the ecosystem file of PM2.
RestoreDependencies ==
  /\ turn[2] = "restoreDeps" /\ turn' = <<turn[1], "services">> /\ UNCHANGED <<verdict, spoilt>>
  /\ Noted("rest") \/ UNCHANGED mem
  /\ UNCHANGED <<machine, txn, older>>

\* Every service, and a look at them for half a minute.
RestoreServices ==
  /\ turn[2] = "services" /\ turn' = <<turn[1], "version">> /\ UNCHANGED <<verdict, spoilt>>
  /\ \/ online' = online \cup mem.was /\ UNCHANGED mem
     \/ /\ \E s \in SUBSET mem.was: online' = online \cup s
        /\ Noted("rest")
  /\ UNCHANGED <<core, coreSkills, settings, txn, older>>

\* Mutant: the restored version is not compared with the one before.
VersionUnchecked ==
  /\ IF mem.failures = {} THEN Answer("version", "restored")
     ELSE Answer("version", "recovery_required")
  /\ UNCHANGED <<machine, txn, older>>

\* The version now installed is compared with the one before the upgrade.
CheckVersion ==
  /\ IF mem.failures = {} /\ ((mem.attempted \/ mem.packed) => core = mem.from)
     THEN Answer("version", "restored")
     ELSE Answer("version", "recovery_required")
  /\ UNCHANGED <<machine, txn, older>>

-----------------------------------------------------------------------------
\* yos upgrade --self --recover: the state file of the directory, or a refusal.
RecoverUpgrade ==
  /\ turn[2] = "idle"
  /\ turn' = <<"recovery", "core">>
  /\ verdict' = NoVerdict
  /\ \E d \in Recoverable:
       /\ txn' = d /\ older' = Recoverable \ {d}
       /\ mem' = [NoMem EXCEPT !.from = d.from, !.was = d.was, !.packed = TRUE,
                               !.attempted = TRUE, !.skills = d.skills,
                               !.copied = IF d.whole THEN "all" ELSE "part"]
       /\ spoilt' = (spoilt \/ ~d.whole)
  /\ UNCHANGED machine

\* Upgrader and finalizer die together.
SelfDies ==
  /\ turn[2] # "idle"
  /\ turn' = <<"nobody", "idle">> /\ mem' = NoMem /\ verdict' = NoVerdict
  /\ coreSkills' \in {coreSkills} \cup IF turn[2] = "sync" THEN {Mixed}
                                      ELSE IF turn[2] = "skills" THEN {HalfRestored} ELSE {}
  /\ core' \in IF turn[2] = "install" THEN {core, mem.to} ELSE {core}
  /\ txn' \in IF turn[2] = "cleanup" THEN {txn, NoTransaction} \cup Remains(txn) ELSE {txn}
  /\ UNCHANGED <<settings, online, older, spoilt>>

ServiceDies ==
  /\ turn[2] \in {"idle", "verify"} /\ verdict = NoVerdict
  /\ \E s \in online: online' = online \ {s}
  /\ UNCHANGED <<core, coreSkills, settings, txn, older, turn, mem, verdict, spoilt>>

SelfNext ==
  \/ StartSelfUpgrade \/ CheckForCoreUpdates \/ DownloadCore \/ ConfirmUpgrade \/ PrepareUpgrade
  \/ BackupSkills \/ BackupCutShort \/ PackCore \/ StopServices \/ PersistState
  \/ InstallCore \/ HandOver \/ SyncSkills \/ InstallSkillDeps
  \/ SyncInstructions \/ SyncSettingsHooks \/ EnsureCodexConfig \/ StartServices
  \/ VerifyServices \/ CommitBaselines \/ RemoveBackup \/ FinalizerGivenUp \/ AnswerUnread
  \/ RestoreCore \/ RestoreSkills \/ RestoreDependencies \/ RestoreServices \/ CheckVersion
  \/ RecoverUpgrade \/ SelfDies \/ ServiceDies

SelfSpec == SelfInit /\ [][SelfNext]_selfVars

-----------------------------------------------------------------------------
(* Properties *)

UpgradedIsNew ==
  verdict.answer \in {"upgraded", "warned"} =>
    /\ core = verdict.mem.to /\ coreSkills = verdict.mem.to
    /\ settings["instructions"] >= verdict.mem.to /\ settings["hooks"] = verdict.mem.to
    /\ verdict.mem.was \subseteq online

RestoredIsOld ==
  verdict.answer = "restored" =>
    /\ verdict.mem.attempted \/ verdict.mem.packed => core = verdict.mem.from
    /\ verdict.mem.copied = "all" => coreSkills = verdict.mem.skills
    /\ verdict.mem.was \subseteq online

\* The answer says what is installed: an upgrade reported as done has the
\* package, skills and hooks of the new version, and its instructions or those of a
\* later one; a rollback reported as complete brought back the old package and,
\* unless the backup was cut short or partly removed, the skills as they were; after
\* either, every service that ran before runs.
AnswerIsTrue == UpgradedIsNew /\ RestoredIsOld

\* Wherever processes die, time out or fail once the new package may be in place, a
\* package and skills that do not belong together come with a directory that --recover
\* accepts and that holds a pair that does; unless a rollback has worked with what an
\* unfinished removal had left of its backup.  Until then a removal never takes what is
\* still needed: it begins when package and skills are both new.
MixedIsRecoverable ==
  turn[2] = "idle" /\ core # coreSkills /\ coreSkills # Lost /\ ~spoilt =>
    \E d \in Recoverable: d.whole /\ d.packed /\ d.skills \in {d.from, Lost}
=============================================================================
