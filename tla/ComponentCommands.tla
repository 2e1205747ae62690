-------------------------- MODULE ComponentCommands --------------------------
(***************************************************************************)
(* What the commands that add, upgrade and remove a component do to one    *)
(* installed component: cli/commands/add.js, cli/commands/component.js,    *)
(* cli/lib/upgrade.js, cli/lib/smart-merge.js and the helpers they call    *)
(* for services, command links and Caddy routes.                           *)
(*                                                                         *)
(* A command runs step by step on what earlier commands left: the skill    *)
(* directory with the files the user may have edited, the merge baseline,  *)
(* the backups, the record in components.json, the PM2 service.  Any step  *)
(* that calls the network, npm, PM2 or the filesystem can fail, and the    *)
(* process can die between two steps.  One command runs at a time: the     *)
(* upgrade lock sees to it for upgrades (module UpgradeLock).  The merge   *)
(* baseline is taken in one step here, which AtomicBaseline justifies.     *)
(* Command links, Caddy routes and the data directory are left out of the  *)
(* state: no step decides on them.                                         *)
(***************************************************************************)
EXTENDS Naturals, SequencesExt

CONSTANTS
  Versions,      \* released versions of the component, in their order
  Files,         \* the files some version has
  SkillMd,       \* SKILL.md, which names the version
  Text,          \* the text each version has for each file, or Missing
  Missing,       \* no file, no record, no baseline, no service
  Gone,          \* no skill directory
  Stopped,       \* a service PM2 knows and does not run
  MaxBackups     \* bound: upgrades that left their backup behind

\* What a file holds, the text a version has for it, edited by the user or not; and
\* what a directory holds.
Contents == [text : Versions, edited : BOOLEAN]
Trees == [Files -> Contents \cup {Missing}]

ASSUME ComponentAssumption ==
  /\ SkillMd \in Files
  /\ Text \in [Versions -> [Files -> Versions \cup {Missing}]]
  /\ \A v \in Versions: Text[v][SkillMd] = v
  /\ Versions \subseteq Nat /\ MaxBackups \in Nat
  /\ Missing \notin Versions \cup Contents /\ Gone \notin Trees
  /\ Stopped \notin Versions \cup {Missing}

VARIABLES
  skill,         \* the skill directory: what each file holds, or Gone
  base,          \* the version of the merge baseline (.yos/)
  backups,       \* .backup/, oldest first: the files, and the conflicts copied aside
  record,        \* the version in components.json
  service,       \* PM2: Missing, Stopped or the version an online process has loaded
  cmd,           \* the command that runs
  step,          \* its next step
  ctx,           \* what the command keeps in memory
  adrift         \* a command died or broke off with nothing undone, and none succeeded since

installed == <<skill, base, backups, record, service>>
componentVars == <<installed, cmd, step, ctx, adrift>>

\* The directory of a version as it is downloaded.
Pristine(v) == [f \in Files |-> IF Text[v][f] = Missing THEN Missing
                                ELSE [text |-> Text[v][f], edited |-> FALSE]]

NoContext == [to |-> Missing, mode |-> "merge", before |-> Gone, from |-> Missing,
              wasRunning |-> FALSE, saved |-> FALSE, todo |-> {},
              errors |-> {}, outcome |-> "none"]

ComponentInit ==
  /\ skill = Gone /\ base = Missing /\ backups = <<>> /\ record = Missing
  /\ service = Missing
  /\ cmd = "none" /\ step = "idle" /\ ctx = NoContext /\ adrift = FALSE

Installed == skill # Gone
VersionOf == IF Installed /\ skill[SkillMd] # Missing THEN skill[SkillMd].text ELSE Missing
Online == service \notin {Missing, Stopped}

\* From one step of the running command to its next.
Step(from, to) == step = from /\ step' = to /\ UNCHANGED <<cmd, adrift>>

Ends(from, outcome) ==
  /\ Step(from, "ended")
  /\ ctx' = [ctx EXCEPT !.outcome = outcome]

StartCommand(command, first, c) ==
  /\ cmd = "none"
  /\ cmd' = command /\ step' = first
  /\ ctx' = c
  /\ UNCHANGED <<installed, adrift>>

\* An error that the command does not handle, or one of its clean-up that it ignores.
BreaksOff(from, outcome) ==
  /\ step = from /\ step' = "ended"
  /\ ctx' = [ctx EXCEPT !.outcome = outcome]
  /\ adrift' = TRUE /\ UNCHANGED cmd

\* The answer has been printed; what went wrong before is made good by a success.
FinishCommand ==
  /\ step = "ended"
  /\ cmd' = "none" /\ step' = "idle" /\ ctx' = NoContext
  /\ adrift' = (adrift /\ ctx.outcome # "ok")
  /\ UNCHANGED installed

CommandDies ==
  /\ step \notin {"idle", "ended"}
  /\ adrift' = TRUE
  /\ cmd' = "none" /\ step' = "idle" /\ ctx' = NoContext
  /\ UNCHANGED installed

\* The process dies in saveComponents: a cut-off components.json reads as empty.
DiesInSave ==
  /\ step \in {"register", "unregister", "record", "link"}
  /\ record' = Missing
  /\ adrift' = TRUE
  /\ cmd' = "none" /\ step' = "idle" /\ ctx' = NoContext
  /\ UNCHANGED <<skill, base, backups, service>>

\* A copy or a removal that fails half way leaves any part of a directory.
CutShort(tree) ==
  {[f \in Files |-> IF f \in kept THEN tree[f] ELSE Missing] : kept \in SUBSET Files}

\* cleanup(skillDir), or rmSync: all of the directory goes, or there is an error.  A
\* baseline or backup of which a part is left counts as whole or as gone: the next
\* upgrade makes its own backup, and what a torn baseline does is in MergeBaseline.
RemoveDirectory ==
  /\ skill' = Gone /\ base' = Missing /\ backups' = <<>>
RemoveSome ==
  /\ skill' \in CutShort(skill) /\ base' \in {base, Missing} /\ backups' \in {backups, <<>>}

-----------------------------------------------------------------------------
(* The user and the service, between commands *)

EditFile(f) ==
  /\ cmd = "none" /\ Installed /\ skill[f] # Missing
  /\ skill' = [skill EXCEPT ![f].edited = TRUE]
  /\ UNCHANGED <<base, backups, record, service, cmd, step, ctx, adrift>>

StopService ==
  /\ cmd = "none" /\ Online
  /\ service' = Stopped
  /\ UNCHANGED <<skill, base, backups, record, cmd, step, ctx, adrift>>

-----------------------------------------------------------------------------
(* yos add *)

\* A registered component is not added again.
Add(v) == record = Missing /\ StartCommand("add", "acquire", [NoContext EXCEPT !.to = v])

\* A directory without a record: neither added nor upgraded.
DirectoryInTheWay ==
  /\ cmd = "add" /\ Installed
  /\ Ends("acquire", "refused")
  /\ UNCHANGED installed

\* The source is put in the directory and its baseline saved; an error of the
\* baseline only costs the next merge.
Acquire ==
  /\ cmd = "add" /\ ~Installed
  /\ Step("acquire", "prepare")
  /\ skill' = Pristine(ctx.to)
  /\ base' \in {ctx.to, Missing}
  /\ UNCHANGED <<backups, record, service, ctx>>

\* The download fails and what is there of it is removed, if that can be removed.
AcquireFails ==
  /\ cmd = "add" /\ ~Installed
  /\ \/ Ends("acquire", "failed") /\ UNCHANGED skill
     \/ BreaksOff("acquire", "failed") /\ skill' \in CutShort(Pristine(ctx.to))
  /\ UNCHANGED <<base, backups, record, service>>

\* A declarative component: engine check, npm install, the data directory.
Prepare ==
  /\ Step("prepare", "register")
  /\ UNCHANGED <<skill, base, backups, record, service, ctx>>

\* An AI component is only recorded; the agent is asked to do the rest.
Hand ==
  /\ Ends("prepare", "ok")
  /\ record' = ctx.to
  /\ UNCHANGED <<skill, base, backups, service>>

\* The data directory of a declarative component cannot be made, or an AI component
\* not recorded: nothing catches the error, and the directory stays.
LeftUnrecorded ==
  /\ BreaksOff("prepare", "unrecorded")
  /\ UNCHANGED installed

\* A failure after which the directory is removed; that the removal fails is ignored.
UndoInstall(from) ==
  /\ \/ Ends(from, "failed") /\ RemoveDirectory
     \/ BreaksOff(from, "failed") /\ RemoveSome
  /\ UNCHANGED <<record, service>>

\* The engine does not fit, or npm fails.
PrepareFails == UndoInstall("prepare")

Register ==
  /\ Step("register", "link")
  /\ record' = ctx.to
  /\ UNCHANGED <<skill, base, backups, service, ctx>>

\* Mutant: the directory of a component that could not be recorded stays.
RegisterLeaves ==
  /\ Ends("register", "failed")
  /\ UNCHANGED installed

RegisterFails == UndoInstall("register")

\* A save of the record that throws ends the command with what it has done: the
\* record is as before, or its file is cut off, which reads as empty.
SaveThrows(from, outcome) ==
  \/ Ends(from, outcome) /\ UNCHANGED record
  \/ BreaksOff(from, outcome) /\ record' = Missing

\* Command links and routes.  The second save of the record may throw, which
\* ends the command with the component installed and its service not started.
LinkAndRoute ==
  /\ \/ Step("link", "launch") /\ UNCHANGED <<ctx, record>>
     \/ SaveThrows("link", "failed")
  /\ UNCHANGED <<skill, base, backups, service>>

\* judgeSettle: online long enough without a restart, or not; endCrashLoop stops
\* what keeps restarting, unless PM2 does not answer.
SettledAs(v) == {v, Stopped}

\* registerService: a process of that name is deleted first; the start, or the
\* wait for it, can fail.
RegisterService(v) == {Missing} \cup SettledAs(v)

\* With --json, or no service declared, nothing is started; a service that does
\* not settle does not undo the install.
Launch ==
  /\ Ends("launch", "ok")
  /\ service' \in {service} \cup RegisterService(ctx.to)
  /\ UNCHANGED <<skill, base, backups, record>>

-----------------------------------------------------------------------------
(* yos upgrade *)

Upgrade(v, m) ==
  /\ record # Missing
  /\ StartCommand("upgrade", "check", [NoContext EXCEPT !.to = v, !.mode = m])

\* checkForUpdates, where the release can be asked for.
HasUpdate == VersionOf # Missing /\ ctx.to > VersionOf

\* yos upgrade --all: the components that have an update, one after the other.
UpgradeAll(v) ==
  /\ VersionOf # Missing /\ v > VersionOf
  /\ Upgrade(v, "merge")

\* --check downloads and compares in a directory of its own.
CheckOnly == Ends("check", "checked") /\ UNCHANGED installed

\* Nothing newer: the component's repair hook looks after itself, or fails.
RepairVerdicts == {"verified", "refused"}
UpToDate ==
  /\ \E verdict \in RepairVerdicts: Ends("check", verdict)
  /\ VersionOf # Missing /\ ~HasUpdate
  /\ UNCHANGED installed

\* The check or the download fails.
NotFetched == Ends("check", "refused") /\ UNCHANGED installed

\* Nobody says yes, or nobody is there to ask.
NotConfirmed ==
  /\ Ends("check", "refused")
  /\ HasUpdate
  /\ UNCHANGED installed

Proceed ==
  /\ Step("check", "stop")
  /\ HasUpdate
  /\ ctx' = [ctx EXCEPT !.before = skill, !.from = base]
  /\ UNCHANGED installed

\* The state is read before the stop; an answer that cannot be read, or a stop
\* that throws, never fails the upgrade.
StopForUpgrade ==
  /\ Step("stop", "backup")
  /\ \/ /\ ctx' = [ctx EXCEPT !.wasRunning = Online]
        /\ service' \in IF Online THEN {Stopped, service} ELSE {service}
     \/ UNCHANGED <<ctx, service>>
  /\ UNCHANGED <<skill, base, backups, record>>

\* A step that failed: the command turns to the rollback.
Fails(from) ==
  /\ Step(from, "restore")
  /\ ctx' = [ctx EXCEPT !.errors = @ \cup {from}]

BackUp ==
  /\ Len(backups) < MaxBackups
  /\ Step("backup", "merge")
  /\ backups' = Append(backups, skill)
  /\ ctx' = [ctx EXCEPT !.saved = TRUE, !.todo = Files]
  /\ UNCHANGED <<skill, base, record, service>>

BackupFails == Fails("backup") /\ UNCHANGED installed

\* smartSync's verdict on one file: what the file may hold afterwards.
New(f) == [text |-> Text[ctx.to][f], edited |-> FALSE]
Saved(f) == [text |-> Text[base][f], edited |-> FALSE]
Known(f) == base # Missing /\ Text[base][f] # Missing

\* Written where it is missing, where there is nothing to compare with and where the
\* user left it alone; kept where only the user changed it; merged by diff3, or set
\* aside in the conflicts directory and replaced, where both changed it.
Verdict(f) ==
  IF skill[f] = Missing \/ ctx.mode = "overwrite" \/ ~Known(f) \/ skill[f] = Saved(f) THEN {New(f)}
  ELSE IF Text[ctx.to][f] = Text[base][f] THEN {skill[f]}
  ELSE {New(f), [New(f) EXCEPT !.edited = skill[f].edited]}

\* A file that the new version no longer has: one the user changed stays.
VerdictOnDropped(f) ==
  IF Known(f) /\ (skill[f] = Saved(f) \/ ctx.mode = "overwrite") THEN {Missing} ELSE {skill[f]}

MergeFile(f) ==
  /\ f \in ctx.todo
  /\ Step("merge", "merge")
  /\ \/ /\ skill' \in {[skill EXCEPT ![f] = c] :
                          c \in IF Text[ctx.to][f] = Missing THEN VerdictOnDropped(f)
                                ELSE Verdict(f)}
        /\ ctx' = [ctx EXCEPT !.todo = @ \ {f}]
     \/ /\ ctx' = [ctx EXCEPT !.todo = @ \ {f}, !.errors = @ \cup {"merge"}]
        /\ UNCHANGED skill
  /\ UNCHANGED <<base, backups, record, service>>

\* Every file is tried; one error fails the step, and there is no new baseline.
Merged ==
  /\ ctx.todo = {}
  /\ \/ "merge" \notin ctx.errors /\ Step("merge", "npm") /\ UNCHANGED ctx
     \/ "merge" \in ctx.errors /\ Fails("merge")
  /\ UNCHANGED installed

NpmInstall ==
  /\ \/ Step("npm", "caddy") /\ UNCHANGED ctx
     \/ Fails("npm")
  /\ UNCHANGED installed

\* Neither the routes nor the hook fail an upgrade.
UpdateRoutes ==
  /\ Step("caddy", "hook") /\ UNCHANGED ctx
  /\ UNCHANGED installed

RunPostUpgradeHook ==
  /\ Step("hook", "start") /\ UNCHANGED ctx
  /\ UNCHANGED installed

\* Only what ran before is started, with the files now there; the second
\* attempt deletes the process first.
StartService ==
  /\ \/ ~ctx.wasRunning /\ Step("start", "commit") /\ UNCHANGED <<ctx, service>>
     \/ /\ ctx.wasRunning /\ VersionOf # Missing
        /\ Step("start", "commit")
        /\ service' = VersionOf
        /\ UNCHANGED ctx
     \/ /\ ctx.wasRunning /\ Fails("start")
        /\ service' \in {service, Missing}
  /\ UNCHANGED <<skill, base, backups, record>>

\* Mutant: the baseline is committed although the step reports a failure.
CommitsThenFails ==
  /\ base' = ctx.to
  /\ \/ Step("commit", "record") /\ UNCHANGED ctx
     \/ Fails("commit")
  /\ UNCHANGED <<skill, backups, record, service>>

CommitBaseline ==
  /\ \/ Step("commit", "record") /\ base' = ctx.to /\ UNCHANGED ctx
     \/ Fails("commit") /\ UNCHANGED base
  /\ UNCHANGED <<skill, backups, record, service>>

\* The record takes the version the directory now names; a save that throws
\* ends the command there.
UpdateRecord ==
  /\ \/ Step("record", "prune") /\ record' = VersionOf /\ UNCHANGED ctx
     \/ SaveThrows("record", "unrecorded")
  /\ UNCHANGED <<skill, base, backups, service>>

\* Mutant: the oldest backup is the one that is kept.
KeepsOldest ==
  /\ Ends("prune", "ok")
  /\ backups' = IF backups = <<>> THEN backups ELSE <<Head(backups)>>
  /\ UNCHANGED <<skill, base, record, service>>

\* cleanOldBackups keeps the latest.
Prune ==
  /\ Ends("prune", "ok")
  /\ backups' = IF backups = <<>> THEN backups ELSE <<Last(backups)>>
  /\ UNCHANGED <<skill, base, record, service>>

\* syncTree: the files of the backup replace those of the directory.  The conflicts
\* set aside beside them come along, in a directory that no version has.
RestoreFiles ==
  /\ Step("restore", "restart")
  /\ \/ ctx.saved /\ skill' = Last(backups) /\ UNCHANGED ctx
     \/ /\ ctx.saved
        /\ ctx' = [ctx EXCEPT !.errors = @ \cup {"restore"}]
        /\ skill' \in CutShort(Last(backups))
     \/ ~ctx.saved /\ UNCHANGED <<skill, ctx>>
  /\ UNCHANGED <<base, backups, record, service>>

\* Mutant: the rollback starts the service only if it is still registered.
RestartsRegistered ==
  /\ Step("restart", "ended")
  /\ ctx.wasRunning => VersionOf # Missing
  /\ ctx' = [ctx EXCEPT !.outcome = "failed"]
  /\ service' = IF ctx.wasRunning /\ service # Missing THEN VersionOf ELSE service
  /\ UNCHANGED <<skill, base, backups, record>>

RestartService ==
  /\ Step("restart", "ended")
  /\ \/ /\ ctx.wasRunning => VersionOf # Missing
        /\ ctx' = [ctx EXCEPT !.outcome = "failed"]
        /\ service' = IF ctx.wasRunning THEN VersionOf ELSE service
     \/ /\ ctx.wasRunning
        /\ ctx' = [ctx EXCEPT !.outcome = "failed", !.errors = @ \cup {"restart"}]
        /\ UNCHANGED service
  /\ UNCHANGED <<skill, base, backups, record>>

-----------------------------------------------------------------------------
(* yos uninstall *)

Uninstall == record # Missing /\ StartCommand("remove", "unlaunch", NoContext)

\* --check lists what would go, and the components that depend on it.
UninstallCheck == Ends("unlaunch", "checked") /\ UNCHANGED installed

\* Refused for its dependents, or declined at the prompt.
Declined == Ends("unlaunch", "refused") /\ UNCHANGED installed

\* The hook and PM2 can fail without stopping the removal.
Unlaunch ==
  /\ Step("unlaunch", "unlink") /\ UNCHANGED ctx
  /\ service' \in {Missing} \cup (IF service = Missing THEN {} ELSE {service, Stopped})
  /\ UNCHANGED <<skill, base, backups, record>>

\* Mutant: the record goes before the directory.
UnregistersFirst ==
  /\ Step("unlink", "erase") /\ UNCHANGED ctx
  /\ record' = Missing
  /\ UNCHANGED <<skill, base, backups, service>>

Unlink ==
  /\ Step("unlink", "erase") /\ UNCHANGED ctx
  /\ UNCHANGED installed

\* The data directory goes only with --purge.
Erase ==
  /\ Step("erase", "unregister") /\ UNCHANGED ctx
  /\ RemoveDirectory
  /\ UNCHANGED <<record, service>>

\* rmSync throws, for the directory or, with that gone, for the data directory.
EraseFails ==
  /\ BreaksOff("erase", "failed")
  /\ \/ Installed /\ RemoveSome
     \/ RemoveDirectory
  /\ UNCHANGED <<record, service>>

\* A save that throws leaves the record without a directory, or the file cut off.
Unregister ==
  /\ \/ Ends("unregister", "ok") /\ record' = Missing
     \/ Ends("unregister", "failed") /\ record' = Missing
     \/ BreaksOff("unregister", "failed") /\ UNCHANGED record
  /\ UNCHANGED <<skill, base, backups, service>>

-----------------------------------------------------------------------------
AddNext == DirectoryInTheWay \/ Acquire \/ AcquireFails \/ Prepare \/ Hand \/ LeftUnrecorded \/ PrepareFails
  \/ Register \/ RegisterFails \/ LinkAndRoute \/ Launch

UpgradeNext == CheckOnly \/ UpToDate \/ NotFetched \/ NotConfirmed \/ Proceed \/ StopForUpgrade \/ BackUp \/ BackupFails
  \/ (\E f \in Files: MergeFile(f)) \/ Merged \/ NpmInstall
  \/ UpdateRoutes \/ RunPostUpgradeHook \/ StartService \/ CommitBaseline \/ UpdateRecord
  \/ Prune \/ RestoreFiles \/ RestartService

RemoveNext == UninstallCheck \/ Declined \/ Unlaunch \/ Unlink \/ Erase \/ EraseFails \/ Unregister

ComponentNext ==
  \/ \E v \in Versions: Add(v) \/ Upgrade(v, "merge") \/ Upgrade(v, "overwrite") \/ UpgradeAll(v)
  \/ Uninstall \/ AddNext \/ UpgradeNext \/ RemoveNext
  \/ \E f \in Files: EditFile(f)
  \/ StopService \/ FinishCommand \/ CommandDies \/ DiesInSave

ComponentSpec == ComponentInit /\ [][ComponentNext]_componentVars

-----------------------------------------------------------------------------
(* Properties *)

\* What is recorded is there and what is there is recorded, whatever failed: after an
\* answer of success always, and otherwise unless a command died, could not undo itself
\* or did not handle an error.  And an uninstall can always be run again: the record goes
\* last, so that wherever it fails or dies, a directory that is still there is recorded.
RecordedIsThere ==
  /\ cmd = "none" /\ ~adrift => (record # Missing) = Installed
  /\ step = "ended" /\ ctx.outcome = "ok" => (record # Missing) = Installed
  /\ cmd = "remove" /\ Installed => record # Missing

\* Every file that an upgrade displaced or a rollback put back is what the user
\* had, or the newest backup still holds what the user had.
NoEditLost ==
  step = "ended" /\ ctx.before # Gone =>
    \A f \in Files: ctx.before[f] # Missing /\ ctx.before[f].edited =>
      \/ Installed /\ skill[f] = ctx.before[f]
      \/ Installed /\ skill[f] # Missing /\ skill[f].edited
      \/ backups # <<>> /\ Last(backups)[f] = ctx.before[f]

\* A file of the version the upgrade installs, or one that it left as it was because
\* that version has for it what the baseline has.
UpToDateOrKept(f) ==
  /\ skill[f] # Missing
  /\ \/ skill[f].text = Text[ctx.to][f]
     \/ /\ ctx.from # Missing /\ Text[ctx.from][f] = Text[ctx.to][f]
        /\ skill[f] = ctx.before[f]

\* Unless a restore failed half way, an upgrade that ends leaves the baseline
\* and the files at one version: the new one of both, or the old one of both.
BaselineFitsFiles ==
  step = "ended" /\ ctx.before # Gone /\ "restore" \notin ctx.errors =>
    IF ctx.outcome \in {"ok", "unrecorded"}
    THEN base = ctx.to /\ \A f \in Files: Text[base][f] # Missing => UpToDateOrKept(f)
    ELSE base = ctx.from /\ (ctx.saved => skill = ctx.before)

\* A service that ran before the upgrade runs again at its end, with the code
\* that is in the directory, or the answer says that it could not be started.
RunsAgain ==
  step = "ended" /\ ctx.wasRunning /\ "restart" \notin ctx.errors =>
    Online /\ service = VersionOf

EndsWhole == RecordedIsThere /\ RunsAgain
=============================================================================
