----------------------------- MODULE UsageAlert -----------------------------
(***************************************************************************)
(* Two maintenance tasks of the monitor (activity-monitor/usage-monitor):  *)
(* one measures how much of its weekly limit the account has used, the     *)
(* other tells the owner when a threshold is passed.  They meet in a file  *)
(* for each runtime; what the owner was told is in a file of its own.      *)
(*                                                                         *)
(* Either task runs while the agent is idle, nothing waits in the queues   *)
(* and, for the second, the owner is awake: at any time, or not at all.    *)
(***************************************************************************)
EXTENDS Naturals

CONSTANTS
  Tiers,          \* what getUsageTier can say, "ok" among it
  NotifyCooldown, \* hours between two notices of one tier
  LastHour,       \* bound on the time
  MaxUnsaved      \* bound on failed writes of the second file

ASSUME NotifyAssumption ==
  NotifyCooldown \in Nat \ {0} /\ Tiers \subseteq {"ok", "warning", "high", "critical"}

VARIABLES
  engine,       \* the runtime the monitor runs
  hour,
  report,       \* the tier that its sessions last spoke of: status line, rollout
  usageFile,    \* usage.json and usage-codex.json; truth is the report at that time
  measuredAt,   \* lastUsageCheckAt, in memory
  alertFile,    \* usage-alert-state.json
  notice,       \* the last notice that was queued for the owner, and how many came too early
  dropped,      \* the last one that could not be
  unsaved       \* failed writes of the alert file

usageVars == <<engine, hour, report, usageFile, measuredAt, alertFile, notice, dropped, unsaved>>

Engines == {"claude", "codex"}
tierRank == [none |-> 0, ok |-> 0, warning |-> 1, high |-> 2, critical |-> 3]
NoUsage == [tier |-> "none", at |-> 0, truth |-> "none"]

UsageInit ==
  /\ engine \in Engines /\ hour = 1
  /\ report = [e \in Engines |-> "none"]
  /\ usageFile = [e \in Engines |-> NoUsage]
  /\ measuredAt = IF engine = "codex" THEN 0 ELSE hour
  /\ alertFile = [checked |-> 0, observed |-> "none", notified |-> "none", at |-> 0]
  /\ notice = [tier |-> "none", at |-> 0, early |-> 0] /\ dropped = [tier |-> "none", at |-> 0]
  /\ unsaved = 0

-----------------------------------------------------------------------------
(* The task usage-monitor *)

\* Mutant: the file comes first.
PrefersFile == IF usageFile["claude"].tier # "none" THEN usageFile["claude"].tier ELSE report["claude"]

\* readClaudeUsageFromMonitorFiles: the status line, or else what the last
\* measurement wrote.
ClaudeSnapshot == IF report["claude"] # "none" THEN report["claude"] ELSE usageFile["claude"].tier

\* readCodexUsageFromMonitorFile: what the last measurement wrote, or else the rollout.
CodexSnapshot == IF usageFile["codex"].tier # "none" THEN usageFile["codex"].tier ELSE report["codex"]

Snapshot == IF engine = "claude" THEN ClaudeSnapshot ELSE CodexSnapshot

\* A write that fails is logged, and the measurement counts as made.
RunMonitor ==
  /\ hour > measuredAt /\ measuredAt' = hour
  /\ \/ UNCHANGED usageFile
     \/ /\ Snapshot # "none"
        /\ usageFile' = [usageFile EXCEPT ![engine] =
             [tier |-> Snapshot, at |-> hour,
              truth |-> IF report[engine] # "none" THEN report[engine] ELSE @.truth]]
  /\ UNCHANGED <<engine, hour, report, alertFile, notice, dropped, unsaved>>

-----------------------------------------------------------------------------
(* The task usage-alert *)

AlertDue == hour > alertFile.checked
Current == usageFile[engine].tier

\* Mutant: after a notice a higher tier has to wait as well.
FirstNotice == alertFile.notified = "none"

TierEscalated == tierRank[Current] > tierRank[alertFile.notified]
CooldownExpired == alertFile.at = 0 \/ hour - alertFile.at >= NotifyCooldown

Tells == Current \notin {"none", "ok"} /\ (TierEscalated \/ CooldownExpired)

\* A failed write is swallowed: the file stays as it was.
WriteAlertState(state) ==
  \/ alertFile' = state /\ UNCHANGED unsaved
  \/ unsaved < MaxUnsaved /\ unsaved' = unsaved + 1 /\ UNCHANGED alertFile

AlertKeepsQuiet ==
  /\ AlertDue /\ ~Tells
  /\ WriteAlertState([alertFile EXCEPT !.checked = hour,
                      !.observed = IF Current = "none" THEN @ ELSE Current])
  /\ UNCHANGED <<engine, hour, report, usageFile, measuredAt, notice, dropped>>

TooEarly == /\ notice.at # 0 /\ hour - notice.at < NotifyCooldown
            /\ tierRank[Current] <= tierRank[notice.tier]

\* sendNotification: whether the notice could be enqueued makes no difference to
\* what is written.
AlertNotifies ==
  /\ AlertDue /\ Tells
  /\ \/ /\ notice' = [tier |-> Current, at |-> hour,
                      early |-> IF TooEarly THEN notice.early + 1 ELSE notice.early]
        /\ UNCHANGED dropped
     \/ dropped' = [tier |-> Current, at |-> hour] /\ UNCHANGED notice
  /\ WriteAlertState([checked |-> hour, observed |-> Current, notified |-> Current, at |-> hour])
  /\ UNCHANGED <<engine, hour, report, usageFile, measuredAt>>

-----------------------------------------------------------------------------
(* Around the tasks *)

\* Work uses up more of the limit, and once a week there is none used.
SessionReports ==
  /\ \E t \in Tiers \ {report[engine]}: report' = [report EXCEPT ![engine] = t]
  /\ UNCHANGED <<engine, hour, usageFile, measuredAt, alertFile, notice, dropped, unsaved>>

\* initializeLastCheckAt, as the monitor starts again, maybe with the other runtime.
UsageMonitorStarts ==
  /\ engine' \in Engines
  /\ measuredAt' = IF engine' = "codex" THEN 0
                   ELSE IF usageFile["claude"].at # 0 THEN usageFile["claude"].at ELSE hour
  /\ UNCHANGED <<hour, report, usageFile, alertFile, notice, dropped, unsaved>>

UsageHour ==
  /\ hour < LastHour /\ hour' = hour + 1
  /\ UNCHANGED <<engine, report, usageFile, measuredAt, alertFile, notice, dropped, unsaved>>

UsageNext ==
  \/ RunMonitor \/ AlertKeepsQuiet \/ AlertNotifies
  \/ SessionReports \/ UsageMonitorStarts \/ UsageHour

UsageSpec == UsageInit /\ [][UsageNext]_usageVars

-----------------------------------------------------------------------------
(* Properties *)

\* A check that finds a tier leaves the owner told, of that one or of a higher one,
\* less than a cooldown before.  A notice that could not be queued keeps him in the
\* dark for as long, and no longer.
FoundIsTold ==
  alertFile' # alertFile =>
    \/ tierRank[Current] = 0
    \/ \E n \in {notice', dropped'}: tierRank[n.tier] >= tierRank[Current] /\ hour < n.at + NotifyCooldown

\* Whoever restarts or switches what in between: what was found is told; a notice
\* comes within the cooldown only for a higher tier or after a failed write; and
\* the file for Claude says what its sessions said when it was measured.
OwnerIsTold ==
  /\ [][FoundIsTold]_usageVars
  /\ [](notice.early <= unsaved /\ usageFile["claude"].tier = usageFile["claude"].truth)

\* A measurement brings the file for Codex up to date with the rollout.
CodexUsageRefreshes == usageFile["codex"].tier = usageFile["codex"].truth
=============================================================================
