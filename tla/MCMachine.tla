------------------------------ MODULE MCMachine ------------------------------
(***************************************************************************)
(* An instance of the parts that set a machine up and keep it in order:    *)
(* instruction files, yos init, the monitor's loop with its daily tasks    *)
(* and the switch of the runtime, the hooks of both agents, the start of a *)
(* session, credentials, the watches on the context and on the usage.      *)
(* Each behaviour exercises one of the parts and leaves the others where   *)
(* they began: the states of the run are the sum of the parts' states, not *)
(* their product.                                                          *)
(***************************************************************************)
EXTENDS Setup, MonitorLoop, HookSync, Credentials, SessionStart, ContextWatch, UsageAlert

VARIABLE part  \* the part that this behaviour exercises

\* A shard of the core; of three declarations one takes its name, and one has an
\* order below those of components.
MCCoreShards == <<"identity">>
MCDeclarations == <<[name |-> "identity", order |-> 12], [name |-> "notes", order |-> 10],
                    [name |-> "early", order |-> 3]>>

MonitorParts == {"idle", "tasks", "switch"}

\* The daily tasks that are done for the day as the behaviour begins.
DoneBefore ==
  CASE part = "tasks" -> {} [] part = "idle" -> TaskNames \ {"commit"} [] OTHER -> TaskNames

MCInit ==
  /\ part \in {"instructions", "setup", "hooks", "codex hooks", "credentials", "session", "context", "usage"} \cup MonitorParts
  /\ SetupInit /\ InstructionInit /\ MonitorInit /\ HooksInit /\ CredentialsInit
  /\ SessionInit /\ WatchInit /\ UsageInit
  /\ \A t \in TaskNames: (t \in DoneBefore) = (record[t] # 0)
  /\ part # "switch" => chosen = "claude"
  /\ part # "hooks" => threshold = 0
  /\ part # "context" => watched = "claude"
  /\ part # "usage" => engine = "claude"

SetupStays == UNCHANGED <<setupVars, instructionVars>>
MonitorStays == UNCHANGED monitorVars
HooksStay == UNCHANGED hookVars
CredentialsStay == UNCHANGED credentialVars
SessionStays == UNCHANGED sessionVars
WatchesStay == UNCHANGED <<watchVars, usageVars>>

\* An init dies at every step of its own; the failures of single file operations
\* are those of the part "instructions".
SetUp ==
  /\ \/ part = "instructions" /\ InstructionNext /\ UNCHANGED setupVars
     \/ part = "setup" /\ SetupNext /\ spent'.faults = 0
  /\ MonitorStays /\ HooksStay /\ CredentialsStay /\ SessionStays /\ WatchesStay

\* The hours pass for the tasks, the seconds for an agent that is idle, and the
\* agent is another one after a switch.
Monitored ==
  /\ part \in MonitorParts /\ MonitorNext
  /\ part # "switch" => switchVars' = switchVars
  /\ part = "idle" => loop'.health = "ok" /\ time'.hour <= 1 /\ time'.day = 1
  /\ part = "tasks" => /\ time'.second = 0 /\ acted' = acted
                       /\ \A r \in Agents: sessions[r] = "up" => sessions'[r] # "stopped"
  /\ part = "switch" => time'.second <= 1 /\ time'.hour = 0
  /\ SetupStays /\ HooksStay /\ CredentialsStay /\ SessionStays /\ WatchesStay

Hooked ==
  /\ \/ part = "hooks" /\ ClaudeHooksNext
     \/ part = "codex hooks" /\ CodexHooksNext
     \/ part = "codex hooks" /\ NewTemplate
  /\ SetupStays /\ MonitorStays /\ CredentialsStay /\ SessionStays /\ WatchesStay

\* The address that is handed to YOS is one of Values, and comes with a key.
Credited ==
  /\ part = "credentials" /\ CredentialsNext
  /\ job'.url # Own /\ (job'.url # NoValue => job'.value \in {NoValue} \cup Values)
  /\ SetupStays /\ MonitorStays /\ HooksStay /\ SessionStays /\ WatchesStay

SessionStarts ==
  /\ part = "session" /\ SessionNext
  /\ SetupStays /\ MonitorStays /\ HooksStay /\ CredentialsStay /\ WatchesStay

\* A failing write of the alert file and a notice that could not be queued come in
\* different behaviours; the Codex agent stays below the highest tier.
OneUsageMishap ==
  /\ unsaved' = 0 \/ dropped'.at = 0
  /\ report'["codex"] # "critical"

Watched ==
  /\ \/ part = "context" /\ WatchNext /\ UNCHANGED usageVars
     \/ part = "usage" /\ UsageNext /\ OneUsageMishap /\ UNCHANGED watchVars
  /\ SetupStays /\ MonitorStays /\ HooksStay /\ CredentialsStay /\ SessionStays

MCNext ==
  UNCHANGED part /\ (SetUp \/ Monitored \/ Hooked \/ Credited \/ SessionStarts \/ Watched)

MCSpec ==
  MCInit /\ [][MCNext]_<<part, setupVars, instructionVars, monitorVars, hookVars, credentialVars,
                         sessionVars, watchVars, usageVars>>
=============================================================================
