----------------------------- MODULE MonitorLoop -----------------------------
(***************************************************************************)
(* The monitor's process around the health engine: start, tick, status     *)
(* file and maintenance tasks (activity-monitor/monitor and its            *)
(* orchestrator, task scheduler), and the command yos runtime, which       *)
(* changes the runtime under it (cli/commands/runtime).                    *)
(*                                                                         *)
(* How health is found out, and what the guardian does about it, is the    *)
(* subject of HealthEngine; here the engine changes its mind at any time,  *)
(* and the question is what is written down about it.                      *)
(***************************************************************************)
EXTENDS Naturals, FiniteSets

CONSTANTS
  Agents,        \* the runtimes
  Healths,       \* what the status file can say of health, "ok" among it
  IdleThreshold, \* seconds without activity after which the agent is idle; the monitor
                 \* looks every second
  LastMoment,    \* bound on the seconds
  LastDay,       \* bound on the days
  MaxMishaps,    \* bound on deaths and failed writes
  NoStatus

ASSUME HealthsAssumption == "ok" \in Healths /\ IdleThreshold \in Nat \ {0, 1}

VARIABLES
  loop,          \* the monitor's process
  statusFile,    \* agent-status.json, or NoStatus
  chosen,        \* the runtime in config.json
  sessions,      \* the tmux session of each runtime
  acted,         \* when the agent of each runtime was active last
  unseen,        \* it was while the monitor was busy with a task
  shift,         \* the command that switches the runtime
  time,          \* seconds, and hours of days for the tasks
  record,        \* the day on file of each task
  done,          \* how often each task ran that day, and how many of the runs were lost
                 \* before they were on record
  mishaps

monitorVars ==
  <<loop, statusFile, chosen, sessions, acted, unseen, shift, time, record, done, mishaps>>
taskVars == <<record, done>>
switchVars == <<chosen, shift>>

\* The daily tasks and their hours; the health check comes once in 24 hours of
\* which the model has four.
HourOf == [commit |-> 1, upgrade |-> 2, check |-> 3]
Tasks24 == {"health"}
TaskOrder == <<"upgrade", "commit", "check", "health">>
TaskNames == DOMAIN HourOf \cup Tasks24
Hours == 4

Down == [at |-> "down", runtime |-> "", health |-> "ok", of |-> "", last |-> "", since |-> 0,
         task |-> 0, clean |-> FALSE]
NoShift == [at |-> "no", target |-> "", quiet |-> FALSE]

MonitorInit ==
  /\ loop = Down /\ statusFile = NoStatus
  /\ chosen \in Agents
  /\ sessions = [r \in Agents |-> "none"]
  /\ acted = [r \in Agents |-> 0] /\ unseen = FALSE /\ shift = NoShift
  /\ time = [second |-> 0, ticked |-> FALSE, hour |-> 0, day |-> 1]
  /\ \E before \in SUBSET TaskNames:
       record = [t \in TaskNames |-> IF t \notin before THEN 0 ELSE IF t \in Tasks24 THEN Hours ELSE 1]
  /\ done = [t \in TaskNames |-> [times |-> 0, lost |-> 0]]
  /\ mishaps = 0

Alive == loop.at # "down"
Mishap == mishaps < MaxMishaps /\ mishaps' = mishaps + 1

-----------------------------------------------------------------------------
(* The process *)

\* MonitorOrchestrator.start takes the health from the status file, whichever
\* runtime that was about.
Started(status, runtime) ==
  [Down EXCEPT !.at = "wait", !.runtime = runtime,
               !.health = IF status = NoStatus THEN "ok" ELSE status.health,
               !.of = IF status = NoStatus THEN runtime ELSE status.of]

MonitorStarts ==
  /\ loop.at = "down" /\ loop' = Started(statusFile, chosen)
  /\ UNCHANGED <<statusFile, chosen, sessions, acted, unseen, shift, time, taskVars, mishaps>>

\* SIGTERM and death are alike: nothing is written.  PM2 starts it again.  A task
\* whose execution was under way is not on record then.
Interrupted ==
  IF loop.at = "record" THEN [done EXCEPT ![TaskOrder[loop.task]].lost = @ + 1] ELSE done

MonitorDies ==
  /\ Alive /\ Mishap /\ loop' = Down /\ done' = Interrupted
  /\ UNCHANGED <<statusFile, chosen, sessions, acted, unseen, shift, time, record>>

\* Ten seconds after its start the monitor kills the session of the other runtime.
CleansStaleSession ==
  /\ loop.at = "wait" /\ \E r \in Agents \ {loop.runtime}: sessions[r] # "none"
  /\ sessions' = [r \in Agents |-> IF r = loop.runtime THEN sessions[r] ELSE "none"]
  /\ UNCHANGED <<loop, statusFile, chosen, acted, unseen, shift, time, taskVars, mishaps>>

\* The engine, by heartbeats and probes of its own agent.
HealthObserved ==
  /\ Alive /\ sessions[loop.runtime] = "up"
  /\ \E h \in Healths \ {loop.health}:
       loop' = [loop EXCEPT !.health = h, !.of = loop.runtime]
  /\ UNCHANGED <<statusFile, chosen, sessions, acted, unseen, shift, time, taskVars, mishaps>>

-----------------------------------------------------------------------------
(* The tick *)

\* The age of the last activity: of the conversation file, else of the terminal,
\* or of a tool event that is younger.
Inactive == time.second - acted[loop.runtime]

\* What the orchestrator writes; of and quiet are not in the file.
Status(state, idle) ==
  [state |-> state, idle |-> idle, health |-> loop.health, of |-> loop.of,
   quiet |-> Inactive]

BeginsTick == loop.at = "wait" /\ ~time.ticked /\ time' = [time EXCEPT !.ticked = TRUE]
WritesStatus(status) ==
  /\ statusFile' = status
  /\ shift' = [shift EXCEPT !.quiet = FALSE]

\* While a started agent comes up the tick ends at once, and nothing is written.
TickInGrace ==
  /\ BeginsTick /\ sessions[loop.runtime] = "starting"
  /\ UNCHANGED <<loop, statusFile, chosen, sessions, acted, unseen, shift, taskVars, mishaps>>

\* handleNotRunningRuntime; the guardian may have launched the agent.
TickNotRunning ==
  /\ BeginsTick /\ sessions[loop.runtime] \in {"none", "stopped"}
  /\ LET state == IF sessions[loop.runtime] = "none" THEN "offline" ELSE "stopped"
     IN /\ WritesStatus(Status(state, 0))
        /\ loop' = [loop EXCEPT !.at = "tasks", !.task = 1, !.last = state]
  /\ sessions' \in {sessions, [sessions EXCEPT ![loop.runtime] = "starting"]}
  /\ UNCHANGED <<chosen, acted, unseen, taskVars, mishaps>>

\* handleProcSampler: a frozen agent is killed, and nothing is written either.
TickFrozen ==
  /\ BeginsTick /\ sessions[loop.runtime] = "up"
  /\ loop' = [loop EXCEPT !.last = "frozen"]
  /\ sessions' = [sessions EXCEPT ![loop.runtime] = "none"]
  /\ UNCHANGED <<statusFile, chosen, acted, unseen, shift, taskVars, mishaps>>

\* Mutant: idle time goes on through whatever was there between.
IdleGoesOn(busy) ==
  IF busy THEN loop.since ELSE IF loop.since = 0 THEN time.second ELSE loop.since

IdleSince(busy) ==
  IF busy THEN 0 ELSE IF loop.last # "idle" THEN time.second ELSE loop.since

\* handleRunningRuntime: an open tool call makes the agent busy at any age.
TickRuns ==
  /\ BeginsTick /\ sessions[loop.runtime] = "up"
  /\ \E tools \in BOOLEAN:
       LET busy == tools \/ Inactive < IdleThreshold
           since == IdleSince(busy)
           state == IF busy THEN "busy" ELSE "idle"
       IN /\ WritesStatus(Status(state, IF busy THEN 0 ELSE time.second - since))
          /\ loop' = [loop EXCEPT !.at = "tasks", !.task = 1, !.last = state, !.since = since]
          /\ unseen' = (unseen /\ ~busy /\ loop.last = "idle")
  /\ UNCHANGED <<chosen, sessions, acted, taskVars, mishaps>>

-----------------------------------------------------------------------------
(* Maintenance tasks, at the end of a tick *)

Task == TaskOrder[loop.task]

\* Gates: the upgrade is for Claude, and all but the memory commit need health;
\* the health check needs an agent that runs.
Gate(t) ==
  /\ t # "commit" => loop.health = "ok"
  /\ t = "upgrade" => loop.runtime = "claude"
  /\ t = "health" => loop.last \in {"busy", "idle"}

Elapsed == Hours * time.day + time.hour
DueTask(t) ==
  /\ Gate(t)
  /\ IF t \in Tasks24 THEN Elapsed - record[t] >= Hours
     ELSE time.hour = HourOf[t] /\ record[t] # time.day

NextTask(from) ==
  IF from.task = Cardinality(TaskNames) THEN [from EXCEPT !.at = "wait", !.task = 0]
  ELSE [from EXCEPT !.at = "tasks", !.task = @ + 1]

SkipTask ==
  /\ loop.at = "tasks" /\ ~DueTask(Task) /\ loop' = NextTask(loop)
  /\ UNCHANGED <<statusFile, chosen, sessions, acted, unseen, shift, time, taskVars, mishaps>>

\* A task whose execution fails is tried again at the next tick.  The child that
\* queues a control or commits is given up after its time limit, and an answer that
\* names no control counts as none: the work may be done then all the same.
Executes(t) ==
  /\ loop.at = "tasks" /\ Task = t /\ DueTask(t)
  /\ \/ loop' = [loop EXCEPT !.at = "record"]
        /\ done' = [done EXCEPT ![t].times = @ + 1] /\ UNCHANGED mishaps
     \/ Mishap /\ loop' = NextTask(loop) /\ UNCHANGED done
     \/ /\ t # "check" /\ Mishap /\ loop' = NextTask(loop)
        /\ done' = [done EXCEPT ![t] = [times |-> @.times + 1, lost |-> @.lost + 1]]
  /\ UNCHANGED <<statusFile, chosen, sessions, acted, unseen, shift, time, record>>

\* Two are messages for the agent, one a process that is not waited for; the
\* commit of the memory keeps the monitor from ticking for up to thirty seconds.
EnqueueUpgrade == Executes("upgrade")
CommitMemory == Executes("commit")
SpawnUpgradeCheck == Executes("check")
EnqueueHealthCheck == Executes("health")

\* What the write fails with is swallowed.
RecordTask ==
  /\ loop.at = "record" /\ loop' = NextTask(loop)
  /\ \/ /\ record' = [record EXCEPT ![Task] = IF Task \in Tasks24 THEN Elapsed ELSE time.day]
        /\ UNCHANGED <<done, mishaps>>
     \/ Mishap /\ done' = [done EXCEPT ![Task].lost = @ + 1] /\ UNCHANGED record
  /\ UNCHANGED <<statusFile, chosen, sessions, acted, unseen, shift, time>>

-----------------------------------------------------------------------------
(* yos runtime <target> *)

\* Installation, credentials, the authentication gate and the instruction file
\* come first; where one fails the runtime stays what it is.
SwitchBegins ==
  /\ shift.at = "no" /\ \E target \in Agents \ {chosen}:
       shift' = [at |-> "gate", target |-> target, quiet |-> FALSE]
  /\ UNCHANGED <<loop, statusFile, chosen, sessions, acted, unseen, time, taskVars, mishaps>>

SwitchGate ==
  /\ shift.at = "gate" /\ shift' \in {NoShift, [shift EXCEPT !.at = "config"]}
  /\ UNCHANGED <<loop, statusFile, chosen, sessions, acted, unseen, time, taskVars, mishaps>>

RecordSwitch ==
  /\ shift.at = "config" /\ chosen' = shift.target /\ shift' = [shift EXCEPT !.at = "clear"]
  /\ UNCHANGED <<loop, statusFile, sessions, acted, unseen, time, taskVars, mishaps>>

\* Mutant: only the pending heartbeats are removed.
ClearHeartbeatsOnly ==
  /\ shift.at = "clear" /\ shift' = [shift EXCEPT !.at = "restart", !.quiet = TRUE]
  /\ UNCHANGED <<loop, statusFile, chosen, sessions, acted, unseen, time, taskVars, mishaps>>

\* A file that cannot be removed stays, and nobody is told.
ClearHealthFiles ==
  /\ shift.at = "clear"
  /\ \/ /\ statusFile' = NoStatus /\ shift' = [shift EXCEPT !.at = "restart", !.quiet = TRUE]
        /\ UNCHANGED mishaps
     \/ Mishap /\ shift' = [shift EXCEPT !.at = "restart"] /\ UNCHANGED statusFile
  /\ UNCHANGED <<loop, chosen, sessions, acted, unseen, time, taskVars>>

\* restartRuntimeServices: PM2 stops the old monitor and starts the new one, or
\* fails to with a warning, and the old one goes on.
RestartMonitor ==
  /\ shift.at = "restart" /\ shift' = NoShift
  /\ \/ loop' = [Started(statusFile, chosen) EXCEPT !.clean = shift.quiet]
        /\ done' = Interrupted /\ UNCHANGED mishaps
     \/ Mishap /\ UNCHANGED <<loop, done>>
  /\ UNCHANGED <<statusFile, chosen, sessions, acted, unseen, time, record>>

SwitchDies ==
  /\ shift.at # "no" /\ Mishap /\ shift' = NoShift
  /\ UNCHANGED <<loop, statusFile, chosen, sessions, acted, unseen, time, taskVars>>

-----------------------------------------------------------------------------
(* The agents and time *)

AgentActs ==
  /\ \E r \in Agents:
       /\ sessions[r] = "up" /\ acted[r] # time.second
       /\ acted' = [acted EXCEPT ![r] = time.second]
       /\ unseen' = (unseen \/ (r = loop.runtime /\ loop.at \in {"tasks", "record"}))
  /\ UNCHANGED <<loop, statusFile, chosen, sessions, shift, time, taskVars, mishaps>>

SessionChanges ==
  /\ \E r \in Agents:
       /\ \/ sessions[r] = "starting" /\ \E s \in {"up", "stopped"}: sessions' = [sessions EXCEPT ![r] = s]
          \/ sessions[r] = "up" /\ sessions' = [sessions EXCEPT ![r] = "stopped"]
       /\ acted' = [acted EXCEPT ![r] = time.second]
  /\ UNCHANGED <<loop, statusFile, chosen, unseen, shift, time, taskVars, mishaps>>

\* The monitor ticks every second, unless it is busy with a task.
SecondPasses ==
  /\ time.second < LastMoment
  /\ loop.at = "wait" => time.ticked
  /\ time' = [time EXCEPT !.second = @ + 1, !.ticked = FALSE]
  /\ UNCHANGED <<loop, statusFile, chosen, sessions, acted, unseen, shift, taskVars, mishaps>>

HourPasses ==
  /\ loop.at \notin {"tasks", "record"} /\ (time.hour < Hours - 1 \/ time.day < LastDay)
  /\ time' = IF time.hour < Hours - 1 THEN [time EXCEPT !.hour = @ + 1, !.ticked = FALSE]
             ELSE [time EXCEPT !.hour = 0, !.day = @ + 1, !.ticked = FALSE]
  /\ done' = IF time.hour < Hours - 1 THEN done
             ELSE [t \in TaskNames |-> [times |-> 0, lost |-> 0]]
  /\ UNCHANGED <<loop, statusFile, chosen, sessions, acted, unseen, shift, record, mishaps>>

MonitorNext ==
  \/ MonitorStarts \/ MonitorDies \/ CleansStaleSession \/ HealthObserved
  \/ TickInGrace \/ TickNotRunning \/ TickFrozen \/ TickRuns
  \/ SkipTask \/ EnqueueUpgrade \/ CommitMemory \/ SpawnUpgradeCheck \/ EnqueueHealthCheck
  \/ RecordTask
  \/ SwitchBegins \/ SwitchGate \/ RecordSwitch \/ ClearHealthFiles \/ RestartMonitor \/ SwitchDies
  \/ AgentActs \/ SessionChanges \/ SecondPasses \/ HourPasses

MonitorSpec == MonitorInit /\ [][MonitorNext]_monitorVars

-----------------------------------------------------------------------------
(* Properties *)

\* After a switch of the runtime the new monitor does not take over what the old
\* one knew of another agent, unless the file could not be removed, or the old
\* one wrote it down once more after it was.
HealthIsOwn == loop.clean => loop.of = loop.runtime

\* The idle time in the file, for which messages wait that require an idle agent,
\* is never longer than the agent has been quiet, unless it was active while a
\* task kept the monitor from looking.
IdleIsTrue == statusFile # NoStatus => statusFile.idle <= statusFile.quiet \/ unseen

\* On a day a task runs once, and once more for each run of it that was not put on
\* record: because the monitor died first, recording failed, or the run was taken
\* for failed although it was not.
TaskRunsOnce == \A t \in TaskNames: done[t].times <= done[t].lost + 1

\* What the monitor writes down is so, through restarts of itself and of the
\* agent, launches, freezes and a switch of the runtime.
RecordsAreTrue == HealthIsOwn /\ IdleIsTrue /\ TaskRunsOnce
=============================================================================
