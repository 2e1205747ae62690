----------------------------- MODULE Scheduler ------------------------------
(***************************************************************************)
(* The task scheduler: the daemon's loop (daemon.js, daemon-tasks.js), the *)
(* commands that change the same tables from other processes (cli.js), the *)
(* child process that hands a prompt to the message queue (runtime.js) and *)
(* the agent that works on prompts and reports them done.                  *)
(*                                                                         *)
(* Every SQL statement of the daemon is a step of its own, because a       *)
(* command can run between any two of them.  Time is kept as what the code *)
(* compares it with: how far a task is past next_run_at, and whether       *)
(* updated_at is older than TASK_TIMEOUT.                                  *)
(***************************************************************************)
EXTENDS Naturals

CONSTANTS
  Tasks,
  Kinds,      \* per task, the type, priority and miss_threshold it may be given
  Ops,        \* the cli.js commands in use
  MaxLate,    \* bound: sends per window that queued the prompt but timed out
  MaxRaces,   \* bound: commands per task that write over a row changed meanwhile
  MaxQueued,  \* bound: prompts of a task waiting in the message queue
  MaxCrashes  \* bound: daemon deaths

\* patient: miss_threshold exceeds the 300 s after which a task counts as missed.
\* An interval task differs from a recurring one only in how its next time is computed.
Kind == [type : {"one-time", "recurring"}, priority : 1..3, patient : BOOLEAN]

ASSUME KindsAssumption == Kinds \in [Tasks -> SUBSET Kind]
ASSUME BoundsAssumption ==
  MaxLate \in Nat /\ MaxRaces \in Nat /\ MaxQueued \in Nat /\ MaxCrashes \in Nat

VARIABLES
  row,       \* the tasks table
  earlier,   \* per task, the tasks with an earlier next_run_at
  open,      \* task_history rows with status 'started', per task
  pc,        \* where the daemon is
  cur,       \* the row it is working on, as it was selected
  rest,      \* the rows it selected and has still to work on
  cli,       \* a command between its two statements
  alive,     \* agent-status.json says busy or idle
  queued,    \* prompts accepted by c4-receive that the agent has not started
  working,   \* the tasks the agent is working on
  copies,    \* prompts accepted since next_run_at was last written
  late,      \* how many of those were reported to the daemon as failed
  raced,     \* commands that wrote over a row the daemon had changed meanwhile
  crashes

daemonVars == <<pc, cur, rest>>
agentVars == <<alive, queued, working>>
historyVars == <<copies, late>>
vars == <<row, earlier, open, daemonVars, cli, agentVars, historyVars, raced, crashes>>

Statuses == {"pending", "running", "completed", "failed", "paused"}
\* Against next_run_at: not yet, up to 300 s, up to miss_threshold, beyond it.
Overdue == {"no", "due", "late", "over"}
Row == [status : Statuses \cup {"absent", "removed"}, kind : Kind,
        overdue : Overdue, old : BOOLEAN]
AnyKind == [type |-> "one-time", priority |-> 3, patient |-> FALSE]
NoRow == [status |-> "absent", kind |-> AnyKind, overdue |-> "no", old |-> FALSE]
Exists(t) == row[t].status \in Statuses

\* What the daemon remembers of a row it selected, and where dispatchTask returns to.
Job == [task : Tasks, type : {"one-time", "recurring"}, overdue : Overdue,
        back : {"completed", "nextMissed"}]
JobOf(t, back) == [task |-> t, type |-> row[t].kind.type,
                   overdue |-> row[t].overdue, back |-> back]
NoJob == [task |-> "none"]
Dispatching == {"claim", "log", "send", "wait", "revert", "close"}
PcValues == Dispatching \cup {"poll", "skip", "completed", "reschedule", "missed",
                              "nextMissed", "skipMissed", "stale", "timeout", "expire"}

TypeOK ==
  /\ row \in [Tasks -> Row]
  /\ earlier \in [Tasks -> SUBSET Tasks]
  /\ open \in [Tasks -> Nat]
  /\ pc \in PcValues
  /\ cur \in Job \cup {NoJob}
  /\ pc \in Dispatching \cup {"skip", "skipMissed", "expire"} => cur \in Job
  /\ rest \subseteq Job
  /\ cli \in {<<"none", "none">>} \cup ({"done", "pause", "resume"} \X Tasks)
  /\ alive \in BOOLEAN
  /\ queued \in [Tasks -> Nat]
  /\ working \subseteq Tasks
  /\ copies \in [Tasks -> Nat]
  /\ late \in [Tasks -> Nat]
  /\ raced \in [Tasks -> Nat]
  /\ crashes \in Nat

\* The daemon starts with a pass over stale running tasks.
Init ==
  /\ row = [t \in Tasks |-> NoRow]
  /\ earlier = [t \in Tasks |-> {}]
  /\ open = [t \in Tasks |-> 0]
  /\ pc = "stale" /\ cur = NoJob /\ rest = {}
  /\ cli = <<"none", "none">>
  /\ alive = TRUE
  /\ queued = [t \in Tasks |-> 0] /\ working = {}
  /\ copies = [t \in Tasks |-> 0] /\ late = [t \in Tasks |-> 0]
  /\ raced = [t \in Tasks |-> 0] /\ crashes = 0

-----------------------------------------------------------------------------
(* Writing the tables *)

\* What the statements leave of a row r.
Stamped(r, s) == [r EXCEPT !.status = s, !.old = FALSE]
NextWindow(r) == [r EXCEPT !.status = "pending", !.overdue = "no", !.old = FALSE]
Rewritten(r, k) == [r EXCEPT !.kind = k, !.overdue = "no", !.old = FALSE]
Amended(r, p) == [r EXCEPT !.kind = [@ EXCEPT !.priority = p], !.old = FALSE]
NewTask(k) == [NoRow EXCEPT !.status = "pending", !.kind = k]
RemovedRow == [NoRow EXCEPT !.status = "removed"]

\* UPDATE tasks SET status = s, updated_at = now WHERE id = t.
SetStatus(t, s) == row' = [row EXCEPT ![t] = IF Exists(t) THEN Stamped(@, s) ELSE @]

\* next_run_at of t is rewritten with a time in the future, which is later than
\* that of every task already due, and the row becomes r: a new window begins.
Postpone(t, r) ==
  /\ row' = [row EXCEPT ![t] = r]
  /\ \E before \in SUBSET {u \in Tasks \ {t} : Exists(u)} :
       /\ \A u \in Tasks \ {t} : row[u].overdue # "no" => u \in before
       /\ \A u \in before : earlier[u] \ {t} \subseteq before
       /\ earlier' = [u \in Tasks |->
            IF u = t THEN before
            ELSE (earlier[u] \ {t}) \cup (IF Exists(u) /\ u \notin before THEN {t} ELSE {})]
  /\ copies' = [copies EXCEPT ![t] = 0]
  /\ late' = [late EXCEPT ![t] = 0]

\* Mutant: the new time is not written.
KeepsNextRun(t) ==
  /\ SetStatus(t, "pending")
  /\ UNCHANGED <<earlier, historyVars>>

\* updateNextRunTime, whatever the row has become since it was selected.
UpdateNextRunTime(t) ==
  IF Exists(t)
  THEN Postpone(t, NextWindow(row[t]))
  ELSE UNCHANGED <<row, earlier, historyVars>>

\* Mutant: an entry is taken to be there.
ClosesBlindly(t) == open' = [open EXCEPT ![t] = @ - 1]

\* The latest entry that is still 'started' gets its final status.
CloseLatest(t) == open' = [open EXCEPT ![t] = IF @ > 0 THEN @ - 1 ELSE 0]

-----------------------------------------------------------------------------
(* The daemon: the task that is due *)

Due(t) == row[t].status = "pending" /\ row[t].overdue # "no"
Precedes(t, u) ==
  \/ row[t].kind.priority < row[u].kind.priority
  \/ row[t].kind.priority = row[u].kind.priority /\ (t = u \/ t \in earlier[u])
GetNextPendingTask == {t \in Tasks : Due(t) /\ \A u \in Tasks : Due(u) => Precedes(t, u)}

\* The top of an iteration; while the runtime is not alive it only sleeps.
Poll ==
  /\ pc = "poll" /\ alive
  /\ \/ /\ GetNextPendingTask = {}
        /\ pc' = "completed" /\ UNCHANGED cur
     \/ \E t \in GetNextPendingTask :
          /\ cur' = JobOf(t, "completed")
          /\ pc' = IF row[t].overdue = "over" THEN "skip" ELSE "claim"
  /\ UNCHANGED <<row, earlier, open, rest, cli, agentVars, historyVars, raced, crashes>>

\* The window is over: the task fails, or waits for its next time.
Skip ==
  /\ pc = "skip"
  /\ pc' = "completed" /\ cur' = NoJob
  /\ IF cur.type = "one-time"
     THEN SetStatus(cur.task, "failed") /\ UNCHANGED <<earlier, historyVars>>
     ELSE UpdateNextRunTime(cur.task)
  /\ UNCHANGED <<open, rest, cli, agentVars, raced, crashes>>

-----------------------------------------------------------------------------
(* The daemon: dispatchTask *)

Return == pc' = cur.back /\ cur' = NoJob
EndIteration == pc' = "poll" /\ cur' = NoJob /\ rest' = {}

\* A task somebody else has claimed or changed meanwhile is left alone.
Claimable(t) == row[t].status = "pending"
Claim ==
  /\ pc = "claim"
  /\ IF Claimable(cur.task)
     THEN SetStatus(cur.task, "running") /\ pc' = "log" /\ UNCHANGED cur
     ELSE Return /\ UNCHANGED row
  /\ UNCHANGED <<earlier, open, rest, cli, agentVars, historyVars, raced, crashes>>

\* The history entry; its foreign key makes this throw for a task removed since.
Log ==
  /\ pc = "log"
  /\ IF Exists(cur.task)
     THEN open' = [open EXCEPT ![cur.task] = @ + 1] /\ pc' = "send" /\ UNCHANGED <<cur, rest>>
     ELSE EndIteration /\ UNCHANGED open
  /\ UNCHANGED <<row, earlier, cli, agentVars, historyVars, raced, crashes>>

\* sendViaC4 runs c4-receive, which may fail before it has queued the prompt ...
Refused ==
  /\ pc = "send" /\ pc' = "revert"
  /\ UNCHANGED <<row, earlier, open, cur, rest, cli, agentVars, historyVars, raced, crashes>>

\* ... or queues it, and then asks the message router how the agent is.
Accepted ==
  /\ pc = "send" /\ queued[cur.task] < MaxQueued
  /\ pc' = "wait"
  /\ queued' = [queued EXCEPT ![cur.task] = @ + 1]
  /\ copies' = [copies EXCEPT ![cur.task] = @ + 1]
  /\ UNCHANGED <<row, earlier, open, cur, rest, cli, alive, working, late, raced, crashes>>

Succeeds ==
  /\ pc = "wait" /\ Return
  /\ UNCHANGED <<row, earlier, open, rest, cli, agentVars, historyVars, raced, crashes>>

\* The 10 s of execFileSync end before the router has answered.
TimesOut ==
  /\ pc = "wait" /\ late[cur.task] < MaxLate
  /\ pc' = "revert"
  /\ late' = [late EXCEPT ![cur.task] = @ + 1]
  /\ UNCHANGED <<row, earlier, open, cur, rest, cli, agentVars, copies, raced, crashes>>

\* A send that failed gives the task back, whatever its status is by now.
Revert ==
  /\ pc = "revert" /\ pc' = "close"
  /\ SetStatus(cur.task, "pending")
  /\ UNCHANGED <<earlier, open, cur, rest, cli, agentVars, historyVars, raced, crashes>>

\* Mutant: the history entry of the failed send is left alone.
LeavesEntry ==
  /\ pc = "close" /\ Return
  /\ UNCHANGED <<row, earlier, open, rest, cli, agentVars, historyVars, raced, crashes>>

Close ==
  /\ pc = "close" /\ Return
  /\ CloseLatest(cur.task)
  /\ UNCHANGED <<row, earlier, rest, cli, agentVars, historyVars, raced, crashes>>

-----------------------------------------------------------------------------
(* The daemon: the passes at the end of an iteration *)

\* processCompletedTasks: selects, then reschedules one by one.
SelectCompleted ==
  /\ pc = "completed"
  /\ rest' = {JobOf(t, "completed") : t \in
                {u \in Tasks : row[u].status = "completed" /\ row[u].kind.type # "one-time"}}
  /\ pc' = IF rest' = {} THEN "missed" ELSE "reschedule"
  /\ UNCHANGED <<row, earlier, open, cur, cli, agentVars, historyVars, raced, crashes>>

\* A task whose next time cannot be computed fails.
Reschedule ==
  /\ pc = "reschedule"
  /\ \E j \in rest :
       /\ rest' = rest \ {j}
       /\ \/ UpdateNextRunTime(j.task)
          \/ SetStatus(j.task, "failed") /\ UNCHANGED <<earlier, historyVars>>
  /\ pc' = IF rest' = {} THEN "missed" ELSE "reschedule"
  /\ UNCHANGED <<open, cur, cli, agentVars, raced, crashes>>

\* handleMissedTasks: pending recurring tasks more than 300 s overdue.
Missed(t) ==
  /\ row[t].status = "pending" /\ row[t].kind.type # "one-time"
  /\ row[t].overdue \in {"late", "over"}
SelectMissed ==
  /\ pc = "missed"
  /\ rest' = {JobOf(t, "nextMissed") : t \in {u \in Tasks : Missed(u)}}
  /\ pc' = IF rest' = {} THEN "stale" ELSE "nextMissed"
  /\ UNCHANGED <<row, earlier, open, cur, cli, agentVars, historyVars, raced, crashes>>

NextMissed ==
  /\ pc = "nextMissed"
  /\ \/ /\ rest = {}
        /\ pc' = "stale" /\ UNCHANGED <<cur, rest>>
     \/ \E j \in rest :
          /\ rest' = rest \ {j}
          /\ IF j.overdue = "over" THEN pc' = "skipMissed" /\ cur' = j
             ELSE IF alive THEN pc' = "claim" /\ cur' = j
             ELSE UNCHANGED <<pc, cur>>
  /\ UNCHANGED <<row, earlier, open, cli, agentVars, historyVars, raced, crashes>>

SkipMissed ==
  /\ pc = "skipMissed" /\ Return
  /\ UpdateNextRunTime(cur.task)
  /\ UNCHANGED <<open, rest, cli, agentVars, raced, crashes>>

\* Mutant: stale tasks are looked up through their history.
StaleWithHistory(t) == row[t].status = "running" /\ row[t].old /\ open[t] > 0

\* handleStaleRunningTasks: running for longer than TASK_TIMEOUT.
StaleRunning(t) == row[t].status = "running" /\ row[t].old
SelectStale ==
  /\ pc = "stale"
  /\ rest' = {JobOf(t, "completed") : t \in {u \in Tasks : StaleRunning(u)}}
  /\ pc' = IF rest' = {} THEN "poll" ELSE "timeout"
  /\ UNCHANGED <<row, earlier, open, cur, cli, agentVars, historyVars, raced, crashes>>

\* Every open history entry of the task becomes 'timeout' ...
TimeoutHistory ==
  /\ pc = "timeout" /\ pc' = "expire"
  /\ \E j \in rest :
       /\ cur' = j /\ rest' = rest \ {j}
       /\ open' = [open EXCEPT ![j.task] = 0]
  /\ UNCHANGED <<row, earlier, cli, agentVars, historyVars, raced, crashes>>

\* ... and the task itself fails, or is completed so that it is rescheduled.
ExpiredStatus(type) == IF type = "one-time" THEN "failed" ELSE "completed"
Expire ==
  /\ pc = "expire"
  /\ SetStatus(cur.task, ExpiredStatus(cur.type))
  /\ pc' = (IF rest = {} THEN "poll" ELSE "timeout") /\ cur' = NoJob
  /\ UNCHANGED <<earlier, open, rest, cli, agentVars, historyVars, raced, crashes>>

\* PM2 restarts a daemon that died; a send it had begun may still queue its prompt.
Crash ==
  /\ crashes < MaxCrashes /\ crashes' = crashes + 1
  /\ pc' = "stale" /\ cur' = NoJob /\ rest' = {}
  /\ \/ UNCHANGED <<queued, copies>>
     \/ /\ pc = "send" /\ queued[cur.task] < MaxQueued
        /\ queued' = [queued EXCEPT ![cur.task] = @ + 1]
        /\ copies' = [copies EXCEPT ![cur.task] = @ + 1]
  /\ UNCHANGED <<row, earlier, open, cli, alive, working, late, raced>>

Dispatch == Claim \/ Log \/ Refused \/ Accepted \/ Succeeds \/ TimesOut \/ Revert \/ Close
Daemon == \/ Skip \/ Dispatch
          \/ SelectCompleted \/ Reschedule
          \/ SelectMissed \/ NextMissed \/ SkipMissed
          \/ SelectStale \/ TimeoutHistory \/ Expire

-----------------------------------------------------------------------------
(* The commands of cli.js *)

Quiet == cli = <<"none", "none">>
cliOnly == <<open, daemonVars, agentVars, crashes>>
\* Whether the daemon has changed the row since the command looked at it is counted.
Races(t, b) ==
  /\ b => raced[t] < MaxRaces
  /\ raced' = [raced EXCEPT ![t] = IF b THEN @ + 1 ELSE @]

Add(t) ==
  /\ row[t].status = "absent"
  /\ \E k \in Kinds[t] : Postpone(t, NewTask(k))
  /\ UNCHANGED <<cli, raced, cliOnly>>

\* update with a new schedule: the status is kept.
Update(t) ==
  /\ "update" \in Ops /\ Exists(t)
  /\ \E k \in Kinds[t] : Postpone(t, Rewritten(row[t], k))
  /\ UNCHANGED <<cli, raced, cliOnly>>

\* update without one: the timeout of a task that runs starts again.
Amend(t) ==
  /\ "update" \in Ops /\ Exists(t)
  /\ \E k \in Kinds[t] : row' = [row EXCEPT ![t] = Amended(@, k.priority)]
  /\ UNCHANGED <<earlier, cli, historyVars, raced, cliOnly>>

\* remove deletes the row; its history goes with it.
Remove(t) ==
  /\ "remove" \in Ops /\ Exists(t)
  /\ row' = [row EXCEPT ![t] = RemovedRow]
  /\ earlier' = [u \in Tasks |-> IF u = t THEN {} ELSE earlier[u] \ {t}]
  /\ open' = [open EXCEPT ![t] = 0]
  /\ UNCHANGED <<daemonVars, cli, agentVars, historyVars, raced, crashes>>

\* done writes the task first and the history entry second.
Done(t) ==
  /\ Quiet /\ Exists(t)
  /\ SetStatus(t, "completed") /\ cli' = <<"done", t>>
  /\ Races(t, pc = "log" /\ cur.task = t)
  /\ UNCHANGED <<earlier, open, daemonVars, alive, queued, historyVars, crashes>>

UserDone(t) == "done" \in Ops /\ Done(t) /\ UNCHANGED working

DoneHistory(t) ==
  /\ cli = <<"done", t>> /\ cli' = <<"none", "none">>
  /\ CloseLatest(t)
  /\ UNCHANGED <<row, earlier, daemonVars, agentVars, historyVars, raced, crashes>>

\* pause and resume look for a task in the right status, then write without looking.
Look(op, status, t) ==
  /\ op \in Ops /\ Quiet /\ row[t].status = status
  /\ cli' = <<op, t>>
  /\ UNCHANGED <<row, earlier, historyVars, raced, cliOnly>>

Write(op, status, seen, t) ==
  /\ cli = <<op, t>> /\ cli' = <<"none", "none">>
  /\ SetStatus(t, status) /\ Races(t, row[t].status # seen)
  /\ UNCHANGED <<earlier, historyVars, cliOnly>>

Pause(t) == Look("pause", "pending", t) \/ Write("pause", "paused", "pending", t)
Resume(t) == Look("resume", "paused", t) \/ Write("resume", "pending", "paused", t)

Finishes == \E t \in Tasks : \/ DoneHistory(t)
                              \/ Write("pause", "paused", "pending", t)
                              \/ Write("resume", "pending", "paused", t)

-----------------------------------------------------------------------------
(* The agent, its status file and time *)

\* The message queue delivers a prompt.
Delivers(t) ==
  /\ queued[t] > 0 /\ t \notin working
  /\ queued' = [queued EXCEPT ![t] = @ - 1] /\ working' = working \cup {t}
  /\ UNCHANGED <<row, earlier, open, daemonVars, cli, alive, historyVars, raced, crashes>>

\* The agent runs the done command its prompt ends with, or forgets the task (as
\* it also does with a prompt the message queue gives up on).
AgentDone(t) == "done" \in Ops /\ t \in working /\ working' = working \ {t} /\ Done(t)
Forgets(t) ==
  /\ t \in working /\ working' = working \ {t}
  /\ UNCHANGED <<row, earlier, open, daemonVars, cli, alive, queued, historyVars, raced, crashes>>

RuntimeChanges ==
  /\ alive' = ~alive
  /\ UNCHANGED <<row, earlier, open, daemonVars, cli, queued, working, historyVars, raced, crashes>>

\* Of two tasks with the same threshold, the earlier one is overdue first.
Level == [no |-> 0, due |-> 1, late |-> 2, over |-> 3]
Later(k, o) == IF o = "no" THEN "due" ELSE IF o = "due" /\ k.patient THEN "late" ELSE "over"
TimePasses(t) ==
  /\ Exists(t) /\ row[t].overdue # "over"
  /\ LET o == Later(row[t].kind, row[t].overdue)
     IN  /\ \A u \in earlier[t] :
              /\ row[u].overdue # "no"
              /\ row[u].kind.patient = row[t].kind.patient => Level[row[u].overdue] >= Level[o]
         /\ row' = [row EXCEPT ![t].overdue = o]
  /\ UNCHANGED <<earlier, cli, historyVars, raced, cliOnly>>

\* TASK_TIMEOUT is an hour and a dispatch takes seconds.
Ages(t) ==
  /\ row[t].status = "running" /\ ~row[t].old
  /\ ~(pc \in Dispatching /\ cur.task = t)
  /\ row' = [row EXCEPT ![t].old = TRUE]
  /\ UNCHANGED <<earlier, cli, historyVars, raced, cliOnly>>

-----------------------------------------------------------------------------
Commands(t) == Add(t) \/ Update(t) \/ Amend(t) \/ Remove(t) \/ UserDone(t) \/ DoneHistory(t)
               \/ Pause(t) \/ Resume(t)
Agent(t) == Delivers(t) \/ AgentDone(t) \/ Forgets(t)
Next ==
  \/ Poll \/ Daemon \/ Crash \/ RuntimeChanges
  \/ \E t \in Tasks : Commands(t) \/ Agent(t) \/ TimePasses(t) \/ Ages(t)

Spec == Init /\ [][Next]_vars

\* The daemon runs, commands finish, time passes, and a runtime that keeps going
\* away keeps coming back for long enough that one of the polls finds it.
Fairness ==
  /\ WF_vars(Daemon) /\ SF_vars(Poll) /\ WF_vars(Finishes)
  /\ WF_vars(~alive /\ RuntimeChanges)
  /\ \A t \in Tasks : WF_vars(TimePasses(t)) /\ WF_vars(Ages(t))

FairSpec == Spec /\ Fairness

-----------------------------------------------------------------------------
(* Properties *)

\* Somebody is between a task update and the history update that goes with it.
Count(b) == IF b THEN 1 ELSE 0
Closers(t) == Count(pc \in {"revert", "close"} /\ cur.task = t) + Count(cli = <<"done", t>>)

\* Every history entry still 'started' is the run of a task that is running, or
\* is about to be closed; completion, failure and timeout leave none behind unless
\* the daemon died or a command wrote over what the daemon was doing (dispatchTask,
\* cmdDone and handleStaleRunningTasks against each other).
HistoryAccounted ==
  \A t \in Tasks : open[t] <= Closers(t) + raced[t] + crashes + Count(row[t].status = "running")

\* For one scheduled time, the message queue accepts a task's prompt once, and
\* once more for every send that was queued but reported as failed, or command
\* that wrote over what the daemon was doing.
OnePromptPerWindow == \A t \in Tasks : copies[t] <= 1 + late[t] + raced[t]

\* A task found running is timed out by the stale pass if nobody reports it,
\* also when the daemon died between claiming it and writing its history.
RunningIsResolved ==
  \A t \in Tasks : row[t].status = "running" ~> row[t].status # "running"

\* A task that is due is dispatched, skipped or failed, even if every send fails
\* and whatever task of the same priority is in front of it.
DueIsResolved == \A t \in Tasks : Due(t) ~> ~Due(t)

\* No task stays where it is for ever, neither one that runs nor one that is due.
TasksAreResolved == RunningIsResolved /\ DueIsResolved
=============================================================================
