# yos-core in TLA+

yos-core keeps an AI agent (Claude Code or Codex, in a tmux session) running for months.
It queues what people and programs want to tell the agent and types it into the terminal,
watches whether the agent still answers and restarts it when it does not, runs scheduled
tasks, and installs, configures and upgrades itself and its components in place.  This
directory models that behaviour in TLA+, checks it with TLC on small instances and proves
the most important parts with TLAPS for every instance.

`PROJECT.json` lists the components, the runs, the lines of source behind every
definition (`map`), the places where the code is hard to test (`hazards`) and where code
and text disagree (`findings`).  Source paths below are relative to the repository.

Contents

1. The system and its parts
2. The modules
3. What each run checks
4. Bounds
5. Fairness and timing
6. Proofs
7. Where code and documentation disagree
8. What the models say about odd corners of the code
9. What is not modelled, and the plan

---------------------------------------------------------------------------------------

## 1. The system and its parts

Everything runs on one machine as separate Node processes under PM2, hooks that the agent
runs, and commands that a user runs.  They share SQLite databases, JSON files that one
process rewrites and others read, and the terminal of the agent.  Except between the web
console and its page there is no network protocol; what makes the system hard is that
every pair of processes interleaves at every SQL statement, file access and `await`, that
any of them may be killed, and that the agent acknowledges things or does not.

    people, channels ──> c4-receive ──┐                       ┌──> agent (tmux)
    web console      ──> c4-receive ──┤                       │       │ c4-control ack
    scheduler daemon ──> c4-receive ──┤  conversations        │       │
    monitor, hooks   ──> c4-control ──┴> control_queue ──> c4-dispatcher
         ▲                                                    │ reads
         │ heartbeats, tool events, status line               ▼
    activity monitor (health engine, guardian, watchdog) ─> agent-status.json

    yos init / add / upgrade / uninstall / runtime ─> files under ~/yos and ~/.claude, ~/.codex

### C4 bridge: queues and dispatcher  (`skills/comm-bridge`)

* **State.**  `conversations` (inbound messages: pending, running, delivered, failed, with
  retry count) and `control_queue` (heartbeats, keystrokes, slash commands: pending,
  running, done, failed, timeout, superseded, with deadline, availability, retry count);
  the dispatcher's local copy of the row and of the agent's status.
* **Operations.**  Insert, conditional claim, mark delivered or failed, requeue, enqueue with
  superseding, ack, expire, clean up.  The dispatcher: poll, sweep, select, claim, gate on
  the agent's state, paste, Enter, verify, retry, settle.
* **Hard.**  A row read and claimed later; a status file that is stale when used; text in
  the input box that a later Enter submits; two dispatchers during a restart; a dispatcher
  killed between claim and result; ack against expiry against retry.
* **Correct when.**  One holder per row; `delivered` only if the agent got it; every extra
  submission paid for by a recorded failure; finished rows stay finished; an accepted
  message is delivered or reported as failed; an overdue heartbeat ends.

### Message intake, checkpoints, outbound  (`skills/comm-bridge`)

* One `c4-receive` per message, repeated when the channel got no answer: deduplication,
  route, row, and a notice with a cooldown when the agent is not reachable.  Memory syncs
  read what no checkpoint covers and write a checkpoint.  `c4-send` records a row and runs a
  channel script.
* **Hard.**  The row is committed before the notice; two processes reserve one cooldown; a
  checkpoint is a read and an insert.  **Correct when.**  A message is queued once, a notice
  comes once in a cooldown, no conversation falls between two summaries.

### Scheduler  (`skills/scheduler`)

* Tables `tasks` and `task_history`; commands add, update, remove, done, pause, resume; a
  daemon that dispatches due tasks, skips missed ones and times out running ones.
* **Hard.**  Commands write over rows between two statements of the daemon; a send times
  out although the prompt was queued; daemon or agent die in the middle.
* **Correct when.**  Started history entries belong to running tasks; one prompt per
  scheduled time; a running task ends; a due task is dispatched, skipped or failed.

### Health engine, router, heartbeat, guardian, monitor loop  (`skills/activity-monitor`)

* Health (ok, unavailable, rate_limited, auth_failed, down), failure count, backoff, the
  pending heartbeat record in a file, timers; the loop that derives idle and busy, writes
  the status file and runs maintenance tasks; what survives a restart.
* **Hard.**  Three callers can have a probe in flight on one record; answers arrive after
  the session that gave them was killed; a daily task is executed and then recorded; the
  runtime is switched under a monitor at work.
* **Correct when.**  A rate-limited agent is never killed; the backoff is respected; a
  responsive agent is found healthy for good; the status file speaks of the agent that
  runs; a task runs once a day.

### Tool events and watchdog, session start, context and usage  (`skills/activity-monitor`)

* Hooks append tool events to a file that the monitor reads, reorders, matches and rotates;
  the watchdog interrupts a stuck tool and escalates.  Session-start hooks run in parallel
  and are put in order by flag files.  Status line processes and a poller ask for a memory
  sync or a new session.  Usage is measured and the owner told.
* **Hard.**  Events lost with an offset that is already saved; completions before starts; flags of an earlier round; overlapping processes of one state file; a
  notice that cannot be sent.

### Commands that install and upgrade  (`cli/commands`, `cli/lib`)

* **Components**: add, upgrade in nine steps with rollback, uninstall, repair; a three-way
  merge against a stored baseline; a lock file.  **Core upgrade**: thirteen steps in two
  processes, rollback, recovery from a backup.  **Init**: a first one, a repeated one, a
  reset.  **Instruction files**: a transaction over several files.  **Hooks** in files shared
  with the user, and Codex's trust in them.  **Credentials** with their receipts.
* **Hard.**  A death or a failing call at any point of a change that spans several files or
  processes; recovery interrupted and run again; a lock taken from a living owner; a file
  that the user edits as well.
* **Correct when.**  What is left is one version of everything or can be recovered; no edit
  of the user is lost; the answer given is true.

### Web console  (`skills/web-console`)

* A page with history, socket and polling; a server that broadcasts rows and status and hands
  messages to `c4-receive`.  **Hard.**  History, stored rows, answers and polls in any order,
  over connections that drop.  **Correct when.**  Nothing shown is lost, doubled or for ever
  "Sending…".

### The rest

Services and PM2, downloads, doctor, memory scripts, shelf scripts, build scripts: see section 9.

---------------------------------------------------------------------------------------

## 2. The modules

| module | models | composed by, proofs |
|---|---|---|
| `C4Queues` | `c4-db.js`: both tables, one operator per function | extended by `C4Dispatcher` |
| `C4Dispatcher` | `c4-dispatcher.js`, `c4-control.js`, intake, agent, crashes | `MCC4Dispatcher`; `C4DispatcherProof` |
| `DurableInbox` | what the bridge promises about messages | abstraction of `C4Dispatcher` |
| `HealthEngine` | `health-engine.js`, `message-router.js`, `guardian.js`, orchestrator, probe | `MCHealthEngine`; `HealthEngineProof` |
| `Scheduler` | `daemon.js`, `daemon-tasks.js`, `cli.js`, `runtime.js`, agent | `MCScheduler`; `ServicesProof` |
| `C4Intake` | `c4-receive.js`, `c4-send.js`, `c4-fetch.js`, `c4-checkpoint.js` | `MCServices`; `ServicesProof` |
| `ToolEvents` | hook, event stream, pipeline, lifecycle, rules, watchdog | `MCServices`; `ServicesProof` |
| `WebConsole` | server, page, socket and polling | `MCServices`; `ConsoleProof` |
| `MergeBaseline` | the baseline protocol of `manifest.js` | `MCInstallation`; `InstallationProof` |
| `AtomicBaseline` | what saving a baseline promises | abstraction of `MergeBaseline` |
| `ComponentCommands` | `add.js`, `component.js`, `upgrade.js`, `smart-merge.js` | `MCInstallation`; `InstallationProof` |
| `UpgradeLock` | `lock.js`, a filesystem call a step | `MCInstallation`; `InstallationProof` |
| `SelfUpgrade` | `self-upgrade.js`, `self-upgrade-finalize.js` | `MCInstallation`; `InstallationProof` |
| `Instructions` | `instruction-builder.js`, its assembler | extended by `Setup`; `SetupProof` |
| `Setup` | `init.js` on top of `Instructions` | `MCMachine`; `SetupProof` |
| `MonitorLoop` | `monitor.js`, orchestrator, task scheduler, `runtime.js` | `MCMachine`; `MachineProof` |
| `HookSync` | `sync-settings-hooks.js`, `codex-hooks.js` | `MCMachine`; `SetupProof` |
| `Credentials` | `claude-credentials.js`, `runtime-setup.js`, uninstall | `MCMachine`; `MachineProof` |
| `SessionStart` | session start orchestrator, sequencer, registry | `MCMachine`; `MachineProof` |
| `ContextWatch` | context monitors of both runtimes | `MCMachine`; `MachineProof` |
| `UsageAlert` | `usage-monitor.js` | `MCMachine`; `MachineProof` |
| `Lists` | filter of an array, removal from one | used by `HookSync`, `ToolEvents`, `WebConsole`; `ListsProof` |

Beside some definitions stands a second one marked "Mutant": a plausible mistake in that
piece of code, which a property detects when it takes the definition's place.  Nothing
else refers to them.

The header of each module says which code it models and how it is cut into steps; the
comments on the variables say which file, table or field each stands for.  What follows is
what a reader should know beside that.

**C4Queues, C4Dispatcher.**  Each operator of `C4Queues` is one function of `c4-db.js` and
denotes the table it leaves; a statement or a transaction is one step.  Seconds are reduced
to what queries compare, except that conversations keep the second of their timestamp,
because rows of one second are not ordered by the query.  One iteration of
`processNextMessage` is split at each statement and `await`.  `snap` is the status as it was
read, `view` the file as it is now.  `box` holds the items whose text lies in the input box:
any Enter submits all of them, which is how a delivery reported as failed can still reach
the agent.  `seen`, `uncounted`, `orphans`, `crashes` are history variables.

**Scheduler.**  `row` and `open` are the tables, `pc`, `cur`, `rest` the daemon between two
statements, `cli` a command between its read and its write.  Time is what the code compares.
An update of a task is two actions, with a new schedule (`Update`) and without (`Amend`).
`queued` and `working` are prompts in the bridge and the agent at work; `copies`, `late`,
`raced`, `crashes` are history variables.

**HealthEngine.**  The monitor is one thread, so an action is the code between two awaits.
`m` holds the fields of engine and guardian, the pending file and the session; `hb` the
controls somebody refers to; `prober` and `checker` the calls in flight; `world` what agent,
c4-control, pane and login currently do.  `cooldownUntil` is left out since both branches
on it return; the route's key with its negative cache, and the guardian's grace and delay,
are nondeterministic.  **MonitorLoop** takes over where it ends: health changes at will
there, and the question is what is written down about it.  A maintenance task whose child is
given up, or whose answer is not understood, may have done its work (`Executes`).

**ToolEvents.**  Every hook line is stamped and appended later, within the reorder window or
not; the monitor's pass is read, ripen, apply, save offset, save state, rotate, watchdog.  The
lines of a pass are applied one by one, each time the first by stamp and kind; of two calls'
lines that tie, the order of arrival decides, which is any (`Ranks`).
**C4Intake** gives each process its own program counter and lets it die between any two
statements; intakes and syncs share the table of conversations.  **WebConsole** keeps the
page's list, its temporary entries and the frames in the pipe apart, because the matching of
a stored row to what was sent goes by text.

**MergeBaseline.**  Five names under `.yos`; each holds a generation, nothing (`None`), or
part of something (`Torn`).  Each filesystem call is one step; `Tear` lets a removal, copy or
write be half done, `IOError` makes any call throw, `Crash` ends the process; nothing bounds
how often.  `Init` contains every leftover of the earlier scheme.  **ComponentCommands** takes
the baseline in one step, which `AtomicBaseline` justifies, and assumes one command at a
time, which is what **UpgradeLock** is about.  Every write of the record and every removal in
it can fail: an error that is caught makes the command undo what it did, an error that is not,
and a clean-up whose failure is ignored, breaks it off where it is (`BreaksOff`) and sets
`adrift`; a removal that fails leaves any part of a directory (`RemoveSome`).  **SelfUpgrade**
gives every step of parent and child an outcome, lets the parent's limit pass at any step of
the child, and keeps what the state file holds apart from what the process remembers.  The
removal of the backup is a step of its own, and a death or the limit in it leaves any part of
the skills, the packed core and the state file (`Remains`), from which the parent's rollback
and later recoveries then work (`spoilt`).

**Instructions, Setup.**  A file is its release, or the edit the user made last, with the time
it was written; each rename is a step.  `Setup` runs the whole of `yos init` as a list of
steps that fail, die or ask, including the calls of `Instructions` it makes.  **HookSync** has
hooks as key and version in groups as in the file, **Credentials** keeps for each value who
wrote it, which the code cannot see and the properties speak of; each of its writes has a
branch of its own that fails, which leaves the file as it was or torn.  **SessionStart** has a
clock and one process per shard.  **ContextWatch** has several status line processes over one
state file, and for Codex a check of the poller in its steps: read the thread, up to three
attempts to enqueue, record.  **UsageAlert** has the two tasks and their two files, each of whose
writes can fail, as can the enqueue of a notice (`dropped`).

---------------------------------------------------------------------------------------

## 3. What each run checks

Parts that share no state are checked in one run, each behaviour exercising one of them
while the others stay as they began (variable `part` of `MCInstallation`, `MCServices`,
`MCMachine`): the states of such a run are the sum of the parts' states, not their product,
and a property of one part is checked in all states of that part.

| run | question | properties |
|---|---|---|
| `MCMessages` | Are outcomes of messages truthful when the status file goes stale, the agent is ill, dies and returns? | `OutcomesAreTrue`, `ImplementsInbox`, `AcceptedIsSettled` |
| `MCOverlap` | Do two dispatchers and a crash ever share, lose or revise a row? | `TypeOK`, `ClaimExclusive`, `RunningIsHeld`, `ConvFinalStays` |
| `MCControls` | Do superseding, deadlines, retries, cleanup and a crash leave the newest control and end every heartbeat? | `NewestNotSuperseded`, `DeadlineResolves` |
| `MCTaskLive` | Do running tasks end and due tasks get handled when sends fail, the agent is silent, the runtime comes and goes and the daemon dies? | `TasksAreResolved` |
| `MCHealth` | Is a rate-limited agent spared and the backoff held with a probe, a delivery check and a monitor restart in flight? | `TypeOK`, `RateLimitedSpared`, `BackoffHolds` |
| `MCHealthLive` | Does every health lead back to ok for a responsive agent, and does no heartbeat record stay? | `HealthReturns`, `PendingResolved` |
| `MCInstallation` | Baseline, component commands, lock and core upgrade: what do errors, edits and deaths at every step leave, half-way through a removal included? | `MergeSeesOnePair`, `NothingGuessed`, `ImplementsAtomic`, `EndsWhole`, `NoEditLost`, `BaselineFitsFiles`, `OneUpgradeAtATime`, `AnswerIsTrue`, `MixedIsRecoverable` |
| `MCServices` | Tool events, intake, checkpoints, scheduler, web console: are calls, notices, summaries, prompts and the page right in any order of their processes? | `TypeOK`, `HistoryAccounted`, `OnePromptPerWindow`, `CallsAreTrue`, `EscalatesTheInterrupted`, `OneRowOneNotice`, `NothingSkipped`, `PageIsTrue` |
| `MCMachine` | Instructions, init, monitor loop and runtime switch, hooks, credentials, session start, context, usage: are files and records of one piece and true? | `OneGeneration`, `FinishedInitAgrees`, `RecordsAreTrue`, `HooksInForce`, `ReclaimIsExact`, `SurvivorsInOrder`, `AskedOnce`, `OwnerIsTold` |
| `MCCrash`, `MCBypass`, `MCCodexUsage` | the findings of section 7; TLC finds the property violated | `AcceptedIsSettled`, `BypassGetsThrough`, `CodexUsageRefreshes` |

What the less obvious properties mean:

* `OutcomesAreTrue`: a message marked delivered has reached the agent, and one the agent saw
  k times has k-1 recorded failures.  Without the look at the input box before a retry it
  fails.
* `ImplementsInbox`: pending and running are both "queued" of `DurableInbox`; a message is
  shown only while queued or already given up, delivered only after it was shown, failed
  only at the limit, and neither outcome is revised.
* `RateLimitedSpared` has one exception, which the code has too: a probe that began in
  auth_failed and waits for `checkAuth` does not look at the health again.
* `BackoffHolds`: while unavailable and inside the backoff, only the check after a process
  restart, or a user's message that ends the backoff, puts a new question to the agent.
* `OnePromptPerWindow`: beyond one prompt per scheduled time there is one more per send
  that timed out after queueing and per command that overwrote the daemon's row.
* `ImplementsAtomic` maps the baseline to the pair a recovery would leave, computed from all
  five names, and the call to open, committed, returned, thrown.
* `EndsWhole`: after a component command that answers with success the record and the
  directory agree, and so they do between commands as long as none died or broke off with
  nothing undone (`adrift`); a directory that an uninstall has left, however it failed or died,
  still has its record, so that it can be run again; the service that ran before an upgrade runs
  with the code that is there, or the answer says so.
* `NoEditLost`, `BaselineFitsFiles`: no edit of the user is gone from both the files and the
  newest backup, and files and baseline are of one version.
* `AnswerIsTrue`, `MixedIsRecoverable`: what the core upgrade reports is installed; and once
  the new package may be in place, a mixture comes with a whole backup that `--recover`
  accepts, unless a rollback has worked with what an unfinished removal had left.
* `CallsAreTrue`: the monitor sees no call running that has ended, so the watchdog
  interrupts nothing that is over; and an end of turn repairs whatever was lost before.
* `PageIsTrue`: no announced row is missing from the page unless it was announced while the
  page had no connection; what the user sent is shown once; nothing hangs without an outage;
  the state shown is the one the server knows.
* `RecordsAreTrue`: after a switch of the runtime the new monitor does not take over what
  the old one knew, unless the file could not be removed or the old one wrote it again; idle
  time is never overstated, unless the agent was active while a task blocked the monitor; a
  daily task runs once, and once more for each run of it that did not get on record.
* `HooksInForce`: the user's own hooks stay, the hooks of the release are in place once, a
  large model comes with its threshold, Codex starts only with hooks it trusts.
* `ReclaimIsExact`: an uninstall takes all that YOS wrote last and has a receipt of, and
  nothing the user never handed to YOS; where the settings cannot be written it takes nothing,
  says so, and the receipt still shows whose the values are; what it says it took is gone, and
  approved of no more unless the approvals could not be written.
* `AskedOnce`: requests to the agent come once in a cooldown, from the session that runs,
  and are on record only if they are queued; the cost of a session that was reported is
  logged once, or appending it failed.
* `OwnerIsTold`: what a measurement found is told, or the notice could not be queued less than
  a cooldown ago, and again within the cooldown only for a higher tier or after a failed write.

Several properties have exceptions ("unless ..."): each is a history variable set where the
code gives the promise up, so that the property still says that nothing else does.

---------------------------------------------------------------------------------------

## 4. Bounds

Every bound is a named constant of its module, or a named predicate of an MC module, and
appears as a guard; nothing else keeps an action of the code from being taken.

| bound | value | why it is enough |
|---|---|---|
| messages | 2 in `MCMessages`, 1 with two dispatchers | selection, order and the shared input box need two rows; a claim race is about one; proved for all |
| controls | 2 | superseding and head-of-queue blocking are between two; superseding is proved for all |
| dispatchers | 2 in `MCOverlap` | the old and the new one of a restart; proved for all |
| `MAX_RETRIES`, `CONTROL_MAX_RETRIES` | 2 and 2 or 3 (2 and 3 in `c4-config.js`) | a first attempt and a last |
| `ENTER_VERIFY_MAX_RETRIES` | 1 or 2 (3 in the code) | a first look and a repeated one |
| `MaxUncounted` | 1 | one failure that the agent's state explains |
| tasks | 1 with all commands, 2 for liveness | history and prompts are per task; two show one waiting behind the other |
| `MaxLate`, `MaxRaces`, `MaxCrashes` | 1 | each is an allowance in the property, one occurrence tests it; proved for all |
| `MaxQueued` | 1 | the agent works through a queue, its length changes nothing |
| probes, checks | one route probe with a delivery check or a timer | the races are between two holders of one record |
| `MaxFailures`, `MaxTurns`, `MaxRestarts` | 1, 2, 1 | a backoff that runs; a change in each direction; a restart in the middle |
| generations, versions, files | 3, 3, 2 | live, left behind and coming; of two files one is unchanged in one release |
| `MaxBackups`, `MaxKept`, `MaxVersion` | 2, 1, 3 | an older backup beside the newest; a directory of an earlier transaction; one release to go back to and two to go on to |
| commands at the lock | 3 | owner, one that takes over, one that comes in between |
| tool calls, `Horizon`, `MaxStops`, `MaxRestarts` | 2, 3, 1, 1 | matching errs between two calls; lines within, at and beyond the window; one end of turn |
| intakes, sources, syncs, rows, checkpoints | 2, 3, 2, 3, 2 | a race is between two; a repeated, a new and an outgoing message; overlapping ranges |
| console: sends, texts, messages, `MaxOutages`, `MaxReconnects`, `MaxPipe` | 2, 2, 3, 1, 1, 1 | two sends with the same text or not; one loss; one attempt before polling |
| instructions: `MaxRuns`, `MaxFaults`, `MaxDeaths`, `MaxEdits`, `MaxLaunches` | 3, 2, 1, 1, 1 | a run, one that fails in its rollback as well, one that recovers |
| init: `MaxInits`, ports | 2, 3 | a first run or a broken one, and a repeated one; taken, own and free port |
| monitor: `LastMoment`, `LastDay`, `MaxMishaps` | 5, 2, 1 | beyond the idle threshold; the day after; one death or failed write |
| hooks: `MaxSyncs`, `MaxChanges`, `MaxTears`, `KeptBackups` | 3, 2, 1, 2 | a sync, one after a change, one after a tear |
| credentials: `MaxJobs`, `MaxOwnEdits`, `MaxBreaks` | 3, 1, 1 | saved, replaced, reclaimed; one edit of the user, one failure |
| session start: `Rounds`, `LastTick`, shards | 2, 26, 3 | a start and a compaction, which finds the flags of the start; the clock covers both ladders |
| context: `Turns`, `Statuslines`, `LastSession`, `LastMinute`, `MaxLapses` | 3, 2, 2, 4, 1 | two that overlap and one after; a session and the next; past each cooldown; one overlap, poll overtaken by a new session, death, late answer or failed append |
| usage: `LastHour`, `MaxUnsaved` | 3, 1 | past the cooldown; one failed write |

`OnlyOneIsLate` (`MCServices`): a line that comes after its window is followed for a call on
its own; with a second call under way the monitor may match it wrongly, which the property
excepts as well. `OneResync`: with a second call, an end of turn and a restart of monitor or
agent come in different behaviours. `OneMishap` (`MCServices`): the daemon's death and a
racing command come in different behaviours there.  The theorems of `ServicesProof` have none
of these bounds. The part "page" of the console has one send and all other traffic, "sends" two
sends and no other traffic, under an outage without attachments (`PlainInOutage`).
`OlderIsPristine` (`MCInstallation`): of two backups of a component the older one, which
is only removed, is one of an unchanged release. `NothingAfterARest` (`MCInstallation`): once
a rollback of the core has had only what a removal left of its backup, no upgrade begins, and
such a rest is not kept beside a later transaction. `OneUsageMishap` (`MCMachine`): a failing
write of the alert file and a notice that could not be queued come in different behaviours,
and the Codex agent stays below the highest tier.  The theorems of `InstallationProof` and
`MachineProof` have none of these bounds.  `MCC4Dispatcher` uses the control kinds the repository enqueues rather than all combinations
of options.

---------------------------------------------------------------------------------------

## 5. Fairness and timing

* **C4Dispatcher**: weak fairness of each dispatcher's step (the loop sleeps and goes on) and of
  clocks.  Nothing of the agent, its acknowledgements or the status file.
* **Scheduler**: weak fairness of the daemon's steps, of the second half of a command and of
  time; a runtime that is away comes back (weak), and the poll is strongly fair: a
  runtime that keeps coming and going is found alive by one of the polls.  Liveness is
  checked without user commands: somebody who pauses and resumes a task for ever, or moves
  its time, keeps it from being dispatched, as he should.
* **HealthEngine**: weak fairness of the maintenance loop, each kind of tick, session start,
  each probe and check (promises resolve), each heartbeat's end and each clock.
  `HealthReturns` also assumes that users go on writing (strong fairness of `UserRoute`),
  which is what the code relies on to leave rate_limited and auth_failed.
* The other modules have safety and action properties only; their specifications state no
  fairness.

Deadlock is checked where the system runs for ever.  `MCInstallation`, `MCServices`,
`MCMachine` and `MCCodexUsage` switch the check off: commands end, and clocks stop at their
bound.

Timing that `HealthEngine` relies on, since clocks are abstracted: a heartbeat's deadline
(at least 120 s) is later than the end of a 25 s probe that began early; a probe that works
on an older record is over before a newer record is 30 s old; a session takes longer to
start than a probe's one-second poll; an answering agent that is restarted answers within the
600 s ceiling.  Without them two probes holding stale ids can clear each other's newer
records and restart a responsive agent for ever.  `SessionStart` assumes that the processes
of a round start within `Skew` of each other and that a compaction comes no earlier than the
ladder of the start is long.  `ToolEvents` assumes that a hook which has not written within the
5 s that the settings give it never will (`LatenessAssumption`); a completion is matched to a
start up to 5 s away.

---------------------------------------------------------------------------------------

## 6. Proofs

All for every value of the constants that satisfies the modules' named assumptions.

**`C4DispatcherProof`** — any number of dispatchers, messages and controls.
`TypeCorrect`.  `ClaimsAreExclusive` (`ClaimExclusive`): strengthened with `HeldRows`, which
says that a row in a dispatcher's hands is in a status from which nobody can claim it; the
claim takes only a pending row, so the holder is new.  `MessagesStayFinal`
(`ConvFinalStays`): `markDelivered` and `markFailed` update unconditionally, so the proof
needs that the row of a holder is running, which is `HeldRows` and exclusiveness again.
`RunningMessagesAreHeld` (`RunningIsHeld`): no path of `processNextMessage` but a death
leaves a claimed row.  `NewestIsNeverSuperseded` (`NewestNotSuperseded`): strengthened with
`IdsInOrder`, by which the inserted row is newer than all others and takes over from
every older row of its content; that a retry brings no row into being is `HeldRows`.

`RecordsOfMessagesAreTrue` (`OutcomesAreTrue`) and `RefinesInbox` (`ImplementsInbox`).
Neither is inductive: a
message whose text still lies in the input box after a failed attempt is submitted by any
later Enter, also by that of another message.  `OutcomeInv` therefore counts the text in the box
as if it had been seen (`Accounted`), lets a holder that has not typed yet spend nothing
(`Paid`), says that what was typed is on its way or has arrived (`OnItsWay`, `Arrived`),
and that the retry count a dispatcher read is not ahead of the row's (`RetryRead`), which
makes a failure final only at the limit.  The refinement then takes one step of
`DurableInbox`, or none, for each step of the dispatcher.

**`HealthEngineProof`** — any bounds, thresholds and numbers of probes.  `TypeCorrect`
(`TypeOK`): `Sound` is what every method of the engine keeps true of its fields, one lemma
per method, and `Good` what a step may do with them, so that each action is a composition of
methods that are `Good`.  That there is a free heartbeat whenever one is asked for is an
argument by cardinality: every one in use is referred to by the pending record, a probe, a
check or a deadline, and there are more than these.  `RateLimitedSparedCorrect`
(`RateLimitedSpared`) and `BackoffHoldsCorrect` (`BackoffHolds`) are action properties that
follow for each step from what `Good` says about it.

**`InstallationProof`** — any number of files, texts, releases, commands and transactions.
*Merge baseline*, any set of versions: `BaselineTypeCorrect` (`TypeOK`); `MergesSeeOnePair`
(`MergeSeesOnePair`); `NeverGuesses` (`NothingGuessed`); `RefinesAtomic`
(`ImplementsAtomic`).  The invariant has two parts: `PairInv` (without a backup, the half
that is not live tells whether to complete or to discard; with one, nothing is staged) and
`StepInv` (what each filesystem call may rely on).  The refinement rests on one lemma,
`OnlyCommitChanges`: no step but the rename changes the pair that a recovery would leave.
*Lock*: `OneUpgrade` (`OneUpgradeAtATime`); while no lock has gone stale or was read half
written, the file belongs to a living process that upgrades, whoever upgrades has his file
there, and nobody is about to remove another's (`Undisturbed`).  *Component*:
`EndsWholeCorrect`, `NoEditLostCorrect`, `BaselineFitsFilesCorrect` from one invariant
`ComponentInv` with the parts `Running` (which step the command is at and what it still has
to do), `Paired` (record, directory and service, as long as nothing is `adrift`; an uninstall
keeps its half of it even then, since it checks the record first and removes it last), `Remembered` (what an upgrade found
when it began is in the directory until the backup is made, and then in the newest backup),
`MergedSoFar` (which files have had their verdict, and what they are then) and `Restarted`.  An earlier form of `BaselineFitsFiles` could not be proved,
rightly: if a release reverts a file to an older text, an upgrade that died in the middle of
its merge leaves a copy that the next one takes for the user's.  The property now lets such
a file be either up to date or kept (`UpToDateOrKept`), and `MCInstallation` has a release
that reverts one.  *Core*: `AnswerIsTrueCorrect`, `MixedIsRecoverableCorrect` from `SelfInv`:
`Forward` (what each step of parent and child may rely on), `BackedUp` (the backup is of what
was there when the upgrade began), `OnOffer` (a directory that a recovery is offered has its
state file, and its skills until a removal takes them) and `Rescuable` (where package and skills do
not belong together, a recovery finds a whole directory that brings back ones that do; a
removal begins only when both are new, so that it takes none that is needed, and what it leaves
is never counted: `RemainsFacts`).  Once a rollback has used such a rest, `Rescuable` is given up
for good (`SpoiltStays`).

**`MachineProof`** — the parts of `MCMachine` that share nothing, each by an invariant of its
own.
*Monitor's loop*, any thresholds, tasks and lengths of run: `RecordsAreTrueCorrect`
(`RecordsAreTrue`) with `Placed` (where the loop is, and of which runtime), `Switched` (what a
switch leaves for the new monitor), `Seen` (an agent held for idle was not active since, or the
next tick sees it, or it was during a task) and `Tallied` (all runs of today but the last
are lost, and the last one is on record, about to be, or lost as well).  The proof showed that
the last activity has to be kept per runtime: with one value for both agents, the one that
was used last would vouch for the one that is now watched.
*Credentials*, any values and jobs: `ReclaimIsExactCorrect` (`ReclaimIsExact`) with `Handed`
(what YOS wrote was handed to it), `Pending` (between settings and receipt), `Accounted`
(every value that YOS wrote last has a receipt, gets one in this run or is owed one) and
`Uninstalling` (what has been taken, what could not be, and what was said of either).
*Start of a session*, any shards, rounds and clock: `SurvivorsInOrderCorrect`
(`SurvivorsInOrder`) with `Timed` (no shard waits longer than its rung or works longer than
a quick one), `FlagsTell` (a flag is too old to count, or all places up to its own have ended)
and `InTurn` (when a place is at work or has printed, those before it have ended).  It uses that a rung is wider than the quick end of a shard and the
skew of their starts together, and that the gap before a compaction makes older flags too
old; both are assumptions of the module.
*Watch on the context*, any number of overlapping status lines, turns, sessions and lapses:
`AskedOnceCorrect` (`AskedOnce`) with `Seeing` (what is on file or in hand is of a session
that has shown how full it is), `Earned` (no time on file or in hand is later than that of
the last request), `InPlace` (without a lapse all of it is of the running session), `Alone`
and `Over` (a single process is not behind the file, and a session whose cost is logged is
over or about to be).  That requests are early no more often than the lapses allow is an
amortised argument: `Credit` is how often they may still be, without a further lapse.  An
overlap pays two into it, one for each of the processes.  A process that asks with an older
time than that of the last request has two: it may be early itself, and the older time that
it saves makes one more possible.  `Spacing` is the invariant, and each step is shown to keep
the account (`Paid`).  `Counted` does the same for the cost lines of a session: as long as it
may come back on file, the lines written plus the processes about to write one exceed the
lapses by at most one, and only while every process under way is about to log it or to leave
it; a cost that could not be appended stands for the line.  `Polling` says of the poller's check
that it keeps to the session it began with and asks only what had cooled, whatever restarts,
late answers or new sessions come between its attempts (`PollingStep`).
*Usage alert*, any tiers, cooldown, restarts and failed writes: `OwnerIsToldCorrect`
(`OwnerIsTold`) with `NoticeFollows` (while the notice on file would hold another one back,
one of its tier or a higher one was queued, or dropped, no earlier), `EarlyIsPaid` (the file
holds a second notice back as long as the last one queued does, or a write has failed that no
early notice accounts for yet) and `ClaudeIsMeasured`.

**`SetupProof`** — any number of releases, runs, edits, failures and deaths.
*Instruction files*, any number of releases, runs, edits, failures and deaths:
`OneGenerationCorrect` (`OneGeneration`) with `UsersOwn` (YOS.md as the next run finds it is
the last edit), `Recovering`, `Moving`, `Placing` and `Discarding` (what is true while
recovery, the backups, the renames or the clean-up are half done).  A few lemmas on taking
the head of a list and putting one in front (`TakeHead`, `PutFront`, `AllInSeq`) carry it.
*yos init*, any runtimes, ports and packages: `FinishedInitAgreesCorrect`
(`FinishedInitAgrees`), on top of the invariant of the instruction files.  What init has done
is not in one place: it is a list of steps, of which a second init leaves out some because of
what the first one left.  `Progress` says for each step what the ones before it have settled
for good; `Untouched` that before all the directories are there nothing else is, which is what
a second init infers from them; `WriterInTurn` that instructions are written by an init that
has come to them; `CaddyAgrees` that Caddy serves the port on record, unless an init has moved
it since and knows.  The invariant was checked on its own first (848,027 states, with the
failures that `MCMachine` leaves to the part of the instruction files).

*Hooks*, any groups and hooks, any number of syncs, launches, releases and deaths:
`HooksInForceCorrect` (`HooksInForce`) with `Remembered` (each hook of the user is in a file
that can be parsed and in what a sync has read, unless it came later or nobody could know of
it; and in the backup that a failed write puts back), `NoKeyTwice` (no key of the core is twice
in a group, so that replacing the first of a key replaces all), `Installed`, `ModelsFit` (the
threshold a model needs is there, or the sync at work is about to write it) and `Trusting` (what
is on record as trusted is, and so is what the app-server was told).  The lists are filtered
by recursion, `Those`; `ThosePicks` (in `ListsProof`, with `ThoseAre`, `ThoseNoMore` and `WithoutFacts` for the
tool events) shows by induction over the length which entries remain, and in which places.
`SyncedFacts` is the result about the whole sync: it loses nothing of the user's, leaves each
core hook once, and in the template's group.

**`ServicesProof`** — the parts of `MCServices` that share nothing.
*Tool events*, any number of calls, turns, restarts and rotations and any delays that satisfy
`LatenessAssumption`: `CallsAreTrueCorrect` (`CallsAreTrue`) and
`EscalatesTheInterruptedCorrect` (`EscalatesTheInterrupted`, an action property) from one
invariant, `ToolInv`.  It says of the lines that are under way, in a file or held (`Pending`)
that each call has one of each kind, none of which a hook was not called for (`LinesFit`);
that what has been applied was ripe (`Past`); that nothing runs on from before the last end
of turn that was applied, in memory or in the saved state (`Resynced`); and then, by cases.
*Where all lines came within their window*, they are applied in the order of their stamps,
and counting is enough (`NoneTooMany`): as long as no end of turn is pending, no more calls run
than calls whose start has been applied and whose end has not (`Open`).  An end takes one call
off the list even if it is the wrong one, as for calls without an id; an end of turn takes all
off that are older, and in order all are.  *Where a line may be late*, the one call there is is
followed (`OneIsRight`): if it has ended and its start is still pending, then so is its end or
an end of turn, or the end waits among the early completions, or the clear among the hints,
close enough in time to be found.  Both parts hold after every single line
(`CountStep`, `AloneStep`, `ClearStep`, `PastStep`), and `AppliedIn` carries that over
the recursion to all lines of a pass; that there is a first line by stamp, kind and arrival is
`FirstFacts`.  The invariant was checked with TLC for five choices of delay and window, from
half to one and a half million states each, before it was proved.
*Intake and checkpoints*, any number of intakes, messages, cooldown keys and memory syncs:
`OneRowOneNoticeEach` (`OneRowOneNotice`): the table of reservations forgets, because a
reservation expires, is taken over, or is given back late.  `KeptInv` says what it never
forgets: as long as a reservation may still become a notice, or became one, the table
has it, or its cooldown is over and what the table has now was reserved after that.
`ApartInv` keeps any two of them a cooldown apart, and with it an intake that gives back
its reservation cannot free one that somebody else still needs.  The clock starts
at 1, so 0 marks a free key.  `NothingIsSkipped`
(`NothingSkipped`): where a sync starts to summarise and where its checkpoint begins can
differ, since another may write one in between, but everything before either is covered
already (`CoveredInv`), and what is covered stays so.
*Scheduled tasks*, any number of tasks, any bounds: `TypeCorrect` includes that
commands may remove or change a row between two statements of the daemon.
`HistoryIsAccounted` (`HistoryAccounted`) and `PromptsAreBounded` (`OnePromptPerWindow`)
rest on `JobsInv` (the rows the daemon still has to work on are of distinct tasks, and none
is running outside the stale pass), `EntriesInv` (the history bound, strengthened where
daemon or command is between two statements) and `PromptsInv` (a task waiting to be
dispatched has no prompt that is not accounted for).

**`ConsoleProof`** — any number of sends, texts, messages, frames and outages:
`PageIsTrueCorrect` (`PageIsTrue`) from `ConsoleInv`, a part for each of the four things that
`PageIsTrue` says, on top of `KnownRows` (rows that are talked of are there; only a page that is
connected has frames or sends over the socket under way).  `Announcements`: a row the server has
announced, or the page has polled past, is `Heard` of: shown, in a frame, in the history
that was read, or noted as missed while there was no connection.  `StateComes`: the last state
among the frames, or else the one shown, is what the server knows.  `Answered`: without an
outage a send that is over but shown as being sent has its failure among the frames or its row in
the table.  `SendsShown` is the part on matching by text.  The page does not know which send
a row is of: it takes away the first temporary message with the row's text, so a row may take
that of another send.  What stays true is a count (`Counted`): for each text there are as
many temporary messages as sends whose row is not shown.  A row adds one to the one side and takes
one from the other, whichever it takes (`TakesOne`, `RowKeeps`), as long as no row without a
send of this page has the text, and a row with attachments does not find a second message to
remove (`NoneTaken`); `HandleSubmit` notes in `odd.crossed` where that is not so.
`AddedKeeps` carries a single row over to all that a frame, a poll or the history brings, by the
recursion of `Added`.  The invariant was checked with TLC first, also with three sends.

Every property that is proved was checked with TLC first, as were the inductive invariants
it took more than one attempt to find.

**Only model-checked.**  Every liveness property (`AcceptedIsSettled`, `DeadlineResolves`,
`TasksAreResolved`, `HealthReturns`, `PendingResolved`), because liveness under fairness is
beyond the provers used.

---------------------------------------------------------------------------------------

## 7. Where code and documentation disagree

| run | what the text says | what the code does |
|---|---|---|
| `MCCrash` | a message taken in is dispatched after recovery (docs/plans, message recovery) | a dispatcher killed between claim and result leaves the row running; its successor looks for pending rows only |
| `MCBypass` | controls with bypass_state are delivered whatever the health | the head of the control queue is claimed and released for ever while the one behind it could be delivered |
| `MCCodexUsage` | the usage of a Codex account is measured again and again | after the first measurement each later one reads back the file of the one before |

`PROJECT.json` quotes the lines.

---------------------------------------------------------------------------------------

## 8. What the models say about odd corners of the code

Behaviour that the models contain because the code has it, met while modelling, and that
exceptions in the properties stand for.  Where a comment says otherwise it is named; no run
is spent on these, since the property with its exception already shows that the case is
reached (its history variable) and that it is the only one.

* **Scheduler and C4.**  "No running tasks. Safe to compact." can be printed while the prompt
  of a send that timed out is queued.  Each restart of the agent resets the failure count, so
  the backoff stays at its first value (`health-engine.js:677`).
* **Upgrade lock.**  A command that looks while another creates its lock (there, but empty) or
  releases it (gone since the look) takes the file for corrupted and removes whatever is
  there by then; so does one that finds a lock older than ten minutes of a living owner.
  Two upgrades can then run (`disturbed`), although `lock.js:3` says that it prevents concurrent
  upgrades of one component.  Uninstall takes no lock.
* **Component commands.**  A death after SKILL.md was merged makes the next check say "up to
  date"; one after `pm2 stop` leaves the service stopped; a torn components.json is read as
  empty.  A directory without a record is a dead end: add refuses it, upgrade and uninstall do not
  know it.  The comment at `add.js:436` says so and that an install which cannot be recorded is
  undone; but only the save for a declarative component is guarded (not `:753`, nor the making of
  the data directory at `:423`), and a clean-up that fails is ignored (`:778`).
* **Core upgrade.**  A rollback before step 4 leaves no state file, so the recovery command it
  prints fails; a parent can roll back after its child has succeeded and removed the backup;
  a rollback does not restore instructions, hooks or the configuration of Codex.  A
  rollback from part of a backup, left by a copy or a removal that broke off, deletes
  from the core skills what that part does not hold, finds the two in agreement and is answered as
  complete, without the recovery command that the README promises for an incomplete one
  (`self-upgrade.js:1562`).  What an unfinished removal of a backup left is offered for recovery like
  any other directory.
* **Init.**  Every second `yos init` moves the console to another port while Caddy still serves
  the old one (`stalePort`).  A `pm2 start` or `pm2 save` that fails counts as no
  failure, and after the latter the services run unobserved.  A reset deletes the
  marker but leaves YOS.md, so that the fresh installation throws; an init that dies between
  the directories and the marker is complete for the next one, which then throws for ever.
* **Runtime switch.**  The old monitor can tick between the removal of the health files and its
  restart and write them again.  A switch that dies after the configuration was written is
  repaired by nothing.
* **Monitor loop.**  Idle time is overstated if the agent was active while a task blocked the
  monitor (`unseen`).  Failed writes of the task record are swallowed: a daily task then runs
  in every second of its hour.  One whose child was given up after it had queued its control or
  committed is run again.
* **Hooks.**  A group of the user's with the same matcher before that of YOS makes a sync add
  the core hooks there while the old ones stay.  A sync that dies between settings and threshold leaves a
  large model without its threshold; one that dies before the restart is queued never restarts
  the session.  A hooks.json written while Codex is asked gives untrusted hooks a valid marker.
* **Credentials.**  A value the user had before and handed to YOS as well is taken by an
  uninstall, against the comment at `claude-credentials.js:21`.  A death between settings and receipt leaves a key that is never taken.  The
  suffixes of replaced keys stay approved; the key in `~/.codex/auth.json` is never taken.
  Where the settings cannot be written an uninstall leaves its keys and names none of them
  (`claude-credentials.js:156`), although `self-uninstall.js:185` says that whatever is left must be
  named.  A token that is refused and cannot be taken out of the settings again has no receipt.
* **Context and usage.**  Status line processes that overlap overwrite each other's state; a
  death between enqueue and save repeats the request; the thread that Codex updated last may
  be the user's own.  The cost of a session is lost when appending it fails, since the file moves
  on all the same.  A check of the poller that a new session overtakes asks for a switch of that
  one.  A notice that could not be queued spends its cooldown.
* **Web console.**  Rows announced while the page has no connection, or between its history
  and its connection, are not shown before a reload: what `send.js` says of polling holds only
  after ten failed attempts to connect.  `addMessage` removes any other entry in
  flight that has attachments; a message sent again after an error can stay "Sending…" when the
  row of the first attempt arrives; a status that changes and returns between connection and
  next tick stays wrong on the page.

---------------------------------------------------------------------------------------

## 9. What is not modelled, and the plan

Components without a module:

* **Services and PM2**: PM2 is external; that a service is started, stopped or restarted and
  can fail to is part of `Setup`, `ComponentCommands`, `SelfUpgrade`.
* **Downloads and releases**: one process fetches, compares a checksum and unpacks; the
  outcome is an input of `ComponentCommands` and `SelfUpgrade`.
* **Memory**: short scripts over Markdown files, each run by itself; their state is text.
* **Shelf, build and release scripts**: run by maintainers outside the installed system.
* Doctor, search, list, capabilities, attach and shell read and print; of self-uninstall only
  what it takes out of the user's files is modelled (`Credentials`).

Simplified within actions, without a property that could tell: the count of a failed delivery
and the row's new status are one step of the dispatcher, which holds the row; keys of a
keystroke control go to the agent and not through the input box, an Enter that leaves the box as
it was and the Escape before typing included; a rollback of a component also copies the backup's
`conflicts/` back; a task's `miss_threshold` never changes; `hooks.json` of
Codex is read and written in one step; the stamps of hook lines and the mtime of the status file
are of one clock.  With an effect that the properties leave out: a session-start shard without a
session id, or whose input times out, prints without waiting for its turn; a package without
templates makes init and core upgrade skip what they would copy from them, silently.

Left out of modelled components: the agent-down alert counter of the dispatcher, the text
typed into the terminal; cron and time-zone arithmetic and history cleanup; how CPU samples
are taken and panes are scraped; the Codex probe, which differs in how it enqueues; text
assembly of instructions; line-by-line merging; installation from a branch; the expiry of
finished tool ids and failed writes of the tool state; the sequential path of session start
for old settings; login, sessions, uploads and throttling of the console, and more than 100
rows of history; length limits of messages; command lines and tmux options.

What remains worth doing: a composition of `C4Intake` with `C4Dispatcher`, so that the notice a
sender gets and the fate of his message are related.
