---------------------------- MODULE HealthEngine ----------------------------
(***************************************************************************)
(* The activity monitor's watch over the agent: the health state machine   *)
(* (health-engine.js), the probes a message route starts when the agent is *)
(* not healthy (message-router.js), the guardian that restarts the session *)
(* (guardian.js) and the tick that ties them together                      *)
(* (monitor-orchestrator.js).                                              *)
(*                                                                         *)
(* The monitor is one thread.  A handler runs to its next await, so an     *)
(* action is the code between two awaits; between them everything else     *)
(* may run.  Time is kept as what the code compares it with: a backoff     *)
(* that has elapsed or not, a pending heartbeat that is new, over 30 s or  *)
(* over 600 s old.  cooldownUntil is left out: both branches on it return. *)
(* Route keys abstract the health reason, so a route for an unhealthy      *)
(* agent may join the probe in flight, find a cached answer or do neither. *)
(***************************************************************************)
EXTENDS Naturals, FiniteSets

CONSTANTS
  Timers,       \* bound: post-restart probes that may be in flight
  Routers,      \* bound: probes started by routes that may be in flight
  Checkers,     \* bound: onUserMessageDelivered calls that may be in flight
  InitialHealth, InitialWorlds,
  Panes,        \* what the agent's pane may come to show
  Logins,       \* what checkAuth may come to find
  Turning,      \* what may change by itself: fields of world, "frozen", "stops"
  MaxTurns,     \* bound: how often it does
  MaxRestarts,  \* bound: restarts of the monitor itself
  MaxFailures   \* restartFailureCount from which the delay stays 3600 s

World == [answers : BOOLEAN,  \* the agent, while up, acknowledges before the deadline
          c4 : BOOLEAN,       \* c4-control can be run
          pane : {"clean", "limit", "auth", "api"},
          login : {"success", "failure", "uncertain"}]
Healths == {"ok", "unavailable", "rate_limited", "auth_failed", "down"}

ASSUME BoundsAssumption ==
  MaxTurns \in Nat /\ MaxRestarts \in Nat /\ MaxFailures \in Nat \ {0}
ASSUME SlotsAssumption ==
  /\ IsFiniteSet(Timers) /\ IsFiniteSet(Routers) /\ Timers \cap Routers = {}
  /\ InitialHealth \subseteq Healths /\ InitialWorlds \subseteq World
  /\ Panes \subseteq {"clean", "limit", "auth", "api"}
  /\ Logins \subseteq {"success", "failure", "uncertain"}

VARIABLES
  m,         \* the engine's and the guardian's fields, the pending file, the session
  hb,        \* the heartbeat controls that somebody still refers to
  prober,    \* runRecoveryProbe calls
  checker,   \* onUserMessageDelivered calls
  world,
  turns, restarts

vars == <<m, hb, prober, checker, world, turns, restarts>>

Probers == Timers \cup Routers
Ids == 1..(Cardinality(Probers) + 1)
Phases == {"primary", "recovery", "post_restart", "down-check"}
NoPending == [id |-> 0, phase |-> "none", age |-> "new"]
Pending == [id : Ids, phase : Phases, age : {"new", "mid", "old"}]
Idle == [at |-> "idle", id |-> 0, phase |-> "none", early |-> FALSE]
AwaitingAuth == [at |-> "auth", id |-> 0, phase |-> "none", early |-> FALSE]
\* early: the heartbeat was at most 30 s old when the probe began to poll it.
Polling == [at : {"poll"}, id : Ids, phase : Phases, early : BOOLEAN]

Monitor ==
  [health : Healths,
   failures : 0..MaxFailures,  \* restartFailureCount
   rested : BOOLEAN,           \* the backoff since lastRecoveryAt has elapsed
   recovering : BOOLEAN,       \* recoveringStartedAt > 0
   signal : {"none", "fresh", "ripe"},  \* signalDetectedAt, and its grace period over
   timer : BOOLEAN,            \* postRestartProbeTimer
   asked : BOOLEAN,            \* lastUserMessageRecoveryAt is within its cooldown
   due : BOOLEAN, downDue : BOOLEAN,    \* the primary and the down-check interval are over
   limitHits : 0..1, stickyHits : 0..1,
   running : {"unknown", "yes", "no"},  \* lastAgentRunning
   pending : Pending \cup {NoPending},  \* heartbeat-pending.json
   session : {"none", "stopped", "starting", "up"}]

\* A started monitor.
Fresh(health, pending, session) ==
  [health |-> health, failures |-> 0, rested |-> TRUE, recovering |-> health = "unavailable",
   signal |-> "none", timer |-> FALSE, asked |-> FALSE, due |-> FALSE, downDue |-> TRUE,
   limitHits |-> 0, stickyHits |-> 0, running |-> "unknown", pending |-> pending,
   session |-> session]

Held(pending, pr) == {pending.id} \cup {pr[p].id : p \in Probers}

TypeOK ==
  /\ m \in Monitor
  /\ m.timer => m.health # "ok"
  /\ m.failures = 0 => m.rested
  /\ hb \in [Ids -> {"free", "live", "orphaned", "done", "failed"}]
  /\ prober \in [Probers -> {Idle, AwaitingAuth} \cup Polling]
  /\ \A i \in Ids : hb[i] = "free" <=> i \notin Held(m.pending, prober)
  /\ checker \in [Checkers -> {"idle", "sleep", "auth"}]
  /\ world \in World
  /\ turns \in 0..MaxTurns /\ restarts \in 0..MaxRestarts

Init ==
  /\ \E h \in InitialHealth : m = Fresh(h, NoPending, "up")
  /\ hb = [i \in Ids |-> "free"]
  /\ prober = [p \in Probers |-> Idle]
  /\ checker = [c \in Checkers |-> "idle"]
  /\ world \in InitialWorlds
  /\ turns = 0 /\ restarts = 0

-----------------------------------------------------------------------------
(* What the handlers are built from: each maps a monitor state to the next *)

HasPane(x) == x.session \in {"stopped", "up"}
Pane == IF HasPane(m) THEN world.pane ELSE "clean"

\* getBackoffDelay() is 0 without failures.
InBackoff(x) == x.failures > 0 /\ ~x.rested
Recovered(x) == [x EXCEPT !.failures = 0, !.rested = TRUE]
Attempted(x) == [x EXCEPT !.rested = x.failures = 0]
Failed(x) ==
  [x EXCEPT !.failures = IF @ < MaxFailures THEN @ + 1 ELSE @, !.rested = FALSE]

\* killTmuxSession, with nothing to kill unless there is a session.
PerformSelfHeal(x) == [x EXCEPT !.session = IF HasPane(x) THEN "none" ELSE @]

SetHealth(x, h) ==
  IF x.health = h THEN x
  ELSE [x EXCEPT !.health = h, !.timer = @ /\ h \notin {"ok", "rate_limited"}]

EnterRateLimited(x) ==
  IF x.health = "rate_limited" THEN x
  ELSE SetHealth([Recovered(x) EXCEPT !.recovering = FALSE, !.signal = "none"], "rate_limited")

\* Mutant: the guard for RATE_LIMITED is missing.
RecoversAnyway(health) == health = "down"

RecoverySkipped(health) == health \in {"down", "rate_limited"}

\* hour: the failure has lasted for downDegradeThreshold.
TriggerRecovery(x, hour) ==
  IF RecoverySkipped(x.health) THEN x
  ELSE LET y == IF x.health = "ok" THEN [SetHealth(x, "unavailable") EXCEPT !.recovering = TRUE]
                ELSE x
           z == PerformSelfHeal(Failed(y))
       IN IF z.recovering /\ hour THEN SetHealth(z, "unavailable") ELSE z

\* Mutant: only an unavailable agent is found healthy.
HealsUnavailable(x, phase) ==
  LET y == [Recovered(x) EXCEPT !.pending = NoPending, !.signal = "none", !.timer = FALSE]
  IN IF x.health = "unavailable" THEN SetHealth(y, "ok") ELSE y

OnHeartbeatSuccess(x, phase) ==
  SetHealth([Recovered(x) EXCEPT !.pending = NoPending, !.recovering = FALSE, !.signal = "none",
                                 !.timer = FALSE, !.asked = FALSE,
                                 !.due = @ /\ phase = "primary"], "ok")

OnHeartbeatFailure(x, hour) ==
  LET y == [x EXCEPT !.pending = NoPending]
  IN CASE x.health \in {"ok", "unavailable", "rate_limited"} /\ Pane = "limit" -> EnterRateLimited(y)
       [] x.health = "rate_limited" /\ Pane # "limit" -> SetHealth(Failed(y), "unavailable")
       [] OTHER -> TriggerRecovery(y, hour)

\* What c4-control says of a heartbeat.
StatusOf(id) == IF world.c4 THEN hb[id] ELSE "error"

\* enqueueHeartbeat: nothing changes when c4-control fails.
EnqueueHeartbeat(x, phase) ==
  IF ~world.c4 THEN x
  ELSE LET id == CHOOSE i \in Ids : i \notin Held(m.pending, prober)
       IN [x EXCEPT !.pending = [id |-> id, phase |-> phase, age |-> "new"],
                    !.due = @ /\ phase # "primary"]

\* The step ends in x and pr.  New heartbeats are live, those nobody refers to
\* any more are forgotten, and killing the session orphans the ones in flight:
\* whether the prompt had been typed into it decides if it is still answered.
Step(x, pr) ==
  /\ m' = x
  /\ prober' = pr
  /\ hb' = [i \in Ids |->
       CASE i \notin Held(x.pending, pr) -> "free"
         [] i \in Held(x.pending, pr) /\ hb[i] = "free" -> "live"
         [] i \in Held(x.pending, pr) /\ hb[i] = "live" /\ HasPane(m) /\ x.session = "none" -> "orphaned"
         [] OTHER -> hb[i]]

\* A step that leaves everything else alone.
Only(A) == A /\ UNCHANGED <<checker, world, turns, restarts>>

-----------------------------------------------------------------------------
(* runMaintenanceCycle, once a second *)

\* _trackAgentRunning with the value of the last tick.
Tracked == [m EXCEPT !.running = IF @ = "unknown" THEN "no" ELSE @]
HasPending == m.pending.id # 0
Status == StatusOf(m.pending.id)
InFlight == Status \in {"live", "orphaned", "error"}

\* A heartbeat in flight for over 30 s, and an API error in the pane.
ScanApiError ==
  /\ HasPending /\ InFlight
  /\ m.pending.age = "mid" /\ Pane = "api"
  /\ \E hour \in BOOLEAN : Step(OnHeartbeatFailure(Tracked, hour), prober)

\* Mutant: without the ceiling a heartbeat stays pending until C4 settles it.
NoCeiling == FALSE /\ m.pending.age = "old"

TooOld == m.pending.age = "old" /\ Status # "done"

HandleStale ==
  /\ HasPending /\ TooOld
  /\ \E hour \in BOOLEAN : Step(OnHeartbeatFailure(Tracked, hour), prober)

HandleDone ==
  /\ HasPending /\ Status = "done"
  /\ Step(OnHeartbeatSuccess(Tracked, m.pending.phase), prober)

HandleFailed ==
  /\ HasPending /\ Status = "failed" /\ ~TooOld
  /\ \E hour \in BOOLEAN : Step(OnHeartbeatFailure(Tracked, hour), prober)

PostRestartProbeState(health) == health \in {"unavailable", "down", "auth_failed"}
Accelerates == PostRestartProbeState(m.health) /\ m.signal = "ripe"
Free == ~HasPending /\ m.health # "rate_limited" /\ m.running = "yes"

Accelerate ==
  /\ Free /\ Accelerates
  /\ LET x == EnqueueHeartbeat([m EXCEPT !.signal = "none"], "post_restart")
     IN Step(IF world.c4 THEN [x EXCEPT !.downDue = @ /\ m.health # "down"] ELSE Attempted(x), prober)

\* Mutant: the backoff is not looked at.
NeverBacksOff == Free /\ ~Accelerates /\ m.health = "unavailable"

MayRecover == Free /\ ~Accelerates /\ m.health = "unavailable" /\ ~InBackoff(m)

Recover ==
  /\ MayRecover
  /\ LET x == EnqueueHeartbeat(m, "recovery") IN Step(IF world.c4 THEN x ELSE Attempted(x), prober)

DownCheck ==
  /\ Free /\ ~Accelerates /\ m.health = "down" /\ m.downDue
  /\ Step([EnqueueHeartbeat(m, "down-check") EXCEPT !.downDue = ~world.c4], prober)

Primary ==
  /\ Free /\ ~Accelerates /\ m.health \in {"ok", "auth_failed"} /\ m.due
  /\ Step(EnqueueHeartbeat(m, "primary"), prober)

\* A cycle before the first tick takes the agent for not running.
TrackOnly == m.running = "unknown" /\ ~HasPending /\ Step(Tracked, prober)

Maintenance ==
  Only(\/ ScanApiError \/ HandleStale \/ HandleDone \/ HandleFailed
       \/ Accelerate \/ Recover \/ DownCheck \/ Primary \/ TrackOnly)

-----------------------------------------------------------------------------
(* runRecoveryProbe, and who starts it *)

\* One look at the status of its heartbeat by prober p, which is to be at q, in state x.
LookAt(x, p, q) ==
  CASE StatusOf(q.id) = "done" -> Step(OnHeartbeatSuccess(x, q.phase), [prober EXCEPT ![p] = Idle])
    [] StatusOf(q.id) = "failed" ->
         \E hour \in BOOLEAN : Step(OnHeartbeatFailure(x, hour), [prober EXCEPT ![p] = Idle])
    [] OTHER -> Step(x, [prober EXCEPT ![p] = q])

\* Up to the first await, from a state x that is not ok.
RunRecoveryProbe(x, p, phase) ==
  LET y == Attempted(x)
      z == IF HasPending THEN y ELSE EnqueueHeartbeat(y, phase)
  IN CASE x.health = "auth_failed" -> Step(y, [prober EXCEPT ![p] = AwaitingAuth])
       [] x.health # "auth_failed" /\ z.pending.id = 0 -> Step(z, prober)
       [] x.health # "auth_failed" /\ z.pending.id # 0 -> 
            LookAt(z, p, [at |-> "poll", id |-> z.pending.id, phase |-> z.pending.phase,
                          early |-> z.pending.age = "new"])

Settled(p) == prober[p].at = "poll" /\ StatusOf(prober[p].id) \in {"done", "failed"}

Poll(p) ==
  /\ Settled(p)
  /\ LookAt(m, p, prober[p])
  /\ UNCHANGED <<checker, world, turns, restarts>>

\* 25 s are over.
GiveUp(p) ==
  /\ prober[p].at = "poll"
  /\ Step(m, [prober EXCEPT ![p] = Idle])
  /\ UNCHANGED <<checker, world, turns, restarts>>

\* checkAuth resolves: what it found is written whatever the health is by now.
AuthAnswer(p) ==
  /\ prober[p].at = "auth"
  /\ Step(IF world.login = "success"
          THEN PerformSelfHeal(SetHealth([Recovered(m) EXCEPT !.recovering = TRUE], "unavailable"))
          ELSE SetHealth(m, "auth_failed"),
          [prober EXCEPT ![p] = Idle])
  /\ UNCHANGED <<checker, world, turns, restarts>>

\* The timer set by onProcessRestarted fires.
PostRestartProbe(p) ==
  /\ m.timer /\ prober[p] = Idle
  /\ RunRecoveryProbe([m EXCEPT !.timer = FALSE], p, "post_restart")
  /\ UNCHANGED <<checker, world, turns, restarts>>

\* notifyUserMessage, when it returns true.
Notified(x) ==
  LET y == [x EXCEPT !.asked = TRUE, !.downDue = @ \/ x.health = "down"]
  IN IF x.health = "unavailable" THEN Recovered(y) ELSE y

Joinable == \E r \in Routers : prober[r] # Idle

\* A route for a message of a user, when none was let through within the last minute:
\* it joins a probe in flight or starts one.
UserRoute(r) ==
  /\ m.health # "ok" /\ ~m.asked
  /\ \/ Joinable /\ Step(Notified(m), prober)
     \/ prober[r] = Idle /\ RunRecoveryProbe(Notified(m), r, "recovery")
  /\ UNCHANGED <<checker, world, turns, restarts>>

WithinUnavailableBackoff == m.health \in {"unavailable", "down"} /\ InBackoff(m)
MayProbe == ~WithinUnavailableBackoff

\* Any other route (no reply wanted, or within the minute): it probes unless its
\* answer is in the negative cache.
Route(r) ==
  /\ m.health # "ok" /\ MayProbe
  /\ prober[r] = Idle
  /\ RunRecoveryProbe(m, r, "recovery")
  /\ UNCHANGED <<checker, world, turns, restarts>>

-----------------------------------------------------------------------------
(* onUserMessageDelivered: what the pane shows after a delivery to a healthy agent *)

Delivered(c) ==
  /\ checker[c] = "idle" /\ m.health = "ok"
  /\ checker' = [checker EXCEPT ![c] = "sleep"]
  /\ UNCHANGED <<m, hb, prober, world, turns, restarts>>

NoHits(x) == [x EXCEPT !.limitHits = 0, !.stickyHits = 0]

\* The second hit in a row counts.
SeeLimit ==
  LET x == [m EXCEPT !.limitHits = 1, !.stickyHits = 0]
  IN Step(IF m.limitHits = 0 THEN x ELSE EnterRateLimited([x EXCEPT !.limitHits = 0]), prober)

\* The second hit counts 30 s after the first.
SeeApiError ==
  LET x == [m EXCEPT !.stickyHits = 1, !.limitHits = 0]
  IN \/ Step(x, prober)
     \/ /\ m.stickyHits = 1
        /\ Step(PerformSelfHeal(SetHealth([x EXCEPT !.stickyHits = 0], "unavailable")), prober)

CheckWakes(c) ==
  /\ checker[c] = "sleep"
  /\ checker' = [checker EXCEPT ![c] = IF m.health = "ok" /\ Pane = "auth" THEN "auth" ELSE "idle"]
  /\ CASE m.health # "ok" \/ Pane = "auth" -> Step(m, prober)
       [] m.health = "ok" /\ Pane = "limit" -> SeeLimit
       [] m.health = "ok" /\ Pane = "api" -> SeeApiError
       [] m.health = "ok" /\ Pane = "clean" -> Step(NoHits(m), prober)
  /\ UNCHANGED <<world, turns, restarts>>

\* checkAuth resolves for a delivery, whatever the health is by now.
CheckAuth(c) ==
  /\ checker[c] = "auth"
  /\ checker' = [checker EXCEPT ![c] = "idle"]
  /\ Step(IF world.login = "failure" THEN SetHealth(NoHits(m), "auth_failed") ELSE NoHits(m), prober)
  /\ UNCHANGED <<world, turns, restarts>>

-----------------------------------------------------------------------------
(* The monitor's tick *)

\* Mutant: the probe is scheduled for a healthy agent too.
SchedulesAlways(x) == [Recovered(x) EXCEPT !.signal = "fresh", !.timer = TRUE]

OnProcessRestarted(x) ==
  LET y == Recovered(x)
  IN IF x.health = "ok" THEN y ELSE [y EXCEPT !.signal = "fresh", !.timer = TRUE]

TickRunning ==
  /\ m.session = "up"
  /\ Step([m EXCEPT !.running = "yes",
             !.signal = IF m.running = "no" /\ PostRestartProbeState(m.health) THEN "fresh" ELSE @],
          prober)

\* The restart delay, or the grace of a start, is not over.
TickWaits == m.session # "up" /\ Step([m EXCEPT !.running = "no"], prober)

\* startAgent: the session is built asynchronously, and within the grace of 30 ticks.
TickStarts ==
  /\ m.session \in {"none", "stopped"}
  /\ Step(OnProcessRestarted([m EXCEPT !.running = "no", !.session = "starting"]), prober)

Tick == Only(TickRunning \/ TickWaits \/ TickStarts)

\* A process that no longer runs under an active tool, or a tool that outlived its interrupt.
FrozenProcess ==
  /\ "frozen" \in Turning /\ turns < MaxTurns
  /\ m.session = "up" /\ m.running = "yes"
  /\ \E hour \in BOOLEAN : Step(TriggerRecovery(m, hour), prober)
  /\ turns' = turns + 1
  /\ UNCHANGED <<checker, world, restarts>>

\* The monitor starts again, from the health it saved and the pending file.
MonitorRestart ==
  /\ restarts < MaxRestarts
  /\ Step(Fresh(m.health, m.pending, m.session), [p \in Probers |-> Idle])
  /\ checker' = [c \in Checkers |-> "idle"]
  /\ restarts' = restarts + 1
  /\ UNCHANGED <<world, turns>>

-----------------------------------------------------------------------------
(* Time, the message queue and the agent *)

BackoffElapses == InBackoff(m) /\ Step([m EXCEPT !.rested = TRUE], prober)
SignalRipens == m.signal = "fresh" /\ Step([m EXCEPT !.signal = "ripe"], prober)
AskedElapses == m.asked /\ Step([m EXCEPT !.asked = FALSE], prober)
DownDueArrives == ~m.downDue /\ m.health = "down" /\ Step([m EXCEPT !.downDue = TRUE], prober)
DueArrives ==
  ~m.due /\ m.health \in {"ok", "auth_failed"} /\ Step([m EXCEPT !.due = TRUE], prober)
\* A probe older than the record is over after 30 s.  600 s are over only for a heartbeat
\* that is not answered or not seen to be: deadlines and restarts take less.
PendingAges ==
  /\ HasPending
  /\ \/ /\ m.pending.age = "new"
        /\ \A p \in Probers : prober[p].at = "poll" => prober[p].id = m.pending.id
     \/ m.pending.age = "mid" /\ ~(world.answers /\ world.c4)
  /\ Step([m EXCEPT !.pending.age = IF @ = "new" THEN "mid" ELSE "old"], prober)

TimePasses ==
  Only(BackoffElapses \/ SignalRipens \/ AskedElapses \/ DownDueArrives \/ DueArrives \/ PendingAges)

Settle(id, s) ==
  /\ hb' = [hb EXCEPT ![id] = s]
  /\ UNCHANGED <<m, prober, checker, world, turns, restarts>>

Answer(id) == hb[id] \in {"live", "orphaned"} /\ m.session = "up" /\ world.answers /\ Settle(id, "done")

\* The deadline is 120 s or more: a probe of 25 s that began early is over before it.
Expire(id) ==
  /\ hb[id] = "orphaned" \/ (hb[id] = "live" /\ ~world.answers)
  /\ \A p \in Probers : ~(prober[p].id = id /\ prober[p].early)
  /\ Settle(id, "failed")

\* The new session has a clean pane.  It takes longer to start than the second
\* until the next look of a probe.
Launches ==
  /\ m.session = "starting"
  /\ \A p \in Probers : ~Settled(p)
  /\ Step([m EXCEPT !.session = "up"], prober)
  /\ world' = [world EXCEPT !.pane = "clean"]
  /\ UNCHANGED <<checker, turns, restarts>>

AgentStops ==
  /\ "stops" \in Turning /\ turns < MaxTurns
  /\ m.session \in {"up", "starting"}
  /\ Step([m EXCEPT !.session = "stopped"], prober)
  /\ turns' = turns + 1
  /\ UNCHANGED <<checker, world, restarts>>

WorldTurns ==
  /\ turns < MaxTurns /\ turns' = turns + 1
  /\ \E a, c \in BOOLEAN, pane \in Panes, login \in Logins :
       /\ world' = [answers |-> a, c4 |-> c, pane |-> pane, login |-> login]
       /\ \E f \in Turning \cap DOMAIN world : world' = [world EXCEPT ![f] = world'[f]]
       /\ world' # world
  /\ UNCHANGED <<m, hb, prober, checker, restarts>>

Next ==
  \/ Maintenance \/ Tick \/ FrozenProcess \/ MonitorRestart
  \/ \E p \in Probers : Poll(p) \/ GiveUp(p) \/ AuthAnswer(p)
  \/ \E p \in Timers : PostRestartProbe(p)
  \/ \E r \in Routers : UserRoute(r) \/ Route(r)
  \/ \E c \in Checkers : Delivered(c) \/ CheckWakes(c) \/ CheckAuth(c)
  \/ TimePasses
  \/ \E id \in Ids : Answer(id) \/ Expire(id)
  \/ Launches \/ AgentStops \/ WorldTurns

Spec == Init /\ [][Next]_vars

-----------------------------------------------------------------------------
(* Properties *)

Killed == HasPane(m) /\ m'.session = "none"

\* A rate-limited agent is not restarted: whichever of heartbeat, watchdog, probe or
\* delivery check reports trouble, its session is left alone.  The one exception is a
\* probe that began in auth_failed and is still waiting for checkAuth
\* (health-engine.js, header and triggerRecovery).
RateLimitedSpared ==
  [][Killed /\ m.health = "rate_limited" => \E p \in Probers : prober[p].at = "auth"]_vars

\* In the backoff after a failed recovery nothing asks the agent again except the
\* check of a restarted process and a user's message, which ends the backoff
\* (runMaintenanceCycle, runRecoveryProbe and the router's own look at the backoff).
BackoffHolds ==
  [][m.health = "unavailable" /\ InBackoff(m) /\ ~HasPending /\ m'.pending.id # 0
     => m'.pending.phase = "post_restart" \/ ~InBackoff(m')]_vars

\* The scheduling the code provides: timers fire, the loop ticks, promises resolve,
\* heartbeats are answered or expire, and a session that is started comes up.
Fairness ==
  /\ WF_vars(Maintenance)
  /\ WF_vars(Only(TickRunning)) /\ WF_vars(Only(TickStarts))
  /\ WF_vars(Launches)
  /\ \A p \in Probers : WF_vars(Poll(p) \/ GiveUp(p)) /\ WF_vars(AuthAnswer(p))
  /\ \A p \in Timers : WF_vars(PostRestartProbe(p))
  /\ \A c \in Checkers : WF_vars(CheckWakes(c)) /\ WF_vars(CheckAuth(c))
  /\ \A id \in Ids : WF_vars(Answer(id)) /\ WF_vars(Expire(id))
  /\ WF_vars(Only(BackoffElapses)) /\ WF_vars(Only(SignalRipens)) /\ WF_vars(Only(AskedElapses))
  /\ WF_vars(Only(DownDueArrives)) /\ WF_vars(Only(DueArrives)) /\ WF_vars(Only(PendingAges))
FairSpec == Spec /\ Fairness

\* Users go on writing.
UsersWrite == \A r \in Routers : SF_vars(UserRoute(r))

Responsive == world.answers /\ world.c4 /\ world.pane = "clean" /\ world.login = "success"

\* From whatever the monitor has gone through (failed heartbeats, a rate limit, a
\* lost login, a legacy down, its own restart), once the agent is responsive for good
\* and users write, the agent is found healthy and stays so: no state has no way back
\* and no late answer keeps restarting it.
HealthReturns == UsersWrite /\ <>[]Responsive => <>[](m.health = "ok")

\* A heartbeat never blocks the engine for good, not even when c4-control fails from
\* now on: the record is cleared within its 600 s ceiling (runMaintenanceCycle).
PendingResolved == HasPending ~> ~HasPending
=============================================================================
