------------------------------ MODULE ToolEvents ------------------------------
(***************************************************************************)
(* What the monitor knows of the agent's tool calls, and what the tool     *)
(* watchdog does with it: skills/activity-monitor/scripts/hook-activity,   *)
(* tool-event-stream, tool-pipeline, tool-lifecycle, tool-rules and        *)
(* tool-watchdog.                                                          *)
(*                                                                         *)
(* Every start and end of a tool call is reported by a hook process of its *)
(* own, which stamps its line with the time and appends it some time       *)
(* later.  Once a second the monitor reads the new lines, holds those      *)
(* younger than the reorder window, applies the rest in the order of their *)
(* stamps, saves how far it has read and then what it knows, rotates the   *)
(* file when it is full and nothing is under way, and lets the watchdog    *)
(* look at the oldest call.  The monitor can die between any two of these. *)
(* The calls are of one foreground session, all under the watchdog's rule, *)
(* with one name and one summary: nothing but the id tells them apart.     *)
(***************************************************************************)
EXTENDS Naturals, FiniteSets, Sequences, Lists

CONSTANTS
  Tools,         \* tool calls of the session
  Unnamed,       \* those whose completion comes without a tool_use_id
  Horizon,       \* bound on the clock
  MaxStops,      \* bound on the turns that end
  MaxRestarts,   \* bound on restarts of the monitor or the agent
  Delay,         \* a hook appends its line less than this after stamping it
  Window,        \* TOOL_EVENT_REORDER_WINDOW_MS, and the slack of a clear hint
  MatchWindow,   \* COMPLETION_MATCH_WINDOW_MS
  Ttl,           \* PENDING_EVENT_TTL_MS
  ClearGrace,    \* STATUSLINE_ACTIVE_TOOL_CLEAR_GRACE_MS
  Limit,         \* maxRuntimeSec of the rule
  Grace,         \* interruptGraceSec
  Cooldown,      \* cooldownSec between two tries to queue an interrupt
  NoCall         \* no tool call

ASSUME ToolAssumption ==
  /\ Unnamed \subseteq Tools /\ NoCall \notin Tools /\ IsFiniteSet(Tools)
  /\ {Horizon, MaxStops, MaxRestarts, Delay, Window, MatchWindow, Ttl, ClearGrace, Limit, Grace,
      Cooldown} \subseteq Nat

\* The runtime ends a hook after 5 s (its timeout in sync-settings-hooks); a completion
\* matches a start that is up to 5 s away, and waits 30 s for it.
ASSUME LatenessAssumption == Delay <= MatchWindow /\ Delay <= Ttl /\ Window <= Ttl

VARIABLES
  clock,
  reported,      \* what the hooks have been called for, per call
  stops,         \* turns that have ended
  flying,        \* lines stamped and not yet appended
  oldFlying,     \* of these, the ones whose process opened the file before it was rotated
  log,           \* tool-events.jsonl past streamState.offset
  old,           \* the rotated file: what is not read of it
  draining,      \* rotated_drain is set
  held,          \* reorderBuffer
  life,          \* lifecycleState of the session
  disk,          \* session-tool-state.json; the offset is saved with every read
  phase,         \* how far the tick has come
  dog,           \* watchdogState, persisted whenever it changes
  hit,           \* the calls that were interrupted
  restarts,      \* restarts so far
  lost,          \* some line will never be applied
  overran        \* some line was appended when its window had passed

stream == <<log, old, draining, held>>
monitor == <<life, disk, phase, dog, hit>>
trouble == <<restarts, lost, overran>>
toolVars == <<clock, reported, stops, flying, oldFlying, stream, monitor, trouble>>

Priority(kind) == CASE kind = "pre" -> 1 [] kind = "post" -> 2 [] kind = "stop" -> 3 [] OTHER -> 4

NoDog == [call |-> NoCall, sentAt |-> 0, retryAt |-> 0, escalated |-> FALSE]
EmptyLife == [running |-> <<>>, finished |-> {}, early |-> {}, hints |-> {}, cleared |-> 0]

ToolInit ==
  /\ clock = 1 /\ stops = 0
  /\ reported = [t \in Tools |-> "no"]
  /\ flying = {} /\ oldFlying = {}
  /\ log = {} /\ old = {} /\ draining = FALSE /\ held = {}
  /\ life = EmptyLife /\ disk = EmptyLife
  /\ phase = "read" /\ dog = NoDog /\ hit = {}
  /\ restarts = 0 /\ lost = FALSE /\ overran = FALSE

-----------------------------------------------------------------------------
(* Hooks *)

\* A second, with one tick of the monitor.
ToolTime ==
  /\ clock < Horizon /\ phase = "done"
  /\ \A e \in flying: clock + 1 < e.ts + Delay
  /\ clock' = clock + 1 /\ phase' = "read"
  /\ UNCHANGED <<reported, stops, flying, oldFlying, stream, life, disk, dog, hit, trouble>>

\* Hooks are called and write whenever they do; what they do while the monitor
\* is at a step that does not look at it can as well be done before or after.
Stamp(kind, t) == phase \in {"read", "done"} /\ flying' = flying \cup {[kind |-> kind, call |-> t, ts |-> clock]}

CallStarts(t) ==
  /\ reported[t] = "no"
  /\ reported' = [reported EXCEPT ![t] = "running"]
  /\ Stamp("pre", t)
  /\ UNCHANGED <<clock, stops, oldFlying, stream, monitor, trouble>>

CallEnds(t) ==
  /\ reported[t] = "running"
  /\ reported' = [reported EXCEPT ![t] = "done"]
  /\ Stamp("post", t)
  /\ UNCHANGED <<clock, stops, oldFlying, stream, monitor, trouble>>

\* Stop, StopFailure or an idle notification: what still ran has ended.
TurnEnds ==
  /\ stops < MaxStops
  /\ stops' = stops + 1
  /\ reported' = [t \in Tools |-> IF reported[t] = "running" THEN "done" ELSE reported[t]]
  /\ Stamp("stop", NoCall)
  /\ UNCHANGED <<clock, oldFlying, stream, monitor, trouble>>

\* A line goes to the file its process opened; that file may be gone by now.
HookAppends(e) ==
  /\ e \in flying /\ phase # "watchdog"
  /\ flying' = flying \ {e} /\ oldFlying' = oldFlying \ {e}
  /\ CASE e \notin oldFlying           -> log' = log \cup {e} /\ UNCHANGED <<old, lost>>
       [] e \in oldFlying /\ draining  -> old' = old \cup {e} /\ UNCHANGED <<log, lost>>
       [] OTHER                        -> lost' = TRUE /\ UNCHANGED <<log, old>>
  /\ overran' = (overran \/ e.ts + Window <= clock)
  /\ UNCHANGED <<clock, reported, stops, draining, held, monitor, restarts>>

-----------------------------------------------------------------------------
(* tool-lifecycle: the effect of one line *)

Running(l) == {l.running[i].call : i \in DOMAIN l.running}
Finish(l, t) == [l EXCEPT !.finished = @ \cup {t}]
Distance(a, b) == IF a < b THEN b - a ELSE a - b

\* The completions that waited for this start: the one with its id, or the
\* nearest in time.
EarlyCompletions(l, e) ==
  LET exact == {p \in l.early: p.call = e.call /\ p.call \notin Unnamed}
      near == {p \in l.early: Distance(p.ts, e.ts) <= MatchWindow}
  IN IF exact # {} THEN exact
     ELSE {p \in near: \A q \in near: Distance(p.ts, e.ts) <= Distance(q.ts, e.ts)}

CoveredByHint(l, e) == \E h \in l.hints: e.ts <= h + Window

\* A start whose completion or whose clear hint has been applied already is
\* over at once.
Start(l, e) ==
  LET match == EarlyCompletions(l, e)
  IN CASE e.call \in Running(l) \cup l.finished -> l
       [] e.call \notin Running(l) \cup l.finished /\ match # {} ->
            [Finish(l, e.call) EXCEPT !.early = @ \ {CHOOSE p \in match: TRUE}]
       [] e.call \notin Running(l) \cup l.finished /\ match = {} ->
            IF CoveredByHint(l, e) THEN Finish(l, e.call)
            ELSE [l EXCEPT !.running = Append(@, [call |-> e.call, ts |-> e.ts])]

\* The call with this id, or the one that started last.
CompletedCall(l, e) ==
  LET exact == {i \in DOMAIN l.running: e.call \notin Unnamed /\ l.running[i].call = e.call}
  IN IF exact # {} THEN CHOOSE x \in exact: TRUE ELSE Len(l.running)

\* No call runs: the completion waits for its start, unless that has ended or
\* the completion waits already.
Complete(l, e) ==
  LET i == CompletedCall(l, e)
  IN IF l.running # <<>>
     THEN [Finish(l, l.running[i].call) EXCEPT !.running = Without(@, i)]
     ELSE IF e.call \notin Unnamed /\ (e.call \in l.finished \/ \E p \in l.early: p.call = e.call) THEN l
     ELSE [l EXCEPT !.early = @ \cup {[call |-> e.call, ts |-> e.ts]}]

\* Everything that started by then is over; a hint that found nothing waits.
Clears(l, e, slack) ==
  LET over == {i \in DOMAIN l.running: l.running[i].ts <= e.ts + slack}
  IN [l EXCEPT !.running = Those(@, {@[i] : i \in DOMAIN @ \ over}),
               !.finished = @ \cup {l.running[i].call : i \in over},
               !.hints = IF over = {} THEN @ \cup {e.ts} ELSE @,
               !.cleared = IF e.kind = "stop" /\ e.ts > @ THEN e.ts ELSE @]

\* Mutant: a completion that finds no call is dropped.
DropsEarly(l, e) ==
  CASE e.kind = "pre" -> Start(l, e)
    [] e.kind = "post" -> [Complete(l, e) EXCEPT !.early = {}]
    [] OTHER -> Clears(l, e, IF e.kind = "hint" THEN Window ELSE 0)

Effect(l, e) ==
  CASE e.kind = "pre" -> Start(l, e)
    [] e.kind = "post" -> Complete(l, e)
    [] OTHER -> Clears(l, e, IF e.kind = "hint" THEN Window ELSE 0)

\* Finished calls are remembered as long; no line of theirs comes later than that.
Purged(l) ==
  [l EXCEPT !.early = {p \in @: clock <= p.ts + Ttl},
            !.hints = {h \in @: clock <= h + Ttl}]

-----------------------------------------------------------------------------
(* One tick of the pipeline *)

\* By stamp, then by kind; of two calls the one that arrived first, as rank has it.
Before(x, y, rank) ==
  \/ x.ts < y.ts
  \/ x.ts = y.ts /\ Priority(x.kind) < Priority(y.kind)
  \/ x.ts = y.ts /\ x.kind = y.kind /\ x.call # NoCall /\ rank[x.call] < rank[y.call]
Ranks == {f \in [Tools -> 1..Cardinality(Tools)]: \A t, u \in Tools: f[t] = f[u] => t = u}
First(events, rank) == CHOOSE e \in events: \A d \in events \ {e}: Before(e, d, rank)

\* Each in its turn.
NextLine(was, rank) ==
  LET e == First(was.left, rank)
  IN [life |-> Effect(was.life, e), left |-> was.left \ {e}]
Applied(l, events, rank) ==
  LET after[n \in 0..Cardinality(events)] ==
        IF n = 0 THEN [life |-> l, left |-> events] ELSE NextLine(after[n - 1], rank)
  IN after[Cardinality(events)].life

\* A statusline written after the newest call began, above an empty prompt.
StatuslineHint == [kind |-> "hint", call |-> NoCall, ts |-> clock]
HintDue ==
  /\ life.running # <<>>
  /\ \A i \in DOMAIN life.running: life.running[i].ts + ClearGrace <= clock
  /\ StatuslineHint \notin held

Ripe(e) == e.ts + Window <= clock

\* Mutant: what has been read is applied at once.
FlushesAll(events) ==
  /\ held' = {}
  /\ \E rank \in Ranks: life' = Purged(Applied(life, events, rank))

Flush(events) ==
  /\ held' = {e \in events: ~Ripe(e)}
  /\ \E rank \in Ranks: life' = Purged(Applied(life, {e \in events: Ripe(e)}, rank))

\* The rotated file first, which goes once it has been quiet; then the new lines.
NewLines == old \cup log
DrainEnds == draining' \in {draining, draining /\ old # {}}

ReadAndApply ==
  /\ phase = "read" /\ phase' = "save"
  /\ \E hint \in {{}} \cup (IF HintDue THEN {{StatuslineHint}} ELSE {}):
       Flush(held \cup NewLines \cup hint)
  /\ old' = {} /\ log' = {}
  /\ DrainEnds
  /\ UNCHANGED <<clock, reported, stops, flying, oldFlying, disk, dog, hit, trouble>>

\* The file has reached TOOL_EVENT_ROTATION_BYTES.  Lines appended since the
\* last read are behind the offset that draining starts from.
Rotate ==
  /\ life.running = <<>> /\ life.early = {} /\ life.hints = {} /\ held = {} /\ ~draining
  /\ log' = {} /\ draining' = TRUE
  /\ lost' = (lost \/ log # {})
  /\ oldFlying' = flying

\* completed_event_ids is not part of it.
SessionSnapshot == [life EXCEPT !.finished = {}]

SaveAndRotate ==
  /\ phase = "save" /\ phase' = "watchdog"
  /\ disk' = SessionSnapshot
  /\ Rotate \/ UNCHANGED <<log, draining, lost, oldFlying>>
  /\ UNCHANGED <<clock, reported, stops, flying, old, held, life, dog, hit, restarts, overran>>

-----------------------------------------------------------------------------
(* evaluateToolWatchdogTransition *)

\* The oldest call; started_at decides, and among equals the order of arrival.
Candidate ==
  IF life.running = <<>> THEN [call |-> NoCall, ts |-> 0]
  ELSE LET i == CHOOSE i \in DOMAIN life.running: \A j \in DOMAIN life.running:
                  \/ life.running[i].ts < life.running[j].ts
                  \/ life.running[i].ts = life.running[j].ts /\ i <= j
       IN life.running[i]

Looks == phase = "watchdog" /\ phase' = "done"
Keeps == UNCHANGED <<clock, reported, stops, flying, oldFlying, stream, disk, trouble>>
InTime == Candidate.call # NoCall /\ clock >= Candidate.ts + Limit
Known == dog.call = Candidate.call

\* The foreground is not trusted, the health not ok, or no call runs.
WatchdogClears ==
  /\ Looks /\ dog' = NoDog
  /\ UNCHANGED <<life, hit>> /\ Keeps

WatchdogObserves ==
  /\ Looks /\ Candidate.call # NoCall /\ ~InTime
  /\ dog' = IF Known THEN dog ELSE NoDog
  /\ UNCHANGED <<life, hit>> /\ Keeps

\* The pane shows a prompt again: the call is taken as over.
WatchdogRecovers ==
  /\ Looks /\ InTime /\ Known
  /\ life' = Purged(Clears(life, [kind |-> "hint", ts |-> clock], Window))
  /\ dog' = NoDog
  /\ UNCHANGED hit /\ Keeps

WatchdogWaits ==
  /\ Looks /\ InTime /\ Known
  /\ \/ dog.sentAt # 0 /\ clock <= dog.sentAt + Grace
     \/ dog.sentAt = 0 /\ clock < dog.retryAt
     \/ dog.escalated
  /\ UNCHANGED <<life, dog, hit>> /\ Keeps

\* Escape is queued ahead of everything; a queue that refuses is tried again.
WatchdogInterrupts ==
  /\ Looks /\ InTime
  /\ ~Known \/ (dog.sentAt = 0 /\ clock >= dog.retryAt)
  /\ \/ /\ dog' = [NoDog EXCEPT !.call = Candidate.call, !.sentAt = clock]
        /\ hit' = hit \cup {Candidate.call}
     \/ /\ dog' = [NoDog EXCEPT !.call = Candidate.call, !.retryAt = clock + Cooldown]
        /\ UNCHANGED hit
  /\ UNCHANGED life /\ Keeps

\* Mutant: the interrupt of another call counts for this one.
EscalatesAny ==
  /\ Looks /\ InTime
  /\ dog.sentAt # 0 /\ clock > dog.sentAt + Grace /\ ~dog.escalated
  /\ dog' = [dog EXCEPT !.call = Candidate.call, !.escalated = TRUE]
  /\ UNCHANGED <<life, hit>> /\ Keeps

\* triggerRecovery(tool_timeout_...)
WatchdogEscalates ==
  /\ Looks /\ InTime /\ Known
  /\ dog.sentAt # 0 /\ clock > dog.sentAt + Grace /\ ~dog.escalated
  /\ dog' = [dog EXCEPT !.escalated = TRUE]
  /\ UNCHANGED <<life, hit>> /\ Keeps

-----------------------------------------------------------------------------
\* The monitor is restarted and goes on from the two state files: the offset is
\* past the lines it held, and what it last knew may not have been saved.
MonitorRestarts ==
  /\ restarts < MaxRestarts /\ restarts' = restarts + 1
  /\ phase \in {"save", "done"} /\ phase' = "read" /\ held' = {} /\ life' = disk
  /\ lost' = (lost \/ held # {} \/ disk # SessionSnapshot)
  /\ UNCHANGED <<clock, reported, stops, flying, oldFlying, log, old, draining, disk, dog, hit, overran>>

\* The guardian launched the agent anew: the files go, and what they said.
LogReset ==
  /\ restarts < MaxRestarts /\ restarts' = restarts + 1
  /\ phase = "done"
  /\ log' = {} /\ old' = {} /\ draining' = FALSE /\ held' = {}
  /\ life' = EmptyLife /\ disk' = EmptyLife
  /\ flying' = {} /\ oldFlying' = {}
  /\ reported' = [t \in Tools |-> IF reported[t] = "running" THEN "done" ELSE reported[t]]
  /\ UNCHANGED <<clock, stops, phase, dog, hit, lost, overran>>

ToolNext ==
  \/ ToolTime \/ TurnEnds
  \/ \E t \in Tools: CallStarts(t) \/ CallEnds(t)
  \/ \E e \in flying: HookAppends(e)
  \/ ReadAndApply \/ SaveAndRotate
  \/ WatchdogClears \/ WatchdogObserves \/ WatchdogRecovers \/ WatchdogWaits
  \/ WatchdogInterrupts \/ WatchdogEscalates
  \/ MonitorRestarts \/ LogReset

ToolSpec == ToolInit /\ [][ToolNext]_toolVars

-----------------------------------------------------------------------------
(* Properties *)

\* Once every line is in and ripe, and none was lost, the monitor sees no more
\* calls running than the hooks said are, so that the watchdog has no call to
\* interrupt that has ended: where every line came within its window, and for a
\* call on its own however late and in whatever order its lines came.
NoGhostCalls ==
  /\ ~lost /\ flying = {} /\ log = {} /\ held = {} /\ old = {}
  /\ ~overran \/ Cardinality({t \in Tools: reported[t] # "no"}) = 1
  => Len(life.running) <= Cardinality({t \in Tools: reported[t] = "running"})

\* Whatever was lost before, an end of turn puts things right: a call that runs
\* began after the last end of turn that was applied.
TurnEndResyncs ==
  ~overran => \A i \in DOMAIN life.running: life.running[i].ts > life.cleared

\* What the watchdog goes by is what the hooks reported.
CallsAreTrue == NoGhostCalls /\ TurnEndResyncs

\* Recovery is only triggered for a call that was interrupted itself, longer
\* ago than the grace period, and that the monitor still sees running.
EscalatesTheInterrupted ==
  [][dog'.escalated /\ ~dog.escalated =>
       /\ dog'.call \in Running(life)
       /\ dog'.call \in hit /\ clock > dog.sentAt + Grace]_toolVars
=============================================================================
