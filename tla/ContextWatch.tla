---------------------------- MODULE ContextWatch ----------------------------
(***************************************************************************)
(* How full the context of the running session is, and what is asked of    *)
(* the agent about it: a memory sync when the context is nearly full, a    *)
(* new session when it is full.                                            *)
(*                                                                         *)
(* Claude runs a process for its status line after every turn              *)
(* (activity-monitor/context-monitor); what such processes know of each    *)
(* other is in one file, which each reads and replaces on its own.  For    *)
(* Codex the monitor polls (runtime/context-monitor-base and               *)
(* codex-context-monitor) and keeps what it asked for in memory.           *)
(***************************************************************************)
EXTENDS Naturals, FiniteSets

CONSTANTS
  Statuslines,   \* slots for processes of the status line that overlap
  Turns,         \* bound: processes of the status line
  LastSession,   \* bound on the sessions
  LastMinute,    \* bound on the time
  SwitchCooldown, SyncCooldown,
  MaxLapses      \* bound on what the exceptions of AskedOnce count

ASSUME WatchAssumption ==
  /\ SwitchCooldown \in Nat \ {0} /\ SyncCooldown \in Nat \ {0}
  /\ IsFiniteSet(Statuslines) /\ LastSession \in Nat \ {0}

VARIABLES
  watched,       \* the runtime: claude or codex
  running,       \* the session: its number, how full it is, whether it has shown that
  minute,
  watchFile,     \* context-monitor-state.json
  line,          \* the processes of the status line
  turns,         \* how many there were
  poller,        \* the memory of the monitor's poller: cooldowns
  poll,          \* the check of its that is under way
  thread,        \* the thread that Codex updated last
  asked,         \* of each request: when it was made last, and how often too early
  strays,        \* requests on behalf of a session that is not the one running
  costLog,       \* for each session: was its cost on file, its lines in cost-log.jsonl,
                 \* and did appending one fail
  lapses         \* overlaps, polls that are overtaken, and deaths, late answers, strangers,
                 \* failed writes

watchVars == <<watched, running, minute, watchFile, line, turns, poller, poll, thread, asked,
               strays, costLog, lapses>>
askedVars == <<asked, strays>>

Requests == {"switch", "sync"}
WatchCooldown == [switch |-> SwitchCooldown, sync |-> SyncCooldown]
Sessions == 1 .. LastSession
Levels == {"low", "near", "full"}
NoWatchFile == [session |-> 0, cost |-> FALSE, switch |-> 0, sync |-> 0]
NoLine == [at |-> "no", session |-> 0, level |-> "low", cost |-> FALSE, read |-> NoWatchFile, now |-> 0]
FreshPoller == [start |-> minute, switch |-> 0, early |-> 0, sync |-> 0]
NoPoll == [at |-> "rest", want |-> "switch", of |-> 0, now |-> 0, tries |-> 0]

\* Minute 0 is before any cooldown on record.
WatchInit ==
  /\ watched \in {"claude", "codex"}
  /\ running = [session |-> 1, level |-> "low", shown |-> FALSE]
  /\ minute = 1
  /\ watchFile = NoWatchFile /\ line = [p \in Statuslines |-> NoLine] /\ turns = 0
  /\ poller = FreshPoller /\ poll = NoPoll /\ thread = [session |-> 0, level |-> "low", at |-> 0]
  /\ asked = [r \in Requests |-> [last |-> 0, early |-> 0]] /\ strays = 0
  /\ costLog = [s \in Sessions |-> [known |-> FALSE, lines |-> 0, lost |-> FALSE]]
  /\ lapses = [overlaps |-> 0, overtaken |-> 0, others |-> 0]

Lapses == lapses.overlaps + lapses.overtaken + lapses.others
Lapse(n) == Lapses + n <= MaxLapses /\ lapses' = [lapses EXCEPT !.others = @ + n]

\* Rows in the control queue, for a session that was measured.
Ask(r, now, session, rows) ==
  LET soon == asked[r].last # 0 /\ now - asked[r].last < WatchCooldown[r]
      early == IF rows = 0 THEN 0 ELSE IF soon THEN rows ELSE rows - 1
  IN /\ asked' = [asked EXCEPT ![r] = [last |-> IF rows > 0 /\ now > @.last THEN now ELSE @.last,
                                       early |-> @.early + early]]
     /\ strays' = IF running.shown /\ session # running.session THEN strays + rows ELSE strays

Cooling(r, last) == last # 0 /\ minute - last < WatchCooldown[r]

-----------------------------------------------------------------------------
(* The status line of Claude *)

Overlapping == \E p \in Statuslines: line[p].at # "no"

LineStarts(p) ==
  /\ watched = "claude" /\ line[p].at = "no" /\ turns < Turns
  /\ Overlapping => Lapses < MaxLapses
  /\ lapses' = IF Overlapping THEN [lapses EXCEPT !.overlaps = @ + 1] ELSE lapses
  /\ \E cost \in BOOLEAN:
       line' = [line EXCEPT ![p] = [NoLine EXCEPT !.at = "costs", !.session = running.session,
                                                  !.level = running.level, !.cost = cost]]
  /\ turns' = turns + 1 /\ running' = [running EXCEPT !.shown = TRUE]
  /\ UNCHANGED <<watched, minute, watchFile, poller, poll, thread, askedVars, costLog>>

\* trackSessionCost: the session in the file has ended if this is another one.  A
\* cost that was never reported is not logged, and what appending fails with is
\* swallowed: the file moves on to the new session all the same.
LogCost(p) ==
  /\ line[p].at = "costs"
  /\ line' = [line EXCEPT ![p].at = "track", ![p].read = watchFile]
  /\ LET ended == watchFile.session
         logs == ended \in Sessions \ {line[p].session} /\ watchFile.cost
     IN \/ /\ costLog' = IF logs THEN [costLog EXCEPT ![ended].lines = @ + 1] ELSE costLog
           /\ UNCHANGED lapses
        \/ logs /\ Lapse(1) /\ costLog' = [costLog EXCEPT ![ended].lost = TRUE]
  /\ UNCHANGED <<watched, running, minute, watchFile, turns, poller, poll, thread, askedVars>>

\* A cost that is not in the status stays what the file has for the same session.
CostOnFile(p) ==
  line[p].cost \/ (line[p].read.session = line[p].session /\ line[p].read.cost)

\* Mutant: what was asked for is forgotten with the session that ended.
TracksAfresh(p) ==
  /\ line[p].at = "track"
  /\ watchFile' = [NoWatchFile EXCEPT !.session = line[p].session, !.cost = CostOnFile(p)]
  /\ line' = [line EXCEPT ![p] = IF @.level = "low" THEN NoLine
                                 ELSE [@ EXCEPT !.at = "decide", !.read = NoWatchFile]]
  /\ costLog' = [costLog EXCEPT ![line[p].session].known = @ \/ CostOnFile(p)]
  /\ UNCHANGED <<watched, running, minute, turns, poller, poll, thread, askedVars, lapses>>

TrackSession(p) ==
  /\ line[p].at = "track"
  /\ watchFile' = [line[p].read EXCEPT !.session = line[p].session, !.cost = CostOnFile(p)]
  /\ line' = [line EXCEPT ![p] = IF @.level = "low" THEN NoLine
                                 ELSE [@ EXCEPT !.at = "decide", !.read = NoWatchFile]]
  /\ costLog' = [costLog EXCEPT ![line[p].session].known = @ \/ CostOnFile(p)]
  /\ UNCHANGED <<watched, running, minute, turns, poller, poll, thread, askedVars, lapses>>

Wanted(p) == IF line[p].level = "full" THEN "switch" ELSE "sync"

\* main and maybeEnqueueMemorySync: the cooldown, and for a sync few messages that
\* are not summarised, end it.
Decide(p) ==
  /\ line[p].at = "decide"
  /\ LET asks == ~Cooling(Wanted(p), watchFile[Wanted(p)])
     IN \E few \in (IF Wanted(p) = "sync" THEN BOOLEAN ELSE {FALSE}):
          line' = [line EXCEPT ![p] = IF asks /\ ~few
                                      THEN [@ EXCEPT !.at = "ask", !.read = watchFile, !.now = minute]
                                      ELSE NoLine]
  /\ UNCHANGED <<watched, running, minute, watchFile, turns, poller, poll, thread, askedVars, costLog, lapses>>

\* Three attempts to enqueue, without a limit on their time.
Enqueues(p) ==
  /\ line[p].at = "ask"
  /\ \E done \in BOOLEAN:
       /\ Ask(Wanted(p), line[p].now, line[p].session, IF done THEN 1 ELSE 0)
       /\ line' = [line EXCEPT ![p] = IF done THEN [@ EXCEPT !.at = "save"] ELSE NoLine]
  /\ UNCHANGED <<watched, running, minute, watchFile, turns, poller, poll, thread, costLog, lapses>>

SaveRequest(p) ==
  /\ line[p].at = "save"
  /\ watchFile' = [line[p].read EXCEPT ![Wanted(p)] = line[p].now]
  /\ line' = [line EXCEPT ![p] = NoLine]
  /\ UNCHANGED <<watched, running, minute, turns, poller, poll, thread, askedVars, costLog, lapses>>

LineDies(p) ==
  /\ line[p].at # "no" /\ Lapse(1) /\ line' = [line EXCEPT ![p] = NoLine]
  /\ UNCHANGED <<watched, running, minute, watchFile, turns, poller, poll, thread, askedVars, costLog>>

-----------------------------------------------------------------------------
(* The poller for Codex *)

\* getUsage: the tail of the rollout, or else the tokens, of the thread that was
\* updated last, unless that was before the monitor started.
Readable == thread.session # 0 /\ thread.at >= poller.start

\* _checkThreshold, whose guard admits one at a time: what is wanted, and for which
\* session that was found.
PollWants(r) ==
  poll' = [at |-> "ask", want |-> r, of |-> thread.session, now |-> minute, tries |-> 0]

PollFull ==
  /\ watched = "codex" /\ poll.at = "rest" /\ Readable
  /\ thread.level = "full" /\ ~Cooling("switch", poller.switch) /\ PollWants("switch")
  /\ UNCHANGED <<watched, running, minute, watchFile, line, turns, poller, thread, askedVars, costLog, lapses>>

\* onEarlyThreshold: after a sync, or with few messages to summarise, the cooldown
\* starts all the same.
PollNear ==
  /\ watched = "codex" /\ poll.at = "rest" /\ Readable
  /\ thread.level = "near" /\ ~Cooling("sync", poller.early)
  /\ \/ ~Cooling("sync", poller.sync) /\ PollWants("sync") /\ UNCHANGED poller
     \/ poller' = [poller EXCEPT !.early = minute] /\ UNCHANGED poll
  /\ UNCHANGED <<watched, running, minute, watchFile, line, turns, thread, askedVars, costLog, lapses>>

\* enqueueNewSession tries three times, ten seconds each, a sync once.
Tries == [switch |-> 3, sync |-> 1]

PollTries ==
  /\ poll.at = "ask"
  /\ \E queued \in 0 .. 1: Ask(poll.want, minute, poll.of, queued) /\
       \/ queued = 1 /\ poll' = [poll EXCEPT !.at = "record"] /\ UNCHANGED lapses
       \/ /\ poll' = IF poll.tries + 1 = Tries[poll.want] THEN NoPoll ELSE [poll EXCEPT !.tries = @ + 1]
          /\ IF queued = 1 THEN Lapse(1) ELSE UNCHANGED lapses
  /\ UNCHANGED <<watched, running, minute, watchFile, line, turns, poller, thread, costLog>>

\* An attempt that is answered starts the cooldowns.
PollRecords ==
  /\ poll.at = "record" /\ poll' = NoPoll
  /\ poller' = IF poll.want = "switch" THEN [poller EXCEPT !.switch = minute]
               ELSE [poller EXCEPT !.early = minute, !.sync = poll.now]
  /\ UNCHANGED <<watched, running, minute, watchFile, line, turns, thread, askedVars, costLog, lapses>>

PollerRestarts ==
  /\ watched = "codex" /\ Lapse(1) /\ poller' = FreshPoller /\ poll' = NoPoll
  /\ UNCHANGED <<watched, running, minute, watchFile, line, turns, thread, askedVars, costLog>>

\* A check is under way on behalf of a session that is over.
Overtaken == poll.at # "rest" /\ poll.of # running.session

\* Codex reports at the end of a turn; a session of the user's own is a thread too.
ThreadUpdated ==
  /\ watched = "codex"
  /\ \/ /\ thread' = [session |-> running.session, level |-> running.level, at |-> minute]
        /\ running' = [running EXCEPT !.shown = TRUE]
        /\ Overtaken => Lapses < MaxLapses
        /\ lapses' = IF Overtaken THEN [lapses EXCEPT !.overtaken = @ + 1] ELSE lapses
     \/ /\ Lapse(1) /\ UNCHANGED running
        /\ \E level \in Levels: thread' = [session |-> LastSession + 1, level |-> level, at |-> minute]
  /\ UNCHANGED <<watched, minute, watchFile, line, turns, poller, poll, askedVars, costLog>>

-----------------------------------------------------------------------------
(* The agent and time *)

ContextFills ==
  /\ \E level \in Levels \ {"low", running.level}:
       running.level # "full" /\ running' = [running EXCEPT !.level = level]
  /\ UNCHANGED <<watched, minute, watchFile, line, turns, poller, poll, thread, askedVars, costLog, lapses>>

\* As it was asked to, or for reasons of its own.
NewSession ==
  /\ running.session < LastSession
  /\ running' = [session |-> running.session + 1, level |-> "low", shown |-> FALSE]
  /\ UNCHANGED <<watched, minute, watchFile, line, turns, poller, poll, thread, askedVars, costLog, lapses>>

\* An attempt's row is answered within its ten seconds, or not taken for answered.
MinutePasses ==
  /\ minute < LastMinute /\ poll.at # "record" /\ minute' = minute + 1
  /\ UNCHANGED <<watched, running, watchFile, line, turns, poller, poll, thread, askedVars, costLog, lapses>>

WatchNext ==
  \/ \E p \in Statuslines:
       \/ LineStarts(p) \/ LogCost(p) \/ TrackSession(p) \/ Decide(p) \/ Enqueues(p)
       \/ SaveRequest(p) \/ LineDies(p)
  \/ PollFull \/ PollNear \/ PollTries \/ PollRecords \/ PollerRestarts \/ ThreadUpdated
  \/ ContextFills \/ NewSession \/ MinutePasses

WatchSpec == WatchInit /\ [][WatchNext]_watchVars

-----------------------------------------------------------------------------
(* Properties *)

\* Within its cooldown a request is made again once for each time that a process of
\* the status line died, an attempt was answered too late or the monitor lost its
\* memory, and twice where processes of the status line overlapped: by both, and
\* after the one that saves last has put an older time on file.
Spaced == \A r \in Requests: asked[r].early <= 2 * lapses.overlaps + lapses.others

\* A cooldown on record is that of a request in the queue.
CooldownsAreEarned ==
  /\ \A r \in Requests: watchFile[r] <= asked[r].last
  /\ poller.switch <= asked["switch"].last /\ poller.sync <= asked["sync"].last

\* It is the running session that is asked to make room for the next, once that
\* session has shown how full it is, unless it first did so while the request of a
\* check of the session before it was still being made.
RightSession == Lapses = 0 => strays = 0

\* The cost of a session that was on file is logged as the next one is seen: not
\* twice without a lapse, and it is missing only where appending it failed or
\* processes overlapped.
CostsLogged ==
  \A s \in Sessions:
    /\ costLog[s].lines <= 1 + Lapses
    /\ costLog[s].known /\ s < watchFile.session /\ lapses.overlaps = 0 =>
         costLog[s].lines > 0 \/ costLog[s].lost
    /\ costLog[s].lines > 0 /\ Lapses = 0 =>
         s < watchFile.session \/ \E p \in Statuslines: line[p].at = "track" /\ line[p].read.session = s

\* What the status line and the poller ask of the agent is asked of the right
\* session, once, and on record only if it was asked.
AskedOnce == Spaced /\ CooldownsAreEarned /\ RightSession /\ CostsLogged
=============================================================================
