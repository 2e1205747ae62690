------------------------------- MODULE C4Intake -------------------------------
(***************************************************************************)
(* The conversation table around the dispatcher: skills/comm-bridge        *)
(* c4-receive.js, c4-send.js, c4-fetch.js, c4-checkpoint.js and their      *)
(* functions in c4-db.js.                                                  *)
(*                                                                         *)
(* A channel starts one c4-receive process per message, and starts it      *)
(* again when it got no answer.  A message that comes while the agent is   *)
(* not well is queued all the same, and its sender is told so, once per    *)
(* cooldown.  Memory syncs read the conversations that no checkpoint       *)
(* covers, summarise them and write a checkpoint up to the last they read. *)
(* All are processes of their own on one database, and die when they like. *)
(***************************************************************************)
EXTENDS Naturals, Sequences

CONSTANTS
  Intakes,       \* c4-receive processes at a time
  Sources,       \* stable ids of the channel's messages
  Syncs,         \* memory syncs at a time
  Keys,          \* cooldown keys: conversation, health and reason
  CooldownTtl,   \* STATUS_NOTICE_COOLDOWN_SECONDS
  LastSecond,    \* bound on the clock
  MaxRows,       \* bound on conversations
  MaxCheckpoints \* bound on checkpoints

ASSUME IntakeAssumption ==
  /\ {CooldownTtl, LastSecond, MaxRows, MaxCheckpoints} \subseteq Nat /\ CooldownTtl > 0
  /\ Keys # {} /\ "out" \notin Sources

VARIABLES
  seconds,       \* the clock that reservations are stamped with
  rows,          \* conversations, by id: the source message, or "out"
  cooldowns,     \* status_notice_cooldowns: when each key was reserved, 0 if it is not
  receiver,      \* what each intake does, for which message, with which reservation
  told,          \* the notices whose c4-send reported success
  checkpoints,   \* checkpoints: first and last conversation
  sync,          \* what each memory sync does, and the range it read
  summarised     \* conversations that the author of some checkpoint has read

intakeVars == <<seconds, rows, cooldowns, receiver, told, checkpoints, sync, summarised>>
notices == <<cooldowns, told>>
history == <<checkpoints, sync, summarised>>

Resting == [at |-> "idle", src |-> "none", key |-> "none", reserved |-> 0]
Asleep == [at |-> "idle", first |-> 0, last |-> 0, before |-> 0]

IntakeInit ==
  /\ seconds = 1 /\ rows = <<>> /\ told = {}
  /\ cooldowns = [k \in Keys |-> 0]
  /\ receiver = [p \in Intakes |-> Resting]
  /\ checkpoints = <<>> /\ summarised = {}
  /\ sync = [s \in Syncs |-> Asleep]

-----------------------------------------------------------------------------
(* c4-receive *)

At(p, step) == receiver[p].at = step
Goes(p, step) == receiver' = [receiver EXCEPT ![p].at = step]
Rests(p) == receiver' = [receiver EXCEPT ![p] = Resting]

\* insertConversation: a source id that is there already is ignored.
Duplicate(m) == \E i \in DOMAIN rows: rows[i] = m
InsertConversation(m) == rows' = IF Duplicate(m) THEN rows ELSE Append(rows, m)

\* A duplicate is answered as queued, with no route asked and nobody told.
QueueMessage(p, m) ==
  /\ At(p, "idle") /\ Len(rows) < MaxRows
  /\ InsertConversation(m)
  /\ receiver' = IF Duplicate(m) THEN receiver
                 ELSE [receiver EXCEPT ![p] = [Resting EXCEPT !.at = "route", !.src = m]]
  /\ UNCHANGED <<seconds, notices, history>>

\* What the status file says of the agent: nothing that can be read, which lets
\* messages pass; a state that is too old, which does not; "ok"; or a reason.
StatusFile == {"unreadable", "stale", "ok"} \cup Keys

\* The monitor's answer over its socket: well, a reason, or none in time.
MonitorAnswer == {"ok", "none"} \cup Keys

\* Where the file is fresh and well and the monitor silent, the agent is not well.
FileRoute(file, silent) ==
  IF file \in Keys THEN file
  ELSE IF file = "stale" \/ (file = "ok" /\ silent) THEN CHOOSE k \in Keys: TRUE
  ELSE "ok"

RouteDecision(file, answer) ==
  IF file = "stale" THEN FileRoute(file, FALSE)
  ELSE IF answer = "none" THEN FileRoute(file, TRUE)
  ELSE answer

QueryRoute(p) ==
  /\ At(p, "route")
  /\ \E file \in StatusFile, answer \in MonitorAnswer:
       LET decision == RouteDecision(file, answer)
       IN receiver' = [receiver EXCEPT ![p] = IF decision = "ok" THEN Resting
                         ELSE [@ EXCEPT !.at = "reserve", !.key = decision]]
  /\ UNCHANGED <<seconds, rows, notices, history>>

\* Expired reservations go first.  Whoever finds the key taken stays silent; a
\* database that fails does not keep the notice from being sent.
ReserveNotice(p) ==
  LET k == receiver[p].key
      free == cooldowns[k] = 0 \/ cooldowns[k] + CooldownTtl <= seconds
  IN /\ At(p, "reserve")
     /\ \/ /\ free
           /\ cooldowns' = [cooldowns EXCEPT ![k] = seconds]
           /\ receiver' = [receiver EXCEPT ![p].at = "send", ![p].reserved = seconds]
        \/ ~free /\ Rests(p) /\ UNCHANGED cooldowns
        \/ Goes(p, "send") /\ UNCHANGED cooldowns
     /\ UNCHANGED <<seconds, rows, told, history>>

\* c4-send records what it is about to send, or fails to, and runs the channel's
\* script; where that fails the reservation is given back.
SendNotice(p) ==
  /\ At(p, "send")
  /\ \/ Len(rows) < MaxRows /\ rows' = Append(rows, "out")
     \/ UNCHANGED rows
  /\ \/ /\ Rests(p)
        /\ told' = told \cup {[src |-> receiver[p].src, key |-> receiver[p].key,
                               reserved |-> receiver[p].reserved]}
     \/ /\ receiver[p].reserved # 0 /\ Goes(p, "clear") /\ UNCHANGED told
     \/ /\ receiver[p].reserved = 0 /\ Rests(p) /\ UNCHANGED told
  /\ UNCHANGED <<seconds, cooldowns, history>>

\* Mutant: the key is freed whoever holds it by now.
ClearsAnyReservation(p) ==
  /\ At(p, "clear") /\ Rests(p)
  /\ cooldowns' = [cooldowns EXCEPT ![receiver[p].key] = 0]
  /\ UNCHANGED <<seconds, rows, told, history>>

\* clearStatusNoticeCooldownReservation, which may itself fail.
ClearReservation(p) ==
  LET k == receiver[p].key
  IN /\ At(p, "clear") /\ Rests(p)
     /\ cooldowns' \in {cooldowns, IF cooldowns[k] = receiver[p].reserved
                                   THEN [cooldowns EXCEPT ![k] = 0] ELSE cooldowns}
     /\ UNCHANGED <<seconds, rows, told, history>>

ReceiverDies(p) ==
  /\ ~At(p, "idle") /\ Rests(p)
  /\ UNCHANGED <<seconds, rows, notices, history>>

\* The agent answers through c4-send; void keeps the row and sends nothing.
AgentSends ==
  /\ Len(rows) < MaxRows
  /\ rows' = Append(rows, "out")
  /\ UNCHANGED <<seconds, receiver, notices, history>>

IntakeSecond ==
  /\ seconds < LastSecond
  /\ seconds' = seconds + 1
  /\ UNCHANGED <<rows, receiver, notices, history>>

-----------------------------------------------------------------------------
(* Checkpoints *)

LastEnd == IF checkpoints = <<>> THEN 0 ELSE checkpoints[Len(checkpoints)].last

Unsummarised == {i \in DOMAIN rows: i > LastEnd}

\* c4-fetch --unsummarized, or the range that the session start feed names.
FetchUnsummarised(s) ==
  /\ sync[s].at = "idle" /\ Unsummarised # {}
  /\ sync' = [sync EXCEPT ![s] = [Asleep EXCEPT !.at = "read", !.first = LastEnd + 1,
                                                !.last = Len(rows)]]
  /\ UNCHANGED <<seconds, rows, receiver, notices, checkpoints, summarised>>

\* c4-checkpoint create <end>: createCheckpoint looks for the last checkpoint ...
ReadLastCheckpoint(s) ==
  /\ sync[s].at = "read" /\ Len(checkpoints) < MaxCheckpoints
  /\ sync' = [sync EXCEPT ![s].at = "insert", ![s].before = LastEnd]
  /\ UNCHANGED <<seconds, rows, receiver, notices, checkpoints, summarised>>

\* Mutant: the checkpoint is taken up to the newest conversation.
CheckpointsEverything(s) ==
  /\ sync[s].at = "insert"
  /\ checkpoints' = Append(checkpoints, [first |-> sync[s].before + 1, last |-> Len(rows)])
  /\ summarised' = summarised \cup sync[s].first..sync[s].last
  /\ sync' = [sync EXCEPT ![s] = Asleep]
  /\ UNCHANGED <<seconds, rows, receiver, notices>>

\* ... and starts the new one after it, whatever others have inserted since.
CreateCheckpoint(s) ==
  /\ sync[s].at = "insert"
  /\ checkpoints' = Append(checkpoints, [first |-> sync[s].before + 1, last |-> sync[s].last])
  /\ summarised' = summarised \cup sync[s].first..sync[s].last
  /\ sync' = [sync EXCEPT ![s] = Asleep]
  /\ UNCHANGED <<seconds, rows, receiver, notices>>

SyncDies(s) ==
  /\ sync[s].at # "idle"
  /\ sync' = [sync EXCEPT ![s] = Asleep]
  /\ UNCHANGED <<seconds, rows, receiver, notices, checkpoints, summarised>>

-----------------------------------------------------------------------------
IntakeNext ==
  \/ \E p \in Intakes:
       \/ \E m \in Sources: QueueMessage(p, m)
       \/ QueryRoute(p) \/ ReserveNotice(p) \/ SendNotice(p)
       \/ ClearReservation(p) \/ ReceiverDies(p)
  \/ \E s \in Syncs:
       FetchUnsummarised(s) \/ ReadLastCheckpoint(s) \/ CreateCheckpoint(s) \/ SyncDies(s)
  \/ AgentSends \/ IntakeSecond

IntakeSpec == IntakeInit /\ [][IntakeNext]_intakeVars

-----------------------------------------------------------------------------
(* Properties *)

\* However often a channel hands a message in, and wherever an intake dies, it
\* is queued once; and of the senders of one conversation that were told why
\* they wait, each was told in a cooldown of their own.
OneRowOneNotice ==
  /\ \A i, j \in DOMAIN rows: rows[i] = rows[j] /\ rows[i] \in Sources => i = j
  /\ \A n, m \in told: n # m /\ n.key = m.key /\ n.reserved > 0 /\ m.reserved >= n.reserved
       => m.reserved >= n.reserved + CooldownTtl

\* A conversation that no later sync will be shown has been read by the author
\* of a checkpoint, and a checkpoint covers it, whichever syncs overlap.
NothingSkipped ==
  \A i \in DOMAIN rows \ Unsummarised:
    /\ i \in summarised
    /\ \E c \in DOMAIN checkpoints: i \in checkpoints[c].first..checkpoints[c].last
=============================================================================
