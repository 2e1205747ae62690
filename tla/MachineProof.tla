----------------------------- MODULE MachineProof -----------------------------
(***************************************************************************)
(* Proofs about the parts that keep a machine in order: the monitor's loop *)
(* under a switch of the runtime, the credentials that YOS writes into     *)
(* files of the user, the shards of a session's start, the watch on the    *)
(* context, and the alert of the usage.                                    *)
(***************************************************************************)
EXTENDS MonitorLoop, Credentials, SessionStart, ContextWatch, UsageAlert, FiniteSetTheorems, TLAPS

-----------------------------------------------------------------------------
(* The monitor's loop *)

Loops ==
  [at : {"down", "wait", "tasks", "record"}, runtime : Agents \cup {""}, health : Healths,
   of : Agents \cup {""}, last : {"", "offline", "stopped", "frozen", "busy", "idle"},
   since : Nat, task : 0 .. 4, clean : BOOLEAN]
Statuses ==
  [state : {"offline", "stopped", "busy", "idle"}, idle : Int, health : Healths,
   of : Agents \cup {""}, quiet : Int]
Shifts ==
  [at : {"no", "gate", "config", "clear", "restart"}, target : Agents \cup {""}, quiet : BOOLEAN]
Times == [second : Nat, ticked : BOOLEAN, hour : 0 .. 3, day : Nat]

MonitorTypeOK ==
  /\ loop \in Loops
  /\ statusFile \in Statuses \cup {NoStatus}
  /\ chosen \in Agents
  /\ sessions \in [Agents -> {"none", "starting", "up", "stopped"}]
  /\ acted \in [Agents -> Nat]
  /\ unseen \in BOOLEAN
  /\ shift \in Shifts
  /\ time \in Times
  /\ record \in [TaskNames -> Nat]
  /\ done \in [TaskNames -> [times : Nat, lost : Nat]]
  /\ mishaps \in Nat

\* Where the loop is, and of which runtime.
Placed ==
  /\ loop.at \in {"tasks", "record"} <=> loop.task # 0
  /\ loop.at # "down" => loop.runtime \in Agents
  /\ \A r \in Agents: acted[r] <= time.second

\* What a switch takes over: as long as the old monitor writes nothing more there is
\* no file.
Switched ==
  /\ shift.at # "no" => shift.target \in Agents
  /\ shift.quiet => statusFile = NoStatus
  /\ HealthIsOwn

\* An idle agent was not active since, unless during a task, or the next tick sees it;
\* and an agent that comes up was not idle.
Seen ==
  loop.last = "idle" =>
    /\ loop.at # "down"
    /\ sessions[loop.runtime] # "starting"
    /\ loop.since <= time.second
    /\ sessions[loop.runtime] = "up" =>
         \/ acted[loop.runtime] <= loop.since \/ unseen
         \/ loop.at = "wait" /\ acted[loop.runtime] + (IF time.ticked THEN 0 ELSE 1) >= time.second

\* The last run of a task is on record, or about to be, or lost; those before it are lost.
Tallied ==
  \A t \in TaskNames:
    \/ done[t].times <= done[t].lost
    \/ /\ done[t].times = done[t].lost + 1
       /\ \/ loop.at = "record" /\ Task = t
          \/ IF t \in Tasks24 THEN record[t] >= Hours * time.day ELSE record[t] = time.day

MonitorInv ==
  /\ MonitorTypeOK /\ Placed /\ Switched /\ Seen /\ IdleIsTrue /\ Tallied

LEMMA TaskFacts ==
  /\ TaskNames = {"commit", "upgrade", "check", "health"}
  /\ Cardinality(TaskNames) = 4
  /\ \A i \in 1 .. 4 : TaskOrder[i] \in TaskNames
  /\ \A i, j \in 1 .. 4 : TaskOrder[i] = TaskOrder[j] => i = j
  /\ Hours = 4
<1>1. TaskNames = {"commit", "upgrade", "check", "health"}
  BY DEF TaskNames, HourOf, Tasks24
<1>2. Cardinality({"commit", "upgrade", "check", "health"}) = 4
  <2>1. Cardinality({}) = 0 /\ IsFiniteSet({})
    BY FS_EmptySet
  <2>2. Cardinality({"commit"}) = 1 /\ IsFiniteSet({"commit"})
    BY FS_Singleton
  <2>3. Cardinality({"commit"} \cup {"upgrade"}) = 2 /\ IsFiniteSet({"commit"} \cup {"upgrade"})
    BY <2>2, FS_AddElement
  <2>4. Cardinality(({"commit"} \cup {"upgrade"}) \cup {"check"}) = 3
        /\ IsFiniteSet(({"commit"} \cup {"upgrade"}) \cup {"check"})
    BY <2>3, FS_AddElement
  <2>5. Cardinality((({"commit"} \cup {"upgrade"}) \cup {"check"}) \cup {"health"}) = 4
    BY <2>4, FS_AddElement
  <2>6. {"commit", "upgrade", "check", "health"} = (({"commit"} \cup {"upgrade"}) \cup {"check"}) \cup {"health"}
    OBVIOUS
  <2> QED BY <2>5, <2>6
<1>3. /\ \A i \in 1 .. 4 : TaskOrder[i] \in {"commit", "upgrade", "check", "health"}
      /\ \A i, j \in 1 .. 4 : TaskOrder[i] = TaskOrder[j] => i = j
  BY DEF TaskOrder
<1> QED BY <1>1, <1>2, <1>3 DEF Hours

\* What the steps write into the loop.
LEMMA LoopStarts ==
  ASSUME chosen \in Agents, statusFile \in Statuses \cup {NoStatus}
  PROVE  LET y == Started(statusFile, chosen)
         IN /\ y \in Loops /\ y.at = "wait" /\ y.runtime = chosen /\ y.last = "" /\ ~y.clean /\ y.task = 0
            /\ statusFile = NoStatus => y.of = chosen
            /\ \A c \in BOOLEAN :
                 LET z == [y EXCEPT !.clean = c]
                 IN /\ z \in Loops /\ z.at = "wait" /\ z.runtime = chosen /\ z.last = "" /\ z.clean = c
                    /\ z.task = 0 /\ z.of = y.of
<1> DEFINE h == IF statusFile = NoStatus THEN "ok" ELSE statusFile.health
           o == IF statusFile = NoStatus THEN chosen ELSE statusFile.of
<1>1. h \in Healths /\ o \in Agents \cup {""}
  BY HealthsAssumption DEF Statuses
<1>2. Started(statusFile, chosen) = [Down EXCEPT !.at = "wait", !.runtime = chosen, !.health = h, !.of = o]
  BY DEF Started
<1>3. statusFile = NoStatus => o = chosen
  OBVIOUS
<1> HIDE DEF h, o
<1> DEFINE y == [Down EXCEPT !.at = "wait", !.runtime = chosen, !.health = h, !.of = o]
<1>4. 0 \in Nat /\ 0 \in 0 .. 4
  OBVIOUS
<1>5. Down \in Loops /\ Down.last = "" /\ ~Down.clean /\ Down.task = 0
  BY <1>4, HealthsAssumption DEF Down, Loops
<1>6. y \in Loops /\ y.at = "wait" /\ y.runtime = chosen /\ y.last = "" /\ ~y.clean /\ y.task = 0 /\ y.of = o
  BY <1>1, <1>5 DEF Loops
<1> HIDE DEF y
<1>7. ASSUME NEW c \in BOOLEAN
      PROVE  LET z == [y EXCEPT !.clean = c]
             IN /\ z \in Loops /\ z.at = "wait" /\ z.runtime = chosen /\ z.last = "" /\ z.clean = c
                /\ z.task = 0 /\ z.of = y.of
  BY <1>6 DEF Loops
<1> QED BY <1>2, <1>3, <1>6, <1>7 DEF y

LEMMA LoopGoesOn ==
  ASSUME NEW x \in Loops, x.task # 0
  PROVE  LET y == NextTask(x)
         IN /\ y \in Loops /\ y.runtime = x.runtime /\ y.of = x.of /\ y.last = x.last /\ y.since = x.since
            /\ y.clean = x.clean
            /\ (y.at = "wait" /\ y.task = 0) \/ (y.at = "tasks" /\ y.task # 0)
<1>1. CASE x.task = 4
  <2>1. 0 \in 0 .. 4
    OBVIOUS
  <2>2. NextTask(x) = [x EXCEPT !.at = "wait", !.task = 0]
    BY <1>1, TaskFacts DEF NextTask
  <2> QED BY <2>1, <2>2 DEF Loops
<1>2. CASE x.task # 4
  <2>0. x.task \in 0 .. 4
    BY DEF Loops
  <2>1. x.task + 1 \in 0 .. 4 /\ x.task + 1 # 0
    BY <1>2, <2>0
  <2> DEFINE n == x.task + 1
  <2> HIDE DEF n
  <2>2. NextTask(x) = [x EXCEPT !.at = "tasks", !.task = n]
    BY <1>2, TaskFacts DEF NextTask, n
  <2> QED BY <2>1, <2>2 DEF Loops, n
<1> QED BY <1>1, <1>2

LEMMA TickEffect ==
  ASSUME loop \in Loops, NEW state \in {"offline", "stopped", "busy", "idle"}, NEW n \in Nat,
         \/ loop' = [loop EXCEPT !.at = "tasks", !.task = 1, !.last = state]
         \/ loop' = [loop EXCEPT !.at = "tasks", !.task = 1, !.last = state, !.since = n]
  PROVE  /\ loop' \in Loops /\ loop'.at = "tasks" /\ loop'.task = 1 /\ loop'.runtime = loop.runtime
         /\ loop'.of = loop.of /\ loop'.last = state /\ loop'.clean = loop.clean
         /\ loop' = [loop EXCEPT !.at = "tasks", !.task = 1, !.last = state, !.since = n] => loop'.since = n
<1>1. 1 \in 0 .. 4
  OBVIOUS
<1> QED BY ZenonT(60), <1>1 DEF Loops

LEMMA StatusType ==
  ASSUME MonitorTypeOK, loop.runtime \in Agents, NEW state \in {"offline", "stopped", "busy", "idle"}, NEW i \in Int
  PROVE  /\ Status(state, i) \in Statuses /\ Status(state, i).idle = i
         /\ Status(state, i).quiet = time.second - acted[loop.runtime]
<1> DEFINE q == Inactive
<1>1. q \in Int /\ q = time.second - acted[loop.runtime]
  BY DEF MonitorTypeOK, Times, Inactive
<1>2. loop.health \in Healths /\ loop.of \in Agents \cup {""}
  BY DEF MonitorTypeOK, Loops
<1> HIDE DEF q
<1> DEFINE h == loop.health
           o == loop.of
<1> HIDE DEF h, o
<1>3. Status(state, i) = [state |-> state, idle |-> i, health |-> h, of |-> o, quiet |-> q]
  BY DEF Status, q, h, o
<1>4. h \in Healths /\ o \in Agents \cup {""}
  BY <1>2 DEF h, o
<1>5. [state |-> state, idle |-> i, health |-> h, of |-> o, quiet |-> q] \in Statuses
  BY <1>1, <1>4 DEF Statuses
<1> QED BY <1>1, <1>3, <1>5

LEMMA ShiftChange ==
  ASSUME NEW x \in Shifts
  PROVE  /\ NoShift \in Shifts /\ ~NoShift.quiet /\ NoShift.at = "no"
         /\ LET y == [x EXCEPT !.quiet = FALSE]
            IN y \in Shifts /\ ~y.quiet /\ y.at = x.at /\ y.target = x.target
         /\ \A step \in {"config", "clear", "restart"} :
              LET y == [x EXCEPT !.at = step] IN y \in Shifts /\ y.quiet = x.quiet /\ y.target = x.target
         /\ LET y == [x EXCEPT !.at = "restart", !.quiet = TRUE] IN y \in Shifts /\ y.target = x.target
BY DEF Shifts, NoShift

\* A run more that is lost pays for one more run.
LEMMA OneMoreLost ==
  ASSUME NEW d \in [times : Nat, lost : Nat], d.times <= d.lost + 1
  PROVE  LET e == [d EXCEPT !.lost = @ + 1] IN e \in [times : Nat, lost : Nat] /\ e.times <= e.lost
OBVIOUS

\* The run that was cut off is lost, and the other tasks are as they were.
LEMMA Cut ==
  ASSUME MonitorInv, UNCHANGED <<record, time>>, done' = Interrupted, loop'.at # "record"
  PROVE  done' \in [TaskNames -> [times : Nat, lost : Nat]] /\ Tallied'
<1> USE DEF MonitorInv, MonitorTypeOK, Placed, Tallied
<1>1. CASE loop.at = "record"
  <2>1. done' = [done EXCEPT ![Task].lost = @ + 1]
    BY <1>1 DEF Interrupted, Task
  <2>2. Task \in TaskNames
    <3>1. loop.task \in 0 .. 4
      BY DEF Loops
    <3>2. loop.task # 0
      BY <1>1
    <3> QED BY <3>1, <3>2, TaskFacts DEF Task
  <2>3. done' \in [TaskNames -> [times : Nat, lost : Nat]]
        /\ done'[Task].times <= done'[Task].lost
        /\ \A t \in TaskNames \ {Task} : done'[t] = done[t]
    <3>1. done \in [TaskNames -> [times : Nat, lost : Nat]] /\ done[Task] \in [times : Nat, lost : Nat]
      BY <2>2
    <3>2. done[Task].times <= done[Task].lost + 1
      BY <2>2, <3>1
    <3>3. done' = [done EXCEPT ![Task] = [done[Task] EXCEPT !.lost = @ + 1]]
      BY <2>1
    <3> HIDE DEF MonitorInv, MonitorTypeOK, Placed, Tallied
    <3> QED BY <2>2, <3>1, <3>2, <3>3, OneMoreLost
  <2>4. Tallied'
    <3> SUFFICES ASSUME NEW t \in TaskNames, t # Task
                 PROVE  \/ done[t].times <= done[t].lost
                        \/ /\ done[t].times = done[t].lost + 1
                           /\ IF t \in Tasks24 THEN record[t] >= Hours * time.day ELSE record[t] = time.day
      BY <2>3
    <3> QED OBVIOUS
  <2> QED BY <2>3, <2>4
<1>2. CASE loop.at # "record"
  BY <1>2 DEF Interrupted
<1> QED BY <1>1, <1>2

\* The loop's process: its start, its death, the session it cleans, the health it finds.
LEMMA ProcessStep ==
  ASSUME MonitorInv, MonitorStarts \/ MonitorDies \/ CleansStaleSession \/ HealthObserved
  PROVE  MonitorInv'
<1> USE DEF MonitorInv, MonitorTypeOK, Placed, Switched, HealthIsOwn, Seen, IdleIsTrue, Tallied, Alive, taskVars
<1>0. /\ Down \in Loops /\ Down.at = "down" /\ Down.task = 0 /\ Down.last = "" /\ ~Down.clean
  <2>1. 0 \in Nat /\ 0 \in 0 .. 4
    OBVIOUS
  <2> QED BY <2>1, HealthsAssumption DEF Down, Loops
<1>1. CASE MonitorStarts
  <2>1. /\ loop' = Started(statusFile, chosen) /\ loop.at = "down"
        /\ UNCHANGED <<statusFile, chosen, sessions, acted, unseen, shift, time, record, done, mishaps>>
    BY <1>1 DEF MonitorStarts
  <2>2. /\ loop' \in Loops /\ loop'.at = "wait" /\ loop'.runtime = chosen /\ loop'.last = ""
        /\ ~loop'.clean /\ loop'.task = 0
    BY <2>1, LoopStarts
  <2> QED BY <2>1, <2>2 DEF Task
<1>2. CASE MonitorDies
  <2>1. /\ loop' = Down /\ done' = Interrupted /\ mishaps' = mishaps + 1
        /\ UNCHANGED <<statusFile, chosen, sessions, acted, unseen, shift, time, record>>
    BY <1>2 DEF MonitorDies, Mishap
  <2>4. Placed' /\ Switched' /\ Seen' /\ IdleIsTrue'
    BY <1>0, <2>1
  <2>5. mishaps' \in Nat
    BY <2>1
  <2>2. done' \in [TaskNames -> [times : Nat, lost : Nat]] /\ Tallied'
    BY <1>0, <2>1, Cut
  <2> QED BY <1>0, <2>1, <2>2, <2>4, <2>5
<1>3. CASE CleansStaleSession
  <2>1. /\ loop.at = "wait" /\ sessions' = [r \in Agents |-> IF r = loop.runtime THEN sessions[r] ELSE "none"]
        /\ UNCHANGED <<loop, statusFile, chosen, acted, unseen, shift, time, record, done, mishaps>>
    BY <1>3 DEF CleansStaleSession
  <2>2. sessions' \in [Agents -> {"none", "starting", "up", "stopped"}] /\ sessions'[loop.runtime] = sessions[loop.runtime]
    BY <2>1
  <2> QED BY <2>1, <2>2 DEF Task
<1>4. CASE HealthObserved
  <2>1. PICK h \in Healths : loop' = [loop EXCEPT !.health = h, !.of = loop.runtime]
    BY <1>4 DEF HealthObserved
  <2>2. UNCHANGED <<statusFile, chosen, sessions, acted, unseen, shift, time, record, done, mishaps>>
    BY <1>4 DEF HealthObserved
  <2>3. /\ loop' \in Loops /\ loop'.at = loop.at /\ loop'.runtime = loop.runtime /\ loop'.of = loop.runtime
        /\ loop'.last = loop.last /\ loop'.since = loop.since /\ loop'.task = loop.task
    <3> DEFINE r == loop.runtime
    <3>1. r \in Agents \cup {""}
      BY DEF Loops
    <3> HIDE DEF r
    <3>2. loop' = [loop EXCEPT !.health = h, !.of = r] /\ loop \in Loops
      BY <2>1 DEF r
    <3>3. /\ loop' \in Loops /\ loop'.at = loop.at /\ loop'.runtime = loop.runtime /\ loop'.of = r
          /\ loop'.last = loop.last /\ loop'.since = loop.since /\ loop'.task = loop.task
      BY <3>1, <3>2 DEF Loops
    <3> QED BY <3>3 DEF r
  <2> QED BY <2>2, <2>3 DEF Task
<1> QED BY <1>1, <1>2, <1>3, <1>4

LEMMA TickStep ==
  ASSUME MonitorInv, TickInGrace \/ TickNotRunning \/ TickFrozen \/ TickRuns
  PROVE  MonitorInv'
<1> USE DEF MonitorInv, MonitorTypeOK, Placed, Switched, HealthIsOwn, Seen, IdleIsTrue, Tallied, taskVars
<1>1. /\ loop.at = "wait" /\ loop.runtime \in Agents /\ loop.task = 0 /\ ~time.ticked
      /\ time' \in Times /\ time'.second = time.second /\ time'.ticked
      /\ time'.hour = time.hour /\ time'.day = time.day
      /\ UNCHANGED <<chosen, acted, record, done, mishaps>>
  BY DEF TickInGrace, TickNotRunning, TickFrozen, TickRuns, BeginsTick, Times
<1>2. CASE TickInGrace
  BY <1>1, <1>2 DEF TickInGrace, Task
<1>3. ASSUME NEW state \in {"offline", "stopped", "busy", "idle"}, NEW i \in Int, WritesStatus(Status(state, i)),
             loop' \in Loops, loop'.at = "tasks", loop'.task = 1, loop'.runtime = loop.runtime, loop'.of = loop.of,
             loop'.clean = loop.clean, i <= time.second - acted[loop.runtime] \/ unseen',
             sessions' \in [Agents -> {"none", "starting", "up", "stopped"}], unseen' \in BOOLEAN,
             loop'.last = "idle" => /\ sessions'[loop.runtime] # "starting" /\ loop'.since <= time.second
                                    /\ acted[loop.runtime] <= loop'.since \/ unseen'
      PROVE  MonitorInv'
  <2>1. /\ statusFile' \in Statuses /\ statusFile'.idle = i
        /\ statusFile'.quiet = time.second - acted[loop.runtime]
    BY <1>1, <1>3, StatusType DEF WritesStatus
  <2>2. shift' \in Shifts /\ ~shift'.quiet /\ shift'.at = shift.at /\ shift'.target = shift.target
    BY <1>3, ShiftChange DEF WritesStatus
  <2> QED BY <1>1, <1>3, <2>1, <2>2 DEF Task
<1>4. CASE TickNotRunning
  <2>1. PICK state \in {"offline", "stopped"} :
          WritesStatus(Status(state, 0)) /\ loop' = [loop EXCEPT !.at = "tasks", !.task = 1, !.last = state]
    BY <1>4 DEF TickNotRunning
  <2>2. /\ loop' \in Loops /\ loop'.at = "tasks" /\ loop'.task = 1 /\ loop'.runtime = loop.runtime
        /\ loop'.of = loop.of /\ loop'.last = state /\ loop'.clean = loop.clean
    <3>1. state \in {"offline", "stopped", "busy", "idle"} /\ 0 \in Nat
      OBVIOUS
    <3> QED BY <2>1, <3>1, TickEffect
  <2>3. unseen' = unseen /\ sessions' \in [Agents -> {"none", "starting", "up", "stopped"}]
    BY <1>4 DEF TickNotRunning
  <2>4. 0 <= time.second - acted[loop.runtime]
    BY <1>1 DEF Times
  <2> QED BY <1>3, <2>1, <2>2, <2>3, <2>4
<1>5. CASE TickFrozen
  <2>1. /\ loop' = [loop EXCEPT !.last = "frozen"] /\ sessions' = [sessions EXCEPT ![loop.runtime] = "none"]
        /\ UNCHANGED <<statusFile, unseen, shift>>
    BY <1>5 DEF TickFrozen
  <2>2. /\ loop' \in Loops /\ loop'.at = loop.at /\ loop'.task = loop.task /\ loop'.runtime = loop.runtime
        /\ loop'.of = loop.of /\ loop'.last = "frozen" /\ loop'.clean = loop.clean
    BY <2>1 DEF Loops
  <2> QED BY <1>1, <2>1, <2>2 DEF Task
<1>6. CASE TickRuns
  <2>1. PICK tools \in BOOLEAN :
          LET busy == tools \/ Inactive < IdleThreshold
              since == IdleSince(busy)
              state == IF busy THEN "busy" ELSE "idle"
          IN /\ WritesStatus(Status(state, IF busy THEN 0 ELSE time.second - since))
             /\ loop' = [loop EXCEPT !.at = "tasks", !.task = 1, !.last = state, !.since = since]
             /\ unseen' = (unseen /\ ~busy /\ loop.last = "idle")
    BY <1>6 DEF TickRuns
  <2>2. sessions' = sessions /\ sessions[loop.runtime] = "up" /\ time.second \in Nat /\ acted[loop.runtime] \in Nat
        /\ acted[loop.runtime] <= time.second /\ loop.since \in Nat
    BY <1>1, <1>6 DEF TickRuns, Times, Loops
  <2>3. CASE tools \/ Inactive < IdleThreshold
    <3>1. /\ WritesStatus(Status("busy", 0))
          /\ loop' = [loop EXCEPT !.at = "tasks", !.task = 1, !.last = "busy", !.since = 0]
          /\ unseen' = FALSE
      BY <2>1, <2>3 DEF IdleSince
    <3>2. /\ loop' \in Loops /\ loop'.at = "tasks" /\ loop'.task = 1 /\ loop'.runtime = loop.runtime
          /\ loop'.of = loop.of /\ loop'.last = "busy" /\ loop'.clean = loop.clean
      <4>1. "busy" \in {"offline", "stopped", "busy", "idle"} /\ 0 \in Nat
        OBVIOUS
      <4> QED BY <3>1, <4>1, TickEffect
    <3>3. 0 <= time.second - acted[loop.runtime] /\ 0 \in Int /\ FALSE \in BOOLEAN
      BY <2>2
    <3> QED BY <1>3, <2>2, <3>1, <3>2, <3>3
  <2>4. CASE ~(tools \/ Inactive < IdleThreshold)
    <3> DEFINE n == IF loop.last # "idle" THEN time.second ELSE loop.since
    <3>1. /\ WritesStatus(Status("idle", time.second - n))
          /\ loop' = [loop EXCEPT !.at = "tasks", !.task = 1, !.last = "idle", !.since = n]
          /\ unseen' = (unseen /\ loop.last = "idle")
      BY <2>1, <2>4 DEF IdleSince
    <3>2. n \in Nat /\ n <= time.second
      BY <2>2
    <3>3. acted[loop.runtime] <= n \/ unseen'
      <4>1. CASE loop.last # "idle"
        BY <2>2, <4>1
      <4>2. CASE loop.last = "idle"
        <5>1. acted[loop.runtime] + 1 < time.second
          BY <2>2, <2>4, HealthsAssumption DEF Inactive
        <5> QED BY <1>1, <2>2, <3>1, <4>2, <5>1
      <4> QED BY <4>1, <4>2
    <3> HIDE DEF n
    <3>4. /\ loop' \in Loops /\ loop'.at = "tasks" /\ loop'.task = 1 /\ loop'.runtime = loop.runtime
          /\ loop'.of = loop.of /\ loop'.last = "idle" /\ loop'.clean = loop.clean /\ loop'.since = n
      <4>1. "idle" \in {"offline", "stopped", "busy", "idle"}
        OBVIOUS
      <4> QED BY <3>1, <3>2, <4>1, TickEffect
    <3>5. unseen' \in BOOLEAN
      BY <3>1
    <3>6. time.second - n \in Int /\ (time.second - n <= time.second - acted[loop.runtime] \/ unseen')
      BY <2>2, <3>2, <3>3
    <3> QED BY <1>3, <2>2, <3>1, <3>2, <3>3, <3>4, <3>5, <3>6
  <2> QED BY <2>3, <2>4
<1> QED BY <1>2, <1>4, <1>5, <1>6

\* What is on record for today is not due.
LEMMA NotDueAgain ==
  ASSUME MonitorTypeOK, NEW t \in TaskNames,
         IF t \in Tasks24 THEN record[t] >= Hours * time.day ELSE record[t] = time.day
  PROVE  ~DueTask(t)
<1>1. record[t] \in Nat /\ time.day \in Nat /\ time.hour \in 0 .. 3
  BY DEF MonitorTypeOK, Times
<1>2. CASE t \in Tasks24
  <2>1. Elapsed = 4 * time.day + time.hour
    BY TaskFacts DEF Elapsed
  <2>2. record[t] >= 4 * time.day
    BY <1>2, TaskFacts
  <2>3. ~(Elapsed - record[t] >= 4)
    BY <1>1, <2>1, <2>2
  <2> QED BY <1>2, <2>3, TaskFacts DEF DueTask
<1>3. CASE t \notin Tasks24
  BY <1>3 DEF DueTask
<1> QED BY <1>2, <1>3

LEMMA TaskStep ==
  ASSUME MonitorInv, SkipTask \/ (\E t \in TaskNames : Executes(t)) \/ RecordTask
  PROVE  MonitorInv'
<1> USE DEF MonitorInv, MonitorTypeOK, Placed, Switched, HealthIsOwn, Seen, IdleIsTrue, Tallied, taskVars
<1>1. /\ loop.at \in {"tasks", "record"} /\ loop.runtime \in Agents
      /\ UNCHANGED <<statusFile, chosen, sessions, acted, unseen, shift, time>>
  BY DEF SkipTask, Executes, RecordTask
<1>2. loop.task \in 1 .. 4
  <2>1. loop.task \in 0 .. 4
    BY DEF Loops
  <2>2. loop.task # 0
    BY <1>1
  <2> QED BY <2>1, <2>2
<1>3. Task \in TaskNames
  BY <1>2, TaskFacts DEF Task
<1>4. ASSUME loop' = NextTask(loop)
      PROVE  /\ loop' \in Loops /\ Placed' /\ Switched' /\ Seen' /\ IdleIsTrue'
             /\ loop'.at # "record"
  <2>1. /\ loop' \in Loops /\ loop'.runtime = loop.runtime /\ loop'.of = loop.of /\ loop'.last = loop.last
        /\ loop'.since = loop.since /\ loop'.clean = loop.clean
        /\ (loop'.at = "wait" /\ loop'.task = 0) \/ (loop'.at = "tasks" /\ loop'.task # 0)
    BY <1>2, <1>4, LoopGoesOn
  <2> QED BY <1>1, <2>1
<1>5. Mishap => mishaps' \in Nat
  BY DEF Mishap
<1>6. CASE SkipTask
  <2>1. loop' = NextTask(loop) /\ loop.at = "tasks" /\ UNCHANGED <<record, done, mishaps>>
    BY <1>6 DEF SkipTask
  <2>2. Tallied'
    BY <1>1, <2>1
  <2> QED BY <1>1, <1>4, <2>1, <2>2
<1>7. ASSUME NEW t \in TaskNames, Executes(t)
      PROVE  MonitorInv'
  <2>1. loop.at = "tasks" /\ Task = t /\ DueTask(t) /\ UNCHANGED record
    BY <1>7 DEF Executes
  <2>2. CASE loop' = [loop EXCEPT !.at = "record"] /\ done' = [done EXCEPT ![t].times = @ + 1] /\ UNCHANGED mishaps
    <3>1. /\ loop' \in Loops /\ loop'.at = "record" /\ loop'.task = loop.task /\ loop'.runtime = loop.runtime
          /\ loop'.of = loop.of /\ loop'.last = loop.last /\ loop'.since = loop.since /\ loop'.clean = loop.clean
      BY <2>2 DEF Loops
    <3>2. /\ done' \in [TaskNames -> [times : Nat, lost : Nat]]
          /\ done'[t].times = done[t].times + 1 /\ done'[t].lost = done[t].lost
          /\ \A u \in TaskNames \ {t} : done'[u] = done[u]
      BY <2>2
    <3>3. Task' = t
      BY <2>1, <3>1 DEF Task
    <3>4. done[t].times <= done[t].lost
      BY <2>1, NotDueAgain
    <3>5. done'[t].times <= done'[t].lost + 1
      BY <3>2, <3>4
    <3>6. Tallied'
      <4> SUFFICES ASSUME NEW u \in TaskNames
                   PROVE  \/ done'[u].times <= done'[u].lost
                          \/ /\ done'[u].times = done'[u].lost + 1
                             /\ \/ loop'.at = "record" /\ Task' = u
                                \/ IF u \in Tasks24 THEN record'[u] >= Hours' * time'.day ELSE record'[u] = time'.day
        OBVIOUS
      <4>1. CASE u = t
        BY <3>1, <3>2, <3>3, <3>5, <4>1
      <4>2. CASE u # t
        BY <1>1, <2>1, <3>2, <4>2
      <4> QED BY <4>1, <4>2
    <3>7. Placed' /\ Switched' /\ Seen' /\ IdleIsTrue'
      BY <1>1, <1>2, <2>1, <3>1
    <3> QED BY <1>1, <2>1, <2>2, <3>1, <3>2, <3>6, <3>7
  <2>3. CASE Mishap /\ loop' = NextTask(loop) /\ UNCHANGED done
    <3>1. Tallied'
      BY <1>1, <2>1, <2>3
    <3> QED BY <1>1, <1>4, <1>5, <2>1, <2>3, <3>1
  <2>4. CASE /\ Mishap /\ loop' = NextTask(loop)
             /\ done' = [done EXCEPT ![t] = [times |-> @.times + 1, lost |-> @.lost + 1]]
    <3>1. /\ done' \in [TaskNames -> [times : Nat, lost : Nat]]
          /\ done'[t].times = done[t].times + 1 /\ done'[t].lost = done[t].lost + 1
          /\ \A u \in TaskNames \ {t} : done'[u] = done[u]
      BY <2>4
    <3>2. done[t].times <= done[t].lost
      BY <2>1, NotDueAgain
    <3>3. done'[t].times <= done'[t].lost
      BY <3>1, <3>2
    <3>4. Tallied'
      BY <1>1, <2>1, <3>1, <3>3
    <3> QED BY <1>1, <1>4, <1>5, <2>1, <2>4, <3>1, <3>4
  <2> QED BY <1>7, <2>2, <2>3, <2>4 DEF Executes
<1>8. CASE RecordTask
  <2>1. loop' = NextTask(loop)
    BY <1>8 DEF RecordTask
  <2> DEFINE v == IF Task \in Tasks24 THEN Elapsed ELSE time.day
  <2>2. v \in Nat /\ (Task \in Tasks24 => v >= Hours * time.day) /\ (Task \notin Tasks24 => v = time.day)
    <3>1. time.day \in Nat /\ time.hour \in 0 .. 3 /\ Hours = 4
      BY TaskFacts DEF Times
    <3> QED BY <3>1 DEF Elapsed
  <2> HIDE DEF v
  <2>3. CASE record' = [record EXCEPT ![Task] = v] /\ UNCHANGED <<done, mishaps>>
    <3>1. /\ record' \in [TaskNames -> Nat] /\ record'[Task] = v
          /\ \A u \in TaskNames \ {Task} : record'[u] = record[u]
      BY <1>3, <2>2, <2>3
    <3>2. Tallied'
      <4> SUFFICES ASSUME NEW u \in TaskNames
                   PROVE  \/ done[u].times <= done[u].lost
                          \/ /\ done[u].times = done[u].lost + 1
                             /\ IF u \in Tasks24 THEN record'[u] >= Hours * time.day ELSE record'[u] = time.day
        BY <1>1, <2>3
      <4>1. CASE u = Task
        BY <2>2, <3>1, <4>1
      <4>2. CASE u # Task
        BY <3>1, <4>2
      <4> QED BY <4>1, <4>2
    <3> QED BY <1>1, <1>4, <2>1, <2>3, <3>1, <3>2
  <2>4. CASE Mishap /\ done' = [done EXCEPT ![Task].lost = @ + 1] /\ UNCHANGED record
    <3>1. /\ done' \in [TaskNames -> [times : Nat, lost : Nat]]
          /\ done'[Task].times <= done'[Task].lost
          /\ \A u \in TaskNames \ {Task} : done'[u] = done[u]
      <4>1. /\ done \in [TaskNames -> [times : Nat, lost : Nat]] /\ done[Task] \in [times : Nat, lost : Nat]
            /\ done[Task].times <= done[Task].lost + 1
        BY <1>3
      <4>2. done' = [done EXCEPT ![Task] = [done[Task] EXCEPT !.lost = @ + 1]]
        BY <2>4
      <4> HIDE DEF MonitorInv, MonitorTypeOK, Placed, Switched, HealthIsOwn, Seen, IdleIsTrue, Tallied
      <4> QED BY <1>3, <4>1, <4>2, OneMoreLost
    <3>2. Tallied'
      <4> SUFFICES ASSUME NEW u \in TaskNames, u # Task
                   PROVE  \/ done[u].times <= done[u].lost
                          \/ /\ done[u].times = done[u].lost + 1
                             /\ IF u \in Tasks24 THEN record[u] >= Hours * time.day ELSE record[u] = time.day
        BY <1>1, <2>4, <3>1
      <4> QED OBVIOUS
    <3> QED BY <1>1, <1>4, <1>5, <2>1, <2>4, <3>1, <3>2
  <2> QED BY <1>8, <2>3, <2>4 DEF RecordTask, v
<1> QED BY <1>6, <1>7, <1>8

LEMMA SwitchStep ==
  ASSUME MonitorInv, SwitchBegins \/ SwitchGate \/ RecordSwitch \/ ClearHealthFiles \/ RestartMonitor \/ SwitchDies
  PROVE  MonitorInv'
<1> USE DEF MonitorInv, MonitorTypeOK, Placed, Switched, HealthIsOwn, Seen, IdleIsTrue, Tallied, taskVars
<1>1. CASE SwitchBegins
  <2>1. PICK target \in Agents : shift' = [at |-> "gate", target |-> target, quiet |-> FALSE]
    BY <1>1 DEF SwitchBegins
  <2>2. shift' \in Shifts /\ ~shift'.quiet /\ shift'.target \in Agents
    BY <2>1 DEF Shifts
  <2> QED BY <1>1, <2>2 DEF SwitchBegins, Task
<1>2. CASE SwitchGate
  <2>1. shift' \in Shifts /\ (shift'.quiet => shift.quiet) /\ (shift'.at # "no" => shift'.target \in Agents)
    BY ZenonT(60), <1>2, ShiftChange DEF SwitchGate
  <2> QED BY <1>2, <2>1 DEF SwitchGate, Task
<1>3. CASE RecordSwitch
  <2>1. shift' \in Shifts /\ shift'.quiet = shift.quiet /\ shift'.target \in Agents
    BY <1>3, ShiftChange DEF RecordSwitch
  <2>2. chosen' \in Agents
    BY <1>3 DEF RecordSwitch
  <2> QED BY <1>3, <2>1, <2>2 DEF RecordSwitch, Task
<1>4. CASE ClearHealthFiles
  <2>1. /\ shift' \in Shifts /\ shift'.target \in Agents
        /\ shift'.quiet => statusFile' = NoStatus
        /\ statusFile' \in {NoStatus, statusFile} /\ mishaps' \in Nat
    <3>1. CASE statusFile' = NoStatus /\ shift' = [shift EXCEPT !.at = "restart", !.quiet = TRUE] /\ UNCHANGED mishaps
      BY <1>4, <3>1, ShiftChange DEF ClearHealthFiles
    <3>2. CASE Mishap /\ shift' = [shift EXCEPT !.at = "restart"] /\ UNCHANGED statusFile
      <4>1. shift' \in Shifts /\ shift'.target \in Agents /\ shift'.quiet = shift.quiet
        BY <1>4, <3>2, ShiftChange DEF ClearHealthFiles
      <4>2. mishaps' \in Nat
        BY <3>2 DEF Mishap
      <4> QED BY <3>2, <4>1, <4>2
    <3> QED BY <1>4, <3>1, <3>2 DEF ClearHealthFiles
  <2> QED BY <1>4, <2>1 DEF ClearHealthFiles, Task
<1>5. CASE RestartMonitor
  <2>1. shift' \in Shifts /\ ~shift'.quiet /\ shift'.at = "no" /\ shift.quiet \in BOOLEAN
    BY <1>5, ShiftChange DEF RestartMonitor, Shifts
  <2>2. CASE loop' = [Started(statusFile, chosen) EXCEPT !.clean = shift.quiet] /\ done' = Interrupted /\ UNCHANGED mishaps
    <3>1. /\ loop' \in Loops /\ loop'.at = "wait" /\ loop'.runtime = chosen /\ loop'.last = ""
          /\ loop'.clean = shift.quiet /\ loop'.task = 0 /\ (statusFile = NoStatus => loop'.of = chosen)
      BY <2>1, <2>2, LoopStarts
    <3>2. done' \in [TaskNames -> [times : Nat, lost : Nat]] /\ Tallied'
      BY <1>5, <2>2, <3>1, Cut DEF RestartMonitor
    <3> QED BY <1>5, <2>1, <2>2, <3>1, <3>2 DEF RestartMonitor
  <2>3. CASE Mishap /\ UNCHANGED <<loop, done>>
    BY <1>5, <2>1, <2>3 DEF RestartMonitor, Mishap, Task
  <2> QED BY <1>5, <2>2, <2>3 DEF RestartMonitor
<1>6. CASE SwitchDies
  <2>1. /\ shift' = NoShift /\ mishaps' = mishaps + 1
        /\ UNCHANGED <<loop, statusFile, chosen, sessions, acted, unseen, time, record, done>>
    BY <1>6 DEF SwitchDies, Mishap
  <2>2. mishaps' \in Nat
    BY <2>1
  <2>3. shift' \in Shifts /\ ~shift'.quiet /\ shift'.at = "no"
    <3>1. shift \in Shifts
      OBVIOUS
    <3> HIDE DEF MonitorInv, MonitorTypeOK
    <3> QED BY <2>1, <3>1, ShiftChange
  <2> QED BY <2>1, <2>2, <2>3 DEF Task
<1> QED BY <1>1, <1>2, <1>3, <1>4, <1>5, <1>6

LEMMA WorldStep ==
  ASSUME MonitorInv, AgentActs \/ SessionChanges \/ SecondPasses \/ HourPasses \/ UNCHANGED monitorVars
  PROVE  MonitorInv'
<1> USE DEF MonitorInv, MonitorTypeOK, Placed, Switched, HealthIsOwn, Seen, IdleIsTrue, Tallied, taskVars
<1>0. /\ time.second \in Nat /\ time.ticked \in BOOLEAN /\ time.hour \in 0 .. 3 /\ time.day \in Nat
      /\ loop.since \in Nat
  BY DEF Times, Loops
<1>1. CASE AgentActs
  <2>1. PICK r \in Agents : /\ sessions[r] = "up" /\ acted' = [acted EXCEPT ![r] = time.second]
                            /\ unseen' = (unseen \/ (r = loop.runtime /\ loop.at \in {"tasks", "record"}))
    BY <1>1 DEF AgentActs
  <2>2. /\ acted' \in [Agents -> Nat] /\ acted'[r] = time.second
        /\ \A q \in Agents \ {r} : acted'[q] = acted[q]
    BY <1>0, <2>1
  <2>3. UNCHANGED <<loop, statusFile, chosen, sessions, shift, time, record, done, mishaps>>
    BY <1>1 DEF AgentActs
  <2>4. unseen' \in BOOLEAN /\ (unseen => unseen')
    BY <2>1
  <2>5. Seen'
    <3> SUFFICES ASSUME loop.last = "idle", sessions[loop.runtime] = "up"
                 PROVE  \/ acted'[loop.runtime] <= loop.since \/ unseen'
                        \/ loop.at = "wait" /\ acted'[loop.runtime] + (IF time.ticked THEN 0 ELSE 1) >= time.second
      BY <2>3
    <3>1. CASE r = loop.runtime
      <4>1. loop.at \in {"tasks", "record"} => unseen'
        BY <2>1, <3>1
      <4>2. loop.at \in {"wait", "tasks", "record"}
        BY DEF Loops
      <4> QED BY <1>0, <2>2, <3>1, <4>1, <4>2
    <3>2. CASE r # loop.runtime
      BY <1>0, <2>2, <2>4, <3>2
    <3> QED BY <3>1, <3>2
  <2>6. Placed'
    BY <1>0, <2>2, <2>3
  <2>7. IdleIsTrue'
    BY <2>3, <2>4
  <2> QED BY <2>2, <2>3, <2>4, <2>5, <2>6, <2>7 DEF Task
<1>2. CASE SessionChanges
  <2>1. PICK r \in Agents :
          /\ acted' = [acted EXCEPT ![r] = time.second]
          /\ \/ sessions[r] = "starting" /\ \E s \in {"up", "stopped"}: sessions' = [sessions EXCEPT ![r] = s]
             \/ sessions[r] = "up" /\ sessions' = [sessions EXCEPT ![r] = "stopped"]
    BY <1>2 DEF SessionChanges
  <2>2. /\ acted' \in [Agents -> Nat] /\ acted'[r] = time.second
        /\ \A q \in Agents \ {r} : acted'[q] = acted[q]
    BY <1>0, <2>1
  <2>3. /\ sessions' \in [Agents -> {"none", "starting", "up", "stopped"}]
        /\ sessions[r] \in {"starting", "up"} /\ (sessions[r] = "up" => sessions'[r] = "stopped")
        /\ sessions'[r] # "starting"
        /\ \A q \in Agents \ {r} : sessions'[q] = sessions[q]
    BY <2>1
  <2>4. UNCHANGED <<loop, statusFile, chosen, unseen, shift, time, record, done, mishaps>>
    BY <1>2 DEF SessionChanges
  <2>5. Seen'
    <3>1. CASE r = loop.runtime
      BY <2>3, <2>4, <3>1
    <3>2. CASE r # loop.runtime
      BY <2>2, <2>3, <2>4, <3>2
    <3> QED BY <3>1, <3>2
  <2>6. Placed'
    BY <1>0, <2>2, <2>4
  <2> QED BY <2>2, <2>3, <2>4, <2>5, <2>6 DEF Task
<1>3. CASE SecondPasses
  <2>1. /\ loop.at = "wait" => time.ticked
        /\ UNCHANGED <<loop, statusFile, chosen, sessions, acted, unseen, shift, record, done, mishaps>>
    BY <1>3 DEF SecondPasses
  <2>2. time' \in Times /\ time'.second = time.second + 1 /\ ~time'.ticked /\ time'.day = time.day
    <3> DEFINE n == time.second + 1
    <3>1. n \in Nat
      BY <1>0
    <3>2. time' = [time EXCEPT !.second = n, !.ticked = FALSE]
      BY <1>3 DEF SecondPasses
    <3> HIDE DEF n
    <3>3. time' \in Times /\ time'.second = n /\ ~time'.ticked /\ time'.day = time.day
      BY <3>1, <3>2 DEF Times
    <3> QED BY <3>3 DEF n
  <2>3. Placed' /\ Seen'
    BY <1>0, <2>1, <2>2
  <2> QED BY <2>1, <2>2, <2>3 DEF Task
<1>4. CASE HourPasses
  <2>1. /\ loop.at \notin {"tasks", "record"}
        /\ UNCHANGED <<loop, statusFile, chosen, sessions, acted, unseen, shift, record, mishaps>>
    BY <1>4 DEF HourPasses
  <2>2. time' \in Times /\ time'.second = time.second /\ ~time'.ticked
    <3>1. time.hour < 3 => time.hour + 1 \in 0 .. 3
      BY <1>0
    <3>2. 0 \in 0 .. 3 /\ time.day + 1 \in Nat
      BY <1>0
    <3> DEFINE h == time.hour + 1
               d == time.day + 1
    <3>3. \/ time.hour < 3 /\ time' = [time EXCEPT !.hour = h, !.ticked = FALSE]
          \/ time' = [time EXCEPT !.hour = 0, !.day = d, !.ticked = FALSE]
      BY <1>4, TaskFacts DEF HourPasses
    <3> HIDE DEF h, d
    <3> QED BY <3>1, <3>2, <3>3 DEF Times, h, d
  <2>3. done' \in [TaskNames -> [times : Nat, lost : Nat]] /\ Tallied'
    <3>1. CASE time.hour < Hours - 1
      BY <1>4, <2>1, <3>1 DEF HourPasses, Times
    <3>2. CASE ~(time.hour < Hours - 1)
      BY <1>4, <3>2 DEF HourPasses
    <3> QED BY <3>1, <3>2
  <2>4. Placed' /\ Seen'
    BY <1>0, <2>1, <2>2
  <2> QED BY <2>1, <2>2, <2>3, <2>4
<1>5. CASE UNCHANGED monitorVars
  BY <1>5 DEF monitorVars, Task
<1> QED BY <1>1, <1>2, <1>3, <1>4, <1>5

LEMMA MonitorBegins ==
  MonitorInit => MonitorInv
<1> SUFFICES ASSUME MonitorInit PROVE MonitorInv
  OBVIOUS
<1> USE DEF MonitorInit, MonitorInv
<1>1. /\ Down \in Loops /\ Down.at = "down" /\ Down.task = 0 /\ Down.last = "" /\ ~Down.clean
  <2>1. 0 \in Nat /\ 0 \in 0 .. 4
    OBVIOUS
  <2> QED BY <2>1, HealthsAssumption DEF Down, Loops
<1>2. NoShift \in Shifts /\ ~NoShift.quiet
  BY DEF NoShift, Shifts
<1>3. time \in Times /\ time.second = 0
  <2>1. 0 \in Nat /\ 1 \in Nat /\ 0 \in 0 .. 3
    OBVIOUS
  <2> QED BY <2>1 DEF Times
<1>4. record \in [TaskNames -> Nat]
  BY TaskFacts
<1>5. MonitorTypeOK
  BY <1>1, <1>2, <1>3, <1>4 DEF MonitorTypeOK
<1>6. Placed /\ Switched /\ Seen /\ IdleIsTrue /\ Tallied
  <2>1. Placed
    <3>1. loop = Down /\ acted = [r \in Agents |-> 0] /\ 0 <= 0
      OBVIOUS
    <3>2. \A r \in Agents : acted[r] <= time.second
      BY <1>3, <3>1
    <3>3. (loop.at \in {"tasks", "record"} <=> loop.task # 0) /\ loop.at = "down"
      BY <1>1, <3>1
    <3> QED BY <3>2, <3>3 DEF Placed
  <2>2. Switched /\ Seen
    BY <1>1, <1>2 DEF Switched, HealthIsOwn, Seen, NoShift
  <2>3. IdleIsTrue /\ Tallied
    BY DEF IdleIsTrue, Tallied
  <2> QED BY <2>1, <2>2, <2>3
<1> QED BY <1>5, <1>6

\* Through restarts of the monitor and of the agent, launches, freezes and a switch of
\* the runtime, the status file overstates no idle time, a new monitor takes over nothing
\* of another agent, and a daily task runs once a day, with the exceptions that the
\* property names (start, handleRunningRuntime, the task scheduler, switchRuntime).
THEOREM RecordsAreTrueCorrect ==
  MonitorSpec => []RecordsAreTrue
<1>1. MonitorInv /\ [MonitorNext]_monitorVars => MonitorInv'
  <2> SUFFICES ASSUME MonitorInv, [MonitorNext]_monitorVars PROVE MonitorInv'
    OBVIOUS
  <2>1. \A t \in {"upgrade", "commit", "check", "health"} : t \in TaskNames
    BY TaskFacts
  <2>2. CASE EnqueueUpgrade \/ CommitMemory \/ SpawnUpgradeCheck \/ EnqueueHealthCheck
    BY <2>1, <2>2, TaskStep DEF EnqueueUpgrade, CommitMemory, SpawnUpgradeCheck, EnqueueHealthCheck
  <2> QED BY <2>2, ProcessStep, TickStep, TaskStep, SwitchStep, WorldStep DEF MonitorNext
<1>2. MonitorInv => RecordsAreTrue
  <2> SUFFICES ASSUME MonitorInv PROVE RecordsAreTrue
    OBVIOUS
  <2>1. ASSUME NEW t \in TaskNames PROVE done[t].times <= done[t].lost + 1
    <3>1. done[t] \in [times : Nat, lost : Nat]
      BY DEF MonitorInv, MonitorTypeOK
    <3>2. done[t].times <= done[t].lost \/ done[t].times = done[t].lost + 1
      BY DEF MonitorInv, Tallied
    <3> QED BY <3>1, <3>2
  <2> QED BY <2>1 DEF MonitorInv, Switched, RecordsAreTrue, TaskRunsOnce
<1> QED BY <1>1, <1>2, MonitorBegins, PTL DEF MonitorSpec


-----------------------------------------------------------------------------
(* Credentials *)

AllValues == Values \cup {Own, NoValue}
ClaudeFiles ==
  [ok : BOOLEAN, env : [EnvKeys -> AllValues], by : [EnvKeys -> {"none", "yos", "user"}],
   terms : BOOLEAN]
UninstallSteps == {"reclaim", "forget", "reclaimed"}
JobSteps == {"none", "verify", "save", "try", "terms", "receipt", "url", "url receipt"} \cup UninstallSteps
Jobs ==
  [at : JobSteps, kind : {"none", "init", "runtime", "uninstall"}, key : {KEY, TOKEN},
   value : AllValues, url : AllValues, pending : BOOLEAN, before : ClaudeFiles,
   taken : SUBSET EnvKeys, failed : SUBSET {"settings", "approvals"}]

CredentialsTypeOK ==
  /\ claude \in ClaudeFiles /\ receipt \in [EnvKeys -> AllValues] /\ job \in Jobs
  /\ given \subseteq AllValues

\* What YOS writes, it was handed.
Handed ==
  /\ \A k \in EnvKeys : receipt[k] \in given \cup {NoValue}
  /\ job.value \in given \cup {NoValue} /\ job.url \in given \cup {NoValue}

\* Between the settings and the receipt.
Pending ==
  /\ job.at \in {"save", "verify", "try"} \/ job.pending => job.value # NoValue
  /\ job.pending => job.at \in {"try", "terms", "receipt"}
  /\ job.at = "try" => job.key = TOKEN
  /\ job.pending =>
       /\ claude.ok
       /\ claude.by[job.key] = "yos" => claude.env[job.key] = job.value
       /\ job.key = TOKEN => claude.by[KEY] # "yos"
  /\ job.at = "url receipt" =>
       /\ job.url # NoValue /\ claude.ok
       /\ claude.by[URL] = "yos" => claude.env[URL] = job.url

\* What YOS wrote last has its receipt, or gets it in this run, or is owed one.
Accounted ==
  claude.ok => \A k \in EnvKeys : claude.by[k] = "yos" =>
    \/ k \in owed
    \/ claude.env[k] # NoValue /\ claude.env[k] = receipt[k]
    \/ job.pending /\ job.key = k
    \/ job.at = "url receipt" /\ k = URL

Uninstalling ==
  /\ job.kind = "uninstall" <=> job.at \in UninstallSteps
  /\ job.kind = "none" => job = NoJob
  /\ job.at = "reclaim" => job.before = claude /\ job.taken = {} /\ job.failed = {}
  /\ job.at \in {"forget", "reclaimed"} =>
       /\ "settings" \in job.failed => job.taken = {}
       /\ claude.ok => OwnValuesStay /\ ReclaimsAll /\ \A k \in job.taken : claude.env[k] = NoValue
  /\ job.at = "reclaimed" /\ job.failed = {} => TakenValues \cap approved = {}

CredentialsInv ==
  CredentialsTypeOK /\ Handed /\ Pending /\ Accounted /\ Uninstalling

LEMMA KeyFacts ==
  /\ EnvKeys = {KEY, TOKEN, URL} /\ KEY # TOKEN /\ KEY # URL /\ TOKEN # URL
BY DEF EnvKeys, KEY, TOKEN, URL

LEMMA BlankFacts ==
  /\ Blank \in ClaudeFiles /\ Blank.ok /\ \A k \in EnvKeys : Blank.by[k] = "none"
  /\ Nothing \in [EnvKeys -> AllValues] /\ \A k \in EnvKeys : Nothing[k] = NoValue
  /\ NoJob \in Jobs /\ NoJob.at = "none" /\ NoJob.kind = "none" /\ ~NoJob.pending
  /\ NoJob.value = NoValue /\ NoJob.url = NoValue /\ NoJob.taken = {} /\ NoJob.failed = {}
<1>1. Nothing \in [EnvKeys -> AllValues] /\ \A k \in EnvKeys : Nothing[k] = NoValue
  BY DEF Nothing, AllValues
<1> DEFINE by == [k \in EnvKeys |-> "none"]
<1>2. by \in [EnvKeys -> {"none", "yos", "user"}] /\ \A k \in EnvKeys : by[k] = "none"
  OBVIOUS
<1>3. Blank = [ok |-> TRUE, env |-> Nothing, by |-> by, terms |-> FALSE]
  BY DEF Blank
<1> HIDE DEF by
<1>4. Blank \in ClaudeFiles /\ Blank.ok /\ \A k \in EnvKeys : Blank.by[k] = "none"
  BY <1>1, <1>2, <1>3 DEF ClaudeFiles
<1>5. /\ NoJob \in Jobs /\ NoJob.at = "none" /\ NoJob.kind = "none" /\ ~NoJob.pending
      /\ NoJob.value = NoValue /\ NoJob.url = NoValue /\ NoJob.taken = {} /\ NoJob.failed = {}
  BY <1>4 DEF NoJob, Jobs, JobSteps, AllValues
<1> QED BY <1>1, <1>4, <1>5

\* What the helpers write.
LEMMA ReadFacts ==
  ASSUME claude \in ClaudeFiles
  PROVE  /\ ClaudeRead \in ClaudeFiles /\ ClaudeRead.ok
         /\ claude.ok => ClaudeRead = claude
         /\ ~claude.ok => \A k \in EnvKeys : ClaudeRead.by[k] = "none"
BY BlankFacts DEF ClaudeRead

LEMMA SavedFacts ==
  ASSUME claude \in ClaudeFiles, NEW k \in EnvKeys, NEW v \in AllValues
  PROVE  /\ Saved(k, v) \in ClaudeFiles /\ Saved(k, v).ok
         /\ Saved(k, v).env[k] = v /\ Saved(k, v).by[k] = "yos"
         /\ \A q \in EnvKeys \ {k} : /\ Saved(k, v).env[q] = ClaudeRead.env[q]
                                     /\ Saved(k, v).by[q] = ClaudeRead.by[q]
<1> DEFINE c == ClaudeRead
           e == [c.env EXCEPT ![k] = v]
           b == [c.by EXCEPT ![k] = "yos"]
<1>1. c \in ClaudeFiles /\ c.ok
  BY ReadFacts
<1>2. Saved(k, v) = [c EXCEPT !.env = e, !.by = b]
  BY <1>1 DEF Saved, ClaudeFiles
<1>3. /\ e \in [EnvKeys -> AllValues] /\ b \in [EnvKeys -> {"none", "yos", "user"}]
      /\ e[k] = v /\ b[k] = "yos" /\ \A q \in EnvKeys \ {k} : e[q] = c.env[q] /\ b[q] = c.by[q]
  BY <1>1 DEF ClaudeFiles
<1> HIDE DEF c, e, b
<1>4. [c EXCEPT !.env = e, !.by = b] \in ClaudeFiles /\ [c EXCEPT !.env = e, !.by = b].ok
      /\ [c EXCEPT !.env = e, !.by = b].env = e /\ [c EXCEPT !.env = e, !.by = b].by = b
  BY <1>1, <1>3 DEF ClaudeFiles
<1> QED BY <1>2, <1>3, <1>4 DEF c

LEMMA DeletedFacts ==
  ASSUME NEW c \in ClaudeFiles, NEW k \in EnvKeys
  PROVE  /\ Deleted(c, k) \in ClaudeFiles /\ Deleted(c, k).ok = c.ok
         /\ Deleted(c, k).env[k] = NoValue /\ Deleted(c, k).by[k] = "none"
         /\ \A q \in EnvKeys \ {k} : /\ Deleted(c, k).env[q] = c.env[q]
                                     /\ Deleted(c, k).by[q] = c.by[q]
<1> DEFINE e == [c.env EXCEPT ![k] = NoValue]
           b == [c.by EXCEPT ![k] = "none"]
<1>1. Deleted(c, k) = [c EXCEPT !.env = e, !.by = b]
  BY DEF Deleted, ClaudeFiles
<1>2. /\ e \in [EnvKeys -> AllValues] /\ b \in [EnvKeys -> {"none", "yos", "user"}]
      /\ e[k] = NoValue /\ b[k] = "none" /\ \A q \in EnvKeys \ {k} : e[q] = c.env[q] /\ b[q] = c.by[q]
  BY DEF ClaudeFiles, AllValues
<1> HIDE DEF e, b
<1>3. [c EXCEPT !.env = e, !.by = b] \in ClaudeFiles /\ [c EXCEPT !.env = e, !.by = b].ok = c.ok
      /\ [c EXCEPT !.env = e, !.by = b].env = e /\ [c EXCEPT !.env = e, !.by = b].by = b
  BY <1>2 DEF ClaudeFiles
<1> QED BY <1>1, <1>2, <1>3

LEMMA FailFacts ==
  ASSUME claude \in ClaudeFiles, SettingsFail
  PROVE  claude' \in ClaudeFiles /\ claude'.env = claude.env /\ claude'.by = claude.by
         /\ (claude'.ok => claude' = claude)
BY DEF SettingsFail, ClaudeFiles

\* A job goes a step further, with pending as before or reset.
LEMMA JobGoesFacts ==
  ASSUME job \in Jobs, NEW step \in JobSteps
  PROVE  /\ LET y == [job EXCEPT !.at = step]
            IN /\ y \in Jobs /\ y.at = step /\ y.kind = job.kind /\ y.key = job.key /\ y.value = job.value
               /\ y.url = job.url /\ y.pending = job.pending /\ y.before = job.before
               /\ y.taken = job.taken /\ y.failed = job.failed
         /\ \A p \in BOOLEAN :
              LET y == [job EXCEPT !.at = step, !.pending = p]
              IN /\ y \in Jobs /\ y.at = step /\ y.kind = job.kind /\ y.key = job.key
                 /\ y.value = job.value /\ y.url = job.url /\ y.pending = p
BY DEF Jobs

LEMMA StartStep ==
  ASSUME CredentialsInv, StartClaude \/ VerifyApiKey \/ StartUninstall \/ SaveCodexKey
  PROVE  CredentialsInv'
<1> USE DEF CredentialsInv, CredentialsTypeOK
<1>1. CASE StartClaude
  <2>1. PICK kind \in {"init", "runtime"}, k \in {KEY, TOKEN}, v \in Values \cup {Own, NoValue},
             url \in Values \cup {Own, NoValue}, authenticated \in BOOLEAN :
          LET stored == IF receipt[TOKEN] # NoValue THEN TOKEN ELSE KEY
              named == v # NoValue
              key == IF named \/ kind = "runtime" THEN k ELSE stored
              value == IF named \/ kind = "runtime" THEN v ELSE receipt[stored]
          IN /\ given' = given \cup ({v, url} \ {NoValue})
             /\ job' = [NoJob EXCEPT !.kind = kind, !.key = key, !.url = url, !.value = value,
                 !.at = IF value = NoValue \/ (authenticated /\ kind = "init") THEN "terms"
                        ELSE IF kind = "init" /\ key = KEY THEN "verify" ELSE "save"]
    BY <1>1 DEF StartClaude
  <2>2. job = NoJob /\ UNCHANGED <<claude, receipt, approved, codexAuth, owed>>
    BY <1>1 DEF StartClaude
  <2> DEFINE stored == IF receipt[TOKEN] # NoValue THEN TOKEN ELSE KEY
             key == IF v # NoValue \/ kind = "runtime" THEN k ELSE stored
             value == IF v # NoValue \/ kind = "runtime" THEN v ELSE receipt[stored]
             at == IF value = NoValue \/ (authenticated /\ kind = "init") THEN "terms"
                   ELSE IF kind = "init" /\ key = KEY THEN "verify" ELSE "save"
  <2>3. /\ job' = [NoJob EXCEPT !.kind = kind, !.key = key, !.url = url, !.value = value, !.at = at]
        /\ given' = given \cup ({v, url} \ {NoValue})
    BY <2>1
  <2>4. key \in {KEY, TOKEN} /\ value \in AllValues /\ at \in {"terms", "verify", "save"} /\ url \in AllValues
        /\ (at # "terms" => value # NoValue)
    BY KeyFacts DEF AllValues
  <2>5. value \in given' \cup {NoValue} /\ url \in given' \cup {NoValue} /\ given' \subseteq AllValues
    BY <2>3, KeyFacts DEF Handed, AllValues
  <2> HIDE DEF key, value, at
  <2>6. /\ job' \in Jobs /\ job'.at = at /\ job'.kind = kind /\ job'.value = value /\ job'.url = url
        /\ ~job'.pending
    BY <2>3, <2>4, BlankFacts DEF Jobs, JobSteps
  <2>7. Handed' /\ Pending'
    BY <2>2, <2>3, <2>4, <2>5, <2>6 DEF Handed, Pending
  <2>8. Accounted' /\ Uninstalling'
    BY <2>2, <2>4, <2>6, BlankFacts DEF Accounted, Uninstalling, UninstallSteps, OwnValuesStay
  <2> QED BY <2>2, <2>5, <2>6, <2>7, <2>8
<1>2. CASE VerifyApiKey
  <2>1. /\ job.at = "verify" /\ job.kind = "init" /\ job' \in {[job EXCEPT !.at = "terms"], [job EXCEPT !.at = "save"]}
        /\ UNCHANGED <<claude, receipt, approved, given, owed>>
    BY <1>2 DEF VerifyApiKey, JobAt, JobGoes
  <2>2. /\ job' \in Jobs /\ job'.at \in {"terms", "save"} /\ job'.kind = job.kind /\ job'.value = job.value
        /\ job'.url = job.url /\ job'.pending = job.pending /\ job'.key = job.key
    <3>1. "terms" \in JobSteps /\ "save" \in JobSteps
      BY DEF JobSteps
    <3>2. CASE job' = [job EXCEPT !.at = "terms"]
      BY <3>1, <3>2, JobGoesFacts
    <3>3. CASE job' = [job EXCEPT !.at = "save"]
      BY <3>1, <3>3, JobGoesFacts
    <3> QED BY <2>1, <3>2, <3>3
  <2>3. Handed' /\ Pending' /\ Accounted'
    BY <2>1, <2>2 DEF Handed, Pending, Accounted
  <2>4. Uninstalling'
    BY <2>1, <2>2 DEF Uninstalling, UninstallSteps, OwnValuesStay
  <2> QED BY <2>1, <2>2, <2>3, <2>4
<1>3. CASE StartUninstall
  <2>1. /\ job = NoJob /\ job' = [NoJob EXCEPT !.kind = "uninstall", !.at = "reclaim", !.before = claude]
        /\ UNCHANGED <<claude, receipt, approved, given, owed>>
    BY <1>3 DEF StartUninstall
  <2>2. /\ job' \in Jobs /\ job'.at = "reclaim" /\ job'.kind = "uninstall" /\ job'.value = NoValue
        /\ job'.url = NoValue /\ ~job'.pending /\ job'.before = claude
        /\ job'.taken = {} /\ job'.failed = {}
    BY <2>1, BlankFacts DEF Jobs, JobSteps, UninstallSteps
  <2>3. Handed' /\ Pending' /\ Accounted'
    BY <2>1, <2>2, BlankFacts DEF Handed, Pending, Accounted
  <2>4. Uninstalling'
    BY <2>1, <2>2 DEF Uninstalling, UninstallSteps
  <2> QED BY <2>1, <2>2, <2>3, <2>4
<1>4. CASE SaveCodexKey
  BY ZenonT(60), <1>4
  DEF SaveCodexKey, Handed, Pending, Accounted, Uninstalling, OwnValuesStay, ReclaimsAll, TakenValues
<1> QED BY <1>1, <1>2, <1>3, <1>4

LEMMA SettingsStep ==
  ASSUME CredentialsInv, SaveCredential \/ SaveFails \/ TrySetupToken \/ RollbackFails \/ PreAcceptTerms \/ SaveBaseUrl
  PROVE  CredentialsInv'
<1> USE DEF CredentialsInv, CredentialsTypeOK
<1>0. job.key \in EnvKeys /\ job.value \in AllValues /\ job.url \in AllValues
  BY KeyFacts DEF Jobs
<1>1. CASE SaveCredential
  <2> DEFINE step == IF job.kind = "runtime" THEN "receipt" ELSE IF job.key = TOKEN THEN "try" ELSE "terms"
  <2>1. /\ job.kind \in {"init", "runtime"} /\ job.at = "save"
        /\ claude' = IF job.key = TOKEN THEN Deleted(Saved(TOKEN, job.value), KEY) ELSE Saved(KEY, job.value)
        /\ job' = [job EXCEPT !.pending = TRUE, !.at = step]
        /\ UNCHANGED <<receipt, given, owed>>
    BY <1>1 DEF SaveCredential, JobAt
  <2>2. step \in {"receipt", "try", "terms"} /\ (step = "try" => job.key = TOKEN)
    OBVIOUS
  <2> HIDE DEF step
  <2>3. /\ job' \in Jobs /\ job'.at = step /\ job'.kind = job.kind /\ job'.key = job.key
        /\ job'.value = job.value /\ job'.url = job.url /\ job'.pending
    BY <2>1, <2>2 DEF Jobs, JobSteps
  <2>4. /\ claude' \in ClaudeFiles /\ claude'.ok /\ claude'.env[job.key] = job.value
        /\ job.key = TOKEN => claude'.by[KEY] # "yos"
        /\ \A q \in EnvKeys \ {job.key} : claude'.by[q] = "yos" =>
             claude'.by[q] = ClaudeRead.by[q] /\ claude'.env[q] = ClaudeRead.env[q]
    <3>1. CASE job.key = TOKEN
      <4> DEFINE c == Saved(TOKEN, job.value)
      <4>1. /\ c \in ClaudeFiles /\ c.ok /\ c.env[TOKEN] = job.value
            /\ \A q \in EnvKeys \ {TOKEN} : c.by[q] = ClaudeRead.by[q] /\ c.env[q] = ClaudeRead.env[q]
        BY <1>0, SavedFacts, KeyFacts
      <4>2. claude' = Deleted(c, KEY)
        BY <2>1, <3>1
      <4> HIDE DEF c
      <4>3. /\ claude' \in ClaudeFiles /\ claude'.ok /\ claude'.by[KEY] = "none"
            /\ \A q \in EnvKeys \ {KEY} : claude'.by[q] = c.by[q] /\ claude'.env[q] = c.env[q]
        BY <4>1, <4>2, DeletedFacts, KeyFacts
      <4> QED BY <3>1, <4>1, <4>3, KeyFacts
    <3>2. CASE job.key # TOKEN
      <4>1. job.key = KEY /\ claude' = Saved(KEY, job.value)
        BY <2>1, <3>2 DEF Jobs
      <4> QED BY <1>0, <3>2, <4>1, SavedFacts, KeyFacts
    <3> QED BY <3>1, <3>2
  <2>5. Handed' /\ Pending'
    BY <2>1, <2>2, <2>3, <2>4 DEF Handed, Pending
  <2>6. Accounted'
    <3> SUFFICES ASSUME NEW q \in EnvKeys, claude'.by[q] = "yos", q # job.key
                 PROVE  q \in owed \/ (claude'.env[q] # NoValue /\ claude'.env[q] = receipt[q])
      BY <2>1, <2>3 DEF Accounted
    <3>1. claude.ok /\ claude.by[q] = "yos" /\ claude'.env[q] = claude.env[q]
      BY <2>4, ReadFacts
    <3>2. ~job.pending
      BY <2>1 DEF Pending
    <3> QED BY <2>1, <3>1, <3>2 DEF Accounted
  <2>7. Uninstalling'
    BY <2>1, <2>2, <2>3 DEF Uninstalling, UninstallSteps, OwnValuesStay
  <2> QED BY <2>1, <2>3, <2>4, <2>5, <2>6, <2>7
<1>2. CASE TrySetupToken
  <2>1. job.at = "try" /\ job.kind = "init" /\ UNCHANGED <<receipt, given, owed, approved>>
    BY <1>2 DEF TrySetupToken, JobAt
  <2>2. job' \in Jobs /\ job'.at = "terms" /\ job'.kind = job.kind /\ job'.key = job.key
        /\ job'.value = job.value /\ job'.url = job.url /\ job'.pending \in {FALSE, job.pending}
    <3>1. "terms" \in JobSteps
      BY DEF JobSteps
    <3>2. CASE job' = [job EXCEPT !.at = "terms"]
      BY <3>1, <3>2, JobGoesFacts
    <3>3. CASE job' = [job EXCEPT !.at = "terms", !.pending = FALSE]
      BY <3>1, <3>3, JobGoesFacts
    <3> QED BY <1>2, <3>2, <3>3 DEF TrySetupToken, JobGoes
  <2>3. Uninstalling' /\ Handed'
    BY <2>1, <2>2 DEF Uninstalling, UninstallSteps, Handed
  <2>4. CASE UNCHANGED claude /\ JobGoes("terms")
    <3>1. job'.pending = job.pending
      BY <2>4, JobGoesFacts DEF JobGoes, JobSteps
    <3>2. Pending' /\ Accounted'
      BY <2>1, <2>2, <2>4, <3>1 DEF Pending, Accounted
    <3> QED BY <2>1, <2>2, <2>3, <2>4, <3>2
  <2>5. CASE /\ claude.ok /\ claude' = Deleted(claude, TOKEN)
             /\ job' = [job EXCEPT !.at = "terms", !.pending = FALSE]
    <3>1. ~job'.pending
      BY <2>5, JobGoesFacts DEF JobSteps
    <3>2. /\ claude' \in ClaudeFiles /\ claude'.ok /\ claude'.by[TOKEN] = "none"
          /\ \A q \in EnvKeys \ {TOKEN} : claude'.by[q] = claude.by[q] /\ claude'.env[q] = claude.env[q]
      BY <2>5, DeletedFacts, KeyFacts
    <3>3. Pending' /\ Accounted'
      BY <2>1, <2>2, <2>5, <3>1, <3>2 DEF Pending, Accounted
    <3> QED BY <2>1, <2>2, <2>3, <3>2, <3>3
  <2> QED BY <1>2, <2>4, <2>5 DEF TrySetupToken
<1>3. CASE PreAcceptTerms
  <2>1. /\ job.at = "terms" /\ job.kind \in {"init", "runtime"} /\ job' = [job EXCEPT !.at = "receipt"]
        /\ UNCHANGED <<receipt, given, owed, approved>>
        /\ claude' = IF job.kind = "init" /\ ~claude.terms THEN [ClaudeRead EXCEPT !.terms = TRUE] ELSE claude
    BY <1>3 DEF PreAcceptTerms, JobAt, JobGoes
  <2>2. job' \in Jobs /\ job'.at = "receipt" /\ job'.kind = job.kind /\ job'.key = job.key
        /\ job'.value = job.value /\ job'.url = job.url /\ job'.pending = job.pending
    BY <2>1, JobGoesFacts DEF JobSteps
  <2>3. /\ claude' \in ClaudeFiles
        /\ \/ claude' = claude
           \/ claude'.ok /\ claude'.by = ClaudeRead.by /\ claude'.env = ClaudeRead.env
    BY <2>1, ReadFacts DEF ClaudeFiles
  <2>4. Uninstalling' /\ Handed'
    BY <2>1, <2>2 DEF Uninstalling, UninstallSteps, Handed
  <2>5. Pending' /\ Accounted'
    BY <2>1, <2>2, <2>3, ReadFacts DEF Pending, Accounted
  <2> QED BY <2>1, <2>2, <2>3, <2>4, <2>5
<1>4. CASE SaveBaseUrl
  <2>1. job.at = "url" /\ job.kind \in {"init", "runtime"} /\ UNCHANGED <<receipt, given, owed, approved>>
    BY <1>4 DEF SaveBaseUrl, JobAt
  <2>2. CASE job.url = NoValue /\ job' = NoJob /\ UNCHANGED claude
    <3>1. Handed' /\ Pending' /\ Accounted'
      BY <2>1, <2>2, BlankFacts DEF Handed, Pending, Accounted
    <3>2. Uninstalling'
      BY <2>2, BlankFacts DEF Uninstalling, UninstallSteps
    <3> QED BY <2>1, <2>2, <3>1, <3>2, BlankFacts
  <2>3. CASE job.url # NoValue /\ job' = [job EXCEPT !.at = "url receipt"] /\ claude' = Saved(URL, job.url)
    <3>1. job' \in Jobs /\ job'.at = "url receipt" /\ job'.kind = job.kind /\ job'.key = job.key
          /\ job'.value = job.value /\ job'.url = job.url /\ job'.pending = job.pending
      BY <2>3, JobGoesFacts DEF JobSteps
    <3>2. /\ claude' \in ClaudeFiles /\ claude'.ok /\ claude'.env[URL] = job.url
          /\ \A q \in EnvKeys \ {URL} : claude'.by[q] = ClaudeRead.by[q] /\ claude'.env[q] = ClaudeRead.env[q]
      <4>1. URL \in EnvKeys
        BY KeyFacts
      <4> DEFINE c == Saved(URL, job.url)
      <4>2. /\ c \in ClaudeFiles /\ c.ok /\ c.env[URL] = job.url
            /\ \A q \in EnvKeys \ {URL} : c.by[q] = ClaudeRead.by[q] /\ c.env[q] = ClaudeRead.env[q]
        BY <1>0, <4>1, SavedFacts
      <4>3. claude' = c
        BY <2>3
      <4> HIDE DEF c
      <4> QED BY <4>2, <4>3
    <3>3. Handed' /\ Pending'
      <4>1. ~job.pending
        BY <2>1 DEF Pending
      <4> QED BY <2>1, <2>3, <3>1, <3>2, <4>1 DEF Handed, Pending
    <3>5. Accounted'
      <4> SUFFICES ASSUME NEW q \in EnvKeys, claude'.by[q] = "yos", q # URL
                   PROVE  q \in owed \/ (claude'.env[q] # NoValue /\ claude'.env[q] = receipt[q])
        BY <2>1, <3>1 DEF Accounted
      <4>1. claude.ok /\ claude.by[q] = "yos" /\ claude'.env[q] = claude.env[q]
        BY <3>2, ReadFacts
      <4>2. ~job.pending
        BY <2>1 DEF Pending
      <4> QED BY <2>1, <4>1, <4>2 DEF Accounted
    <3>4. Uninstalling'
      BY <2>1, <3>1 DEF Uninstalling, UninstallSteps
    <3> QED BY <2>1, <3>1, <3>2, <3>3, <3>4, <3>5
  <2> QED BY <1>4, <2>2, <2>3 DEF SaveBaseUrl, JobGoes
<1>5. CASE SaveFails \/ RollbackFails
  <2>1. /\ job.at \in {"save", "try"} /\ job.kind = "init" /\ SettingsFail
        /\ job' \in {[job EXCEPT !.at = "terms"], [job EXCEPT !.at = "terms", !.pending = FALSE]}
        /\ UNCHANGED <<receipt, approved, given>>
        /\ job.at = "save" => (job' = [job EXCEPT !.at = "terms"] /\ owed' = owed)
        /\ job.at = "try" => (owed' = owed \cup {TOKEN} /\ job' = [job EXCEPT !.at = "terms", !.pending = FALSE])
    BY <1>5 DEF SaveFails, RollbackFails, JobAt, JobGoes, Pending
  <2>2. job' \in Jobs /\ job'.at = "terms" /\ job'.kind = job.kind /\ job'.key = job.key
        /\ job'.value = job.value /\ job'.url = job.url /\ job'.pending \in {FALSE, job.pending}
        /\ (job.at = "try" => ~job'.pending)
    <3>1. "terms" \in JobSteps
      BY DEF JobSteps
    <3>2. CASE job' = [job EXCEPT !.at = "terms"] /\ job.at = "save"
      BY <3>1, <3>2, JobGoesFacts
    <3>3. CASE job' = [job EXCEPT !.at = "terms", !.pending = FALSE]
      BY <3>1, <3>3, JobGoesFacts
    <3> QED BY <2>1, <3>2, <3>3
  <2>3. ~job'.pending
    BY <2>1, <2>2 DEF Pending
  <2>4. claude' \in ClaudeFiles /\ claude'.env = claude.env /\ claude'.by = claude.by
        /\ (claude'.ok => claude.ok)
    BY <2>1, FailFacts
  <2>5. Handed' /\ Pending' /\ Uninstalling'
    BY <2>1, <2>2, <2>3 DEF Handed, Pending, Uninstalling, UninstallSteps
  <2>6. Accounted'
    <3> SUFFICES ASSUME claude.ok, NEW k \in EnvKeys, claude.by[k] = "yos"
                 PROVE  k \in owed' \/ (claude.env[k] # NoValue /\ claude.env[k] = receipt[k])
      BY <2>1, <2>4 DEF Accounted
    <3>1. CASE job.at = "save"
      <4>1. ~job.pending
        BY <3>1 DEF Pending
      <4> QED BY <2>1, <3>1, <4>1 DEF Accounted
    <3>2. CASE job.at = "try"
      BY <2>1, <3>2 DEF Accounted, Pending
    <3> QED BY <2>1, <3>1, <3>2
  <2> QED BY <2>1, <2>2, <2>4, <2>5, <2>6
<1> QED BY <1>1, <1>2, <1>3, <1>4, <1>5

LEMMA ReceiptStep ==
  ASSUME CredentialsInv, WriteReceipt \/ WriteUrlReceipt
  PROVE  CredentialsInv'
<1> USE DEF CredentialsInv, CredentialsTypeOK
<1>0. job.key \in EnvKeys /\ job.key \in {KEY, TOKEN} /\ job.value \in AllValues /\ job.url \in AllValues
  BY KeyFacts DEF Jobs
<1>1. CASE WriteReceipt
  <2>1. /\ job.at = "receipt" /\ job.kind \in {"init", "runtime"}
        /\ job' = [job EXCEPT !.at = "url", !.pending = FALSE]
        /\ UNCHANGED <<claude, approved, given>>
    BY <1>1 DEF WriteReceipt, JobAt
  <2>2. job' \in Jobs /\ job'.at = "url" /\ job'.kind = job.kind /\ job'.value = job.value
        /\ job'.url = job.url /\ ~job'.pending
    BY <2>1, JobGoesFacts DEF JobSteps
  <2>3. Uninstalling' /\ Pending'
    BY <2>1, <2>2 DEF Uninstalling, UninstallSteps, Pending
  <2>4. CASE ~job.pending /\ UNCHANGED <<receipt, owed>>
    BY <2>1, <2>2, <2>3, <2>4 DEF Handed, Accounted
  <2>5. CASE job.pending /\ receipt' = WithReceipt /\ owed' = owed \ {job.key}
    <3>1. /\ receipt' \in [EnvKeys -> AllValues] /\ receipt'[job.key] = job.value
          /\ receipt'[URL] = receipt[URL]
          /\ job.key = TOKEN => receipt'[KEY] = NoValue
          /\ job.key = KEY => receipt'[TOKEN] = receipt[TOKEN]
      BY <1>0, <2>5, KeyFacts DEF WithReceipt, AllValues
    <3>2. Handed'
      BY <1>0, <2>1, <2>2, <3>1, KeyFacts DEF Handed
    <3>3. Accounted'
      BY <1>0, <2>1, <2>2, <2>5, <3>1, KeyFacts DEF Accounted, Pending
    <3> QED BY <2>1, <2>2, <2>3, <3>1, <3>2, <3>3
  <2>6. CASE job.pending /\ owed' = owed \cup {job.key} /\ UNCHANGED receipt
    BY <2>1, <2>2, <2>3, <2>6 DEF Handed, Accounted
  <2> QED BY <1>1, <2>4, <2>5, <2>6 DEF WriteReceipt
<1>2. CASE WriteUrlReceipt
  <2>1. /\ job.at = "url receipt" /\ job.kind \in {"init", "runtime"} /\ job' = NoJob
        /\ UNCHANGED <<claude, approved, given>>
    BY <1>2 DEF WriteUrlReceipt, JobAt
  <2>2. Uninstalling' /\ Pending'
    BY <2>1, BlankFacts DEF Uninstalling, UninstallSteps, Pending
  <2>3. CASE receipt' = [receipt EXCEPT ![URL] = job.url] /\ owed' = owed \ {URL}
    <3>1. /\ receipt' \in [EnvKeys -> AllValues] /\ receipt'[URL] = job.url
          /\ receipt'[KEY] = receipt[KEY] /\ receipt'[TOKEN] = receipt[TOKEN]
      BY <1>0, <2>3, KeyFacts
    <3>2. Handed'
      BY <2>1, <3>1, KeyFacts, BlankFacts DEF Handed
    <3>3. ~job.pending /\ job.url # NoValue /\ (claude.by[URL] = "yos" => claude.env[URL] = job.url)
      BY <2>1 DEF Pending
    <3>4. Accounted'
      BY ZenonT(60), <2>1, <2>3, <3>1, <3>3, KeyFacts, BlankFacts DEF Accounted
    <3> QED BY <2>1, <2>2, <3>1, <3>2, <3>4, BlankFacts
  <2>4. CASE owed' = owed \cup {URL} /\ UNCHANGED receipt
    BY <2>1, <2>2, <2>4, BlankFacts DEF Handed, Accounted, Pending
  <2> QED BY <1>2, <2>3, <2>4 DEF WriteUrlReceipt
<1> QED BY <1>1, <1>2

LEMMA UninstallStep ==
  ASSUME CredentialsInv, ReclaimCredentials \/ ReclaimFails \/ ForgetApproved \/ FinishUninstall
  PROVE  CredentialsInv'
<1> USE DEF CredentialsInv, CredentialsTypeOK
<1>1. CASE ReclaimCredentials
  <2>1. /\ job.kind = "uninstall" /\ job.at = "reclaim" /\ job.before = claude /\ ~job.pending
        /\ job.taken = {} /\ job.failed = {}
        /\ UNCHANGED <<receipt, approved, given, owed>>
    BY <1>1 DEF ReclaimCredentials, JobAt, Uninstalling, Pending
  <2>2. CASE ~claude.ok /\ job' = [job EXCEPT !.at = "forget"] /\ UNCHANGED claude
    <3>1. job' \in Jobs /\ job'.at = "forget" /\ job'.kind = job.kind /\ job'.key = job.key
          /\ job'.value = job.value /\ job'.url = job.url /\ job'.pending = job.pending
          /\ job'.taken = {} /\ job'.failed = {}
      BY <2>1, <2>2, JobGoesFacts DEF JobSteps, UninstallSteps
    <3>2. Handed' /\ Pending' /\ Accounted'
      BY <2>1, <2>2, <3>1 DEF Handed, Pending, Accounted
    <3>3. Uninstalling'
      BY <2>1, <2>2, <3>1 DEF Uninstalling, UninstallSteps
    <3> QED BY <2>1, <2>2, <3>1, <3>2, <3>3
  <2>3. CASE claude.ok
    <3> DEFINE e == [k \in EnvKeys |-> IF k \in Reclaimed THEN NoValue ELSE claude.env[k]]
               b == [k \in EnvKeys |-> IF k \in Reclaimed THEN "none" ELSE claude.by[k]]
    <3>1. /\ claude' = [claude EXCEPT !.env = e, !.by = b]
          /\ job' = [job EXCEPT !.at = "forget", !.taken = Reclaimed]
      BY <1>1, <2>3 DEF ReclaimCredentials, WithoutReclaimed, ClaudeFiles
    <3>2. /\ e \in [EnvKeys -> AllValues] /\ b \in [EnvKeys -> {"none", "yos", "user"}]
          /\ Reclaimed \subseteq EnvKeys
      BY DEF ClaudeFiles, AllValues, Reclaimed
    <3>3. \A k \in EnvKeys :
            /\ k \in Reclaimed <=> claude.env[k] # NoValue /\ claude.env[k] = receipt[k]
            /\ e[k] = IF k \in Reclaimed THEN NoValue ELSE claude.env[k]
            /\ b[k] = IF k \in Reclaimed THEN "none" ELSE claude.by[k]
      BY DEF Reclaimed
    <3> HIDE DEF e, b
    <3>4. claude' \in ClaudeFiles /\ claude'.ok /\ claude'.env = e /\ claude'.by = b
      BY <2>3, <3>1, <3>2 DEF ClaudeFiles
    <3>5. job' \in Jobs /\ job'.at = "forget" /\ job'.kind = job.kind /\ job'.key = job.key
          /\ job'.value = job.value /\ job'.url = job.url /\ ~job'.pending /\ job'.before = claude
          /\ job'.taken = Reclaimed /\ job'.failed = {}
      BY <2>1, <3>1, <3>2 DEF Jobs, JobSteps, UninstallSteps
    <3>6. Handed' /\ Pending'
      BY <2>1, <3>5 DEF Handed, Pending
    <3>7. \A k \in EnvKeys : claude'.by[k] = "yos" => k \in owed'
      BY <2>1, <2>3, <3>3, <3>4 DEF Accounted
    <3>8. OwnValuesStay'
      <4> SUFFICES ASSUME NEW k \in EnvKeys, claude.by[k] = "user", claude.env[k] \notin given
                   PROVE  e[k] = claude.env[k]
        BY <2>1, <3>4, <3>5 DEF OwnValuesStay
      <4> QED BY <3>3 DEF Handed
    <3>9. \A k \in job'.taken : claude'.env[k] = NoValue
      BY <3>2, <3>3, <3>4, <3>5
    <3>10. ReclaimsAll' /\ Accounted'
      BY <3>7 DEF ReclaimsAll, Accounted
    <3>11. Uninstalling'
      BY <2>1, <3>5, <3>8, <3>9, <3>10 DEF Uninstalling, UninstallSteps
    <3> QED BY <2>1, <3>4, <3>5, <3>6, <3>10, <3>11
  <2> QED BY <1>1, <2>2, <2>3 DEF ReclaimCredentials, JobGoes
<1>4. CASE ReclaimFails
  <2>1. /\ job.kind = "uninstall" /\ job.at = "reclaim" /\ job.before = claude /\ ~job.pending
        /\ job.taken = {} /\ SettingsFail /\ claude.ok
        /\ job' = [job EXCEPT !.at = "forget", !.failed = {"settings"}]
        /\ UNCHANGED <<receipt, approved, given, owed>>
    BY <1>4 DEF ReclaimFails, JobAt, Uninstalling, Pending
  <2>2. job' \in Jobs /\ job'.at = "forget" /\ job'.kind = job.kind /\ job'.key = job.key
        /\ job'.value = job.value /\ job'.url = job.url /\ ~job'.pending /\ job'.before = claude
        /\ job'.taken = {} /\ job'.failed = {"settings"}
    <3>1. "forget" \in JobSteps /\ {"settings"} \in SUBSET {"settings", "approvals"} /\ job \in Jobs
      BY DEF JobSteps, UninstallSteps
    <3> QED BY <2>1, <3>1 DEF Jobs
  <2>3. claude' \in ClaudeFiles /\ claude'.env = claude.env /\ claude'.by = claude.by
    BY <2>1, FailFacts
  <2>4. Handed' /\ Pending'
    BY <2>1, <2>2 DEF Handed, Pending
  <2>5. \A k \in EnvKeys : claude.by[k] = "yos" => k \in owed \/ claude.env[k] = receipt[k]
    BY <2>1 DEF Accounted
  <2>6. Accounted'
    BY <2>1, <2>3 DEF Accounted
  <2>7. OwnValuesStay' /\ ReclaimsAll'
    BY <2>1, <2>2, <2>3, <2>5 DEF OwnValuesStay, ReclaimsAll
  <2>8. Uninstalling'
    BY <2>1, <2>2, <2>7 DEF Uninstalling, UninstallSteps
  <2> QED BY <2>1, <2>2, <2>3, <2>4, <2>6, <2>8
<1>2. CASE ForgetApproved
  <2>1. /\ job.kind = "uninstall" /\ job.at = "forget" /\ UNCHANGED <<claude, receipt, given, owed>>
        /\ \/ job' = [job EXCEPT !.at = "reclaimed"] /\ approved' = approved \ TakenValues
           \/ job' = [job EXCEPT !.at = "reclaimed", !.failed = @ \cup {"approvals"}] /\ UNCHANGED approved
    BY <1>2 DEF ForgetApproved, JobAt, JobGoes
  <2>2. job' \in Jobs /\ job'.at = "reclaimed" /\ job'.kind = job.kind /\ job'.key = job.key
        /\ job'.value = job.value /\ job'.url = job.url /\ job'.pending = job.pending
        /\ job'.before = job.before /\ job'.taken = job.taken
        /\ \/ job'.failed = job.failed /\ approved' = approved \ TakenValues
           \/ job'.failed = job.failed \cup {"approvals"}
    <3>1. "reclaimed" \in JobSteps /\ job \in Jobs /\ job.failed \cup {"approvals"} \in SUBSET {"settings", "approvals"}
      BY DEF Jobs, JobSteps, UninstallSteps
    <3>2. CASE job' = [job EXCEPT !.at = "reclaimed"] /\ approved' = approved \ TakenValues
      BY <3>1, <3>2 DEF Jobs
    <3>3. CASE job' = [job EXCEPT !.at = "reclaimed", !.failed = @ \cup {"approvals"}]
      <4> DEFINE named == job.failed \cup {"approvals"}
      <4>1. job' = [job EXCEPT !.at = "reclaimed", !.failed = named] /\ named \in SUBSET {"settings", "approvals"}
        BY <3>1, <3>3
      <4> HIDE DEF named
      <4>2. /\ job' \in Jobs /\ job'.at = "reclaimed" /\ job'.kind = job.kind /\ job'.key = job.key
            /\ job'.value = job.value /\ job'.url = job.url /\ job'.pending = job.pending
            /\ job'.before = job.before /\ job'.taken = job.taken /\ job'.failed = named
        BY <3>1, <4>1 DEF Jobs
      <4> QED BY <4>2 DEF named
    <3> QED BY <2>1, <3>2, <3>3
  <2>3. Handed' /\ Pending' /\ Accounted'
    BY <2>1, <2>2 DEF Handed, Pending, Accounted
  <2>4. ("settings" \in job'.failed <=> "settings" \in job.failed) /\ TakenValues' = TakenValues
    BY <2>2 DEF TakenValues
  <2>5. job'.failed = {} => TakenValues' \cap approved' = {}
    BY <2>2, <2>4
  <2>6. claude.ok => OwnValuesStay' /\ ReclaimsAll' /\ \A k \in job'.taken : claude'.env[k] = NoValue
    BY <2>1, <2>2, <2>4 DEF Uninstalling, OwnValuesStay, ReclaimsAll
  <2>7. Uninstalling'
    BY <2>1, <2>2, <2>4, <2>5, <2>6 DEF Uninstalling, UninstallSteps
  <2> QED BY <2>1, <2>2, <2>3, <2>7
<1>3. CASE FinishUninstall
  <2>1. /\ job.kind = "uninstall" /\ job.at = "reclaimed" /\ job' = NoJob /\ ~job.pending
        /\ UNCHANGED <<approved, given>>
    BY <1>3 DEF FinishUninstall, JobAt, Pending
  <2>2. PICK removeClaude, removeData \in BOOLEAN :
          /\ claude' = IF removeClaude THEN Blank ELSE claude
          /\ receipt' = IF removeData THEN Nothing ELSE receipt
          /\ owed' = IF removeClaude THEN {} ELSE IF removeData THEN EnvKeys ELSE owed
    BY <1>3 DEF FinishUninstall
  <2>3. claude' \in ClaudeFiles /\ receipt' \in [EnvKeys -> AllValues]
    BY <2>2, BlankFacts
  <2>4. Handed' /\ Pending' /\ Uninstalling'
    BY <2>1, <2>2, BlankFacts DEF Handed, Pending, Uninstalling, UninstallSteps
  <2>5. Accounted'
    BY <2>1, <2>2, BlankFacts DEF Accounted
  <2> QED BY <2>1, <2>3, <2>4, <2>5, BlankFacts
<1> QED BY <1>1, <1>2, <1>3, <1>4

LEMMA OwnStep ==
  ASSUME CredentialsInv, OwnSetting \/ OwnReceipt \/ LaunchApproves \/ JobDies
  PROVE  CredentialsInv'
<1> USE DEF CredentialsInv, CredentialsTypeOK
<1>1. CASE OwnSetting
  <2>1. claude.ok /\ job.kind # "uninstall" /\ UNCHANGED <<receipt, approved, job, given, owed>>
    BY <1>1 DEF OwnSetting
  <2>2. PICK k \in EnvKeys : \/ claude' = [claude EXCEPT !.env[k] = Own, !.by[k] = "user"]
                             \/ claude' = Deleted(claude, k)
    BY <1>1 DEF OwnSetting
  <2>3. /\ claude' \in ClaudeFiles /\ claude'.ok /\ claude'.by[k] # "yos"
        /\ \A q \in EnvKeys \ {k} : claude'.by[q] = claude.by[q] /\ claude'.env[q] = claude.env[q]
    <3>1. CASE claude' = [claude EXCEPT !.env[k] = Own, !.by[k] = "user"]
      <4> DEFINE e == [claude.env EXCEPT ![k] = Own]
                 b == [claude.by EXCEPT ![k] = "user"]
      <4>1. claude' = [claude EXCEPT !.env = e, !.by = b]
        BY <3>1 DEF ClaudeFiles
      <4>2. /\ e \in [EnvKeys -> AllValues] /\ b \in [EnvKeys -> {"none", "yos", "user"}] /\ b[k] = "user"
            /\ \A q \in EnvKeys \ {k} : e[q] = claude.env[q] /\ b[q] = claude.by[q]
        BY DEF ClaudeFiles, AllValues
      <4> HIDE DEF e, b
      <4>3. claude' \in ClaudeFiles /\ claude'.ok /\ claude'.env = e /\ claude'.by = b
        BY <2>1, <4>1, <4>2 DEF ClaudeFiles
      <4> QED BY <4>2, <4>3
    <3>2. CASE claude' = Deleted(claude, k)
      BY <2>1, <3>2, DeletedFacts
    <3> QED BY <2>2, <3>1, <3>2
  <2>4. Handed' /\ Pending'
    BY <2>1, <2>3, KeyFacts DEF Handed, Pending, Jobs
  <2>5. Accounted'
    BY <2>1, <2>3 DEF Accounted
  <2>6. Uninstalling'
    BY <2>1 DEF Uninstalling, UninstallSteps
  <2> QED BY <2>1, <2>3, <2>4, <2>5, <2>6
<1>2. CASE OwnReceipt
  <2>1. PICK k \in EnvKeys, v \in {Own, NoValue} :
          /\ receipt' = [receipt EXCEPT ![k] = v] /\ owed' = owed \cup {k}
          /\ given' = given \cup ({v} \ {NoValue})
    BY <1>2 DEF OwnReceipt
  <2>2. job.kind # "uninstall" /\ UNCHANGED <<claude, approved, job>>
    BY <1>2 DEF OwnReceipt
  <2>3. /\ receipt' \in [EnvKeys -> AllValues] /\ given' \subseteq AllValues /\ receipt'[k] = v
        /\ \A q \in EnvKeys \ {k} : receipt'[q] = receipt[q]
    BY <2>1 DEF AllValues
  <2>4. Handed'
    BY <2>1, <2>2, <2>3 DEF Handed
  <2>5. Pending' /\ Accounted' /\ Uninstalling'
    BY <2>1, <2>2, <2>3 DEF Pending, Accounted, Uninstalling, UninstallSteps
  <2> QED BY <2>2, <2>3, <2>4, <2>5
<1>3. CASE LaunchApproves
  <2>1. /\ job = NoJob /\ UNCHANGED <<receipt, job, given, owed>>
        /\ claude' = IF claude.terms THEN claude ELSE [ClaudeRead EXCEPT !.terms = TRUE]
    BY <1>3 DEF LaunchApproves
  <2>2. /\ claude' \in ClaudeFiles
        /\ \/ claude' = claude
           \/ claude'.ok /\ claude'.by = ClaudeRead.by /\ claude'.env = ClaudeRead.env
    BY <2>1, ReadFacts DEF ClaudeFiles
  <2>3. Handed' /\ Pending' /\ Uninstalling'
    BY <2>1, BlankFacts DEF Handed, Pending, Uninstalling, UninstallSteps
  <2>4. Accounted'
    BY <2>1, <2>2, ReadFacts DEF Accounted
  <2> QED BY <2>1, <2>2, <2>3, <2>4
<1>4. CASE JobDies
  <2>1. /\ job' = NoJob /\ UNCHANGED <<receipt, approved, given>>
        /\ owed' = owed \cup (IF job.pending THEN {job.key} ELSE {})
                        \cup (IF job.at = "url receipt" THEN {URL} ELSE {})
    BY <1>4 DEF JobDies
  <2>2. PICK ok \in BOOLEAN : claude' = [claude EXCEPT !.ok = ok] /\ (ok => claude.ok)
    <3>1. PICK torn \in BOOLEAN :
            claude' = [claude EXCEPT !.ok = @ /\ ~(torn /\ job.at \in {"save", "try", "terms", "url", "reclaim"})]
      BY <1>4 DEF JobDies
    <3>2. claude' = [claude EXCEPT !.ok = claude.ok /\ ~(torn /\ job.at \in {"save", "try", "terms", "url", "reclaim"})]
      BY <3>1 DEF ClaudeFiles
    <3>3. (claude.ok /\ ~(torn /\ job.at \in {"save", "try", "terms", "url", "reclaim"})) \in BOOLEAN
      BY DEF ClaudeFiles
    <3> QED BY <3>2, <3>3
  <2>3. claude' \in ClaudeFiles /\ claude'.env = claude.env /\ claude'.by = claude.by /\ (claude'.ok => claude.ok)
    BY <2>2 DEF ClaudeFiles
  <2>4. Handed' /\ Pending' /\ Uninstalling'
    BY <2>1, BlankFacts DEF Handed, Pending, Uninstalling, UninstallSteps
  <2>5. Accounted'
    BY <2>1, <2>3 DEF Accounted
  <2> QED BY <2>1, <2>3, <2>4, <2>5, BlankFacts
<1> QED BY <1>1, <1>2, <1>3, <1>4

\* However runs of init, of a switch and of the uninstall follow each other, die between
\* the two files and fail to write any of them, and whatever the user changes in either:
\* an uninstall leaves every value that is the user's alone, takes back what YOS wrote
\* last and has a receipt of, or leaves it with that receipt when the settings cannot be
\* written, and says that it took what it took (saveApiKey, reclaimClaudeCredentials,
\* forgetApprovedCredentials).
THEOREM ReclaimIsExactCorrect ==
  CredentialsSpec => []ReclaimIsExact
<1>1. CredentialsInit => CredentialsInv
  <2> SUFFICES ASSUME CredentialsInit PROVE CredentialsInv
    OBVIOUS
  <2>1. claude = Blank /\ receipt = Nothing /\ job = NoJob /\ given = {} /\ owed = {}
    BY DEF CredentialsInit
  <2>2. CredentialsTypeOK /\ Handed
    BY <2>1, BlankFacts DEF CredentialsTypeOK, Handed
  <2>3. Pending /\ Accounted /\ Uninstalling
    BY <2>1, BlankFacts DEF Pending, Accounted, Uninstalling, UninstallSteps
  <2> QED BY <2>2, <2>3 DEF CredentialsInv
<1>2. CredentialsInv /\ [CredentialsNext]_credentialVars => CredentialsInv'
  <2> SUFFICES ASSUME CredentialsInv, [CredentialsNext]_credentialVars PROVE CredentialsInv'
    OBVIOUS
  <2>1. CASE UNCHANGED credentialVars
    BY ZenonT(60), <2>1 DEF credentialVars, CredentialsInv, CredentialsTypeOK, Handed, Pending, Accounted, Uninstalling,
       OwnValuesStay, ReclaimsAll, TakenValues
  <2>2. CASE CredentialsNext
    BY <2>2, StartStep, SettingsStep, ReceiptStep, UninstallStep, OwnStep DEF CredentialsNext
  <2> QED BY <2>1, <2>2
<1>3. CredentialsInv => ReclaimIsExact
  BY DEF CredentialsInv, Uninstalling, ReclaimIsExact, SaysWhatItTook
<1> QED BY <1>1, <1>2, <1>3, PTL DEF CredentialsSpec

-----------------------------------------------------------------------------
(* The start of a session *)

\* How long a place waits at most: its rung of the ladder.
Rung(p) == (p - 1) * Link
AllRungs == Len(Chain) * Link

SessionTypeOK ==
  /\ tick \in Nat \ {0} /\ round \in Nat /\ begun \in Nat /\ begun <= tick /\ slow \in BOOLEAN
  /\ shard \in [Places -> [at : {"none", "waiting", "emitting"}, since : Nat]]
  /\ flag \in [Places -> Nat]
  /\ printed \in Seq(Places)

\* No process waits longer than its rung, or is at work longer than a quick one.
Timed ==
  \A p \in Places :
    /\ shard[p].at = "waiting" =>
         /\ begun <= shard[p].since /\ shard[p].since <= begun + Skew
         /\ tick <= shard[p].since + Rung(p)
    /\ shard[p].at = "emitting" =>
         tick <= shard[p].since + Quick /\ shard[p].since <= begun + Skew + Rung(p)

\* A flag is of an earlier round and too old for this one, or it says that all places up
\* to its own have ended.
FlagsTell ==
  \A p \in Places :
    \/ flag[p] = 0
    \/ flag[p] + Tolerance < begun
    \/ /\ flag[p] <= begun + Skew + Rung(p) + Quick
       /\ \A q \in 1 .. p : shard[q].at = "none"

\* When a place is at work, or has printed, those before it have ended.
InTurn ==
  /\ \A p \in Places : shard[p].at = "emitting" => \A q \in 1 .. (p - 1) : shard[q].at = "none"
  /\ \A i \in DOMAIN printed : \A q \in 1 .. printed[i] : shard[q].at = "none"

SessionInv ==
  /\ SessionTypeOK
  /\ round = 0 => \A p \in Places : flag[p] = 0 /\ shard[p].at = "none"
  /\ ~slow => Timed /\ FlagsTell /\ InTurn /\ SurvivorsInOrder

LEMMA AcceptedFacts ==
  IsFiniteSet(AcceptedShards) /\ Cardinality(AcceptedShards) <= Len(Declarations)
<1> DEFINE D == {i \in DOMAIN Declarations : ~RefusedShard(i)}
           f == [i \in D |-> Declarations[i]]
<1>1. Declarations \in Seq([name : STRING, order : Int])
  BY SessionAssumption
<1>2. IsFiniteSet(1 .. Len(Declarations)) /\ Cardinality(1 .. Len(Declarations)) = Len(Declarations)
  <2> DEFINE m == Len(Declarations)
  <2>1. m \in Nat
    BY <1>1
  <2> HIDE DEF m, D, f
  <2>2. 1 \in Int /\ m \in Int
    BY <2>1
  <2>3. IsFiniteSet(1 .. m) /\ Cardinality(1 .. m) = IF 1 > m THEN 0 ELSE m - 1 + 1
    BY <2>2, FS_Interval
  <2>4. Cardinality(1 .. m) = m
    BY <2>1, <2>3
  <2> QED BY <2>3, <2>4 DEF m
<1>3. D \subseteq 1 .. Len(Declarations)
  BY <1>1
<1>4. IsFiniteSet(D) /\ Cardinality(D) <= Len(Declarations)
  BY <1>2, <1>3, FS_Subset
<1>5. AcceptedShards = {Declarations[i] : i \in D}
  BY DEF AcceptedShards
<1> HIDE DEF D
<1>6. f \in Surjection(D, AcceptedShards)
  BY <1>5 DEF Surjection
<1>7. IsFiniteSet(AcceptedShards) /\ Cardinality(AcceptedShards) <= Cardinality(D)
  BY <1>4, <1>6, FS_Surjection
<1>8. Cardinality(AcceptedShards) \in Nat /\ Cardinality(D) \in Nat /\ Len(Declarations) \in Nat
  BY <1>1, <1>4, <1>7, FS_CardinalityType
<1> QED BY <1>4, <1>7, <1>8

LEMMA ChainFacts ==
  /\ Len(Chain) \in Nat /\ Len(Chain) <= Len(CoreShards) + Len(Declarations)
  /\ Places = 1 .. (Len(Chain) + 1) /\ Prompt = Len(Chain) + 1
<1> DEFINE n == Cardinality(AcceptedShards)
           s == SetToSortSeq(AcceptedShards, LAMBDA a, b: a.order < b.order)
           rest == [i \in 1 .. n |-> s[i].name]
<1>1. n \in Nat /\ n <= Len(Declarations)
  BY AcceptedFacts, FS_CardinalityType
<1>2. Chain = CoreShards \o rest
  BY DEF Chain
<1> HIDE DEF n, s
<1>3. rest \in Seq({rest[i] : i \in 1 .. n}) /\ Len(rest) = n
  BY <1>1
<1> HIDE DEF rest
<1>4. Len(CoreShards) \in Nat /\ CoreShards \in Seq(STRING) /\ Len(Declarations) \in Nat
  BY SessionAssumption
<1>5. Len(Chain) = Len(CoreShards) + n
  <2> DEFINE S == STRING \cup {rest[i] : i \in 1 .. n}
  <2>1. CoreShards \in Seq(S) /\ rest \in Seq(S)
    BY <1>3, <1>4
  <2> HIDE DEF S
  <2>2. Len(CoreShards \o rest) = Len(CoreShards) + Len(rest)
    BY <2>1
  <2> QED BY <1>2, <1>3, <2>2
<1> QED BY <1>1, <1>4, <1>5 DEF Places, Prompt

LEMMA RungFacts ==
  /\ Link \in Nat /\ Quick \in Nat /\ Skew \in Nat /\ Tolerance \in Nat /\ Gap \in Nat
  /\ Quick + Skew < Link
  /\ \A p \in Places : /\ p \in Nat /\ p >= 1 /\ Rung(p) \in Nat
                       /\ Rung(p) + Skew + Quick + Tolerance <= Gap
  /\ \A p \in Places : \A q \in 1 .. (p - 1) : q \in Places /\ Rung(q) + Link <= Rung(p)
<1>1. /\ Link \in Nat /\ Quick \in Nat /\ Skew \in Nat /\ Tolerance \in Nat /\ Gap \in Nat
      /\ Quick + Skew < Link
      /\ Gap >= (Len(CoreShards) + Len(Declarations)) * Link + Skew + Quick + Tolerance
      /\ Len(CoreShards) \in Nat /\ Len(Declarations) \in Nat
  BY SessionAssumption
<1>2. \A a, b, l \in Nat : a <= b => a * l \in Nat /\ b * l \in Nat /\ a * l <= b * l
  <2> SUFFICES ASSUME NEW a \in Nat, NEW b \in Nat, NEW l \in Nat, a <= b
               PROVE  a * l \in Nat /\ b * l \in Nat /\ a * l <= b * l
    OBVIOUS
  <2>1. PICK c \in Nat : b = a + c
    <3>1. b - a \in Nat /\ b = a + (b - a)
      OBVIOUS
    <3> QED BY <3>1
  <2>2. b * l = a * l + c * l /\ c * l \in Nat /\ a * l \in Nat
    BY <2>1
  <2> QED BY <2>2
<1>3. \A a, l \in Nat : (a + 1) * l = a * l + l
  OBVIOUS
<1>4. ASSUME NEW p \in Places
      PROVE  p \in Nat /\ p >= 1 /\ Rung(p) \in Nat /\ Rung(p) + Skew + Quick + Tolerance <= Gap
  <2> DEFINE n == Len(CoreShards) + Len(Declarations)
  <2>1. p \in Nat /\ p >= 1 /\ p - 1 \in Nat /\ p - 1 <= n /\ n \in Nat
    BY <1>1, ChainFacts
  <2>2. (p - 1) * Link \in Nat /\ n * Link \in Nat /\ (p - 1) * Link <= n * Link
    BY <1>1, <1>2, <2>1
  <2>3. Gap >= n * Link + Skew + Quick + Tolerance
    BY <1>1
  <2> HIDE DEF n
  <2> DEFINE x == (p - 1) * Link
             y == n * Link
  <2>4. x \in Nat /\ y \in Nat /\ x <= y /\ Gap >= y + Skew + Quick + Tolerance
    BY <2>2, <2>3
  <2> HIDE DEF x, y
  <2>5. x + Skew + Quick + Tolerance <= Gap
    BY <1>1, <2>4
  <2> QED BY <2>1, <2>4, <2>5 DEF x, Rung
<1>5. ASSUME NEW p \in Places, NEW q \in 1 .. (p - 1)
      PROVE  q \in Places /\ Rung(q) + Link <= Rung(p)
  <2>1. p \in Nat /\ q \in Nat /\ q >= 1 /\ q <= p - 1 /\ q - 1 \in Nat /\ p - 1 \in Nat /\ q \in Places
    BY <1>4, ChainFacts
  <2>2. q * Link <= (p - 1) * Link
    BY <1>1, <1>2, <2>1
  <2>3. q * Link = (q - 1) * Link + Link
    BY <1>1, <1>3, <2>1
  <2> QED BY <2>1, <2>2, <2>3 DEF Rung
<1> QED BY <1>1, <1>4, <1>5

\* A new round: what flags there are, are older than any of its processes.
LEMMA RoundStep ==
  ASSUME SessionInv, BeginRound
  PROVE  SessionInv'
<1> USE DEF SessionInv, SessionTypeOK
<1>1. /\ begun' = tick /\ printed' = <<>> /\ UNCHANGED <<tick, flag, slow>>
      /\ round' = round + 1 /\ (round = 0 \/ tick > begun + Gap)
  BY DEF BeginRound
<1>2. PICK dead \in SUBSET Places, delay \in [Places -> 0 .. Skew] :
        shard' = [p \in Places |->
                    IF p \in dead \/ (p = Prompt /\ round > 0) THEN NotRunning
                    ELSE [at |-> "waiting", since |-> tick + delay[p]]]
  BY DEF BeginRound
<1>3. \A p \in Places : /\ tick + delay[p] \in Nat /\ tick <= tick + delay[p] /\ tick + delay[p] <= tick + Skew
  BY SMTT(30), RungFacts
<1>4. NotRunning \in [at : {"none", "waiting", "emitting"}, since : Nat] /\ NotRunning.at = "none"
  BY DEF NotRunning
<1>5. \A p \in Places :
        \/ shard'[p].at = "none" /\ shard'[p] \in [at : {"none", "waiting", "emitting"}, since : Nat]
        \/ /\ shard'[p].at = "waiting" /\ shard'[p].since = tick + delay[p]
           /\ shard'[p] \in [at : {"none", "waiting", "emitting"}, since : Nat]
  BY <1>2, <1>3, <1>4
<1>6. SessionTypeOK' /\ round' # 0
  <2>1. shard' \in [Places -> [at : {"none", "waiting", "emitting"}, since : Nat]]
    BY <1>2, <1>5
  <2>2. printed' \in Seq(Places)
    BY <1>1
  <2> QED BY <1>1, <2>1, <2>2
<1>7. Timed'
  <2> SUFFICES ASSUME NEW p \in Places, shard'[p].at # "none"
               PROVE  /\ shard'[p].at = "waiting"
                      /\ tick <= shard'[p].since /\ shard'[p].since <= tick + Skew
                      /\ tick <= shard'[p].since + Rung(p)
    BY <1>1, <1>5 DEF Timed
  <2>1. shard'[p].at = "waiting" /\ shard'[p].since = tick + delay[p]
    BY <1>5
  <2>2. Rung(p) \in Nat
    BY RungFacts
  <2> DEFINE t == tick + delay[p]
  <2>3. t \in Nat /\ tick <= t /\ t <= tick + Skew
    BY <1>3
  <2> HIDE DEF t
  <2>4. tick <= t + Rung(p)
    BY <2>2, <2>3
  <2> QED BY <2>1, <2>3, <2>4 DEF t
<1>8. ~slow => FlagsTell'
  <2> SUFFICES ASSUME ~slow, NEW p \in Places, flag[p] # 0
               PROVE  flag[p] + Tolerance < tick
    BY <1>1 DEF FlagsTell
  <2>1. flag[p] \in Nat /\ tick > begun + Gap
    BY <1>1
  <2>2. flag[p] + Tolerance < begun \/ flag[p] <= begun + Skew + Rung(p) + Quick
    BY DEF FlagsTell
  <2> QED BY SMTT(30), <2>1, <2>2, RungFacts
<1>9. InTurn' /\ SurvivorsInOrder'
  <2>1. DOMAIN printed' = {}
    BY <1>1
  <2>2. \A p \in Places : shard'[p].at # "emitting"
    BY <1>5
  <2> HIDE DEF SessionInv, SessionTypeOK
  <2> QED BY <2>1, <2>2 DEF InTurn, SurvivorsInOrder
<1> QED BY <1>1, <1>6, <1>7, <1>8, <1>9

\* Who is released has all before it behind it.
LEMMA ReleasedAlone ==
  ASSUME SessionInv, ~slow, NEW p \in Places, Released(p), NEW q \in 1 .. (p - 1)
  PROVE  shard[q].at = "none"
<1> USE DEF SessionInv, SessionTypeOK
<1>0. /\ Link \in Nat /\ Quick \in Nat /\ Skew \in Nat /\ Tolerance \in Nat
      /\ Quick + Skew < Link
  BY RungFacts
<1>1. q \in Places /\ Rung(q) + Link <= Rung(p) /\ Rung(p) \in Nat /\ Rung(q) \in Nat
  BY RungFacts
<1>2. shard[p].at = "waiting" /\ begun <= shard[p].since /\ shard[p].since \in Nat
  BY DEF Released, Timed
<1>5. tick \in Nat /\ begun \in Nat
  OBVIOUS
<1>3. CASE RungReached(p)
  <2>1. tick >= shard[p].since + Rung(p)
    <3> HIDE DEF SessionInv, SessionTypeOK
    <3> QED BY <1>3 DEF RungReached, Rung
  <2>2. shard[q].since \in Nat /\ shard[q].at \in {"none", "waiting", "emitting"}
    BY <1>1
  <2>3. shard[q].at = "waiting" => tick <= begun + Skew + Rung(q)
    <3>1. ASSUME shard[q].at = "waiting"
          PROVE  tick <= shard[q].since + Rung(q) /\ shard[q].since <= begun + Skew
      BY <1>1, <3>1 DEF Timed
    <3> QED BY <1>0, <1>1, <2>2, <3>1
  <2>4. shard[q].at = "emitting" => tick <= begun + Skew + Rung(q) + Quick
    <3>1. ASSUME shard[q].at = "emitting"
          PROVE  tick <= shard[q].since + Quick /\ shard[q].since <= begun + Skew + Rung(q)
      BY <1>1, <3>1 DEF Timed
    <3> QED BY <1>0, <1>1, <2>2, <3>1
  <2>5. tick >= begun + Rung(q) + Link
    BY SMTT(30), <1>0, <1>1, <1>2, <2>1
  <2> HIDE DEF SessionInv, SessionTypeOK
  <2>6. tick > begun + Skew + Rung(q) /\ tick > begun + Skew + Rung(q) + Quick
    BY <1>0, <1>1, <1>5, <2>5
  <2>7. shard[q].at # "waiting"
    BY <1>0, <1>1, <1>5, <2>3, <2>6
  <2>8. shard[q].at # "emitting"
    BY <1>0, <1>1, <1>5, <2>4, <2>6
  <2> QED BY <2>2, <2>7, <2>8
<1>4. CASE Fresh(p)
  <2>1. p # 1 /\ p - 1 \in Places /\ q \in 1 .. (p - 1) /\ p \in Nat
    <3> HIDE DEF SessionInv, SessionTypeOK
    <3>1. p \in 1 .. (Len(Chain) + 1) /\ Len(Chain) \in Nat
      BY ChainFacts
    <3>2. p # 1 /\ p - 1 \in 1 .. (Len(Chain) + 1) /\ p \in Nat
      BY <3>1
    <3> QED BY <3>2, ChainFacts
  <2>2. flag[p - 1] > 0 /\ flag[p - 1] + Tolerance >= shard[p].since /\ flag[p - 1] \in Nat
    BY <1>4, <2>1 DEF Fresh, FlagTime
  <2>3. ~(flag[p - 1] + Tolerance < begun) /\ flag[p - 1] # 0
    BY <1>0, <1>2, <2>2
  <2> QED BY <2>1, <2>3 DEF FlagsTell
<1> QED BY <1>3, <1>4 DEF Released

LEMMA EmitStep ==
  ASSUME SessionInv, NEW p \in Places, EmitShard(p)
  PROVE  SessionInv'
<1> USE DEF SessionInv, SessionTypeOK
<1>0. round # 0
  BY DEF EmitShard, Released
<1>1. /\ Released(p) /\ shard' = [shard EXCEPT ![p] = [at |-> "emitting", since |-> tick]]
      /\ UNCHANGED <<tick, round, begun, flag, printed, slow>>
  BY DEF EmitShard
<1>2. /\ shard' \in [Places -> [at : {"none", "waiting", "emitting"}, since : Nat]]
      /\ shard'[p].at = "emitting" /\ shard'[p].since = tick /\ \A q \in Places \ {p} : shard'[q] = shard[q]
  BY <1>1
<1>3. shard[p].at = "waiting" /\ p \in Nat /\ p >= 1 /\ p \in 1 .. p
  BY <1>1, RungFacts DEF Released
<1>4. ASSUME ~slow PROVE Timed' /\ FlagsTell' /\ InTurn' /\ SurvivorsInOrder'
  <2>1. Timed'
    <3>1. tick <= begun + Skew + Rung(p) /\ tick <= tick + Quick
      <4>1. /\ tick <= shard[p].since + Rung(p) /\ shard[p].since <= begun + Skew
            /\ shard[p].since \in Nat
        BY <1>3, <1>4 DEF Timed
      <4> QED BY <4>1, RungFacts
    <3> SUFFICES ASSUME NEW q \in Places
                 PROVE  /\ shard'[q].at = "waiting" =>
                             /\ begun <= shard'[q].since /\ shard'[q].since <= begun + Skew
                             /\ tick <= shard'[q].since + Rung(q)
                        /\ shard'[q].at = "emitting" =>
                             tick <= shard'[q].since + Quick /\ shard'[q].since <= begun + Skew + Rung(q)
      BY <1>1 DEF Timed
    <3>2. CASE q = p
      BY <1>2, <3>1, <3>2
    <3>3. CASE q # p
      BY <1>2, <1>4, <3>3 DEF Timed
    <3> QED BY <3>2, <3>3
  <2>2. \A q \in Places : (\A r \in 1 .. q : shard[r].at = "none") => (\A r \in 1 .. q : shard'[r].at = "none")
    <3> SUFFICES ASSUME NEW q \in Places, \A r \in 1 .. q : shard[r].at = "none", NEW r \in 1 .. q
                 PROVE  shard'[r].at = "none"
      OBVIOUS
    <3>1. r \in Places /\ r # p
      BY <1>3, ChainFacts
    <3> QED BY <1>2, <3>1
  <2>3. FlagsTell'
    BY <1>1, <1>4, <2>2 DEF FlagsTell
  <2>4. \A q \in 1 .. (p - 1) : shard'[q].at = "none"
    <3> SUFFICES ASSUME NEW q \in 1 .. (p - 1) PROVE shard'[q].at = "none"
      OBVIOUS
    <3>1. shard[q].at = "none" /\ q \in Places /\ q # p
      BY <1>1, <1>3, <1>4, ReleasedAlone, RungFacts
    <3> QED BY <1>2, <3>1
  <2>5. InTurn'
    <3>1. ASSUME NEW q \in Places, shard'[q].at = "emitting", NEW r \in 1 .. (q - 1)
          PROVE  shard'[r].at = "none"
      <4>1. CASE q = p
        BY <2>4, <3>1, <4>1
      <4>2. CASE q # p
        <5>1. shard[q].at = "emitting"
          BY <1>2, <3>1, <4>2
        <5>2. shard[r].at = "none" /\ r \in Places
          BY <1>4, <3>1, <5>1, RungFacts DEF InTurn
        <5> QED BY <1>2, <1>3, <5>2
      <4> QED BY <4>1, <4>2
    <3>2. ASSUME NEW i \in DOMAIN printed PROVE \A r \in 1 .. printed[i] : shard'[r].at = "none"
      <4>1. printed[i] \in Places
        BY <3>2
      <4>2. \A r \in 1 .. printed[i] : shard[r].at = "none"
        BY <1>4, <3>2 DEF InTurn
      <4> QED BY <2>2, <4>1, <4>2
    <3> QED BY <1>1, <3>1, <3>2 DEF InTurn
  <2> QED BY <1>1, <1>4, <2>1, <2>3, <2>5 DEF SurvivorsInOrder
<1> QED BY <1>0, <1>1, <1>2, <1>4

LEMMA EndStep ==
  ASSUME SessionInv, NEW p \in Places, EndShard(p)
  PROVE  SessionInv'
<1> USE DEF SessionInv, SessionTypeOK
<1>1. /\ shard[p].at = "emitting" /\ shard' = [shard EXCEPT ![p] = NotRunning]
      /\ printed' = Append(printed, p) /\ flag' \in {flag, [flag EXCEPT ![p] = tick]}
      /\ UNCHANGED <<tick, round, begun, slow>>
  BY DEF EndShard
<1>2. /\ shard' \in [Places -> [at : {"none", "waiting", "emitting"}, since : Nat]]
      /\ shard'[p].at = "none" /\ \A q \in Places \ {p} : shard'[q] = shard[q]
  <2>1. NotRunning \in [at : {"none", "waiting", "emitting"}, since : Nat] /\ NotRunning.at = "none"
    BY DEF NotRunning
  <2> QED BY <1>1, <2>1
<1>3. /\ flag' \in [Places -> Nat] /\ flag'[p] \in {flag[p], tick}
      /\ \A q \in Places \ {p} : flag'[q] = flag[q]
  BY <1>1
<1>4. /\ printed' \in Seq(Places) /\ Len(printed') = Len(printed) + 1 /\ printed'[Len(printed) + 1] = p
      /\ DOMAIN printed' = 1 .. (Len(printed) + 1) /\ DOMAIN printed = 1 .. Len(printed) /\ Len(printed) \in Nat
      /\ \A i \in 1 .. Len(printed) : printed'[i] = printed[i] /\ printed[i] \in Places
  BY <1>1
<1>5. p \in Nat /\ p >= 1 /\ p \in 1 .. p
  BY RungFacts
<1>6. \A r \in Places : shard[r].at = "none" => shard'[r].at = "none"
  BY <1>2
<1>7. round # 0
  BY <1>1
<1>8. ASSUME ~slow PROVE Timed' /\ FlagsTell' /\ InTurn' /\ SurvivorsInOrder'
  <2>1. Timed'
    BY <1>1, <1>2, <1>8 DEF Timed
  <2>2. \A q \in 1 .. p : shard'[q].at = "none"
    <3> SUFFICES ASSUME NEW q \in 1 .. p PROVE shard'[q].at = "none"
      OBVIOUS
    <3>1. CASE q = p
      BY <1>2, <3>1
    <3>2. CASE q # p
      <4>1. q \in 1 .. (p - 1) /\ q \in Places
        BY <1>5, <3>2, RungFacts
      <4> QED BY <1>1, <1>6, <1>8, <4>1 DEF InTurn
    <3> QED BY <3>1, <3>2
  <2>3. FlagsTell'
    <3> SUFFICES ASSUME NEW q \in Places
                 PROVE  \/ flag'[q] = 0
                        \/ flag'[q] + Tolerance < begun
                        \/ /\ flag'[q] <= begun + Skew + Rung(q) + Quick
                           /\ \A r \in 1 .. q : shard'[r].at = "none"
      BY <1>1 DEF FlagsTell
    <3>1. CASE flag'[q] = flag[q]
      <4>1. \A r \in 1 .. q : r \in Places
        BY ChainFacts
      <4> QED BY <1>6, <1>8, <3>1, <4>1 DEF FlagsTell
    <3>2. CASE q = p /\ flag'[q] = tick
      <4>1. /\ tick <= shard[p].since + Quick /\ shard[p].since <= begun + Skew + Rung(p)
            /\ shard[p].since \in Nat
        BY <1>1, <1>8 DEF Timed
      <4>2. Rung(p) \in Nat /\ Skew \in Nat /\ Quick \in Nat
        BY RungFacts
      <4>3. tick <= begun + Skew + Rung(p) + Quick
        BY <4>1, <4>2
      <4> QED BY <2>2, <3>2, <4>3
    <3> QED BY <1>3, <3>1, <3>2
  <2>4. InTurn'
    <3>1. ASSUME NEW q \in Places, shard'[q].at = "emitting", NEW r \in 1 .. (q - 1)
          PROVE  shard'[r].at = "none"
      <4>1. shard[q].at = "emitting" /\ r \in Places
        BY <1>2, <3>1, RungFacts
      <4> QED BY <1>6, <1>8, <3>1, <4>1 DEF InTurn
    <3>2. ASSUME NEW i \in DOMAIN printed' PROVE \A r \in 1 .. printed'[i] : shard'[r].at = "none"
      <4>1. CASE i = Len(printed) + 1
        BY <1>4, <2>2, <4>1
      <4>2. CASE i \in 1 .. Len(printed)
        <5>1. \A r \in 1 .. printed[i] : shard[r].at = "none" /\ r \in Places
          BY SMTT(30), <1>4, <1>8, <4>2, ChainFacts DEF InTurn
        <5> QED BY <1>4, <1>6, <4>2, <5>1
      <4>3. i \in 1 .. (Len(printed) + 1)
        BY <1>4, <3>2
      <4>4. i = Len(printed) + 1 \/ i \in 1 .. Len(printed)
        BY <1>4, <4>3
      <4> QED BY <4>1, <4>2, <4>4
    <3> QED BY <3>1, <3>2 DEF InTurn
  <2>5. SurvivorsInOrder'
    <3>1. \A i \in 1 .. Len(printed) : printed[i] < p
      <4> SUFFICES ASSUME NEW i \in 1 .. Len(printed), printed[i] >= p PROVE FALSE
        BY SMTT(30), <1>4, RungFacts
      <4>1. p \in 1 .. printed[i]
        BY <1>4, <1>5, RungFacts
      <4> QED BY <1>1, <1>4, <1>8, <4>1 DEF InTurn
    <3> SUFFICES ASSUME NEW i \in 1 .. (Len(printed) + 1), NEW j \in 1 .. (Len(printed) + 1), i < j
                 PROVE  printed'[i] < printed'[j]
      BY <1>4 DEF SurvivorsInOrder
    <3>2. i \in 1 .. Len(printed)
      BY <1>4
    <3>3. CASE j = Len(printed) + 1
      BY <1>4, <3>1, <3>2, <3>3
    <3>4. CASE j \in 1 .. Len(printed)
      BY <1>4, <1>8, <3>2, <3>4 DEF SurvivorsInOrder
    <3>5. j = Len(printed) + 1 \/ j \in 1 .. Len(printed)
      <4>1. \A n \in Nat : \A k \in 1 .. (n + 1) : k = n + 1 \/ k \in 1 .. n
        OBVIOUS
      <4> HIDE DEF SessionInv, SessionTypeOK
      <4> QED BY <1>4, <4>1
    <3> QED BY <3>3, <3>4, <3>5
  <2> QED BY <2>1, <2>3, <2>4, <2>5
<1> QED BY <1>1, <1>2, <1>3, <1>4, <1>7, <1>8

LEMMA TimeStep ==
  ASSUME SessionInv, SessionTick
  PROVE  SessionInv'
<1> USE DEF SessionInv, SessionTypeOK
<1>1. /\ ~slow /\ tick' = tick + 1 /\ UNCHANGED <<round, begun, shard, flag, printed>>
      /\ \A p \in Places : ~Released(p)
      /\ slow' = \E p \in Places : shard[p].at = "emitting" /\ tick + 1 > shard[p].since + Quick
  BY DEF SessionTick
<1>2. SessionTypeOK'
  BY <1>1
<1>3. ASSUME ~slow' PROVE Timed'
  <2> SUFFICES ASSUME NEW p \in Places
               PROVE  /\ shard[p].at = "waiting" =>
                           /\ begun <= shard[p].since /\ shard[p].since <= begun + Skew
                           /\ tick + 1 <= shard[p].since + Rung(p)
                      /\ shard[p].at = "emitting" =>
                           tick + 1 <= shard[p].since + Quick /\ shard[p].since <= begun + Skew + Rung(p)
    BY <1>1 DEF Timed
  <2>0. shard[p].since \in Nat /\ Rung(p) \in Nat
    BY RungFacts
  <2>1. CASE shard[p].at = "waiting"
    <3>1. RungReached(p) <=> tick >= shard[p].since + Rung(p)
      <4> HIDE DEF SessionInv, SessionTypeOK
      <4> QED BY DEF RungReached, Rung
    <3>2. tick < shard[p].since \/ ~RungReached(p)
      BY <1>1, <2>0, <2>1 DEF Released
    <3>3. tick + 1 <= shard[p].since + Rung(p)
      BY <2>0, <3>1, <3>2
    <3>4. begun <= shard[p].since /\ shard[p].since <= begun + Skew
      BY <1>1, <2>1 DEF Timed
    <3> QED BY <2>1, <3>3, <3>4
  <2>2. CASE shard[p].at = "emitting"
    <3>1. ~(tick + 1 > shard[p].since + Quick)
      BY <1>1, <1>3, <2>2
    <3> QED BY SMTT(30), <1>1, <2>0, <2>2, <3>1, RungFacts DEF Timed
  <2> QED BY <2>1, <2>2
<1>4. FlagsTell' /\ InTurn' /\ SurvivorsInOrder'
  BY <1>1 DEF FlagsTell, InTurn, SurvivorsInOrder
<1> QED BY <1>1, <1>2, <1>3, <1>4

\* For every ladder whose rungs are wider than a quick shard and the skew of the starts,
\* and every chain: whichever shards die or leave no flag, at a start and at every
\* compaction, those that end do so in the order of the chain (waitForFlag,
\* ladderDeadlineMs, buildChain).
THEOREM SurvivorsInOrderCorrect ==
  SessionSpec => []SurvivorsInOrder
<1>1. SessionInit => SessionInv
  <2> SUFFICES ASSUME SessionInit PROVE SessionInv
    OBVIOUS
  <2>1. /\ tick = 1 /\ round = 0 /\ begun = 0 /\ slow = FALSE /\ printed = <<>>
        /\ shard = [p \in Places |-> NotRunning] /\ flag = [i \in Places |-> 0]
    BY DEF SessionInit
  <2>2. SessionTypeOK
    <3>1. NotRunning \in [at : {"none", "waiting", "emitting"}, since : Nat]
      BY DEF NotRunning
    <3>2. 0 \in Nat /\ 1 \in Nat \ {0} /\ 0 <= 1
      OBVIOUS
    <3>3. shard \in [Places -> [at : {"none", "waiting", "emitting"}, since : Nat]]
      BY <2>1, <3>1
    <3>4. flag \in [Places -> Nat] /\ printed \in Seq(Places)
      BY <2>1, <3>2
    <3>5. tick \in Nat \ {0} /\ round \in Nat /\ begun \in Nat /\ begun <= tick /\ slow \in BOOLEAN
      BY <2>1, <3>2
    <3> QED BY <3>3, <3>4, <3>5 DEF SessionTypeOK
  <2>3. \A p \in Places : shard[p].at = "none" /\ flag[p] = 0
    BY <2>1 DEF NotRunning
  <2>4. Timed /\ FlagsTell /\ InTurn /\ SurvivorsInOrder
    BY <2>1, <2>3 DEF Timed, FlagsTell, InTurn, SurvivorsInOrder
  <2> QED BY <2>2, <2>3, <2>4 DEF SessionInv
<1>2. SessionInv /\ [SessionNext]_sessionVars => SessionInv'
  <2> SUFFICES ASSUME SessionInv, [SessionNext]_sessionVars PROVE SessionInv'
    OBVIOUS
  <2>1. CASE UNCHANGED sessionVars
    BY <2>1 DEF sessionVars, SessionInv, SessionTypeOK, Timed, FlagsTell, InTurn, SurvivorsInOrder
  <2>2. CASE SessionNext
    BY <2>2, RoundStep, TimeStep, EmitStep, EndStep DEF SessionNext
  <2> QED BY <2>1, <2>2
<1>3. SessionInv => SurvivorsInOrder
  BY DEF SessionInv, SurvivorsInOrder
<1> QED BY <1>1, <1>2, <1>3, PTL DEF SessionSpec

-----------------------------------------------------------------------------
(* The watch on the context *)

Busy == {p \in Statuslines : line[p].at # "no"}
TwoBusy == \E p, q \in Busy : p # q
WatchFiles == [session : 0 .. LastSession, cost : BOOLEAN, switch : Nat, sync : Nat]
Lines ==
  [at : {"no", "costs", "track", "decide", "ask", "save"}, session : 0 .. LastSession,
   level : Levels, cost : BOOLEAN, read : WatchFiles, now : Nat]
Pollers == [start : Nat, switch : Nat, early : Nat, sync : Nat]
Polls == [at : {"rest", "ask", "record"}, want : Requests, of : Nat, now : Nat, tries : Nat]
CostRecords == [known : BOOLEAN, lines : Nat, lost : BOOLEAN]
LapseCounts == [overlaps : Nat, overtaken : Nat, others : Nat]

WatchTypeOK ==
  /\ watched \in {"claude", "codex"}
  /\ running \in [session : Sessions, level : Levels, shown : BOOLEAN]
  /\ minute \in Nat \ {0}
  /\ watchFile \in WatchFiles
  /\ line \in [Statuslines -> Lines]
  /\ poller \in Pollers
  /\ poll \in Polls
  /\ thread \in [session : Nat, level : Levels, at : Nat]
  /\ asked \in [Requests -> [last : Nat, early : Nat]]
  /\ strays \in Nat
  /\ costLog \in [Sessions -> CostRecords]
  /\ lapses \in LapseCounts

\* A session that has been seen.
Shown(s) == s < running.session \/ (s = running.session /\ running.shown)

\* What the processes of the status line have in hand is of sessions seen.
Seeing ==
  /\ Busy # {} => watched = "claude"
  /\ watchFile.session = 0 \/ Shown(watchFile.session)
  /\ \A p \in Statuslines : line[p].read.session = 0 \/ Shown(line[p].read.session)
  /\ \A p \in Busy : line[p].session # 0 /\ Shown(line[p].session)

\* What a process has read and noted was asked for, in the past.
Ready(p) ==
  /\ \A r \in Requests : line[p].read[r] <= asked[r].last
  /\ line[p].now <= minute
  /\ line[p].at = "save" => line[p].now <= asked[Wanted(p)].last
  /\ line[p].at = "ask" =>
       LET then == line[p].read[Wanted(p)]
       IN then = 0 \/ line[p].now >= then + WatchCooldown[Wanted(p)]
Earned ==
  /\ CooldownsAreEarned
  /\ \A r \in Requests : asked[r].last <= minute
  /\ \A p \in Statuslines : Ready(p)

\* What the poller waits for before it asks again, and the check under way.
CoolsFrom(r) == IF r = "switch" THEN poller.switch ELSE poller.early
Cooled(r) == CoolsFrom(r) = 0 \/ minute >= CoolsFrom(r) + WatchCooldown[r]
Polling ==
  /\ poll.at # "rest" => watched = "codex" /\ poll.now <= minute
  /\ poll.at = "ask" => Cooled(poll.want)
  /\ poll.at = "record" => asked[poll.want].last = minute

\* Without a lapse what is in hand is of the session that runs.
RightlyAsked ==
  /\ strays = 0
  /\ running.shown =>
       /\ \A p \in Busy : line[p].session = running.session
       /\ watched = "codex" => thread.session = running.session
       /\ poll.at # "rest" => poll.of = running.session
InPlace == Lapses = 0 => RightlyAsked

\* Processes that may still ask, and those that know all there is to know of a request.
Asking == {p \in Busy : line[p].at # "save"}
Accurate(r) ==
  /\ watchFile[r] = asked[r].last
  /\ \A p \in Busy :
       /\ line[p].at \in {"track", "ask", "save"} => line[p].read[r] = asked[r].last
       /\ line[p].at = "save" => Wanted(p) # r
Mending(r) == \E p \in Busy : line[p].at = "save" /\ Wanted(p) = r /\ line[p].now = asked[r].last
Behind(r) == \E p \in Busy : line[p].at = "ask" /\ line[p].now < asked[r].last

\* How often a request may still be made too early without a further lapse.
Credit(r) ==
  IF watched = "codex"
  THEN IF CoolsFrom(r) >= asked[r].last \/ (poll.at = "record" /\ poll.want = r) THEN 0 ELSE 1
  ELSE IF TwoBusy THEN Cardinality(Asking) + (IF Accurate(r) THEN 0 ELSE 1)
  ELSE IF Accurate(r) \/ Mending(r) THEN 0
  ELSE IF Behind(r) THEN 2 ELSE 1
Spacing == \A r \in Requests : asked[r].early + Credit(r) <= 2 * lapses.overlaps + lapses.others

Noted(s) == costLog[s].lines > 0 \/ costLog[s].lost

\* Without an overlap the file is that of the last process.
Follows(p) ==
  /\ watchFile.session <= line[p].session
  /\ line[p].at \in {"track", "ask", "save"} =>
       line[p].read.session = watchFile.session /\ line[p].read.cost = watchFile.cost
  /\ line[p].at = "track" /\ watchFile.cost /\ watchFile.session \notin {0, line[p].session} =>
       Noted(watchFile.session)
Logged(s) ==
  costLog[s].known => /\ s <= watchFile.session
                      /\ s < watchFile.session => Noted(s)
                      /\ s = watchFile.session => watchFile.cost
Alone ==
  lapses.overlaps = 0 => ~TwoBusy /\ (\A p \in Busy : Follows(p)) /\ (\A s \in Sessions : Logged(s))

\* Whose cost has been logged is over, or about to be.
Over ==
  Lapses = 0 => \A s \in Sessions : costLog[s].lines > 0 =>
    \/ s < watchFile.session
    \/ \E p \in Busy : line[p].at = "track" /\ line[p].read.session = s /\ line[p].session # s

\* The session on file may be s, now or later.
Live(s) ==
  \/ running.session <= s \/ watchFile.session = s
  \/ \E p \in Busy : \/ line[p].at \in {"costs", "track"} /\ line[p].session = s
                     \/ line[p].at \in {"ask", "save"} /\ line[p].read.session = s
Logging(s) == {p \in Busy : line[p].at = "costs" /\ line[p].session # s}
Leaving(s) == {p \in Busy : line[p].at = "track" /\ line[p].read.session = s /\ line[p].session # s}
Spare(s) == Busy = {} \/ Busy \ (Logging(s) \cup Leaving(s)) # {}
Owes(s) == costLog[s].lines + Cardinality(Logging(s))

\* Each process logs a session once, and all but one that overlap are lapses.
Old(s) == \E p \in Busy : line[p].session < s
Bounded(s) ==
  /\ costLog[s].lines <= 1 + Lapses
  /\ Live(s) => Owes(s) <= Lapses + (IF Spare(s) THEN 0 ELSE 1)
  /\ Live(s) /\ Shown(s) /\ Old(s) => Owes(s) <= Lapses
Counted == \A s \in Sessions : Bounded(s)

WatchInv ==
  /\ WatchTypeOK /\ Seeing /\ Earned /\ Polling /\ InPlace /\ Spacing /\ Alone /\ Over /\ Counted

-----------------------------------------------------------------------------
(* What the steps do *)

\* Only the process p does something.
Kept(p) == line' \in [Statuslines -> Lines] /\ \A q \in Statuslines \ {p} : line'[q] = line[q]

LEMMA OtherTime ==
  ASSUME NEW f \in WatchFiles, NEW r \in Requests, NEW n \in Nat
  PROVE  /\ [f EXCEPT ![r] = n] \in WatchFiles /\ [f EXCEPT ![r] = n][r] = n
         /\ [f EXCEPT ![r] = n].session = f.session /\ [f EXCEPT ![r] = n].cost = f.cost
         /\ \A q \in Requests \ {r} : [f EXCEPT ![r] = n][q] = f[q]
<1>1. CASE r = "switch"
  BY <1>1 DEF WatchFiles, Requests
<1>2. CASE r = "sync"
  BY <1>2 DEF WatchFiles, Requests
<1> QED BY <1>1, <1>2 DEF Requests

LEMMA NothingOnFile ==
  /\ NoWatchFile \in WatchFiles /\ NoWatchFile.session = 0 /\ ~NoWatchFile.cost
  /\ \A r \in Requests : NoWatchFile[r] = 0
BY WatchAssumption DEF NoWatchFile, WatchFiles, Requests

LEMMA NothingInHand ==
  NoLine \in Lines /\ NoLine.at = "no" /\ NoLine.read = NoWatchFile /\ NoLine.now = 0
  /\ NoLine.session = 0 /\ NoLine.level = "low"
  /\ NoPoll \in Polls /\ NoPoll.at = "rest"
BY NothingOnFile, WatchAssumption DEF NoLine, Lines, Levels, NoPoll, Polls, Requests

LEMMA WantedFacts ==
  /\ \A p : Wanted(p) \in Requests
  /\ \A r \in Requests : WatchCooldown[r] \in Nat \ {0}
BY WatchAssumption DEF Wanted, Requests, WatchCooldown

\* A process changes what it holds.
LEMMA PutFacts ==
  ASSUME WatchTypeOK, NEW p \in Statuslines, NEW x \in Lines, line' = [line EXCEPT ![p] = x]
  PROVE  Kept(p) /\ line'[p] = x
BY DEF WatchTypeOK, Kept

LEMMA StartsEffect ==
  ASSUME WatchTypeOK, NEW p \in Statuslines, LineStarts(p)
  PROVE  /\ Kept(p) /\ line[p].at = "no" /\ watched = "claude"
         /\ line'[p].at = "costs" /\ line'[p].session = running.session
         /\ line'[p].read = NoWatchFile /\ line'[p].now = 0
         /\ running'.session = running.session /\ running'.level = running.level /\ running'.shown
         /\ running' \in [session : Sessions, level : Levels, shown : BOOLEAN]
<1>0. PICK cost \in BOOLEAN :
        line' = [line EXCEPT ![p] = [NoLine EXCEPT !.at = "costs", !.session = running.session,
                                                   !.level = running.level, !.cost = cost]]
  BY DEF LineStarts
<1> DEFINE x == [NoLine EXCEPT !.at = "costs", !.session = running.session, !.level = running.level,
                               !.cost = cost]
<1>1. running.session \in 0 .. LastSession /\ running.level \in Levels /\ running.session \in Sessions
  BY WatchAssumption DEF WatchTypeOK, Sessions
<1>2. /\ x \in Lines /\ x.at = "costs" /\ x.session = running.session
      /\ x.read = NoWatchFile /\ x.now = 0
  BY <1>1, NothingInHand DEF Lines
<1>4. line' = [line EXCEPT ![p] = x] /\ line[p].at = "no" /\ watched = "claude"
      /\ running' = [running EXCEPT !.shown = TRUE]
  BY <1>0 DEF LineStarts
<1>5. /\ running' \in [session : Sessions, level : Levels, shown : BOOLEAN]
      /\ running'.session = running.session /\ running'.level = running.level /\ running'.shown
  BY <1>4 DEF WatchTypeOK
<1> HIDE DEF x
<1>6. Kept(p) /\ line'[p] = x
  BY <1>2, <1>4, PutFacts
<1> QED BY <1>2, <1>4, <1>5, <1>6

LEMMA LogEffect ==
  ASSUME WatchTypeOK, NEW p \in Statuslines, LogCost(p)
  PROVE  /\ Kept(p) /\ line[p].at = "costs"
         /\ line'[p].at = "track" /\ line'[p].session = line[p].session /\ line'[p].level = line[p].level
         /\ line'[p].read = watchFile /\ line'[p].now = line[p].now
         /\ lapses' \in LapseCounts /\ lapses'.overlaps = lapses.overlaps
         /\ lapses' = lapses \/ lapses'.others = lapses.others + 1
         /\ lapses'.overtaken = lapses.overtaken
<1> DEFINE x == [line[p] EXCEPT !.at = "track", !.read = watchFile]
<1>1. line[p] \in Lines /\ watchFile \in WatchFiles
  BY DEF WatchTypeOK
<1>2. /\ x \in Lines /\ x.at = "track" /\ x.session = line[p].session /\ x.level = line[p].level
      /\ x.read = watchFile /\ x.now = line[p].now
  BY <1>1 DEF Lines
<1>3. line' = [line EXCEPT ![p] = x] /\ line[p].at = "costs"
  BY <1>1 DEF LogCost, WatchTypeOK, Lines
<1> HIDE DEF x
<1>4. Kept(p) /\ line'[p] = x
  BY <1>2, <1>3, PutFacts
<1>5. lapses \in LapseCounts /\ (lapses' = lapses \/ lapses' = [lapses EXCEPT !.others = @ + 1])
  BY DEF LogCost, Lapse, WatchTypeOK
<1>6. /\ lapses' \in LapseCounts /\ lapses'.overlaps = lapses.overlaps
      /\ lapses' = lapses \/ lapses'.others = lapses.others + 1
      /\ lapses'.overtaken = lapses.overtaken
  BY <1>5 DEF LapseCounts
<1> QED BY <1>2, <1>3, <1>4, <1>6

LEMMA TrackEffect ==
  ASSUME WatchTypeOK, NEW p \in Statuslines, TrackSession(p)
  PROVE  /\ Kept(p) /\ line[p].at = "track"
         /\ \/ line'[p] = NoLine
            \/ /\ line'[p].at = "decide" /\ line'[p].session = line[p].session
               /\ line'[p].read = NoWatchFile /\ line'[p].now = line[p].now
         /\ watchFile' \in WatchFiles /\ watchFile'.session = line[p].session
         /\ watchFile'.cost = CostOnFile(p)
         /\ \A r \in Requests : watchFile'[r] = line[p].read[r]
<1> DEFINE x == [line[p] EXCEPT !.at = "decide", !.read = NoWatchFile]
           y == IF line[p].level = "low" THEN NoLine ELSE x
<1>1. line[p] \in Lines /\ line[p].read \in WatchFiles /\ line[p].session \in 0 .. LastSession
  BY DEF WatchTypeOK, Lines
<1>2. /\ x \in Lines /\ x.at = "decide" /\ x.session = line[p].session
      /\ x.read = NoWatchFile /\ x.now = line[p].now
  BY <1>1, NothingOnFile DEF Lines
<1>3. line' = [line EXCEPT ![p] = y] /\ line[p].at = "track"
      /\ watchFile' = [line[p].read EXCEPT !.session = line[p].session, !.cost = CostOnFile(p)]
      /\ CostOnFile(p) \in BOOLEAN
  BY <1>1 DEF TrackSession, WatchTypeOK, CostOnFile
<1> HIDE DEF x
<1>4. y \in Lines
  BY <1>2, NothingInHand
<1>5. Kept(p) /\ line'[p] = y
  BY <1>3, <1>4, PutFacts
<1>6. /\ watchFile' \in WatchFiles /\ watchFile'.session = line[p].session
      /\ watchFile'.cost = CostOnFile(p)
      /\ \A r \in Requests : watchFile'[r] = line[p].read[r]
  <2> DEFINE g == [line[p].read EXCEPT !.session = line[p].session, !.cost = CostOnFile(p)]
  <2>1. /\ g \in WatchFiles /\ g.session = line[p].session /\ g.cost = CostOnFile(p)
        /\ \A r \in Requests : g[r] = line[p].read[r]
    <3> DEFINE h == line[p].read
               k == line[p].session
               c == CostOnFile(p)
    <3>1. h \in WatchFiles /\ k \in 0 .. LastSession /\ c \in BOOLEAN
      BY <1>1, <1>3
    <3>2. g = [h EXCEPT !.session = k, !.cost = c]
      OBVIOUS
    <3> HIDE DEF g, h, k, c
    <3> DEFINE b == [h EXCEPT !.session = k]
    <3>3. b \in WatchFiles /\ b.session = k /\ \A r \in Requests : b[r] = h[r]
      BY <3>1 DEF WatchFiles, Requests
    <3>4. g = [b EXCEPT !.cost = c]
      BY <3>2
    <3> HIDE DEF b
    <3>5. g \in WatchFiles /\ g.session = k /\ g.cost = c /\ \A r \in Requests : g[r] = b[r]
      BY <3>1, <3>3, <3>4 DEF WatchFiles, Requests
    <3>6. /\ g \in WatchFiles /\ g.session = k /\ g.cost = c
          /\ \A r \in Requests : g[r] = h[r]
      BY <3>3, <3>5
    <3> QED BY <3>6 DEF h, k, c
  <2> QED BY <1>3, <2>1
<1> QED BY <1>2, <1>3, <1>5, <1>6

LEMMA DecideEffect ==
  ASSUME WatchTypeOK, NEW p \in Statuslines, Decide(p)
  PROVE  /\ Kept(p) /\ line[p].at = "decide"
         /\ \/ line'[p] = NoLine
            \/ /\ line'[p].at = "ask" /\ line'[p].session = line[p].session /\ line'[p].level = line[p].level
               /\ line'[p].read = watchFile /\ line'[p].now = minute
               /\ ~Cooling(Wanted(p), watchFile[Wanted(p)])
<1> DEFINE x == [line[p] EXCEPT !.at = "ask", !.read = watchFile, !.now = minute]
           asks == ~Cooling(Wanted(p), watchFile[Wanted(p)])
<1>1. line[p] \in Lines /\ watchFile \in WatchFiles /\ minute \in Nat
  BY DEF WatchTypeOK
<1>2. /\ x \in Lines /\ x.at = "ask" /\ x.session = line[p].session /\ x.level = line[p].level
      /\ x.read = watchFile /\ x.now = minute
  BY <1>1 DEF Lines
<1>3. PICK few \in BOOLEAN : line' = [line EXCEPT ![p] = IF asks /\ ~few THEN x ELSE NoLine]
  BY DEF Decide, WatchTypeOK
<1>4. line[p].at = "decide"
  BY DEF Decide
<1> DEFINE y == IF asks /\ ~few THEN x ELSE NoLine
<1> HIDE DEF x
<1>5. y \in Lines
  BY <1>2, NothingInHand
<1>6. Kept(p) /\ line'[p] = y
  BY <1>3, <1>5, PutFacts
<1> QED BY <1>2, <1>4, <1>6

\* What a request, made or not, leaves behind.
Made(r, now, session, rows) ==
  /\ asked' \in [Requests -> [last : Nat, early : Nat]]
  /\ \A q \in Requests \ {r} : asked'[q] = asked[q]
  /\ rows = 0 => asked'[r] = asked[r]
  /\ rows > 0 => /\ asked'[r].last = IF now > asked[r].last THEN now ELSE asked[r].last
                 /\ asked'[r].early <= asked[r].early + rows
                 /\ asked[r].last = 0 \/ now >= asked[r].last + WatchCooldown[r]
                      => asked'[r].early <= asked[r].early + rows - 1
  /\ strays' \in Nat
  /\ ~running.shown \/ session = running.session => strays' = strays

LEMMA AskEffect ==
  ASSUME WatchTypeOK, NEW r \in Requests, NEW now \in Nat, NEW session \in Nat, NEW rows \in Nat,
         Ask(r, now, session, rows)
  PROVE  Made(r, now, session, rows)
<1> DEFINE soon == asked[r].last # 0 /\ now - asked[r].last < WatchCooldown[r]
           early == IF rows = 0 THEN 0 ELSE IF soon THEN rows ELSE rows - 1
           l == IF rows > 0 /\ now > asked[r].last THEN now ELSE asked[r].last
           e == asked[r].early + early
           x == [last |-> l, early |-> e]
<1>1. asked[r].last \in Nat /\ asked[r].early \in Nat /\ WatchCooldown[r] \in Nat
      /\ asked \in [Requests -> [last : Nat, early : Nat]] /\ strays \in Nat
      /\ asked[r] \in [last : Nat, early : Nat]
  BY WantedFacts DEF WatchTypeOK
<1>2. asked' = [asked EXCEPT ![r] = x]
  BY <1>1 DEF Ask
<1>3. strays' = IF running.shown /\ session # running.session THEN strays + rows ELSE strays
  BY DEF Ask
<1>4. early \in Nat /\ early <= rows /\ (rows > 0 /\ ~soon => early = rows - 1)
  BY <1>1
<1>5. l \in Nat /\ (rows = 0 => l = asked[r].last)
      /\ (rows > 0 => l = IF now > asked[r].last THEN now ELSE asked[r].last)
  BY <1>1
<1>6. asked[r].last = 0 \/ now >= asked[r].last + WatchCooldown[r] => ~soon
  BY <1>1
<1>7. rows = 0 => early = 0
  OBVIOUS
<1> HIDE DEF early, l, soon
<1>8. x \in [last : Nat, early : Nat] /\ x.last = l /\ x.early = e
  BY <1>1, <1>4, <1>5
<1>9. rows = 0 => x = asked[r]
  BY <1>1, <1>5, <1>7
<1> HIDE DEF x
<1>10. asked' \in [Requests -> [last : Nat, early : Nat]] /\ asked'[r] = x
       /\ \A q \in Requests \ {r} : asked'[q] = asked[q]
  BY <1>1, <1>2, <1>8
<1>11. rows > 0 => /\ x.early <= asked[r].early + rows
                   /\ asked[r].last = 0 \/ now >= asked[r].last + WatchCooldown[r]
                        => x.early <= asked[r].early + rows - 1
  BY <1>1, <1>4, <1>6, <1>8
<1>12. strays' \in Nat /\ (~running.shown \/ session = running.session => strays' = strays)
  BY <1>1, <1>3
<1> QED BY <1>5, <1>8, <1>9, <1>10, <1>11, <1>12 DEF Made

LEMMA EnqueuesEffect ==
  ASSUME WatchTypeOK, NEW p \in Statuslines, Enqueues(p)
  PROVE  /\ Kept(p) /\ line[p].at = "ask"
         /\ \/ line'[p] = NoLine /\ Made(Wanted(p), line[p].now, line[p].session, 0)
            \/ /\ Made(Wanted(p), line[p].now, line[p].session, 1)
               /\ line'[p].at = "save" /\ line'[p].session = line[p].session
               /\ line'[p].level = line[p].level
               /\ line'[p].read = line[p].read /\ line'[p].now = line[p].now
<1> DEFINE x == [line[p] EXCEPT !.at = "save"]
<1>1. line[p] \in Lines /\ line[p].now \in Nat /\ line[p].session \in Nat /\ 0 \in Nat /\ 1 \in Nat
  BY WatchAssumption DEF WatchTypeOK, Lines
<1>2. /\ x \in Lines /\ x.at = "save" /\ x.session = line[p].session /\ x.level = line[p].level
      /\ x.read = line[p].read /\ x.now = line[p].now
  BY <1>1 DEF Lines
<1>3. PICK went \in BOOLEAN :
        /\ Ask(Wanted(p), line[p].now, line[p].session, IF went THEN 1 ELSE 0)
        /\ line' = [line EXCEPT ![p] = IF went THEN x ELSE NoLine]
  BY DEF Enqueues, WatchTypeOK
<1>4. line[p].at = "ask"
  BY DEF Enqueues
<1> HIDE DEF x
<1>5. CASE went
  <2>1. Ask(Wanted(p), line[p].now, line[p].session, 1) /\ line' = [line EXCEPT ![p] = x]
    BY <1>3, <1>5
  <2>2. Made(Wanted(p), line[p].now, line[p].session, 1)
    BY <1>1, <2>1, AskEffect, WantedFacts
  <2>3. Kept(p) /\ line'[p] = x
    BY <1>2, <2>1, PutFacts
  <2> QED BY <1>2, <1>4, <2>2, <2>3
<1>6. CASE ~went
  <2>1. Ask(Wanted(p), line[p].now, line[p].session, 0) /\ line' = [line EXCEPT ![p] = NoLine]
    BY <1>3, <1>6
  <2>2. Made(Wanted(p), line[p].now, line[p].session, 0)
    BY <1>1, <2>1, AskEffect, WantedFacts
  <2>3. Kept(p) /\ line'[p] = NoLine
    BY <2>1, PutFacts, NothingInHand
  <2> QED BY <1>4, <2>2, <2>3
<1> QED BY <1>5, <1>6

LEMMA SaveEffect ==
  ASSUME WatchTypeOK, NEW p \in Statuslines, SaveRequest(p)
  PROVE  /\ Kept(p) /\ line[p].at = "save" /\ line'[p] = NoLine
         /\ watchFile' \in WatchFiles /\ watchFile'.session = line[p].read.session
         /\ watchFile'.cost = line[p].read.cost
         /\ watchFile'[Wanted(p)] = line[p].now
         /\ \A r \in Requests \ {Wanted(p)} : watchFile'[r] = line[p].read[r]
<1>1. line[p].read \in WatchFiles /\ line[p].now \in Nat /\ 0 \in 0 .. LastSession
  BY WatchAssumption DEF WatchTypeOK, Lines
<1>2. /\ line[p].at = "save" /\ line' = [line EXCEPT ![p] = NoLine]
      /\ watchFile' = [line[p].read EXCEPT ![Wanted(p)] = line[p].now]
  BY DEF SaveRequest
<1>3. Kept(p) /\ line'[p] = NoLine
  BY <1>2, PutFacts, NothingInHand
<1>4. Wanted(p) \in Requests
  BY WantedFacts
<1> QED BY <1>1, <1>2, <1>3, <1>4, OtherTime

LEMMA DiesEffect ==
  ASSUME WatchTypeOK, NEW p \in Statuslines, LineDies(p)
  PROVE  /\ Kept(p) /\ line[p].at # "no" /\ line'[p] = NoLine
         /\ lapses' \in LapseCounts
         /\ lapses'.overlaps = lapses.overlaps /\ lapses'.others = lapses.others + 1
         /\ lapses'.overtaken = lapses.overtaken
<1>1. line[p].at # "no" /\ line' = [line EXCEPT ![p] = NoLine]
      /\ lapses' = [lapses EXCEPT !.others = @ + 1]
  BY DEF LineDies, Lapse
<1>2. Kept(p) /\ line'[p] = NoLine
  BY <1>1, PutFacts, NothingInHand
<1> QED BY <1>1, <1>2 DEF WatchTypeOK, LapseCounts

\* A check of the poller begins, or only notes that it looked.
LEMMA PollAsksCase ==
  ASSUME WatchTypeOK, PollFull \/ PollNear
  PROVE  /\ watched = "codex" /\ poll.at = "rest"
         /\ UNCHANGED <<watched, running, minute, watchFile, line, turns, thread, asked, strays, costLog, lapses>>
         /\ poller' \in Pollers /\ poll' \in Polls /\ \A r \in Requests : poller'[r] = poller[r]
         /\ \/ /\ poller' = poller /\ poll'.at = "ask" /\ poll'.of = thread.session
               /\ poll'.now = minute /\ Cooled(poll'.want)
            \/ poll' = poll /\ \A r \in Requests : CoolsFrom(r)' \in {CoolsFrom(r), minute}
<1>1. poller \in Pollers /\ minute \in Nat /\ thread.session \in Nat /\ poll \in Polls
      /\ poller.switch \in Nat /\ poller.early \in Nat
  BY DEF WatchTypeOK, Pollers
<1>2. ASSUME NEW r \in Requests, PollWants(r)
      PROVE  poll' \in Polls /\ poll'.at = "ask" /\ poll'.of = thread.session /\ poll'.now = minute
             /\ poll'.want = r
  BY <1>1, <1>2 DEF PollWants, Polls
<1>3. "switch" \in Requests /\ "sync" \in Requests
  BY DEF Requests
<1>4. ASSUME NEW r \in Requests, ~Cooling(r, CoolsFrom(r))
      PROVE  Cooled(r)
  BY <1>1, <1>4, WantedFacts DEF Cooling, Cooled, CoolsFrom
<1>5. CASE PollFull
  BY <1>1, <1>2, <1>3, <1>4, <1>5 DEF PollFull, CoolsFrom, askedVars
<1>6. CASE PollNear /\ PollWants("sync") /\ UNCHANGED poller
  BY <1>1, <1>2, <1>3, <1>4, <1>6 DEF PollNear, CoolsFrom, askedVars
<1>7. CASE PollNear /\ poller' = [poller EXCEPT !.early = minute] /\ UNCHANGED poll
  <2>1. poller' \in Pollers /\ (\A r \in Requests : poller'[r] = poller[r])
        /\ \A r \in Requests : CoolsFrom(r)' \in {CoolsFrom(r), minute}
    BY <1>1, <1>7 DEF Pollers, Requests, CoolsFrom
  <2> QED BY <1>1, <1>7, <2>1 DEF PollNear, askedVars
<1> QED BY <1>5, <1>6, <1>7 DEF PollNear

\* An attempt, whose row may be there though it failed.
LEMMA TriesCase ==
  ASSUME WatchTypeOK, PollTries
  PROVE  /\ poll.at = "ask"
         /\ UNCHANGED <<watched, running, minute, watchFile, line, turns, poller, thread, costLog>>
         /\ poll' \in Polls
         /\ poll'.at # "rest" => poll'.want = poll.want /\ poll'.of = poll.of /\ poll'.now = poll.now
         /\ lapses' \in LapseCounts /\ lapses'.overlaps = lapses.overlaps
         /\ lapses'.overtaken = lapses.overtaken
         /\ \E queued \in 0 .. 1 :
              /\ Made(poll.want, minute, poll.of, queued)
              /\ \/ queued = 1 /\ poll'.at = "record" /\ lapses' = lapses
                 \/ poll'.at \in {"rest", "ask"} /\ lapses'.others = lapses.others + queued
<1>1. minute \in Nat /\ poll \in Polls /\ poll.want \in Requests /\ poll.of \in Nat /\ poll.tries \in Nat
      /\ lapses \in LapseCounts
  BY DEF WatchTypeOK, Polls
<1>2. PICK queued \in 0 .. 1 : /\ Ask(poll.want, minute, poll.of, queued)
        /\ \/ queued = 1 /\ poll' = [poll EXCEPT !.at = "record"] /\ UNCHANGED lapses
           \/ /\ poll' = IF poll.tries + 1 = Tries[poll.want] THEN NoPoll ELSE [poll EXCEPT !.tries = @ + 1]
              /\ IF queued = 1 THEN Lapse(1) ELSE UNCHANGED lapses
  BY DEF PollTries
<1>3. Made(poll.want, minute, poll.of, queued)
  <2>1. queued \in Nat
    OBVIOUS
  <2> QED BY <1>1, <1>2, <2>1, AskEffect
<1>4. poll.at = "ask"
      /\ UNCHANGED <<watched, running, minute, watchFile, line, turns, poller, thread, costLog>>
  BY DEF PollTries
<1>5. CASE queued = 1 /\ poll' = [poll EXCEPT !.at = "record"] /\ UNCHANGED lapses
  <2>1. poll' \in Polls /\ poll'.at = "record" /\ poll'.want = poll.want /\ poll'.of = poll.of
        /\ poll'.now = poll.now
    BY <1>1, <1>5 DEF Polls
  <2> QED BY <1>1, <1>3, <1>4, <1>5, <2>1
<1>6. CASE /\ poll' = IF poll.tries + 1 = Tries[poll.want] THEN NoPoll ELSE [poll EXCEPT !.tries = @ + 1]
           /\ IF queued = 1 THEN Lapse(1) ELSE UNCHANGED lapses
  <2>1. /\ poll' \in Polls /\ poll'.at \in {"rest", "ask"}
        /\ poll'.at # "rest" => poll'.want = poll.want /\ poll'.of = poll.of /\ poll'.now = poll.now
    <3>1. CASE poll' = NoPoll
      BY <3>1, NothingInHand
    <3>2. CASE poll' = [poll EXCEPT !.tries = poll.tries + 1]
      BY <1>1, <1>4, <3>2 DEF Polls
    <3> QED BY <1>1, <1>6, <3>1, <3>2
  <2>2. /\ lapses' \in LapseCounts /\ lapses'.overlaps = lapses.overlaps
        /\ lapses'.overtaken = lapses.overtaken /\ lapses'.others = lapses.others + queued
    <3>1. CASE queued = 1
      <4>1. lapses' = [lapses EXCEPT !.others = lapses.others + 1]
        BY <1>1, <1>6, <3>1 DEF Lapse, LapseCounts
      <4> QED BY <1>1, <3>1, <4>1 DEF LapseCounts
    <3>2. CASE queued = 0
      BY <1>1, <1>6, <3>2 DEF LapseCounts
    <3> QED BY <3>1, <3>2
  <2> QED BY <1>3, <1>4, <2>1, <2>2
<1> QED BY <1>2, <1>5, <1>6

\* The cooldown of what was asked for, and of nothing else, starts.
LEMMA RecordsCase ==
  ASSUME WatchTypeOK, PollRecords
  PROVE  /\ poll.at = "record" /\ poll' = NoPoll /\ poller' \in Pollers
         /\ UNCHANGED <<watched, running, minute, watchFile, line, turns, thread, asked, strays, costLog, lapses>>
         /\ \A r \in Requests :
              IF r = poll.want THEN CoolsFrom(r)' = minute /\ poller'[r] \in {minute, poll.now}
              ELSE CoolsFrom(r)' = CoolsFrom(r) /\ poller'[r] = poller[r]
<1>1. poller \in Pollers /\ minute \in Nat /\ poll.want \in Requests /\ poll.now \in Nat
  BY DEF WatchTypeOK, Polls
<1>2. /\ poll.at = "record" /\ poll' = NoPoll
      /\ UNCHANGED <<watched, running, minute, watchFile, line, turns, thread, asked, strays, costLog, lapses>>
  BY DEF PollRecords, askedVars
<1>3. CASE poll.want = "switch"
  <2>1. poller' = [poller EXCEPT !.switch = minute]
    BY <1>3 DEF PollRecords
  <2>2. poller' \in Pollers /\ poller'.switch = minute /\ poller'.early = poller.early /\ poller'.sync = poller.sync
    BY <1>1, <2>1 DEF Pollers
  <2> QED BY <1>2, <1>3, <2>2 DEF CoolsFrom, Requests
<1>4. CASE poll.want = "sync"
  <2> DEFINE x == [poller EXCEPT !.early = minute]
  <2>1. poller' = [x EXCEPT !.sync = poll.now]
    BY <1>4 DEF PollRecords
  <2>2. x \in Pollers /\ x.early = minute /\ x.switch = poller.switch
    BY <1>1 DEF Pollers
  <2> HIDE DEF x
  <2>3. poller' \in Pollers /\ poller'.early = minute /\ poller'.sync = poll.now /\ poller'.switch = poller.switch
    BY <1>1, <2>1, <2>2 DEF Pollers
  <2> QED BY <1>2, <1>4, <2>3 DEF CoolsFrom, Requests
<1> QED BY <1>1, <1>2, <1>3, <1>4 DEF Requests

-----------------------------------------------------------------------------
(* The processes at work, and how much credit they have *)

LEMMA FewBusy ==
  /\ IsFiniteSet(Busy)
  /\ \A T \in SUBSET Busy : IsFiniteSet(T) /\ Cardinality(T) \in Nat
<1>1. Busy \in SUBSET Statuslines
  BY DEF Busy
<1>2. IsFiniteSet(Busy)
  BY <1>1, WatchAssumption, FS_Subset
<1> QED BY <1>2, FS_Subset, FS_CardinalityType

LEMMA BusyChange ==
  ASSUME NEW p \in Statuslines, Kept(p)
  PROVE  /\ line[p].at = "no" /\ line'[p].at # "no" => p \notin Busy /\ Busy' = Busy \cup {p}
         /\ line[p].at # "no" /\ line'[p].at # "no" => p \in Busy /\ Busy' = Busy
         /\ line[p].at # "no" /\ line'[p].at = "no" => p \in Busy /\ Busy' = Busy \ {p}
BY DEF Kept, Busy

LEMMA CreditRange ==
  ASSUME watched = "claude", NEW r \in Requests
  PROVE  /\ Credit(r) \in Nat /\ Cardinality(Asking) \in Nat
         /\ ~TwoBusy => Credit(r) <= 2
         /\ ~Behind(r) /\ ~TwoBusy => Credit(r) <= 1
         /\ Busy = {} => ~Behind(r) /\ ~TwoBusy
<1>1. Cardinality(Asking) \in Nat
  BY FewBusy DEF Asking
<1>2. Busy = {} => ~Behind(r) /\ ~TwoBusy
  BY DEF Behind, TwoBusy
<1> QED BY <1>1, <1>2 DEF Credit

\* The same processes are at work as before, and none knows less.
LEMMA CreditKept ==
  ASSUME watched = "claude", watched' = watched, NEW r \in Requests, Busy' = Busy, Asking' = Asking,
         Accurate(r) => Accurate(r)', Mending(r) => Mending(r)',
         ~TwoBusy => (Behind(r)' => Behind(r))
  PROVE  Credit(r)' \in Nat /\ Credit(r)' <= Credit(r)
<1>1. TwoBusy' = TwoBusy
  BY DEF TwoBusy
<1>2. Cardinality(Asking) \in Nat
  BY CreditRange
<1> QED BY <1>1, <1>2 DEF Credit

\* A process comes to its end.
LEMMA CreditGone ==
  ASSUME watched = "claude", watched' = watched, NEW r \in Requests, asked' = asked,
         NEW p \in Busy, Kept(p), line'[p].at = "no",
         Accurate(r) => watchFile'[r] = asked[r].last
  PROVE  /\ Credit(r)' \in Nat /\ Credit(r) \in Nat
         /\ Credit(r)' <= Credit(r) + (IF ~TwoBusy /\ line[p].at = "save" /\ Wanted(p) = r THEN 1 ELSE 0)
<1>1. p \in Statuslines /\ line[p].at # "no"
  BY DEF Busy
<1>2. Busy' = Busy \ {p} /\ \A q \in Busy \ {p} : q \in Statuslines /\ line'[q] = line[q]
  BY <1>1, BusyChange DEF Kept, Busy
<1>3. Asking' = Asking \ {p}
  BY <1>2 DEF Asking
<1>4. /\ IsFiniteSet(Asking) /\ Cardinality(Asking) \in Nat
      /\ Cardinality(Asking') = IF p \in Asking THEN Cardinality(Asking) - 1 ELSE Cardinality(Asking)
      /\ Cardinality(Asking') \in Nat
  <2>1. IsFiniteSet(Asking) /\ Cardinality(Asking) \in Nat
    BY FewBusy DEF Asking
  <2> QED BY <1>3, <2>1, FS_RemoveElement, FS_CardinalityType
<1>5. \A q \in Busy \ {p} : Wanted(q)' = Wanted(q)
  BY <1>2 DEF Wanted
<1>6. Accurate(r) => Accurate(r)'
  BY <1>2, <1>5 DEF Accurate
<1>7. Credit(r) \in Nat
  BY CreditRange
<1>8. CASE ~TwoBusy
  <2>1. Busy = {p} /\ Busy' = {}
    BY <1>2, <1>8 DEF TwoBusy
  <2>2. ~TwoBusy' /\ ~Behind(r)'
    BY <2>1 DEF TwoBusy, Behind
  <2>3. Mending(r) => line[p].at = "save" /\ Wanted(p) = r
    BY <2>1 DEF Mending
  <2> QED BY <1>6, <1>7, <1>8, <2>2, <2>3 DEF Credit
<1>9. CASE TwoBusy /\ TwoBusy'
  BY <1>4, <1>6, <1>9 DEF Credit
<1>10. CASE TwoBusy /\ ~TwoBusy'
  <2>1. Behind(r)' => Cardinality(Asking') > 0
    <3>1. Behind(r)' => Asking' # {}
      BY DEF Behind, Asking
    <3>2. IsFiniteSet(Asking') 
      BY <1>3, <1>4, FS_RemoveElement
    <3> QED BY <1>4, <3>1, <3>2, FS_EmptySet
  <2>2. Cardinality(Asking') <= Cardinality(Asking)
    BY <1>4
  <2>3. Credit(r) = Cardinality(Asking) + (IF Accurate(r) THEN 0 ELSE 1)
    BY <1>10 DEF Credit
  <2>4. Credit(r)' = IF Accurate(r)' \/ Mending(r)' THEN 0 ELSE IF Behind(r)' THEN 2 ELSE 1
    BY <1>10 DEF Credit
  <2> QED BY <1>4, <1>6, <2>1, <2>2, <2>3, <2>4
<1> QED BY <1>8, <1>9, <1>10

-----------------------------------------------------------------------------
(* The steps beside those of the status line *)

Otherwise ==
  PollFull \/ PollNear \/ PollTries \/ PollRecords \/ PollerRestarts \/ ThreadUpdated \/ ContextFills \/ NewSession \/ MinutePasses

LEMMA NextCases ==
  ASSUME WatchNext
  PROVE  Otherwise \/ \E p \in Statuslines : \/ LineStarts(p) \/ LogCost(p) \/ TrackSession(p) \/ Decide(p)
                                             \/ Enqueues(p) \/ SaveRequest(p) \/ LineDies(p)
BY DEF WatchNext, Otherwise

LEMMA RestartCase ==
  ASSUME WatchTypeOK, PollerRestarts
  PROVE  /\ watched = "codex"
         /\ UNCHANGED <<watched, running, minute, watchFile, line, turns, thread, asked, strays, costLog>>
         /\ poller' \in Pollers /\ (\A r \in Requests : poller'[r] = 0) /\ poll' = NoPoll
         /\ lapses' \in LapseCounts /\ lapses'.overtaken = lapses.overtaken
         /\ lapses'.overlaps = lapses.overlaps /\ lapses'.others = lapses.others + 1
<1>1. poller' = [start |-> minute, switch |-> 0, early |-> 0, sync |-> 0]
      /\ lapses' = [lapses EXCEPT !.others = @ + 1]
  BY DEF PollerRestarts, FreshPoller, Lapse
<1>2. poller' \in Pollers /\ \A r \in Requests : poller'[r] = 0
  BY <1>1 DEF Pollers, Requests, WatchTypeOK
<1> QED BY <1>1, <1>2 DEF PollerRestarts, askedVars, WatchTypeOK, LapseCounts

LEMMA ThreadCase ==
  ASSUME WatchTypeOK, ThreadUpdated
  PROVE  /\ watched = "codex"
         /\ UNCHANGED <<watched, minute, watchFile, line, turns, poller, poll, asked, strays, costLog>>
         /\ thread' \in [session : Nat, level : Levels, at : Nat]
         /\ running' \in [session : Sessions, level : Levels, shown : BOOLEAN]
         /\ running'.session = running.session /\ (running.shown => running'.shown)
         /\ lapses' \in LapseCounts /\ lapses'.overlaps = lapses.overlaps
         /\ \/ thread'.session = running.session /\ lapses' = lapses /\ ~Overtaken
            \/ lapses'.overtaken = lapses.overtaken + 1 /\ lapses'.others = lapses.others
            \/ lapses'.overtaken = lapses.overtaken /\ lapses'.others = lapses.others + 1
<1>1. running \in [session : Sessions, level : Levels, shown : BOOLEAN] /\ minute \in Nat
      /\ running.session \in Nat /\ LastSession + 1 \in Nat /\ lapses \in LapseCounts
  BY WatchAssumption DEF WatchTypeOK, Sessions
<1>2. CASE /\ thread' = [session |-> running.session, level |-> running.level, at |-> minute]
           /\ running' = [running EXCEPT !.shown = TRUE]
           /\ lapses' = IF Overtaken THEN [lapses EXCEPT !.overtaken = @ + 1] ELSE lapses
  <2>1. /\ lapses' \in LapseCounts /\ lapses'.overlaps = lapses.overlaps
        /\ \/ lapses' = lapses /\ ~Overtaken
           \/ lapses'.overtaken = lapses.overtaken + 1 /\ lapses'.others = lapses.others
    BY <1>1, <1>2 DEF LapseCounts
  <2> QED BY <1>1, <1>2, <2>1 DEF ThreadUpdated, askedVars
<1>3. CASE /\ Lapse(1) /\ UNCHANGED running
           /\ \E level \in Levels : thread' = [session |-> LastSession + 1, level |-> level, at |-> minute]
  <2>1. lapses' = [lapses EXCEPT !.others = @ + 1]
    BY <1>3 DEF Lapse
  <2>2. /\ lapses' \in LapseCounts /\ lapses'.overtaken = lapses.overtaken
        /\ lapses'.overlaps = lapses.overlaps /\ lapses'.others = lapses.others + 1
    BY <1>1, <2>1 DEF LapseCounts
  <2>3. thread' \in [session : Nat, level : Levels, at : Nat]
    BY <1>1, <1>3
  <2> QED BY <1>1, <1>3, <2>2, <2>3 DEF ThreadUpdated, askedVars
<1> QED BY <1>2, <1>3 DEF ThreadUpdated

LEMMA WorldCase ==
  ASSUME WatchTypeOK, ContextFills \/ NewSession \/ MinutePasses
  PROVE  /\ UNCHANGED <<watched, watchFile, line, turns, poller, poll, thread, asked, strays, costLog, lapses>>
         /\ minute' = minute \/ poll.at # "record"
         /\ running' \in [session : Sessions, level : Levels, shown : BOOLEAN]
         /\ minute' \in Nat \ {0} /\ minute' >= minute
         /\ \/ running'.session = running.session /\ running'.shown = running.shown
            \/ running'.session = running.session + 1 /\ ~running'.shown
<1>1. running \in [session : Sessions, level : Levels, shown : BOOLEAN] /\ minute \in Nat \ {0}
  BY DEF WatchTypeOK
<1>2. CASE ContextFills
  BY <1>1, <1>2 DEF ContextFills, askedVars
<1>3. CASE NewSession
  <2>1. running' = [session |-> running.session + 1, level |-> "low", shown |-> FALSE]
        /\ running.session < LastSession
    BY <1>3 DEF NewSession
  <2>2. running.session + 1 \in Sessions /\ "low" \in Levels
    BY <1>1, <2>1, WatchAssumption DEF Sessions, Levels
  <2> QED BY <1>1, <1>3, <2>1, <2>2 DEF NewSession, askedVars
<1>4. CASE MinutePasses
  BY <1>1, <1>4 DEF MinutePasses, askedVars
<1> QED BY <1>2, <1>3, <1>4

\* What all of them leave alone, and how the rest may change.
LEMMA OtherwiseEffect ==
  ASSUME WatchTypeOK, Otherwise
  PROVE  /\ UNCHANGED <<watched, watchFile, line, turns, costLog>>
         /\ minute' \in Nat \ {0} /\ minute' >= minute
         /\ poller' \in Pollers /\ poll' \in Polls
         /\ thread' \in [session : Nat, level : Levels, at : Nat]
         /\ asked' \in [Requests -> [last : Nat, early : Nat]] /\ strays' \in Nat
         /\ lapses' \in LapseCounts /\ lapses'.overtaken >= lapses.overtaken
         /\ lapses'.overlaps = lapses.overlaps /\ lapses'.others >= lapses.others
         /\ running' \in [session : Sessions, level : Levels, shown : BOOLEAN]
         /\ \/ /\ running'.session = running.session /\ (running.shown => running'.shown)
               /\ running'.shown => running.shown \/ watched = "codex"
            \/ running'.session = running.session + 1 /\ ~running'.shown
<1>0. /\ running \in [session : Sessions, level : Levels, shown : BOOLEAN] /\ minute \in Nat \ {0}
      /\ poller \in Pollers /\ thread \in [session : Nat, level : Levels, at : Nat]
      /\ asked \in [Requests -> [last : Nat, early : Nat]] /\ strays \in Nat
      /\ lapses \in LapseCounts /\ lapses.others \in Nat /\ lapses.overtaken \in Nat /\ poll \in Polls
  BY DEF WatchTypeOK, LapseCounts
<1>1. CASE PollFull \/ PollNear
  BY <1>0, <1>1, PollAsksCase
<1>5. CASE PollTries
  <2>1. asked' \in [Requests -> [last : Nat, early : Nat]] /\ strays' \in Nat
        /\ lapses'.others >= lapses.others
    BY <1>0, <1>5, TriesCase DEF Made
  <2> QED BY <1>0, <1>5, <2>1, TriesCase
<1>6. CASE PollRecords
  BY <1>0, <1>6, RecordsCase, NothingInHand
<1>2. CASE PollerRestarts
  BY <1>0, <1>2, RestartCase, NothingInHand
<1>3. CASE ThreadUpdated
  BY <1>0, <1>3, ThreadCase
<1>4. CASE ContextFills \/ NewSession \/ MinutePasses
  BY <1>0, <1>4, WorldCase
<1> QED BY <1>1, <1>2, <1>3, <1>4, <1>5, <1>6 DEF Otherwise

-----------------------------------------------------------------------------
(* Each part of the invariant is kept *)

LEMMA LapsesAtStart ==
  ASSUME WatchTypeOK, NEW p \in Statuslines, LineStarts(p)
  PROVE  /\ lapses' \in LapseCounts /\ lapses'.others = lapses.others
         /\ lapses'.overtaken = lapses.overtaken
         /\ lapses'.overlaps = IF Busy = {} THEN lapses.overlaps ELSE lapses.overlaps + 1
<1>1. lapses \in LapseCounts
  BY DEF WatchTypeOK
<1>2. lapses' = IF Busy = {} THEN lapses ELSE [lapses EXCEPT !.overlaps = @ + 1]
  BY DEF LineStarts, Overlapping, Busy
<1> QED BY <1>1, <1>2 DEF LapseCounts

LEMMA CostsLoggedBy ==
  ASSUME WatchTypeOK, NEW p \in Statuslines, LogCost(p)
  PROVE  /\ costLog' \in [Sessions -> CostRecords]
         /\ \A s \in Sessions :
              /\ costLog'[s].known = costLog[s].known
              /\ Noted(s) => Noted(s)'
              /\ \/ costLog'[s].lines = costLog[s].lines
                 \/ costLog'[s].lines = costLog[s].lines + 1 /\ s = watchFile.session /\ s # line[p].session
                      /\ lapses' = lapses
              /\ s = watchFile.session /\ s # line[p].session /\ watchFile.cost => Noted(s)'
<1> DEFINE f == watchFile.session
<1>1. costLog \in [Sessions -> CostRecords]
  BY DEF WatchTypeOK
<1>2. CASE f \in Sessions \ {line[p].session} /\ watchFile.cost
  <2> DEFINE x == [costLog[f] EXCEPT !.lines = @ + 1]
             y == [costLog[f] EXCEPT !.lost = TRUE]
  <2>1. \/ costLog' = [costLog EXCEPT ![f] = x] /\ lapses' = lapses
        \/ costLog' = [costLog EXCEPT ![f] = y]
    BY <1>1, <1>2 DEF LogCost
  <2>2. /\ x \in CostRecords /\ x.known = costLog[f].known /\ x.lines = costLog[f].lines + 1
        /\ x.lost = costLog[f].lost
        /\ y \in CostRecords /\ y.known = costLog[f].known /\ y.lines = costLog[f].lines /\ y.lost
        /\ costLog[f].lines \in Nat
    <3>1. costLog[f] \in CostRecords
      BY <1>1, <1>2
    <3> HIDE DEF f
    <3>2. x \in CostRecords /\ x.known = costLog[f].known /\ x.lines = costLog[f].lines + 1 /\ x.lost = costLog[f].lost
      BY <3>1 DEF CostRecords
    <3>3. y \in CostRecords /\ y.known = costLog[f].known /\ y.lines = costLog[f].lines /\ y.lost
      BY <3>1 DEF CostRecords
    <3> QED BY <3>1, <3>2, <3>3 DEF CostRecords
  <2> HIDE DEF x, y, f
  <2>3. ASSUME NEW z \in CostRecords, costLog' = [costLog EXCEPT ![f] = z]
        PROVE  /\ costLog' \in [Sessions -> CostRecords]
               /\ \A s \in Sessions : costLog'[s] = IF s = f THEN z ELSE costLog[s]
    BY <1>1, <1>2, <2>3
  <2>4. CASE costLog' = [costLog EXCEPT ![f] = x] /\ lapses' = lapses
    <3>1. \A s \in Sessions : costLog'[s] = IF s = f THEN x ELSE costLog[s]
      BY <2>2, <2>3, <2>4
    <3>2. ASSUME NEW s \in Sessions, s = f
          PROVE  /\ costLog'[s].known = costLog[s].known /\ costLog'[s].lines = costLog[s].lines + 1
                 /\ costLog'[s].lost = costLog[s].lost /\ Noted(s)'
      BY <2>2, <3>1, <3>2 DEF Noted
    <3>3. ASSUME NEW s \in Sessions, s # f
          PROVE  costLog'[s] = costLog[s]
      BY <3>1, <3>3
    <3>4. f = watchFile.session /\ f # line[p].session
      BY <1>2 DEF f
    <3> QED BY <2>2, <2>3, <2>4, <3>2, <3>3, <3>4 DEF Noted
  <2>5. CASE costLog' = [costLog EXCEPT ![f] = y]
    BY <1>2, <2>2, <2>3, <2>5 DEF f, Noted
  <2> QED BY <2>1, <2>4, <2>5
<1>3. CASE ~(f \in Sessions \ {line[p].session} /\ watchFile.cost)
  <2>1. costLog' = costLog
    BY <1>3 DEF LogCost
  <2> QED BY <1>1, <1>3, <2>1 DEF Noted
<1> QED BY <1>2, <1>3

LEMMA SessionKnown ==
  ASSUME WatchTypeOK, NEW p \in Statuslines, line[p].session # 0, TrackSession(p)
  PROVE  /\ costLog' \in [Sessions -> CostRecords]
         /\ line[p].session \in Sessions
         /\ \A s \in Sessions :
              /\ costLog'[s].known = (costLog[s].known \/ (s = line[p].session /\ CostOnFile(p)))
              /\ costLog'[s].lines = costLog[s].lines /\ costLog'[s].lost = costLog[s].lost
<1> DEFINE f == line[p].session
           c == costLog[f].known \/ CostOnFile(p)
           x == [costLog[f] EXCEPT !.known = c]
<1>1. costLog \in [Sessions -> CostRecords] /\ f \in Sessions
      /\ CostOnFile(p) \in BOOLEAN
  BY WatchAssumption DEF WatchTypeOK, Lines, Sessions, CostOnFile, WatchFiles
<1>2. costLog' = [costLog EXCEPT ![f] = x]
  BY <1>1 DEF TrackSession, CostRecords
<1>0. c \in BOOLEAN
  BY <1>1
<1> HIDE DEF c
<1>3. x \in CostRecords /\ x.known = c /\ x.lines = costLog[f].lines
      /\ x.lost = costLog[f].lost
  BY <1>0, <1>1 DEF CostRecords
<1> HIDE DEF x, f
<1>4. costLog' \in [Sessions -> CostRecords]
      /\ \A s \in Sessions : costLog'[s] = IF s = f THEN x ELSE costLog[s]
  BY <1>1, <1>2, <1>3
<1>5. \A s \in Sessions : costLog[s].known \in BOOLEAN
  BY <1>1 DEF CostRecords
<1> QED BY <1>1, <1>3, <1>4, <1>5 DEF f, c

LEMMA WatchTypeStep ==
  ASSUME WatchTypeOK, Seeing, WatchNext
  PROVE  WatchTypeOK'
<1>0. asked \in [Requests -> [last : Nat, early : Nat]]
  BY DEF WatchTypeOK
<1>1. CASE Otherwise
  BY <1>1, OtherwiseEffect DEF WatchTypeOK
<1>2. ASSUME NEW p \in Statuslines, LineStarts(p)
      PROVE  WatchTypeOK'
  BY <1>2, StartsEffect, LapsesAtStart DEF WatchTypeOK, LineStarts, Kept, askedVars
<1>3. ASSUME NEW p \in Statuslines, LogCost(p)
      PROVE  WatchTypeOK'
  BY <1>3, LogEffect, CostsLoggedBy DEF WatchTypeOK, LogCost, Kept, askedVars
<1>4. ASSUME NEW p \in Statuslines, TrackSession(p)
      PROVE  WatchTypeOK'
  <2>1. line[p].session # 0
    BY <1>4, TrackEffect DEF Seeing, Busy
  <2> QED BY <1>4, <2>1, TrackEffect, SessionKnown DEF WatchTypeOK, TrackSession, Kept, askedVars
<1>5. ASSUME NEW p \in Statuslines, Decide(p)
      PROVE  WatchTypeOK'
  BY <1>5, DecideEffect DEF WatchTypeOK, Decide, Kept, askedVars
<1>6. ASSUME NEW p \in Statuslines, Enqueues(p)
      PROVE  WatchTypeOK'
  <2>1. asked' \in [Requests -> [last : Nat, early : Nat]] /\ strays' \in Nat
    BY <1>6, EnqueuesEffect DEF Made
  <2> QED BY <1>6, <2>1, EnqueuesEffect DEF WatchTypeOK, Enqueues, Kept
<1>7. ASSUME NEW p \in Statuslines, SaveRequest(p)
      PROVE  WatchTypeOK'
  BY <1>7, SaveEffect DEF WatchTypeOK, SaveRequest, Kept, askedVars
<1>8. ASSUME NEW p \in Statuslines, LineDies(p)
      PROVE  WatchTypeOK'
  BY <1>8, DiesEffect DEF WatchTypeOK, LineDies, Kept, askedVars
<1> QED BY <1>1, <1>2, <1>3, <1>4, <1>5, <1>6, <1>7, <1>8, NextCases

\* What has been seen stays so.
LEMMA StillShown ==
  ASSUME WatchTypeOK, WatchNext
  PROVE  /\ \A s \in Nat : Shown(s) => Shown(s)'
         /\ running.session \in Nat \ {0} /\ running'.session >= running.session
         /\ running'.session \in Nat
<1>0. running.session \in Nat \ {0}
  BY DEF WatchTypeOK, Sessions
<1>1. CASE Otherwise
  BY <1>0, <1>1, OtherwiseEffect DEF Shown
<1>2. ASSUME NEW p \in Statuslines, LineStarts(p)
      PROVE  running'.session = running.session /\ running'.shown
  BY <1>2, StartsEffect
<1>3. ASSUME NEW p \in Statuslines, LogCost(p) \/ TrackSession(p) \/ Decide(p)
                                    \/ Enqueues(p) \/ SaveRequest(p) \/ LineDies(p)
      PROVE  running' = running
  BY <1>3 DEF LogCost, TrackSession, Decide, Enqueues, SaveRequest, LineDies
<1> QED BY <1>0, <1>1, <1>2, <1>3, NextCases DEF Shown

\* The last two of Seeing, of one process.
Sees(p) ==
  /\ line[p].read.session = 0 \/ Shown(line[p].read.session)
  /\ line[p].at # "no" => line[p].session # 0 /\ Shown(line[p].session)

FileSeen == watchFile.session = 0 \/ Shown(watchFile.session)

LEMMA SeeingStep ==
  ASSUME WatchTypeOK, Seeing, WatchNext
  PROVE  Seeing'
<1>1. \A q \in Statuslines : Sees(q) /\ line[q].session \in Nat /\ line[q].read.session \in Nat
  BY WatchAssumption DEF Seeing, Sees, Busy, WatchTypeOK, Lines, WatchFiles
<1>2. /\ watchFile.session = 0 \/ Shown(watchFile.session)
      /\ watchFile.session \in Nat /\ (Busy # {} => watched = "claude")
  BY WatchAssumption DEF Seeing, WatchTypeOK, WatchFiles
<1>3. \A q \in Statuslines : line'[q] = line[q] => Sees(q)'
  BY <1>1, StillShown DEF Sees
<1>4. (watchFile' = watchFile) => FileSeen'
  <2>1. Shown(watchFile.session) => Shown(watchFile.session)' \/ watchFile' # watchFile
    BY <1>2, StillShown DEF Shown
  <2> QED BY <1>2, <2>1 DEF FileSeen
<1>5. \A q \in Statuslines : line'[q] = NoLine => Sees(q)'
  BY NothingInHand, NothingOnFile DEF Sees
<1>6. SUFFICES /\ watched' = watched /\ (watched = "claude" \/ line' = line)
               /\ FileSeen'
               /\ \A q \in Statuslines : Sees(q)'
  <2>1. Busy' # {} => watched' = "claude"
    BY <1>2, <1>6 DEF Busy
  <2> QED BY <1>6, <2>1 DEF Seeing, Sees, Busy, FileSeen
<1>7. CASE Otherwise
  <2>1. UNCHANGED <<watched, watchFile, line>>
    BY <1>7, OtherwiseEffect
  <2> QED BY <1>3, <1>4, <2>1
<1>8. ASSUME NEW p \in Statuslines, LineStarts(p)
      PROVE  watched' = watched /\ watched = "claude" /\ watchFile' = watchFile /\ Sees(p)' /\ Kept(p)
  BY <1>8, StartsEffect, StillShown, NothingOnFile DEF LineStarts, Sees, Shown
<1>9. ASSUME NEW p \in Statuslines, LogCost(p)
      PROVE  watched' = watched /\ watchFile' = watchFile /\ Sees(p)' /\ Kept(p) /\ p \in Busy
  <2>1. /\ Kept(p) /\ p \in Busy /\ watchFile' = watchFile /\ watched' = watched
        /\ line'[p].session = line[p].session /\ line'[p].read = watchFile
    BY <1>9, LogEffect DEF Busy, LogCost
  <2>2. Shown(line[p].session) /\ line[p].session \in Nat /\ line[p].session # 0
    BY <1>1, <2>1 DEF Sees, Busy
  <2>3. Sees(p)'
    BY <1>2, <2>1, <2>2, StillShown DEF Sees
  <2> QED BY <2>1, <2>3
<1>10. ASSUME NEW p \in Statuslines, TrackSession(p)
       PROVE  watched' = watched /\ FileSeen' /\ Sees(p)' /\ Kept(p) /\ p \in Busy
  <2>1. Kept(p) /\ p \in Busy /\ watchFile'.session = line[p].session /\ watched' = watched
    BY <1>10, TrackEffect DEF Busy, TrackSession
  <2>2. Shown(line[p].session) /\ line[p].session \in Nat /\ line[p].session # 0
    BY <1>1, <2>1 DEF Sees, Busy
  <2>3. Sees(p)'
    BY <1>5, <1>10, <2>2, TrackEffect, NothingOnFile, StillShown DEF Sees
  <2>4. FileSeen'
    BY <2>1, <2>2, StillShown DEF FileSeen, Shown
  <2> QED BY <2>1, <2>3, <2>4
<1>11. ASSUME NEW p \in Statuslines, Decide(p)
       PROVE  watched' = watched /\ watchFile' = watchFile /\ Sees(p)' /\ Kept(p) /\ p \in Busy
  <2>1. Kept(p) /\ p \in Busy /\ watchFile' = watchFile /\ watched' = watched
    BY <1>11, DecideEffect DEF Busy, Decide
  <2>2. Shown(line[p].session) /\ line[p].session \in Nat /\ line[p].session # 0
    BY <1>1, <2>1 DEF Sees, Busy
  <2>3. Sees(p)'
    BY <1>2, <1>5, <1>11, <2>2, DecideEffect, StillShown DEF Sees
  <2> QED BY <2>1, <2>3
<1>12. ASSUME NEW p \in Statuslines, Enqueues(p)
       PROVE  watched' = watched /\ watchFile' = watchFile /\ Sees(p)' /\ Kept(p) /\ p \in Busy
  <2>1. Kept(p) /\ p \in Busy /\ watchFile' = watchFile /\ watched' = watched
    BY <1>12, EnqueuesEffect DEF Busy, Enqueues
  <2>2. Shown(line[p].session) /\ line[p].session \in Nat /\ line[p].session # 0
    BY <1>1, <2>1 DEF Sees, Busy
  <2>3. Sees(p)'
    BY <1>1, <1>5, <1>12, <2>2, EnqueuesEffect, StillShown DEF Sees
  <2> QED BY <2>1, <2>3
<1>13. ASSUME NEW p \in Statuslines, SaveRequest(p)
       PROVE  watched' = watched /\ FileSeen' /\ Sees(p)' /\ Kept(p) /\ p \in Busy
  <2>1. /\ Kept(p) /\ p \in Busy /\ watchFile'.session = line[p].read.session /\ watched' = watched
        /\ Sees(p)'
    BY <1>5, <1>13, SaveEffect DEF Busy, SaveRequest
  <2>2. FileSeen'
    BY <1>1, <2>1, StillShown DEF Sees, FileSeen, Shown
  <2> QED BY <2>1, <2>2
<1>14. ASSUME NEW p \in Statuslines, LineDies(p)
       PROVE  watched' = watched /\ watchFile' = watchFile /\ Sees(p)' /\ Kept(p) /\ p \in Busy
  BY <1>5, <1>14, DiesEffect DEF LineDies, Busy
<1>15. ASSUME NEW p \in Statuslines, Kept(p), Sees(p)'
       PROVE  \A q \in Statuslines : Sees(q)'
  BY <1>3, <1>15 DEF Kept
<1>16. CASE \E p \in Statuslines : \/ LineStarts(p) \/ LogCost(p) \/ TrackSession(p) \/ Decide(p)
                                   \/ Enqueues(p) \/ SaveRequest(p) \/ LineDies(p)
  <2>1. PICK p \in Statuslines : /\ watched' = watched /\ FileSeen' /\ Sees(p)' /\ Kept(p)
                                /\ watched = "claude"
    BY <1>2, <1>4, <1>8, <1>9, <1>10, <1>11, <1>12, <1>13, <1>14, <1>16
  <2> QED BY <1>15, <2>1
<1> QED BY <1>7, <1>16, NextCases

LEMMA MadeLater ==
  ASSUME WatchTypeOK, NEW r \in Requests, NEW now \in Nat, NEW session, NEW rows \in Nat,
         Made(r, now, session, rows), now <= minute, \A q \in Requests : asked[q].last <= minute
  PROVE  \A q \in Requests : /\ asked'[q].last \in Nat /\ asked'[q].last >= asked[q].last
                             /\ asked'[q].last <= minute
                             /\ rows > 0 => asked'[r].last >= now
<1>1. \A q \in Requests : asked[q].last \in Nat
  BY DEF WatchTypeOK
<1>2. minute \in Nat
  BY DEF WatchTypeOK
<1>3. asked'[r].last = asked[r].last \/ asked'[r].last = (IF now > asked[r].last THEN now ELSE asked[r].last)
  BY DEF Made
<1>4. rows > 0 => asked'[r].last = (IF now > asked[r].last THEN now ELSE asked[r].last)
  BY DEF Made
<1>5. \A q \in Requests \ {r} : asked'[q] = asked[q]
  BY DEF Made
<1> QED BY <1>1, <1>2, <1>3, <1>4, <1>5

\* Times only grow.
Later ==
  /\ minute' \in Nat /\ minute' >= minute
  /\ \A r \in Requests : asked'[r].last \in Nat /\ asked'[r].last >= asked[r].last /\ asked'[r].last <= minute'

LEMMA NoneEarlier ==
  ASSUME WatchTypeOK, Earned, WatchNext
  PROVE  Later
<1>1. /\ \A r \in Requests : asked[r].last \in Nat /\ asked[r].last <= minute
      /\ minute \in Nat
  BY DEF WatchTypeOK, Earned
<1>2. CASE UNCHANGED <<minute, asked>>
  BY <1>1, <1>2 DEF Later
<1>3. ASSUME NEW r \in Requests, NEW now \in Nat, NEW session, NEW rows \in Nat,
             Made(r, now, session, rows), now <= minute, minute' = minute
      PROVE  Later
  <2>1. \A q \in Requests : /\ asked'[q].last \in Nat /\ asked'[q].last >= asked[q].last
                             /\ asked'[q].last <= minute
    BY <1>1, <1>3, MadeLater
  <2> QED BY <1>1, <1>3, <2>1 DEF Later
<1>4. CASE Otherwise
  <2>1. CASE PollFull \/ PollNear \/ PollRecords
    BY <1>2, <2>1, PollAsksCase, RecordsCase
  <2>5. CASE PollTries
    <3>1. PICK queued \in 0 .. 1 : Made(poll.want, minute, poll.of, queued)
      BY <2>5, TriesCase
    <3>2. queued \in Nat /\ minute' = minute /\ poll.want \in Requests
      BY <2>5, TriesCase DEF WatchTypeOK, Polls
    <3> QED BY <1>1, <1>3, <3>1, <3>2
  <2>2. CASE PollerRestarts
    BY <1>2, <2>2, RestartCase
  <2>3. CASE ThreadUpdated
    BY <1>2, <2>3, ThreadCase
  <2>4. CASE ContextFills \/ NewSession \/ MinutePasses
    BY <1>1, <2>4, WorldCase DEF Later
  <2> QED BY <1>4, <2>1, <2>2, <2>3, <2>4, <2>5 DEF Otherwise
<1>5. ASSUME NEW p \in Statuslines, LineStarts(p) \/ LogCost(p) \/ TrackSession(p) \/ Decide(p)
                                    \/ SaveRequest(p) \/ LineDies(p)
      PROVE  UNCHANGED <<minute, asked>>
  BY <1>5 DEF LineStarts, LogCost, TrackSession, Decide, SaveRequest, LineDies, askedVars
<1>6. ASSUME NEW p \in Statuslines, Enqueues(p)
      PROVE  Later
  <2>1. minute' = minute /\ line[p].now \in Nat /\ line[p].now <= minute /\ 0 \in Nat /\ 1 \in Nat
    BY <1>6 DEF Enqueues, WatchTypeOK, Lines, Earned, Ready
  <2>2. \/ Made(Wanted(p), line[p].now, line[p].session, 0)
        \/ Made(Wanted(p), line[p].now, line[p].session, 1)
    BY <1>6, EnqueuesEffect
  <2> QED BY <1>3, <2>1, <2>2, WantedFacts
<1> QED BY <1>2, <1>4, <1>5, <1>6, NextCases

FileEarned == \A r \in Requests : watchFile[r] <= asked[r].last
PollerEarned == \A r \in Requests : poller[r] <= asked[r].last

LEMMA EarnedStep ==
  ASSUME WatchTypeOK, Earned, Polling, WatchNext
  PROVE  Earned'
<1>1. Later
  BY NoneEarlier
<1>2. /\ \A r \in Requests : asked[r].last \in Nat /\ asked[r].last <= minute
                             /\ poller[r] \in Nat /\ watchFile[r] \in Nat
                             /\ \A q \in Statuslines : line[q].read[r] \in Nat
      /\ minute \in Nat /\ \A q \in Statuslines : line[q].now \in Nat
  <2>1. minute \in Nat /\ \A q \in Statuslines : line[q].now \in Nat
    BY DEF WatchTypeOK, Lines
  <2>2. \A r \in Requests : asked[r].last \in Nat /\ asked[r].last <= minute
    BY DEF WatchTypeOK, Earned
  <2>3. \A r \in Requests : poller[r] \in Nat /\ watchFile[r] \in Nat
                            /\ \A q \in Statuslines : line[q].read[r] \in Nat
    BY DEF WatchTypeOK, Lines, WatchFiles, Requests, Pollers
  <2> QED BY <2>1, <2>2, <2>3
<1>3. FileEarned /\ PollerEarned /\ \A q \in Statuslines : Ready(q)
  BY DEF Earned, CooldownsAreEarned, FileEarned, PollerEarned, Requests, WatchTypeOK
<1>4. \A q \in Statuslines : line'[q] = line[q] => Ready(q)'
  <2> SUFFICES ASSUME NEW q \in Statuslines, line'[q] = line[q]
               PROVE  Ready(q)'
    OBVIOUS
  <2>1. Wanted(q)' = Wanted(q) /\ Wanted(q) \in Requests
    BY WantedFacts DEF Wanted
  <2> QED BY <1>1, <1>2, <1>3, <2>1 DEF Ready, Later
<1>5. \A q \in Statuslines : line'[q] = NoLine => Ready(q)'
  BY <1>1, NothingInHand, NothingOnFile DEF Ready, Later
<1>6. watchFile' = watchFile => FileEarned'
  BY <1>1, <1>2, <1>3 DEF FileEarned, Later
<1>7. SUFFICES FileEarned' /\ PollerEarned' /\ \A q \in Statuslines : Ready(q)'
  <2>1. poller'.switch = poller'["switch"] /\ poller'.sync = poller'["sync"]
    OBVIOUS
  <2> QED BY <1>1, <1>7, <2>1 DEF Earned, CooldownsAreEarned, FileEarned, PollerEarned, Requests, Later
<1>8. CASE Otherwise
  <2>1. UNCHANGED <<watchFile, line>>
    BY <1>8, OtherwiseEffect
  <2>2. PollerEarned'
    <3>1. CASE poller' = poller \/ \A r \in Requests : poller'[r] = poller[r]
      BY <1>1, <1>2, <1>3, <3>1 DEF PollerEarned, Later
    <3>2. CASE PollerRestarts
      BY <1>1, <3>2, RestartCase DEF PollerEarned, Later
    <3>3. CASE PollRecords
      <4>1. /\ poll.want \in Requests /\ poller'[poll.want] \in {minute, poll.now} /\ asked' = asked
            /\ \A r \in Requests \ {poll.want} : poller'[r] = poller[r]
            /\ poll.at = "record" /\ poll.now \in Nat
        BY <3>3, RecordsCase DEF WatchTypeOK, Polls
      <4>2. minute = asked[poll.want].last /\ poll.now <= asked[poll.want].last
        BY <4>1 DEF Polling
      <4> QED BY <1>2, <1>3, <4>1, <4>2 DEF PollerEarned
    <3> QED BY <1>8, <3>1, <3>2, <3>3, PollAsksCase, TriesCase, ThreadCase, WorldCase DEF Otherwise
  <2> QED BY <1>4, <1>6, <2>1, <2>2
<1>9. ASSUME NEW p \in Statuslines, Kept(p), Ready(p)', FileEarned', poller' = poller
      PROVE  FileEarned' /\ PollerEarned' /\ \A q \in Statuslines : Ready(q)'
  <2>1. PollerEarned'
    BY <1>1, <1>2, <1>3, <1>9 DEF PollerEarned, Later
  <2> QED BY <1>4, <1>9, <2>1 DEF Kept
<1>10. ASSUME NEW p \in Statuslines, LineStarts(p)
       PROVE  Kept(p) /\ Ready(p)' /\ FileEarned' /\ poller' = poller
  <2>1. watchFile' = watchFile /\ poller' = poller
    BY <1>10 DEF LineStarts
  <2> QED BY <1>1, <1>6, <1>10, <2>1, StartsEffect, NothingOnFile DEF Ready, Later
<1>11. ASSUME NEW p \in Statuslines, LogCost(p)
       PROVE  Kept(p) /\ Ready(p)' /\ FileEarned' /\ poller' = poller
  <2>1. watchFile' = watchFile /\ poller' = poller
    BY <1>11 DEF LogCost
  <2>2. line[p].now <= minute'
    BY <1>1, <1>2, <1>3 DEF Ready, Later
  <2>3. \A r \in Requests : watchFile[r] <= asked'[r].last
    BY <1>1, <1>2, <1>3 DEF FileEarned, Later
  <2> QED BY <1>6, <1>11, <2>1, <2>2, <2>3, LogEffect DEF Ready
<1>12. ASSUME NEW p \in Statuslines, TrackSession(p)
       PROVE  Kept(p) /\ Ready(p)' /\ FileEarned' /\ poller' = poller
  <2>1. poller' = poller
    BY <1>12 DEF TrackSession
  <2>2. line[p].now <= minute'
    BY <1>1, <1>2, <1>3 DEF Ready, Later
  <2>3. \A r \in Requests : line[p].read[r] <= asked'[r].last
    BY <1>1, <1>2, <1>3 DEF Ready, Later
  <2>4. FileEarned'
    BY <1>12, <2>3, TrackEffect DEF FileEarned
  <2>5. Ready(p)'
    <3>1. \A r \in Requests : 0 <= asked'[r].last
      BY <1>1 DEF Later
    <3> QED BY <1>5, <1>12, <2>2, <3>1, TrackEffect, NothingOnFile DEF Ready
  <2> QED BY <1>12, <2>1, <2>4, <2>5, TrackEffect
<1>13. ASSUME NEW p \in Statuslines, Decide(p)
       PROVE  Kept(p) /\ Ready(p)' /\ FileEarned' /\ poller' = poller
  <2>1. watchFile' = watchFile /\ poller' = poller /\ minute' = minute
    BY <1>13 DEF Decide
  <2>2. \A r \in Requests : watchFile[r] <= asked'[r].last
    BY <1>1, <1>2, <1>3 DEF FileEarned, Later
  <2>3. CASE line'[p] = NoLine
    BY <1>5, <1>6, <1>13, <2>1, <2>3, DecideEffect
  <2>4. CASE line'[p] # NoLine
    <3>1. /\ line'[p].at = "ask" /\ line'[p].read = watchFile /\ line'[p].now = minute
          /\ ~Cooling(Wanted(p), watchFile[Wanted(p)]) /\ line'[p].level = line[p].level
      BY <1>13, <2>4, DecideEffect
    <3>2. Wanted(p)' = Wanted(p) /\ Wanted(p) \in Requests
      BY <3>1, WantedFacts DEF Wanted
    <3>3. watchFile[Wanted(p)] = 0 \/ minute >= watchFile[Wanted(p)] + WatchCooldown[Wanted(p)]
      BY <1>2, <3>1, <3>2, WantedFacts DEF Cooling
    <3>4. Ready(p)'
      BY <1>2, <2>1, <2>2, <3>1, <3>2, <3>3 DEF Ready
    <3> QED BY <1>6, <1>13, <2>1, <3>4, DecideEffect
  <2> QED BY <2>3, <2>4
<1>14. ASSUME NEW p \in Statuslines, Enqueues(p)
       PROVE  Kept(p) /\ Ready(p)' /\ FileEarned' /\ poller' = poller
  <2>1. watchFile' = watchFile /\ poller' = poller /\ minute' = minute
    BY <1>14 DEF Enqueues
  <2>2. CASE line'[p] = NoLine
    BY <1>5, <1>6, <1>14, <2>1, <2>2, EnqueuesEffect
  <2>3. CASE line'[p] # NoLine
    <3>1. /\ line'[p].at = "save" /\ line'[p].read = line[p].read /\ line'[p].now = line[p].now
          /\ line'[p].level = line[p].level /\ Made(Wanted(p), line[p].now, line[p].session, 1)
      BY <1>14, <2>3, EnqueuesEffect
    <3>2. Wanted(p)' = Wanted(p) /\ Wanted(p) \in Requests
      BY <3>1, WantedFacts DEF Wanted
    <3>3. line[p].now <= minute /\ \A r \in Requests : line[p].read[r] <= asked'[r].last
      BY <1>1, <1>2, <1>3 DEF Ready, Later
    <3>4. asked'[Wanted(p)].last >= line[p].now
      BY <1>2, <3>1, <3>2, <3>3, MadeLater
    <3>5. Ready(p)'
      BY <1>1, <1>2, <2>1, <3>1, <3>2, <3>3, <3>4 DEF Ready, Later
    <3> QED BY <1>6, <1>14, <2>1, <3>5, EnqueuesEffect
  <2> QED BY <2>2, <2>3
<1>15. ASSUME NEW p \in Statuslines, SaveRequest(p)
       PROVE  Kept(p) /\ Ready(p)' /\ FileEarned' /\ poller' = poller
  <2>1. poller' = poller /\ line[p].at = "save"
    BY <1>15 DEF SaveRequest
  <2>2. \A r \in Requests : line[p].read[r] <= asked'[r].last
    BY <1>1, <1>2, <1>3 DEF Ready, Later
  <2>3. Wanted(p) \in Requests /\ line[p].now <= asked'[Wanted(p)].last
    BY <1>1, <1>2, <1>3, <2>1, WantedFacts DEF Ready, Later
  <2>4. FileEarned'
    BY <1>15, <2>2, <2>3, SaveEffect DEF FileEarned
  <2> QED BY <1>5, <1>15, <2>1, <2>4, SaveEffect
<1>16. ASSUME NEW p \in Statuslines, LineDies(p)
       PROVE  Kept(p) /\ Ready(p)' /\ FileEarned' /\ poller' = poller
  BY <1>5, <1>6, <1>16, DiesEffect DEF LineDies
<1> QED BY <1>8, <1>9, <1>10, <1>11, <1>12, <1>13, <1>14, <1>15, <1>16, NextCases


\* A process of the status line goes on, or ends.
LEMMA GoesOn ==
  ASSUME WatchTypeOK, Seeing, NEW p \in Statuslines,
         LogCost(p) \/ TrackSession(p) \/ Decide(p) \/ Enqueues(p) \/ SaveRequest(p) \/ LineDies(p)
  PROVE  /\ Kept(p) /\ p \in Busy /\ watched = "claude"
         /\ line'[p].at = "no" \/ line'[p].session = line[p].session
         /\ UNCHANGED <<watched, running, poller, poll, thread, minute>>
         /\ \A q \in Busy' : q \in Busy /\ line'[q].session = line[q].session
<1>1. Kept(p) /\ p \in Busy /\ (line'[p].at = "no" \/ line'[p].session = line[p].session)
  BY LogEffect, TrackEffect, DecideEffect, EnqueuesEffect, SaveEffect, DiesEffect, NothingInHand DEF Busy
<1>2. UNCHANGED <<watched, running, poller, poll, thread, minute>>
  BY DEF LogCost, TrackSession, Decide, Enqueues, SaveRequest, LineDies
<1>3. watched = "claude"
  BY <1>1 DEF Seeing
<1>4. \A q \in Busy' : q \in Busy /\ line'[q].session = line[q].session
  BY <1>1 DEF Kept, Busy
<1> QED BY <1>1, <1>2, <1>3, <1>4

\* The exceptions only become more.
LEMMA MoreLapses ==
  ASSUME WatchTypeOK, WatchNext
  PROVE  /\ lapses.overlaps \in Nat /\ lapses.overtaken \in Nat /\ lapses.others \in Nat /\ Lapses \in Nat
         /\ lapses'.overlaps \in Nat /\ lapses'.overtaken \in Nat /\ lapses'.others \in Nat /\ Lapses' \in Nat
         /\ lapses'.overlaps >= lapses.overlaps /\ lapses'.others >= lapses.others
         /\ lapses'.overtaken >= lapses.overtaken /\ Lapses' >= Lapses
<1>1. lapses.overlaps \in Nat /\ lapses.overtaken \in Nat /\ lapses.others \in Nat
  BY DEF WatchTypeOK, LapseCounts
<1> DEFINE more == /\ lapses'.overlaps \in Nat /\ lapses'.overtaken \in Nat /\ lapses'.others \in Nat
                    /\ lapses'.overlaps >= lapses.overlaps /\ lapses'.others >= lapses.others
                    /\ lapses'.overtaken >= lapses.overtaken
<1>2. more
  <2>1. CASE Otherwise
    BY <1>1, <2>1, OtherwiseEffect DEF LapseCounts
  <2>2. ASSUME NEW p \in Statuslines, LineStarts(p)
        PROVE  more
    BY <1>1, <2>2, LapsesAtStart DEF LapseCounts
  <2>3. ASSUME NEW p \in Statuslines, TrackSession(p) \/ Decide(p) \/ Enqueues(p) \/ SaveRequest(p)
        PROVE  lapses' = lapses
    BY <2>3 DEF TrackSession, Decide, Enqueues, SaveRequest
  <2>4. ASSUME NEW p \in Statuslines, LineDies(p) \/ LogCost(p)
        PROVE  more
    BY <1>1, <2>4, DiesEffect, LogEffect DEF LapseCounts
  <2> QED BY <1>1, <2>1, <2>2, <2>3, <2>4, NextCases
<1> QED BY <1>1, <1>2 DEF Lapses

LEMMA NoLapse ==
  ASSUME WatchTypeOK, WatchNext, Lapses' = 0
  PROVE  /\ Lapses = 0 /\ lapses.overlaps = 0 /\ lapses.others = 0 /\ lapses.overtaken = 0
         /\ lapses'.overlaps = 0 /\ lapses'.others = 0 /\ lapses'.overtaken = 0
<1>1. \A a, b, c \in Nat : a + b + c = 0 => a = 0 /\ b = 0 /\ c = 0
  OBVIOUS
<1>2. \A m, n \in Nat : m >= n /\ m = 0 => n = 0
  OBVIOUS
<1>3. Lapses = 0
  BY <1>2, MoreLapses
<1>4. lapses'.overlaps + lapses'.overtaken + lapses'.others = 0
  BY DEF Lapses
<1>5. lapses.overlaps + lapses.overtaken + lapses.others = 0
  BY <1>3 DEF Lapses
<1> QED BY <1>1, <1>3, <1>4, <1>5, MoreLapses

\* A check that is under way keeps to what it found.
LEMMA PollingStep ==
  ASSUME WatchTypeOK, Seeing, Earned, Polling, WatchNext
  PROVE  Polling'
<1>1. /\ poll \in Polls /\ poll.want \in Requests /\ minute \in Nat /\ poll.now \in Nat
      /\ \A r \in Requests : CoolsFrom(r) \in Nat /\ WatchCooldown[r] \in Nat
                             /\ asked[r].last \in Nat /\ asked[r].last <= minute
  BY WantedFacts DEF WatchTypeOK, Polls, Pollers, CoolsFrom, Earned
<1>2. ASSUME NEW p \in Statuslines, \/ LineStarts(p) \/ LogCost(p) \/ TrackSession(p) \/ Decide(p)
                                    \/ Enqueues(p) \/ SaveRequest(p) \/ LineDies(p)
      PROVE  Polling'
  <2>1. watched = "claude"
    BY <1>2, StartsEffect, GoesOn
  <2>2. poll' = poll
    BY <1>2, GoesOn DEF LineStarts
  <2> QED BY <2>1, <2>2 DEF Polling
<1>3. CASE PollFull \/ PollNear
  <2>1. /\ watched = "codex" /\ watched' = watched /\ minute' = minute /\ poll.at = "rest"
        /\ \/ poll'.at = "ask" /\ poll'.now = minute /\ Cooled(poll'.want) /\ poller' = poller
           \/ poll' = poll
    BY <1>3, PollAsksCase
  <2> QED BY <1>1, <2>1 DEF Polling, Cooled, CoolsFrom
<1>4. CASE PollTries
  <2>1. PICK queued \in 0 .. 1 : /\ Made(poll.want, minute, poll.of, queued)
                                 /\ poll'.at = "record" => queued = 1
    BY <1>4, TriesCase
  <2>2. queued = 1 => asked'[poll.want].last = minute
    BY <1>1, <2>1 DEF Made
  <2>3. /\ poll.at = "ask" /\ UNCHANGED <<watched, minute, poller>>
        /\ poll'.at # "rest" => poll'.want = poll.want /\ poll'.now = poll.now
    BY <1>4, TriesCase
  <2> QED BY <2>1, <2>2, <2>3 DEF Polling, Cooled, CoolsFrom
<1>5. CASE PollRecords \/ PollerRestarts
  BY <1>5, RecordsCase, RestartCase, NothingInHand DEF Polling
<1>6. CASE ThreadUpdated \/ ContextFills \/ NewSession \/ MinutePasses
  <2>1. /\ UNCHANGED <<watched, poll, poller, asked>> /\ minute' \in Nat /\ minute' >= minute
        /\ minute' = minute \/ poll.at # "record"
    BY <1>1, <1>6, ThreadCase, WorldCase
  <2> QED BY <1>1, <2>1 DEF Polling, Cooled, CoolsFrom
<1> QED BY <1>2, <1>3, <1>4, <1>5, <1>6, NextCases DEF Otherwise

LEMMA InPlaceStep ==
  ASSUME WatchTypeOK, Seeing, Polling, InPlace, WatchNext
  PROVE  InPlace'
<1>1. SUFFICES ASSUME Lapses' = 0
               PROVE  RightlyAsked'
  BY DEF InPlace
<1>2. /\ Lapses = 0 /\ lapses.overlaps = 0 /\ lapses.others = 0 /\ lapses.overtaken = 0
      /\ lapses'.overlaps = 0 /\ lapses'.others = 0 /\ lapses'.overtaken = 0
  BY <1>1, NoLapse
<1>3. /\ strays = 0
      /\ running.shown =>
           /\ \A q \in Busy : line[q].session = running.session
           /\ watched = "codex" => thread.session = running.session
           /\ poll.at # "rest" => poll.of = running.session
  BY <1>2 DEF InPlace, RightlyAsked
<1>4. CASE Otherwise
  <2>1. watched' = watched /\ Busy' = Busy /\ line' = line
    BY <1>4, OtherwiseEffect DEF Busy
  <2>2. watched = "codex" => Busy = {}
    BY DEF Seeing
  <2>3. CASE PollFull \/ PollNear
    <3>1. /\ watched = "codex" /\ UNCHANGED <<running, thread, strays>>
          /\ poll'.of = thread.session \/ poll' = poll
      BY <2>3, PollAsksCase
    <3> QED BY <1>3, <2>1, <3>1 DEF RightlyAsked
  <2>7. CASE PollTries
    <3>1. PICK queued \in 0 .. 1 : /\ Made(poll.want, minute, poll.of, queued)
      BY <2>7, TriesCase
    <3>2. /\ poll.at = "ask" /\ UNCHANGED <<running, thread>>
          /\ poll'.at # "rest" => poll'.of = poll.of
      BY <2>7, TriesCase
    <3>3. strays' = strays
      BY <1>3, <3>1, <3>2 DEF Made
    <3> QED BY <1>3, <2>1, <3>2, <3>3 DEF RightlyAsked
  <2>8. CASE PollRecords
    <3>1. UNCHANGED <<running, thread, strays>> /\ poll' = NoPoll
      BY <2>8, RecordsCase
    <3> QED BY <1>3, <2>1, <3>1, NothingInHand DEF RightlyAsked
  <2>4. CASE PollerRestarts
    BY <1>2, <2>4, RestartCase
  <2>5. CASE ThreadUpdated
    <3>1. /\ thread'.session = running.session /\ ~Overtaken /\ watched = "codex"
          /\ UNCHANGED <<poll, strays>> /\ running'.session = running.session
      BY <1>2, <2>5, ThreadCase
    <3> QED BY <1>3, <2>1, <2>2, <3>1 DEF RightlyAsked, Overtaken
  <2>6. CASE ContextFills \/ NewSession \/ MinutePasses
    BY <1>3, <2>1, <2>6, WorldCase DEF RightlyAsked
  <2> QED BY <1>4, <2>3, <2>4, <2>5, <2>6, <2>7, <2>8 DEF Otherwise
<1>5. ASSUME NEW p \in Statuslines, LineStarts(p)
      PROVE  RightlyAsked'
  <2>1. Busy = {}
    BY <1>2, <1>5, LapsesAtStart
  <2>2. Busy' = {p} /\ line'[p].session = running'.session /\ watched = "claude"
    BY <1>5, <2>1, StartsEffect, BusyChange
  <2>3. strays' = strays /\ watched' = watched /\ poll' = poll /\ poll.at = "rest"
    BY <1>5, <2>2 DEF LineStarts, askedVars, Polling
  <2> QED BY <1>3, <2>2, <2>3 DEF RightlyAsked
<1>6. ASSUME NEW p \in Statuslines,
             LogCost(p) \/ TrackSession(p) \/ Decide(p) \/ Enqueues(p) \/ SaveRequest(p)
      PROVE  RightlyAsked'
  <2>1. strays' = strays
    <3>1. CASE Enqueues(p)
      BY <1>3, <1>6, <3>1, EnqueuesEffect, GoesOn DEF Made
    <3>2. CASE ~Enqueues(p)
      BY <1>6, <3>2 DEF LogCost, TrackSession, Decide, SaveRequest, askedVars
    <3> QED BY <3>1, <3>2
  <2> QED BY <1>3, <1>6, <2>1, GoesOn DEF RightlyAsked
<1>7. ASSUME NEW p \in Statuslines, LineDies(p)
      PROVE  FALSE
  BY <1>2, <1>7, DiesEffect
<1> QED BY <1>4, <1>5, <1>6, <1>7, NextCases

LEMMA AloneStep ==
  ASSUME WatchTypeOK, Seeing, Alone, WatchNext
  PROVE  Alone'
<1>1. SUFFICES ASSUME lapses'.overlaps = 0
               PROVE  ~TwoBusy' /\ (\A p \in Busy' : Follows(p)') /\ (\A s \in Sessions : Logged(s)')
  BY DEF Alone
<1>2. lapses.overlaps = 0
  BY <1>1, MoreLapses
<1>3. ~TwoBusy /\ (\A p \in Busy : Follows(p)) /\ (\A s \in Sessions : Logged(s))
  BY <1>2 DEF Alone
<1>4. /\ watchFile.session \in Nat /\ watchFile.session \in 0 .. LastSession
      /\ \A s \in Sessions : s \in Nat /\ costLog[s].known \in BOOLEAN
      /\ \A p \in Statuslines : line[p].session \in Nat
  <2>1. \A s \in Sessions : s \in Nat
    BY DEF Sessions
  <2>2. \A s \in Sessions : costLog[s].known \in BOOLEAN
    BY DEF WatchTypeOK, CostRecords
  <2>3. watchFile.session \in Nat /\ watchFile.session \in 0 .. LastSession
    BY WatchAssumption DEF WatchTypeOK, WatchFiles
  <2> QED BY <2>1, <2>2, <2>3, WatchAssumption DEF WatchTypeOK, Lines
<1>5. CASE Otherwise
  <2>1. UNCHANGED <<line, watchFile, costLog>>
    BY <1>5, OtherwiseEffect
  <2> QED BY <1>3, <2>1 DEF Busy, TwoBusy, Follows, Logged, Noted
<1>6. ASSUME NEW p \in Statuslines, LineStarts(p)
      PROVE  ~TwoBusy' /\ (\A q \in Busy' : Follows(q)') /\ (\A s \in Sessions : Logged(s)')
  <2>1. Busy = {} /\ UNCHANGED <<watchFile, costLog>>
    <3>1. Busy = {}
      BY <1>1, <1>2, <1>6, LapsesAtStart
    <3> QED BY <1>6, <3>1 DEF LineStarts
  <2>2. Busy' = {p} /\ line'[p].at = "costs" /\ line'[p].session = running.session
    BY <1>6, <2>1, StartsEffect, BusyChange
  <2>3. watchFile.session <= running.session
    BY <1>4, StillShown DEF Seeing, Shown
  <2>4. ~TwoBusy' /\ Follows(p)'
    BY <2>1, <2>2, <2>3 DEF TwoBusy, Follows
  <2> QED BY <1>3, <2>1, <2>2, <2>4 DEF Logged, Noted
<1>7. ASSUME NEW p \in Busy, Kept(p), \/ line'[p].at = "no"
                                      \/ line'[p].at # "no" /\ Follows(p)'
      PROVE  ~TwoBusy' /\ (\A q \in Busy' : Follows(q)')
  <2>1. Busy = {p} /\ p \in Statuslines /\ line[p].at # "no"
    BY <1>3, <1>7 DEF TwoBusy, Busy
  <2>2. Busy' = {p} \/ Busy' = {}
    BY <1>7, <2>1, BusyChange
  <2>3. line'[p].at = "no" => Busy' = {}
    BY <1>7, <2>1, BusyChange
  <2> QED BY <1>7, <2>2, <2>3 DEF TwoBusy
<1>8. ASSUME NEW p \in Statuslines, LogCost(p)
      PROVE  ~TwoBusy' /\ (\A q \in Busy' : Follows(q)') /\ (\A s \in Sessions : Logged(s)')
  <2>1. p \in Busy /\ Kept(p) /\ watchFile' = watchFile
    BY <1>8, GoesOn DEF LogCost
  <2>2. \A s \in Sessions :
          /\ costLog'[s].known = costLog[s].known /\ (Noted(s) => Noted(s)')
          /\ s = watchFile.session /\ s # line[p].session /\ watchFile.cost => Noted(s)'
    BY <1>8, CostsLoggedBy
  <2>3. \A s \in Sessions : Logged(s)'
    BY <1>3, <1>4, <2>1, <2>2 DEF Logged
  <2>4. /\ line'[p].at = "track" /\ line'[p].session = line[p].session /\ line'[p].read = watchFile
    BY <1>8, LogEffect
  <2>5. watchFile.cost /\ watchFile.session \notin {0, line[p].session} => Noted(watchFile.session)'
    <3>1. watchFile.session # 0 => watchFile.session \in Sessions
      BY <1>4, WatchAssumption DEF Sessions
    <3>2. \A s \in Sessions : s = watchFile.session /\ s # line[p].session /\ watchFile.cost => Noted(s)'
      BY <2>2
    <3> QED BY <2>1, <3>1, <3>2 DEF Noted
  <2>6. Follows(p)'
    BY <1>3, <2>1, <2>4, <2>5 DEF Follows, Noted
  <2> QED BY <1>7, <2>1, <2>3, <2>4, <2>6
<1>9. ASSUME NEW p \in Statuslines, TrackSession(p)
      PROVE  ~TwoBusy' /\ (\A q \in Busy' : Follows(q)') /\ (\A s \in Sessions : Logged(s)')
  <2>1. /\ p \in Busy /\ Kept(p) /\ line[p].at = "track" /\ watchFile'.session = line[p].session
        /\ line'[p].at = "no" \/ (line'[p].at = "decide" /\ line'[p].session = line[p].session)
    BY <1>9, GoesOn, TrackEffect, NothingInHand
  <2>2. line[p].session # 0 /\ line[p].session \in Nat
    BY <1>4, <2>1 DEF Seeing
  <2>3. Follows(p)' \/ line'[p].at = "no"
    BY <1>4, <2>1, <2>2 DEF Follows
  <2>4. /\ watchFile.session <= line[p].session
        /\ watchFile.cost /\ watchFile.session \notin {0, line[p].session} => Noted(watchFile.session)
        /\ line[p].read.session = watchFile.session /\ line[p].read.cost = watchFile.cost
    BY <1>3, <2>1 DEF Follows
  <2>6. watchFile'.cost = CostOnFile(p)
    BY <1>9, TrackEffect
  <2>5. \A s \in Sessions : Logged(s)'
    <3>1. SUFFICES ASSUME NEW s \in Sessions, costLog'[s].known
                   PROVE  /\ s <= line[p].session
                          /\ s < line[p].session => Noted(s)
                          /\ s = line[p].session => CostOnFile(p)
      <4>1. \A s \in Sessions : Noted(s)' = Noted(s)
        BY <1>9, <2>2, SessionKnown DEF Noted
      <4> QED BY <2>1, <2>6, <3>1, <4>1 DEF Logged
    <3>2. costLog[s].known \/ (s = line[p].session /\ CostOnFile(p))
      BY <1>9, <2>2, <3>1, SessionKnown
    <3>3. s \in Nat /\ s # 0
      BY DEF Sessions
    <3>4. CASE s = line[p].session /\ CostOnFile(p)
      BY <2>2, <3>4
    <3>5. CASE costLog[s].known
      <4>1. /\ s <= watchFile.session /\ (s < watchFile.session => Noted(s))
            /\ s = watchFile.session => watchFile.cost
        BY <1>3, <3>5 DEF Logged
      <4>2. s = watchFile.session \/ s < watchFile.session
        BY <1>4, <3>3, <4>1
      <4>3. s <= line[p].session
        BY <1>4, <2>2, <2>4, <3>3, <4>1
      <4>4. s < line[p].session => Noted(s)
        BY <2>2, <2>4, <3>3, <4>1, <4>2
      <4>5. s = line[p].session => CostOnFile(p)
        <5> SUFFICES ASSUME s = line[p].session
                     PROVE  CostOnFile(p)
          OBVIOUS
        <5>1. s = watchFile.session
          BY <1>4, <2>2, <2>4, <3>3, <4>1
        <5> QED BY <2>4, <4>1, <5>1 DEF CostOnFile
      <4> QED BY <4>3, <4>4, <4>5
    <3> QED BY <3>2, <3>4, <3>5
  <2> QED BY <1>7, <2>1, <2>3, <2>5
<1>10. ASSUME NEW p \in Statuslines, Decide(p) \/ Enqueues(p) \/ SaveRequest(p) \/ LineDies(p)
       PROVE  ~TwoBusy' /\ (\A q \in Busy' : Follows(q)') /\ (\A s \in Sessions : Logged(s)')
  <2>1. p \in Busy /\ Kept(p) /\ costLog' = costLog /\ Follows(p)
    BY <1>3, <1>10, GoesOn DEF Decide, Enqueues, SaveRequest, LineDies
  <2>2. watchFile'.session = watchFile.session /\ watchFile'.cost = watchFile.cost
    <3>1. CASE SaveRequest(p)
      BY <2>1, <3>1, SaveEffect DEF Follows
    <3>2. CASE ~SaveRequest(p)
      BY <1>10, <3>2 DEF Decide, Enqueues, LineDies
    <3> QED BY <3>1, <3>2
  <2>3. \/ line'[p].at = "no"
        \/ /\ line'[p].at \in {"ask", "save"} /\ line'[p].session = line[p].session
           /\ line'[p].read.session = watchFile.session /\ line'[p].read.cost = watchFile.cost
    <3>1. CASE Decide(p)
      BY <3>1, DecideEffect, NothingInHand
    <3>2. CASE Enqueues(p)
      BY <2>1, <3>2, EnqueuesEffect, NothingInHand DEF Follows
    <3>3. CASE SaveRequest(p) \/ LineDies(p)
      BY <3>3, SaveEffect, DiesEffect, NothingInHand
    <3> QED BY <1>10, <3>1, <3>2, <3>3
  <2>4. line'[p].at = "no" \/ Follows(p)'
    BY <2>1, <2>2, <2>3 DEF Follows
  <2>5. \A s \in Sessions : Logged(s)'
    BY <1>3, <2>1, <2>2 DEF Logged, Noted
  <2> QED BY <1>7, <2>1, <2>4, <2>5
<1> QED BY <1>5, <1>6, <1>8, <1>9, <1>10, NextCases

LEMMA OverStep ==
  ASSUME WatchTypeOK, Seeing, Alone, Over, WatchNext
  PROVE  Over'
<1>1. SUFFICES ASSUME Lapses' = 0, NEW s \in Sessions, costLog'[s].lines > 0
               PROVE  \/ s < watchFile'.session
                      \/ \E p \in Busy' : line'[p].at = "track" /\ line'[p].read.session = s /\ line'[p].session # s
  BY DEF Over
<1> DEFINE goal == \/ s < watchFile'.session
                   \/ \E p \in Busy' : line'[p].at = "track" /\ line'[p].read.session = s /\ line'[p].session # s
<1>2. Lapses = 0 /\ lapses.overlaps = 0 /\ lapses.others = 0 /\ lapses'.overlaps = 0 /\ lapses'.others = 0
  BY <1>1, NoLapse
<1>3. ~TwoBusy /\ \A p \in Busy : Follows(p)
  BY <1>2 DEF Alone
<1>4. costLog[s].lines > 0 =>
        \/ s < watchFile.session
        \/ \E p \in Busy : line[p].at = "track" /\ line[p].read.session = s /\ line[p].session # s
  BY <1>2 DEF Over
<1>5. watchFile.session \in Nat /\ s \in Nat /\ \A p \in Statuslines : line[p].session \in Nat
  <2>1. s \in Nat
    BY DEF Sessions
  <2>2. watchFile.session \in Nat
    BY WatchAssumption DEF WatchTypeOK, WatchFiles
  <2> QED BY <2>1, <2>2, WatchAssumption DEF WatchTypeOK, Lines
<1>6. CASE Otherwise
  <2>1. UNCHANGED <<line, watchFile, costLog>>
    BY <1>6, OtherwiseEffect
  <2> QED BY <1>1, <1>4, <2>1 DEF Busy
<1>7. ASSUME NEW p \in Statuslines, LineStarts(p)
      PROVE  goal
  <2>1. Busy = {} /\ UNCHANGED <<watchFile, costLog>>
    <3>1. Busy = {}
      BY <1>2, <1>7, LapsesAtStart
    <3> QED BY <1>7, <3>1 DEF LineStarts
  <2> QED BY <1>1, <1>4, <2>1
<1>8. ASSUME NEW p \in Statuslines, LogCost(p)
      PROVE  goal
  <2>1. p \in Busy /\ Kept(p) /\ watchFile' = watchFile /\ line[p].at = "costs" /\ Busy = {p}
    <3>1. p \in Busy /\ Kept(p) /\ line[p].at = "costs"
      BY <1>8, GoesOn, LogEffect
    <3>2. Busy = {p}
      BY <1>3, <3>1 DEF TwoBusy
    <3> QED BY <1>8, <3>1, <3>2 DEF LogCost
  <2>2. CASE s = watchFile.session /\ s # line[p].session
    <3>1. /\ line'[p].at = "track" /\ line'[p].read.session = s /\ line'[p].session # s
      BY <1>8, <2>2, LogEffect
    <3>2. p \in Busy'
      BY <3>1 DEF Busy
    <3> QED BY <3>1, <3>2
  <2>3. CASE ~(s = watchFile.session /\ s # line[p].session)
    <3>1. costLog'[s].lines = costLog[s].lines
      BY <1>8, <2>3, CostsLoggedBy
    <3> QED BY <1>1, <1>4, <2>1, <3>1
  <2> QED BY <2>2, <2>3
<1>9. ASSUME NEW p \in Statuslines, TrackSession(p)
      PROVE  goal
  <2>1. /\ p \in Busy /\ Kept(p) /\ line[p].at = "track" /\ watchFile'.session = line[p].session
        /\ Busy = {p}
    BY <1>3, <1>9, GoesOn, TrackEffect DEF TwoBusy
  <2>2. line[p].session # 0
    BY <2>1 DEF Seeing
  <2>3. costLog'[s].lines = costLog[s].lines
    BY <1>9, <2>2, SessionKnown
  <2>4. watchFile.session <= line[p].session /\ line[p].read.session = watchFile.session
    BY <1>3, <2>1 DEF Follows
  <2>5. s < watchFile.session \/ (s = watchFile.session /\ s # line[p].session)
    BY <1>1, <1>4, <2>1, <2>3, <2>4
  <2> QED BY <1>5, <2>1, <2>4, <2>5
<1>10. ASSUME NEW p \in Statuslines, Decide(p) \/ Enqueues(p) \/ SaveRequest(p)
       PROVE  goal
  <2>1. /\ p \in Busy /\ Kept(p) /\ costLog' = costLog /\ Follows(p) /\ Busy = {p}
        /\ line[p].at \in {"decide", "ask", "save"}
    <3>1. p \in Busy /\ Kept(p)
      BY <1>10, GoesOn
    <3>2. costLog' = costLog /\ line[p].at \in {"decide", "ask", "save"}
      BY <1>10 DEF Decide, Enqueues, SaveRequest
    <3> QED BY <1>3, <3>1, <3>2 DEF TwoBusy
  <2>2. watchFile'.session = watchFile.session
    <3>1. CASE SaveRequest(p)
      BY <2>1, <3>1, SaveEffect DEF Follows
    <3>2. CASE ~SaveRequest(p)
      BY <1>10, <3>2 DEF Decide, Enqueues
    <3> QED BY <3>1, <3>2
  <2> QED BY <1>1, <1>4, <2>1, <2>2
<1>11. ASSUME NEW p \in Statuslines, LineDies(p)
       PROVE  FALSE
  BY <1>2, <1>11, DiesEffect
<1> QED BY <1>6, <1>7, <1>8, <1>9, <1>10, <1>11, NextCases

\* What a step adds to the early requests and to the credit, it adds to the lapses.
Paid(r) ==
  /\ asked'[r].early \in Nat /\ Credit(r)' \in Nat
  /\ asked'[r].early + Credit(r)' + 2 * lapses.overlaps + lapses.others
       <= asked[r].early + Credit(r) + 2 * lapses'.overlaps + lapses'.others

LEMMA AskedNumbers ==
  ASSUME WatchTypeOK, NEW r \in Requests
  PROVE  asked[r].last \in Nat /\ asked[r].early \in Nat /\ CoolsFrom(r) \in Nat /\ minute \in Nat
BY DEF WatchTypeOK, Requests, Pollers, CoolsFrom

\* A process that starts.
LEMMA StartPays ==
  ASSUME WatchTypeOK, NEW r \in Requests, NEW p \in Statuslines, LineStarts(p)
  PROVE  Paid(r)
<1>1. /\ Kept(p) /\ line[p].at = "no" /\ line'[p].at = "costs" /\ watched = "claude" /\ watched' = watched
      /\ asked' = asked /\ watchFile' = watchFile
  BY StartsEffect DEF LineStarts, askedVars
<1>2. p \notin Busy /\ Busy' = Busy \cup {p} /\ \A q \in Busy : q \in Statuslines /\ line'[q] = line[q]
  BY <1>1, BusyChange DEF Kept, Busy
<1>3. \A q \in Busy : Wanted(q)' = Wanted(q)
  BY <1>2 DEF Wanted
<1>4. /\ Accurate(r) => Accurate(r)'
      /\ Mending(r) => Mending(r)'
      /\ Behind(r)' => Behind(r)
  BY <1>1, <1>2, <1>3 DEF Accurate, Mending, Behind
<1>5. Credit(r) \in Nat /\ Cardinality(Asking) \in Nat
  BY <1>1, CreditRange
<1>6. Asking' = Asking \cup {p} /\ p \notin Asking
  BY <1>1, <1>2 DEF Asking
<1>7. Cardinality(Asking') = Cardinality(Asking) + 1
  <2>1. IsFiniteSet(Asking)
    BY FewBusy DEF Asking
  <2> QED BY <1>6, <2>1, FS_AddElement
<1>8. /\ lapses.overlaps \in Nat /\ lapses.others \in Nat /\ lapses'.others = lapses.others
      /\ lapses'.overlaps = IF Busy = {} THEN lapses.overlaps ELSE lapses.overlaps + 1
  BY LapsesAtStart DEF WatchTypeOK, LapseCounts
<1>9. asked[r].early \in Nat /\ asked'[r].early = asked[r].early
  BY <1>1, AskedNumbers
<1>10. CASE Busy = {}
  <2>1. ~TwoBusy' /\ ~TwoBusy /\ ~Behind(r) /\ ~Behind(r)'
    BY <1>2, <1>4, <1>10 DEF TwoBusy, Behind
  <2>2. Credit(r)' \in Nat /\ Credit(r)' <= Credit(r)
    BY <1>1, <1>4, <2>1 DEF Credit
  <2> QED BY <1>5, <1>8, <1>9, <1>10, <2>2 DEF Paid
<1>11. CASE Busy # {}
  <2>1. TwoBusy'
    BY <1>2, <1>11 DEF TwoBusy
  <2>2. Credit(r)' = Cardinality(Asking) + 1 + (IF Accurate(r)' THEN 0 ELSE 1)
    BY <1>1, <1>7, <2>1 DEF Credit
  <2>3. Credit(r)' <= Credit(r) + 2
    <3>1. CASE TwoBusy
      BY <1>1, <1>4, <1>5, <2>2, <3>1 DEF Credit
    <3>2. CASE ~TwoBusy
      <4>1. PICK q \in Busy : Busy = {q}
        BY <1>11, <3>2 DEF TwoBusy
      <4>2. CASE line[q].at = "save"
        <5>1. Asking = {}
          BY <4>1, <4>2 DEF Asking
        <5> QED BY <1>5, <2>2, <5>1, FS_EmptySet
      <4>3. CASE line[q].at # "save"
        <5>1. Asking = {q} /\ ~Mending(r)
          BY <4>1, <4>3 DEF Asking, Mending
        <5>2. Cardinality(Asking) = 1
          BY <5>1, FS_Singleton
        <5>3. Credit(r) = IF Accurate(r) THEN 0 ELSE IF Behind(r) THEN 2 ELSE 1
          BY <1>1, <3>2, <5>1 DEF Credit
        <5> QED BY <1>4, <2>2, <5>2, <5>3
      <4> QED BY <4>2, <4>3
    <3> QED BY <3>1, <3>2
  <2>4. Credit(r)' \in Nat
    BY <1>5, <2>2
  <2> QED BY <1>5, <1>8, <1>9, <1>11, <2>3, <2>4 DEF Paid
<1> QED BY <1>10, <1>11

\* The steps that read, and those that end a process, pay nothing unless it dies.
LEMMA NothingToPay ==
  ASSUME WatchTypeOK, NEW r \in Requests, asked' = asked, lapses'.overlaps = lapses.overlaps,
         lapses'.others \in Nat, lapses'.others >= lapses.others,
         Credit(r) \in Nat, Credit(r)' \in Nat, Credit(r)' <= Credit(r)
  PROVE  Paid(r)
<1>1. lapses.overlaps \in Nat /\ lapses.others \in Nat /\ asked[r].early \in Nat
  BY AskedNumbers DEF WatchTypeOK, LapseCounts
<1> QED BY <1>1 DEF Paid

LEMMA LogPays ==
  ASSUME WatchTypeOK, Seeing, NEW r \in Requests, NEW p \in Statuslines, LogCost(p)
  PROVE  Paid(r)
<1>1. /\ Kept(p) /\ p \in Busy /\ watched = "claude" /\ watched' = watched
      /\ line[p].at = "costs" /\ line'[p].at = "track" /\ line'[p].read = watchFile
  BY GoesOn, LogEffect
<1>2. /\ watchFile' = watchFile /\ asked' = asked /\ lapses'.overlaps = lapses.overlaps
      /\ lapses'.others \in Nat /\ lapses'.others >= lapses.others
  <2>1. lapses \in LapseCounts
    BY DEF WatchTypeOK
  <2>2. lapses'.others \in Nat /\ lapses'.others >= lapses.others /\ lapses'.overlaps = lapses.overlaps
    BY <2>1, LogEffect DEF LapseCounts
  <2>3. watchFile' = watchFile /\ asked' = asked
    BY DEF LogCost, askedVars
  <2> QED BY <2>2, <2>3
<1>3. Busy' = Busy /\ \A q \in Busy \ {p} : q \in Statuslines /\ line'[q] = line[q]
  BY <1>1, BusyChange DEF Kept, Busy
<1>4. \A q \in Busy \ {p} : Wanted(q)' = Wanted(q)
  BY <1>3 DEF Wanted
<1>5. Asking' = Asking
  BY <1>1, <1>3 DEF Asking
<1>6. /\ Accurate(r) => Accurate(r)'
      /\ Mending(r) => Mending(r)'
      /\ Behind(r)' => Behind(r)
  BY <1>1, <1>2, <1>3, <1>4 DEF Accurate, Mending, Behind
<1>7. Credit(r)' \in Nat /\ Credit(r)' <= Credit(r)
  BY <1>1, <1>3, <1>5, <1>6, CreditKept
<1> QED BY <1>1, <1>2, <1>7, CreditRange, NothingToPay

LEMMA TrackPays ==
  ASSUME WatchTypeOK, Seeing, NEW r \in Requests, NEW p \in Statuslines, TrackSession(p)
  PROVE  Paid(r)
<1>1. /\ Kept(p) /\ p \in Busy /\ watched = "claude" /\ watched' = watched /\ line[p].at = "track"
      /\ line'[p].at = "no" \/ line'[p].at = "decide"
      /\ watchFile'[r] = line[p].read[r]
  BY GoesOn, TrackEffect, NothingInHand
<1>2. asked' = asked /\ lapses' = lapses /\ lapses.others \in Nat
  BY DEF TrackSession, askedVars, WatchTypeOK, LapseCounts
<1>3. Accurate(r) => watchFile'[r] = asked[r].last
  BY <1>1 DEF Accurate
<1>4. CASE line'[p].at = "no"
  BY <1>1, <1>2, <1>3, <1>4, CreditGone, NothingToPay
<1>5. CASE line'[p].at = "decide"
  <2>1. Busy' = Busy /\ \A q \in Busy \ {p} : q \in Statuslines /\ line'[q] = line[q]
    BY <1>1, <1>5, BusyChange DEF Kept, Busy
  <2>2. \A q \in Busy \ {p} : Wanted(q)' = Wanted(q)
    BY <2>1 DEF Wanted
  <2>3. Asking' = Asking
    BY <1>1, <1>5, <2>1 DEF Asking
  <2>4. /\ Accurate(r) => Accurate(r)'
        /\ Mending(r) => Mending(r)'
        /\ Behind(r)' => Behind(r)
    BY <1>1, <1>2, <1>3, <1>5, <2>1, <2>2 DEF Accurate, Mending, Behind
  <2>5. Credit(r)' \in Nat /\ Credit(r)' <= Credit(r)
    BY <1>1, <2>1, <2>3, <2>4, CreditKept
  <2> QED BY <1>1, <1>2, <2>5, CreditRange, NothingToPay
<1> QED BY <1>1, <1>4, <1>5

LEMMA DecidePays ==
  ASSUME WatchTypeOK, Seeing, Earned, NEW r \in Requests, NEW p \in Statuslines, Decide(p)
  PROVE  Paid(r)
<1>1. /\ Kept(p) /\ p \in Busy /\ watched = "claude" /\ watched' = watched /\ line[p].at = "decide"
      /\ \/ line'[p].at = "no"
         \/ line'[p].at = "ask" /\ line'[p].read = watchFile /\ line'[p].now = minute
  BY GoesOn, DecideEffect, NothingInHand
<1>2. asked' = asked /\ lapses' = lapses /\ watchFile' = watchFile /\ lapses.others \in Nat
  BY DEF Decide, askedVars, WatchTypeOK, LapseCounts
<1>3. Accurate(r) => watchFile'[r] = asked[r].last
  BY <1>2 DEF Accurate
<1>4. CASE line'[p].at = "no"
  BY <1>1, <1>2, <1>3, <1>4, CreditGone, NothingToPay
<1>5. CASE line'[p].at = "ask"
  <2>1. Busy' = Busy /\ \A q \in Busy \ {p} : q \in Statuslines /\ line'[q] = line[q]
    BY <1>1, <1>5, BusyChange DEF Kept, Busy
  <2>2. \A q \in Busy \ {p} : Wanted(q)' = Wanted(q)
    BY <2>1 DEF Wanted
  <2>3. Asking' = Asking
    BY <1>1, <1>5, <2>1 DEF Asking
  <2>4. line'[p].read = watchFile /\ line'[p].now = minute
    BY <1>1, <1>5
  <2>5. ~(line'[p].now < asked'[r].last)
    BY <1>2, <2>4, AskedNumbers DEF Earned
  <2>6. /\ Accurate(r) => Accurate(r)'
        /\ Mending(r) => Mending(r)'
        /\ Behind(r)' => Behind(r)
    BY <1>1, <1>2, <1>5, <2>1, <2>2, <2>4, <2>5 DEF Accurate, Mending, Behind
  <2>7. Credit(r)' \in Nat /\ Credit(r)' <= Credit(r)
    BY <1>1, <2>1, <2>3, <2>6, CreditKept
  <2> QED BY <1>1, <1>2, <2>7, CreditRange, NothingToPay
<1> QED BY <1>1, <1>4, <1>5

LEMMA DeathPays ==
  ASSUME WatchTypeOK, Seeing, NEW r \in Requests, NEW p \in Statuslines, LineDies(p)
  PROVE  Paid(r)
<1>1. /\ Kept(p) /\ p \in Busy /\ watched = "claude" /\ watched' = watched /\ line'[p].at = "no"
      /\ lapses'.overlaps = lapses.overlaps /\ lapses'.others = lapses.others + 1
  BY GoesOn, DiesEffect, NothingInHand
<1>2. asked' = asked /\ watchFile' = watchFile
  BY DEF LineDies, askedVars
<1>3. Accurate(r) => watchFile'[r] = asked[r].last
  BY <1>2 DEF Accurate
<1>4. Credit(r)' \in Nat /\ Credit(r) \in Nat /\ Credit(r)' <= Credit(r) + 1
  BY <1>1, <1>2, <1>3, CreditGone
<1>5. lapses.overlaps \in Nat /\ lapses.others \in Nat /\ asked[r].early \in Nat
  BY AskedNumbers DEF WatchTypeOK, LapseCounts
<1> QED BY <1>1, <1>2, <1>4, <1>5 DEF Paid

\* The process that saves last may put an older time on file: then both have paid.
LEMMA SavePays ==
  ASSUME WatchTypeOK, Seeing, NEW r \in Requests, NEW p \in Statuslines, SaveRequest(p)
  PROVE  Paid(r)
<1>1. /\ Kept(p) /\ p \in Busy /\ watched = "claude" /\ watched' = watched /\ line[p].at = "save"
      /\ line'[p].at = "no"
      /\ watchFile'[Wanted(p)] = line[p].now
      /\ \A q \in Requests \ {Wanted(p)} : watchFile'[q] = line[p].read[q]
  BY GoesOn, SaveEffect, NothingInHand
<1>2. asked' = asked /\ lapses' = lapses /\ lapses.others \in Nat
  BY DEF SaveRequest, askedVars, WatchTypeOK, LapseCounts
<1>3. Accurate(r) => watchFile'[r] = asked[r].last
  BY <1>1 DEF Accurate
<1>4. /\ Credit(r)' \in Nat /\ Credit(r) \in Nat
      /\ Credit(r)' <= Credit(r) + (IF ~TwoBusy /\ line[p].at = "save" /\ Wanted(p) = r THEN 1 ELSE 0)
  BY <1>1, <1>2, <1>3, CreditGone
<1>5. CASE TwoBusy \/ Wanted(p) # r
  BY <1>2, <1>4, <1>5, NothingToPay
<1>6. CASE ~TwoBusy /\ Wanted(p) = r
  <2>1. Busy = {p} /\ Busy' = {}
    BY <1>1, <1>6, BusyChange DEF TwoBusy, Busy
  <2>2. ~TwoBusy' /\ ~Behind(r)' /\ ~Behind(r) /\ ~Accurate(r)
    BY <1>1, <1>6, <2>1 DEF TwoBusy, Behind, Accurate
  <2>3. Mending(r) => Accurate(r)'
    BY <1>1, <1>2, <1>6, <2>1 DEF Mending, Accurate
  <2>4. Credit(r)' <= Credit(r)
    BY <1>1, <1>6, <2>2, <2>3 DEF Credit
  <2> QED BY <1>2, <1>4, <2>4, NothingToPay
<1> QED BY <1>5, <1>6

LEMMA RequestPays ==
  ASSUME WatchTypeOK, Seeing, Earned, NEW r \in Requests, NEW p \in Statuslines, Enqueues(p)
  PROVE  Paid(r)
<1>1. /\ Kept(p) /\ p \in Busy /\ watched = "claude" /\ watched' = watched /\ line[p].at = "ask"
      /\ \/ line'[p].at = "no" /\ Made(Wanted(p), line[p].now, line[p].session, 0)
         \/ /\ line'[p].at = "save" /\ line'[p].now = line[p].now
            /\ line'[p].read = line[p].read /\ line'[p].level = line[p].level
            /\ Made(Wanted(p), line[p].now, line[p].session, 1)
  BY GoesOn, EnqueuesEffect, NothingInHand
<1>2. watchFile' = watchFile /\ lapses' = lapses /\ lapses.others \in Nat
  BY DEF Enqueues, WatchTypeOK, LapseCounts
<1>3. CASE line'[p].at = "no"
  <2>1. Made(Wanted(p), line[p].now, line[p].session, 0)
    BY <1>1, <1>3
  <2>2. /\ asked \in [Requests -> [last : Nat, early : Nat]]
        /\ asked' \in [Requests -> [last : Nat, early : Nat]]
        /\ \A q \in Requests : asked'[q] = asked[q]
    BY <2>1 DEF Made, WatchTypeOK
  <2>3. asked' = asked
    BY <2>2
  <2>4. Accurate(r) => watchFile'[r] = asked[r].last
    BY <1>2 DEF Accurate
  <2> QED BY <1>1, <1>2, <1>3, <2>3, <2>4, CreditGone, NothingToPay
<1>4. CASE line'[p].at = "save"
  <2> DEFINE w == Wanted(p)
             now == line[p].now
  <2>1. /\ Made(w, now, line[p].session, 1) /\ line'[p].now = now
        /\ line'[p].read = line[p].read /\ line'[p].level = line[p].level
    BY <1>1, <1>4
  <2>2. w \in Requests /\ now \in Nat /\ Wanted(p)' = w
    BY <2>1, WantedFacts DEF WatchTypeOK, Lines, Wanted
  <2>3. Busy' = Busy /\ \A q \in Busy \ {p} : q \in Statuslines /\ line'[q] = line[q]
    BY <1>1, <1>4, BusyChange DEF Kept, Busy
  <2>4. \A q \in Busy \ {p} : Wanted(q)' = Wanted(q)
    BY <2>3 DEF Wanted
  <2>5. Asking' = Asking \ {p} /\ p \in Asking
    BY <1>1, <1>4, <2>3 DEF Asking
  <2>6. /\ Cardinality(Asking') = Cardinality(Asking) - 1 /\ Cardinality(Asking') \in Nat
        /\ Cardinality(Asking) \in Nat
    <3>1. IsFiniteSet(Asking) /\ Cardinality(Asking) \in Nat
      BY FewBusy DEF Asking
    <3> QED BY <2>5, <3>1, FS_RemoveElement, FS_CardinalityType
  <2>7. TwoBusy' = TwoBusy
    BY <2>3 DEF TwoBusy
  <2>8. ~TwoBusy => ~Behind(r)' /\ ~Mending(r) /\ (Behind(r) <=> now < asked[r].last)
    <3> SUFFICES ASSUME ~TwoBusy
                 PROVE  ~Behind(r)' /\ ~Mending(r) /\ (Behind(r) <=> now < asked[r].last)
      OBVIOUS
    <3>1. Busy = {p} /\ Busy' = {p}
      BY <1>1, <2>3 DEF TwoBusy
    <3>2. ~Behind(r)' /\ ~Mending(r)
      BY <1>1, <1>4, <3>1 DEF Behind, Mending
    <3>3. Behind(r) <=> now < asked[r].last
      BY <1>1, <3>1 DEF Behind
    <3> QED BY <3>2, <3>3
  <2>9. /\ asked[r].last \in Nat /\ asked[r].early \in Nat
        /\ asked'[r].last \in Nat /\ asked'[r].early \in Nat
        /\ lapses.overlaps \in Nat /\ lapses.others \in Nat
    BY <2>1, AskedNumbers DEF WatchTypeOK, Made, LapseCounts
  <2>10. CASE r # w
    <3>1. asked'[r] = asked[r]
      BY <2>1, <2>10 DEF Made
    <3>2. Accurate(r) => Accurate(r)'
      BY <1>1, <1>2, <1>4, <2>1, <2>2, <2>3, <2>4, <2>10, <3>1 DEF Accurate
    <3>3. Credit(r)' \in Nat /\ Credit(r) \in Nat /\ Credit(r)' <= Credit(r)
      BY <1>1, <2>6, <2>7, <2>8, <3>2 DEF Credit
    <3> QED BY <1>2, <2>9, <3>1, <3>3 DEF Paid
  <2>11. CASE r = w
    <3>1. /\ asked'[r].last = IF now > asked[r].last THEN now ELSE asked[r].last
          /\ asked'[r].early <= asked[r].early + 1
          /\ asked[r].last = 0 \/ now >= asked[r].last + WatchCooldown[r]
               => asked'[r].early <= asked[r].early
      BY <2>1, <2>2, <2>9, <2>11 DEF Made
    <3>2. Accurate(r) => asked[r].last = 0 \/ now >= asked[r].last + WatchCooldown[r]
      <4>1. line[p].read[r] = 0 \/ now >= line[p].read[r] + WatchCooldown[r]
        BY <1>1, <2>11 DEF Earned, Ready
      <4> QED BY <1>1, <4>1 DEF Accurate
    <3>3. WatchCooldown[r] \in Nat
      BY WantedFacts
    <3>4. now >= asked[r].last => Mending(r)'
      <4>1. now >= asked[r].last => asked'[r].last = now
        BY <2>2, <2>9, <3>1
      <4> QED BY <1>1, <1>4, <2>1, <2>2, <2>3, <2>11, <4>1 DEF Mending
    <3>5. CASE TwoBusy
      <4>1. Credit(r) = Cardinality(Asking) + (IF Accurate(r) THEN 0 ELSE 1)
        BY <1>1, <3>5 DEF Credit
      <4>2. Credit(r)' = Cardinality(Asking') + (IF Accurate(r)' THEN 0 ELSE 1)
        BY <1>1, <2>7, <3>5 DEF Credit
      <4>3. Accurate(r) => asked'[r].early <= asked[r].early
        BY <3>1, <3>2
      <4>4. /\ Credit(r)' \in Nat /\ Credit(r) \in Nat
            /\ asked'[r].early + Credit(r)' <= asked[r].early + Credit(r)
        BY <2>6, <2>9, <3>1, <4>1, <4>2, <4>3
      <4> QED BY <1>2, <2>9, <4>4 DEF Paid
    <3>6. CASE ~TwoBusy
      <4>1. Credit(r) = IF Accurate(r) THEN 0 ELSE IF now < asked[r].last THEN 2 ELSE 1
        BY <1>1, <2>8, <3>6 DEF Credit
      <4>2. Credit(r)' = IF Accurate(r)' \/ Mending(r)' THEN 0 ELSE 1
        BY <1>1, <2>7, <2>8, <3>6 DEF Credit
      <4>3. Accurate(r) => asked'[r].early <= asked[r].early /\ Mending(r)'
        BY <2>2, <2>9, <3>1, <3>2, <3>3, <3>4
      <4>4. ~(now < asked[r].last) => Mending(r)'
        BY <2>2, <2>9, <3>4
      <4>5. /\ Credit(r)' \in Nat /\ Credit(r) \in Nat
            /\ asked'[r].early + Credit(r)' <= asked[r].early + Credit(r)
        BY <2>9, <3>1, <4>1, <4>2, <4>3, <4>4
      <4> QED BY <1>2, <2>9, <4>5 DEF Paid
    <3> QED BY <3>5, <3>6
  <2> QED BY <2>10, <2>11
<1> QED BY <1>1, <1>3, <1>4

\* The poller waits as long as it should unless an attempt went unanswered or it restarted.
LEMMA OtherwisePays ==
  ASSUME WatchTypeOK, Seeing, Earned, Polling, NEW r \in Requests, Otherwise
  PROVE  Paid(r)
<1>1. /\ asked[r].last \in Nat /\ asked[r].early \in Nat /\ CoolsFrom(r) \in Nat /\ minute \in Nat
      /\ asked[r].last <= minute /\ lapses.overlaps \in Nat /\ lapses.others \in Nat
      /\ WatchCooldown[r] \in Nat
  BY AskedNumbers, WantedFacts DEF Earned, WatchTypeOK, LapseCounts
<1>2. UNCHANGED <<watched, watchFile, line>> /\ lapses'.overlaps = lapses.overlaps
      /\ lapses'.others \in Nat /\ lapses'.others >= lapses.others
  BY OtherwiseEffect DEF LapseCounts
<1>3. Credit(r) \in Nat
  <2>1. watched = "codex" => Credit(r) \in Nat
    BY DEF Credit
  <2> QED BY <2>1, CreditRange DEF WatchTypeOK
<1>4. ASSUME asked'[r] = asked[r],
             \/ CoolsFrom(r)' = CoolsFrom(r)
             \/ watched = "codex" /\ CoolsFrom(r)' >= asked[r].last,
             watched = "codex" /\ poll.at = "record" /\ poll.want = r =>
               CoolsFrom(r)' >= asked[r].last \/ (poll'.at = "record" /\ poll'.want = r)
      PROVE  Paid(r)
  <2>1. CASE watched = "codex"
    <3>1. Credit(r)' \in Nat /\ Credit(r)' <= Credit(r)
      BY <1>2, <1>4, <2>1 DEF Credit
    <3> QED BY <1>1, <1>2, <1>3, <1>4, <3>1 DEF Paid
  <2>2. CASE watched # "codex"
    <3>1. Busy' = Busy /\ \A p \in Statuslines : Wanted(p)' = Wanted(p)
      BY <1>2 DEF Busy, Wanted
    <3>2. Busy \subseteq Statuslines
      BY DEF Busy
    <3>3. /\ Accurate(r)' = Accurate(r) /\ Mending(r)' = Mending(r) /\ Behind(r)' = Behind(r)
          /\ Asking' = Asking /\ TwoBusy' = TwoBusy
      BY <1>2, <1>4, <3>1, <3>2 DEF Accurate, Mending, Behind, Asking, TwoBusy
    <3>4. Credit(r)' = Credit(r)
      BY <1>2, <2>2, <3>3 DEF Credit
    <3> QED BY <1>1, <1>2, <1>3, <1>4, <3>4 DEF Paid
  <2> QED BY <2>1, <2>2
<1>5. CASE PollFull \/ PollNear
  <2>1. /\ watched = "codex" /\ poll.at = "rest" /\ asked' = asked
        /\ CoolsFrom(r)' \in {CoolsFrom(r), minute}
    BY <1>5, PollAsksCase DEF CoolsFrom
  <2> QED BY <1>1, <1>4, <2>1
<1>6. CASE PollTries
  <2>1. PICK queued \in 0 .. 1 :
          /\ Made(poll.want, minute, poll.of, queued)
          /\ \/ queued = 1 /\ poll'.at = "record" /\ lapses' = lapses
             \/ poll'.at \in {"rest", "ask"} /\ lapses'.others = lapses.others + queued
    BY <1>6, TriesCase
  <2>2. /\ poll.at = "ask" /\ watched = "codex" /\ poller' = poller /\ CoolsFrom(r)' = CoolsFrom(r)
        /\ poll'.at # "rest" => poll'.want = poll.want
    BY <1>6, TriesCase DEF Polling, CoolsFrom
  <2>3. CASE poll.want # r \/ queued = 0
    <3>1. asked'[r] = asked[r]
      BY <2>1, <2>3 DEF Made
    <3> QED BY <1>4, <2>2, <3>1
  <2>4. CASE poll.want = r /\ queued = 1
    <3>1. /\ asked'[r].early \in Nat /\ asked'[r].early <= asked[r].early + 1
          /\ asked[r].last = 0 \/ minute >= asked[r].last + WatchCooldown[r]
               => asked'[r].early <= asked[r].early
      <4>1. /\ asked'[r].early \in Nat /\ asked'[r].early <= asked[r].early + 1
            /\ asked[r].last = 0 \/ minute >= asked[r].last + WatchCooldown[r]
                 => asked'[r].early <= asked[r].early + 1 - 1
        BY <2>1, <2>4 DEF Made
      <4> QED BY <1>1, <4>1
    <3>2. CoolsFrom(r) >= asked[r].last => asked[r].last = 0 \/ minute >= asked[r].last + WatchCooldown[r]
      BY <1>1, <2>2, <2>4 DEF Polling, Cooled
    <3>3. Credit(r) = IF CoolsFrom(r) >= asked[r].last THEN 0 ELSE 1
      BY <2>2 DEF Credit
    <3>4. Credit(r)' \in {0, 1} /\ (poll'.at = "record" => Credit(r)' = 0)
      BY <1>2, <2>2, <2>4 DEF Credit
    <3>5. \/ Credit(r)' = 0 /\ lapses'.others = lapses.others
          \/ lapses'.others = lapses.others + 1
      BY <2>1, <2>4, <3>4
    <3> QED BY <1>1, <1>2, <3>1, <3>2, <3>3, <3>4, <3>5 DEF Paid
  <2> QED BY <2>3, <2>4
<1>7. CASE PollRecords
  <2>1. /\ asked' = asked /\ poll.at = "record" /\ watched = "codex"
        /\ IF poll.want = r THEN CoolsFrom(r)' = minute ELSE CoolsFrom(r)' = CoolsFrom(r)
    BY <1>7, RecordsCase DEF Polling
  <2> QED BY <1>1, <1>4, <2>1
<1>8. CASE PollerRestarts
  <2>1. watched = "codex" /\ asked' = asked /\ lapses'.others = lapses.others + 1
    BY <1>8, RestartCase
  <2>2. Credit(r)' \in Nat /\ Credit(r)' <= 1
    BY <1>2, <2>1 DEF Credit
  <2> QED BY <1>1, <1>2, <1>3, <2>1, <2>2 DEF Paid
<1>9. CASE ThreadUpdated \/ ContextFills \/ NewSession \/ MinutePasses
  <2>1. UNCHANGED <<asked, poll, poller>>
    BY <1>9, ThreadCase, WorldCase
  <2> QED BY <1>4, <2>1 DEF CoolsFrom
<1> QED BY <1>5, <1>6, <1>7, <1>8, <1>9 DEF Otherwise

LEMMA SpacingStep ==
  ASSUME WatchTypeOK, Seeing, Earned, Polling, Spacing, WatchNext
  PROVE  Spacing'
<1> SUFFICES ASSUME NEW r \in Requests
             PROVE  asked'[r].early + Credit(r)' <= 2 * lapses'.overlaps + lapses'.others
  BY DEF Spacing
<1>1. Paid(r)
  BY NextCases, OtherwisePays, StartPays, LogPays, TrackPays, DecidePays, RequestPays, SavePays, DeathPays
<1>2. asked[r].early + Credit(r) <= 2 * lapses.overlaps + lapses.others
  BY DEF Spacing
<1>3. Credit(r) \in Nat
  <2>1. watched = "codex" => Credit(r) \in Nat
    BY DEF Credit
  <2> QED BY <2>1, CreditRange DEF WatchTypeOK
<1> QED BY <1>1, <1>2, <1>3, MoreLapses, AskedNumbers DEF Paid

\* A session that may come on file later may do so now.
LEMMA LiveStays ==
  ASSUME WatchTypeOK, Seeing, WatchNext, NEW s \in Sessions, Live(s)'
  PROVE  Live(s)
<1>1. s \in Nat /\ running.session \in Nat /\ running'.session \in Nat
      /\ running'.session >= running.session
  BY StillShown DEF Sessions
<1>2. CASE Otherwise
  <2>1. UNCHANGED <<watchFile, line>>
    BY <1>2, OtherwiseEffect
  <2> QED BY <1>1, <2>1 DEF Live, Busy
<1>3. ASSUME NEW p \in Statuslines, Kept(p), watchFile'.session = s => Live(s),
             line'[p].at \in {"costs", "track"} /\ line'[p].session = s => Live(s),
             line'[p].at \in {"ask", "save"} /\ line'[p].read.session = s => Live(s)
      PROVE  Live(s)
  <2>1. \A q \in Busy' \ {p} : q \in Busy /\ line'[q] = line[q]
    BY <1>3 DEF Busy, Kept
  <2>2. CASE running'.session <= s
    BY <1>1, <2>2 DEF Live
  <2>3. CASE \E q \in Busy' : \/ line'[q].at \in {"costs", "track"} /\ line'[q].session = s
                              \/ line'[q].at \in {"ask", "save"} /\ line'[q].read.session = s
    <3>1. PICK q \in Busy' : \/ line'[q].at \in {"costs", "track"} /\ line'[q].session = s
                             \/ line'[q].at \in {"ask", "save"} /\ line'[q].read.session = s
      BY <2>3
    <3>2. CASE q = p
      BY <1>3, <3>1, <3>2
    <3>3. CASE q # p
      BY <2>1, <3>1, <3>3 DEF Live
    <3> QED BY <3>2, <3>3
  <2> QED BY <1>3, <2>2, <2>3 DEF Live
<1>4. ASSUME NEW p \in Statuslines, LineStarts(p)
      PROVE  Live(s)
  <2>1. Kept(p) /\ watchFile' = watchFile /\ line'[p].at = "costs" /\ line'[p].session = running.session
    BY <1>4, StartsEffect DEF LineStarts
  <2>2. line'[p].session = s => Live(s)
    BY <1>1, <2>1 DEF Live
  <2> QED BY <1>3, <2>1, <2>2 DEF Live
<1>5. ASSUME NEW p \in Statuslines, LogCost(p)
      PROVE  Live(s)
  <2>1. /\ Kept(p) /\ p \in Busy /\ watchFile' = watchFile /\ line[p].at = "costs"
        /\ line'[p].at = "track" /\ line'[p].session = line[p].session
    BY <1>5, LogEffect, GoesOn DEF LogCost
  <2>2. line'[p].session = s => Live(s)
    BY <2>1 DEF Live
  <2> QED BY <1>3, <2>1, <2>2 DEF Live
<1>6. ASSUME NEW p \in Statuslines, TrackSession(p)
      PROVE  Live(s)
  <2>1. /\ Kept(p) /\ p \in Busy /\ watchFile'.session = line[p].session /\ line[p].at = "track"
        /\ line'[p].at = "no" \/ line'[p].at = "decide"
    BY <1>6, TrackEffect, GoesOn, NothingInHand
  <2>2. line[p].session = s => Live(s)
    BY <2>1 DEF Live
  <2> QED BY <1>3, <2>1, <2>2
<1>7. ASSUME NEW p \in Statuslines, Decide(p)
      PROVE  Live(s)
  <2>1. /\ Kept(p) /\ watchFile' = watchFile
        /\ line'[p].at = "no" \/ (line'[p].at = "ask" /\ line'[p].read = watchFile)
    BY <1>7, DecideEffect, NothingInHand DEF Decide
  <2> QED BY <1>3, <2>1 DEF Live
<1>8. ASSUME NEW p \in Statuslines, Enqueues(p)
      PROVE  Live(s)
  <2>1. /\ Kept(p) /\ p \in Busy /\ watchFile' = watchFile /\ line[p].at = "ask"
        /\ line'[p].at = "no" \/ (line'[p].at = "save" /\ line'[p].read = line[p].read)
    BY <1>8, EnqueuesEffect, GoesOn, NothingInHand DEF Enqueues
  <2>2. line[p].read.session = s => Live(s)
    BY <2>1 DEF Live
  <2> QED BY <1>3, <2>1, <2>2 DEF Live
<1>9. ASSUME NEW p \in Statuslines, SaveRequest(p)
      PROVE  Live(s)
  <2>1. /\ Kept(p) /\ p \in Busy /\ watchFile'.session = line[p].read.session /\ line[p].at = "save"
        /\ line'[p].at = "no"
    BY <1>9, SaveEffect, GoesOn, NothingInHand
  <2>2. line[p].read.session = s => Live(s)
    BY <2>1 DEF Live
  <2> QED BY <1>3, <2>1, <2>2
<1>10. ASSUME NEW p \in Statuslines, LineDies(p)
       PROVE  Live(s)
  <2>1. Kept(p) /\ watchFile' = watchFile /\ line'[p].at = "no"
    BY <1>10, DiesEffect, NothingInHand DEF LineDies
  <2> QED BY <1>3, <2>1 DEF Live
<1> QED BY <1>2, <1>4, <1>5, <1>6, <1>7, <1>8, <1>9, <1>10, NextCases

LEMMA FewLogging ==
  ASSUME NEW s
  PROVE  IsFiniteSet(Logging(s)) /\ Cardinality(Logging(s)) \in Nat
BY FewBusy DEF Logging

LEMMA CountFacts ==
  ASSUME WatchTypeOK, NEW s \in Sessions
  PROVE  /\ s \in Nat \ {0} /\ costLog[s].lines \in Nat /\ Cardinality(Logging(s)) \in Nat
         /\ Owes(s) \in Nat /\ Lapses \in Nat /\ Owes(s) = costLog[s].lines + Cardinality(Logging(s))
<1>1. s \in Nat \ {0}
  BY DEF Sessions
<1>2. costLog[s].lines \in Nat
  BY DEF WatchTypeOK, CostRecords
<1>3. Lapses \in Nat
  BY DEF WatchTypeOK, Lapses, LapseCounts
<1> QED BY <1>1, <1>2, <1>3, FewLogging DEF Owes

\* As many lines, no more processes about to log: all else may only become easier.
LEMMA BoundedMore ==
  ASSUME WatchTypeOK, NEW s \in Sessions, Bounded(s), Live(s)' => Live(s),
         costLog'[s].lines = costLog[s].lines, Logging(s)' \subseteq Logging(s),
         Lapses' \in Nat, Lapses' >= Lapses,
         Live(s)' => \/ Lapses' > Lapses
                     \/ Spare(s)
                     \/ /\ Spare(s)' => Shown(s) /\ Old(s)
                        /\ Shown(s)' /\ Old(s)' => Shown(s) /\ Old(s)
  PROVE  Bounded(s)'
<1>1. Cardinality(Logging(s)') \in Nat /\ Cardinality(Logging(s)') <= Cardinality(Logging(s))
  <2> DEFINE A == Logging(s)
             B == Logging(s)'
  <2>1. IsFiniteSet(A) /\ B \subseteq A
    BY FewLogging
  <2> HIDE DEF A, B
  <2>2. IsFiniteSet(B) /\ Cardinality(B) <= Cardinality(A) /\ Cardinality(B) \in Nat
    BY <2>1, FS_Subset, FS_CardinalityType
  <2> QED BY <2>2 DEF A, B
<1>2. Owes(s)' \in Nat /\ Owes(s)' <= Owes(s)
  BY <1>1, CountFacts DEF Owes
<1>3. costLog'[s].lines <= 1 + Lapses'
  BY CountFacts DEF Bounded
<1>4. SUFFICES ASSUME Live(s)'
               PROVE  /\ Owes(s)' <= Lapses' + (IF Spare(s)' THEN 0 ELSE 1)
                      /\ Shown(s)' /\ Old(s)' => Owes(s)' <= Lapses'
  BY <1>3 DEF Bounded
<1>5. /\ Owes(s) <= Lapses + (IF Spare(s) THEN 0 ELSE 1)
      /\ Shown(s) /\ Old(s) => Owes(s) <= Lapses
  BY <1>4 DEF Bounded
<1>6. CASE Spare(s) \/ Lapses' > Lapses
  BY <1>2, <1>5, <1>6, CountFacts
<1>7. CASE /\ Spare(s)' => Shown(s) /\ Old(s)
           /\ Shown(s)' /\ Old(s)' => Shown(s) /\ Old(s)
  BY <1>2, <1>5, <1>7, CountFacts
<1> QED BY <1>4, <1>6, <1>7

LEMMA OtherwiseCounts ==
  ASSUME WatchTypeOK, Seeing, Otherwise, WatchNext, NEW s \in Sessions, Bounded(s)
  PROVE  Bounded(s)'
<1>1. UNCHANGED <<watched, watchFile, line, costLog>>
  BY OtherwiseEffect
<1>2. Logging(s)' = Logging(s) /\ Leaving(s)' = Leaving(s) /\ Busy' = Busy /\ Old(s)' = Old(s)
  BY <1>1 DEF Logging, Leaving, Busy, Old
<1>3. Spare(s)' = Spare(s)
  BY <1>2 DEF Spare
<1>4. s \in Nat \ {0} /\ running.session \in Nat
  BY CountFacts, StillShown
<1>5. Live(s)' => (Shown(s)' /\ Old(s)' => Shown(s))
  <2> SUFFICES ASSUME Live(s)', Shown(s)', Old(s), ~Shown(s)
               PROVE  FALSE
    BY <1>2
  <2>1. Busy # {} /\ watched = "claude"
    BY DEF Old, Seeing
  <2>2. running'.session = running.session + 1 /\ ~running'.shown
    BY <1>4, <2>1, OtherwiseEffect DEF Shown
  <2>3. watchFile'.session = s \/ \E p \in Busy : line[p].session = s \/ line[p].read.session = s
    BY <1>1, <1>2, <1>4, <2>2 DEF Live, Shown
  <2> QED BY <1>1, <1>4, <2>3 DEF Seeing, Busy
<1>6. Spare(s) \/ ~Spare(s)'
  BY <1>3
<1>7. Live(s)' => Live(s)
  BY LiveStays
<1>8. Lapses' \in Nat /\ Lapses' >= Lapses
  BY MoreLapses
<1> QED BY <1>1, <1>2, <1>5, <1>6, <1>7, <1>8, BoundedMore

LEMMA StartCounts ==
  ASSUME WatchTypeOK, Seeing, WatchNext, NEW p \in Statuslines, LineStarts(p), NEW s \in Sessions, Bounded(s)
  PROVE  Bounded(s)'
<1>1. /\ Kept(p) /\ line[p].at = "no" /\ line'[p].at = "costs" /\ line'[p].session = running.session
      /\ running'.session = running.session /\ running'.shown /\ costLog' = costLog
  BY StartsEffect DEF LineStarts
<1>2. p \notin Busy /\ Busy' = Busy \cup {p} /\ \A q \in Busy : q \in Statuslines /\ line'[q] = line[q]
  BY <1>1, BusyChange DEF Kept, Busy
<1>3. /\ Leaving(s)' = Leaving(s)
      /\ Logging(s)' = IF running.session = s THEN Logging(s) ELSE Logging(s) \cup {p}
  BY <1>1, <1>2 DEF Leaving, Logging
<1>4. Live(s)' => Live(s)
  BY LiveStays
<1>5. /\ Lapses \in Nat /\ Lapses' \in Nat /\ Lapses' = IF Busy = {} THEN Lapses ELSE Lapses + 1
  <2>1. lapses.overlaps \in Nat /\ lapses.overtaken \in Nat /\ lapses.others \in Nat
    BY DEF WatchTypeOK, LapseCounts
  <2>2. /\ lapses'.others = lapses.others /\ lapses'.overtaken = lapses.overtaken
        /\ lapses'.overlaps = IF Busy = {} THEN lapses.overlaps ELSE lapses.overlaps + 1
    BY LapsesAtStart
  <2> QED BY <2>1, <2>2 DEF Lapses
<1>6. s \in Nat \ {0} /\ running.session \in Nat
  BY CountFacts, StillShown
<1>7. CASE running.session = s /\ Busy = {}
  <2>1. Spare(s) /\ Logging(s)' = Logging(s)
    BY <1>3, <1>7 DEF Spare
  <2> QED BY <1>1, <1>4, <1>5, <1>7, <2>1, BoundedMore
<1>8. CASE running.session = s /\ Busy # {}
  <2>1. Lapses' > Lapses /\ Logging(s)' = Logging(s)
    BY <1>3, <1>5, <1>8
  <2> QED BY <1>1, <1>4, <1>5, <2>1, BoundedMore
<1>9. CASE running.session # s
  <2>1. /\ Cardinality(Logging(s)') = Cardinality(Logging(s)) + 1
        /\ p \notin Logging(s)
    <3>1. p \notin Logging(s) /\ Logging(s)' = Logging(s) \cup {p}
      BY <1>2, <1>3, <1>9 DEF Logging
    <3> QED BY <3>1, FewLogging, FS_AddElement
  <2>2. Owes(s)' = Owes(s) + 1 /\ Owes(s)' \in Nat /\ costLog'[s].lines <= 1 + Lapses'
    BY <1>1, <1>5, <2>1, CountFacts DEF Owes, Bounded
  <2>3. p \in Logging(s)'
    BY <1>3, <1>9
  <2>4. Shown(s)' => Shown(s) /\ ~(line'[p].session < s)
    BY <1>1, <1>6, <1>9 DEF Shown
  <2>5. Shown(s)' /\ Old(s)' => Shown(s) /\ Old(s)
    BY <1>2, <2>4 DEF Old
  <2>6. CASE Busy = {}
    <3>1. ~Spare(s)' /\ Spare(s) /\ ~Old(s)
      BY <1>2, <2>3, <2>6 DEF Spare, Old
    <3>2. Live(s) => Owes(s) <= Lapses
      BY <3>1, CountFacts DEF Bounded
    <3> QED BY <1>4, <1>5, <2>2, <2>5, <2>6, <3>1, <3>2, CountFacts DEF Bounded
  <2>7. CASE Busy # {}
    <3>1. Spare(s)' => Spare(s)
      BY <1>2, <1>3, <1>9, <2>3 DEF Spare
    <3> QED BY <1>4, <1>5, <2>2, <2>5, <2>7, <3>1, CountFacts DEF Bounded
  <2> QED BY <2>6, <2>7
<1> QED BY <1>7, <1>8, <1>9

LEMMA LogCounts ==
  ASSUME WatchTypeOK, Seeing, WatchNext, NEW p \in Statuslines, LogCost(p), NEW s \in Sessions, Bounded(s)
  PROVE  Bounded(s)'
<1>1. /\ Kept(p) /\ p \in Busy /\ line[p].at = "costs" /\ line'[p].at = "track"
      /\ line'[p].session = line[p].session /\ line'[p].read = watchFile
      /\ running' = running /\ watchFile' = watchFile
  BY GoesOn, LogEffect DEF LogCost
<1>2. Busy' = Busy /\ \A q \in Busy \ {p} : q \in Statuslines /\ line'[q] = line[q]
  BY <1>1, BusyChange DEF Kept, Busy
<1>3. /\ Logging(s)' = Logging(s) \ {p}
      /\ Leaving(s)' = IF watchFile.session = s /\ line[p].session # s THEN Leaving(s) \cup {p} ELSE Leaving(s)
      /\ p \notin Leaving(s) /\ (p \in Logging(s) <=> line[p].session # s)
  BY <1>1, <1>2 DEF Logging, Leaving
<1>4. Old(s)' = Old(s) /\ Shown(s)' = Shown(s) /\ Lapses' \in Nat /\ Lapses' >= Lapses
  BY <1>1, <1>2, MoreLapses DEF Old, Shown
<1>5. Live(s)' => Live(s)
  BY LiveStays
<1>6. \/ costLog'[s].lines = costLog[s].lines
      \/ costLog'[s].lines = costLog[s].lines + 1 /\ s = watchFile.session /\ s # line[p].session
  BY CostsLoggedBy
<1>7. CASE line[p].session = s
  <2>1. Logging(s)' = Logging(s) /\ Leaving(s)' = Leaving(s) /\ costLog'[s].lines = costLog[s].lines
    BY <1>3, <1>6, <1>7
  <2>2. Spare(s)' = Spare(s)
    BY <1>2, <2>1 DEF Spare
  <2> QED BY <1>4, <1>5, <2>1, <2>2, CountFacts, BoundedMore
<1>8. CASE line[p].session # s
  <2>1. Cardinality(Logging(s)') = Cardinality(Logging(s)) - 1 /\ Cardinality(Logging(s)') \in Nat
    BY <1>3, <1>8, FewLogging, FS_RemoveElement, FS_CardinalityType
  <2>2. CASE costLog'[s].lines = costLog[s].lines + 1 /\ watchFile.session = s
    <3>1. Logging(s)' \cup Leaving(s)' = Logging(s) \cup Leaving(s)
      BY <1>3, <1>8, <2>2
    <3>2. Spare(s)' = Spare(s)
      BY <1>2, <3>1 DEF Spare
    <3>3. Owes(s)' = Owes(s)
      BY <2>1, <2>2, CountFacts DEF Owes
    <3>4. Live(s)
      BY <2>2 DEF Live
    <3>5. costLog'[s].lines <= 1 + Lapses
      <4>1. Owes(s) <= Lapses + 1
        BY <3>4, CountFacts DEF Bounded
      <4>2. costLog'[s].lines = costLog[s].lines + 1 /\ Cardinality(Logging(s)) >= 1
        BY <2>1, <2>2, CountFacts
      <4> QED BY <4>1, <4>2, CountFacts
    <3>6. Bounded(s)' <=> /\ costLog'[s].lines <= 1 + Lapses'
                          /\ Live(s)' => Owes(s)' <= Lapses' + (IF Spare(s)' THEN 0 ELSE 1)
                          /\ Live(s)' /\ Shown(s)' /\ Old(s)' => Owes(s)' <= Lapses'
      BY DEF Bounded
    <3>7. /\ Owes(s) <= Lapses + (IF Spare(s) THEN 0 ELSE 1)
          /\ Shown(s) /\ Old(s) => Owes(s) <= Lapses
      BY <3>4 DEF Bounded
    <3>8. costLog'[s].lines \in Nat /\ Owes(s) \in Nat /\ Lapses \in Nat
      BY <2>2, CountFacts
    <3> QED BY <1>4, <3>2, <3>3, <3>5, <3>6, <3>7, <3>8
  <2>3. CASE costLog'[s].lines = costLog[s].lines
    <3>1. Owes(s)' = Owes(s) - 1 /\ Owes(s)' \in Nat
      BY <2>1, <2>3, CountFacts DEF Owes
    <3>2. Live(s)' => Owes(s)' <= Lapses
      BY <1>5, <3>1, CountFacts DEF Bounded
    <3>3. costLog'[s].lines <= 1 + Lapses
      BY <2>3 DEF Bounded
    <3>4. Bounded(s)' <=> /\ costLog'[s].lines <= 1 + Lapses'
                          /\ Live(s)' => Owes(s)' <= Lapses' + (IF Spare(s)' THEN 0 ELSE 1)
                          /\ Live(s)' /\ Shown(s)' /\ Old(s)' => Owes(s)' <= Lapses'
      BY DEF Bounded
    <3>5. costLog'[s].lines \in Nat /\ Lapses \in Nat
      BY <2>3, CountFacts
    <3> QED BY <1>4, <3>1, <3>2, <3>3, <3>4, <3>5
  <2> QED BY <1>6, <2>2, <2>3
<1> QED BY <1>7, <1>8

LEMMA TrackCounts ==
  ASSUME WatchTypeOK, Seeing, WatchNext, NEW p \in Statuslines, TrackSession(p), NEW s \in Sessions, Bounded(s)
  PROVE  Bounded(s)'
<1>1. /\ Kept(p) /\ p \in Busy /\ line[p].at = "track" /\ watchFile'.session = line[p].session
      /\ line'[p].at = "no" \/ line'[p].at = "decide"
      /\ running' = running /\ lapses' = lapses
  BY GoesOn, TrackEffect, NothingInHand DEF TrackSession
<1>2. /\ Busy' \subseteq Busy /\ Busy \ {p} \subseteq Busy'
      /\ \A q \in Busy \ {p} : q \in Statuslines /\ line'[q] = line[q]
  BY <1>1 DEF Kept, Busy
<1>3. Logging(s)' = Logging(s) /\ Leaving(s)' = Leaving(s) \ {p}
  BY <1>1, <1>2 DEF Logging, Leaving
<1>4. /\ line[p].session # 0 /\ Shown(line[p].session) /\ line[p].session \in Nat
      /\ line[p].read.session = 0 \/ Shown(line[p].read.session)
  BY <1>1, WatchAssumption DEF Seeing, WatchTypeOK, Lines
<1>5. costLog'[s].lines = costLog[s].lines
  <2>1. line[p].session # 0
    BY <1>4
  <2> QED BY <2>1, SessionKnown
<1>6. Shown(s)' = Shown(s) /\ Lapses' = Lapses
  BY <1>1 DEF Shown, Lapses
<1>7. Old(s)' => Old(s)
  BY GoesOn DEF Old
<1>8. s \in Nat \ {0} /\ running.session \in Nat
  BY CountFacts, StillShown
<1>9. Live(s)' => Spare(s) \/ (Shown(s) /\ Old(s))
  <2> SUFFICES ASSUME Live(s)', ~Spare(s)
               PROVE  Shown(s) /\ Old(s)
    OBVIOUS
  <2>1. \A q \in Busy : q \in Logging(s) \/ q \in Leaving(s)
    BY DEF Spare
  <2>2. line[p].read.session = s /\ line[p].session # s
    BY <1>1, <2>1 DEF Logging, Leaving
  <2>3. \A q \in Busy' : ~(line'[q].at \in {"costs", "track"} /\ line'[q].session = s)
    BY <1>1, <1>2, <2>1 DEF Logging, Leaving
  <2>4. \A q \in Busy' : ~(line'[q].at \in {"ask", "save"})
    BY <1>1, <1>2, <2>1 DEF Logging, Leaving
  <2>5. running.session <= s
    BY <1>1, <2>2, <2>3, <2>4 DEF Live
  <2>6. Shown(s)
    BY <1>4, <1>8, <2>2
  <2>7. line[p].session < s
    <3>1. line[p].session \in Nat /\ Shown(line[p].session)
      BY <1>4
    <3> QED BY <1>8, <2>2, <2>5, <3>1 DEF Shown
  <2> QED BY <1>1, <2>6, <2>7 DEF Old
<1>10. Live(s)' => Live(s)
  BY LiveStays
<1> QED BY <1>3, <1>5, <1>6, <1>7, <1>9, <1>10, CountFacts, BoundedMore

LEMMA EndCounts ==
  ASSUME WatchTypeOK, Seeing, WatchNext, NEW p \in Statuslines,
         Decide(p) \/ Enqueues(p) \/ SaveRequest(p) \/ LineDies(p), NEW s \in Sessions, Bounded(s)
  PROVE  Bounded(s)'
<1>1. /\ Kept(p) /\ p \in Busy /\ costLog' = costLog
      /\ \A q \in Busy' : q \in Busy /\ line'[q].session = line[q].session
  BY GoesOn DEF Decide, Enqueues, SaveRequest, LineDies
<1>2. line'[p].at # "costs"
  BY DecideEffect, EnqueuesEffect, SaveEffect, DiesEffect, NothingInHand
<1>3. Logging(s)' \subseteq Logging(s)
  BY <1>1, <1>2 DEF Logging, Kept, Busy
<1>4. Live(s)' => Live(s)
  BY LiveStays
<1>5. Lapses' \in Nat /\ Lapses' >= Lapses
  BY MoreLapses
<1>6. CASE LineDies(p)
  <2>1. Lapses' > Lapses
    BY <1>6, DiesEffect, MoreLapses DEF Lapses
  <2> QED BY <1>1, <1>3, <1>4, <1>5, <2>1, BoundedMore
<1>7. CASE Decide(p) \/ Enqueues(p) \/ SaveRequest(p)
  <2>1. line[p].at \in {"decide", "ask", "save"}
    BY <1>7 DEF Decide, Enqueues, SaveRequest
  <2>2. Spare(s)
    BY <1>1, <2>1 DEF Spare, Logging, Leaving
  <2> QED BY <1>1, <1>3, <1>4, <1>5, <2>2, BoundedMore
<1> QED BY <1>6, <1>7

LEMMA CountedStep ==
  ASSUME WatchTypeOK, Seeing, Counted, WatchNext
  PROVE  Counted'
<1> SUFFICES ASSUME NEW s \in Sessions
             PROVE  Bounded(s)'
  BY DEF Counted
<1>1. Bounded(s)
  BY DEF Counted
<1> QED BY <1>1, NextCases, OtherwiseCounts, StartCounts, LogCounts, TrackCounts, EndCounts

-----------------------------------------------------------------------------
(* What is asked of the agent *)

LEMMA WatchStarts ==
  ASSUME WatchInit
  PROVE  WatchInv
<1>1. /\ watched \in {"claude", "codex"} /\ running = [session |-> 1, level |-> "low", shown |-> FALSE]
      /\ minute = 1 /\ watchFile = NoWatchFile /\ line = [p \in Statuslines |-> NoLine]
      /\ poller = [start |-> 1, switch |-> 0, early |-> 0, sync |-> 0] /\ poll = NoPoll
      /\ thread = [session |-> 0, level |-> "low", at |-> 0]
      /\ asked = [r \in Requests |-> [last |-> 0, early |-> 0]] /\ strays = 0
      /\ costLog = [s \in Sessions |-> [known |-> FALSE, lines |-> 0, lost |-> FALSE]]
      /\ lapses = [overlaps |-> 0, overtaken |-> 0, others |-> 0]
  BY DEF WatchInit, FreshPoller
<1>2. Busy = {} /\ ~TwoBusy
  BY <1>1, NothingInHand DEF Busy, TwoBusy
<1>3. WatchTypeOK
  <2>1. 1 \in Sessions /\ "low" \in Levels
    BY WatchAssumption DEF Sessions, Levels
  <2>2. running \in [session : Sessions, level : Levels, shown : BOOLEAN]
    BY <1>1, <2>1
  <2>3. watchFile \in WatchFiles /\ line \in [Statuslines -> Lines]
    BY <1>1, NothingOnFile, NothingInHand
  <2>4. /\ poller \in Pollers /\ poll \in Polls
        /\ thread \in [session : Nat, level : Levels, at : Nat]
        /\ asked \in [Requests -> [last : Nat, early : Nat]]
        /\ costLog \in [Sessions -> CostRecords]
        /\ lapses \in LapseCounts
    BY <1>1, <2>1, NothingInHand DEF Pollers, CostRecords, LapseCounts
  <2> QED BY <1>1, <2>2, <2>3, <2>4 DEF WatchTypeOK
<1>4. Lapses = 0
  BY <1>1 DEF Lapses
<1>5. Seeing
  BY <1>1, <1>2, NothingOnFile, NothingInHand DEF Seeing
<1>6. Earned
  <2>1. \A p \in Statuslines : Ready(p)
    BY <1>1, NothingOnFile, NothingInHand DEF Ready
  <2> QED BY <1>1, <2>1, NothingOnFile DEF Earned, CooldownsAreEarned, Requests
<1>12. Polling
  BY <1>1, NothingInHand DEF Polling
<1>7. InPlace
  BY <1>1 DEF InPlace, RightlyAsked
<1>8. Spacing
  <2>1. \A r \in Requests : Accurate(r) /\ CoolsFrom(r) = 0 /\ asked[r].last = 0 /\ asked[r].early = 0
    BY <1>1, <1>2, NothingOnFile DEF Accurate, Requests, CoolsFrom
  <2>2. \A r \in Requests : Credit(r) = 0
    BY <1>2, <2>1 DEF Credit
  <2> QED BY <1>1, <2>1, <2>2 DEF Spacing
<1>9. Alone
  BY <1>1, <1>2 DEF Alone, Logged
<1>10. Over
  BY <1>1 DEF Over
<1>11. Counted
  <2> SUFFICES ASSUME NEW s \in Sessions
               PROVE  Bounded(s)
    BY DEF Counted
  <2>1. Logging(s) = {} /\ Spare(s) /\ ~Old(s)
    BY <1>2 DEF Logging, Spare, Old
  <2>2. Owes(s) = 0 /\ costLog[s].lines = 0
    BY <1>1, <2>1, FS_EmptySet DEF Owes
  <2> QED BY <1>4, <2>1, <2>2 DEF Bounded
<1> QED BY <1>3, <1>5, <1>6, <1>7, <1>8, <1>9, <1>10, <1>11, <1>12 DEF WatchInv

LEMMA WatchKept ==
  ASSUME WatchInv, [WatchNext]_watchVars
  PROVE  WatchInv'
<1>1. CASE WatchNext
  <2>1. /\ WatchTypeOK /\ Seeing /\ Earned /\ Polling /\ InPlace /\ Spacing /\ Alone /\ Over /\ Counted
    BY DEF WatchInv
  <2>2. WatchTypeOK' /\ Seeing' /\ Earned' /\ Polling' /\ InPlace'
    BY <1>1, <2>1, WatchTypeStep, SeeingStep, EarnedStep, PollingStep, InPlaceStep
  <2>3. Spacing' /\ Alone' /\ Over' /\ Counted'
    BY <1>1, <2>1, SpacingStep, AloneStep, OverStep, CountedStep
  <2> QED BY <2>2, <2>3 DEF WatchInv
<1>2. CASE UNCHANGED watchVars
  <2>1. /\ UNCHANGED <<watched, running, minute, watchFile, line, poller, poll, thread, asked, strays, costLog>>
        /\ UNCHANGED lapses
    BY <1>2 DEF watchVars, askedVars
  <2>2. Busy' = Busy /\ Lapses' = Lapses
    BY <2>1 DEF Busy, Lapses
  <2>3. WatchTypeOK' /\ Seeing' /\ Earned' /\ Polling' /\ InPlace'
    BY <2>1, <2>2 DEF WatchInv, WatchTypeOK, Seeing, Shown, Earned, CooldownsAreEarned, Ready, Wanted,
                      Polling, Cooled, CoolsFrom, InPlace, RightlyAsked
  <2>4. Spacing'
    <3>1. \A p \in Statuslines : Wanted(p)' = Wanted(p)
      BY <2>1 DEF Wanted
    <3>2. Busy \subseteq Statuslines
      BY DEF Busy
    <3>3. /\ TwoBusy' = TwoBusy /\ Asking' = Asking
          /\ \A r \in Requests : /\ Accurate(r)' = Accurate(r) /\ Mending(r)' = Mending(r)
                                 /\ Behind(r)' = Behind(r)
      BY <2>1, <2>2, <3>1, <3>2 DEF TwoBusy, Asking, Accurate, Mending, Behind
    <3>4. \A r \in Requests : Credit(r)' = Credit(r)
      BY <2>1, <3>3 DEF Credit, CoolsFrom
    <3> QED BY <2>1, <3>4 DEF WatchInv, Spacing
  <2>5. Alone' /\ Over'
    BY <2>1, <2>2 DEF WatchInv, Alone, TwoBusy, Follows, Logged, Noted, Over
  <2>6. Counted'
    <3>1. ASSUME NEW s \in Sessions
          PROVE  Bounded(s)'
      <4>1. /\ Live(s)' = Live(s) /\ Logging(s)' = Logging(s) /\ Leaving(s)' = Leaving(s)
            /\ Old(s)' = Old(s) /\ Shown(s)' = Shown(s)
        BY <2>1, <2>2 DEF Live, Logging, Leaving, Old, Shown
      <4>2. Spare(s)' = Spare(s) /\ Owes(s)' = Owes(s)
        BY <2>1, <2>2, <4>1 DEF Spare, Owes
      <4> QED BY <2>1, <2>2, <4>1, <4>2 DEF WatchInv, Counted, Bounded
    <3> QED BY <3>1 DEF Counted
  <2> QED BY <2>3, <2>4, <2>5, <2>6 DEF WatchInv
<1> QED BY <1>1, <1>2

LEMMA AskedOnceHolds ==
  ASSUME WatchInv
  PROVE  AskedOnce
<1>1. /\ WatchTypeOK /\ Seeing /\ Earned /\ Polling /\ InPlace /\ Spacing /\ Alone /\ Over /\ Counted
  BY DEF WatchInv
<1>2. lapses.overlaps \in Nat /\ lapses.others \in Nat
  BY <1>1 DEF WatchTypeOK, LapseCounts
<1>3. Spaced
  <2> SUFFICES ASSUME NEW r \in Requests
               PROVE  asked[r].early <= 2 * lapses.overlaps + lapses.others
    BY DEF Spaced
  <2>1. Credit(r) \in Nat
    <3>1. watched = "codex" => Credit(r) \in Nat
      BY DEF Credit
    <3> QED BY <1>1, <3>1, CreditRange DEF WatchTypeOK
  <2> QED BY <1>1, <1>2, <2>1, AskedNumbers DEF Spacing
<1>4. CooldownsAreEarned
  BY <1>1 DEF Earned
<1>5. RightSession
  BY <1>1 DEF InPlace, RightlyAsked, RightSession
<1>6. CostsLogged
  <2> SUFFICES ASSUME NEW s \in Sessions
               PROVE  /\ costLog[s].lines <= 1 + Lapses
                      /\ costLog[s].known /\ s < watchFile.session /\ lapses.overlaps = 0
                           => costLog[s].lines > 0 \/ costLog[s].lost
                      /\ costLog[s].lines > 0 /\ Lapses = 0 =>
                           \/ s < watchFile.session
                           \/ \E p \in Statuslines : line[p].at = "track" /\ line[p].read.session = s
    BY DEF CostsLogged
  <2>1. costLog[s].lines <= 1 + Lapses
    BY <1>1 DEF Counted, Bounded
  <2>2. costLog[s].known /\ s < watchFile.session /\ lapses.overlaps = 0
          => costLog[s].lines > 0 \/ costLog[s].lost
    BY <1>1 DEF Alone, Logged, Noted
  <2>3. costLog[s].lines > 0 /\ Lapses = 0 =>
          \/ s < watchFile.session
          \/ \E p \in Statuslines : line[p].at = "track" /\ line[p].read.session = s
    BY <1>1 DEF Over, Busy
  <2> QED BY <2>1, <2>2, <2>3
<1> QED BY <1>3, <1>4, <1>5, <1>6 DEF AskedOnce

\* What the status lines and the poller ask of the agent: within a cooldown again only
\* for what the lapses account for, on record only if it was asked, of the session that
\* runs; and the cost of a session that was on file is logged once, as the next one is
\* seen, unless appending it fails.
THEOREM AskedOnceCorrect == WatchSpec => []AskedOnce
<1>1. WatchInit => WatchInv
  BY WatchStarts
<1>2. WatchInv /\ [WatchNext]_watchVars => WatchInv'
  BY WatchKept
<1>3. WatchInv => AskedOnce
  BY AskedOnceHolds
<1> QED BY <1>1, <1>2, <1>3, PTL DEF WatchSpec

-----------------------------------------------------------------------------
(* The usage alert: what the owner was told, and what the file says he was *)

Ranked == DOMAIN tierRank
Notices == [tier : Ranked, at : Nat]

AlertTyped ==
  /\ engine \in Engines /\ hour \in Nat \ {0}
  /\ report \in [Engines -> Ranked]
  /\ usageFile \in [Engines -> [tier : Ranked, at : Nat, truth : Ranked]]
  /\ alertFile \in [checked : Nat, observed : Ranked, notified : Ranked, at : Nat]
  /\ notice \in [tier : Ranked, at : Nat, early : Nat]
  /\ dropped \in Notices
  /\ unsaved \in Nat

\* A notice, queued or dropped, that is not younger than the one on file, and of its
\* tier or of a higher one while the one on file would still hold a notice back.
Backs(tier, at) ==
  /\ alertFile.at <= at
  /\ at < alertFile.at + NotifyCooldown => tierRank[tier] >= tierRank[alertFile.notified]

\* The notice on file is backed by one that was made out.
NoticeFollows ==
  /\ alertFile.at <= hour /\ notice.at <= hour /\ dropped.at <= hour
  /\ notice.at = 0 => notice.tier = "none"
  /\ alertFile.at # 0 => Backs(notice.tier, notice.at) \/ Backs(dropped.tier, dropped.at)

\* The file holds a second notice back as long as the last one queued does, or a
\* write has failed that no early notice accounts for yet.
HoldsBack ==
  /\ notice.at <= alertFile.at
  /\ \/ tierRank[notice.tier] <= tierRank[alertFile.notified]
     \/ notice.at + NotifyCooldown <= alertFile.at
EarlyIsPaid == notice.early + (IF HoldsBack THEN 0 ELSE 1) <= unsaved

ClaudeIsMeasured == usageFile["claude"].tier = usageFile["claude"].truth

AlertInv == AlertTyped /\ NoticeFollows /\ EarlyIsPaid /\ ClaudeIsMeasured

\* A rank is a number, and no tier ranks below none.
LEMMA RanksAreNumbers == \A t \in Ranked : tierRank[t] \in Nat
  BY DEF Ranked, tierRank

LEMMA AlertStarts == UsageInit => AlertInv
<1>1. {"none"} \subseteq Ranked
  BY DEF Ranked, tierRank
<1> QED
  BY <1>1, NotifyAssumption
  DEF UsageInit, AlertInv, AlertTyped, NoticeFollows, EarlyIsPaid, HoldsBack, ClaudeIsMeasured,
      Engines, NoUsage, Notices, tierRank

\* A measurement touches the file of its own runtime alone, and Claude's says what
\* was reported last.
LEMMA MonitorKeepsAlert == AlertInv /\ RunMonitor => AlertInv'
<1> SUFFICES ASSUME AlertInv, RunMonitor PROVE AlertInv'
  OBVIOUS
<1>1. /\ AlertTyped /\ ClaudeIsMeasured
      /\ UNCHANGED <<engine, hour, report, alertFile, notice, dropped, unsaved>>
  BY DEF AlertInv, RunMonitor
<1>2. (NoticeFollows /\ EarlyIsPaid)'
  BY <1>1 DEF AlertInv, NoticeFollows, Backs, EarlyIsPaid, HoldsBack
<1>3. CASE usageFile' = usageFile
  BY <1>1, <1>2, <1>3 DEF AlertInv, AlertTyped, ClaudeIsMeasured
<1>4. CASE Snapshot # "none" /\ usageFile' = [usageFile EXCEPT ![engine] =
             [tier |-> Snapshot, at |-> hour,
              truth |-> IF report[engine] # "none" THEN report[engine] ELSE @.truth]]
  <2> DEFINE new == [tier |-> Snapshot, at |-> hour,
                     truth |-> IF report[engine] # "none" THEN report[engine]
                               ELSE usageFile[engine].truth]
  <2>1. usageFile' = [usageFile EXCEPT ![engine] = new]
    BY <1>4
  <2>2. Snapshot \in Ranked
    BY <1>1 DEF AlertTyped, Snapshot, ClaudeSnapshot, CodexSnapshot, Engines
  <2>3. new \in [tier : Ranked, at : Nat, truth : Ranked]
    BY <1>1, <2>2 DEF AlertTyped
  <2>4. AlertTyped'
    <3> HIDE DEF new
    <3> QED
      BY <1>1, <2>1, <2>3 DEF AlertTyped
  <2>5. engine = "claude" => new.tier = new.truth
    BY <1>1 DEF Snapshot, ClaudeSnapshot, ClaudeIsMeasured
  <2>6. ClaudeIsMeasured'
    <3> HIDE DEF new
    <3>1. usageFile'["claude"] = IF engine = "claude" THEN new ELSE usageFile["claude"]
      BY <1>1, <2>1 DEF AlertTyped, Engines
    <3> QED
      BY <1>1, <2>5, <3>1 DEF ClaudeIsMeasured
  <2> QED
    BY <1>2, <2>4, <2>6 DEF AlertInv
<1> QED
  BY <1>3, <1>4 DEF RunMonitor

\* A quiet check writes no notice on file.
LEMMA QuietKeepsAlert == AlertInv /\ AlertKeepsQuiet => AlertInv'
<1> SUFFICES ASSUME AlertInv, AlertKeepsQuiet PROVE AlertInv'
  OBVIOUS
<1> DEFINE new == [alertFile EXCEPT !.checked = hour,
                   !.observed = IF Current = "none" THEN @ ELSE Current]
<1>1. /\ AlertTyped /\ NoticeFollows /\ EarlyIsPaid /\ ClaudeIsMeasured
      /\ WriteAlertState(new)
      /\ UNCHANGED <<engine, hour, report, usageFile, measuredAt, notice, dropped>>
  BY DEF AlertInv, AlertKeepsQuiet
<1>2. Current \in Ranked
  BY <1>1 DEF AlertTyped, Current
<1>3. /\ new \in [checked : Nat, observed : Ranked, notified : Ranked, at : Nat]
      /\ new.at = alertFile.at /\ new.notified = alertFile.notified
  BY <1>1, <1>2 DEF AlertTyped
<1>4. /\ alertFile' \in [checked : Nat, observed : Ranked, notified : Ranked, at : Nat]
      /\ alertFile'.at = alertFile.at /\ alertFile'.notified = alertFile.notified
      /\ unsaved' \in Nat /\ unsaved' >= unsaved
  <2> HIDE DEF new
  <2> QED
    BY <1>1, <1>3 DEF WriteAlertState, AlertTyped
<1>5. AlertTyped' /\ ClaudeIsMeasured'
  BY <1>1, <1>4 DEF AlertTyped, ClaudeIsMeasured
<1>6. NoticeFollows'
  BY <1>1, <1>4 DEF NoticeFollows, Backs
<1>7. HoldsBack' = HoldsBack
  BY <1>1, <1>4 DEF HoldsBack
<1>8. EarlyIsPaid'
  <2> HIDE DEF HoldsBack
  <2> QED
    BY <1>1, <1>4, <1>7 DEF EarlyIsPaid, AlertTyped
<1> QED
  BY <1>5, <1>6, <1>8 DEF AlertInv

\* A check that tells finds a higher tier than the one on file, or a cooldown over.
LEMMA TellsLater ==
  ASSUME AlertTyped, Tells
  PROVE  /\ tierRank[Current] > tierRank[alertFile.notified] \/ alertFile.at = 0
              \/ alertFile.at + NotifyCooldown <= hour
         /\ Current \in Ranked /\ tierRank[Current] \in Nat
<1>1. Current \in Ranked
  BY DEF AlertTyped, Current
<1>2. tierRank[Current] \in Nat /\ tierRank[alertFile.notified] \in Nat
  BY <1>1, RanksAreNumbers DEF AlertTyped
<1> QED
  BY <1>1, <1>2, NotifyAssumption DEF Tells, TierEscalated, CooldownExpired, AlertTyped

\* A file that holds back what the last notice does lets no early one through.
LEMMA HeldBackIsNotEarly ==
  ASSUME AlertTyped, NoticeFollows, HoldsBack, Tells
  PROVE  ~TooEarly /\ (tierRank[notice.tier] <= tierRank[Current] \/ notice.at + NotifyCooldown <= hour)
<1>1. /\ tierRank[Current] \in Nat /\ tierRank[notice.tier] \in Nat
      /\ tierRank[alertFile.notified] \in Nat
  BY TellsLater, RanksAreNumbers DEF AlertTyped
<1>2. NotifyCooldown \in Nat \ {0} /\ hour \in Nat /\ notice.at \in Nat /\ alertFile.at \in Nat
  BY NotifyAssumption DEF AlertTyped
<1>3. \/ tierRank[Current] > tierRank[alertFile.notified] \/ alertFile.at = 0
      \/ alertFile.at + NotifyCooldown <= hour
  BY TellsLater
<1>4. CASE tierRank[Current] > tierRank[alertFile.notified]
  BY <1>1, <1>2, <1>4 DEF HoldsBack, TooEarly, NoticeFollows
<1>5. CASE alertFile.at = 0
  <2>1. notice.at = 0 /\ notice.tier = "none"
    BY <1>2, <1>5 DEF HoldsBack, NoticeFollows
  <2>2. tierRank["none"] = 0
    BY DEF tierRank
  <2> QED
    BY <1>1, <2>1, <2>2 DEF TooEarly
<1>6. CASE alertFile.at + NotifyCooldown <= hour
  BY <1>1, <1>2, <1>6 DEF HoldsBack, TooEarly
<1> QED
  BY <1>3, <1>4, <1>5, <1>6

\* A notice goes on file, or a failed write pays for the one that comes early.
LEMMA NoticeKeepsAlert == AlertInv /\ AlertNotifies => AlertInv'
<1> SUFFICES ASSUME AlertInv, AlertNotifies PROVE AlertInv'
  OBVIOUS
<1> DEFINE new == [checked |-> hour, observed |-> Current, notified |-> Current, at |-> hour]
           kept == /\ alertFile' = alertFile /\ unsaved' = unsaved + 1
           saved == alertFile' = new /\ unsaved' = unsaved
           told == /\ notice' = [tier |-> Current, at |-> hour,
                                 early |-> IF TooEarly THEN notice.early + 1 ELSE notice.early]
                   /\ dropped' = dropped
           lost == dropped' = [tier |-> Current, at |-> hour] /\ notice' = notice
<1>1. /\ AlertTyped /\ NoticeFollows /\ EarlyIsPaid /\ ClaudeIsMeasured
      /\ Tells /\ (kept \/ saved) /\ (told \/ lost)
      /\ UNCHANGED <<engine, hour, report, usageFile, measuredAt>>
  BY DEF AlertInv, AlertNotifies, WriteAlertState
<1>2. /\ Current \in Ranked /\ tierRank[Current] \in Nat
      /\ tierRank[notice.tier] \in Nat /\ tierRank[alertFile.notified] \in Nat
  BY <1>1, TellsLater, RanksAreNumbers DEF AlertTyped
<1>3. /\ NotifyCooldown \in Nat \ {0} /\ hour \in Nat \ {0} /\ unsaved \in Nat
      /\ alertFile.at \in Nat /\ notice.at \in Nat /\ notice.early \in Nat
  BY <1>1, NotifyAssumption DEF AlertTyped
<1>4. HoldsBack => ~TooEarly /\ (tierRank[notice.tier] <= tierRank[Current]
                                   \/ notice.at + NotifyCooldown <= hour)
  BY <1>1, HeldBackIsNotEarly
<1>5. CASE saved
  <2>1. alertFile'.at = hour /\ alertFile'.notified = Current /\ unsaved' = unsaved
    BY <1>5
  <2>2. alertFile' \in [checked : Nat, observed : Ranked, notified : Ranked, at : Nat]
    BY <1>1, <1>2, <1>5 DEF AlertTyped
  <2>3. CASE told
    <3>1. /\ notice'.tier = Current /\ notice'.at = hour
          /\ notice'.early = IF TooEarly THEN notice.early + 1 ELSE notice.early
          /\ notice' \in [tier : Ranked, at : Nat, early : Nat]
      BY <1>2, <1>3, <2>3
    <3>2. AlertTyped' /\ ClaudeIsMeasured'
      BY <1>1, <2>1, <2>2, <2>3, <3>1 DEF AlertTyped, ClaudeIsMeasured
    <3>3. NoticeFollows'
      BY <1>1, <1>2, <1>3, <2>1, <3>1 DEF NoticeFollows, Backs
    <3>4. HoldsBack' /\ EarlyIsPaid'
      <4>1. HoldsBack'
        BY <1>2, <1>3, <2>1, <3>1 DEF HoldsBack
      <4> HIDE DEF HoldsBack, TooEarly
      <4> QED
        BY <1>1, <1>3, <1>4, <2>1, <3>1, <4>1 DEF EarlyIsPaid
    <3> QED
      BY <3>2, <3>3, <3>4 DEF AlertInv
  <2>4. CASE lost
    <3>1. /\ notice' = notice /\ dropped'.tier = Current /\ dropped'.at = hour /\ dropped' \in Notices
      BY <1>2, <1>3, <2>4 DEF Notices
    <3>2. AlertTyped' /\ ClaudeIsMeasured'
      BY <1>1, <2>1, <2>2, <3>1 DEF AlertTyped, ClaudeIsMeasured
    <3>3. NoticeFollows'
      BY <1>1, <1>2, <1>3, <2>1, <3>1 DEF NoticeFollows, Backs
    <3>4. HoldsBack => HoldsBack'
      <4>1. notice.at <= hour
        BY <1>1 DEF NoticeFollows
      <4> QED
        BY <1>2, <1>3, <1>4, <2>1, <3>1, <4>1 DEF HoldsBack
    <3>5. EarlyIsPaid'
      <4> HIDE DEF HoldsBack
      <4> QED
        BY <1>1, <1>3, <2>1, <3>1, <3>4 DEF EarlyIsPaid
    <3> QED
      BY <3>2, <3>3, <3>5 DEF AlertInv
  <2> QED
    BY <1>1, <2>3, <2>4
<1>6. CASE kept
  <2>1. \/ tierRank[Current] > tierRank[alertFile.notified] \/ alertFile.at = 0
        \/ alertFile.at + NotifyCooldown <= hour
    BY <1>1, TellsLater
  <2>2. alertFile.at <= hour
    BY <1>1 DEF NoticeFollows
  <2>3. CASE told
    <3>1. /\ notice'.tier = Current /\ notice'.at = hour
          /\ notice'.early = IF TooEarly THEN notice.early + 1 ELSE notice.early
          /\ notice' \in [tier : Ranked, at : Nat, early : Nat]
      BY <1>2, <1>3, <2>3
    <3>2. AlertTyped' /\ ClaudeIsMeasured'
      BY <1>1, <1>6, <2>3, <3>1 DEF AlertTyped, ClaudeIsMeasured
    <3>3. NoticeFollows'
      BY <1>1, <1>2, <1>3, <1>6, <2>1, <2>2, <3>1 DEF NoticeFollows, Backs
    <3>4. EarlyIsPaid'
      <4> HIDE DEF HoldsBack, TooEarly
      <4> QED
        BY <1>1, <1>3, <1>4, <1>6, <3>1 DEF EarlyIsPaid
    <3> QED
      BY <3>2, <3>3, <3>4 DEF AlertInv
  <2>4. CASE lost
    <3>1. /\ notice' = notice /\ dropped'.tier = Current /\ dropped'.at = hour /\ dropped' \in Notices
      BY <1>2, <1>3, <2>4 DEF Notices
    <3>2. AlertTyped' /\ ClaudeIsMeasured'
      BY <1>1, <1>6, <3>1 DEF AlertTyped, ClaudeIsMeasured
    <3>3. NoticeFollows'
      BY <1>1, <1>2, <1>3, <1>6, <2>1, <2>2, <3>1 DEF NoticeFollows, Backs
    <3>4. HoldsBack' = HoldsBack
      BY <1>6, <3>1 DEF HoldsBack
    <3>5. EarlyIsPaid'
      <4> HIDE DEF HoldsBack
      <4> QED
        BY <1>1, <1>3, <1>6, <3>1, <3>4 DEF EarlyIsPaid
    <3> QED
      BY <3>2, <3>3, <3>5 DEF AlertInv
  <2> QED
    BY <1>1, <2>3, <2>4
<1> QED
  BY <1>1, <1>5, <1>6

LEMMA AlertKept == AlertInv /\ [UsageNext]_usageVars => AlertInv'
<1> SUFFICES ASSUME AlertInv, [UsageNext]_usageVars PROVE AlertInv'
  OBVIOUS
<1>1. AlertTyped
  BY DEF AlertInv
<1>2. CASE RunMonitor
  BY <1>2, MonitorKeepsAlert
<1>3. CASE AlertKeepsQuiet
  BY <1>3, QuietKeepsAlert
<1>4. CASE AlertNotifies
  BY <1>4, NoticeKeepsAlert
<1>5. CASE SessionReports
  <2>1. PICK t \in Tiers : report' = [report EXCEPT ![engine] = t]
    BY <1>5 DEF SessionReports
  <2>2. t \in Ranked
    BY <2>1, NotifyAssumption DEF Ranked, tierRank
  <2> QED
    BY <1>1, <1>5, <2>1, <2>2
    DEF AlertInv, SessionReports, AlertTyped, NoticeFollows, Backs, EarlyIsPaid, HoldsBack, ClaudeIsMeasured
<1>6. CASE UsageMonitorStarts
  BY <1>6
  DEF AlertInv, UsageMonitorStarts, AlertTyped, NoticeFollows, Backs, EarlyIsPaid, HoldsBack, ClaudeIsMeasured
<1>7. CASE UsageHour
  <2>1. hour' = hour + 1 /\ UNCHANGED <<engine, report, usageFile, alertFile, notice, dropped, unsaved>>
    BY <1>7 DEF UsageHour
  <2>2. AlertTyped' /\ ClaudeIsMeasured'
    BY <1>1, <2>1 DEF AlertInv, AlertTyped, ClaudeIsMeasured
  <2>3. EarlyIsPaid'
    BY <2>1 DEF AlertInv, EarlyIsPaid, HoldsBack
  <2>4. /\ hour \in Nat /\ alertFile.at \in Nat /\ notice.at \in Nat /\ dropped.at \in Nat
    BY <1>1 DEF AlertTyped, Notices
  <2>5. NoticeFollows'
    BY <2>1, <2>4 DEF AlertInv, NoticeFollows, Backs
  <2> QED
    BY <2>2, <2>3, <2>5 DEF AlertInv
<1>8. CASE UNCHANGED usageVars
  BY <1>8
  DEF AlertInv, usageVars, AlertTyped, NoticeFollows, Backs, EarlyIsPaid, HoldsBack, ClaudeIsMeasured
<1> QED
  BY <1>2, <1>3, <1>4, <1>5, <1>6, <1>7, <1>8 DEF UsageNext

\* A check that keeps quiet has a notice on file that still holds.
LEMMA CheckIsTold == AlertInv /\ [UsageNext]_usageVars => FoundIsTold
<1> DEFINE Tell(n) == tierRank[n.tier] >= tierRank[Current] /\ hour < n.at + NotifyCooldown
<1> SUFFICES ASSUME AlertInv, [UsageNext]_usageVars, alertFile' # alertFile
             PROVE  tierRank[Current] = 0 \/ Tell(notice') \/ Tell(dropped')
  BY DEF FoundIsTold
<1>1. AlertTyped /\ NoticeFollows
  BY DEF AlertInv
<1>2. Current \in Ranked
  BY <1>1 DEF AlertTyped, Current
<1>3. /\ tierRank[Current] \in Nat /\ tierRank[notice.tier] \in Nat
      /\ tierRank[dropped.tier] \in Nat /\ tierRank[alertFile.notified] \in Nat
  BY <1>1, <1>2, RanksAreNumbers DEF AlertTyped, Notices
<1>4. CASE AlertNotifies
  BY <1>1, <1>3, <1>4, NotifyAssumption DEF AlertNotifies, AlertTyped
<1>5. CASE AlertKeepsQuiet
  <2>1. ~Tells /\ notice' = notice /\ dropped' = dropped
    BY <1>5 DEF AlertKeepsQuiet
  <2>2. CASE Current \in {"none", "ok"}
    BY <2>2 DEF tierRank
  <2>3. CASE ~TierEscalated /\ ~CooldownExpired
    <3>1. /\ alertFile.at \in Nat /\ hour \in Nat /\ notice.at \in Nat /\ dropped.at \in Nat
          /\ NotifyCooldown \in Nat
      BY <1>1, NotifyAssumption DEF AlertTyped, Notices
    <3>2. /\ alertFile.at # 0 /\ hour < alertFile.at + NotifyCooldown
          /\ tierRank[alertFile.notified] >= tierRank[Current]
      BY <1>3, <2>3, <3>1 DEF TierEscalated, CooldownExpired
    <3>3. Backs(notice.tier, notice.at) \/ Backs(dropped.tier, dropped.at)
      BY <1>1, <3>2 DEF NoticeFollows
    <3>4. CASE Backs(notice.tier, notice.at)
      <4>1. notice.at <= hour
        BY <1>1 DEF NoticeFollows
      <4> QED
        BY <1>3, <2>1, <3>1, <3>2, <3>4, <4>1 DEF Backs
    <3>5. CASE Backs(dropped.tier, dropped.at)
      <4>1. dropped.at <= hour
        BY <1>1 DEF NoticeFollows
      <4> QED
        BY <1>3, <2>1, <3>1, <3>2, <3>5, <4>1 DEF Backs
    <3> QED
      BY <3>3, <3>4, <3>5
  <2> QED
    BY <2>1, <2>2, <2>3 DEF Tells
<1> QED
  BY <1>4, <1>5
  DEF UsageNext, usageVars, RunMonitor, SessionReports, UsageMonitorStarts, UsageHour

\* Whoever restarts what in between: what a check found the owner was told, of that
\* tier or of a higher one and less than a cooldown before, or a notice to that
\* effect could not be queued; a notice comes too early only when a write had
\* failed; and Claude's file says what its sessions said.
THEOREM OwnerIsToldCorrect == UsageSpec => OwnerIsTold
<1>1. UsageInit => AlertInv
  BY AlertStarts
<1>2. AlertInv /\ [UsageNext]_usageVars => AlertInv'
  BY AlertKept
<1>3. AlertInv /\ [UsageNext]_usageVars => FoundIsTold
  BY CheckIsTold
<1>4. AlertInv => notice.early <= unsaved /\ usageFile["claude"].tier = usageFile["claude"].truth
  BY DEF AlertInv, AlertTyped, EarlyIsPaid, ClaudeIsMeasured
<1>5. UsageSpec => []AlertInv
  BY <1>1, <1>2, PTL DEF UsageSpec
<1>6. UsageSpec => [][FoundIsTold]_usageVars
  BY <1>3, <1>5, PTL DEF UsageSpec
<1> QED
  BY <1>4, <1>5, <1>6, PTL DEF OwnerIsTold

=============================================================================
