------------------------- MODULE HealthEngineProof -------------------------
(***************************************************************************)
(* Proofs about HealthEngine, for any number of probes, routes and         *)
(* delivery checks, any of the worlds and any bounds.                      *)
(***************************************************************************)
EXTENDS HealthEngine, FiniteSetTheorems, FunctionTheorems, TLAPS

\* What TypeOK says of m alone.
Sound(x) ==
  /\ x \in Monitor
  /\ x.timer => x.health # "ok"
  /\ x.failures = 0 => x.rested

\* y differs from x in neither the session, the health nor the pending record.
Alike(x, y) == y.session = x.session /\ y.health = x.health /\ y.pending = x.pending

-----------------------------------------------------------------------------
(* What the engine's operations do to the monitor's state *)

LEMMA RecoveredSound ==
  ASSUME NEW x, Sound(x)
  PROVE  /\ Sound(Recovered(x)) /\ Alike(x, Recovered(x))
         /\ Recovered(x).failures = 0 /\ Recovered(x).timer = x.timer
<1>1. 0 \in 0..MaxFailures
  BY BoundsAssumption
<1> QED BY <1>1 DEF Sound, Alike, Recovered, Monitor

LEMMA AttemptedSound ==
  ASSUME NEW x, Sound(x)
  PROVE  Sound(Attempted(x)) /\ Alike(x, Attempted(x)) /\ Attempted(x).failures = x.failures
BY DEF Sound, Alike, Attempted, Monitor

LEMMA FailedSound ==
  ASSUME NEW x, Sound(x)
  PROVE  Sound(Failed(x)) /\ Alike(x, Failed(x))
<1> DEFINE n == IF x.failures < MaxFailures THEN x.failures + 1 ELSE x.failures
<1>1. x.failures \in 0..MaxFailures
  BY DEF Sound, Monitor
<1>2. n \in 0..MaxFailures /\ n # 0
  BY <1>1, BoundsAssumption
<1>3. Failed(x) = [x EXCEPT !.failures = n, !.rested = FALSE]
  BY DEF Failed
<1> HIDE DEF n
<1> QED BY <1>2, <1>3 DEF Sound, Alike, Monitor

\* Killing a session touches nothing but the session.
LEMMA PerformSelfHealSound ==
  ASSUME NEW x, Sound(x)
  PROVE  /\ Sound(PerformSelfHeal(x))
         /\ PerformSelfHeal(x).health = x.health /\ PerformSelfHeal(x).pending = x.pending
BY DEF Sound, PerformSelfHeal, Monitor

LEMMA SetHealthSound ==
  ASSUME NEW x, Sound(x), NEW h \in Healths
  PROVE  /\ Sound(SetHealth(x, h)) /\ SetHealth(x, h).health = h
         /\ SetHealth(x, h).session = x.session /\ SetHealth(x, h).pending = x.pending
         /\ SetHealth(x, h).failures = x.failures
<1> DEFINE t == x.timer /\ h \notin {"ok", "rate_limited"}
           y == [x EXCEPT !.health = h, !.timer = t]
<1>1. t \in BOOLEAN /\ (t => h # "ok")
  OBVIOUS
<1>2. SetHealth(x, h) = IF x.health = h THEN x ELSE y
  BY DEF SetHealth
<1> HIDE DEF t
<1>3. y \in Monitor
  BY <1>1 DEF Sound, Monitor
<1>4. /\ y.timer = t /\ y.health = h /\ y.session = x.session /\ y.pending = x.pending
      /\ y.failures = x.failures /\ y.rested = x.rested
  BY DEF Sound, Monitor
<1> HIDE DEF y
<1> QED BY <1>1, <1>2, <1>3, <1>4 DEF Sound

LEMMA EnterRateLimitedSound ==
  ASSUME NEW x, Sound(x)
  PROVE  /\ Sound(EnterRateLimited(x)) /\ EnterRateLimited(x).health = "rate_limited"
         /\ EnterRateLimited(x).session = x.session
         /\ EnterRateLimited(x).pending = x.pending
<1> DEFINE y == [Recovered(x) EXCEPT !.recovering = FALSE, !.signal = "none"]
<1>1. Sound(y) /\ Alike(x, y)
  BY ZenonT(60), RecoveredSound DEF Sound, Alike, Monitor
<1>2. "rate_limited" \in Healths
  BY DEF Healths
<1>3. EnterRateLimited(x) = IF x.health = "rate_limited" THEN x ELSE SetHealth(y, "rate_limited")
  BY DEF EnterRateLimited
<1> HIDE DEF y
<1> QED BY <1>1, <1>2, <1>3, SetHealthSound DEF Alike

\* A rate-limited agent is not recovered.
LEMMA TriggerRecoverySound ==
  ASSUME NEW x, Sound(x), NEW hour \in BOOLEAN
  PROVE  /\ Sound(TriggerRecovery(x, hour))
         /\ TriggerRecovery(x, hour).pending = x.pending
         /\ x.health = "rate_limited" => TriggerRecovery(x, hour) = x
<1> DEFINE y == IF x.health = "ok" THEN [SetHealth(x, "unavailable") EXCEPT !.recovering = TRUE]
                ELSE x
           z == PerformSelfHeal(Failed(y))
<1>1. "unavailable" \in Healths
  BY DEF Healths
<1>2. /\ Sound([SetHealth(x, "unavailable") EXCEPT !.recovering = TRUE])
      /\ [SetHealth(x, "unavailable") EXCEPT !.recovering = TRUE].pending = x.pending
  <2> DEFINE u == SetHealth(x, "unavailable")
  <2>1. Sound(u) /\ u.pending = x.pending
    BY <1>1, SetHealthSound
  <2> HIDE DEF u
  <2>2. Sound([u EXCEPT !.recovering = TRUE]) /\ [u EXCEPT !.recovering = TRUE].pending = u.pending
    BY <2>1 DEF Sound, Monitor
  <2> QED BY <2>1, <2>2 DEF u
<1>3. Sound(y) /\ y.pending = x.pending
  BY <1>2
<1>4. Sound(z) /\ z.pending = x.pending
  <2> HIDE DEF y
  <2> QED BY <1>3, FailedSound, PerformSelfHealSound DEF Alike
<1>5. TriggerRecovery(x, hour) =
        IF RecoverySkipped(x.health) THEN x
        ELSE IF z.recovering /\ hour THEN SetHealth(z, "unavailable") ELSE z
  BY DEF TriggerRecovery
<1>6. x.health = "rate_limited" => RecoverySkipped(x.health)
  BY DEF RecoverySkipped
<1> HIDE DEF z
<1> QED BY <1>1, <1>4, <1>5, <1>6, SetHealthSound

LEMMA Cleared == NoPending.id = 0 /\ NoPending \in Pending \cup {NoPending}
BY DEF NoPending

LEMMA OnHeartbeatSuccessSound ==
  ASSUME NEW x, Sound(x), NEW phase
  PROVE  /\ Sound(OnHeartbeatSuccess(x, phase))
         /\ OnHeartbeatSuccess(x, phase).pending = NoPending
         /\ OnHeartbeatSuccess(x, phase).session = x.session
<1> DEFINE r == Recovered(x)
           d == r.due /\ phase = "primary"
           y == [r EXCEPT !.pending = NoPending, !.recovering = FALSE, !.signal = "none",
                          !.timer = FALSE, !.asked = FALSE, !.due = d]
<1>1. Sound(r) /\ r.session = x.session
  BY RecoveredSound DEF Alike
<1>2. d \in BOOLEAN
  OBVIOUS
<1>3. OnHeartbeatSuccess(x, phase) = SetHealth(y, "ok")
  BY DEF OnHeartbeatSuccess
<1> HIDE DEF r, d
<1>4. y \in Monitor
  <2> DEFINE v == [r EXCEPT !.pending = NoPending, !.signal = "none", !.timer = FALSE]
  <2>1. v \in Monitor
    BY ZenonT(60), <1>1, Cleared DEF Sound, Monitor
  <2>2. y = [v EXCEPT !.recovering = FALSE, !.asked = FALSE, !.due = d]
    BY <1>1 DEF Sound, Monitor
  <2> HIDE DEF v, y
  <2>3. [v EXCEPT !.recovering = FALSE, !.asked = FALSE, !.due = d] \in Monitor
    BY <1>2, <2>1 DEF Monitor
  <2> QED BY <2>2, <2>3
<1>5. /\ y.pending = NoPending /\ y.session = x.session
      /\ ~y.timer /\ y.failures = r.failures /\ y.rested = r.rested
  BY <1>1 DEF Sound, Monitor
<1> HIDE DEF y
<1>6. Sound(y)
  BY <1>1, <1>4, <1>5 DEF Sound
<1> QED BY <1>3, <1>5, <1>6, SetHealthSound DEF Healths

\* A failed heartbeat clears the record, and spares a rate-limited session.
LEMMA OnHeartbeatFailureSound ==
  ASSUME NEW x, Sound(x), NEW hour \in BOOLEAN
  PROVE  /\ Sound(OnHeartbeatFailure(x, hour))
         /\ OnHeartbeatFailure(x, hour).pending = NoPending
         /\ x.health = "rate_limited" => OnHeartbeatFailure(x, hour).session = x.session
<1> DEFINE y == [x EXCEPT !.pending = NoPending]
<1>1. Sound(y) /\ y.pending = NoPending /\ y.session = x.session /\ y.health = x.health
  BY Cleared DEF Sound, Monitor
<1>2. OnHeartbeatFailure(x, hour) =
        CASE x.health \in {"ok", "unavailable", "rate_limited"} /\ Pane = "limit" -> EnterRateLimited(y)
          [] x.health = "rate_limited" /\ Pane # "limit" -> SetHealth(Failed(y), "unavailable")
          [] OTHER -> TriggerRecovery(y, hour)
  BY DEF OnHeartbeatFailure
<1> HIDE DEF y
<1>3. /\ Sound(EnterRateLimited(y)) /\ EnterRateLimited(y).pending = NoPending
      /\ EnterRateLimited(y).session = x.session
  BY <1>1, EnterRateLimitedSound
<1>4. Sound(Failed(y)) /\ Failed(y).pending = NoPending /\ Failed(y).session = x.session
  BY <1>1, FailedSound DEF Alike
<1>5. /\ Sound(SetHealth(Failed(y), "unavailable"))
      /\ SetHealth(Failed(y), "unavailable").pending = NoPending
      /\ SetHealth(Failed(y), "unavailable").session = x.session
  BY <1>4, SetHealthSound DEF Healths
<1>6. Sound(TriggerRecovery(y, hour)) /\ TriggerRecovery(y, hour).pending = NoPending
  BY <1>1, TriggerRecoverySound
<1> QED BY <1>2, <1>3, <1>5, <1>6

LEMMA NotifiedSound ==
  ASSUME NEW x, Sound(x)
  PROVE  /\ Sound(Notified(x)) /\ Alike(x, Notified(x))
         /\ x.health = "unavailable" => Notified(x).failures = 0
<1> DEFINE y == [x EXCEPT !.asked = TRUE, !.downDue = @ \/ x.health = "down"]
<1>1. (x.downDue \/ x.health = "down") \in BOOLEAN
  OBVIOUS
<1>2. Sound(y) /\ Alike(x, y)
  BY <1>1 DEF Sound, Alike, Monitor
<1>3. Notified(x) = IF x.health = "unavailable" THEN Recovered(y) ELSE y
  BY DEF Notified
<1> HIDE DEF y
<1> QED BY <1>2, <1>3, RecoveredSound DEF Alike

LEMMA OnProcessRestartedSound ==
  ASSUME NEW x, Sound(x)
  PROVE  Sound(OnProcessRestarted(x)) /\ Alike(x, OnProcessRestarted(x))
<1>1. Sound(Recovered(x)) /\ Alike(x, Recovered(x))
  BY RecoveredSound
<1>2. x.health # "ok" => Sound([Recovered(x) EXCEPT !.signal = "fresh", !.timer = TRUE])
  BY <1>1 DEF Sound, Alike, Monitor
<1>3. Alike(x, [Recovered(x) EXCEPT !.signal = "fresh", !.timer = TRUE])
  BY <1>1 DEF Sound, Alike, Monitor
<1> QED BY <1>1, <1>2, <1>3 DEF OnProcessRestarted

-----------------------------------------------------------------------------
(* A new heartbeat, and the step that ends a handler *)

ProbesOK(pr) == pr \in [Probers -> {Idle, AwaitingAuth} \cup Polling]

\* The part of TypeOK a Step changes.
Engine ==
  /\ Sound(m)
  /\ hb \in [Ids -> {"free", "live", "orphaned", "done", "failed"}]
  /\ ProbesOK(prober)
  /\ \A i \in Ids : hb[i] = "free" <=> i \notin Held(m.pending, prober)

Others ==
  /\ checker \in [Checkers -> {"idle", "sleep", "auth"}]
  /\ world \in World
  /\ turns \in 0..MaxTurns /\ restarts \in 0..MaxRestarts

LEMMA TypeParts == TypeOK <=> Engine /\ Others
BY DEF TypeOK, Engine, Others, Sound, ProbesOK

\* When nothing is pending some heartbeat is free: no more are held than there are probes.
LEMMA FreeHeartbeat ==
  ASSUME Engine, m.pending.id = 0
  PROVE  \E i \in Ids : i \notin Held(m.pending, prober)
<1> DEFINE S == {prober[p].id : p \in Probers}
           n == Cardinality(Probers)
<1>1. IsFiniteSet(Probers) /\ n \in Nat
  BY SlotsAssumption, FS_Union, FS_CardinalityType DEF Probers
<1>2. IsFiniteSet(S) /\ Cardinality(S) <= n
  <2> DEFINE f == [p \in Probers |-> prober[p].id]
  <2>1. S = {f[p] : p \in Probers}
    OBVIOUS
  <2>2. f \in [Probers -> S]
    OBVIOUS
  <2>3. f \in Surjection(Probers, S)
    BY <2>1, <2>2, Fun_IsSurj
  <2> QED BY <1>1, <2>3, FS_Surjection
<1>3. IsFiniteSet(Ids) /\ Cardinality(Ids) = n + 1
  BY <1>1, FS_Interval DEF Ids
<1>4. ~(Ids \subseteq S)
  BY <1>1, <1>2, <1>3, FS_Subset, FS_CardinalityType
<1>5. 0 \notin Ids
  BY <1>1 DEF Ids
<1> QED BY <1>4, <1>5 DEF Held

LEMMA EnqueueHeartbeatSound ==
  ASSUME Engine, m.pending.id = 0, NEW x, Sound(x), x.pending = m.pending,
         NEW phase \in Phases
  PROVE  LET y == EnqueueHeartbeat(x, phase)
         IN /\ Sound(y) /\ y.session = x.session /\ y.health = x.health
            /\ y.failures = x.failures /\ y.rested = x.rested
            /\ y.pending.id # 0 => y.pending.phase = phase
<1> DEFINE id == CHOOSE i \in Ids : i \notin Held(m.pending, prober)
           r == [id |-> id, phase |-> phase, age |-> "new"]
           d == x.due /\ phase # "primary"
           y == [x EXCEPT !.pending = r, !.due = d]
<1>1. id \in Ids
  BY FreeHeartbeat
<1>2. EnqueueHeartbeat(x, phase) = IF ~world.c4 THEN x ELSE y
  BY DEF EnqueueHeartbeat
<1> HIDE DEF id
<1>3. r \in Pending \cup {NoPending} /\ r.phase = phase
  BY <1>1 DEF Pending
<1>4. d \in BOOLEAN
  OBVIOUS
<1> HIDE DEF r, d
<1>5. /\ Sound(y) /\ y.session = x.session /\ y.health = x.health
      /\ y.failures = x.failures /\ y.rested = x.rested /\ y.pending = r
  BY ZenonT(60), <1>3, <1>4 DEF Sound, Monitor
<1> QED BY <1>2, <1>3, <1>5

\* What RateLimitedSpared and BackoffHolds say of one step.
Spares == Killed /\ m.health = "rate_limited" => \E p \in Probers : prober[p].at = "auth"
Waits ==
  m.health = "unavailable" /\ InBackoff(m) /\ ~HasPending /\ m'.pending.id # 0
  => m'.pending.phase = "post_restart" \/ ~InBackoff(m')

\* The two of a step that ends in x.
Allowed(x) ==
  /\ m.health = "rate_limited"
     => x.session # "none" \/ x.session = m.session \/ \E p \in Probers : prober[p].at = "auth"
  /\ m.health = "unavailable" /\ InBackoff(m) /\ m.pending.id = 0 /\ x.pending.id # 0
     => x.pending.phase = "post_restart" \/ ~InBackoff(x)

Good == Engine' /\ Spares /\ Waits

LEMMA StepGood ==
  ASSUME Engine, NEW x, NEW pr, Sound(x), Allowed(x), ProbesOK(pr), Step(x, pr)
  PROVE  Good
<1>1. m' = x /\ prober' = pr
  BY DEF Step
<1>2. \A i \in Ids : hb[i] \in {"free", "live", "orphaned", "done", "failed"}
  BY DEF Engine
<1>3. /\ hb' \in [Ids -> {"free", "live", "orphaned", "done", "failed"}]
      /\ \A i \in Ids : hb'[i] = "free" <=> i \notin Held(x.pending, pr)
  <2>1. hb' = [i \in Ids |->
           CASE i \notin Held(x.pending, pr) -> "free"
             [] i \in Held(x.pending, pr) /\ hb[i] = "free" -> "live"
             [] i \in Held(x.pending, pr) /\ hb[i] = "live" /\ HasPane(m) /\ x.session = "none"
                  -> "orphaned"
             [] OTHER -> hb[i]]
    BY DEF Step
  <2> QED BY <1>2, <2>1
<1>4. Sound(m)' /\ ProbesOK(prober)' /\ Held(m.pending, prober)' = Held(x.pending, pr)
  BY <1>1 DEF Sound, ProbesOK, Held
<1>5. Engine'
  BY <1>3, <1>4 DEF Engine
<1>6. Spares
  BY <1>1 DEF Spares, Allowed, Killed, HasPane
<1>7. Waits
  BY <1>1 DEF Waits, Allowed, HasPending, InBackoff
<1> QED BY <1>5, <1>6, <1>7 DEF Good

LEMMA AlikeAllowed ==
  ASSUME NEW x, Alike(m, x)
  PROVE  Allowed(x)
BY DEF Alike, Allowed

LEMMA ClearedAllowed ==
  ASSUME NEW x, x.pending = NoPending, m.health = "rate_limited" => x.session = m.session
  PROVE  Allowed(x)
BY Cleared DEF Allowed

\* The usual ends of a handler.
LEMMA OnHeartbeatGood ==
  ASSUME Engine, NEW x, Sound(x), x.session = m.session, x.health = m.health,
         NEW pr, ProbesOK(pr)
  PROVE  /\ \A hour \in BOOLEAN : Step(OnHeartbeatFailure(x, hour), pr) => Good
         /\ \A phase : Step(OnHeartbeatSuccess(x, phase), pr) => Good
<1>1. ASSUME NEW hour \in BOOLEAN, Step(OnHeartbeatFailure(x, hour), pr) PROVE Good
  BY <1>1, OnHeartbeatFailureSound, ClearedAllowed, StepGood
<1>2. ASSUME NEW phase, Step(OnHeartbeatSuccess(x, phase), pr) PROVE Good
  BY <1>2, OnHeartbeatSuccessSound, ClearedAllowed, StepGood
<1> QED BY <1>1, <1>2

LEMMA ProbeChanges ==
  ASSUME Engine, NEW p \in Probers, NEW q \in {Idle, AwaitingAuth} \cup Polling
  PROVE  ProbesOK(prober) /\ ProbesOK([prober EXCEPT ![p] = q])
BY DEF Engine, ProbesOK

LEMMA LookAtGood ==
  ASSUME Engine, NEW x, Sound(x), x.session = m.session, x.health = m.health, Allowed(x),
         NEW p \in Probers, NEW q \in Polling, LookAt(x, p, q)
  PROVE  Good
<1>1. ProbesOK([prober EXCEPT ![p] = Idle]) /\ ProbesOK([prober EXCEPT ![p] = q])
  BY ProbeChanges
<1>2. CASE StatusOf(q.id) = "done"
  BY <1>1, <1>2, OnHeartbeatGood DEF LookAt
<1>3. CASE StatusOf(q.id) = "failed"
  <2>1. \E hour \in BOOLEAN : Step(OnHeartbeatFailure(x, hour), [prober EXCEPT ![p] = Idle])
    BY <1>3 DEF LookAt
  <2> QED BY <1>1, <2>1, OnHeartbeatGood
<1>4. CASE StatusOf(q.id) \notin {"done", "failed"}
  <2>1. Step(x, [prober EXCEPT ![p] = q])
    BY <1>4 DEF LookAt
  <2> QED BY <1>1, <2>1, StepGood
<1> QED BY <1>2, <1>3, <1>4

\* A probe asks within a backoff only after a restart or when the backoff was just ended.
LEMMA RunRecoveryProbeGood ==
  ASSUME Engine, NEW x, Sound(x), Alike(m, x), NEW p \in Probers, NEW phase \in Phases,
         \/ phase = "post_restart" \/ x.failures = 0
         \/ m.health # "unavailable" \/ ~InBackoff(m),
         RunRecoveryProbe(x, p, phase)
  PROVE  Good
<1> DEFINE y == Attempted(x)
           z == IF HasPending THEN y ELSE EnqueueHeartbeat(y, phase)
           q == [at |-> "poll", id |-> z.pending.id, phase |-> z.pending.phase,
                 early |-> z.pending.age = "new"]
<1>1. Sound(y) /\ Alike(m, y) /\ y.failures = x.failures
  BY AttemptedSound DEF Alike
<1>2. /\ Sound(z) /\ z.session = m.session /\ z.health = m.health /\ z.failures = x.failures
      /\ m.pending.id = 0 /\ z.pending.id # 0 => z.pending.phase = phase
  <2>1. CASE HasPending
    BY <1>1, <2>1 DEF Alike, HasPending
  <2>2. CASE ~HasPending
    <3>1. y.pending = m.pending /\ m.pending.id = 0
      BY <1>1, <2>2 DEF Alike, HasPending
    <3> HIDE DEF y
    <3> QED BY <1>1, <2>2, <3>1, EnqueueHeartbeatSound DEF Alike
  <2> QED BY <2>1, <2>2
<1>3. Allowed(z)
  <2> HIDE DEF z
  <2> QED BY <1>2 DEF Allowed, InBackoff
<1>4. z.pending.id # 0 => q \in Polling
  <2>1. z.pending \in Pending \cup {NoPending}
    BY <1>2 DEF Sound, Monitor
  <2> HIDE DEF z
  <2> QED BY <2>1 DEF Pending, NoPending, Polling
<1>5. CASE x.health = "auth_failed"
  <2>1. Step(y, [prober EXCEPT ![p] = AwaitingAuth])
    BY <1>5 DEF RunRecoveryProbe
  <2> HIDE DEF y
  <2> QED BY <1>1, <2>1, AlikeAllowed, StepGood, ProbeChanges
<1>6. CASE x.health # "auth_failed" /\ z.pending.id = 0
  <2>1. Step(z, prober)
    BY <1>6 DEF RunRecoveryProbe
  <2> HIDE DEF z
  <2> QED BY <1>2, <1>3, <2>1, StepGood DEF Engine
<1>7. CASE x.health # "auth_failed" /\ z.pending.id # 0
  <2>1. LookAt(z, p, q)
    BY <1>7 DEF RunRecoveryProbe
  <2> HIDE DEF z, q
  <2> QED BY <1>2, <1>3, <1>4, <1>7, <2>1, LookAtGood
<1> QED BY <1>5, <1>6, <1>7

-----------------------------------------------------------------------------
(* The actions *)

LEMMA TrackedSound == Sound(m) => Sound(Tracked) /\ Alike(m, Tracked)
BY DEF Sound, Alike, Tracked, Monitor

\* Steps of the maintenance cycle that hear of the pending heartbeat.
LEMMA HeartbeatHeardGood ==
  ASSUME Engine, ScanApiError \/ HandleStale \/ HandleDone \/ HandleFailed
  PROVE  Good
<1>1. Sound(Tracked) /\ Tracked.session = m.session /\ Tracked.health = m.health
  BY TrackedSound DEF Engine, Alike
<1>2. ProbesOK(prober)
  BY DEF Engine
<1>3. \/ \E hour \in BOOLEAN : Step(OnHeartbeatFailure(Tracked, hour), prober)
      \/ Step(OnHeartbeatSuccess(Tracked, m.pending.phase), prober)
  BY DEF ScanApiError, HandleStale, HandleDone, HandleFailed
<1> QED BY <1>1, <1>2, <1>3, OnHeartbeatGood

\* Steps of the maintenance cycle that send a heartbeat.
LEMMA HeartbeatSentGood ==
  ASSUME Engine, Accelerate \/ Recover \/ DownCheck \/ Primary \/ TrackOnly
  PROVE  Good
<1>1. Sound(m) /\ ProbesOK(prober) /\ Alike(m, m)
  BY DEF Engine, Alike
<1>2. Phases = {"primary", "recovery", "post_restart", "down-check"}
  BY DEF Phases
<1>3. CASE Accelerate
  <2> DEFINE u == [m EXCEPT !.signal = "none"]
             x == EnqueueHeartbeat(u, "post_restart")
             d == x.downDue /\ m.health # "down"
             y == [x EXCEPT !.downDue = d]
  <2>1. Sound(u) /\ Alike(m, u)
    BY <1>1 DEF Sound, Alike, Monitor
  <2>2. m.pending.id = 0
    BY <1>3 DEF Accelerate, Free, HasPending
  <2>3. Step(IF world.c4 THEN y ELSE Attempted(x), prober)
    BY <1>3 DEF Accelerate
  <2> HIDE DEF u
  <2>4. Sound(x) /\ x.session = m.session /\ (x.pending.id # 0 => x.pending.phase = "post_restart")
    BY <1>2, <2>1, <2>2, EnqueueHeartbeatSound DEF Alike
  <2> HIDE DEF x
  <2>5. d \in BOOLEAN
    OBVIOUS
  <2> HIDE DEF d
  <2>6. Sound(y) /\ y.session = m.session /\ y.pending = x.pending
    BY <2>4, <2>5 DEF Sound, Monitor
  <2>7. Sound(Attempted(x)) /\ Attempted(x).session = m.session /\ Attempted(x).pending = x.pending
    BY <2>4, AttemptedSound DEF Alike
  <2> HIDE DEF y
  <2>8. Allowed(y) /\ Allowed(Attempted(x))
    BY <2>4, <2>6, <2>7 DEF Allowed
  <2> QED BY <1>1, <2>3, <2>6, <2>7, <2>8, StepGood
<1>4. CASE Recover
  <2> DEFINE x == EnqueueHeartbeat(m, "recovery")
  <2>1. m.pending.id = 0 /\ ~InBackoff(m)
    BY <1>4 DEF Recover, MayRecover, Free, HasPending
  <2>2. Step(IF world.c4 THEN x ELSE Attempted(x), prober)
    BY <1>4 DEF Recover
  <2>3. Sound(x) /\ x.session = m.session
    BY <1>1, <1>2, <2>1, EnqueueHeartbeatSound
  <2> HIDE DEF x
  <2>4. Sound(Attempted(x)) /\ Attempted(x).session = m.session
    BY <2>3, AttemptedSound DEF Alike
  <2>5. Allowed(x) /\ Allowed(Attempted(x))
    BY <2>1, <2>3, <2>4 DEF Allowed
  <2> QED BY <1>1, <2>2, <2>3, <2>4, <2>5, StepGood
<1>5. CASE DownCheck
  <2> DEFINE x == EnqueueHeartbeat(m, "down-check")
             d == ~world.c4
             y == [x EXCEPT !.downDue = d]
  <2>1. m.pending.id = 0 /\ m.health = "down"
    BY <1>5 DEF DownCheck, Free, HasPending
  <2>2. Step(y, prober)
    BY <1>5 DEF DownCheck
  <2>3. Sound(x) /\ x.session = m.session
    BY <1>1, <1>2, <2>1, EnqueueHeartbeatSound
  <2>4. d \in BOOLEAN
    OBVIOUS
  <2> HIDE DEF x, d
  <2>5. Sound(y) /\ y.session = m.session
    BY <2>3, <2>4 DEF Sound, Monitor
  <2> HIDE DEF y
  <2>6. Allowed(y)
    BY <2>1, <2>5 DEF Allowed
  <2> QED BY <1>1, <2>2, <2>5, <2>6, StepGood
<1>6. CASE Primary
  <2> DEFINE x == EnqueueHeartbeat(m, "primary")
  <2>1. m.pending.id = 0 /\ m.health # "unavailable"
    BY <1>6 DEF Primary, Free, HasPending
  <2>2. Step(x, prober)
    BY <1>6 DEF Primary
  <2>3. Sound(x) /\ x.session = m.session
    BY <1>1, <1>2, <2>1, EnqueueHeartbeatSound
  <2> HIDE DEF x
  <2>4. Allowed(x)
    BY <2>1, <2>3 DEF Allowed
  <2> QED BY <1>1, <2>2, <2>3, <2>4, StepGood
<1>7. CASE TrackOnly
  BY <1>1, <1>7, TrackedSound, AlikeAllowed, StepGood DEF TrackOnly
<1> QED BY <1>3, <1>4, <1>5, <1>6, <1>7

LEMMA ProberGood ==
  ASSUME Engine, NEW p \in Probers, Poll(p) \/ GiveUp(p) \/ AuthAnswer(p)
  PROVE  Good
<1>1. Sound(m) /\ ProbesOK(prober) /\ Allowed(m) /\ prober[p] \in {Idle, AwaitingAuth} \cup Polling
  BY AlikeAllowed DEF Engine, ProbesOK, Alike
<1>2. CASE Poll(p)
  <2>1. prober[p] \in Polling
    BY <1>1, <1>2 DEF Poll, Settled, Idle, AwaitingAuth
  <2> QED BY <1>1, <1>2, <2>1, LookAtGood DEF Poll
<1>3. CASE GiveUp(p)
  BY <1>1, <1>3, ProbeChanges, StepGood DEF GiveUp
<1>4. CASE AuthAnswer(p)
  <2> DEFINE r == Recovered(m)
             u == [r EXCEPT !.recovering = TRUE]
             x == PerformSelfHeal(SetHealth(u, "unavailable"))
             y == SetHealth(m, "auth_failed")
  <2>1. "unavailable" \in Healths /\ "auth_failed" \in Healths
    BY DEF Healths
  <2>2. Step(IF world.login = "success" THEN x ELSE y, [prober EXCEPT ![p] = Idle])
    BY <1>4 DEF AuthAnswer
  <2>3. Sound(r) /\ Alike(m, r)
    BY <1>1, RecoveredSound
  <2> HIDE DEF r
  <2>4. Sound(u) /\ u.pending = m.pending
    BY <2>3 DEF Sound, Alike, Monitor
  <2> HIDE DEF u
  <2>5. Sound(x) /\ x.pending = m.pending
    <3>1. /\ Sound(SetHealth(u, "unavailable"))
          /\ SetHealth(u, "unavailable").pending = m.pending
      BY <2>1, <2>4, SetHealthSound
    <3> QED BY <3>1, PerformSelfHealSound
  <2>6. Sound(y) /\ y.pending = m.pending
    BY <1>1, <2>1, SetHealthSound
  <2>7. prober[p].at = "auth"
    BY <1>4 DEF AuthAnswer
  <2> HIDE DEF x, y
  <2>8. Allowed(x) /\ Allowed(y)
    BY <2>5, <2>6, <2>7 DEF Allowed
  <2> QED BY <2>2, <2>5, <2>6, <2>8, ProbeChanges, StepGood
<1> QED BY <1>2, <1>3, <1>4

LEMMA RouteGood ==
  ASSUME Engine, NEW p \in Probers, PostRestartProbe(p) \/ UserRoute(p) \/ Route(p)
  PROVE  Good
<1>1. Sound(m) /\ Alike(m, m) /\ ProbesOK(prober)
  BY DEF Engine, Alike
<1>2. "recovery" \in Phases /\ "post_restart" \in Phases
  BY DEF Phases
<1>3. CASE PostRestartProbe(p)
  <2> DEFINE u == [m EXCEPT !.timer = FALSE]
  <2>1. Sound(u) /\ Alike(m, u)
    BY <1>1 DEF Sound, Alike, Monitor
  <2>2. RunRecoveryProbe(u, p, "post_restart")
    BY <1>3 DEF PostRestartProbe
  <2> HIDE DEF u
  <2> QED BY <1>2, <2>1, <2>2, RunRecoveryProbeGood
<1>4. CASE UserRoute(p)
  <2> DEFINE u == Notified(m)
  <2>1. Sound(u) /\ Alike(m, u) /\ (m.health = "unavailable" => u.failures = 0)
    BY <1>1, NotifiedSound
  <2>2. Step(u, prober) \/ RunRecoveryProbe(u, p, "recovery")
    BY <1>4 DEF UserRoute
  <2> HIDE DEF u
  <2>3. ASSUME Step(u, prober) PROVE Good
    BY <1>1, <2>1, <2>3, AlikeAllowed, StepGood
  <2>4. ASSUME RunRecoveryProbe(u, p, "recovery") PROVE Good
    BY <1>2, <2>1, <2>4, RunRecoveryProbeGood
  <2> QED BY <2>2, <2>3, <2>4
<1>5. CASE Route(p)
  <2>1. RunRecoveryProbe(m, p, "recovery") /\ (m.health # "unavailable" \/ ~InBackoff(m))
    BY <1>5 DEF Route, MayProbe, WithinUnavailableBackoff
  <2> QED BY <1>1, <1>2, <2>1, RunRecoveryProbeGood
<1> QED BY <1>3, <1>4, <1>5

LEMMA ZeroOne == 0 \in 0..1 /\ 1 \in 0..1
OBVIOUS

\* A delivery check changes neither the record nor, but for a healthy agent, the session.
LEMMA CheckGood ==
  ASSUME Engine, world \in World, NEW c \in Checkers, CheckWakes(c) \/ CheckAuth(c)
  PROVE  Good
<1>1. Sound(m) /\ Alike(m, m) /\ ProbesOK(prober)
  BY DEF Engine, Alike
<1> USE ZeroOne
<1>2. Sound(NoHits(m)) /\ Alike(m, NoHits(m))
  BY <1>1 DEF Sound, Alike, NoHits, Monitor
<1>3. CASE CheckAuth(c)
  <2>1. Step(IF world.login = "failure" THEN SetHealth(NoHits(m), "auth_failed") ELSE NoHits(m),
             prober)
    BY <1>3 DEF CheckAuth
  <2>2. /\ Sound(SetHealth(NoHits(m), "auth_failed"))
        /\ SetHealth(NoHits(m), "auth_failed").session = m.session
        /\ SetHealth(NoHits(m), "auth_failed").pending = m.pending
    BY <1>2, SetHealthSound DEF Healths, Alike
  <2>3. Allowed(SetHealth(NoHits(m), "auth_failed")) /\ Allowed(NoHits(m))
    BY <1>2, <2>2 DEF Allowed, Alike
  <2> QED BY <1>1, <1>2, <2>1, <2>2, <2>3, StepGood
<1>4. CASE CheckWakes(c)
  <2>1. \/ Step(m, prober) \/ Step(NoHits(m), prober)
        \/ SeeLimit \/ (m.health = "ok" /\ SeeApiError)
    <3>1. Pane \in {"clean", "limit", "auth", "api"}
      BY DEF Pane, World
    <3>2. CASE m.health # "ok" \/ Pane = "auth"
      BY <1>4, <3>2 DEF CheckWakes
    <3>3. CASE m.health = "ok" /\ Pane = "limit"
      BY <1>4, <3>3 DEF CheckWakes
    <3>4. CASE m.health = "ok" /\ Pane = "api"
      BY <1>4, <3>4 DEF CheckWakes
    <3>5. CASE m.health = "ok" /\ Pane = "clean"
      BY <1>4, <3>5 DEF CheckWakes
    <3> QED BY <3>1, <3>2, <3>3, <3>4, <3>5
  <2>2. ASSUME Step(m, prober) \/ Step(NoHits(m), prober) PROVE Good
    BY <1>1, <1>2, <2>2, AlikeAllowed, StepGood
  <2>3. ASSUME SeeLimit PROVE Good
    <3> DEFINE x == [m EXCEPT !.limitHits = 1, !.stickyHits = 0]
               u == [x EXCEPT !.limitHits = 0]
    <3>1. Sound(x) /\ Alike(m, x)
      BY <1>1 DEF Sound, Alike, Monitor
    <3>2. Step(IF m.limitHits = 0 THEN x ELSE EnterRateLimited(u), prober)
      BY <2>3 DEF SeeLimit
    <3> HIDE DEF x
    <3>3. Sound(u) /\ Alike(m, u)
      BY <3>1 DEF Sound, Alike, Monitor
    <3> HIDE DEF u
    <3>4. /\ Sound(EnterRateLimited(u)) /\ EnterRateLimited(u).session = m.session
          /\ EnterRateLimited(u).pending = m.pending
      BY <3>3, EnterRateLimitedSound DEF Alike
    <3>5. Allowed(x) /\ Allowed(EnterRateLimited(u))
      BY <3>1, <3>4 DEF Allowed, Alike
    <3> QED BY <1>1, <3>1, <3>2, <3>4, <3>5, StepGood
  <2>4. ASSUME m.health = "ok", SeeApiError PROVE Good
    <3> DEFINE x == [m EXCEPT !.stickyHits = 1, !.limitHits = 0]
               u == [x EXCEPT !.stickyHits = 0]
               y == PerformSelfHeal(SetHealth(u, "unavailable"))
    <3>1. Sound(x) /\ Alike(m, x)
      BY <1>1 DEF Sound, Alike, Monitor
    <3>2. Step(x, prober) \/ Step(y, prober)
      BY <2>4 DEF SeeApiError
    <3> HIDE DEF x
    <3>3. Sound(u) /\ Alike(m, u)
      BY <3>1 DEF Sound, Alike, Monitor
    <3> HIDE DEF u
    <3>4. Sound(SetHealth(u, "unavailable")) /\ SetHealth(u, "unavailable").pending = m.pending
      BY <3>3, SetHealthSound DEF Alike, Healths
    <3>5. Sound(y) /\ y.pending = m.pending
      BY <3>4, PerformSelfHealSound
    <3> HIDE DEF y
    <3>6. Allowed(x) /\ Allowed(y)
      BY <2>4, <3>1, <3>5 DEF Allowed, Alike
    <3> QED BY <1>1, <3>1, <3>2, <3>5, <3>6, StepGood
  <2> QED BY <2>1, <2>2, <2>3, <2>4
<1> QED BY <1>3, <1>4

LEMMA TickGood ==
  ASSUME Engine, TickRunning \/ TickWaits \/ TickStarts
  PROVE  Good
<1>1. Sound(m) /\ ProbesOK(prober)
  BY DEF Engine
<1>2. CASE TickRunning
  <2> DEFINE s == IF m.running = "no" /\ PostRestartProbeState(m.health) THEN "fresh" ELSE m.signal
             x == [m EXCEPT !.running = "yes", !.signal = s]
  <2>1. s \in {"none", "fresh", "ripe"}
    BY <1>1 DEF Sound, Monitor
  <2>2. Step(x, prober)
    BY <1>2 DEF TickRunning
  <2> HIDE DEF s
  <2>3. Sound(x) /\ Alike(m, x)
    BY <1>1, <2>1 DEF Sound, Alike, Monitor
  <2> HIDE DEF x
  <2> QED BY <1>1, <2>2, <2>3, AlikeAllowed, StepGood
<1>3. CASE TickWaits
  <2> DEFINE x == [m EXCEPT !.running = "no"]
  <2>1. Step(x, prober)
    BY <1>3 DEF TickWaits
  <2>2. Sound(x) /\ Alike(m, x)
    BY <1>1 DEF Sound, Alike, Monitor
  <2> HIDE DEF x
  <2> QED BY <1>1, <2>1, <2>2, AlikeAllowed, StepGood
<1>4. CASE TickStarts
  <2> DEFINE u == [m EXCEPT !.running = "no", !.session = "starting"]
  <2>1. Step(OnProcessRestarted(u), prober)
    BY <1>4 DEF TickStarts
  <2>2. Sound(u) /\ u.session = "starting" /\ u.pending = m.pending
    BY <1>1 DEF Sound, Monitor
  <2> HIDE DEF u
  <2>3. /\ Sound(OnProcessRestarted(u)) /\ OnProcessRestarted(u).session = "starting"
        /\ OnProcessRestarted(u).pending = m.pending
    BY <2>2, OnProcessRestartedSound DEF Alike
  <2>4. Allowed(OnProcessRestarted(u))
    BY <2>3 DEF Allowed
  <2> QED BY <1>1, <2>1, <2>3, <2>4, StepGood
<1> QED BY <1>2, <1>3, <1>4

\* What happens to the session from outside the engine.
LEMMA SessionGood ==
  ASSUME Engine, FrozenProcess \/ MonitorRestart \/ Launches \/ AgentStops
  PROVE  Good
<1>1. Sound(m) /\ ProbesOK(prober)
  BY DEF Engine
<1>2. CASE FrozenProcess
  <2>1. PICK hour \in BOOLEAN : Step(TriggerRecovery(m, hour), prober)
    BY <1>2 DEF FrozenProcess
  <2>2. /\ Sound(TriggerRecovery(m, hour)) /\ TriggerRecovery(m, hour).pending = m.pending
        /\ m.health = "rate_limited" => TriggerRecovery(m, hour) = m
    BY <1>1, TriggerRecoverySound
  <2>3. Allowed(TriggerRecovery(m, hour))
    BY <2>2 DEF Allowed
  <2> QED BY <1>1, <2>1, <2>2, <2>3, StepGood
<1>3. CASE MonitorRestart
  <2> DEFINE x == Fresh(m.health, m.pending, m.session)
             pr == [p \in Probers |-> Idle]
  <2>1. Step(x, pr)
    BY <1>3 DEF MonitorRestart
  <2>2. Sound(x) /\ Alike(m, x)
    <3>1. 0 \in 0..MaxFailures
      BY BoundsAssumption
    <3>2. (m.health = "unavailable") \in BOOLEAN
      OBVIOUS
    <3> QED BY <1>1, <3>1, <3>2 DEF Sound, Alike, Fresh, Monitor
  <2>3. ProbesOK(pr)
    BY DEF ProbesOK
  <2> HIDE DEF x, pr
  <2> QED BY <2>1, <2>2, <2>3, AlikeAllowed, StepGood
<1>4. CASE Launches
  <2> DEFINE x == [m EXCEPT !.session = "up"]
  <2>1. Step(x, prober)
    BY <1>4 DEF Launches
  <2>2. Sound(x) /\ x.session = "up" /\ x.pending = m.pending
    BY <1>1 DEF Sound, Monitor
  <2> HIDE DEF x
  <2>3. Allowed(x)
    BY <2>2 DEF Allowed
  <2> QED BY <1>1, <2>1, <2>2, <2>3, StepGood
<1>5. CASE AgentStops
  <2> DEFINE x == [m EXCEPT !.session = "stopped"]
  <2>1. Step(x, prober)
    BY <1>5 DEF AgentStops
  <2>2. Sound(x) /\ x.session = "stopped" /\ x.pending = m.pending
    BY <1>1 DEF Sound, Monitor
  <2> HIDE DEF x
  <2>3. Allowed(x)
    BY <2>2 DEF Allowed
  <2> QED BY <1>1, <2>1, <2>2, <2>3, StepGood
<1> QED BY <1>2, <1>3, <1>4, <1>5

LEMMA TimeGood ==
  ASSUME Engine,
         BackoffElapses \/ SignalRipens \/ AskedElapses \/ DownDueArrives \/ DueArrives \/ PendingAges
  PROVE  Good
<1>1. Sound(m) /\ ProbesOK(prober)
  BY DEF Engine
<1>2. ASSUME BackoffElapses \/ SignalRipens \/ AskedElapses \/ DownDueArrives \/ DueArrives
      PROVE  \E x : Sound(x) /\ Alike(m, x) /\ Step(x, prober)
  <2>1. /\ Sound([m EXCEPT !.rested = TRUE]) /\ Alike(m, [m EXCEPT !.rested = TRUE])
        /\ Sound([m EXCEPT !.signal = "ripe"]) /\ Alike(m, [m EXCEPT !.signal = "ripe"])
        /\ Sound([m EXCEPT !.asked = FALSE]) /\ Alike(m, [m EXCEPT !.asked = FALSE])
        /\ Sound([m EXCEPT !.downDue = TRUE]) /\ Alike(m, [m EXCEPT !.downDue = TRUE])
        /\ Sound([m EXCEPT !.due = TRUE]) /\ Alike(m, [m EXCEPT !.due = TRUE])
    BY ZenonT(60), <1>1 DEF Sound, Alike, Monitor
  <2>2. \/ Step([m EXCEPT !.rested = TRUE], prober) \/ Step([m EXCEPT !.signal = "ripe"], prober)
        \/ Step([m EXCEPT !.asked = FALSE], prober) \/ Step([m EXCEPT !.downDue = TRUE], prober)
        \/ Step([m EXCEPT !.due = TRUE], prober)
    BY <1>2 DEF BackoffElapses, SignalRipens, AskedElapses, DownDueArrives, DueArrives
  <2> QED BY <2>1, <2>2
<1>3. ASSUME PendingAges
      PROVE  \E x : Sound(x) /\ x.session = m.session /\ Allowed(x) /\ Step(x, prober)
  <2> DEFINE old == IF m.pending.age = "new" THEN "mid" ELSE "old"
             r == [m.pending EXCEPT !.age = old]
             x == [m EXCEPT !.pending = r]
  <2>1. m.pending \in Pending /\ m.pending.id # 0
    BY <1>1, <1>3 DEF PendingAges, HasPending, Sound, Monitor, NoPending
  <2>2. r \in Pending
    BY <2>1 DEF Pending
  <2>3. Step(x, prober)
    BY <1>3 DEF PendingAges
  <2> HIDE DEF r
  <2>4. Sound(x) /\ x.session = m.session
    BY <1>1, <2>2 DEF Sound, Monitor
  <2> HIDE DEF x
  <2>5. Allowed(x)
    BY <2>1, <2>4 DEF Allowed
  <2> QED BY <2>3, <2>4, <2>5
<1> QED BY <1>1, <1>2, <1>3, AlikeAllowed, StepGood

-----------------------------------------------------------------------------
(* Theorems *)

LEMMA ExternalGood ==
  ASSUME Engine, \/ \E c \in Checkers : Delivered(c)
                 \/ \E id \in Ids : Answer(id) \/ Expire(id)
                 \/ WorldTurns
                 \/ UNCHANGED vars
  PROVE  Good
<1>1. m' = m /\ prober' = prober
  BY DEF Delivered, Answer, Expire, Settle, WorldTurns, vars
<1>2. /\ hb' \in [Ids -> {"free", "live", "orphaned", "done", "failed"}]
      /\ \A i \in Ids : hb'[i] = "free" <=> i \notin Held(m.pending, prober)
  <2>1. CASE hb' = hb
    BY <2>1 DEF Engine
  <2>2. ASSUME NEW id \in Ids, NEW s \in {"done", "failed"}, hb[id] # "free",
               hb' = [hb EXCEPT ![id] = s]
        PROVE  <1>2
    BY <2>2 DEF Engine
  <2>3. ASSUME NEW id \in Ids, Answer(id) \/ Expire(id)
        PROVE  hb[id] # "free" /\ \E s \in {"done", "failed"} : hb' = [hb EXCEPT ![id] = s]
    BY <2>3 DEF Answer, Expire, Settle
  <2> QED BY <2>1, <2>2, <2>3 DEF Delivered, WorldTurns, vars
<1>3. Engine'
  BY <1>1, <1>2 DEF Engine, Sound, ProbesOK, Held
<1>4. Spares /\ Waits
  BY <1>1 DEF Spares, Waits, Killed, HasPane, HasPending
<1> QED BY <1>3, <1>4 DEF Good

LEMMA NextGood ==
  ASSUME Engine, world \in World, [Next]_vars
  PROVE  Good
<1>1. CASE Maintenance
  BY <1>1, HeartbeatHeardGood, HeartbeatSentGood DEF Maintenance, Only
<1>2. CASE Tick
  BY <1>2, TickGood DEF Tick, Only
<1>3. CASE FrozenProcess \/ MonitorRestart \/ Launches \/ AgentStops
  BY <1>3, SessionGood
<1>4. CASE \E p \in Probers : Poll(p) \/ GiveUp(p) \/ AuthAnswer(p)
  BY <1>4, ProberGood
<1>5. CASE \/ \E p \in Timers : PostRestartProbe(p)
           \/ \E r \in Routers : UserRoute(r) \/ Route(r)
  BY <1>5, RouteGood DEF Probers
<1>6. CASE \E c \in Checkers : CheckWakes(c) \/ CheckAuth(c)
  BY <1>6, CheckGood
<1>7. CASE TimePasses
  BY <1>7, TimeGood DEF TimePasses, Only
<1>8. CASE \/ \E c \in Checkers : Delivered(c)
           \/ \E id \in Ids : Answer(id) \/ Expire(id)
           \/ WorldTurns
           \/ UNCHANGED vars
  BY <1>8, ExternalGood
<1> QED BY <1>1, <1>2, <1>3, <1>4, <1>5, <1>6, <1>7, <1>8 DEF Next

LEMMA OthersKept ==
  ASSUME Others, [Next]_vars
  PROVE  Others'
<1>1. CASE UNCHANGED <<checker, world, turns, restarts>>
  BY <1>1 DEF Others
<1>2. CASE MonitorRestart
  BY <1>2, BoundsAssumption DEF MonitorRestart, Others
<1>3. ASSUME NEW c \in Checkers, Delivered(c) \/ CheckWakes(c) \/ CheckAuth(c)
      PROVE  Others'
  <2>1. /\ checker' \in [Checkers -> {"idle", "sleep", "auth"}]
        /\ UNCHANGED <<world, turns, restarts>>
    BY <1>3 DEF Delivered, CheckWakes, CheckAuth, Others
  <2> QED BY <2>1 DEF Others
<1>4. CASE FrozenProcess \/ AgentStops
  BY <1>4, BoundsAssumption DEF FrozenProcess, AgentStops, Others
<1>5. CASE Launches
  BY <1>5 DEF Launches, Others, World
<1>6. CASE WorldTurns
  <2>1. world' \in World
    BY <1>6, SlotsAssumption DEF WorldTurns, World
  <2> QED BY <1>6, <2>1, BoundsAssumption DEF WorldTurns, Others
<1>7. ASSUME \/ Maintenance \/ Tick \/ TimePasses
             \/ \E p \in Probers : Poll(p) \/ GiveUp(p) \/ AuthAnswer(p)
             \/ \E p \in Timers : PostRestartProbe(p)
             \/ \E r \in Routers : UserRoute(r) \/ Route(r)
             \/ \E id \in Ids : Answer(id) \/ Expire(id)
             \/ UNCHANGED vars
      PROVE  UNCHANGED <<checker, world, turns, restarts>>
  BY <1>7 DEF Maintenance, Tick, TimePasses, Only, Poll, GiveUp, AuthAnswer, PostRestartProbe,
              UserRoute, Route, Answer, Expire, Settle, vars
<1> QED BY <1>1, <1>2, <1>3, <1>4, <1>5, <1>6, <1>7 DEF Next

LEMMA InitEngine == Init => Engine /\ Others
<1> SUFFICES ASSUME Init PROVE Engine /\ Others
  OBVIOUS
<1>1. Sound(m)
  <2>1. PICK h \in InitialHealth : m = Fresh(h, NoPending, "up")
    BY DEF Init
  <2>2. h \in Healths /\ 0 \in 0..MaxFailures /\ (h = "unavailable") \in BOOLEAN
    BY SlotsAssumption, BoundsAssumption
  <2> QED BY <2>1, <2>2, ZeroOne DEF Sound, Fresh, Monitor
<1>2. ProbesOK(prober) /\ \A p \in Probers : prober[p].id = 0
  BY DEF Init, ProbesOK, Idle
<1>3. m.pending.id = 0
  BY DEF Init, Fresh, NoPending
<1>4. \A i \in Ids : i # 0
  BY DEF Ids
<1>5. /\ hb \in [Ids -> {"free", "live", "orphaned", "done", "failed"}]
      /\ \A i \in Ids : hb[i] = "free" /\ i \notin Held(m.pending, prober)
  BY <1>2, <1>3, <1>4 DEF Init, Held
<1>6. Engine
  BY <1>1, <1>2, <1>5 DEF Engine
<1>7. Others
  BY SlotsAssumption, BoundsAssumption DEF Init, Others
<1> QED BY <1>6, <1>7

LEMMA TypeInductive == TypeOK /\ [Next]_vars => TypeOK' /\ Spares /\ Waits
<1> SUFFICES ASSUME TypeOK, [Next]_vars PROVE TypeOK' /\ Spares /\ Waits
  OBVIOUS
<1>1. Engine /\ Others
  BY TypeParts
<1>2. Good
  BY <1>1, NextGood DEF Others
<1>3. Others'
  BY <1>1, OthersKept
<1>4. (Engine /\ Others)' => TypeOK'
  BY DEF TypeOK, Engine, Others, Sound, ProbesOK
<1> QED BY <1>2, <1>3, <1>4 DEF Good

\* The monitor's state stays in its type, and a heartbeat number is in use exactly while
\* the pending file or a probe refers to it, so that enqueueHeartbeat always finds a free
\* one (enqueueHeartbeat, runRecoveryProbe).
THEOREM TypeCorrect == Spec => []TypeOK
<1>1. Init => TypeOK
  BY InitEngine, TypeParts
<1>2. TypeOK /\ [Next]_vars => TypeOK'
  BY TypeInductive
<1> QED BY <1>1, <1>2, PTL DEF Spec

\* No handler restarts a rate-limited agent, except the answer of a checkAuth that a probe
\* asked for while the agent was auth_failed (triggerRecovery, onHeartbeatFailure,
\* runRecoveryProbe).
THEOREM RateLimitedSparedCorrect == Spec => RateLimitedSpared
<1>1. TypeOK /\ [Next]_vars
      => [Killed /\ m.health = "rate_limited" => \E p \in Probers : prober[p].at = "auth"]_vars
  BY TypeInductive DEF Spares
<1> QED BY <1>1, TypeCorrect, PTL DEF Spec, RateLimitedSpared

\* In the backoff after a failed recovery the only new heartbeat is the check of a
\* restarted process, or one for a user's message, which ends the backoff
\* (runMaintenanceCycle, runRecoveryProbe, notifyUserMessage).
THEOREM BackoffHoldsCorrect == Spec => BackoffHolds
<1>1. TypeOK /\ [Next]_vars
      => [m.health = "unavailable" /\ InBackoff(m) /\ ~HasPending /\ m'.pending.id # 0
          => m'.pending.phase = "post_restart" \/ ~InBackoff(m')]_vars
  BY TypeInductive DEF Waits
<1> QED BY <1>1, TypeCorrect, PTL DEF Spec, BackoffHolds

=============================================================================
