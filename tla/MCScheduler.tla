---------------------------- MODULE MCScheduler -----------------------------
(***************************************************************************)
(* Instances of Scheduler for TLC.                                         *)
(***************************************************************************)
EXTENDS Scheduler, TLC

CONSTANTS t1, t2

OneTime == [type |-> "one-time", priority |-> 3, patient |-> FALSE]
Recurring == [type |-> "recurring", priority |-> 3, patient |-> FALSE]
Backup == [type |-> "recurring", priority |-> 3, patient |-> TRUE]

One == {t1}
OfAnyKind == t1 :> {OneTime, Recurring, Backup}
Two == {t1, t2}
OneOfEach == t1 :> {Recurring} @@ t2 :> {OneTime}

AllOps == {"done", "update", "remove", "pause", "resume"}

\* Nobody gives a command after the tasks are added: what becomes of them is up to
\* the daemon.  With Ops = {} and MaxLate = 0 this is Next.
NoOps == {}
Unattended ==
  \/ Poll \/ Skip \/ Crash \/ RuntimeChanges
  \/ Claim \/ Log \/ Refused \/ Accepted \/ Succeeds \/ Revert \/ Close
  \/ SelectCompleted \/ Reschedule \/ SelectMissed \/ NextMissed \/ SkipMissed
  \/ SelectStale \/ TimeoutHistory \/ Expire
  \/ \E t \in Tasks : Add(t) \/ Delivers(t) \/ Forgets(t) \/ TimePasses(t) \/ Ages(t)

UnattendedSpec == Init /\ [][Unattended]_vars /\ Fairness
=============================================================================
