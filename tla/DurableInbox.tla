---------------------------- MODULE DurableInbox ----------------------------
(***************************************************************************)
(* What the C4 bridge promises about inbound messages, without queues,     *)
(* dispatchers or terminals (the product contract of                       *)
(* docs/plans/2026-07-16-message-recovery-design.md): an accepted message  *)
(* stays queued until it is delivered or given up, it is delivered only    *)
(* after the agent got it, it is given up only after enough recorded       *)
(* failures, and neither outcome is ever revised.                          *)
(***************************************************************************)
EXTENDS Naturals

CONSTANTS Messages, Limit

VARIABLES
  st,     \* "absent", "queued", "delivered" or "failed"
  shown,  \* how often the message was submitted to the agent
  fails   \* delivery failures recorded for it

inboxVars == <<st, shown, fails>>

InboxInit ==
  /\ st = [m \in Messages |-> "absent"]
  /\ shown = [m \in Messages |-> 0]
  /\ fails = [m \in Messages |-> 0]

Accept(m) ==
  /\ st[m] = "absent" /\ st' = [st EXCEPT ![m] = "queued"]
  /\ UNCHANGED <<shown, fails>>

\* The agent gets some messages, none of which counts as delivered already.
Show(S) ==
  /\ \A m \in S : st[m] \in {"queued", "failed"}
  /\ shown' = [m \in Messages |-> shown[m] + (IF m \in S THEN 1 ELSE 0)]
  /\ UNCHANGED <<st, fails>>

Deliver(m) ==
  /\ st[m] = "queued" /\ shown[m] > 0
  /\ st' = [st EXCEPT ![m] = "delivered"]
  /\ UNCHANGED <<shown, fails>>

Fail(m) ==
  /\ st[m] = "queued"
  /\ fails' = [fails EXCEPT ![m] = @ + 1]
  /\ st' \in {st, IF fails'[m] >= Limit THEN [st EXCEPT ![m] = "failed"] ELSE st}
  /\ UNCHANGED shown

InboxNext ==
  \/ \E S \in SUBSET Messages : Show(S)
  \/ \E m \in Messages : Accept(m) \/ Deliver(m) \/ Fail(m)

InboxSpec == InboxInit /\ [][InboxNext]_inboxVars
=============================================================================
