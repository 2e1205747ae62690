---------------------------- MODULE C4Dispatcher ----------------------------
(***************************************************************************)
(* c4-dispatcher.js: the loop that takes work from the two queues of       *)
(* C4Queues and types it into the agent's terminal, together with          *)
(* everything that changes the rows behind its back: c4-receive inserting  *)
(* messages, c4-control enqueueing, reading and acknowledging controls,    *)
(* the agent dying and returning, time passing, and the death of the       *)
(* dispatcher itself.                                                      *)
(*                                                                         *)
(* One iteration of the loop is split where another process can run in     *)
(* between: at every SQL statement and at every await.  Several            *)
(* dispatchers may be given; one is what PM2 starts, more is the overlap   *)
(* the conditional claims of c4-db.js are written for.                     *)
(***************************************************************************)
EXTENDS C4Queues

CONSTANTS
  Dispatchers,
  Views,         \* what getAgentState may return, see View
  ENTER_VERIFY_MAX_RETRIES,
  Codex,         \* TRUE when the active runtime is codex
  MaxUncounted,  \* bound: failures per message not counted as a retry
  MaxCrashes     \* bound: dispatcher deaths

\* fresh: the status file is younger than STALE_STATUS_THRESHOLD; settled:
\* idle for REQUIRE_IDLE_MIN_SECONDS.  A missing or stale file reads as Stale.
View == [state : {"offline", "stopped", "busy", "idle"},
         healthOk : BOOLEAN, fresh : BOOLEAN, settled : BOOLEAN]
Stale == [state |-> "offline", healthOk |-> TRUE, fresh |-> FALSE, settled |-> FALSE]
Down(v) == v.state \in {"offline", "stopped"}

ASSUME ViewsAssumption == Views \subseteq View /\ Views # {}
ASSUME DispatcherAssumption ==
  /\ ENTER_VERIFY_MAX_RETRIES \in Nat \ {0}
  /\ Codex \in BOOLEAN
  /\ MaxUncounted \in Nat
  /\ MaxCrashes \in Nat

VARIABLES
  pc,        \* where each dispatcher is in processNextMessage
  item,      \* the row it looked up: queue, id, retry_count as it was read
  snap,      \* the agentState it read at the top of the iteration
  tries,     \* Enter verification attempts of the current delivery
  view,      \* contents of the agent status file
  alive,     \* the tmux session exists and takes keys
  box,       \* items whose text is in the agent's input box
  seen,      \* how often each message, and whether each control, was submitted
  uncounted, \* failed attempts per message that did not count as a retry
  orphans,   \* rows a dispatcher was holding when it died
  crashes    \* number of dispatcher deaths so far

dispatcherVars == <<pc, item, snap, tries>>
agentVars == <<view, alive, box, seen>>
historyVars == <<uncounted, orphans, crashes>>
vars == <<conv, ctl, pc, item, snap, tries, view, alive, box, seen,
          uncounted, orphans, crashes>>

Refs == ({"conv"} \X ConvIds) \cup ({"ctl"} \X CtlIds)
Item == [q : {"conv", "ctl"}, id : Nat, retry : Nat]
NoItem == [q |-> "none", id |-> 0, retry |-> 0]

\* The places between a claim and the end of its work.
Holding == {"gate", "paste", "enter", "verify", "unverified", "submitted",
            "failed", "key"}
PcValues == Holding \cup {"poll", "select", "claim", "hold"}

Ref(d) == <<item[d].q, item[d].id>>
Holds(d, q, i) == pc[d] \in Holding /\ item[d].q = q /\ item[d].id = i

TypeOK ==
  /\ QueuesTypeOK
  /\ pc \in [Dispatchers -> PcValues]
  /\ item \in [Dispatchers -> Item \cup {NoItem}]
  /\ \A d \in Dispatchers : pc[d] \in Holding \cup {"claim"} =>
       Ref(d) \in Refs /\ (pc[d] = "key" => item[d].q = "ctl")
  /\ snap \in [Dispatchers -> View]
  /\ tries \in [Dispatchers -> Nat]
  /\ view \in View
  /\ alive \in BOOLEAN
  /\ box \subseteq Refs
  /\ seen \in [Refs -> Nat]
  /\ uncounted \in [ConvIds -> Nat]
  /\ orphans \subseteq Refs
  /\ crashes \in Nat

Init ==
  /\ QueuesInit
  /\ pc = [d \in Dispatchers |-> "poll"]
  /\ item = [d \in Dispatchers |-> NoItem]
  /\ snap = [d \in Dispatchers |-> Stale]
  /\ tries = [d \in Dispatchers |-> 0]
  /\ view \in Views
  /\ alive = TRUE
  /\ box = {}
  /\ seen = [r \in Refs |-> 0]
  /\ uncounted = [m \in ConvIds |-> 0]
  /\ orphans = {}
  /\ crashes = 0

Goto(d, l) == pc' = [pc EXCEPT ![d] = l]
\* Ends the iteration: processNextMessage returns and the loop sleeps.
Return(d) == Goto(d, "poll") /\ item' = [item EXCEPT ![d] = NoItem]
\* The last use of a local variable; its value is forgotten.
DropSnap(d) == snap' = [snap EXCEPT ![d] = Stale]
DropTries(d) == tries' = [tries EXCEPT ![d] = 0]

-----------------------------------------------------------------------------
(* The other processes *)

\* c4-receive: insertConversation with direction 'in'.
Receive ==
  /\ \E m \in FreshConv, kind \in ConvKinds, s \in Now :
       conv' = InsertConversation(m, kind, s)
  /\ UNCHANGED <<ctl, dispatcherVars, agentVars, historyVars>>

\* c4-control enqueue.
Enqueue ==
  /\ \E c \in FreshCtl, kind \in CtlKinds : ctl' = InsertControl(c, kind)
  /\ UNCHANGED <<conv, dispatcherVars, agentVars, historyVars>>

\* c4-control get, which sweeps the deadlines before it reads.
Get ==
  /\ ctl' = ExpireTimedOutControls
  /\ UNCHANGED <<conv, dispatcherVars, agentVars, historyVars>>

\* c4-control ack, run by the agent for a control it was shown.
Ack(c) ==
  /\ ctl[c].ackSuffix /\ seen[<<"ctl", c>>] > 0
  /\ ctl' = AckControl(c)
  /\ UNCHANGED <<conv, dispatcherVars, agentVars, historyVars>>

\* Time reaches an ack deadline, or the available_at of a delayed control.
DeadlinePasses(c) ==
  /\ ctl[c].deadline = "ahead"
  /\ ctl' = [ctl EXCEPT ![c].deadline = "passed"]
  /\ UNCHANGED <<conv, dispatcherVars, agentVars, historyVars>>

BecomesAvailable(c) ==
  /\ ctl[c].status # "absent" /\ ~ctl[c].available
  /\ ctl' = [ctl EXCEPT ![c].available = TRUE]
  /\ UNCHANGED <<conv, dispatcherVars, agentVars, historyVars>>

\* The activity monitor rewrites the status file, or stops doing so.
StatusChanges ==
  /\ view' \in Views
  /\ UNCHANGED <<conv, ctl, dispatcherVars, alive, box, seen, historyVars>>

\* The tmux session goes away and what was typed into it is lost.
AgentDies ==
  /\ alive /\ alive' = FALSE /\ box' = {}
  /\ UNCHANGED <<conv, ctl, dispatcherVars, view, seen, historyVars>>

\* The guardian starts a session again.  It waits at least five one-second
\* ticks first, longer than the 3 * 500 ms a dispatcher spends verifying.
AgentStarts ==
  /\ ~alive /\ alive' = TRUE
  /\ \A d \in Dispatchers : pc[d] \notin {"enter", "verify"}
  /\ UNCHANGED <<conv, ctl, dispatcherVars, view, box, seen, historyVars>>

-----------------------------------------------------------------------------
(* processNextMessage *)

\* Housekeeping and the reading of the status file.  old: the final rows that
\* are seven days old, none of them in a dispatcher's hands.
Sweep(d) ==
  /\ pc[d] = "poll"
  /\ \E old \in SUBSET {c \in CtlIds : /\ ctl[c].status \in CtlFinal
                                       /\ \A e \in Dispatchers : ~Holds(e, "ctl", c)} :
       ctl' = CleanupControlQueue(ExpireTimedOutControls, old)
  /\ snap' = [snap EXCEPT ![d] = view]
  /\ Goto(d, "select")
  /\ UNCHANGED <<conv, item, tries, agentVars, historyVars>>

\* The SELECTs of claimNextItem: any eligible control goes before every message.
Found(d, q, i, retry) ==
  /\ item' = [item EXCEPT ![d] = [q |-> q, id |-> i, retry |-> retry]]
  /\ Goto(d, "claim") /\ UNCHANGED snap

Select(d) ==
  /\ pc[d] = "select"
  /\ \/ \E c \in GetNextPendingControl : Found(d, "ctl", c, ctl[c].retry)
     \/ /\ EligibleCtl = {}
        /\ \E m \in GetNextPending : Found(d, "conv", m, conv[m].retry)
     \/ /\ EligibleCtl = {} /\ ConvWith("pending") = {}
        /\ Return(d) /\ DropSnap(d)
  /\ UNCHANGED <<conv, ctl, tries, agentVars, historyVars>>

\* The conditional UPDATE of claimNextItem; a lost claim ends the iteration.
Claim(d) ==
  /\ pc[d] = "claim"
  /\ LET i == item[d].id IN
       \/ /\ item[d].q = "conv" /\ ConvClaimable(i)
          /\ conv' = ClaimConversation(i)
          /\ Goto(d, "gate") /\ UNCHANGED <<ctl, item, snap>>
       \/ /\ item[d].q = "ctl" /\ CtlClaimable(i)
          /\ ctl' = ClaimControl(i)
          /\ Goto(d, "gate") /\ UNCHANGED <<conv, item, snap>>
       \/ /\ ~(IF item[d].q = "conv" THEN ConvClaimable(i) ELSE CtlClaimable(i))
          /\ Return(d) /\ DropSnap(d) /\ UNCHANGED <<conv, ctl>>
  /\ UNCHANGED <<tries, agentVars, historyVars>>

RowOf(d) == IF item[d].q = "conv" THEN conv[item[d].id] ELSE ctl[item[d].id]
IsBypassState(d) == item[d].q = "ctl" /\ ctl[item[d].id].bypass
HasContent(d, S) == item[d].q = "ctl" /\ ctl[item[d].id].content \in S

\* The agent, as it was read before the claim, cannot take this item now.
NotNow(d) ==
  \/ ~IsBypassState(d) /\ (Down(snap[d]) \/ ~snap[d].healthOk)
  \/ RowOf(d).requireIdle /\ ~snap[d].settled

ReleaseItem(d) ==
  IF item[d].q = "conv"
  THEN conv' = RequeueConversation(item[d].id) /\ UNCHANGED ctl
  ELSE ctl' = RequeueControl(item[d].id) /\ UNCHANGED conv

\* A primary or a recovery heartbeat, told apart by the [phase=...] tag.
ShouldAutoAckHeartbeat(d, procAlive, frozen, confirmedActive) ==
  /\ HasContent(d, {"heartbeat"})
  /\ snap[d].fresh /\ ~Down(snap[d]) /\ procAlive
  /\ \/ confirmedActive
     \/ snap[d].healthOk /\ snap[d].settled /\ ~frozen

\* From the claim to the choice of how to deliver.  The three inputs are what
\* proc-state.json and api-activity.json say at that moment.
Gate(d) ==
  /\ pc[d] = "gate"
  /\ \E procAlive, frozen, confirmedActive \in BOOLEAN :
       LET autoAck == /\ IsBypassState(d)
                      /\ ShouldAutoAckHeartbeat(d, procAlive, frozen, confirmedActive)
       IN \/ /\ NotNow(d)
             /\ ReleaseItem(d) /\ Return(d)
          \/ /\ ~NotNow(d) /\ autoAck
             /\ ctl' = AckControl(item[d].id) /\ UNCHANGED conv /\ Return(d)
          \/ /\ ~NotNow(d) /\ ~autoAck
             /\ Goto(d, IF HasContent(d, {"keystroke"}) THEN "key" ELSE "paste")
             /\ UNCHANGED <<conv, ctl, item>>
  /\ DropSnap(d)
  /\ UNCHANGED <<tries, agentVars, historyVars>>

\* tmux send-keys of a [KEYSTROKE] control.
Keystroke(d) ==
  /\ pc[d] = "key"
  /\ \/ alive /\ ctl' = AckControl(item[d].id) /\ Return(d)
     \/ Goto(d, "failed") /\ UNCHANGED <<ctl, item>>
  /\ UNCHANGED <<conv, snap, tries, agentVars, historyVars>>

\* sendToTmux: the text goes into the input box, or tmux refuses.
Paste(d) ==
  /\ pc[d] = "paste"
  /\ \/ /\ alive
        /\ box' = box \cup {Ref(d)} /\ Goto(d, "enter")
     \/ Goto(d, "failed") /\ UNCHANGED box
  /\ UNCHANGED <<conv, ctl, item, snap, tries, view, alive, seen, historyVars>>

\* An Enter submits all that is in the box, or is swallowed by the terminal.
PressEnter ==
  \/ /\ seen' = [r \in Refs |->
                    IF r \in box /\ (r[1] = "conv" \/ seen[r] = 0)
                    THEN seen[r] + 1 ELSE seen[r]]
     /\ box' = {}
  \/ UNCHANGED <<box, seen>>

\* submitAndVerify, first Enter; a tmux error ends the verification.
Enter(d) ==
  /\ pc[d] = "enter"
  /\ \/ /\ alive /\ PressEnter
        /\ Goto(d, "verify")
     \/ Goto(d, "unverified") /\ UNCHANGED <<box, seen>>
  /\ UNCHANGED <<conv, ctl, item, snap, tries, view, alive, historyVars>>

\* Mutant: a terminal that cannot be read is taken for an empty box.
UnreadableIsEmpty == ~alive \/ box = {}
ReadsEmpty == alive /\ box = {}

\* One look at the input box.  A box that reads as full gets another Enter,
\* after the last look as well; an unreadable one is only looked at again.
Verify(d) ==
  /\ pc[d] = "verify"
  /\ \/ /\ tries[d] < ENTER_VERIFY_MAX_RETRIES
        /\ ReadsEmpty
        /\ Goto(d, "submitted") /\ DropTries(d) /\ UNCHANGED <<box, seen>>
     \/ /\ tries[d] < ENTER_VERIFY_MAX_RETRIES
        /\ tries' = [tries EXCEPT ![d] = @ + 1]
        /\ (alive /\ PressEnter) \/ UNCHANGED <<box, seen>>
        /\ UNCHANGED pc
     \/ /\ tries[d] >= ENTER_VERIFY_MAX_RETRIES
        /\ Goto(d, "unverified") /\ DropTries(d) /\ UNCHANGED <<box, seen>>
  /\ UNCHANGED <<conv, ctl, item, snap, view, alive, historyVars>>

\* Messages must be verified.  A control passes unless the process is dead or
\* the agent down by now, and /exit to codex passes even then.
Unverified(d) ==
  /\ pc[d] = "unverified"
  /\ \E procDead \in BOOLEAN :
       LET dead == procDead \/ Down(view)
           ok == item[d].q = "ctl" /\ (dead => Codex /\ HasContent(d, {"/exit"}))
       IN Goto(d, IF ok THEN "submitted" ELSE "failed")
  /\ UNCHANGED <<conv, ctl, item, snap, tries, agentVars, historyVars>>

\* A control with an ack suffix stays running until the agent acks it.
Submitted(d) ==
  /\ pc[d] = "submitted"
  /\ LET i == item[d].id IN
       \/ item[d].q = "conv" /\ conv' = MarkDelivered(i) /\ UNCHANGED ctl
       \/ item[d].q = "ctl" /\ ctl[i].ackSuffix /\ UNCHANGED <<conv, ctl>>
       \/ item[d].q = "ctl" /\ ~ctl[i].ackSuffix /\ ctl' = AckControl(i) /\ UNCHANGED conv
  /\ Goto(d, IF RowOf(d).requireIdle THEN "hold" ELSE "poll")
  /\ item' = [item EXCEPT ![d] = NoItem]
  /\ UNCHANGED <<snap, tries, agentVars, historyVars>>

\* waitForRequireIdleSettlement, which ends by itself after two minutes.
Hold(d) ==
  /\ pc[d] = "hold" /\ Return(d)
  /\ UNCHANGED <<conv, ctl, snap, tries, agentVars, historyVars>>

\* Mutant: one attempt too few.
GivesUpEarly(n) == n >= MAX_RETRIES - 1
GivesUp(n) == n >= MAX_RETRIES

\* Mutant: the retry path forgets requeueConversation.
FailureKeepsClaim(d, m) ==
  IF GivesUp(item[d].retry + 1) THEN "failed" ELSE conv[m].status
FailureStatus(d, m) ==
  IF GivesUp(item[d].retry + 1) THEN "failed"
  ELSE IF conv[m].status = "running" THEN "pending" ELSE conv[m].status

\* handleConversationDeliveryFailure.  The limit is tested on the retry_count
\* the SELECT returned.  A stale status file requeues without counting.
HandleConversationFailure(d, m) ==
  \/ /\ view.fresh
     /\ conv' = [conv EXCEPT ![m] =
          WithStatus(WithRetry(conv[m], conv[m].retry + 1), FailureStatus(d, m))]
     /\ UNCHANGED uncounted
  \/ /\ ~view.fresh /\ uncounted[m] < MaxUncounted
     /\ conv' = RequeueConversation(m)
     /\ uncounted' = [uncounted EXCEPT ![m] = @ + 1]

HandleFailure(d) ==
  /\ pc[d] = "failed"
  /\ LET i == item[d].id IN
       \/ item[d].q = "conv" /\ HandleConversationFailure(d, i) /\ UNCHANGED ctl
       \/ /\ item[d].q = "ctl" /\ ctl' = RetryOrFailControl(i)
          /\ UNCHANGED <<conv, uncounted>>
  /\ Return(d)
  /\ UNCHANGED <<snap, tries, agentVars, orphans, crashes>>

\* The process is killed and PM2 starts it again, or the iteration throws and
\* the loop goes on: either way the claimed row is dropped, and main() does
\* not look for it.
Crash(d) ==
  /\ crashes < MaxCrashes /\ crashes' = crashes + 1
  /\ orphans' = IF pc[d] \in Holding THEN orphans \cup {Ref(d)} ELSE orphans
  /\ Return(d) /\ DropSnap(d) /\ DropTries(d)
  /\ UNCHANGED <<conv, ctl, agentVars, uncounted>>

Step(d) ==
  \/ Sweep(d) \/ Select(d) \/ Claim(d) \/ Gate(d) \/ Keystroke(d) \/ Paste(d)
  \/ Enter(d) \/ Verify(d) \/ Unverified(d) \/ Submitted(d) \/ Hold(d)
  \/ HandleFailure(d)

Next ==
  \/ Receive \/ Enqueue \/ Get \/ StatusChanges \/ AgentDies \/ AgentStarts
  \/ \E c \in CtlIds : Ack(c) \/ DeadlinePasses(c) \/ BecomesAvailable(c)
  \/ \E d \in Dispatchers : Step(d) \/ Crash(d)

Spec == Init /\ [][Next]_vars

\* The dispatcher process keeps running its loop, and clocks advance.  Nothing
\* is assumed of the agent, of its acks or of the status file.
Fairness ==
  /\ \A d \in Dispatchers : WF_vars(Step(d))
  /\ \A c \in CtlIds : WF_vars(DeadlinePasses(c)) /\ WF_vars(BecomesAvailable(c))

FairSpec == Spec /\ Fairness

-----------------------------------------------------------------------------
(* Properties *)

\* The conditional claim gives a row to one dispatcher at a time, although
\* several may have read it as pending (claimNextItem).
ClaimExclusive ==
  \A d, e \in Dispatchers :
    d # e /\ pc[d] \in Holding /\ pc[e] \in Holding => Ref(d) # Ref(e)

\* A message that is marked running is in the hands of a dispatcher, or was in
\* those of one that died: no path through processNextMessage leaves a claimed
\* message without delivering, failing or releasing it.
RunningIsHeld ==
  \A m \in ConvWith("running") :
    <<"conv", m>> \in orphans \/ \E d \in Dispatchers : Holds(d, "conv", m)

\* 'delivered' is written only for a message that reached the agent, and it
\* does not wait in the input box to be submitted again by a later Enter.
DeliveredReachedAgent ==
  \A m \in ConvWith("delivered") :
    seen[<<"conv", m>>] > 0 /\ <<"conv", m>> \notin box

\* The agent sees a message more than once only by way of failed attempts:
\* every further submission is paid for by a recorded failure.
SubmissionsAccounted ==
  \A m \in ConvIds :
    seen[<<"conv", m>>] <= conv[m].retry + uncounted[m]
                            + (IF conv[m].status \in {"running", "delivered"} THEN 1 ELSE 0)

\* What is on record of a message is what the agent saw of it.
OutcomesAreTrue == DeliveredReachedAgent /\ SubmissionsAccounted

\* Superseding keeps one: the newest control of a content is never the one
\* that was cancelled, whatever the order of enqueues, claims and retries.
NewestNotSuperseded ==
  \A c \in CtlWith("superseded") :
    \E k \in CtlIds : k > c /\ ctl[k].content = ctl[c].content
                      /\ ctl[k].status \notin {"absent", "superseded"}

\* The final statuses of a message are final: the unconditional updates of
\* markDelivered and markFailed never meet a row someone else has finished.
ConvFinalStays ==
  [][\A m \in ConvIds : conv[m].status \in ConvFinal => conv'[m] = conv[m]]_vars

\* After the agent has recovered for good, every accepted message is delivered
\* or reported as failed.
Recovered == alive /\ view.fresh /\ view.healthOk /\ view.settled
AcceptedIsSettled ==
  <>[]Recovered => \A m \in ConvIds : conv[m].status = "pending" ~> conv[m].status \in ConvFinal

\* A control with an ack deadline is resolved even if the agent never answers
\* and the dispatcher dies while delivering it.
DeadlineResolves ==
  \A c \in CtlIds : ctl[c].deadline # "none" ~> ctl[c].status \in CtlFinal \cup {"deleted"}

\* Controls with bypass_state are delivered even when health is not ok: one
\* that is pending is picked up as long as the session is there.
BypassGetsThrough ==
  [](alive) => \A c \in CtlIds :
    (ctl[c].status = "pending" /\ ctl[c].bypass /\ ~ctl[c].requireIdle)
      ~> ctl[c].status # "pending"

\* The queue and its dispatchers implement the durable inbox: pending and
\* running are both "queued", and the recorded failures are the retry counts.
Inbox == INSTANCE DurableInbox WITH
  Messages <- ConvIds, Limit <- MAX_RETRIES,
  st <- [m \in ConvIds |-> IF conv[m].status \in {"pending", "running"} THEN "queued"
                           ELSE conv[m].status],
  shown <- [m \in ConvIds |-> seen[<<"conv", m>>]],
  fails <- [m \in ConvIds |-> conv[m].retry]
ImplementsInbox == Inbox!InboxSpec
=============================================================================
