-------------------------- MODULE C4DispatcherProof --------------------------
(***************************************************************************)
(* Proofs about C4Dispatcher, for any number of messages, controls and     *)
(* dispatchers.                                                            *)
(***************************************************************************)
EXTENDS C4Dispatcher, TLAPS

USE DEF ConvIds, CtlIds

\* Every row a table operator returns is a row again.
LEMMA ConvTyped ==
  ASSUME QueuesTypeOK, NEW m \in ConvIds, NEW s \in ConvStatus
  PROVE  SetConvStatus(m, s) \in [ConvIds -> ConvRow]
BY DEF QueuesTypeOK, SetConvStatus, ConvRow

LEMMA CtlTyped ==
  ASSUME QueuesTypeOK, NEW c \in CtlIds, NEW s \in CtlStatus
  PROVE  SetCtlStatus(c, s) \in [CtlIds -> CtlRow]
BY DEF QueuesTypeOK, SetCtlStatus, CtlRow

LEMMA AckTyped ==
  ASSUME QueuesTypeOK, NEW c \in CtlIds
  PROVE  AckControl(c) \in [CtlIds -> CtlRow]
BY CtlTyped DEF AckControl, QueuesTypeOK, CtlStatus, CtlFinal

\* The two columns a failed attempt changes, and the rest of the row.
LEMMA CtlRowChange ==
  ASSUME NEW row \in CtlRow, NEW n \in Nat, NEW s \in CtlStatus
  PROVE  LET new == WithStatus(WithRetry(row, n), s) IN
           new \in CtlRow /\ new.status = s /\ new.retry = n
<1> DEFINE mid == WithRetry(row, n)
<1>1. mid \in CtlRow /\ mid.retry = n
  BY DEF WithRetry, CtlRow
<1> HIDE DEF mid
<1>2. WithStatus(mid, s) \in CtlRow /\ WithStatus(mid, s).status = s
      /\ WithStatus(mid, s).retry = n
  BY <1>1 DEF WithStatus, CtlRow
<1> QED BY <1>2 DEF mid

LEMMA ConvRowChange ==
  ASSUME NEW row \in ConvRow, NEW n \in Nat, NEW s \in ConvStatus
  PROVE  LET new == WithStatus(WithRetry(row, n), s) IN
           new \in ConvRow /\ new.status = s /\ new.retry = n
<1> DEFINE mid == WithRetry(row, n)
<1>1. mid \in ConvRow /\ mid.retry = n
  BY DEF WithRetry, ConvRow
<1> HIDE DEF mid
<1>2. WithStatus(mid, s) \in ConvRow /\ WithStatus(mid, s).status = s
      /\ WithStatus(mid, s).retry = n
  BY <1>1 DEF WithStatus, ConvRow
<1> QED BY <1>2 DEF mid

LEMMA RetryTyped ==
  ASSUME QueuesTypeOK, NEW c \in CtlIds
  PROVE  RetryOrFailControl(c) \in [CtlIds -> CtlRow]
<1>1. ctl[c] \in CtlRow /\ ctl[c].retry + 1 \in Nat
  BY DEF QueuesTypeOK, CtlRow
<1>2. "failed" \in CtlStatus /\ "pending" \in CtlStatus
  BY DEF CtlStatus, CtlFinal
<1> QED BY <1>1, <1>2, CtlRowChange DEF RetryOrFailControl, QueuesTypeOK

LEMMA ExpireTyped ==
  ASSUME QueuesTypeOK
  PROVE  ExpireTimedOutControls \in [CtlIds -> CtlRow]
BY DEF ExpireTimedOutControls, QueuesTypeOK, CtlRow, CtlStatus, CtlFinal

LEMMA CleanupTyped ==
  ASSUME NEW t \in [CtlIds -> CtlRow], NEW old
  PROVE  CleanupControlQueue(t, old) \in [CtlIds -> CtlRow]
BY DEF CleanupControlQueue, CtlRow, CtlStatus, CtlFinal

LEMMA InsertTyped ==
  ASSUME QueuesTypeOK, NEW c \in CtlIds, NEW kind \in CtlKinds
  PROVE  InsertControl(c, kind) \in [CtlIds -> CtlRow]
BY KindsAssumption DEF InsertControl, QueuesTypeOK, CtlRow, CtlStatus, CtlFinal, CtlKind

LEMMA AbsentTyped == NoConv \in ConvRow /\ NoCtl \in CtlRow
BY KindsAssumption
DEF NoConv, NoCtl, ConvRow, CtlRow, ConvStatus, CtlStatus, CtlFinal, AnyContent

\* Type correctness: every step of every process keeps the rows, the program
\* counters and the history variables in their sets.
LEMMA TypeStep == TypeOK /\ [Next]_vars => TypeOK'
<1> SUFFICES ASSUME TypeOK, [Next]_vars PROVE TypeOK'
  OBVIOUS
<1> USE DEF agentVars, dispatcherVars, historyVars
<1>q. QueuesTypeOK
  BY DEF TypeOK
<1>1. CASE Receive
  <2>1. PICK m \in FreshConv, kind \in ConvKinds, s \in Now :
           conv' = InsertConversation(m, kind, s)
    BY <1>1 DEF Receive
  <2>2. s \in Nat
    BY <1>q DEF Now, Seconds, QueuesTypeOK, ConvRow
  <2>3. conv' \in [ConvIds -> ConvRow]
    BY <1>q, <2>1, <2>2, KindsAssumption
    DEF InsertConversation, FreshConv, QueuesTypeOK, ConvRow, ConvKind, ConvStatus
  <2> QED BY <1>1, <2>3 DEF Receive, TypeOK, QueuesTypeOK, Refs, Ref
<1>2. CASE Enqueue
  <2>1. ctl' \in [CtlIds -> CtlRow]
    BY <1>2, <1>q, InsertTyped DEF Enqueue, FreshCtl
  <2> QED BY <1>2, <2>1 DEF Enqueue, TypeOK, QueuesTypeOK, Ref
<1>3. CASE Get
  BY <1>3, <1>q, ExpireTyped DEF Get, TypeOK, QueuesTypeOK, Ref
<1>4. CASE StatusChanges \/ AgentDies \/ AgentStarts
  BY <1>4, ViewsAssumption DEF StatusChanges, AgentDies, AgentStarts, TypeOK, QueuesTypeOK, Ref
<1>5. ASSUME NEW c \in CtlIds, Ack(c) \/ DeadlinePasses(c) \/ BecomesAvailable(c)
      PROVE  TypeOK'
  <2>1. ctl' \in [CtlIds -> CtlRow]
    <3>1. CASE Ack(c)
      BY <3>1, <1>q, AckTyped DEF Ack
    <3>2. CASE DeadlinePasses(c)
      BY <3>2, <1>q DEF DeadlinePasses, QueuesTypeOK, CtlRow
    <3>3. CASE BecomesAvailable(c)
      BY <3>3, <1>q DEF BecomesAvailable, QueuesTypeOK, CtlRow
    <3> QED BY <1>5, <3>1, <3>2, <3>3
  <2> QED BY <1>5, <2>1 DEF Ack, DeadlinePasses, BecomesAvailable, TypeOK, QueuesTypeOK, Ref
<1>6. ASSUME NEW d \in Dispatchers, Step(d) \/ Crash(d)
      PROVE  TypeOK'
  <2> DEFINE At(l) == pc' = [pc EXCEPT ![d] = l]
             Leave == item' = [item EXCEPT ![d] = NoItem]
             Local == /\ pc' \in [Dispatchers -> PcValues]
                      /\ item' \in [Dispatchers -> Item \cup {NoItem}]
                      /\ \A e \in Dispatchers :
                           pc'[e] \in Holding \cup {"claim"} =>
                             /\ <<item'[e].q, item'[e].id>> \in Refs
                             /\ pc'[e] = "key" => item'[e].q = "ctl"
  <2>a. ASSUME NEW l \in {"poll", "hold"}, At(l), Leave PROVE Local
    BY <2>a DEF TypeOK, PcValues, Holding, Ref
  <2>b. ASSUME NEW l \in PcValues, At(l), pc[d] \in Holding \cup {"claim"}, item' = item,
               l = "key" => item[d].q = "ctl"
        PROVE  Local
    BY <2>b DEF TypeOK, Ref
  <2>i. pc[d] \in Holding \cup {"claim"} =>
          \/ item[d].q = "conv" /\ item[d].id \in ConvIds
          \/ item[d].q = "ctl" /\ item[d].id \in CtlIds
    BY DEF TypeOK, Ref, Refs
  <2>s. Stale \in View /\ snap \in [Dispatchers -> View]
    BY DEF Stale, View, TypeOK
  <2>1. CASE Sweep(d)
    <3>1. ctl' \in [CtlIds -> CtlRow]
      BY <2>1, <1>q, ExpireTyped, CleanupTyped DEF Sweep
    <3>2. "select" \in PcValues \ (Holding \cup {"claim"})
      BY DEF PcValues, Holding
    <3> QED BY <2>1, <3>1, <3>2 DEF Sweep, Goto, TypeOK, QueuesTypeOK, Ref
  <2>2. CASE Select(d)
    <3>1. ASSUME NEW q \in {"conv", "ctl"}, NEW i \in Nat, <<q, i>> \in Refs,
                 NEW r \in Nat, Found(d, q, i, r)
          PROVE  Local
      <4>1. "claim" \in PcValues
        BY DEF PcValues
      <4> QED BY <3>1, <4>1 DEF Found, Goto, TypeOK, Item, Ref
    <3>2. ASSUME Return(d) PROVE Local
      BY <3>2, <2>a DEF Return, Goto
    <3>3. ASSUME NEW c \in GetNextPendingControl, Found(d, "ctl", c, ctl[c].retry)
          PROVE  Local
      <4>1. c \in CtlIds /\ c \in Nat /\ ctl[c].retry \in Nat
        BY <1>q, <3>3, BoundsAssumption
        DEF GetNextPendingControl, EligibleCtl, CtlWith, QueuesTypeOK, CtlRow
      <4> QED BY <3>3, <4>1, <3>1 DEF Refs
    <3>4. ASSUME NEW m \in GetNextPending, Found(d, "conv", m, conv[m].retry)
          PROVE  Local
      <4>1. m \in ConvIds /\ m \in Nat /\ conv[m].retry \in Nat
        BY <1>q, <3>4, BoundsAssumption DEF GetNextPending, ConvWith, QueuesTypeOK, ConvRow
      <4> QED BY <3>4, <4>1, <3>1 DEF Refs
    <3>5. Local /\ snap' \in [Dispatchers -> View]
      BY <2>2, <2>s, <3>2, <3>3, <3>4 DEF Select, DropSnap, Found
    <3> QED BY <2>2, <3>5 DEF Select, TypeOK, QueuesTypeOK, Ref
  <2>3. CASE Claim(d)
    <3>1. "gate" \in PcValues /\ "running" \in ConvStatus /\ "running" \in CtlStatus
      BY DEF PcValues, Holding, ConvStatus, CtlStatus
    <3>2. conv' \in [ConvIds -> ConvRow] /\ ctl' \in [CtlIds -> CtlRow]
      BY <2>3, <2>i, <3>1, <1>q, ConvTyped, CtlTyped
      DEF Claim, ClaimConversation, ClaimControl, QueuesTypeOK
    <3>3. Local /\ snap' \in [Dispatchers -> View]
      BY <2>3, <2>a, <2>b, <2>s, <3>1 DEF Claim, Return, Goto, DropSnap
    <3> QED BY <2>3, <3>2, <3>3 DEF Claim, TypeOK, QueuesTypeOK, Ref
  <2>4. CASE Gate(d)
    <3>1. "pending" \in ConvStatus /\ "pending" \in CtlStatus /\ "key" \in PcValues /\ "paste" \in PcValues
          /\ "gate" \in Holding
      BY DEF ConvStatus, CtlStatus, PcValues, Holding
    <3>2. item[d].q = "conv" => RequeueConversation(item[d].id) \in [ConvIds -> ConvRow]
      BY <2>4, <2>i, <3>1, <1>q, ConvTyped DEF Gate, RequeueConversation, QueuesTypeOK
    <3>3. item[d].q = "ctl" => /\ RequeueControl(item[d].id) \in [CtlIds -> CtlRow]
                              /\ AckControl(item[d].id) \in [CtlIds -> CtlRow]
      BY <2>4, <2>i, <3>1, <1>q, CtlTyped, AckTyped DEF Gate, RequeueControl, QueuesTypeOK
    <3>4. conv' \in [ConvIds -> ConvRow] /\ ctl' \in [CtlIds -> CtlRow]
      BY <2>4, <2>i, <3>1, <3>2, <3>3, <1>q
      DEF Gate, ReleaseItem, IsBypassState, QueuesTypeOK
    <3>5. Local /\ snap' \in [Dispatchers -> View]
      BY <2>4, <2>a, <2>b, <2>s, <3>1 DEF Gate, Return, Goto, DropSnap, HasContent
    <3> QED BY <2>4, <3>4, <3>5 DEF Gate, TypeOK, QueuesTypeOK, Ref
  <2>5. CASE Keystroke(d)
    <3>1. "failed" \in PcValues /\ "key" \in Holding
      BY DEF PcValues, Holding
    <3>2. ctl' \in [CtlIds -> CtlRow]
      BY <2>5, <2>i, <3>1, <1>q, AckTyped DEF Keystroke, QueuesTypeOK, TypeOK, Refs, Ref
    <3>3. Local
      BY <2>5, <2>a, <2>b, <3>1 DEF Keystroke, Return, Goto
    <3> QED BY <2>5, <3>2, <3>3 DEF Keystroke, TypeOK, QueuesTypeOK, Ref
  <2>6. CASE Paste(d)
    <3>1. "enter" \in PcValues /\ "failed" \in PcValues /\ "paste" \in Holding
      BY DEF PcValues, Holding
    <3>2. Local /\ box' \subseteq Refs
      BY <2>6, <2>b, <3>1 DEF Paste, Goto, TypeOK
    <3> QED BY <2>6, <3>2 DEF Paste, TypeOK, QueuesTypeOK, Ref
  <2>e. PressEnter \/ UNCHANGED <<box, seen>> => seen' \in [Refs -> Nat] /\ box' \subseteq Refs
    BY DEF PressEnter, TypeOK
  <2>7. CASE Enter(d)
    <3>1. "verify" \in PcValues /\ "unverified" \in PcValues /\ "enter" \in Holding
      BY DEF PcValues, Holding
    <3>2. Local
      BY <2>7, <2>b, <3>1 DEF Enter, Goto
    <3> QED BY <2>7, <2>e, <3>2 DEF Enter, TypeOK, QueuesTypeOK, Ref
  <2>8. CASE Verify(d)
    <3>1. "submitted" \in PcValues /\ "unverified" \in PcValues /\ "verify" \in Holding
      BY DEF PcValues, Holding
    <3>2. Local
      BY <2>8, <2>b, <3>1 DEF Verify, Goto, TypeOK, Ref
    <3>3. tries' \in [Dispatchers -> Nat]
      <4>1. tries[d] + 1 \in Nat /\ tries \in [Dispatchers -> Nat]
        BY DEF TypeOK
      <4>2. tries' = tries \/ tries' = [tries EXCEPT ![d] = tries[d] + 1] \/ tries' = [tries EXCEPT ![d] = 0]
        BY <2>8 DEF Verify, DropTries
      <4> QED BY <4>1, <4>2
    <3>4. seen' \in [Refs -> Nat] /\ box' \subseteq Refs
      BY <2>8, <2>e DEF Verify
    <3> QED BY <2>8, <3>2, <3>3, <3>4 DEF Verify, TypeOK, QueuesTypeOK, Ref
  <2>9. CASE Unverified(d)
    <3>1. "submitted" \in PcValues /\ "failed" \in PcValues /\ "unverified" \in Holding
      BY DEF PcValues, Holding
    <3>2. Local
      BY <2>9, <2>b, <3>1 DEF Unverified, Goto
    <3> QED BY <2>9, <3>2 DEF Unverified, TypeOK, QueuesTypeOK, Ref
  <2>10. CASE Submitted(d)
    <3>1. "submitted" \in Holding /\ "delivered" \in ConvStatus
      BY DEF Holding, ConvStatus
    <3>2. conv' \in [ConvIds -> ConvRow] /\ ctl' \in [CtlIds -> CtlRow]
      BY <2>10, <2>i, <3>1, <1>q, ConvTyped, AckTyped DEF Submitted, MarkDelivered, QueuesTypeOK
    <3>3. Local
      BY <2>10, <2>a DEF Submitted, Goto
    <3> QED BY <2>10, <3>2, <3>3 DEF Submitted, TypeOK, QueuesTypeOK, Ref
  <2>11. CASE Hold(d)
    BY <2>11, <2>a DEF Hold, Return, Goto, TypeOK, QueuesTypeOK, Ref
  <2>12. CASE HandleFailure(d)
    <3>1. "failed" \in Holding
      BY DEF Holding
    <3>2. ASSUME item[d].q = "conv", NEW m \in ConvIds, HandleConversationFailure(d, m)
          PROVE  conv' \in [ConvIds -> ConvRow] /\ uncounted' \in [ConvIds -> Nat]
      <4>1. conv[m] \in ConvRow /\ conv[m].retry + 1 \in Nat /\ conv[m].status \in ConvStatus
        BY <1>q DEF QueuesTypeOK, ConvRow
      <4>2. "failed" \in ConvStatus /\ "pending" \in ConvStatus
        BY DEF ConvStatus
      <4>3. CASE view.fresh
        <5>1. PICK s \in ConvStatus :
                conv' = [conv EXCEPT ![m] = WithStatus(WithRetry(conv[m], conv[m].retry + 1), s)]
          BY <3>2, <4>1, <4>2, <4>3 DEF HandleConversationFailure, FailureStatus
        <5>2. WithStatus(WithRetry(conv[m], conv[m].retry + 1), s) \in ConvRow
          BY <4>1, ConvRowChange
        <5>3. uncounted' = uncounted
          BY <3>2, <4>3 DEF HandleConversationFailure
        <5> QED BY <5>1, <5>2, <5>3, <1>q DEF TypeOK, QueuesTypeOK
      <4>4. CASE ~view.fresh
        BY <3>2, <4>2, <4>4, <1>q, ConvTyped
        DEF HandleConversationFailure, RequeueConversation, TypeOK, QueuesTypeOK
      <4> QED BY <4>3, <4>4
    <3>3. conv' \in [ConvIds -> ConvRow] /\ uncounted' \in [ConvIds -> Nat] /\ ctl' \in [CtlIds -> CtlRow]
      BY <2>12, <2>i, <3>1, <3>2, <1>q, RetryTyped DEF HandleFailure, TypeOK, QueuesTypeOK
    <3>4. Local
      BY <2>12, <2>a DEF HandleFailure, Return, Goto
    <3> QED BY <2>12, <3>3, <3>4 DEF HandleFailure, TypeOK, QueuesTypeOK, Ref
  <2>13. CASE Crash(d)
    <3>1. orphans' \subseteq Refs
      BY <2>13 DEF Crash, TypeOK
    <3>2. Local /\ snap' \in [Dispatchers -> View] /\ tries' \in [Dispatchers -> Nat]
      BY <2>13, <2>a, <2>s DEF Crash, Return, Goto, DropSnap, DropTries, TypeOK
    <3> QED BY <2>13, <3>1, <3>2 DEF Crash, TypeOK, QueuesTypeOK, Ref
  <2> QED BY <1>6, <2>1, <2>2, <2>3, <2>4, <2>5, <2>6, <2>7, <2>8, <2>9, <2>10, <2>11, <2>12, <2>13 DEF Step
<1>7. CASE UNCHANGED vars
  BY <1>7 DEF vars, TypeOK, QueuesTypeOK, Ref
<1> QED BY <1>1, <1>2, <1>3, <1>4, <1>5, <1>6, <1>7 DEF Next

LEMMA TypeInit == Init => TypeOK
<1> SUFFICES ASSUME Init PROVE TypeOK
  OBVIOUS
<1>1. QueuesTypeOK
  BY AbsentTyped DEF Init, QueuesInit, QueuesTypeOK
<1>2. Stale \in View /\ "poll" \in PcValues /\ "poll" \notin Holding \cup {"claim"}
  BY DEF Stale, View, PcValues, Holding
<1> QED BY <1>1, <1>2, ViewsAssumption DEF Init, TypeOK

\* The tables, the program counters and the history variables of c4-db.js and
\* c4-dispatcher.js stay in their types for ever.
THEOREM TypeCorrect == Spec => []TypeOK
<1>1. Init => TypeOK
  BY TypeInit
<1>2. TypeOK /\ [Next]_vars => TypeOK'
  BY TypeStep
<1> QED BY <1>1, <1>2, PTL DEF Spec

-----------------------------------------------------------------------------
(***************************************************************************)
(* Exclusive claims.  ClaimExclusive is not inductive: a second dispatcher *)
(* could claim a row that is pending although the first still holds it.    *)
(* HeldRows says that this cannot be, because the only steps that make a   *)
(* row pending again are its insertion and steps of its holder that let it *)
(* go.  A control in a dispatcher's hands need not be running: the agent   *)
(* may have acked it, or its deadline may have passed, meanwhile.          *)
(***************************************************************************)
HeldRows ==
  \A d \in Dispatchers : pc[d] \in Holding =>
    /\ item[d].q = "conv" => conv[item[d].id].status = "running"
    /\ item[d].q = "ctl" => ctl[item[d].id].status \notin {"absent", "pending"}

ExclusiveInv == TypeOK /\ HeldRows /\ ClaimExclusive

\* A step that puts no row into new hands, and moves no row that may be held
\* out of the statuses HeldRows allows.
LEMMA ExclusiveFrame ==
  ASSUME ExclusiveInv,
         \A e \in Dispatchers : pc'[e] \in Holding => pc[e] \in Holding /\ item'[e] = item[e],
         \A m \in ConvIds : conv[m].status = "running" => conv'[m].status = "running",
         \A c \in CtlIds : ctl[c].status \notin {"absent", "pending"}
                             => ctl'[c].status \notin {"absent", "pending"}
  PROVE  HeldRows' /\ ClaimExclusive'
<1>1. HeldRows'
  BY DEF HeldRows, ExclusiveInv, TypeOK, Refs, Ref
<1>2. ClaimExclusive'
  BY DEF ClaimExclusive, ExclusiveInv, Ref
<1> QED BY <1>1, <1>2

\* A step of the holder that changes its own row and lets it go, or keeps it
\* and changes no row.
LEMMA ExclusiveOwner ==
  ASSUME ExclusiveInv, NEW d \in Dispatchers, pc[d] \in Holding,
         \A e \in Dispatchers : e # d => pc'[e] = pc[e] /\ item'[e] = item[e],
         \/ pc'[d] \notin Holding
         \/ item'[d] = item[d] /\ conv' = conv /\ ctl' = ctl,
         \A m \in ConvIds : <<"conv", m>> # Ref(d) => conv'[m].status = conv[m].status,
         \A c \in CtlIds : <<"ctl", c>> # Ref(d) => ctl'[c].status = ctl[c].status
  PROVE  HeldRows' /\ ClaimExclusive'
<1>1. ASSUME NEW e \in Dispatchers, pc'[e] \in Holding
      PROVE  /\ pc[e] \in Holding /\ item'[e] = item[e]
             /\ item[e].q = "conv" => conv'[item[e].id].status = "running"
             /\ item[e].q = "ctl" => ctl'[item[e].id].status \notin {"absent", "pending"}
  <2>1. CASE e = d
    BY <1>1, <2>1 DEF ExclusiveInv, HeldRows
  <2>2. CASE e # d
    <3>1. pc[e] \in Holding /\ item'[e] = item[e] /\ Ref(e) # Ref(d)
      BY <1>1, <2>2 DEF ExclusiveInv, ClaimExclusive
    <3>2. /\ item[e].q = "conv" => item[e].id \in ConvIds
          /\ item[e].q = "ctl" => item[e].id \in CtlIds
      BY <3>1 DEF ExclusiveInv, TypeOK, Ref, Refs
    <3> QED BY <3>1, <3>2 DEF ExclusiveInv, HeldRows, Ref
  <2> QED BY <2>1, <2>2
<1>2. HeldRows'
  BY <1>1 DEF HeldRows
<1>3. ClaimExclusive'
  BY <1>1 DEF ClaimExclusive, ExclusiveInv, Ref
<1> QED BY <1>2, <1>3

\* What a claim needs: nobody holds a pending row.
LEMMA PendingIsFree ==
  ASSUME ExclusiveInv, NEW d \in Dispatchers, pc[d] = "claim",
         IF item[d].q = "conv" THEN ConvClaimable(item[d].id) ELSE CtlClaimable(item[d].id)
  PROVE  \A e \in Dispatchers : pc[e] \in Holding => Ref(e) # Ref(d)
<1>1. "claim" \notin Holding
  BY DEF Holding
<1> QED BY <1>1 DEF ExclusiveInv, HeldRows, ConvClaimable, CtlClaimable, TypeOK, Ref, Refs

LEMMA ExclusiveStep == ExclusiveInv /\ [Next]_vars => ExclusiveInv'
<1> SUFFICES ASSUME ExclusiveInv, [Next]_vars PROVE HeldRows' /\ ClaimExclusive'
  BY TypeStep DEF ExclusiveInv
<1> USE DEF agentVars, dispatcherVars, historyVars
<1>t. QueuesTypeOK /\ TypeOK
  BY DEF ExclusiveInv, TypeOK
<1>h. \A l \in {"poll", "select", "claim", "hold"} : l \notin Holding
  BY DEF Holding
<1>1. CASE Receive
  BY <1>1, <1>t, ExclusiveFrame
  DEF Receive, InsertConversation, FreshConv, QueuesTypeOK
<1>2. CASE Enqueue
  BY <1>2, <1>t, ExclusiveFrame
  DEF Enqueue, InsertControl, FreshCtl, QueuesTypeOK
<1>3. CASE Get
  BY <1>3, <1>t, ExclusiveFrame DEF Get, ExpireTimedOutControls, QueuesTypeOK
<1>4. CASE StatusChanges \/ AgentDies \/ AgentStarts \/ UNCHANGED vars
  BY <1>4, ExclusiveFrame DEF StatusChanges, AgentDies, AgentStarts, vars
<1>5. ASSUME NEW c \in CtlIds, Ack(c) \/ DeadlinePasses(c) \/ BecomesAvailable(c)
      PROVE  HeldRows' /\ ClaimExclusive'
  <2>1. CASE Ack(c)
    BY <2>1, <1>t, ExclusiveFrame DEF Ack, AckControl, SetCtlStatus, QueuesTypeOK
  <2>2. CASE DeadlinePasses(c)
    BY <2>2, <1>t, ExclusiveFrame DEF DeadlinePasses, QueuesTypeOK
  <2>3. CASE BecomesAvailable(c)
    BY <2>3, <1>t, ExclusiveFrame DEF BecomesAvailable, QueuesTypeOK
  <2> QED BY <1>5, <2>1, <2>2, <2>3
<1>6. ASSUME NEW d \in Dispatchers, Step(d) \/ Crash(d)
      PROVE  HeldRows' /\ ClaimExclusive'
  <2>p. pc \in [Dispatchers -> PcValues] /\ item \in [Dispatchers -> Item \cup {NoItem}]
    BY <1>t DEF TypeOK
  <2>1. CASE Sweep(d)
    <3>1. \A c \in CtlIds : ctl[c].status \notin {"absent", "pending"}
                              => ctl'[c].status \notin {"absent", "pending"}
      BY <2>1, <1>t DEF Sweep, CleanupControlQueue, ExpireTimedOutControls, QueuesTypeOK
    <3>2. \A e \in Dispatchers : pc'[e] \in Holding => pc[e] \in Holding
      BY <2>1, <2>p, <1>h DEF Sweep, Goto
    <3> QED BY <2>1, <3>1, <3>2, ExclusiveFrame DEF Sweep
  <2>2. CASE Select(d) \/ Hold(d) \/ Crash(d)
    <3>1. conv' = conv /\ ctl' = ctl
      BY <2>2 DEF Select, Hold, Crash
    <3>2. /\ pc'[d] \notin Holding
          /\ \A e \in Dispatchers : e # d => pc'[e] = pc[e] /\ item'[e] = item[e]
      BY <2>2, <2>p, <1>h DEF Select, Hold, Crash, Found, Return, Goto
    <3> QED BY <3>1, <3>2, ExclusiveFrame
  <2>3. CASE Claim(d)
    <3> DEFINE Can == IF item[d].q = "conv" THEN ConvClaimable(item[d].id)
                                            ELSE CtlClaimable(item[d].id)
    <3>1. CASE ~Can
      <4>1. conv' = conv /\ ctl' = ctl /\ Return(d)
        BY <2>3, <3>1 DEF Claim
      <4>2. /\ pc'[d] \notin Holding
            /\ \A e \in Dispatchers : e # d => pc'[e] = pc[e] /\ item'[e] = item[e]
        BY <4>1, <2>p, <1>h DEF Return, Goto
      <4> QED BY <4>1, <4>2, ExclusiveFrame
    <3>2. CASE Can
      <4>1. item' = item /\ pc' = [pc EXCEPT ![d] = "gate"]
        BY <2>3, <3>2 DEF Claim, Goto
      <4>2. \A e \in Dispatchers : pc[e] \in Holding => Ref(e) # Ref(d)
        BY <2>3, <3>2, PendingIsFree DEF Claim
      <4>3. \/ /\ item[d].q = "conv" /\ item[d].id \in ConvIds /\ ctl' = ctl
               /\ conv' = [conv EXCEPT ![item[d].id].status = "running"]
            \/ /\ item[d].q = "ctl" /\ item[d].id \in CtlIds /\ conv' = conv
               /\ ctl' = [ctl EXCEPT ![item[d].id].status = "running"]
        BY <2>3, <3>2, <1>t
        DEF Claim, TypeOK, Ref, Refs, ClaimConversation, ClaimControl, SetConvStatus, SetCtlStatus
      <4>4. ClaimExclusive'
        BY <4>1, <4>2, <2>p DEF ClaimExclusive, ExclusiveInv, Ref
      <4>5. HeldRows'
        <5> SUFFICES ASSUME NEW e \in Dispatchers, pc'[e] \in Holding
                     PROVE  /\ item[e].q = "conv" => conv'[item[e].id].status = "running"
                            /\ item[e].q = "ctl" => ctl'[item[e].id].status \notin {"absent", "pending"}
          BY <4>1 DEF HeldRows
        <5>1. CASE e = d
          <6>1. CASE item[d].q = "conv"
            <7>1. conv'[item[d].id].status = "running"
              BY <6>1, <4>3, <1>t DEF QueuesTypeOK, ConvRow
            <7> QED BY <7>1, <6>1, <5>1
          <6>2. CASE item[d].q = "ctl"
            <7>1. ctl'[item[d].id].status = "running"
              BY <6>2, <4>3, <1>t DEF QueuesTypeOK, CtlRow
            <7> QED BY <7>1, <6>2, <5>1
          <6> QED BY <6>1, <6>2, <4>3
        <5>2. CASE e # d
          <6>1. pc[e] \in Holding /\ Ref(e) # Ref(d)
            BY <5>2, <4>1, <4>2, <2>p
          <6>2. /\ item[e].q = "conv" => item[e].id \in ConvIds
                /\ item[e].q = "ctl" => item[e].id \in CtlIds
            BY <6>1, <1>t DEF TypeOK, Ref, Refs
          <6> QED BY <6>1, <6>2, <4>3, <1>t DEF ExclusiveInv, HeldRows, Ref, QueuesTypeOK
        <5> QED BY <5>1, <5>2
      <4> QED BY <4>4, <4>5
    <3> QED BY <3>1, <3>2
  <2>o. ASSUME pc[d] \in Holding, Return(d) \/ pc' = [pc EXCEPT ![d] = "hold"] \/ pc' = [pc EXCEPT ![d] = "poll"],
               item' = [item EXCEPT ![d] = NoItem],
               \A m \in ConvIds : <<"conv", m>> # Ref(d) => conv'[m].status = conv[m].status,
               \A c \in CtlIds : <<"ctl", c>> # Ref(d) => ctl'[c].status = ctl[c].status
        PROVE  HeldRows' /\ ClaimExclusive'
    <3>1. /\ pc'[d] \notin Holding
          /\ \A e \in Dispatchers : e # d => pc'[e] = pc[e] /\ item'[e] = item[e]
      BY <2>o, <2>p, <1>h DEF Return, Goto
    <3> QED BY <2>o, <3>1, ExclusiveOwner
  <2>k. ASSUME pc[d] \in Holding, item' = item, conv' = conv, ctl' = ctl,
               NEW l \in Holding, pc' = [pc EXCEPT ![d] = l]
        PROVE  HeldRows' /\ ClaimExclusive'
    BY <2>k, <2>p, ExclusiveOwner
  <2>l. {"gate", "key", "paste", "enter", "verify", "unverified", "submitted", "failed"} \subseteq Holding
    BY DEF Holding
  <2>c. ASSUME NEW s PROVE
          /\ \A m \in ConvIds : <<"conv", m>> # Ref(d) /\ item[d].q = "conv"
               => SetConvStatus(item[d].id, s)[m] = conv[m]
          /\ \A c \in CtlIds : <<"ctl", c>> # Ref(d) /\ item[d].q = "ctl"
               => SetCtlStatus(item[d].id, s)[c] = ctl[c]
    BY <1>t DEF SetConvStatus, SetCtlStatus, Ref, QueuesTypeOK
  <2>4. CASE Gate(d)
    <3>1. CASE NotNow(d)
      <4>1. pc[d] \in Holding /\ Return(d) /\ ReleaseItem(d)
        BY <2>4, <3>1, <2>l DEF Gate
      <4>2. /\ \A m \in ConvIds : <<"conv", m>> # Ref(d) => conv'[m].status = conv[m].status
            /\ \A c \in CtlIds : <<"ctl", c>> # Ref(d) => ctl'[c].status = ctl[c].status
        <5>1. CASE item[d].q = "conv"
          BY <4>1, <5>1, <2>c DEF ReleaseItem, RequeueConversation
        <5>2. CASE item[d].q # "conv"
          <6>1. item[d].q = "ctl"
            BY <4>1, <5>2, <1>t DEF TypeOK, Ref, Refs
          <6> QED BY <4>1, <5>2, <6>1, <2>c DEF ReleaseItem, RequeueControl
        <5> QED BY <5>1, <5>2
      <4> QED BY <4>1, <4>2, <2>o DEF Return
    <3>2. CASE ~NotNow(d) /\ Return(d) /\ conv' = conv /\ item[d].q = "ctl"
               /\ ctl' = AckControl(item[d].id)
      BY <2>4, <3>2, <2>o, <2>l, <2>c DEF Gate, AckControl, Return
    <3>3. CASE conv' = conv /\ ctl' = ctl /\ item' = item
               /\ \E l \in {"key", "paste"} : pc' = [pc EXCEPT ![d] = l]
      BY <2>4, <3>3, <2>k, <2>l DEF Gate
    <3> QED BY <2>4, <3>1, <3>2, <3>3 DEF Gate, Goto, IsBypassState
  <2>5. CASE Keystroke(d)
    <3>1. item[d].q = "ctl"
      BY <2>5, <2>l, <1>t DEF Keystroke, TypeOK
    <3>2. CASE ctl' = AckControl(item[d].id) /\ Return(d)
      BY <2>5, <3>1, <3>2, <2>o, <2>l, <2>c DEF Keystroke, AckControl, Return
    <3>3. CASE Goto(d, "failed") /\ UNCHANGED <<ctl, item>>
      BY <2>5, <3>3, <2>k, <2>l DEF Keystroke, Goto
    <3> QED BY <2>5, <3>2, <3>3 DEF Keystroke
  <2>6. CASE Paste(d) \/ Enter(d) \/ Verify(d) \/ Unverified(d)
    <3>1. pc[d] \in Holding /\ item' = item /\ conv' = conv /\ ctl' = ctl
      BY <2>6, <2>l DEF Paste, Enter, Verify, Unverified
    <3>2. pc' = pc \/ \E l \in Holding : pc' = [pc EXCEPT ![d] = l]
      BY <2>6, <2>l DEF Paste, Enter, Verify, Unverified, Goto
    <3> QED BY <3>1, <3>2, <2>k, <2>p
  <2>7. CASE Submitted(d)
    <3>1. /\ \A m \in ConvIds : <<"conv", m>> # Ref(d) => conv'[m].status = conv[m].status
          /\ \A c \in CtlIds : <<"ctl", c>> # Ref(d) => ctl'[c].status = ctl[c].status
      BY <2>7, <2>c DEF Submitted, MarkDelivered, AckControl
    <3> QED BY <2>7, <3>1, <2>o, <2>l DEF Submitted, Goto
  <2>8. CASE HandleFailure(d)
    <3>1. item[d].q = "conv" => \A m \in ConvIds : m # item[d].id => conv'[m] = conv[m]
      BY <2>8, <1>t
      DEF HandleFailure, HandleConversationFailure, RequeueConversation, SetConvStatus, QueuesTypeOK
    <3>2. item[d].q = "ctl" => conv' = conv /\ \A c \in CtlIds : c # item[d].id => ctl'[c] = ctl[c]
      BY <2>8, <1>t DEF HandleFailure, RetryOrFailControl, QueuesTypeOK
    <3>3. /\ \A m \in ConvIds : <<"conv", m>> # Ref(d) => conv'[m].status = conv[m].status
          /\ \A c \in CtlIds : <<"ctl", c>> # Ref(d) => ctl'[c].status = ctl[c].status
      BY <2>8, <3>1, <3>2 DEF HandleFailure, Ref
    <3> QED BY <2>8, <3>3, <2>o, <2>l DEF HandleFailure, Return
  <2> QED BY <1>6, <2>1, <2>2, <2>3, <2>4, <2>5, <2>6, <2>7, <2>8 DEF Step
<1> QED BY <1>1, <1>2, <1>3, <1>4, <1>5, <1>6 DEF Next

LEMMA ExclusiveInit == Init => ExclusiveInv
BY TypeInit DEF Init, ExclusiveInv, HeldRows, ClaimExclusive, Holding

LEMMA ExclusiveAlways == Spec => []ExclusiveInv
<1>1. Init => ExclusiveInv
  BY ExclusiveInit
<1>2. ExclusiveInv /\ [Next]_vars => ExclusiveInv'
  BY ExclusiveStep
<1> QED BY <1>1, <1>2, PTL DEF Spec

\* However many dispatchers run, and whatever c4-receive, c4-control, the agent
\* and crashes do meanwhile, claimConversation and claimControl never give one
\* row to two of them.
THEOREM ClaimsAreExclusive == Spec => []ClaimExclusive
<1>1. ExclusiveInv => ClaimExclusive
  BY DEF ExclusiveInv
<1> QED BY <1>1, ExclusiveAlways, PTL

-----------------------------------------------------------------------------
(***************************************************************************)
(* Final statuses of messages.  Only a step of a dispatcher in the middle  *)
(* of a delivery writes a message, its row is running by HeldRows, and so  *)
(* it is none of the finished ones.                                        *)
(***************************************************************************)
LEMMA FinalStep ==
  ASSUME ExclusiveInv, [Next]_vars, NEW m \in ConvIds, conv[m].status \in ConvFinal
  PROVE  conv'[m] = conv[m]
<1> USE DEF agentVars, dispatcherVars, historyVars
<1>t. QueuesTypeOK /\ TypeOK
  BY DEF ExclusiveInv, TypeOK
<1>f. conv[m].status \notin {"absent", "pending", "running"}
  BY DEF ConvFinal
<1>1. CASE Receive
  BY <1>1, <1>f, <1>t DEF Receive, InsertConversation, FreshConv, QueuesTypeOK
<1>2. ASSUME NEW d \in Dispatchers, Step(d), conv' # conv
      PROVE  conv'[m] = conv[m]
  <2>1. /\ item[d].q = "conv" /\ item[d].id \in ConvIds
        /\ \A k \in ConvIds : k # item[d].id => conv'[k] = conv[k]
        /\ conv[item[d].id].status \in {"pending", "running"}
    <3>1. CASE Claim(d)
      BY <1>2, <3>1, <1>t
      DEF Claim, ConvClaimable, ClaimConversation, SetConvStatus, QueuesTypeOK, TypeOK, Ref, Refs
    <3>2. CASE Gate(d) \/ Submitted(d) \/ HandleFailure(d)
      <4>1. pc[d] \in Holding /\ item[d].q = "conv"
        BY <1>2, <3>2 DEF Gate, ReleaseItem, Submitted, HandleFailure, Holding
      <4>2. item[d].id \in ConvIds /\ conv[item[d].id].status = "running"
        BY <4>1 DEF ExclusiveInv, HeldRows, TypeOK, Ref, Refs
      <4>3. \A k \in ConvIds : k # item[d].id => conv'[k] = conv[k]
        BY <1>2, <3>2, <4>1, <4>2, <1>t
        DEF Gate, ReleaseItem, RequeueConversation, SetConvStatus, Submitted, MarkDelivered,
            HandleFailure, HandleConversationFailure, QueuesTypeOK
      <4> QED BY <4>1, <4>2, <4>3
    <3> QED
      BY <1>2, <3>1, <3>2
      DEF Step, Sweep, Select, Keystroke, Paste, Enter, Verify, Unverified, Hold
  <2> QED BY <2>1, <1>f
<1>3. ASSUME ~Receive, \A d \in Dispatchers : ~Step(d)
      PROVE  conv' = conv
  BY <1>3 DEF Next, Enqueue, Get, StatusChanges, AgentDies, AgentStarts, Ack,
              DeadlinePasses, BecomesAvailable, Crash, vars
<1> QED BY <1>1, <1>2, <1>3

\* markDelivered and markFailed have no status in their WHERE clause; even so
\* a message that is delivered or failed is never touched again.
THEOREM MessagesStayFinal == Spec => ConvFinalStays
<1>1. ExclusiveInv /\ [Next]_vars
        => [\A m \in ConvIds : conv[m].status \in ConvFinal => conv'[m] = conv[m]]_vars
  BY FinalStep
<1> QED BY <1>1, ExclusiveAlways, PTL DEF Spec, ConvFinalStays

-----------------------------------------------------------------------------
(***************************************************************************)
(* No leaks.  A message becomes running only by a claim, and the claimer   *)
(* holds it then; a holder lets it go only by a step that ends the status  *)
(* running, for which its row has to be running before (HeldRows), or by   *)
(* its death, which leaves an orphan.                                      *)
(***************************************************************************)
\* A step after which every message that runs did so before, and every holder
\* holds on or leaves a row that is an orphan or not running.
LEMMA HeldFrame ==
  ASSUME RunningIsHeld, orphans \subseteq orphans',
         \A m \in ConvIds : conv'[m].status = "running" => conv[m].status = "running",
         \A d \in Dispatchers : pc[d] \in Holding =>
            \/ pc'[d] \in Holding /\ item'[d] = item[d]
            \/ Ref(d) \in orphans'
            \/ item[d].q = "conv" => conv'[item[d].id].status # "running"
  PROVE  RunningIsHeld'
<1> SUFFICES ASSUME NEW m \in ConvIds, conv'[m].status = "running"
             PROVE  \/ <<"conv", m>> \in orphans'
                    \/ \E d \in Dispatchers : pc'[d] \in Holding /\ item'[d].q = "conv"
                                              /\ item'[d].id = m
  BY DEF RunningIsHeld, ConvWith, Holds
<1>1. CASE <<"conv", m>> \in orphans
  BY <1>1
<1>2. CASE <<"conv", m>> \notin orphans
  <2>1. PICK d \in Dispatchers : pc[d] \in Holding /\ item[d].q = "conv" /\ item[d].id = m
    BY <1>2 DEF RunningIsHeld, ConvWith, Holds
  <2>2. Ref(d) = <<"conv", m>>
    BY <2>1 DEF Ref
  <2> QED BY <2>1, <2>2
<1> QED BY <1>1, <1>2

LEMMA HeldStep ==
  ASSUME ExclusiveInv, RunningIsHeld, [Next]_vars
  PROVE  RunningIsHeld'
<1> USE DEF agentVars, dispatcherVars, historyVars
<1>t. QueuesTypeOK /\ TypeOK
  BY DEF ExclusiveInv, TypeOK
<1>1. CASE Receive
  BY <1>1, <1>t, HeldFrame DEF Receive, InsertConversation, FreshConv, QueuesTypeOK
<1>2. CASE Enqueue \/ Get \/ StatusChanges \/ AgentDies \/ AgentStarts \/ UNCHANGED vars
  BY <1>2, HeldFrame DEF Enqueue, Get, StatusChanges, AgentDies, AgentStarts, vars
<1>3. ASSUME NEW c \in CtlIds, Ack(c) \/ DeadlinePasses(c) \/ BecomesAvailable(c)
      PROVE  RunningIsHeld'
  BY <1>3, HeldFrame DEF Ack, DeadlinePasses, BecomesAvailable
<1>4. ASSUME NEW d \in Dispatchers, Step(d) \/ Crash(d)
      PROVE  RunningIsHeld'
  <2>p. pc \in [Dispatchers -> PcValues] /\ item \in [Dispatchers -> Item \cup {NoItem}]
    BY <1>t DEF TypeOK
  <2>h. \A l \in {"poll", "select", "claim", "hold"} : l \notin Holding
    BY DEF Holding
  <2>l. {"gate", "key", "paste", "enter", "verify", "unverified", "submitted", "failed"} \subseteq Holding
    BY DEF Holding
  <2>1. CASE Sweep(d) \/ Select(d) \/ Hold(d)
    <3>1. pc[d] \notin Holding /\ conv' = conv /\ orphans' = orphans
      BY <2>1, <2>h DEF Sweep, Select, Hold
    <3>2. \A e \in Dispatchers : e # d => pc'[e] = pc[e] /\ item'[e] = item[e]
      BY <2>1, <2>p DEF Sweep, Select, Hold, Found, Return, Goto
    <3> QED BY <3>1, <3>2, HeldFrame
  <2>2. CASE Crash(d)
    <3>1. /\ conv' = conv /\ orphans \subseteq orphans'
          /\ pc[d] \in Holding => Ref(d) \in orphans'
      BY <2>2 DEF Crash
    <3>2. \A e \in Dispatchers : e # d => pc'[e] = pc[e] /\ item'[e] = item[e]
      BY <2>2, <2>p DEF Crash, Return, Goto
    <3> QED BY <3>1, <3>2, HeldFrame
  <2>3. CASE Claim(d)
    <3>1. pc[d] \notin Holding /\ orphans' = orphans
      BY <2>3, <2>h DEF Claim
    <3>2. \A e \in Dispatchers : e # d => pc'[e] = pc[e] /\ item'[e] = item[e]
      BY <2>3, <2>p DEF Claim, Return, Goto
    <3>3. CASE conv' = conv
      BY <3>1, <3>2, <3>3, HeldFrame
    <3>4. CASE conv' # conv
      <4>1. /\ item[d].q = "conv" /\ item[d].id \in ConvIds
            /\ pc'[d] = "gate" /\ item' = item
            /\ \A k \in ConvIds : k # item[d].id => conv'[k] = conv[k]
        BY <2>3, <3>4, <2>p, <1>t
        DEF Claim, Goto, ClaimConversation, SetConvStatus, QueuesTypeOK, TypeOK, Ref, Refs
      <4> SUFFICES ASSUME NEW m \in ConvIds, conv'[m].status = "running"
                   PROVE  \/ <<"conv", m>> \in orphans'
                          \/ \E e \in Dispatchers : pc'[e] \in Holding /\ item'[e].q = "conv"
                                                    /\ item'[e].id = m
        BY DEF RunningIsHeld, ConvWith, Holds
      <4>2. CASE m = item[d].id
        BY <4>1, <4>2, <2>l
      <4>3. CASE m # item[d].id
        <5>1. \/ <<"conv", m>> \in orphans
              \/ \E e \in Dispatchers : pc[e] \in Holding /\ item[e].q = "conv" /\ item[e].id = m
          BY <4>1, <4>3 DEF RunningIsHeld, ConvWith, Holds
        <5> QED BY <5>1, <3>1, <3>2
      <4> QED BY <4>2, <4>3
    <3> QED BY <3>3, <3>4
  <2>4. CASE Keystroke(d) \/ Paste(d) \/ Enter(d) \/ Verify(d) \/ Unverified(d)
    <3>1. conv' = conv /\ orphans' = orphans
      BY <2>4 DEF Keystroke, Paste, Enter, Verify, Unverified
    <3>2. \A e \in Dispatchers : e # d => pc'[e] = pc[e] /\ item'[e] = item[e]
      BY <2>4, <2>p DEF Keystroke, Paste, Enter, Verify, Unverified, Return, Goto
    <3>3. \/ pc'[d] \in Holding /\ item' = item
          \/ item[d].q # "conv"
      <4>1. CASE Keystroke(d)
        BY <4>1, <2>p, <2>l, <1>t DEF Keystroke, Goto, TypeOK
      <4>2. CASE Paste(d) \/ Enter(d) \/ Verify(d) \/ Unverified(d)
        BY <4>2, <2>p, <2>l DEF Paste, Enter, Verify, Unverified, Goto
      <4> QED BY <2>4, <4>1, <4>2
    <3> QED BY <3>1, <3>2, <3>3, HeldFrame
  <2>5. CASE Gate(d) \/ Submitted(d) \/ HandleFailure(d)
    <3>1. pc[d] \in Holding /\ orphans' = orphans
      BY <2>5, <2>l DEF Gate, Submitted, HandleFailure
    <3>2. \A e \in Dispatchers : e # d => pc'[e] = pc[e] /\ item'[e] = item[e]
      BY <2>5, <2>p DEF Gate, Submitted, HandleFailure, Return, Goto
    <3>3. CASE item[d].q # "conv"
      <4>1. item[d].q = "ctl"
        BY <3>1, <3>3, <1>t DEF TypeOK, Ref, Refs
      <4>2. conv' = conv
        BY <2>5, <4>1 DEF Gate, ReleaseItem, Submitted, HandleFailure
      <4> QED BY <3>1, <3>2, <4>1, <4>2, HeldFrame
    <3>4. CASE item[d].q = "conv"
      <4>1. item[d].id \in ConvIds /\ conv[item[d].id].status = "running"
        BY <3>1, <3>4, <1>t DEF ExclusiveInv, HeldRows, TypeOK, Ref, Refs
      <4> DEFINE i == item[d].id
      <4>r. conv[i] \in ConvRow /\ conv[i].retry + 1 \in Nat
        BY <4>1, <1>t DEF QueuesTypeOK, ConvRow
      <4>2. CASE Gate(d)
        <5>1. CASE conv' = RequeueConversation(i) /\ Return(d)
          <6>1. /\ conv'[i].status = "pending"
                /\ \A k \in ConvIds : k # i => conv'[k] = conv[k]
            BY <5>1, <4>1, <1>t DEF RequeueConversation, SetConvStatus, QueuesTypeOK, ConvRow
          <6> QED BY <6>1, <4>1, <3>1, <3>2, HeldFrame
        <5>2. CASE conv' = conv /\ item' = item /\ pc'[d] \in Holding
          BY <5>2, <3>1, <3>2, HeldFrame
        <5>3. CASE NotNow(d)
          BY <4>2, <5>3, <5>1, <3>4 DEF Gate, ReleaseItem
        <5>4. CASE ~NotNow(d)
          <6>1. ~IsBypassState(d)
            BY <3>4 DEF IsBypassState
          <6>2. /\ \E l \in {"key", "paste"} : pc' = [pc EXCEPT ![d] = l]
                /\ conv' = conv /\ item' = item
            BY <4>2, <5>4, <6>1 DEF Gate, Goto
          <6> QED BY <6>2, <5>2, <2>p, <2>l
        <5> QED BY <5>3, <5>4
      <4>3. CASE Submitted(d)
        <5>1. /\ conv'[i].status = "delivered"
              /\ \A k \in ConvIds : k # i => conv'[k] = conv[k]
          BY <4>3, <4>1, <3>4, <1>t DEF Submitted, MarkDelivered, SetConvStatus, QueuesTypeOK, ConvRow
        <5> QED BY <5>1, <4>1, <3>1, <3>2, HeldFrame
      <4>4. CASE HandleFailure(d)
        <5>1. HandleConversationFailure(d, i)
          BY <4>4, <3>4 DEF HandleFailure
        <5>2. FailureStatus(d, i) \in {"pending", "failed"}
          BY <4>1 DEF FailureStatus
        <5>3. /\ conv'[i].status \in {"pending", "failed"}
              /\ \A k \in ConvIds : k # i => conv'[k] = conv[k]
          <6>1. CASE conv' = RequeueConversation(i)
            BY <6>1, <4>1, <1>t DEF RequeueConversation, SetConvStatus, QueuesTypeOK, ConvRow
          <6>2. CASE conv' = [conv EXCEPT ![i] =
                       WithStatus(WithRetry(conv[i], conv[i].retry + 1), FailureStatus(d, i))]
            <7>s. FailureStatus(d, i) \in ConvStatus
              BY <5>2 DEF ConvStatus
            <7>1. WithStatus(WithRetry(conv[i], conv[i].retry + 1), FailureStatus(d, i)).status
                    = FailureStatus(d, i)
              BY <4>r, <7>s, ConvRowChange
            <7> DEFINE row == WithStatus(WithRetry(conv[i], conv[i].retry + 1), FailureStatus(d, i))
            <7>2. conv' = [conv EXCEPT ![i] = row] /\ row.status \in {"pending", "failed"}
              BY <6>2, <7>1, <5>2
            <7> HIDE DEF row
            <7> QED BY <7>2, <4>1, <1>t DEF QueuesTypeOK
          <6> QED BY <5>1, <6>1, <6>2 DEF HandleConversationFailure
        <5> QED BY <5>3, <4>1, <3>1, <3>2, HeldFrame
      <4> QED BY <2>5, <4>2, <4>3, <4>4
    <3> QED BY <3>3, <3>4
  <2> QED BY <1>4, <2>1, <2>2, <2>3, <2>4, <2>5 DEF Step
<1> QED BY <1>1, <1>2, <1>3, <1>4 DEF Next

\* No path through processNextMessage leaves a claimed message behind: what is
\* running is in the hands of a dispatcher, or was when one of them died.
THEOREM RunningMessagesAreHeld == Spec => []RunningIsHeld
<1>1. Init => RunningIsHeld
  BY DEF Init, QueuesInit, NoConv, RunningIsHeld, ConvWith
<1>2. ExclusiveInv /\ RunningIsHeld /\ [Next]_vars => RunningIsHeld'
  BY HeldStep
<1> QED BY <1>1, <1>2, ExclusiveAlways, PTL DEF Spec

-----------------------------------------------------------------------------
(***************************************************************************)
(* Superseding.  Only an enqueue writes superseded, and the row it inserts *)
(* has the highest id there is: it takes over from every older row of its  *)
(* content, be it superseded now or the one that stood for others so far.  *)
(***************************************************************************)
\* Every other step leaves contents alone, and supersedes, inserts and removes
\* nothing.  That a retry inserts nothing follows from HeldRows: its row exists.
LEMMA NothingSuperseded ==
  ASSUME ExclusiveInv, [Next]_vars, ~Enqueue, NEW c \in CtlIds
  PROVE  /\ ctl'[c].content = ctl[c].content
         /\ ctl'[c].status = "superseded" => ctl[c].status = "superseded"
         /\ ctl'[c].status = "absent" <=> ctl[c].status = "absent"
<1> USE DEF agentVars, dispatcherVars, historyVars
<1>t. TypeOK /\ QueuesTypeOK /\ ctl[c] \in CtlRow
  BY DEF ExclusiveInv, TypeOK, QueuesTypeOK
<1> DEFINE Kept(t) == /\ t[c].content = ctl[c].content
                      /\ t[c].status = "superseded" => ctl[c].status = "superseded"
                      /\ t[c].status = "absent" <=> ctl[c].status = "absent"
<1>0. Kept(ctl)
  OBVIOUS
<1>1. ASSUME NEW k \in CtlIds, ctl[k].status # "absent",
             NEW s \in {"pending", "running", "done", "timeout"}
      PROVE  Kept(SetCtlStatus(k, s))
  BY <1>t, <1>1 DEF SetCtlStatus, QueuesTypeOK, CtlRow
<1>2. ASSUME NEW k \in CtlIds PROVE Kept(AckControl(k)) /\ Kept(RequeueControl(k))
  <2>1. CtlOpen(k) => ctl[k].status # "absent"
    BY DEF CtlOpen
  <2>2. Kept(AckControl(k))
    BY <1>0, <1>1, <2>1 DEF AckControl, Overdue
  <2>3. Kept(RequeueControl(k))
    BY <1>0, <1>1 DEF RequeueControl
  <2> QED BY <2>2, <2>3
<1>3. Kept(ExpireTimedOutControls)
  BY <1>t DEF ExpireTimedOutControls, Overdue, CtlOpen, QueuesTypeOK, CtlRow
<1>4. ASSUME NEW k \in CtlIds, ctl[k].status # "absent" PROVE Kept(RetryOrFailControl(k))
  <2> DEFINE next == ctl[k].retry + 1
             s == IF next >= CONTROL_MAX_RETRIES THEN "failed" ELSE "pending"
             row == WithStatus(WithRetry(ctl[k], next), s)
  <2>1. row.status = s /\ row.content = ctl[k].content
    BY <1>t DEF WithStatus, WithRetry, QueuesTypeOK, CtlRow
  <2>2. s \in {"failed", "pending"}
    OBVIOUS
  <2> HIDE DEF row, s
  <2>3. Kept([ctl EXCEPT ![k] = row])
    BY <2>1, <2>2, <1>4, <1>t DEF QueuesTypeOK
  <2> QED BY <2>3, <1>0 DEF RetryOrFailControl, row, s
<1>5. ASSUME NEW d \in Dispatchers, Sweep(d) PROVE Kept(ctl')
  <2>1. PICK old : ctl' = CleanupControlQueue(ExpireTimedOutControls, old)
    BY <1>5 DEF Sweep
  <2>2. ExpireTimedOutControls[c] \in CtlRow
    BY <1>t, ExpireTyped
  <2> HIDE DEF Kept
  <2>3. ctl'[c] = IF c \in old /\ ExpireTimedOutControls[c].status \in CtlFinal
                  THEN [ExpireTimedOutControls[c] EXCEPT !.status = "deleted"]
                  ELSE ExpireTimedOutControls[c]
    BY <2>1 DEF CleanupControlQueue
  <2> QED BY <2>2, <2>3, <1>3 DEF Kept, CtlRow, CtlFinal
<1>6. ASSUME NEW d \in Dispatchers, Step(d), ~Sweep(d) PROVE Kept(ctl')
  <2>1. pc[d] \in Holding \cup {"claim"} /\ item[d].q = "ctl" => item[d].id \in CtlIds
    BY <1>t DEF TypeOK, Ref, Refs
  <2>2. pc[d] \in {"claim", "gate", "key", "submitted", "failed"} => pc[d] \in Holding \cup {"claim"}
    BY DEF Holding
  <2>k. pc[d] = "key" => item[d].q = "ctl"
    BY <1>t DEF TypeOK, Holding
  <2>q. pc[d] \in Holding \cup {"claim"} => item[d].q \in {"conv", "ctl"}
    BY <1>t DEF TypeOK, Ref, Refs
  <2> DEFINE i == item[d].id
  <2>3. \/ ctl' = ctl
        \/ i \in CtlIds /\ (\/ ctl' = AckControl(i) \/ ctl' = RequeueControl(i)
                            \/ CtlClaimable(i) /\ ctl' = ClaimControl(i)
                            \/ ctl[i].status # "absent" /\ ctl' = RetryOrFailControl(i))
    <3>1. CASE Claim(d)
      BY <3>1, <2>1, <2>2 DEF Claim
    <3>2. CASE Gate(d)
      <4>1. pc[d] \in Holding \cup {"claim"}
        BY <3>2, <2>2 DEF Gate
      <4> QED BY <3>2, <4>1, <2>1, <2>q DEF Gate, ReleaseItem, IsBypassState
    <3>3. CASE Keystroke(d) \/ Submitted(d)
      BY <3>3, <2>1, <2>2, <2>k DEF Keystroke, Submitted
    <3>4. CASE HandleFailure(d)
      <4>1. pc[d] \in Holding
        BY <3>4 DEF HandleFailure, Holding
      <4>2. item[d].q = "ctl" => ctl[i].status # "absent"
        BY <4>1 DEF ExclusiveInv, HeldRows
      <4> QED BY <3>4, <2>1, <4>1, <4>2 DEF HandleFailure
    <3>5. CASE Select(d) \/ Paste(d) \/ Enter(d) \/ Verify(d) \/ Unverified(d) \/ Hold(d)
      BY <3>5 DEF Select, Paste, Enter, Verify, Unverified, Hold
    <3> QED BY <1>6, <3>1, <3>2, <3>3, <3>4, <3>5 DEF Step
  <2>4. i \in CtlIds /\ CtlClaimable(i) => Kept(ClaimControl(i))
    BY <1>1 DEF CtlClaimable, ClaimControl
  <2> QED BY <2>3, <2>4, <1>0, <1>2, <1>4
<1>7. ASSUME NEW k \in CtlIds, DeadlinePasses(k) \/ BecomesAvailable(k) PROVE Kept(ctl')
  <2>1. \/ ctl' = [ctl EXCEPT ![k].deadline = "passed"]
        \/ ctl' = [ctl EXCEPT ![k].available = TRUE]
    BY <1>7 DEF DeadlinePasses, BecomesAvailable
  <2>2. CASE ctl' = [ctl EXCEPT ![k].deadline = "passed"]
    BY <2>2, <1>t DEF QueuesTypeOK, CtlRow
  <2>3. CASE ctl' = [ctl EXCEPT ![k].available = TRUE]
    BY <2>3, <1>t DEF QueuesTypeOK, CtlRow
  <2> QED BY <2>1, <2>2, <2>3
<1>8. ASSUME NEW k \in CtlIds, Ack(k) PROVE Kept(ctl')
  BY <1>8, <1>2 DEF Ack
<1>9. ASSUME ctl' = ctl PROVE Kept(ctl')
  BY <1>9
<1>10. CASE Get
  BY <1>10, <1>3 DEF Get
<1>11. CASE Receive \/ StatusChanges \/ AgentDies \/ AgentStarts \/ (\E d \in Dispatchers : Crash(d))
            \/ UNCHANGED vars
  BY <1>9, <1>11 DEF Receive, StatusChanges, AgentDies, AgentStarts, Crash, vars
<1> QED BY <1>5, <1>6, <1>7, <1>8, <1>10, <1>11 DEF Next

\* Ids are given out in order, so the row an enqueue inserts is the newest.
IdsInOrder ==
  \A k, n \in CtlIds : k < n /\ ctl[k].status = "absent" => ctl[n].status = "absent"

NewestInv == IdsInOrder /\ NewestNotSuperseded

LEMMA NewestStep ==
  ASSUME ExclusiveInv, ExclusiveInv', NewestInv, [Next]_vars
  PROVE  NewestInv'
<1>t. QueuesTypeOK
  BY DEF ExclusiveInv, TypeOK
<1>1. CASE ~Enqueue
  <2>1. IdsInOrder'
    BY <1>1, NothingSuperseded DEF NewestInv, IdsInOrder
  <2>2. ASSUME NEW c \in CtlIds, ctl'[c].status = "superseded"
        PROVE  \E k \in CtlIds : k > c /\ ctl'[k].content = ctl'[c].content
                                 /\ ctl'[k].status \notin {"absent", "superseded"}
    <3>1. ctl[c].status = "superseded" /\ ctl'[c].content = ctl[c].content
      BY <1>1, <2>2, NothingSuperseded
    <3>2. PICK k \in CtlIds : k > c /\ ctl[k].content = ctl[c].content
                              /\ ctl[k].status \notin {"absent", "superseded"}
      BY <3>1 DEF NewestInv, NewestNotSuperseded, CtlWith
    <3>3. ctl'[k].content = ctl[k].content /\ ctl'[k].status \notin {"absent", "superseded"}
      BY <1>1, <3>2, NothingSuperseded
    <3> QED BY <3>1, <3>2, <3>3
  <2> QED BY <2>1, <2>2 DEF NewestInv, NewestNotSuperseded, CtlWith
<1>2. CASE Enqueue
  <2>1. PICK n \in FreshCtl, kind \in CtlKinds : ctl' = InsertControl(n, kind)
    BY <1>2 DEF Enqueue
  <2>2. /\ n \in CtlIds /\ ctl[n].status = "absent"
        /\ \A k \in CtlIds : k < n => ctl[k].status # "absent"
    BY <2>1 DEF FreshCtl
  <2>3. ctl'[n].status = "pending" /\ ctl'[n].content = kind.content
    BY <2>1, <2>2 DEF InsertControl
  <2>4. ASSUME NEW k \in CtlIds, k # n
        PROVE  /\ ctl'[k].content = ctl[k].content
               /\ \/ ctl'[k].status = ctl[k].status
                  \/ /\ ctl[k].status = "pending" /\ ctl'[k].status = "superseded"
                     /\ ctl[k].content = kind.content
    BY <2>1, <2>4, <1>t DEF InsertControl, QueuesTypeOK, CtlRow
  <2>5. \A k \in CtlIds : ctl[k].status # "absent" => n > k
    BY <2>2 DEF NewestInv, IdsInOrder, CtlIds
  <2>6. IdsInOrder'
    BY <2>2, <2>3, <2>4, <2>5 DEF NewestInv, IdsInOrder, CtlIds
  <2>7. ASSUME NEW c \in CtlIds, ctl'[c].status = "superseded"
        PROVE  \E k \in CtlIds : k > c /\ ctl'[k].content = ctl'[c].content
                                 /\ ctl'[k].status \notin {"absent", "superseded"}
    <3>1. c # n /\ ctl[c].status # "absent"
      BY <2>3, <2>4, <2>7
    <3>2. n > c
      BY <2>5, <3>1
    <3>3. CASE ctl[c].content = kind.content
      BY <3>1, <3>2, <3>3, <2>2, <2>3, <2>4
    <3>4. CASE ctl[c].content # kind.content
      <4>1. ctl[c].status = "superseded"
        BY <2>4, <2>7, <3>1, <3>4
      <4>2. PICK k \in CtlIds : k > c /\ ctl[k].content = ctl[c].content
                                /\ ctl[k].status \notin {"absent", "superseded"}
        BY <4>1 DEF NewestInv, NewestNotSuperseded, CtlWith
      <4>3. k # n
        BY <4>2, <2>2
      <4> QED BY <4>2, <4>3, <2>4, <3>1, <3>4
    <3> QED BY <3>3, <3>4
  <2> QED BY <2>6, <2>7 DEF NewestInv, NewestNotSuperseded, CtlWith
<1> QED BY <1>1, <1>2

\* Whatever order enqueues, claims, retries, acks and the cleanup come in, the
\* newest control of a content is not one insertControl has cancelled.
THEOREM NewestIsNeverSuperseded == Spec => []NewestNotSuperseded
<1>1. Init => NewestInv
  BY DEF Init, QueuesInit, NoCtl, NewestInv, IdsInOrder, NewestNotSuperseded, CtlWith
<1>2. ExclusiveInv /\ ExclusiveInv' /\ NewestInv /\ [Next]_vars => NewestInv'
  BY NewestStep
<1>3. NewestInv => NewestNotSuperseded
  BY DEF NewestInv
<1> QED BY <1>1, <1>2, <1>3, ExclusiveAlways, PTL DEF Spec

-----------------------------------------------------------------------------
(***************************************************************************)
(* What is on record of a message is what the agent saw of it, for any     *)
(* number of messages, controls and dispatchers, and the queue with its    *)
(* dispatchers implements DurableInbox.                                    *)
(*                                                                         *)
(* SubmissionsAccounted is not inductive.  A message whose text still lies *)
(* in the input box after a failed attempt is submitted by any later       *)
(* Enter, so the text in the box has to be paid for already; and a holder  *)
(* that has not typed anything yet has not spent what running allows.      *)
(***************************************************************************)

\* Before the text of a message is in the input box.
Beginning == {"gate", "paste"}

\* The submission a running or delivered message is allowed without a failure is
\* spent, or may be any moment.
Paid(m) ==
  \/ conv[m].status = "delivered"
  \/ /\ conv[m].status = "running"
     /\ \A d \in Dispatchers : Holds(d, "conv", m) => pc[d] \notin Beginning

Count(m) == seen[<<"conv", m>>] + (IF <<"conv", m>> \in box THEN 1 ELSE 0)
Allowed(m) == conv[m].retry + uncounted[m] + (IF Paid(m) THEN 1 ELSE 0)

Accounted == \A m \in ConvIds : Count(m) <= Allowed(m)
Unseen == \A m \in ConvIds : conv[m].status = "absent" => Count(m) = 0 /\ conv[m].retry = 0

\* What a dispatcher typed is in the box, unless it was submitted or the session died.
OnItsWay ==
  \A d \in Dispatchers : pc[d] \in {"enter", "verify"} /\ alive /\ item[d].q = "conv" =>
    Ref(d) \in box \/ seen[Ref(d)] > 0
Arrived ==
  \A d \in Dispatchers : pc[d] = "submitted" /\ item[d].q = "conv" =>
    Ref(d) \notin box /\ seen[Ref(d)] > 0

\* The retry count a dispatcher read is not ahead of the row's.
RetryRead ==
  \A d \in Dispatchers : pc[d] \in Holding \cup {"claim"} /\ item[d].q = "conv" =>
    item[d].retry <= conv[item[d].id].retry

OutcomeInv ==
  Accounted /\ Unseen /\ OnItsWay /\ Arrived /\ RetryRead /\ DeliveredReachedAgent

-----------------------------------------------------------------------------
(* What a step does to a row, and to the input box *)

\* A change of the row of message m: the terminal stays as it is.
RowMoves(m, from, to) ==
  /\ conv[m].status = from /\ conv'[m].status = to
  /\ box' = box /\ seen' = seen /\ alive' = alive
RowCounts(m, failures, unexplained) ==
  /\ conv'[m].retry = conv[m].retry + failures
  /\ uncounted'[m] = uncounted[m] + unexplained

\* The five ways in which the row of a message changes.
Arrives(m) == Receive /\ RowMoves(m, "absent", "pending") /\ RowCounts(m, 0, 0)
Claimed(d, m) ==
  /\ RowMoves(m, "pending", "running") /\ RowCounts(m, 0, 0)
  /\ pc[d] = "claim" /\ pc' = [pc EXCEPT ![d] = "gate"] /\ item' = item
Lets(d) == pc[d] \in Holding /\ pc' \in [Dispatchers -> PcValues] /\ pc'[d] \in {"poll", "hold"}
Released(d, m) ==
  RowMoves(m, "running", "pending") /\ RowCounts(m, 0, 0) /\ Lets(d) /\ pc[d] = "gate"
Settled(d, m) ==
  RowMoves(m, "running", "delivered") /\ RowCounts(m, 0, 0) /\ Lets(d) /\ pc[d] = "submitted"
Failed(d, m) ==
  /\ Lets(d) /\ pc[d] = "failed"
  /\ \/ RowMoves(m, "running", "pending") /\ (RowCounts(m, 1, 0) \/ RowCounts(m, 0, 1))
     \/ /\ RowMoves(m, "running", "failed") /\ RowCounts(m, 1, 0)
        /\ GivesUp(item[d].retry + 1)
RowChanges(m) ==
  \/ Arrives(m)
  \/ \E d \in Dispatchers :
       /\ Ref(d) = <<"conv", m>>
       /\ \A e \in Dispatchers : e # d => pc'[e] = pc[e] /\ item'[e] = item[e]
       /\ Claimed(d, m) \/ Released(d, m) \/ Settled(d, m) \/ Failed(d, m)

\* Each row stays as it is or changes in one of these ways.
LEMMA RowStep ==
  ASSUME ExclusiveInv, Unseen, [Next]_vars, NEW m \in ConvIds
  PROVE  (conv'[m] = conv[m] /\ uncounted'[m] = uncounted[m]) \/ RowChanges(m)
<1> USE DEF agentVars, dispatcherVars, historyVars
<1>t. QueuesTypeOK /\ TypeOK
  BY DEF ExclusiveInv, TypeOK
<1>n. conv[m] \in ConvRow /\ uncounted[m] \in Nat /\ conv[m].retry \in Nat
  BY <1>t DEF QueuesTypeOK, TypeOK, ConvRow
<1> DEFINE Same == conv'[m] = conv[m] /\ uncounted'[m] = uncounted[m]
<1>1. CASE Receive
  <2>1. PICK k \in FreshConv, kind \in ConvKinds, s \in Now : conv' = InsertConversation(k, kind, s)
    BY <1>1 DEF Receive
  <2>2. CASE k = m
    <3>1. conv[m].status = "absent" /\ conv'[m].status = "pending" /\ conv'[m].retry = 0
      BY <2>1, <2>2, <1>t DEF InsertConversation, FreshConv, QueuesTypeOK
    <3>2. conv[m].retry = 0
      BY <3>1 DEF Unseen
    <3>3. Arrives(m)
      BY <1>1, <1>n, <3>1, <3>2 DEF Receive, Arrives, RowMoves, RowCounts
    <3> QED BY <3>3 DEF RowChanges
  <2>3. CASE k # m
    BY <1>1, <2>1, <2>3, <1>t DEF Receive, InsertConversation, QueuesTypeOK
  <2> QED BY <2>2, <2>3
<1>2. ASSUME NEW d \in Dispatchers, Claim(d) \/ Gate(d) \/ Submitted(d) \/ HandleFailure(d)
      PROVE  Same \/ RowChanges(m)
  <2>p. pc \in [Dispatchers -> PcValues] /\ item \in [Dispatchers -> Item \cup {NoItem}]
    BY <1>t DEF TypeOK
  <2>l. {"gate", "submitted", "failed"} \subseteq Holding /\ {"gate", "poll", "hold"} \subseteq PcValues
    BY DEF Holding, PcValues
  <2>e. \A e \in Dispatchers : e # d => pc'[e] = pc[e] /\ item'[e] = item[e]
    BY <1>2, <2>p DEF Claim, Gate, Submitted, HandleFailure, Return, Goto
  <2>r. pc[d] \in Holding \cup {"claim"}
    BY <1>2, <2>l DEF Claim, Gate, Submitted, HandleFailure
  <2>1. CASE Ref(d) # <<"conv", m>>
    <3>1. CASE item[d].q = "conv"
      <4>1. item[d].id \in ConvIds /\ item[d].id # m
        BY <2>r, <2>1, <3>1, <1>t DEF TypeOK, Ref, Refs
      <4> QED
        BY <1>2, <3>1, <4>1, <1>t
        DEF Claim, Gate, Submitted, HandleFailure, ReleaseItem, RequeueConversation,
            ClaimConversation, MarkDelivered, SetConvStatus, HandleConversationFailure,
            QueuesTypeOK, TypeOK
    <3>2. CASE item[d].q # "conv"
      <4>1. item[d].q = "ctl"
        BY <2>r, <3>2, <1>t DEF TypeOK, Ref, Refs
      <4> QED BY <1>2, <4>1 DEF Claim, Gate, Submitted, HandleFailure, ReleaseItem
    <3> QED BY <3>1, <3>2
  <2>2. CASE Ref(d) = <<"conv", m>>
    <3>q. item[d].q = "conv" /\ item[d].id = m
      BY <2>2 DEF Ref
    <3>h. pc[d] \in Holding => conv[m].status = "running"
      BY <3>q DEF ExclusiveInv, HeldRows
    <3>1. CASE Claim(d)
      <4>1. CASE ConvClaimable(m)
        <5>1. /\ conv' = [conv EXCEPT ![m].status = "running"] /\ conv[m].status = "pending"
              /\ pc' = [pc EXCEPT ![d] = "gate"] /\ item' = item /\ pc[d] = "claim"
          BY <3>1, <4>1, <3>q DEF Claim, Goto, ClaimConversation, SetConvStatus, ConvClaimable
        <5>2. conv'[m].status = "running" /\ conv'[m].retry = conv[m].retry
          BY <5>1, <1>n, <1>t DEF QueuesTypeOK, ConvRow
        <5>3. Claimed(d, m)
          BY <3>1, <5>1, <5>2, <1>n DEF Claim, Claimed, RowMoves, RowCounts
        <5> QED BY <5>3, <2>e, <2>2 DEF RowChanges
      <4>2. CASE ~ConvClaimable(m)
        BY <3>1, <4>2, <3>q DEF Claim
      <4> QED BY <4>1, <4>2
    <3>2. CASE Gate(d)
      <4>1. CASE NotNow(d)
        <5>1. conv' = RequeueConversation(m) /\ Return(d)
          BY <3>2, <4>1, <3>q DEF Gate, ReleaseItem
        <5>2. conv[m].status = "running"
          BY <3>2, <3>h, <2>l DEF Gate
        <5>3. conv' = [conv EXCEPT ![m].status = "pending"]
          BY <5>1, <5>2 DEF RequeueConversation, SetConvStatus
        <5>4. conv'[m].status = "pending" /\ conv'[m].retry = conv[m].retry
          BY <5>3, <1>n, <1>t DEF QueuesTypeOK, ConvRow
        <5>5. Lets(d)
          BY <3>2, <5>1, <2>p, <2>l DEF Lets, Gate, Return, Goto
        <5>6. Released(d, m)
          BY <3>2, <5>2, <5>4, <5>5, <1>n DEF Gate, Released, RowMoves, RowCounts
        <5> QED BY <5>6, <2>e, <2>2 DEF RowChanges
      <4>2. CASE ~NotNow(d)
        <5>1. ~IsBypassState(d)
          BY <3>q DEF IsBypassState
        <5> QED BY <3>2, <4>2, <5>1 DEF Gate
      <4> QED BY <4>1, <4>2
    <3>3. CASE Submitted(d)
      <4>1. conv' = [conv EXCEPT ![m].status = "delivered"] /\ conv[m].status = "running"
        BY <3>3, <3>q, <3>h, <2>l DEF Submitted, MarkDelivered, SetConvStatus
      <4>2. conv'[m].status = "delivered" /\ conv'[m].retry = conv[m].retry
        BY <4>1, <1>n, <1>t DEF QueuesTypeOK, ConvRow
      <4>3. Lets(d)
        BY <3>3, <2>p, <2>l DEF Lets, Submitted, Goto
      <4>4. Settled(d, m)
        BY <3>3, <4>1, <4>2, <4>3, <1>n DEF Submitted, Settled, RowMoves, RowCounts
      <4> QED BY <4>4, <2>e, <2>2 DEF RowChanges
    <3>4. CASE HandleFailure(d)
      <4>1. /\ HandleConversationFailure(d, m) /\ conv[m].status = "running" /\ pc[d] = "failed"
            /\ box' = box /\ seen' = seen /\ alive' = alive
        BY <3>4, <3>q, <3>h, <2>l DEF HandleFailure
      <4>2. Lets(d)
        BY <3>4, <2>p, <2>l DEF Lets, HandleFailure, Return, Goto
      <4>3. CASE view.fresh
        <5> DEFINE row == WithStatus(WithRetry(conv[m], conv[m].retry + 1), FailureStatus(d, m))
        <5>1. conv' = [conv EXCEPT ![m] = row] /\ uncounted' = uncounted
          BY <4>1, <4>3 DEF HandleConversationFailure
        <5>2. FailureStatus(d, m) = IF GivesUp(item[d].retry + 1) THEN "failed" ELSE "pending"
          BY <4>1 DEF FailureStatus
        <5>3. FailureStatus(d, m) \in ConvStatus /\ conv[m].retry + 1 \in Nat
          BY <5>2, <1>n DEF ConvStatus
        <5>4. row.status = FailureStatus(d, m) /\ row.retry = conv[m].retry + 1
          BY <5>3, <1>n, ConvRowChange
        <5> HIDE DEF row
        <5>5. conv'[m].status = FailureStatus(d, m) /\ conv'[m].retry = conv[m].retry + 1
          BY <5>1, <5>4, <1>t DEF QueuesTypeOK
        <5>6. RowCounts(m, 1, 0)
          BY <5>1, <5>5, <1>n DEF RowCounts
        <5>7. Failed(d, m)
          BY <4>1, <4>2, <5>2, <5>5, <5>6 DEF Failed, RowMoves
        <5> QED BY <5>7, <2>e, <2>2 DEF RowChanges
      <4>4. CASE ~view.fresh
        <5>1. /\ conv' = [conv EXCEPT ![m].status = "pending"]
              /\ uncounted' = [uncounted EXCEPT ![m] = @ + 1]
          BY <4>1, <4>4 DEF HandleConversationFailure, RequeueConversation, SetConvStatus
        <5>2. conv'[m].status = "pending" /\ conv'[m].retry = conv[m].retry
          BY <5>1, <1>n, <1>t DEF QueuesTypeOK, ConvRow
        <5>3. uncounted'[m] = uncounted[m] + 1
          BY <5>1, <1>t DEF TypeOK
        <5>4. RowCounts(m, 0, 1)
          BY <5>2, <5>3, <1>n DEF RowCounts
        <5>5. Failed(d, m)
          BY <4>1, <4>2, <5>2, <5>4 DEF Failed, RowMoves
        <5> QED BY <5>5, <2>e, <2>2 DEF RowChanges
      <4> QED BY <4>3, <4>4
    <3> QED BY <1>2, <3>1, <3>2, <3>3, <3>4
  <2> QED BY <2>1, <2>2
<1>3. ASSUME NEW d \in Dispatchers, Step(d) \/ Crash(d),
             ~(Claim(d) \/ Gate(d) \/ Submitted(d) \/ HandleFailure(d))
      PROVE  Same
  BY <1>3 DEF Step, Sweep, Select, Keystroke, Paste, Enter, Verify, Unverified, Hold, Crash
<1>4. ASSUME ~Receive, \A d \in Dispatchers : ~Step(d) /\ ~Crash(d)
      PROVE  Same
  BY <1>4 DEF Next, Enqueue, Get, StatusChanges, AgentDies, AgentStarts, Ack,
              DeadlinePasses, BecomesAvailable, vars
<1> QED BY <1>1, <1>2, <1>3, <1>4

\* The three ways in which the input box and what the agent has seen change.
Pastes(d) ==
  /\ pc[d] = "paste" /\ pc' = [pc EXCEPT ![d] = "enter"] /\ item' = item
  /\ box' = box \cup {Ref(d)} /\ seen' = seen /\ alive /\ alive' = alive
Enters(d) ==
  /\ alive /\ alive' = alive /\ box' = {}
  /\ seen' = [r \in Refs |-> IF r \in box /\ (r[1] = "conv" \/ seen[r] = 0)
                             THEN seen[r] + 1 ELSE seen[r]]
  /\ pc[d] \in {"enter", "verify"} /\ pc' \in {pc, [pc EXCEPT ![d] = "verify"]} /\ item' = item
Wiped == box' = {} /\ seen' = seen /\ alive' = FALSE /\ pc' = pc /\ item' = item

LEMMA BoxStep ==
  ASSUME TypeOK, [Next]_vars
  PROVE  \/ box' = box /\ seen' = seen
         \/ /\ conv' = conv /\ uncounted' = uncounted
            /\ Wiped \/ \E d \in Dispatchers : Pastes(d) \/ Enters(d)
<1> USE DEF agentVars, dispatcherVars, historyVars
<1>1. CASE AgentDies
  BY <1>1 DEF AgentDies, Wiped
<1>2. ASSUME NEW d \in Dispatchers, Paste(d), box' # box
      PROVE  Pastes(d) /\ conv' = conv /\ uncounted' = uncounted
  BY <1>2 DEF Paste, Pastes, Goto
<1>3. ASSUME NEW d \in Dispatchers, Enter(d) \/ Verify(d), box' # box \/ seen' # seen
      PROVE  Enters(d) /\ conv' = conv /\ uncounted' = uncounted
  BY <1>3 DEF Enter, Verify, Enters, PressEnter, Goto
<1>4. ASSUME ~AgentDies, \A d \in Dispatchers : ~Paste(d) /\ ~Enter(d) /\ ~Verify(d)
      PROVE  box' = box /\ seen' = seen
  BY <1>4 DEF Next, Step, Receive, Enqueue, Get, StatusChanges, AgentStarts, Ack,
              DeadlinePasses, BecomesAvailable, Sweep, Select, Claim, Gate, Keystroke,
              Unverified, Submitted, Hold, HandleFailure, Crash, vars
<1>5. ASSUME NEW d \in Dispatchers, Paste(d), box' = box
      PROVE  seen' = seen
  BY <1>5 DEF Paste
<1> QED BY <1>1, <1>2, <1>3, <1>4, <1>5

\* Only a paste adds to what the agent has seen and may still see of a message.
LEMMA CountStep ==
  ASSUME TypeOK, TypeOK', [Next]_vars, NEW m \in ConvIds
  PROVE  /\ Count(m) \in Nat /\ Count(m)' \in Nat
         /\ seen'[<<"conv", m>>] >= seen[<<"conv", m>>]
         /\ \/ Count(m)' <= Count(m)
            \/ /\ Count(m)' <= Count(m) + 1
               /\ \E d \in Dispatchers : Pastes(d) /\ Ref(d) = <<"conv", m>>
<1> DEFINE r == <<"conv", m>>
<1>1. r \in Refs /\ r[1] = "conv"
  BY DEF Refs
<1>2. seen[r] \in Nat /\ seen'[r] \in Nat
  BY <1>1 DEF TypeOK
<1>5. ASSUME NEW d \in Dispatchers, Pastes(d)
      PROVE  /\ seen'[r] = seen[r]
             /\ Ref(d) # r => Count(m)' = Count(m)
             /\ Count(m)' <= Count(m) + 1
  BY <1>2, <1>5 DEF Pastes, Count
<1>6. ASSUME NEW d \in Dispatchers, Enters(d)
      PROVE  Count(m)' = Count(m) /\ seen'[r] >= seen[r]
  <2>1. seen'[r] = IF r \in box THEN seen[r] + 1 ELSE seen[r]
    BY <1>1, <1>6 DEF Enters
  <2> QED BY <2>1, <1>2, <1>6 DEF Enters, Count
<1>7. Count(m) \in Nat /\ Count(m)' \in Nat
  BY <1>2 DEF Count
<1>8. CASE \E d \in Dispatchers : Pastes(d)
  <2>1. PICK d \in Dispatchers : Pastes(d)
    BY <1>8
  <2>2. seen'[r] >= seen[r] /\ Count(m)' <= Count(m) + 1
    BY <2>1, <1>5, <1>2
  <2>3. Ref(d) # r => Count(m)' <= Count(m)
    BY <2>1, <1>5, <1>7
  <2> QED BY <2>1, <2>2, <2>3, <1>7
<1>9. CASE \E d \in Dispatchers : Enters(d)
  BY <1>6, <1>7, <1>9
<1>10. CASE Wiped \/ (box' = box /\ seen' = seen)
  <2>1. Count(m)' <= Count(m) /\ seen'[r] = seen[r]
    <3>1. CASE Wiped
      BY <1>2, <3>1 DEF Count, Wiped
    <3>2. CASE box' = box /\ seen' = seen
      BY <1>2, <3>2 DEF Count
    <3> QED BY <1>10, <3>1, <3>2
  <2> QED BY <2>1, <1>2, <1>7
<1> QED BY <1>8, <1>9, <1>10, BoxStep

\* How a dispatcher comes to the places the invariant speaks of.
LEMMA PlaceStep ==
  ASSUME TypeOK, [Next]_vars, NEW d \in Dispatchers
  PROVE  /\ pc'[d] \in {"enter", "verify"} /\ alive' =>
              \/ Pastes(d)
              \/ pc[d] \in {"enter", "verify"} /\ alive /\ item'[d] = item[d]
         /\ pc'[d] = "submitted" /\ item'[d].q = "conv" =>
              /\ item'[d] = item[d]
              /\ \/ pc[d] = "submitted"
                 \/ pc[d] = "verify" /\ alive /\ box = {} /\ box' = box /\ seen' = seen
         /\ pc'[d] \in Holding \cup {"claim"} /\ item'[d].q = "conv" =>
              \/ pc[d] \in Holding \cup {"claim"} /\ item'[d] = item[d]
              \/ conv' = conv /\ item'[d].retry = conv[item'[d].id].retry
         /\ pc'[d] \in Beginning =>
              /\ item'[d] = item[d]
              /\ \/ pc[d] \in Beginning
                 \/ /\ pc[d] = "claim"
                    /\ item[d].q = "conv" => conv[item[d].id].status = "pending"
<1> USE DEF agentVars, dispatcherVars, historyVars
<1>p. pc \in [Dispatchers -> PcValues] /\ item \in [Dispatchers -> Item \cup {NoItem}]
  BY DEF TypeOK
<1>1. ASSUME NEW e \in Dispatchers, e # d, Step(e) \/ Crash(e)
      PROVE  pc'[d] = pc[d] /\ item'[d] = item[d] /\ alive' = alive
  BY <1>1, <1>p
  DEF Step, Sweep, Select, Claim, Gate, Keystroke, Paste, Enter, Verify, Unverified, Submitted,
      Hold, HandleFailure, Crash, Found, Return, Goto
<1>2. ASSUME \A e \in Dispatchers : ~Step(e) /\ ~Crash(e), ~AgentStarts
      PROVE  pc' = pc /\ item' = item /\ (alive' => alive)
  <2>1. CASE AgentDies
    BY <2>1 DEF AgentDies
  <2>2. CASE ~AgentDies
    <3>1. pc' = pc /\ item' = item /\ alive' = alive
      BY <1>2, <2>2 DEF Next, Receive, Enqueue, Get, StatusChanges, Ack,
                        DeadlinePasses, BecomesAvailable, vars
    <3> QED BY <3>1
  <2> QED BY <2>1, <2>2
<1>3. CASE AgentStarts
  BY <1>3 DEF AgentStarts, Beginning
<1>4. CASE Sweep(d) \/ Hold(d) \/ HandleFailure(d) \/ Crash(d) \/ Submitted(d)
  <2>1. pc'[d] \in {"select", "poll", "hold"}
    BY <1>4, <1>p DEF Sweep, Hold, HandleFailure, Crash, Submitted, Return, Goto
  <2>2. pc'[d] \notin Holding \cup {"claim", "enter", "verify", "submitted"} \cup Beginning
    BY <2>1 DEF Holding, Beginning
  <2> QED BY <2>2
<1>5. CASE Select(d)
  <2>1. \/ pc'[d] = "poll"
        \/ pc'[d] = "claim" /\ item'[d].q = "ctl"
        \/ pc'[d] = "claim" /\ conv' = conv /\ item'[d].retry = conv[item'[d].id].retry
    BY <1>5, <1>p DEF Select, Found, Return, Goto
  <2>2. pc'[d] \notin {"enter", "verify", "submitted"} \cup Beginning
    BY <2>1 DEF Beginning
  <2>3. "poll" \notin Holding
    BY DEF Holding
  <2> QED BY <2>1, <2>2, <2>3
<1>6. CASE Claim(d)
  <2>1. \/ pc'[d] = "poll"
        \/ /\ pc'[d] = "gate" /\ item' = item
           /\ item[d].q = "conv" => conv[item[d].id].status = "pending"
    BY <1>6, <1>p DEF Claim, Return, Goto, ConvClaimable
  <2>2. {"poll", "gate"} \cap {"enter", "verify", "submitted"} = {} /\ "poll" \notin Beginning
    BY DEF Beginning
  <2>3. "poll" \notin Holding
    BY DEF Holding
  <2> QED BY <1>6, <2>1, <2>2, <2>3 DEF Claim
<1>7. CASE Gate(d) \/ Keystroke(d)
  <2>1. \/ pc'[d] = "poll"
        \/ pc'[d] \in {"key", "failed"} /\ item' = item
        \/ pc'[d] = "paste" /\ item' = item /\ pc[d] = "gate"
    BY <1>7, <1>p DEF Gate, Keystroke, Return, Goto
  <2>2. pc[d] \in Holding
    BY <1>7 DEF Gate, Keystroke, Holding
  <2>3. /\ "poll" \notin Holding
        /\ {"poll", "key", "failed"} \cap Beginning = {} /\ "gate" \in Beginning
    BY DEF Holding, Beginning
  <2> QED BY <2>1, <2>2, <2>3
<1>8. CASE Paste(d)
  <2>1. \/ Pastes(d) /\ pc'[d] = "enter"
        \/ pc'[d] = "failed" /\ item' = item
    BY <1>8, <1>p DEF Paste, Pastes, Goto
  <2>2. pc[d] \in Holding /\ {"enter", "failed"} \cap Beginning = {}
    BY <1>8 DEF Paste, Holding, Beginning
  <2> QED BY <1>8, <2>1, <2>2 DEF Pastes
<1>9. CASE Enter(d) \/ Verify(d) \/ Unverified(d)
  <2>1. item' = item /\ alive' = alive /\ pc[d] \in Holding /\ pc[d] \notin Beginning
    BY <1>9 DEF Enter, Verify, Unverified, Holding, Beginning
  <2>2. pc'[d] \notin Beginning
    BY <1>9, <1>p DEF Enter, Verify, Unverified, Goto, Beginning
  <2>3. pc'[d] \in {"enter", "verify"} => pc[d] \in {"enter", "verify"} /\ alive'
                                         = alive
    BY <1>9, <1>p DEF Enter, Verify, Unverified, Goto
  <2>4. pc'[d] = "submitted" /\ item[d].q = "conv" =>
          pc[d] = "verify" /\ alive /\ box = {} /\ box' = box /\ seen' = seen
    BY <1>9, <1>p DEF Enter, Verify, Unverified, Goto, ReadsEmpty
  <2> QED BY <2>1, <2>2, <2>3, <2>4
<1>10. CASE Step(d) \/ Crash(d)
  BY <1>10, <1>4, <1>5, <1>6, <1>7, <1>8, <1>9 DEF Step
<1> QED BY <1>1, <1>2, <1>3, <1>10

-----------------------------------------------------------------------------
(* The invariant, part by part *)

\* What a dispatcher pastes is the text of a row it holds.
LEMMA PastedIsRunning ==
  ASSUME ExclusiveInv, NEW d \in Dispatchers, Pastes(d), NEW m \in ConvIds, Ref(d) = <<"conv", m>>
  PROVE  conv[m].status = "running" /\ Holds(d, "conv", m) /\ pc[d] \in Beginning
<1>1. pc[d] \in Holding /\ pc[d] \in Beginning /\ item[d].q = "conv" /\ item[d].id = m
  BY DEF Pastes, Ref, Holding, Beginning
<1> QED BY <1>1 DEF ExclusiveInv, HeldRows, Holds

LEMMA OnItsWayStep ==
  ASSUME TypeOK, TypeOK', OnItsWay, [Next]_vars
  PROVE  OnItsWay'
<1> SUFFICES ASSUME NEW d \in Dispatchers, pc'[d] \in {"enter", "verify"}, alive',
                    item'[d].q = "conv"
             PROVE  Ref(d)' \in box' \/ seen'[Ref(d)'] > 0
  BY DEF OnItsWay
<1>1. CASE Pastes(d)
  BY <1>1 DEF Pastes, Ref
<1>2. CASE pc[d] \in {"enter", "verify"} /\ alive /\ item'[d] = item[d]
  <2>1. Ref(d)' = Ref(d) /\ item[d].q = "conv" /\ pc[d] \in Holding
    BY <1>2 DEF Ref, Holding
  <2>2. Ref(d) \in Refs /\ Ref(d)[1] = "conv"
    BY <2>1 DEF TypeOK, Ref
  <2>3. (Ref(d) \in box \/ seen[Ref(d)] > 0) /\ seen[Ref(d)] \in Nat
    BY <1>2, <2>1, <2>2 DEF OnItsWay, TypeOK
  <2> DEFINE r == Ref(d)
  <2> HIDE DEF r
  <2>4. CASE box' = box /\ seen' = seen
    BY <2>1, <2>3, <2>4
  <2>5. ASSUME NEW e \in Dispatchers, Pastes(e) PROVE r \in box' \/ seen'[r] > 0
    BY <2>3, <2>5 DEF Pastes, r
  <2>6. ASSUME NEW e \in Dispatchers, Enters(e) PROVE seen'[r] > 0
    <3>1. seen'[r] = IF r \in box THEN seen[r] + 1 ELSE seen[r]
      BY <2>2, <2>6 DEF Enters, r
    <3> QED BY <3>1, <2>3 DEF r
  <2>7. ~Wiped
    BY DEF Wiped
  <2> QED BY <2>1, <2>4, <2>5, <2>6, <2>7, BoxStep DEF r
<1> QED BY <1>1, <1>2, PlaceStep

LEMMA ArrivedStep ==
  ASSUME ExclusiveInv, TypeOK', OnItsWay, Arrived, [Next]_vars
  PROVE  Arrived'
<1> SUFFICES ASSUME NEW d \in Dispatchers, pc'[d] = "submitted", item'[d].q = "conv"
             PROVE  Ref(d)' \notin box' /\ seen'[Ref(d)'] > 0
  BY DEF Arrived
<1>t. TypeOK
  BY DEF ExclusiveInv
<1>1. item'[d] = item[d] /\ Ref(d)' = Ref(d)
  BY <1>t, PlaceStep DEF Ref
<1>2. CASE pc[d] = "verify" /\ alive /\ box = {} /\ box' = box /\ seen' = seen
  BY <1>1, <1>2 DEF OnItsWay
<1>3. CASE pc[d] = "submitted"
  <2>1. Ref(d) \notin box /\ seen[Ref(d)] > 0 /\ pc[d] \in Holding
    BY <1>1, <1>3 DEF Arrived, Holding
  <2>2. PICK m \in ConvIds : Ref(d) = <<"conv", m>>
    BY <1>1, <2>1, <1>t DEF TypeOK, Ref, Refs
  <2>3. seen'[Ref(d)] > 0
    <3>1. seen'[<<"conv", m>>] >= seen[<<"conv", m>>]
      BY <1>t, CountStep
    <3>2. <<"conv", m>> \in Refs
      BY DEF Refs
    <3>3. seen[<<"conv", m>>] \in Nat /\ seen'[<<"conv", m>>] \in Nat
      BY <3>2, <1>t DEF TypeOK
    <3> QED BY <3>1, <3>3, <2>1, <2>2
  <2>4. Ref(d) \notin box'
    <3>1. ASSUME NEW e \in Dispatchers, Pastes(e) PROVE Ref(e) # Ref(d)
      <4>1. pc[e] \in Holding /\ e # d
        BY <1>3, <3>1 DEF Pastes, Holding
      <4> QED BY <4>1, <2>1 DEF ExclusiveInv, ClaimExclusive
    <3> QED BY <3>1, <2>1, <1>t, BoxStep DEF Pastes, Enters, Wiped
  <2> QED BY <1>1, <2>3, <2>4
<1> QED BY <1>t, <1>2, <1>3, PlaceStep

LEMMA RetryReadStep ==
  ASSUME ExclusiveInv, TypeOK', Unseen, RetryRead, [Next]_vars
  PROVE  RetryRead'
<1> SUFFICES ASSUME NEW d \in Dispatchers, pc'[d] \in Holding \cup {"claim"}, item'[d].q = "conv"
             PROVE  item'[d].retry <= conv'[item'[d].id].retry
  BY DEF RetryRead
<1>t. TypeOK
  BY DEF ExclusiveInv
<1>i. item'[d].id \in ConvIds
  BY DEF TypeOK, Ref, Refs
<1> DEFINE m == item'[d].id
<1>n. conv[m].retry \in Nat /\ conv'[m].retry \in Nat /\ uncounted[m] \in Nat
  BY <1>t, <1>i DEF TypeOK, QueuesTypeOK, ConvRow
<1>k. item'[d].retry \in Nat
  BY DEF TypeOK, Item, NoItem
<1>1. CASE pc[d] \in Holding \cup {"claim"} /\ item'[d] = item[d]
  <2>1. item[d].retry <= conv[m].retry
    BY <1>1 DEF RetryRead
  <2>2. conv'[m].retry >= conv[m].retry
    BY <1>i, <1>n, RowStep
    DEF RowChanges, Arrives, Claimed, Released, Settled, Failed, RowCounts
  <2> QED BY <1>1, <1>n, <1>k, <2>1, <2>2
<1>2. CASE conv' = conv /\ item'[d].retry = conv[m].retry
  BY <1>2, <1>n
<1> QED BY <1>1, <1>2, <1>t, PlaceStep

LEMMA UnseenStep ==
  ASSUME ExclusiveInv, TypeOK', Unseen, [Next]_vars
  PROVE  Unseen'
<1> SUFFICES ASSUME NEW m \in ConvIds, conv'[m].status = "absent"
             PROVE  Count(m)' = 0 /\ conv'[m].retry = 0
  BY DEF Unseen
<1>t. TypeOK
  BY DEF ExclusiveInv
<1>1. conv'[m] = conv[m]
  BY RowStep DEF RowChanges, Arrives, Claimed, Released, Settled, Failed, RowMoves
<1>2. conv[m].status = "absent" /\ Count(m) = 0 /\ conv[m].retry = 0
  BY <1>1 DEF Unseen
<1>3. \A d \in Dispatchers : ~(Pastes(d) /\ Ref(d) = <<"conv", m>>)
  BY <1>2, PastedIsRunning
<1>4. Count(m)' <= Count(m) /\ Count(m)' \in Nat
  BY <1>3, <1>t, CountStep
<1>5. Count(m)' = 0
  BY <1>2, <1>4
<1> QED BY <1>1, <1>2, <1>5

LEMMA DeliveredStep ==
  ASSUME ExclusiveInv, TypeOK', Unseen, Arrived, DeliveredReachedAgent, [Next]_vars
  PROVE  DeliveredReachedAgent'
<1> SUFFICES ASSUME NEW m \in ConvIds, conv'[m].status = "delivered"
             PROVE  seen'[<<"conv", m>>] > 0 /\ <<"conv", m>> \notin box'
  BY DEF DeliveredReachedAgent, ConvWith
<1>t. TypeOK
  BY DEF ExclusiveInv
<1>1. CASE conv'[m] = conv[m]
  <2>1. seen[<<"conv", m>>] > 0 /\ <<"conv", m>> \notin box /\ conv[m].status = "delivered"
    BY <1>1 DEF DeliveredReachedAgent, ConvWith
  <2>2. \A d \in Dispatchers : ~(Pastes(d) /\ Ref(d) = <<"conv", m>>)
    BY <2>1, PastedIsRunning
  <2>3. <<"conv", m>> \notin box'
    BY <2>1, <2>2, <1>t, BoxStep DEF Pastes, Enters, Wiped
  <2>4. seen'[<<"conv", m>>] >= seen[<<"conv", m>>]
    BY <1>t, CountStep
  <2>5. <<"conv", m>> \in Refs
    BY DEF Refs
  <2>6. seen[<<"conv", m>>] \in Nat /\ seen'[<<"conv", m>>] \in Nat
    BY <2>5, <1>t DEF TypeOK
  <2> QED BY <2>1, <2>3, <2>4, <2>6
<1>2. ASSUME NEW d \in Dispatchers, Ref(d) = <<"conv", m>>, Settled(d, m)
      PROVE  seen'[<<"conv", m>>] > 0 /\ <<"conv", m>> \notin box'
  BY <1>2 DEF Settled, RowMoves, Arrived, Ref
<1> QED
  BY <1>1, <1>2, RowStep DEF RowChanges, Arrives, Claimed, Released, Failed, RowMoves

\* A row that stays as it is keeps its allowance, and one whose text is pasted gains it.
LEMMA AllowedStep ==
  ASSUME ExclusiveInv, TypeOK', [Next]_vars, NEW m \in ConvIds,
         conv'[m] = conv[m], uncounted'[m] = uncounted[m]
  PROVE  /\ Allowed(m)' >= Allowed(m)
         /\ (\E d \in Dispatchers : Pastes(d) /\ Ref(d) = <<"conv", m>>)
              => Allowed(m)' = Allowed(m) + 1
<1>t. TypeOK
  BY DEF ExclusiveInv
<1>n. conv[m].retry \in Nat /\ uncounted[m] \in Nat
  BY <1>t DEF TypeOK, QueuesTypeOK, ConvRow
<1>1. Paid(m) => Paid(m)'
  <2> SUFFICES ASSUME Paid(m), conv[m].status = "running",
                      NEW d \in Dispatchers, Holds(d, "conv", m)', pc'[d] \in Beginning
               PROVE  FALSE
    BY DEF Paid
  <2>1. /\ item'[d] = item[d] /\ item[d].q = "conv" /\ item[d].id = m
        /\ \/ pc[d] \in Beginning
           \/ pc[d] = "claim" /\ (item[d].q = "conv" => conv[item[d].id].status = "pending")
    BY <1>t, PlaceStep DEF Holds
  <2>2. pc[d] \in Beginning
    BY <2>1
  <2>3. Holds(d, "conv", m)
    BY <2>1, <2>2 DEF Holds, Beginning, Holding
  <2> QED BY <2>2, <2>3 DEF Paid
<1>2. ASSUME NEW d \in Dispatchers, Pastes(d), Ref(d) = <<"conv", m>>
      PROVE  ~Paid(m) /\ Paid(m)'
  <2>1. conv[m].status = "running" /\ Holds(d, "conv", m) /\ pc[d] \in Beginning
    BY <1>2, PastedIsRunning
  <2>2. ~Paid(m)
    BY <2>1 DEF Paid
  <2>3. ASSUME NEW e \in Dispatchers, Holds(e, "conv", m)' PROVE pc'[e] \notin Beginning
    <3>1. CASE e = d
      BY <1>2, <3>1, <1>t DEF Pastes, TypeOK, Beginning
    <3>2. CASE e # d
      <4>1. pc'[e] = pc[e] /\ item' = item
        BY <1>2, <3>2, <1>t DEF Pastes, TypeOK
      <4>2. pc[e] \in Holding /\ Ref(e) = <<"conv", m>> /\ pc[d] \in Holding
        BY <4>1, <2>3, <2>1 DEF Holds, Ref
      <4> QED BY <4>2, <3>2, <1>2 DEF ExclusiveInv, ClaimExclusive
    <3> QED BY <3>1, <3>2
  <2> QED BY <2>1, <2>2, <2>3 DEF Paid
<1> HIDE DEF Paid
<1>3. Allowed(m)' >= Allowed(m)
  BY <1>1, <1>n DEF Allowed
<1> QED BY <1>2, <1>3, <1>n DEF Allowed

\* One that changes pays with a failure for what it no longer allows.
LEMMA ChangedRow ==
  ASSUME ExclusiveInv, TypeOK', [Next]_vars, NEW m \in ConvIds, RowChanges(m), ~Arrives(m)
  PROVE  Allowed(m)' >= Allowed(m)
<1>t. TypeOK
  BY DEF ExclusiveInv
<1>n. conv[m].retry \in Nat /\ uncounted[m] \in Nat
  BY <1>t DEF TypeOK, QueuesTypeOK, ConvRow
<1>1. PICK d \in Dispatchers :
        /\ Ref(d) = <<"conv", m>>
        /\ \A e \in Dispatchers : e # d => pc'[e] = pc[e] /\ item'[e] = item[e]
        /\ Claimed(d, m) \/ Released(d, m) \/ Settled(d, m) \/ Failed(d, m)
  BY DEF RowChanges
<1>2. CASE Claimed(d, m)
  <2>1. ~Paid(m)
    BY <1>2 DEF Claimed, RowMoves, Paid
  <2> HIDE DEF Paid
  <2> QED BY <1>2, <2>1, <1>n DEF Claimed, RowCounts, Allowed
<1>3. CASE Released(d, m)
  <2>1. Holds(d, "conv", m) /\ pc[d] \in Beginning /\ conv[m].status = "running"
    BY <1>1, <1>3 DEF Released, RowMoves, Lets, Holds, Ref, Beginning
  <2>2. ~Paid(m)
    BY <2>1 DEF Paid
  <2> HIDE DEF Paid
  <2> QED BY <1>3, <2>2, <1>n DEF Released, RowCounts, Allowed
<1>4. CASE Settled(d, m)
  <2>1. Paid(m)'
    BY <1>4 DEF Settled, RowMoves, Paid
  <2> HIDE DEF Paid
  <2> QED BY <1>4, <2>1, <1>n DEF Settled, RowCounts, Allowed
<1>5. CASE Failed(d, m)
  <2>1. conv'[m].retry + uncounted'[m] = conv[m].retry + uncounted[m] + 1
    BY <1>5, <1>n DEF Failed, RowCounts
  <2>2. conv'[m].retry \in Nat /\ uncounted'[m] \in Nat
    BY DEF TypeOK, QueuesTypeOK, ConvRow
  <2> HIDE DEF Paid
  <2> QED BY <2>1, <2>2, <1>n DEF Allowed
<1> QED BY <1>1, <1>2, <1>3, <1>4, <1>5

LEMMA AccountedStep ==
  ASSUME ExclusiveInv, TypeOK', Unseen, Accounted, [Next]_vars
  PROVE  Accounted'
<1> SUFFICES ASSUME NEW m \in ConvIds PROVE Count(m)' <= Allowed(m)'
  BY DEF Accounted
<1>t. TypeOK
  BY DEF ExclusiveInv
<1>n. Allowed(m) \in Nat /\ Allowed(m)' \in Nat /\ Count(m) \in Nat /\ Count(m)' \in Nat
  <2>1. /\ conv[m].retry \in Nat /\ uncounted[m] \in Nat
        /\ conv'[m].retry \in Nat /\ uncounted'[m] \in Nat
    BY <1>t DEF TypeOK, QueuesTypeOK, ConvRow
  <2>2. Allowed(m) \in Nat /\ Allowed(m)' \in Nat
    BY <2>1 DEF Allowed
  <2> QED BY <2>2, <1>t, CountStep
<1>a. Count(m) <= Allowed(m)
  BY DEF Accounted
<1>1. CASE conv'[m] = conv[m] /\ uncounted'[m] = uncounted[m]
  <2>1. CASE \E d \in Dispatchers : Pastes(d) /\ Ref(d) = <<"conv", m>>
    <3>1. Allowed(m)' = Allowed(m) + 1
      BY <1>1, <2>1, AllowedStep
    <3>2. Count(m)' <= Count(m) \/ Count(m)' <= Count(m) + 1
      BY <1>t, CountStep
    <3> QED BY <1>a, <1>n, <3>1, <3>2
  <2>2. CASE ~\E d \in Dispatchers : Pastes(d) /\ Ref(d) = <<"conv", m>>
    <3>1. Allowed(m)' >= Allowed(m)
      BY <1>1, AllowedStep
    <3>2. \A d \in Dispatchers : ~(Pastes(d) /\ Ref(d) = <<"conv", m>>)
      BY <2>2
    <3>3. Count(m)' <= Count(m)
      BY <1>t, <3>2, CountStep
    <3> QED BY <1>a, <1>n, <3>1, <3>3
  <2> QED BY <2>1, <2>2
<1>2. CASE RowChanges(m)
  <2>1. box' = box /\ seen' = seen
    BY <1>2 DEF RowChanges, Arrives, Claimed, Released, Settled, Failed, RowMoves
  <2>2. Count(m)' = Count(m)
    BY <2>1 DEF Count
  <2>3. CASE Arrives(m)
    <3>1. Count(m) = 0
      BY <2>3 DEF Arrives, RowMoves, Unseen
    <3> QED BY <2>2, <3>1, <1>n
  <2>4. CASE ~Arrives(m)
    <3>1. Allowed(m)' >= Allowed(m)
      BY <1>2, <2>4, ChangedRow
    <3> QED BY <1>a, <1>n, <2>2, <3>1
  <2> QED BY <2>3, <2>4
<1> QED BY <1>1, <1>2, RowStep

-----------------------------------------------------------------------------
(* The theorems *)

LEMMA OutcomeInit == Init => OutcomeInv
<1> SUFFICES ASSUME Init PROVE OutcomeInv
  OBVIOUS
<1>1. \A m \in ConvIds : conv[m].status = "absent" /\ conv[m].retry = 0 /\ uncounted[m] = 0
  BY DEF Init, QueuesInit, NoConv
<1>2. \A m \in ConvIds : <<"conv", m>> \in Refs
  BY DEF Refs
<1>3. \A m \in ConvIds : seen[<<"conv", m>>] = 0 /\ <<"conv", m>> \notin box
  BY <1>2 DEF Init
<1>4. ASSUME NEW m \in ConvIds PROVE Count(m) = 0
  <2>1. Count(m) = seen[<<"conv", m>>] + 0 /\ seen[<<"conv", m>>] = 0
    BY <1>3 DEF Count
  <2> QED BY <2>1
<1>5. \A m \in ConvIds : Allowed(m) \in Nat
  BY <1>1 DEF Allowed
<1>6. Accounted /\ Unseen
  BY <1>1, <1>4, <1>5 DEF Accounted, Unseen
<1>7. OnItsWay /\ Arrived /\ RetryRead
  BY DEF Init, OnItsWay, Arrived, RetryRead, Holding
<1>8. DeliveredReachedAgent
  BY <1>1 DEF DeliveredReachedAgent, ConvWith
<1> QED BY <1>6, <1>7, <1>8 DEF OutcomeInv

LEMMA OutcomeStep == ExclusiveInv /\ OutcomeInv /\ [Next]_vars => OutcomeInv'
<1> SUFFICES ASSUME ExclusiveInv, OutcomeInv, [Next]_vars PROVE OutcomeInv'
  OBVIOUS
<1>t. TypeOK /\ TypeOK'
  BY TypeStep DEF ExclusiveInv
<1> QED
  BY <1>t, AccountedStep, UnseenStep, OnItsWayStep, ArrivedStep, RetryReadStep, DeliveredStep
  DEF OutcomeInv

LEMMA OutcomeAlways == Spec => [](ExclusiveInv /\ OutcomeInv)
<1>1. Init => OutcomeInv
  BY OutcomeInit
<1>2. ExclusiveInv /\ OutcomeInv /\ [Next]_vars => OutcomeInv'
  BY OutcomeStep
<1> QED BY <1>1, <1>2, ExclusiveAlways, PTL DEF Spec

\* Whatever lies in the input box, whoever presses Enter and whichever dispatcher
\* dies: delivered is on record only of what the agent got, and each submission
\* beyond the first is paid for by a recorded failure.
THEOREM RecordsOfMessagesAreTrue == Spec => []OutcomesAreTrue
<1>1. ExclusiveInv /\ OutcomeInv => OutcomesAreTrue
  <2> SUFFICES ASSUME ExclusiveInv, OutcomeInv, NEW m \in ConvIds
               PROVE  seen[<<"conv", m>>] <= conv[m].retry + uncounted[m]
                        + (IF conv[m].status \in {"running", "delivered"} THEN 1 ELSE 0)
    BY DEF OutcomesAreTrue, OutcomeInv, SubmissionsAccounted
  <2>1. <<"conv", m>> \in Refs
    BY DEF Refs
  <2>2. seen[<<"conv", m>>] \in Nat /\ conv[m].retry \in Nat /\ uncounted[m] \in Nat
    BY <2>1 DEF ExclusiveInv, TypeOK, QueuesTypeOK, ConvRow
  <2>3. Count(m) <= Allowed(m)
    BY DEF OutcomeInv, Accounted
  <2>4. Paid(m) => conv[m].status \in {"running", "delivered"}
    BY DEF Paid
  <2> HIDE DEF Paid
  <2> QED BY <2>2, <2>3, <2>4 DEF Count, Allowed
<1> QED BY <1>1, OutcomeAlways, PTL

-----------------------------------------------------------------------------
(* The abstract inbox *)

\* The state of the inbox that the rows stand for, by message.
Abstract(status) == IF status \in {"pending", "running"} THEN "queued" ELSE status
St == [m \in ConvIds |-> Abstract(conv[m].status)]
Shown == [m \in ConvIds |-> seen[<<"conv", m>>]]
Fails == [m \in ConvIds |-> conv[m].retry]

\* One step changes one row.
LEMMA OneRowChanges ==
  ASSUME ExclusiveInv, Unseen, [Next]_vars, NEW m \in ConvIds, RowChanges(m),
         NEW k \in ConvIds, k # m
  PROVE  conv'[k] = conv[k]
<1>t. QueuesTypeOK /\ TypeOK
  BY DEF ExclusiveInv, TypeOK
<1>1. CASE Receive
  <2>1. PICK n \in FreshConv, kind \in ConvKinds, s \in Now : conv' = InsertConversation(n, kind, s)
    BY <1>1 DEF Receive
  <2>2. pc' = pc
    BY <1>1 DEF Receive, dispatcherVars
  <2>3. Arrives(m)
    BY <2>2, <1>t DEF RowChanges, Claimed, Released, Settled, Failed, Lets, Holding, TypeOK
  <2>4. n = m
    BY <2>1, <2>3, <1>t DEF Arrives, RowMoves, InsertConversation, FreshConv, QueuesTypeOK
  <2> QED BY <2>1, <2>4, <1>t DEF InsertConversation, QueuesTypeOK
<1>2. CASE ~Receive /\ conv'[k] # conv[k]
  <2>1. PICK d \in Dispatchers :
          /\ Ref(d) = <<"conv", m>>
          /\ \A e \in Dispatchers : e # d => pc'[e] = pc[e]
    BY <1>2 DEF RowChanges, Arrives
  <2>2. PICK e \in Dispatchers :
          /\ Ref(e) = <<"conv", k>>
          /\ Claimed(e, k) \/ Released(e, k) \/ Settled(e, k) \/ Failed(e, k)
    BY <1>2, RowStep DEF RowChanges, Arrives
  <2>3. pc'[e] # pc[e]
    BY <2>2, <1>t DEF Claimed, Released, Settled, Failed, Lets, TypeOK
  <2> QED BY <2>1, <2>2, <2>3
<1> QED BY <1>1, <1>2

LEMMA InboxInitRefines == Init => Inbox!InboxInit
<1> SUFFICES ASSUME Init PROVE Inbox!InboxInit
  OBVIOUS
<1>1. \A m \in ConvIds : conv[m].status = "absent" /\ conv[m].retry = 0
  BY DEF Init, QueuesInit, NoConv
<1>2. \A m \in ConvIds : seen[<<"conv", m>>] = 0
  BY DEF Init, Refs
<1> QED BY <1>1, <1>2 DEF Inbox!InboxInit

\* A change of a row is an acceptance, a delivery, a failure, or nothing at all.
LEMMA RowRefines ==
  ASSUME ExclusiveInv, OutcomeInv, TypeOK', [Next]_vars, NEW m \in ConvIds, RowChanges(m)
  PROVE  \/ St' = St /\ Shown' = Shown /\ Fails' = Fails
         \/ /\ St[m] = "absent" /\ St' = [St EXCEPT ![m] = "queued"]
            /\ Shown' = Shown /\ Fails' = Fails
         \/ /\ St[m] = "queued" /\ Shown[m] > 0 /\ St' = [St EXCEPT ![m] = "delivered"]
            /\ Shown' = Shown /\ Fails' = Fails
         \/ /\ St[m] = "queued" /\ Shown' = Shown /\ Fails' = [Fails EXCEPT ![m] = @ + 1]
            /\ \/ St' = St
               \/ St' = [St EXCEPT ![m] = "failed"] /\ Fails'[m] >= MAX_RETRIES
<1>t. TypeOK /\ Unseen
  BY DEF ExclusiveInv, OutcomeInv
<1>o. \A k \in ConvIds : k # m => conv'[k] = conv[k]
  BY <1>t, OneRowChanges
<1>n. conv[m].retry \in Nat /\ conv'[m].retry \in Nat /\ uncounted[m] \in Nat
  BY <1>t DEF TypeOK, QueuesTypeOK, ConvRow
<1>b. Shown' = Shown
  BY DEF RowChanges, Arrives, Claimed, Released, Settled, Failed, RowMoves, Shown
<1>s. ASSUME NEW s, s = Abstract(conv'[m].status)
      PROVE  St' = [St EXCEPT ![m] = s]
  BY <1>o, <1>s DEF St
<1>f. ASSUME NEW n \in Nat, conv'[m].retry = conv[m].retry + n
      PROVE  /\ Fails' = [Fails EXCEPT ![m] = @ + n]
             /\ n = 0 => Fails' = Fails
             /\ Fails'[m] = conv'[m].retry
  <2>1. Fails' = [Fails EXCEPT ![m] = @ + n] /\ Fails'[m] = conv'[m].retry
    BY <1>o, <1>f DEF Fails
  <2>2. n = 0 => Fails' = Fails
    BY <1>o, <1>f, <1>n DEF Fails
  <2> QED BY <2>1, <2>2
<1>k. ASSUME Abstract(conv'[m].status) = Abstract(conv[m].status) PROVE St' = St
  BY <1>o, <1>k DEF St
<1>1. CASE Arrives(m)
  <2>1. Abstract(conv[m].status) = "absent" /\ Abstract(conv'[m].status) = "queued"
    BY <1>1 DEF Arrives, RowMoves, Abstract
  <2>2. conv'[m].retry = conv[m].retry + 0
    BY <1>1 DEF Arrives, RowCounts
  <2>3. St[m] = "absent"
    BY <2>1 DEF St
  <2> QED BY <2>1, <2>2, <2>3, <1>b, <1>s, <1>f
<1>2. ASSUME NEW d \in Dispatchers, Ref(d) = <<"conv", m>>,
             Claimed(d, m) \/ Released(d, m) \/ Settled(d, m) \/ Failed(d, m)
      PROVE  \/ St' = St /\ Fails' = Fails
             \/ /\ St[m] = "queued" /\ Shown[m] > 0 /\ St' = [St EXCEPT ![m] = "delivered"]
                /\ Fails' = Fails
             \/ /\ St[m] = "queued" /\ Fails' = [Fails EXCEPT ![m] = @ + 1]
                /\ \/ St' = St
                   \/ St' = [St EXCEPT ![m] = "failed"] /\ Fails'[m] >= MAX_RETRIES
  <2>1. CASE Claimed(d, m) \/ Released(d, m)
    <3>1. Abstract(conv[m].status) = Abstract(conv'[m].status)
      BY <2>1 DEF Claimed, Released, RowMoves, Abstract
    <3>2. conv'[m].retry = conv[m].retry + 0
      BY <2>1 DEF Claimed, Released, RowCounts
    <3> QED BY <3>1, <3>2, <1>k, <1>f
  <2>2. CASE Settled(d, m)
    <3>1. Abstract(conv[m].status) = "queued" /\ Abstract(conv'[m].status) = "delivered"
      BY <2>2 DEF Settled, RowMoves, Abstract
    <3>2. conv'[m].retry = conv[m].retry + 0
      BY <2>2 DEF Settled, RowCounts
    <3>3. Shown[m] > 0 /\ St[m] = "queued"
      BY <1>2, <2>2, <3>1 DEF Settled, OutcomeInv, Arrived, Ref, Shown, St
    <3> QED BY <3>1, <3>2, <3>3, <1>s, <1>f
  <2>3. CASE Failed(d, m)
    <3>1. St[m] = "queued"
      BY <2>3 DEF Failed, RowMoves, St, Abstract
    <3>2. CASE RowMoves(m, "running", "pending") /\ RowCounts(m, 0, 1)
      <4>1. Abstract(conv[m].status) = Abstract(conv'[m].status)
        BY <3>2 DEF RowMoves, Abstract
      <4>2. conv'[m].retry = conv[m].retry + 0
        BY <3>2 DEF RowCounts
      <4> QED BY <4>1, <4>2, <1>k, <1>f
    <3>3. CASE RowMoves(m, "running", "pending") /\ RowCounts(m, 1, 0)
      <4>1. Abstract(conv[m].status) = Abstract(conv'[m].status)
        BY <3>3 DEF RowMoves, Abstract
      <4>2. conv'[m].retry = conv[m].retry + 1
        BY <3>3 DEF RowCounts
      <4> QED BY <4>1, <4>2, <3>1, <1>k, <1>f
    <3>4. CASE RowMoves(m, "running", "failed") /\ RowCounts(m, 1, 0) /\ GivesUp(item[d].retry + 1)
      <4>1. Abstract(conv'[m].status) = "failed"
        BY <3>4 DEF RowMoves, Abstract
      <4>2. conv'[m].retry = conv[m].retry + 1
        BY <3>4 DEF RowCounts
      <4>3. item[d].retry <= conv[m].retry
        BY <1>2, <2>3 DEF Failed, Lets, OutcomeInv, RetryRead, Ref
      <4>4. item[d].retry \in Nat
        BY <1>t DEF TypeOK, Item, NoItem
      <4>5. conv'[m].retry >= MAX_RETRIES
        BY <3>4, <4>2, <4>3, <4>4, <1>n, RetriesAssumption DEF GivesUp
      <4> QED BY <4>1, <4>2, <4>5, <3>1, <1>s, <1>f
    <3> QED BY <2>3, <3>2, <3>3, <3>4 DEF Failed
  <2> QED BY <1>2, <2>1, <2>2, <2>3
<1> QED BY <1>1, <1>2, <1>b DEF RowChanges

LEMMA InboxNextRefines ==
  ExclusiveInv /\ OutcomeInv /\ TypeOK' /\ [Next]_vars => [Inbox!InboxNext]_(Inbox!inboxVars)
<1> SUFFICES ASSUME ExclusiveInv, OutcomeInv, TypeOK', [Next]_vars
             PROVE  [Inbox!InboxNext]_(Inbox!inboxVars)
  OBVIOUS
<1>t. TypeOK /\ Unseen
  BY DEF ExclusiveInv, OutcomeInv
<1>v. St' = St /\ Shown' = Shown /\ Fails' = Fails => [Inbox!InboxNext]_(Inbox!inboxVars)
  BY DEF Inbox!inboxVars, St, Shown, Fails, Abstract
<1>1. ASSUME NEW m \in ConvIds, RowChanges(m) PROVE [Inbox!InboxNext]_(Inbox!inboxVars)
  <2>1. CASE St[m] = "absent" /\ St' = [St EXCEPT ![m] = "queued"] /\ Shown' = Shown /\ Fails' = Fails
    <3>1. Inbox!Accept(m)
      BY <2>1 DEF Inbox!Accept, St, Shown, Fails, Abstract
    <3> QED BY <3>1 DEF Inbox!InboxNext
  <2>2. CASE /\ St[m] = "queued" /\ Shown[m] > 0 /\ St' = [St EXCEPT ![m] = "delivered"]
             /\ Shown' = Shown /\ Fails' = Fails
    <3>1. Inbox!Deliver(m)
      BY <2>2 DEF Inbox!Deliver, St, Shown, Fails, Abstract
    <3> QED BY <3>1 DEF Inbox!InboxNext
  <2>3. CASE /\ St[m] = "queued" /\ Shown' = Shown /\ Fails' = [Fails EXCEPT ![m] = @ + 1]
             /\ \/ St' = St
                \/ St' = [St EXCEPT ![m] = "failed"] /\ Fails'[m] >= MAX_RETRIES
    <3>1. Inbox!Fail(m)
      BY <2>3 DEF Inbox!Fail, St, Shown, Fails, Abstract
    <3> QED BY <3>1 DEF Inbox!InboxNext
  <2> QED BY <1>1, <2>1, <2>2, <2>3, <1>v, RowRefines
<1>2. CASE \A m \in ConvIds : conv'[m] = conv[m]
  <2>1. St' = St /\ Fails' = Fails
    BY <1>2 DEF St, Fails
  <2>2. CASE seen' = seen
    BY <2>1, <2>2, <1>v DEF Shown
  <2>3. ASSUME NEW d \in Dispatchers, Enters(d) PROVE [Inbox!InboxNext]_(Inbox!inboxVars)
    <3> PICK S \in SUBSET ConvIds : S = {m \in ConvIds : <<"conv", m>> \in box}
      OBVIOUS
    <3>1. \A m \in ConvIds : <<"conv", m>> \in Refs
      BY DEF Refs
    <3>2. \A m \in ConvIds : seen'[<<"conv", m>>]
                             = IF m \in S THEN seen[<<"conv", m>>] + 1 ELSE seen[<<"conv", m>>]
      BY <2>3, <3>1 DEF Enters
    <3>3. \A m \in ConvIds : seen[<<"conv", m>>] \in Nat
      BY <3>1, <1>t DEF TypeOK
    <3>4. Shown' = [m \in ConvIds |-> Shown[m] + (IF m \in S THEN 1 ELSE 0)]
      BY <3>2, <3>3 DEF Shown
    <3>5. \A m \in S : St[m] \in {"queued", "failed"}
      <4> SUFFICES ASSUME NEW m \in S PROVE St[m] \in {"queued", "failed"}
        OBVIOUS
      <4>1. conv[m].status # "delivered"
        BY DEF OutcomeInv, DeliveredReachedAgent, ConvWith
      <4>2. conv[m].status # "absent"
        <5>1. Count(m) = seen[<<"conv", m>>] + 1
          BY DEF Count
        <5>2. Count(m) # 0
          BY <5>1, <3>3
        <5> QED BY <5>2, <1>t DEF Unseen
      <4>3. conv[m].status \in ConvStatus
        BY <1>t DEF TypeOK, QueuesTypeOK, ConvRow
      <4> QED BY <4>1, <4>2, <4>3 DEF St, Abstract, ConvStatus
    <3>6. Inbox!Show(S)
      BY <2>1, <3>4, <3>5 DEF Inbox!Show, St, Shown, Fails, Abstract
    <3> QED BY <3>6 DEF Inbox!InboxNext
  <2> QED BY <2>2, <2>3, <1>t, BoxStep DEF Wiped, Pastes
<1> QED BY <1>1, <1>2, <1>t, RowStep

\* The queue, its dispatchers and everybody around them keep the promise that
\* DurableInbox makes about a message: queued until it is delivered or given up,
\* delivered only when shown, given up only at the limit, and neither revised.
THEOREM RefinesInbox == Spec => ImplementsInbox
<1>1. Init => Inbox!InboxInit
  BY InboxInitRefines
<1>2. ExclusiveInv /\ OutcomeInv /\ TypeOK' /\ [Next]_vars => [Inbox!InboxNext]_(Inbox!inboxVars)
  BY InboxNextRefines
<1> QED BY <1>1, <1>2, OutcomeAlways, TypeCorrect, PTL DEF Spec, ImplementsInbox, Inbox!InboxSpec

=============================================================================
