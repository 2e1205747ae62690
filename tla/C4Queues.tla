------------------------------ MODULE C4Queues ------------------------------
(***************************************************************************)
(* The two tables of the C4 communication bridge that carry work to the    *)
(* agent: conversations (inbound messages) and control_queue (heartbeats,  *)
(* keystrokes, slash commands and other instructions of the runtime).      *)
(* c4-db.js is the only module that writes them, and every process that    *)
(* uses them - c4-receive, c4-control, c4-dispatcher - goes through the    *)
(* functions modelled here.  Each operator below is one of those functions *)
(* and denotes the table it leaves behind; SQLite makes a statement, or a  *)
(* transaction, one step.                                                  *)
(*                                                                         *)
(* A clock in seconds is abstracted to what the queries compare: whether a *)
(* control's ack deadline has passed and whether its available_at is in    *)
(* the past.  Conversations keep the second of their timestamp, because    *)
(* two rows of the same second are not ordered by the query.               *)
(***************************************************************************)
EXTENDS Naturals, FiniteSets

CONSTANTS
  MaxConv,              \* bound: conversation rows ever inserted
  MaxCtl,               \* bound: control rows ever inserted
  ConvKinds,            \* the [priority, requireIdle] messages arrive with
  CtlKinds,             \* the options controls are enqueued with
  Contents,             \* raw_content of controls, up to equality and form
  MAX_RETRIES,          \* conversation attempts before 'failed'
  CONTROL_MAX_RETRIES   \* control attempts before 'failed'

ConvKind == [priority : Nat, requireIdle : BOOLEAN]
CtlKind == [content : Contents, priority : Nat, requireIdle : BOOLEAN,
            bypass : BOOLEAN, ackSuffix : BOOLEAN,
            deadline : {"none", "ahead"}, available : BOOLEAN]

ASSUME BoundsAssumption == MaxConv \in Nat /\ MaxCtl \in Nat
ASSUME KindsAssumption ==
  Contents # {} /\ ConvKinds \subseteq ConvKind /\ CtlKinds \subseteq CtlKind
ASSUME RetriesAssumption ==
  MAX_RETRIES \in Nat \ {0} /\ CONTROL_MAX_RETRIES \in Nat \ {0}

ConvIds == 1 .. MaxConv
CtlIds == 1 .. MaxCtl

ConvStatus == {"absent", "pending", "running", "delivered", "failed"}
ConvFinal == {"delivered", "failed"}
CtlFinal == {"done", "failed", "timeout", "superseded"}
CtlStatus == {"absent", "pending", "running", "deleted"} \cup CtlFinal

ConvRow == [status : ConvStatus, priority : Nat, requireIdle : BOOLEAN,
            retry : Nat, second : Nat]
CtlRow == [status : CtlStatus, content : Contents, priority : Nat,
           requireIdle : BOOLEAN, bypass : BOOLEAN, ackSuffix : BOOLEAN,
           deadline : {"none", "ahead", "passed"}, available : BOOLEAN,
           retry : Nat]

VARIABLES
  conv,   \* conversations: id -> row
  ctl     \* control_queue: id -> row

queueVars == <<conv, ctl>>

AnyContent == CHOOSE x \in Contents : TRUE
NoConv == [status |-> "absent", priority |-> 3, requireIdle |-> FALSE,
           retry |-> 0, second |-> 0]
NoCtl == [status |-> "absent", content |-> AnyContent, priority |-> 3,
          requireIdle |-> FALSE, bypass |-> FALSE, ackSuffix |-> FALSE,
          deadline |-> "none", available |-> TRUE, retry |-> 0]

QueuesInit ==
  /\ conv = [m \in ConvIds |-> NoConv]
  /\ ctl = [c \in CtlIds |-> NoCtl]

QueuesTypeOK ==
  /\ conv \in [ConvIds -> ConvRow]
  /\ ctl \in [CtlIds -> CtlRow]

WithStatus(row, s) == [row EXCEPT !.status = s]
\* Mutant: a failed attempt that is not counted.
NoRetryCounted(row, n) == row
WithRetry(row, n) == [row EXCEPT !.retry = n]

-----------------------------------------------------------------------------
(* conversations *)

ConvWith(s) == {m \in ConvIds : conv[m].status = s}

\* AUTOINCREMENT: the smallest id not used yet.
FreshConv == {m \in ConvIds : /\ conv[m].status = "absent"
                              /\ \A k \in ConvIds : k < m => conv[k].status # "absent"}
\* CURRENT_TIMESTAMP of a new row: the second of the newest row, or a later one.
Seconds == {0} \cup {conv[m].second : m \in ConvIds}
Now == {s \in Seconds \cup {t + 1 : t \in Seconds} : \A t \in Seconds : t <= s}

\* A new inbound row.
InsertConversation(m, kind, second) ==
  [conv EXCEPT ![m] = [status |-> "pending", priority |-> kind.priority,
                       requireIdle |-> kind.requireIdle, retry |-> 0,
                       second |-> second]]

\* The rows the query may return: best priority, then oldest second.
GetNextPending ==
  {m \in ConvWith("pending") : \A k \in ConvWith("pending") :
     \/ conv[m].priority < conv[k].priority
     \/ conv[m].priority = conv[k].priority /\ conv[m].second <= conv[k].second}

SetConvStatus(m, s) == [conv EXCEPT ![m].status = s]

\* UPDATE ... WHERE status = 'pending'; the caller learns whether it changed a row.
\* Mutant: a claim that does not test the status it saw in the SELECT.
ClaimsAnyRow(m) == TRUE
ConvClaimable(m) == conv[m].status = "pending"
ClaimConversation(m) == SetConvStatus(m, "running")

\* UPDATE ... WHERE status = 'running'.
\* Mutant: the row is released without putting it back.
NeverRequeued(m) == conv
RequeueConversation(m) ==
  IF conv[m].status = "running" THEN SetConvStatus(m, "pending") ELSE conv

\* No status in the WHERE clause of these two.
MarkDelivered(m) == SetConvStatus(m, "delivered")
MarkFailed(m) == SetConvStatus(m, "failed")

-----------------------------------------------------------------------------
(* control_queue *)

CtlWith(s) == {c \in CtlIds : ctl[c].status = s}

FreshCtl == {c \in CtlIds : /\ ctl[c].status = "absent"
                            /\ \A k \in CtlIds : k < c => ctl[k].status # "absent"}

\* Mutant: the UPDATE lacks its "id != ?".
SupersedesItself(c, kind) ==
  [k \in CtlIds |->
     IF k = c
     THEN [status |-> "superseded", content |-> kind.content,
           priority |-> kind.priority, requireIdle |-> kind.requireIdle,
           bypass |-> kind.bypass, ackSuffix |-> kind.ackSuffix,
           deadline |-> kind.deadline, available |-> kind.available, retry |-> 0]
     ELSE IF ctl[k].status = "pending" /\ ctl[k].content = kind.content
          THEN [ctl[k] EXCEPT !.status = "superseded"]
          ELSE ctl[k]]

\* One transaction: the new row, and every other pending row with the same
\* raw_content superseded by it.
InsertControl(c, kind) ==
  [k \in CtlIds |->
     IF k = c
     THEN [status |-> "pending", content |-> kind.content,
           priority |-> kind.priority, requireIdle |-> kind.requireIdle,
           bypass |-> kind.bypass, ackSuffix |-> kind.ackSuffix,
           deadline |-> kind.deadline, available |-> kind.available, retry |-> 0]
     ELSE IF ctl[k].status = "pending" /\ ctl[k].content = kind.content
          THEN [ctl[k] EXCEPT !.status = "superseded"]
          ELSE ctl[k]]

EligibleCtl == {c \in CtlWith("pending") : ctl[c].available}

\* At most one row: priority, then id.
GetNextPendingControl ==
  {c \in EligibleCtl : \A k \in EligibleCtl :
     \/ ctl[c].priority < ctl[k].priority
     \/ ctl[c].priority = ctl[k].priority /\ c <= k}

SetCtlStatus(c, s) == [ctl EXCEPT ![c].status = s]

CtlClaimable(c) == ctl[c].status = "pending"
ClaimControl(c) == SetCtlStatus(c, "running")

RequeueControl(c) ==
  IF ctl[c].status = "running" THEN SetCtlStatus(c, "pending") ELSE ctl

CtlOpen(c) == ctl[c].status \in {"pending", "running"}
Overdue(c) == CtlOpen(c) /\ ctl[c].deadline = "passed"

\* An ack after the deadline records the timeout; an ack of a final or a
\* deleted row changes nothing.
AckControl(c) ==
  IF Overdue(c) THEN SetCtlStatus(c, "timeout")
  ELSE IF CtlOpen(c) THEN SetCtlStatus(c, "done")
  ELSE ctl

\* Mutant: a status the schema does not know.
RetryWritesError(c) ==
  IF ctl[c].status = "deleted" THEN ctl ELSE SetCtlStatus(c, "error")

\* The row is read for its retry count; its status is not consulted.
RetryOrFailControl(c) ==
  LET next == ctl[c].retry + 1 IN
    IF ctl[c].status = "deleted" THEN ctl
    ELSE [ctl EXCEPT ![c] =
            WithStatus(WithRetry(ctl[c], next),
                       IF next >= CONTROL_MAX_RETRIES THEN "failed" ELSE "pending")]

\* Mutant: only controls that were not delivered yet time out.
ExpiresPendingOnly ==
  [c \in CtlIds |-> IF Overdue(c) /\ ctl[c].status = "pending"
                    THEN [ctl[c] EXCEPT !.status = "timeout"] ELSE ctl[c]]

ExpireTimedOutControls ==
  [c \in CtlIds |-> IF Overdue(c) THEN [ctl[c] EXCEPT !.status = "timeout"]
                                  ELSE ctl[c]]

\* Drops the final rows in old (those updated before the cutoff) from t.
CleanupControlQueue(t, old) ==
  [c \in CtlIds |-> IF c \in old /\ t[c].status \in CtlFinal
                    THEN [t[c] EXCEPT !.status = "deleted"] ELSE t[c]]
=============================================================================
