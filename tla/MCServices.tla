------------------------------ MODULE MCServices ------------------------------
(***************************************************************************)
(* An instance of the parts that run beside the agent: tool events,        *)
(* message intake and checkpoints, scheduled tasks, the web console.  Each *)
(* behaviour exercises one of the parts, which share no state, and leaves  *)
(* the others where they began: the states of the run are the sum of the   *)
(* parts' states, not their product.                                       *)
(***************************************************************************)
EXTENDS ToolEvents, C4Intake, MCScheduler, WebConsole

VARIABLE part  \* the part that this behaviour exercises

\* "page" is the console with one send, "sends" with two and nothing else going on.
MCInit ==
  /\ part \in {"tools", "notices", "checkpoints", "schedule", "page", "sends"}
  /\ ToolInit /\ IntakeInit /\ Init /\ ConsoleInit
  /\ messages # <<>> => part = "page" /\ messages[1].text = "x" /\ ~messages[1].files
  /\ part # "page" => agentState = "idle"

\* A line that comes after its window is followed for a call on its own.
OnlyOneIsLate == overran => Cardinality({t \in Tools: reported[t] # "no"}) <= 1

\* With a second call, an end of turn and a restart come in different behaviours.
OneResync == stops = 0 \/ restarts = 0 \/ Cardinality({t \in Tools: reported[t] # "no"}) <= 1

\* A command that races the daemon and a death of the daemon come in different
\* behaviours.
OneMishap == crashes = 0 \/ \A t \in Tasks: raced[t] = 0

\* Intakes and memory syncs share the table, to which either only appends: what
\* a sync sees of an intake is a row more, as where the agent sends something.
TakenIn ==
  \/ part = "notices" /\ IntakeNext /\ UNCHANGED history
  \/ part = "checkpoints" /\ IntakeNext /\ UNCHANGED <<seconds, receiver, notices>>

\* Two sends and an outage go without attachments.
PlainInOutage == outages = 0 \/ \A n \in Sends: ~sends[n].files

\* The first text to be sent is x, whichever that is.
Shown ==
  /\ part \in {"page", "sends"} /\ ConsoleNext
  /\ sends'[1].text # "y"
  /\ part = "page" => sends'[2] = NoSend /\ ~sends'[1].files
  /\ part = "sends" => PlainInOutage' /\ agentState' = agentState /\ \A i \in DOMAIN messages': messages'[i].dir = "in"

MCNext ==
  /\ UNCHANGED part
  /\ \/ part = "tools" /\ ToolNext /\ OnlyOneIsLate' /\ OneResync' /\ UNCHANGED <<intakeVars, vars, consoleVars>>
     \/ TakenIn /\ UNCHANGED <<toolVars, vars, consoleVars>>
     \/ part = "schedule" /\ Next /\ OneMishap' /\ UNCHANGED <<toolVars, intakeVars, consoleVars>>
     \/ Shown /\ UNCHANGED <<toolVars, intakeVars, vars>>

MCSpec == MCInit /\ [][MCNext]_<<part, toolVars, intakeVars, vars, consoleVars>>
=============================================================================
