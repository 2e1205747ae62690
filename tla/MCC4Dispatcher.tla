--------------------------- MODULE MCC4Dispatcher ---------------------------
(***************************************************************************)
(* Instances of C4Dispatcher for TLC.                                      *)
(***************************************************************************)
EXTENDS C4Dispatcher

Ready == [state |-> "idle", healthOk |-> TRUE, fresh |-> TRUE, settled |-> TRUE]
Sick == [state |-> "idle", healthOk |-> FALSE, fresh |-> TRUE, settled |-> TRUE]

\* A status file that is right, one that is stale, and an agent that is ill.
UpStaleOrSick == {Ready, Stale, Sick}
ReadyOrSick == {Ready, Sick}
OnlyReady == {Ready}

AllContents == {"heartbeat", "recovery", "keystroke", "/exit", "rotate"}

Normal == [priority |-> 3, requireIdle |-> FALSE]
Urgent == [priority |-> 1, requireIdle |-> FALSE]
Blocking == [priority |-> 3, requireIdle |-> TRUE]
PlainMessages == {Normal}
MixedMessages == {Urgent, Blocking}

\* The controls the repository enqueues: claude-probe.js, hook-auth-prompt.js,
\* upgrade-claude and context-monitor.js.
Heartbeat == [content |-> "heartbeat", priority |-> 0, requireIdle |-> FALSE,
              bypass |-> TRUE, ackSuffix |-> TRUE, deadline |-> "ahead", available |-> TRUE]
Recovery == [Heartbeat EXCEPT !.content = "recovery"]
Key == [content |-> "keystroke", priority |-> 0, requireIdle |-> FALSE,
        bypass |-> TRUE, ackSuffix |-> FALSE, deadline |-> "none", available |-> FALSE]
Exit == [content |-> "/exit", priority |-> 1, requireIdle |-> TRUE,
         bypass |-> FALSE, ackSuffix |-> FALSE, deadline |-> "none", available |-> TRUE]
Rotate == [content |-> "rotate", priority |-> 1, requireIdle |-> FALSE,
           bypass |-> TRUE, ackSuffix |-> FALSE, deadline |-> "none", available |-> TRUE]

NoControls == {}
ProbesOrKey == {Heartbeat, Recovery, Key}
Maintenance == {Exit, Rotate}
Heartbeats == {Heartbeat}
=============================================================================
