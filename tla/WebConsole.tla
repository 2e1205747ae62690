----------------------------- MODULE WebConsole -----------------------------
(***************************************************************************)
(* The web console (skills/web-console): a page in a browser that shows    *)
(* the conversation with the agent and sends what its user writes, and the *)
(* server between the page and the tables of the bridge.                   *)
(*                                                                         *)
(* The page asks once for the history, over HTTP, and is told everything   *)
(* else over a WebSocket; after too many failed attempts to connect it     *)
(* polls instead.  What its user has sent is shown at once and replaced    *)
(* when the stored row arrives, which the page finds by its text.          *)
(*                                                                         *)
(* One view of the page is followed; a reload is a new one.  Its messages   *)
(* are numbered as they are stored.                                        *)
(***************************************************************************)
EXTENDS Naturals, Sequences, FiniteSets, Lists

CONSTANTS
  Sends,          \* what the user of the page may send, in this order: 1, 2 ...
  Texts,
  States,         \* of the agent, in the status file
  MaxReconnects,  \* attempts to connect before the page polls
  MaxMessages,    \* bound on the stored messages
  MaxOutages,     \* bound: dropped connections, failed attempts, deaths of the server
  MaxPipe         \* bound: frames under way as the agent changes its state

ASSUME ConsoleAssumption ==
  /\ IsFiniteSet(Sends) /\ Sends = 1 .. Cardinality(Sends) /\ MaxReconnects \in Nat \ {0}
  /\ "none" \notin States /\ "none" \notin Texts

VARIABLES
  messages,    \* of the console's channel in the table conversations
  agentState,  \* in agent-status.json
  console,     \* the server: is it up, lastMessageId, lastStatus
  page,        \* connection and attempts; the history; lastMessageId, messages and state shown
  temps,       \* what the page shows of its own sends until their messages arrive
  pipe,        \* frames from the server to the page
  sends,       \* each send on its way through server and c4-receive
  missed,      \* messages that were announced while the page could not hear of them
  odd,         \* circumstances the properties except
  outages

consoleVars == <<messages, agentState, console, page, temps, pipe, sends, missed, odd, outages>>

NoSend == [at |-> "no", via |-> "none", text |-> "none", files |-> FALSE]
Message(dir, text, files, by) == [dir |-> dir, text |-> text, files |-> files, by |-> by]
Ids == DOMAIN messages

\* Before the page is opened somebody may have written.
ConsoleInit ==
  /\ \E text \in Texts, files \in BOOLEAN:
       messages \in {<<>>, <<Message("in", text, files, 0)>>}
  /\ agentState \in States
  /\ console = [up |-> TRUE, last |-> Len(messages), status |-> agentState]
  /\ page = [link |-> "closed", tries |-> 0, load |-> "asked", to |-> 0, last |-> 0,
             shown |-> {}, status |-> "none"]
  /\ temps = <<>> /\ pipe = <<>> /\ sends = [n \in Sends |-> NoSend]
  /\ missed = {} /\ odd = [crossed |-> FALSE, again |-> FALSE, state |-> FALSE] /\ outages = 0

Outage == outages < MaxOutages /\ outages' = outages + 1

-----------------------------------------------------------------------------
(* What the page shows *)

\* The first of some temporary messages goes, if there is any.
WithoutFirst(shown, found) ==
  IF found = {} THEN shown ELSE Without(shown, CHOOSE i \in found: \A j \in found: i <= j)

\* addMessage, for one that is not there yet: what the user wrote takes the place of
\* the temporary message with its text, and with attachments removes another that
\* is being sent with some.
ReplaceTemp(shown, row) ==
  IF row.dir = "out" THEN shown
  ELSE LET rest == WithoutFirst(shown, {i \in DOMAIN shown: shown[i].text = row.text})
       IN IF row.files
          THEN WithoutFirst(rest, {i \in DOMAIN rest: rest[i].files /\ rest[i].at = "sending"})
          ELSE rest

\* One row after the other, by id.
Added(ids) ==
  LET after[r \in 0 .. Len(messages)] ==
        IF r = 0 THEN temps
        ELSE IF r \in ids THEN ReplaceTemp(after[r - 1], messages[r])
        ELSE after[r - 1]
  IN after[Len(messages)]

\* Mutant: the message goes although the row is there already.
ReplacesAgain(ids) == Added(ids)

AddMessages(ids) == Added(ids \ page.shown)

Mark(n, at) == [i \in DOMAIN temps |-> IF temps[i].n = n THEN [temps[i] EXCEPT !.at = at] ELSE temps[i]]

-----------------------------------------------------------------------------
(* The history *)

\* Of messages the page cannot hear of, those it will not ask for either.
Misses(ids) ==
  missed \cup {r \in ids \ page.shown: page.link = "polling" => r <= page.last}

\* /api/conversations/recent
ServeHistory ==
  /\ page.load = "asked" /\ console.up
  /\ page' = [page EXCEPT !.load = "read", !.to = Len(messages)]
  /\ UNCHANGED <<messages, agentState, console, temps, pipe, sends, missed, odd, outages>>

\* loadConversations, with an answer; the last row is the one of the history even
\* if a later one has come over the socket.
LoadConversations ==
  /\ page.load = "read"
  /\ temps' = AddMessages(1 .. page.to)
  /\ page' = [page EXCEPT !.load = "done", !.shown = @ \cup 1 .. page.to,
                          !.last = IF page.to = 0 THEN @ ELSE page.to]
  /\ UNCHANGED <<messages, agentState, console, pipe, sends, missed, odd, outages>>

InPipe == UNION {pipe[i].ids: i \in DOMAIN pipe}

\* The page does not ask again.
HistoryFails ==
  /\ page.load = "asked" /\ (console.up => Outage) /\ (~console.up => UNCHANGED outages)
  /\ page' = [page EXCEPT !.load = "failed"]
  /\ missed' = Misses(1 .. console.last \ InPipe)
  /\ UNCHANGED <<messages, agentState, console, temps, pipe, sends, odd>>

-----------------------------------------------------------------------------
(* The connection *)

Frame(kind, ids, n, state) == [kind |-> kind, ids |-> ids, n |-> n, state |-> state]

\* The state is sent at once, as it is in the file.
Connects ==
  /\ page.link = "closed" /\ console.up
  /\ page' = [page EXCEPT !.link = "open", !.tries = 0]
  /\ pipe' = <<Frame("status", {}, 0, agentState)>>
  /\ odd' = [odd EXCEPT !.state = agentState # console.status]
  /\ UNCHANGED <<messages, agentState, console, temps, sends, missed, outages>>

\* scheduleReconnect, after updateConnectionStatus
Reconnecting ==
  IF page.tries < MaxReconnects
  THEN [page EXCEPT !.link = "closed", !.tries = @ + 1, !.status = "none"]
  ELSE [page EXCEPT !.link = "polling", !.status = "none"]

ConnectFails ==
  /\ page.link = "closed" /\ (console.up => Outage) /\ (~console.up => UNCHANGED outages)
  /\ page' = Reconnecting
  /\ missed' = IF page'.link = "polling" THEN {r \in missed: r <= page.last} ELSE missed
  /\ UNCHANGED <<messages, agentState, console, temps, pipe, sends, odd>>

\* What a lost connection takes along: frames, sends that have not arrived, answers.
Unheard == IF page.load = "asked" THEN {} ELSE InPipe \ 1 .. page.to
CutOff(send) ==
  IF send.via # "ws" THEN send
  ELSE [send EXCEPT !.via = "none", !.at = IF @ = "wire" THEN "done" ELSE @]

LinkDrops ==
  /\ page.link = "open" /\ Outage
  /\ page' = Reconnecting
  /\ pipe' = <<>> /\ missed' = Misses(Unheard)
  /\ sends' = [n \in Sends |-> CutOff(sends[n])]
  /\ UNCHANGED <<messages, agentState, console, temps, odd>>

\* handleWebSocketMessage
Receives ==
  /\ page.link = "open" /\ pipe # <<>>
  /\ LET frame == Head(pipe) IN
       \/ /\ frame.kind = "status" /\ page' = [page EXCEPT !.status = frame.state]
          /\ UNCHANGED temps
       \/ /\ frame.kind = "messages" /\ temps' = AddMessages(frame.ids)
          /\ page' = [page EXCEPT !.shown = @ \cup frame.ids,
                                  !.last = CHOOSE r \in frame.ids: \A o \in frame.ids: o <= r]
       \/ /\ frame.kind = "failed" /\ temps' = Mark(frame.n, "failed")
          /\ UNCHANGED page
  /\ pipe' = Tail(pipe)
  /\ UNCHANGED <<messages, agentState, console, sends, missed, odd, outages>>

\* pollMessages and updateStatusViaHttp
PollMessages ==
  /\ page.link = "polling" /\ console.up /\ page.last < Len(messages)
  /\ temps' = AddMessages(page.last + 1 .. Len(messages))
  /\ page' = [page EXCEPT !.shown = @ \cup (page.last + 1 .. Len(messages)), !.last = Len(messages)]
  /\ UNCHANGED <<messages, agentState, console, pipe, sends, missed, odd, outages>>

UpdateStatusViaHttp ==
  /\ page.link = "polling"
  /\ page' = [page EXCEPT !.status = IF console.up THEN agentState ELSE "none"]
  /\ UNCHANGED <<messages, agentState, console, temps, pipe, sends, missed, odd, outages>>

-----------------------------------------------------------------------------
(* Sending *)

\* Sends that may still come back as messages, and other messages to come.
Underway(n) ==
  \/ sends[n].at \in {"wire", "child"}
  \/ \E r \in Ids \ page.shown: messages[r].by = n
Unshown == {r \in Ids \ page.shown: messages[r].dir = "in" /\ messages[r].by = 0}

Earlier(n) == 1 .. n - 1

\* handleSubmit: with another with attachments on its way, or with one of the same
\* text of which either has some, the page can take one for the other.
HandleSubmit(n, text, files) ==
  /\ sends[n].at = "no" /\ \A m \in Earlier(n): sends[m].at # "no"
  /\ temps' = Append(temps, [n |-> n, text |-> text, files |-> files, at |-> "sending"])
  /\ sends' = [sends EXCEPT ![n] = [at |-> "wire", text |-> text, files |-> files,
                                    via |-> IF page.link = "open" THEN "ws" ELSE "http"]]
  /\ odd' = [odd EXCEPT
       !.crossed = \/ @
                   \/ files /\ \E m \in Earlier(n): sends[m].files /\ Underway(m)
                   \/ files /\ \E i \in DOMAIN temps: temps[i].files /\ temps[i].at = "sending"
                   \/ \E m \in Earlier(n): sends[m].text = text /\ (files \/ sends[m].files)
                   \/ \E r \in Unshown: messages[r].text = text \/ (files /\ messages[r].files),
       !.again = @ \/ \E m \in Earlier(n): sends[m].text = text]
  /\ UNCHANGED <<messages, agentState, console, page, pipe, missed, outages>>

\* The answer to a send: nothing is heard of it where the connection has gone, and
\* over the socket nothing follows from a success.
Answer(n, ok) ==
  LET via == sends[n].via IN
  /\ sends' = [sends EXCEPT ![n].at = "done"]
  /\ temps' = IF via # "http" THEN temps ELSE Mark(n, IF ok THEN "sent" ELSE "failed")
  /\ pipe' = IF via = "ws" /\ ~ok THEN Append(pipe, Frame("failed", {}, n, "none")) ELSE pipe

\* sendConsoleMessage: attachments that have expired refuse a send.
SendConsoleMessage(n) ==
  /\ sends[n].at = "wire" /\ console.up
  /\ sends' = [sends EXCEPT ![n].at = "child"]
  /\ UNCHANGED <<messages, agentState, console, page, temps, pipe, missed, odd, outages>>

Refuse(n) ==
  /\ sends[n].at = "wire" /\ (sends[n].files \/ ~console.up) /\ Answer(n, FALSE)
  /\ UNCHANGED <<messages, agentState, console, page, missed, odd, outages>>

\* c4-receive stores the row; it can fail before and after.
ChildStores(n) ==
  /\ sends[n].at = "child" /\ Len(messages) < MaxMessages
  /\ messages' = Append(messages, Message("in", sends[n].text, sends[n].files, n))
  /\ sends' = [sends EXCEPT ![n].at = "stored"]
  /\ UNCHANGED <<agentState, console, page, temps, pipe, missed, odd, outages>>

ChildEnds(n, ok) ==
  /\ sends[n].at \in IF ok THEN {"stored"} ELSE {"stored", "child"}
  /\ Answer(n, ok)
  /\ UNCHANGED <<messages, agentState, console, page, missed, odd, outages>>

-----------------------------------------------------------------------------
(* The server *)

\* Mutant: the first of the new messages is taken for the last one announced.
AfterNext == console.last + 2 .. Len(messages)

\* getNewMessages
NewMessages == console.last + 1 .. Len(messages)

\* Who is connected hears of them, or reads them in a history to come.
Announced(ids) ==
  IF page.link = "open" \/ page.load = "asked" THEN missed ELSE Misses(ids \ 1 .. page.to)

CheckUpdates ==
  /\ console.up /\ (agentState # console.status \/ console.last < Len(messages))
  /\ console' = [console EXCEPT !.status = agentState, !.last = Len(messages)]
  /\ pipe' =
       IF page.link # "open" THEN pipe
       ELSE pipe \o (IF agentState = console.status THEN <<>>
                     ELSE <<Frame("status", {}, 0, agentState)>>)
                 \o (IF NewMessages = {} THEN <<>>
                     ELSE <<Frame("messages", NewMessages, 0, "none")>>)
  /\ missed' = Announced(console.last + 1 .. Len(messages))
  /\ odd' = IF agentState = console.status THEN odd ELSE [odd EXCEPT !.state = FALSE]
  /\ UNCHANGED <<messages, agentState, page, temps, sends, outages>>

\* Requests fail with the server; what it started for them may go on.
ServerDies ==
  /\ console.up /\ Outage
  /\ console' = [console EXCEPT !.up = FALSE]
  /\ IF page.link # "open" THEN UNCHANGED <<page, pipe, missed>>
     ELSE page' = Reconnecting /\ pipe' = <<>> /\ missed' = Misses(Unheard)
  /\ sends' = [n \in Sends |->
       IF sends[n].via = "http" /\ sends[n].at # "done"
       THEN [sends[n] EXCEPT !.via = "none", !.at = IF @ = "wire" THEN "done" ELSE @]
       ELSE CutOff(sends[n])]
  /\ temps' = [i \in DOMAIN temps |->
       LET send == sends[temps[i].n]
       IN IF send.via = "http" /\ send.at # "done" THEN [temps[i] EXCEPT !.at = "failed"] ELSE temps[i]]
  /\ UNCHANGED <<messages, agentState, odd>>

\* Messages that came while it was down are never announced.
ServerStarts ==
  /\ ~console.up
  /\ console' = [up |-> TRUE, last |-> Len(messages), status |-> "none"]
  /\ missed' = Announced(NewMessages)
  /\ UNCHANGED <<messages, agentState, page, temps, pipe, sends, odd, outages>>

-----------------------------------------------------------------------------
(* The agent *)

\* c4-send, for which send.js has nothing to do
AgentReplies ==
  /\ Len(messages) < MaxMessages
  /\ messages' = Append(messages, Message("out", "none", FALSE, 0))
  /\ UNCHANGED <<agentState, console, page, temps, pipe, sends, missed, odd, outages>>

StateChanges ==
  /\ Len(pipe) < MaxPipe
  /\ agentState' \in States \ {agentState}
  /\ UNCHANGED <<messages, console, page, temps, pipe, sends, missed, odd, outages>>

ConsoleNext ==
  \/ ServeHistory \/ LoadConversations \/ HistoryFails
  \/ Connects \/ ConnectFails \/ LinkDrops \/ Receives
  \/ PollMessages \/ UpdateStatusViaHttp
  \/ \E n \in Sends: \/ \E text \in Texts, files \in BOOLEAN: HandleSubmit(n, text, files)
                     \/ SendConsoleMessage(n) \/ Refuse(n) \/ ChildStores(n)
                     \/ \E ok \in BOOLEAN: ChildEnds(n, ok)
  \/ CheckUpdates \/ ServerDies \/ ServerStarts
  \/ AgentReplies \/ StateChanges

ConsoleSpec == ConsoleInit /\ [][ConsoleNext]_consoleVars

-----------------------------------------------------------------------------
(* Properties *)

\* A message that was announced, or polled past, is on the page or on its way there,
\* unless it was announced while the page had no connection.
NothingMissing ==
  LET due == 1 .. (IF page.link = "polling" THEN page.last ELSE console.last)
      loading == CASE page.load = "asked" -> due [] page.load = "read" -> 1 .. page.to [] OTHER -> {}
  IN due \subseteq page.shown \cup missed \cup InPipe \cup loading

\* Whatever order stored messages, answers and the history arrive in, what the user
\* sent is on the page once: as it was sent or as it was stored.
SubmissionsKept ==
  ~odd.crossed =>
    \A text \in Texts:
      Cardinality({n \in Sends: sends[n].text = text}) =
        Cardinality({i \in DOMAIN temps: temps[i].text = text})
        + Cardinality({r \in page.shown: messages[r].by # 0 /\ messages[r].text = text})

\* Without an outage nothing stays on the page as being sent.
NothingHangs ==
  /\ outages = 0 /\ ~odd.crossed /\ ~odd.again
  /\ \A n \in Sends: sends[n].at \in {"no", "done"}
  /\ console.last = Len(messages) /\ pipe = <<>> /\ page.load \in {"done", "failed"}
  => \A i \in DOMAIN temps: temps[i].at # "sending"

\* The state shown is the one the server knows, unless it was another one when the
\* page connected.
StateShown ==
  /\ page.link = "open" /\ ~odd.state
  /\ \A i \in DOMAIN pipe: pipe[i].kind # "status"
  => page.status = console.status

\* The page neither loses nor repeats what was written, and says how things are.
PageIsTrue == NothingMissing /\ SubmissionsKept /\ NothingHangs /\ StateShown
=============================================================================
