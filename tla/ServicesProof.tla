---------------------------- MODULE ServicesProof ----------------------------
(***************************************************************************)
(* Proofs about the parts that run beside the agent: the tool events, the  *)
(* message intake and the scheduled tasks, for any number of calls,        *)
(* intakes, messages and tasks and any bounds.                             *)
(***************************************************************************)
EXTENDS ToolEvents, C4Intake, Scheduler, ListsProof, FiniteSetTheorems, SequenceTheorems, TLAPS

-----------------------------------------------------------------------------
(***************************************************************************)
(* ToolEvents.  The monitor must not see a call run that has ended, though *)
(* an end may be written before its start, come in another tick, name no   *)
(* call, or be that of the whole turn.                                     *)
(*                                                                         *)
(* Where all lines come within their window they are applied in the order  *)
(* of their stamps, and it is enough to count: there are no more calls     *)
(* running than calls whose start has been applied and whose end has not,  *)
(* as each end takes one call off, whichever it is, and an end of turn all *)
(* that are older.                                                         *)
(*                                                                         *)
(* Where a line is late the order is lost, and a call on its own is        *)
(* followed: if it has ended and its start is still to come, its end is    *)
(* still to come too, or waits among the early completions or the hints.   *)
(* That it still waits when the start arrives is what COMPLETION_MATCH_-   *)
(* WINDOW_MS and PENDING_EVENT_TTL_MS are for.                             *)
(***************************************************************************)

CallLines == [kind : {"pre", "post"}, call : Tools, ts : Nat \ {0}]
Stops == [kind : {"stop"}, call : {NoCall}, ts : Nat \ {0}]
Hints == [kind : {"hint"}, call : {NoCall}, ts : Nat \ {0}]
HookLines == CallLines \cup Stops
Lines == HookLines \cup Hints
Calls == [call : Tools, ts : Nat \ {0}]

Lives ==
  [running : Seq(Calls), finished : SUBSET Tools, early : SUBSET Calls,
   hints : SUBSET (Nat \ {0}), cleared : Nat]

ToolTypeOK ==
  /\ clock \in Nat \ {0} /\ stops \in Nat /\ restarts \in Nat
  /\ reported \in [Tools -> {"no", "running", "done"}]
  /\ flying \subseteq HookLines /\ oldFlying \subseteq HookLines
  /\ log \subseteq HookLines /\ old \subseteq HookLines /\ held \subseteq Lines
  /\ IsFiniteSet(flying) /\ IsFiniteSet(log) /\ IsFiniteSet(old) /\ IsFiniteSet(held)
  /\ draining \in BOOLEAN /\ lost \in BOOLEAN /\ overran \in BOOLEAN
  /\ life \in Lives /\ disk \in Lives
  /\ phase \in {"read", "save", "watchdog", "done"}
  /\ dog \in [call : Tools \cup {NoCall}, sentAt : Nat, retryAt : Nat, escalated : BOOLEAN]
  /\ hit \subseteq Tools

\* What has been appended and not been applied, and what will have been.
In == log \cup old \cup held
Pending == flying \cup In

PostAfter(P, t, x) == \E e \in P : e.kind = "post" /\ e.call = t /\ e.ts >= x
StopAfter(P, x) == \E e \in P : e.kind = "stop" /\ e.ts >= x
NoStop(P) == \A e \in P : e.kind # "stop"

\* No line is of the future, or of a call that has not begun; a call has one
\* line of each kind; a hook does not take longer than it may.
LinesFit ==
  /\ \A e \in Pending :
       /\ e.ts <= clock
       /\ e.kind = "pre" => reported[e.call] # "no"
       /\ e.kind = "post" => reported[e.call] = "done"
  /\ \A d, e \in Pending : d \in CallLines /\ e \in CallLines /\ d.kind = e.kind /\ d.call = e.call => d = e
  /\ \A e \in flying : e \in CallLines => e \notin In
  /\ \A e \in flying : clock <= e.ts + Delay

\* What the monitor knows comes from lines that were ripe.
Past(l) ==
  /\ \A i \in DOMAIN l.running : reported[l.running[i].call] # "no" /\ l.running[i].ts + Window <= clock
  /\ \A t \in l.finished : reported[t] # "no"
  /\ \A p \in l.early : reported[p.call] = "done"
  /\ l.cleared # 0 => l.cleared + Window <= clock

\* No call runs on from before the last end of turn.
AfterClear(l) == \A i \in DOMAIN l.running : l.running[i].ts > l.cleared
Resynced ==
  /\ disk.cleared <= life.cleared
  /\ ~overran => AfterClear(life) /\ AfterClear(disk) /\ \A e \in In : e.ts > life.cleared

\* Calls whose start has been applied and whose end has not.
Open(P) ==
  {t \in Tools : /\ reported[t] # "no"
                 /\ \A e \in P : ~(e.kind = "pre" /\ e.call = t)
                 /\ reported[t] = "running" \/ PostAfter(P, t, 0)}
Counted(l, P) ==
  /\ \A e \in P : e.kind = "pre" /\ reported[e.call] = "done" =>
       PostAfter(P, e.call, e.ts) \/ StopAfter(P, e.ts)
  /\ NoStop(P) => Len(l.running) <= Cardinality(Open(P))
InTurn(l, S) == \A e \in S : \A i \in DOMAIN l.running : l.running[i].ts <= e.ts
Punctual == ~lost /\ ~overran /\ \A e \in flying : ~Ripe(e)
NoneTooMany == Punctual => Counted(life, Pending) /\ InTurn(life, In)

\* Of a call on its own: its start is still to come, or its end is, or it runs.
WaitsFor(l, P, e) ==
  \/ PostAfter(P, e.call, e.ts) \/ StopAfter(P, e.ts)
  \/ \E p \in l.early : p.call = e.call /\ p.ts >= e.ts /\ p.ts <= e.ts + MatchWindow
  \/ \E h \in l.hints : h >= e.ts
Alone(l, P) ==
  /\ Len(l.running) <= 1
  /\ \A e \in P : e.kind = "pre" =>
       /\ l.running = <<>> /\ e.call \notin l.finished
       /\ reported[e.call] = "done" => WaitsFor(l, P, e)
  /\ \A e \in P : e.kind = "post" => \A p \in l.early : p.call # e.call
  /\ \A i \in DOMAIN l.running : reported[l.running[i].call] = "done" =>
       PostAfter(P, l.running[i].call, 0) \/ StopAfter(P, l.running[i].ts)
OnlyOne == \A t, u \in Tools : reported[t] # "no" /\ reported[u] # "no" => t = u
OneIsRight == OnlyOne /\ ~lost => Alone(life, Pending)

Sent == dog.sentAt # 0 => dog.call \in hit

ToolInv ==
  /\ ToolTypeOK /\ LinesFit /\ Past(life) /\ Past(disk) /\ Resynced
  /\ NoneTooMany /\ OneIsRight /\ Sent

-----------------------------------------------------------------------------
(* The lines in their order *)

LEMMA PriorityTells ==
  ASSUME NEW j, NEW k, j \in {"pre", "post", "stop", "hint"}, k \in {"pre", "post", "stop", "hint"}
  PROVE  Priority(j) \in Nat /\ (Priority(j) = Priority(k) => j = k)
BY DEF Priority

LEMMA LineFacts ==
  ASSUME NEW e \in Lines
  PROVE  /\ e.kind \in {"pre", "post", "stop", "hint"} /\ e.ts \in Nat \ {0}
         /\ e = [kind |-> e.kind, call |-> e.call, ts |-> e.ts]
         /\ e.kind \in {"pre", "post"} => e.call \in Tools /\ e.call # NoCall /\ e \in CallLines
         /\ e.kind \notin {"pre", "post"} => e.call = NoCall
BY ToolAssumption DEF Lines, HookLines, CallLines, Stops, Hints

\* Of any lines there is a first one, which comes before all the others.
LEMMA FirstFacts ==
  ASSUME NEW S \in SUBSET Lines, S # {}, NEW rank \in Ranks
  PROVE  First(S, rank) \in S /\ \A d \in S \ {First(S, rank)} : Before(First(S, rank), d, rank)
<1> DEFINE place(e) == IF e.call = NoCall THEN 0 ELSE rank[e.call]
<1>0. \A e \in S : place(e) \in Nat
  BY LineFacts DEF Ranks
<1>1. PICK x \in {e.ts : e \in S} : \A y \in {e.ts : e \in S} : x <= y
  <2>1. {e.ts : e \in S} \subseteq Nat /\ {e.ts : e \in S} # {}
    BY LineFacts
  <2> QED BY <2>1, Least
<1> DEFINE S1 == {e \in S : e.ts = x}
<1>2. PICK y \in {Priority(e.kind) : e \in S1} : \A z \in {Priority(e.kind) : e \in S1} : y <= z
  <2>1. {Priority(e.kind) : e \in S1} \subseteq Nat /\ {Priority(e.kind) : e \in S1} # {}
    BY <1>1, LineFacts, PriorityTells
  <2> QED BY <2>1, Least
<1> DEFINE S2 == {e \in S1 : Priority(e.kind) = y}
<1>3. PICK z \in {place(e) : e \in S2} : \A n \in {place(e) : e \in S2} : z <= n
  <2>1. {place(e) : e \in S2} \subseteq Nat /\ {place(e) : e \in S2} # {}
    BY <1>0, <1>2
  <2> QED BY <2>1, Least
<1>4. PICK e \in S2 : place(e) = z
  BY <1>3
<1>5. ASSUME NEW d \in S \ {e} PROVE Before(e, d, rank)
  <2>1. e \in Lines /\ d \in Lines /\ e.ts = x /\ Priority(e.kind) = y /\ e.ts <= d.ts
    BY <1>1, <1>4
  <2>2. CASE e.ts # d.ts
    BY <2>1, <2>2, LineFacts DEF Before
  <2>3. CASE e.ts = d.ts /\ Priority(e.kind) # Priority(d.kind)
    <3>1. y <= Priority(d.kind)
      BY <1>2, <2>1, <2>3
    <3>2. Priority(e.kind) \in Nat /\ Priority(d.kind) \in Nat
      BY <2>1, LineFacts, PriorityTells
    <3> QED BY <2>1, <2>3, <3>1, <3>2 DEF Before
  <2>4. CASE e.ts = d.ts /\ Priority(e.kind) = Priority(d.kind)
    <3>1. e.kind = d.kind
      BY <2>1, <2>4, LineFacts, PriorityTells
    <3>2. d \in S2
      BY <2>1, <2>4
    <3>3. e.call # NoCall /\ d.call # NoCall /\ e.call # d.call /\ e.call \in Tools /\ d.call \in Tools
      BY <2>1, <2>4, <3>1, <1>5, LineFacts
    <3>4. place(e) <= place(d)
      BY <1>3, <1>4, <3>2
    <3>5. rank[e.call] # rank[d.call] /\ rank[e.call] \in Nat /\ rank[d.call] \in Nat
      BY <3>3 DEF Ranks
    <3> QED BY <2>4, <3>1, <3>3, <3>4, <3>5 DEF Before
  <2> QED BY <2>2, <2>3, <2>4
<1>6. e \in S
  BY <1>4
<1> QED BY <1>5, <1>6 DEF First

\* The recursive function in Applied, over the first n lines.
Turns(l, events, rank, n, f) ==
  [i \in 0..n |-> IF i = 0 THEN [life |-> l, left |-> events] ELSE NextLine(f[i - 1], rank)]

LEMMA TurnsExist ==
  ASSUME NEW l, NEW events, NEW rank, NEW n \in Nat
  PROVE  \E f : f = Turns(l, events, rank, n, f)
<1> DEFINE Have == {m \in Nat : \E f : f = Turns(l, events, rank, m, f)}
           start == [life |-> l, left |-> events]
<1>1. 0 \in Have
  <2> DEFINE f == [i \in 0..0 |-> start]
  <2>1. f = Turns(l, events, rank, 0, f)
    BY DEF Turns
  <2> QED BY <2>1
<1>2. ASSUME NEW m \in Nat, m \in Have PROVE m + 1 \in Have
  <2>1. PICK f : f = Turns(l, events, rank, m, f)
    BY <1>2
  <2> DEFINE g == [i \in 0..(m + 1) |-> IF i = 0 THEN start ELSE NextLine(f[i - 1], rank)]
  <2> HIDE DEF start
  <2>2. \A i \in 0..m : f[i] = IF i = 0 THEN start ELSE NextLine(f[i - 1], rank)
    <3>1. \A i \in 0..m : Turns(l, events, rank, m, f)[i] = IF i = 0 THEN start ELSE NextLine(f[i - 1], rank)
      BY DEF Turns, start
    <3> QED BY <2>1, <3>1
  <2>3. \A i \in 0..m : g[i] = f[i]
    BY <2>2
  <2>4. \A i \in 0..(m + 1) : i # 0 => i - 1 \in 0..m
    OBVIOUS
  <2>5. \A i \in 0..(m + 1) : i # 0 => g[i - 1] = f[i - 1]
    BY <2>3, <2>4
  <2>6. g = Turns(l, events, rank, m + 1, g)
    <3>1. \A i \in 0..(m + 1) : g[i] = Turns(l, events, rank, m + 1, g)[i]
      BY <2>5 DEF Turns, start
    <3> QED BY <3>1 DEF Turns
  <2> QED BY <2>6
<1> HIDE DEF Have
<1>3. Nat \subseteq Have
  BY <1>1, <1>2, Induction
<1> QED BY <1>3 DEF Have

\* What every line preserves holds when the last one has been applied.
LEMMA AppliedIn ==
  ASSUME NEW l, NEW events, IsFiniteSet(events), events \subseteq Lines, NEW rank \in Ranks, NEW G,
         [life |-> l, left |-> events] \in G,
         \A w \in G : w.left \subseteq Lines,
         \A w \in G : w.left # {} => NextLine(w, rank) \in G
  PROVE  \E w \in G : w.left = {} /\ w.life = Applied(l, events, rank)
<1> DEFINE N == Cardinality(events)
           after == CHOOSE f : f = Turns(l, events, rank, N, f)
<1>1. N \in Nat
  BY FS_CardinalityType
<1>2. after = Turns(l, events, rank, N, after)
  BY <1>1, TurnsExist
<1>3. Applied(l, events, rank) = after[N].life
  BY DEF Applied, Turns
<1> HIDE DEF after
<1>4. \A i \in 0..N : after[i] = IF i = 0 THEN [life |-> l, left |-> events] ELSE NextLine(after[i - 1], rank)
  <2>1. \A i \in 0..N : Turns(l, events, rank, N, after)[i]
                          = IF i = 0 THEN [life |-> l, left |-> events] ELSE NextLine(after[i - 1], rank)
    BY DEF Turns
  <2> QED BY <1>2, <2>1
<1> DEFINE Good == {n \in Nat : n <= N => /\ after[n] \in G /\ IsFiniteSet(after[n].left)
                                          /\ Cardinality(after[n].left) = N - n}
<1>5. 0 \in Good
  <2>1. after[0] = [life |-> l, left |-> events]
    BY <1>1, <1>4
  <2>2. after[0] \in G /\ after[0].left = events
    BY <2>1
  <2>3. N - 0 = N
    BY <1>1
  <2> QED BY <2>2, <2>3
<1>6. ASSUME NEW n \in Nat, n \in Good PROVE n + 1 \in Good
  <2> SUFFICES ASSUME n + 1 <= N
               PROVE  /\ after[n + 1] \in G /\ IsFiniteSet(after[n + 1].left)
                      /\ Cardinality(after[n + 1].left) = N - (n + 1)
    OBVIOUS
  <2> DEFINE w == after[n]
             first == First(w.left, rank)
  <2>1. w \in G /\ IsFiniteSet(w.left) /\ Cardinality(w.left) = N - n
    BY <1>1, <1>6
  <2>2. after[n + 1] = NextLine(w, rank)
    <3>1. n + 1 \in 0..N /\ n + 1 # 0 /\ (n + 1) - 1 = n
      BY <1>1
    <3> QED BY <3>1, <1>4
  <2>3. w.left # {}
    <3>1. N - n # 0
      BY <1>1
    <3> QED BY <2>1, <3>1, FS_EmptySet
  <2>4. first \in w.left
    BY <2>1, <2>3, FirstFacts
  <2>5. after[n + 1].left = w.left \ {first}
    BY <2>2 DEF NextLine
  <2>6. IsFiniteSet(w.left \ {first}) /\ Cardinality(w.left \ {first}) = Cardinality(w.left) - 1
    BY <2>1, <2>4, FS_RemoveElement
  <2>7. (N - n) - 1 = N - (n + 1)
    BY <1>1
  <2> QED BY <2>1, <2>2, <2>3, <2>5, <2>6, <2>7
<1> HIDE DEF Good
<1>7. Nat \subseteq Good
  BY <1>5, <1>6, Induction
<1>8. after[N] \in G /\ IsFiniteSet(after[N].left) /\ Cardinality(after[N].left) = 0
  BY <1>1, <1>7 DEF Good
<1> QED BY <1>3, <1>8, FS_EmptySet

-----------------------------------------------------------------------------
(* What a line does *)

LEMMA LifeFacts ==
  ASSUME NEW l \in Lives
  PROVE  /\ l = [running |-> l.running, finished |-> l.finished, early |-> l.early,
                 hints |-> l.hints, cleared |-> l.cleared]
         /\ l.running \in Seq(Calls) /\ l.finished \subseteq Tools /\ l.early \subseteq Calls
         /\ l.hints \subseteq Nat \ {0} /\ l.cleared \in Nat
         /\ DOMAIN l.running = 1..Len(l.running) /\ Len(l.running) \in Nat
         /\ \A i \in DOMAIN l.running : l.running[i].call \in Tools /\ l.running[i].ts \in Nat \ {0}
<1>1. l.running \in Seq(Calls)
  BY DEF Lives
<1>2. DOMAIN l.running = 1..Len(l.running) /\ Len(l.running) \in Nat /\ \A i \in DOMAIN l.running : l.running[i] \in Calls
  BY <1>1
<1>3. \A i \in DOMAIN l.running : l.running[i].call \in Tools /\ l.running[i].ts \in Nat \ {0}
  BY <1>2 DEF Calls
<1> QED BY <1>2, <1>3 DEF Lives

\* A start adds its call, or the call is over at once.
LEMMA StartFacts ==
  ASSUME NEW l \in Lives, NEW e \in CallLines
  PROVE  LET m == Start(l, e)
         IN /\ m \in Lives /\ m.hints = l.hints /\ m.cleared = l.cleared
            /\ \/ /\ m.running = Append(l.running, [call |-> e.call, ts |-> e.ts])
                  /\ m.finished = l.finished /\ m.early = l.early
                  /\ EarlyCompletions(l, e) = {} /\ ~CoveredByHint(l, e)
               \/ /\ m.running = l.running /\ m.early \subseteq l.early
                  /\ m.finished \subseteq l.finished \cup {e.call}
<1> DEFINE match == EarlyCompletions(l, e)
           known == e.call \in Running(l) \cup l.finished
           call == [call |-> e.call, ts |-> e.ts]
<1>1. call \in Calls /\ e.call \in Tools
  BY DEF CallLines, Calls
<1>2. l = [running |-> l.running, finished |-> l.finished, early |-> l.early,
           hints |-> l.hints, cleared |-> l.cleared]
      /\ l.running \in Seq(Calls) /\ l.finished \subseteq Tools /\ l.early \subseteq Calls
      /\ l.hints \subseteq Nat \ {0} /\ l.cleared \in Nat
  BY LifeFacts
<1>3. CASE known
  <2>1. Start(l, e) = l
    BY <1>3 DEF Start
  <2> QED BY <2>1, <1>2
<1>4. CASE ~known /\ match # {}
  <2> DEFINE p == CHOOSE q \in match : TRUE
  <2>1. Start(l, e) = [Finish(l, e.call) EXCEPT !.early = @ \ {p}]
    BY <1>4 DEF Start
  <2> HIDE DEF p
  <2>2. Start(l, e) = [running |-> l.running, finished |-> l.finished \cup {e.call}, early |-> l.early \ {p},
                       hints |-> l.hints, cleared |-> l.cleared]
    BY <1>2, <2>1 DEF Finish
  <2>3. Start(l, e) \in Lives
    BY <1>1, <1>2, <2>2 DEF Lives
  <2> QED BY <2>2, <2>3
<1>5. CASE ~known /\ match = {} /\ CoveredByHint(l, e)
  <2>1. Start(l, e) = Finish(l, e.call)
    BY <1>5 DEF Start
  <2>2. Start(l, e) = [running |-> l.running, finished |-> l.finished \cup {e.call}, early |-> l.early,
                       hints |-> l.hints, cleared |-> l.cleared]
    BY <1>2, <2>1 DEF Finish
  <2>3. Start(l, e) \in Lives
    BY <1>1, <1>2, <2>2 DEF Lives
  <2> QED BY <2>2, <2>3
<1>6. CASE ~known /\ match = {} /\ ~CoveredByHint(l, e)
  <2>1. Start(l, e) = [l EXCEPT !.running = Append(@, call)]
    BY <1>6 DEF Start
  <2>2. Start(l, e) = [running |-> Append(l.running, call), finished |-> l.finished, early |-> l.early,
                       hints |-> l.hints, cleared |-> l.cleared]
    BY <1>2, <2>1
  <2>3. Append(l.running, call) \in Seq(Calls)
    BY <1>1, <1>2
  <2>4. Start(l, e) \in Lives
    BY <1>1, <1>2, <2>2, <2>3 DEF Lives
  <2> QED BY <2>2, <2>4, <1>6
<1> QED BY <1>3, <1>4, <1>5, <1>6

\* A completion takes a call away, or waits if there is none.
LEMMA CompleteFacts ==
  ASSUME NEW l \in Lives, NEW e \in CallLines
  PROVE  LET m == Complete(l, e)
         IN /\ m \in Lives /\ m.hints = l.hints /\ m.cleared = l.cleared
            /\ l.running # <<>> =>
                 /\ Len(m.running) = Len(l.running) - 1 /\ m.early = l.early
                 /\ \A k \in DOMAIN m.running : \E j \in DOMAIN l.running : m.running[k] = l.running[j]
                 /\ m.finished \subseteq l.finished \cup Running(l)
            /\ l.running = <<>> =>
                 /\ m.running = <<>> /\ m.finished = l.finished
                 /\ \/ m.early = l.early \cup {[call |-> e.call, ts |-> e.ts]}
                    \/ m.early = l.early /\ (e.call \in l.finished \/ \E p \in l.early : p.call = e.call)
<1> DEFINE call == [call |-> e.call, ts |-> e.ts]
<1>1. call \in Calls /\ e.call \in Tools
  BY DEF CallLines, Calls
<1>2. l = [running |-> l.running, finished |-> l.finished, early |-> l.early,
           hints |-> l.hints, cleared |-> l.cleared]
      /\ l.running \in Seq(Calls) /\ l.finished \subseteq Tools /\ l.early \subseteq Calls
      /\ l.hints \subseteq Nat \ {0} /\ l.cleared \in Nat
      /\ DOMAIN l.running = 1..Len(l.running) /\ Len(l.running) \in Nat
      /\ \A i \in DOMAIN l.running : l.running[i].call \in Tools
  BY LifeFacts
<1>3. CASE l.running # <<>>
  <2> DEFINE i == CompletedCall(l, e)
             others == Without(l.running, i)
             exact == {x \in DOMAIN l.running: e.call \notin Unnamed /\ l.running[x].call = e.call}
  <2>1. i \in 1..Len(l.running)
    <3>1. exact # {} => (CHOOSE x \in exact : TRUE) \in exact
      OBVIOUS
    <3>2. Len(l.running) # 0
      BY <1>2, <1>3
    <3>3. i = IF exact # {} THEN CHOOSE x \in exact : TRUE ELSE Len(l.running)
      BY DEF CompletedCall
    <3> HIDE DEF i
    <3> QED BY <1>2, <3>1, <3>2, <3>3
  <2>2. Complete(l, e) = [Finish(l, l.running[i].call) EXCEPT !.running = Without(@, i)]
    BY <1>3 DEF Complete
  <2> HIDE DEF i
  <2>3. Complete(l, e) = [running |-> others, finished |-> l.finished \cup {l.running[i].call}, early |-> l.early,
                          hints |-> l.hints, cleared |-> l.cleared]
    BY <1>2, <2>2 DEF Finish
  <2>4. others \in Seq(Calls) /\ Len(others) = Len(l.running) - 1
        /\ \A k \in DOMAIN others : \E j \in DOMAIN l.running : others[k] = l.running[j]
    <3>1. l.running \in Seq(Calls)
      BY <1>2
    <3> QED BY <2>1, <3>1, WithoutFacts
  <2> HIDE DEF others
  <2>5. l.running[i].call \in Tools /\ l.running[i].call \in Running(l)
    BY <1>2, <2>1 DEF Running
  <2>6. Complete(l, e) \in Lives
    BY <1>2, <2>3, <2>4, <2>5 DEF Lives
  <2> QED BY <1>3, <2>3, <2>4, <2>5, <2>6
<1>4. CASE l.running = <<>> /\ e.call \notin Unnamed /\ (e.call \in l.finished \/ \E p \in l.early : p.call = e.call)
  <2>1. Complete(l, e) = l
    BY <1>4 DEF Complete
  <2> QED BY <2>1, <1>2, <1>4
<1>5. CASE l.running = <<>> /\ ~(e.call \notin Unnamed /\ (e.call \in l.finished \/ \E p \in l.early : p.call = e.call))
  <2>1. Complete(l, e) = [l EXCEPT !.early = @ \cup {call}]
    BY <1>5 DEF Complete
  <2>2. Complete(l, e) = [running |-> l.running, finished |-> l.finished, early |-> l.early \cup {call},
                          hints |-> l.hints, cleared |-> l.cleared]
    BY <1>2, <2>1
  <2>3. Complete(l, e) \in Lives
    BY <1>1, <1>2, <2>2 DEF Lives
  <2> QED BY <1>5, <2>2, <2>3
<1> QED BY <1>3, <1>4, <1>5

\* Calls that began later stay; what found nothing is remembered.
LEMMA ClearsFacts ==
  ASSUME NEW l \in Lives, NEW e \in [kind : {"stop", "hint"}, ts : Nat \ {0}] \cup Stops \cup Hints, NEW slack \in Nat
  PROVE  LET m == Clears(l, e, slack)
         IN /\ m \in Lives /\ Len(m.running) <= Len(l.running) /\ m.early = l.early
            /\ \A k \in DOMAIN m.running : \E j \in DOMAIN l.running :
                 m.running[k] = l.running[j] /\ l.running[j].ts > e.ts + slack
            /\ m.finished \subseteq l.finished \cup Running(l)
            /\ l.hints \subseteq m.hints /\ (l.running = <<>> => e.ts \in m.hints)
            /\ m.cleared = IF e.kind = "stop" /\ e.ts > l.cleared THEN e.ts ELSE l.cleared
<1> DEFINE over == {i \in DOMAIN l.running: l.running[i].ts <= e.ts + slack}
           later == {l.running[i] : i \in DOMAIN l.running \ over}
           left == Those(l.running, later)
           gone == {l.running[i].call : i \in over}
           hints == IF over = {} THEN l.hints \cup {e.ts} ELSE l.hints
           cleared == IF e.kind = "stop" /\ e.ts > l.cleared THEN e.ts ELSE l.cleared
<1>1. e.ts \in Nat \ {0}
  BY DEF Stops, Hints
<1>2. l = [running |-> l.running, finished |-> l.finished, early |-> l.early,
           hints |-> l.hints, cleared |-> l.cleared]
      /\ l.running \in Seq(Calls) /\ l.finished \subseteq Tools /\ l.early \subseteq Calls
      /\ l.hints \subseteq Nat \ {0} /\ l.cleared \in Nat
      /\ DOMAIN l.running = 1..Len(l.running) /\ Len(l.running) \in Nat
      /\ \A i \in DOMAIN l.running : l.running[i].call \in Tools /\ l.running[i].ts \in Nat \ {0}
  BY LifeFacts
<1>3. Clears(l, e, slack) = [l EXCEPT !.running = left, !.finished = @ \cup gone, !.hints = hints, !.cleared = cleared]
  BY <1>2 DEF Clears
<1>4. left \in Seq(Calls) /\ Len(left) <= Len(l.running)
      /\ \A k \in DOMAIN left : \E j \in DOMAIN l.running : left[k] = l.running[j] /\ l.running[j] \in later
  <2>1. l.running \in Seq(Calls)
    BY <1>2
  <2> HIDE DEF later
  <2> QED BY <2>1, ThoseAre, ThoseNoMore
<1>5. \A j \in DOMAIN l.running : l.running[j] \in later => l.running[j].ts > e.ts + slack
  <2>1. ASSUME NEW j \in DOMAIN l.running, l.running[j] \in later PROVE l.running[j].ts > e.ts + slack
    <3>1. PICK i \in DOMAIN l.running : i \notin over /\ l.running[j] = l.running[i]
      BY <2>1
    <3>2. ~(l.running[i].ts <= e.ts + slack) /\ l.running[i].ts \in Nat
      BY <1>2, <3>1
    <3> QED BY <1>1, <3>1, <3>2
  <2> QED BY <2>1
<1>6. gone \subseteq Tools /\ gone \subseteq Running(l)
  BY <1>2 DEF Running
<1>7. hints \subseteq Nat \ {0} /\ l.hints \subseteq hints /\ (l.running = <<>> => e.ts \in hints) /\ cleared \in Nat
  BY <1>1, <1>2
<1> HIDE DEF over, later, left, gone, hints, cleared
<1>8. Clears(l, e, slack) = [running |-> left, finished |-> l.finished \cup gone, early |-> l.early,
                             hints |-> hints, cleared |-> cleared]
  BY <1>2, <1>3
<1>9. Clears(l, e, slack) \in Lives
  BY <1>2, <1>4, <1>6, <1>7, <1>8 DEF Lives
<1>10. cleared = IF e.kind = "stop" /\ e.ts > l.cleared THEN e.ts ELSE l.cleared
  BY DEF cleared
<1> QED BY <1>4, <1>5, <1>6, <1>7, <1>8, <1>9, <1>10

LEMMA PurgedFacts ==
  ASSUME NEW l \in Lives
  PROVE  LET m == Purged(l)
         IN /\ m \in Lives /\ m.running = l.running /\ m.finished = l.finished /\ m.cleared = l.cleared
            /\ m.early \subseteq l.early /\ m.hints \subseteq l.hints
            /\ \A p \in l.early : clock <= p.ts + Ttl => p \in m.early
            /\ \A h \in l.hints : clock <= h + Ttl => h \in m.hints
<1> DEFINE early == {p \in l.early : clock <= p.ts + Ttl}
           hints == {h \in l.hints : clock <= h + Ttl}
<1>1. l = [running |-> l.running, finished |-> l.finished, early |-> l.early,
           hints |-> l.hints, cleared |-> l.cleared]
      /\ l.running \in Seq(Calls) /\ l.finished \subseteq Tools /\ l.early \subseteq Calls
      /\ l.hints \subseteq Nat \ {0} /\ l.cleared \in Nat
  BY LifeFacts
<1>2. Purged(l) = [running |-> l.running, finished |-> l.finished, early |-> early,
                   hints |-> hints, cleared |-> l.cleared]
  <2>1. Purged(l) = [l EXCEPT !.early = early, !.hints = hints]
    BY <1>1 DEF Purged
  <2> HIDE DEF early, hints
  <2> QED BY <1>1, <2>1
<1>3. Purged(l) \in Lives
  BY <1>1, <1>2 DEF Lives
<1> QED BY <1>2, <1>3

LEMMA EffectOf ==
  ASSUME NEW l, NEW e \in Lines
  PROVE  /\ e.kind = "pre" => Effect(l, e) = Start(l, e)
         /\ e.kind = "post" => Effect(l, e) = Complete(l, e)
         /\ e.kind = "stop" => Effect(l, e) = Clears(l, e, 0) /\ e \in Stops
         /\ e.kind = "hint" => Effect(l, e) = Clears(l, e, Window) /\ e \in Hints
<1>1. e.kind = "stop" => e \in Stops
  BY DEF Lines, HookLines, CallLines, Stops, Hints
<1>2. e.kind = "hint" => e \in Hints
  BY DEF Lines, HookLines, CallLines, Stops, Hints
<1>3. CASE e.kind = "pre"
  BY <1>3 DEF Effect
<1>4. CASE e.kind = "post"
  BY <1>4 DEF Effect
<1>5. CASE e.kind = "stop"
  BY <1>1, <1>5 DEF Effect
<1>6. CASE e.kind = "hint"
  BY <1>2, <1>6 DEF Effect
<1>7. e.kind \in {"pre", "post", "stop", "hint"}
  BY LineFacts
<1> QED BY <1>3, <1>4, <1>5, <1>6, <1>7

LEMMA SlackFacts == Window \in Nat /\ 0 \in Nat /\ Delay \in Nat /\ MatchWindow \in Nat /\ Ttl \in Nat
BY ToolAssumption

\* Which of its lines makes a call run, and what a life is after a line of each kind.
LEMMA EffectFacts ==
  ASSUME NEW l \in Lives, NEW e \in Lines
  PROVE  LET m == Effect(l, e)
             call == [call |-> e.call, ts |-> e.ts]
         IN /\ m \in Lives
            /\ \/ (m.running = Append(l.running, call) /\ e.kind = "pre")
               \/ (Len(m.running) <= Len(l.running)
                   /\ \A k \in DOMAIN m.running : \E j \in DOMAIN l.running : m.running[k] = l.running[j])
            /\ m.cleared = IF e.kind = "stop" /\ e.ts > l.cleared THEN e.ts ELSE l.cleared
            /\ m.finished \subseteq l.finished \cup Running(l) \cup (IF e.kind = "pre" THEN {e.call} ELSE {})
            /\ m.early \subseteq l.early \cup (IF e.kind = "post" THEN {call} ELSE {})
            /\ e.kind = "stop" => \A k \in DOMAIN m.running : m.running[k].ts > e.ts
<1> DEFINE m == Effect(l, e)
           call == [call |-> e.call, ts |-> e.ts]
<1>1. CASE e.kind = "pre"
  <2>1. m = Start(l, e) /\ e \in CallLines
    BY <1>1, EffectOf, LineFacts
  <2> HIDE DEF m
  <2>2. m \in Lives /\ m.cleared = l.cleared
        /\ \/ m.running = Append(l.running, call) /\ m.finished = l.finished /\ m.early = l.early
           \/ m.running = l.running /\ m.early \subseteq l.early /\ m.finished \subseteq l.finished \cup {e.call}
    BY <2>1, StartFacts
  <2>3. Len(l.running) \in Nat
    BY LifeFacts
  <2> QED BY <1>1, <2>2, <2>3 DEF m
<1>2. CASE e.kind = "post"
  <2>1. m = Complete(l, e) /\ e \in CallLines
    BY <1>2, EffectOf, LineFacts
  <2> HIDE DEF m
  <2>2. m \in Lives /\ m.cleared = l.cleared
    BY <2>1, CompleteFacts
  <2>3. CASE l.running # <<>>
    <3>1. /\ Len(m.running) = Len(l.running) - 1 /\ m.early = l.early
          /\ \A k \in DOMAIN m.running : \E j \in DOMAIN l.running : m.running[k] = l.running[j]
          /\ m.finished \subseteq l.finished \cup Running(l)
      BY <2>1, <2>3, CompleteFacts
    <3>2. Len(m.running) <= Len(l.running)
      BY <3>1, LifeFacts
    <3> QED BY <1>2, <2>2, <3>1, <3>2 DEF m
  <2>4. CASE l.running = <<>>
    <3>1. /\ m.running = <<>> /\ m.finished = l.finished
          /\ m.early = l.early \cup {call} \/ m.early = l.early
      BY <2>1, <2>4, CompleteFacts
    <3> QED BY <1>2, <2>2, <2>4, <3>1 DEF m
  <2> QED BY <2>3, <2>4
<1>3. CASE e.kind \in {"stop", "hint"}
  <2> DEFINE slack == IF e.kind = "hint" THEN Window ELSE 0
  <2>1. m = Clears(l, e, slack) /\ e \in Stops \cup Hints /\ slack \in Nat
    BY <1>3, EffectOf, SlackFacts
  <2> HIDE DEF m, slack
  <2>2. /\ m \in Lives /\ Len(m.running) <= Len(l.running) /\ m.early = l.early
        /\ \A k \in DOMAIN m.running : \E j \in DOMAIN l.running :
             m.running[k] = l.running[j] /\ l.running[j].ts > e.ts + slack
        /\ m.finished \subseteq l.finished \cup Running(l)
        /\ m.cleared = IF e.kind = "stop" /\ e.ts > l.cleared THEN e.ts ELSE l.cleared
    BY <2>1, ClearsFacts
  <2>3. e.kind = "stop" => \A k \in DOMAIN m.running : m.running[k].ts > e.ts
    BY <2>2, LineFacts DEF slack
  <2> QED BY <1>3, <2>2, <2>3 DEF m
<1> QED BY <1>1, <1>2, <1>3, LineFacts

LEMMA EntriesFrom ==
  ASSUME NEW l \in Lives, NEW m \in Lives, NEW x,
         m.running = Append(l.running, x)
         \/ \A k \in DOMAIN m.running : \E j \in DOMAIN l.running : m.running[k] = l.running[j]
  PROVE  \A k \in DOMAIN m.running : m.running[k] = x \/ \E j \in DOMAIN l.running : m.running[k] = l.running[j]
<1>1. CASE m.running = Append(l.running, x)
  <2>1. DOMAIN m.running = 1..(Len(l.running) + 1) /\ m.running[Len(l.running) + 1] = x
        /\ \A k \in 1..Len(l.running) : m.running[k] = l.running[k]
    BY <1>1, LifeFacts
  <2>2. DOMAIN l.running = 1..Len(l.running) /\ Len(l.running) \in Nat
    BY LifeFacts
  <2> QED BY <2>1, <2>2
<1> QED BY <1>1

LEMMA PastStep ==
  ASSUME NEW l \in Lives, NEW e \in Lines, clock \in Nat, Past(l), e.ts + Window <= clock,
         e.kind = "pre" => reported[e.call] # "no", e.kind = "post" => reported[e.call] = "done"
  PROVE  Past(Effect(l, e)) /\ l.cleared <= Effect(l, e).cleared
<1> DEFINE m == Effect(l, e)
           call == [call |-> e.call, ts |-> e.ts]
<1>1. m \in Lives /\ m.cleared = (IF e.kind = "stop" /\ e.ts > l.cleared THEN e.ts ELSE l.cleared)
  BY EffectFacts
<1>2. /\ m.finished \subseteq l.finished \cup Running(l) \cup (IF e.kind = "pre" THEN {e.call} ELSE {})
      /\ m.early \subseteq l.early \cup (IF e.kind = "post" THEN {call} ELSE {})
  BY EffectFacts
<1>3. (m.running = Append(l.running, call) /\ e.kind = "pre")
      \/ \A k \in DOMAIN m.running : \E j \in DOMAIN l.running : m.running[k] = l.running[j]
  BY EffectFacts
<1> HIDE DEF m
<1>4. \A t \in Running(l) : reported[t] # "no"
  BY DEF Past, Running
<1>5. \A t \in m.finished : reported[t] # "no"
  BY <1>2, <1>4 DEF Past
<1>6. \A p \in m.early : reported[p.call] = "done"
  BY <1>2 DEF Past
<1>7. l.cleared <= m.cleared /\ (m.cleared # 0 => m.cleared + Window <= clock)
  BY <1>1, LifeFacts, LineFacts, SlackFacts DEF Past
<1>8. ASSUME NEW k \in DOMAIN m.running
      PROVE  reported[m.running[k].call] # "no" /\ m.running[k].ts + Window <= clock
  <2>1. (m.running[k] = call /\ e.kind = "pre") \/ \E j \in DOMAIN l.running : m.running[k] = l.running[j]
    BY SMTT(30), <1>1, <1>3, EntriesFrom
  <2>2. CASE m.running[k] = call /\ e.kind = "pre"
    BY <2>2
  <2>3. CASE \E j \in DOMAIN l.running : m.running[k] = l.running[j]
    BY <2>3 DEF Past
  <2> QED BY <2>1, <2>2, <2>3
<1> QED BY <1>5, <1>6, <1>7, <1>8 DEF Past, m

\* What comes before and is not there to come: a stop that was applied has no start of its second behind it.
NotBefore(l, S) == \A d \in S : d.ts >= l.cleared /\ (d.kind = "pre" => d.ts > l.cleared)
LEMMA ClearStep ==
  ASSUME NEW l \in Lives, NEW S \in SUBSET Lines, NEW e \in S, NEW rank,
         \A d \in S \ {e} : Before(e, d, rank), AfterClear(l), NotBefore(l, S)
  PROVE  AfterClear(Effect(l, e)) /\ NotBefore(Effect(l, e), S \ {e})
<1> DEFINE m == Effect(l, e)
           call == [call |-> e.call, ts |-> e.ts]
<1>1. m \in Lives /\ m.cleared = (IF e.kind = "stop" /\ e.ts > l.cleared THEN e.ts ELSE l.cleared)
      /\ (e.kind = "stop" => \A k \in DOMAIN m.running : m.running[k].ts > e.ts)
  BY ZenonT(60), EffectFacts
<1>2. (m.running = Append(l.running, call) /\ e.kind = "pre")
      \/ \A k \in DOMAIN m.running : \E j \in DOMAIN l.running : m.running[k] = l.running[j]
  BY EffectFacts
<1> HIDE DEF m
<1>3. l.cleared \in Nat /\ e.ts \in Nat
  BY LifeFacts, LineFacts
<1>4. ASSUME NEW k \in DOMAIN m.running PROVE m.running[k].ts > m.cleared
  <2>1. (m.running[k] = call /\ e.kind = "pre") \/ \E j \in DOMAIN l.running : m.running[k] = l.running[j]
    BY <1>1, <1>2, EntriesFrom
  <2>2. CASE m.running[k] = call /\ e.kind = "pre"
    BY <1>1, <2>2 DEF NotBefore
  <2>3. CASE \E j \in DOMAIN l.running : m.running[k] = l.running[j]
    <3>1. m.running[k].ts > l.cleared
      BY <2>3 DEF AfterClear
    <3> QED BY <1>1, <3>1
  <2> QED BY <2>1, <2>2, <2>3
<1>5. ASSUME NEW d \in S \ {e} PROVE d.ts >= m.cleared /\ (d.kind = "pre" => d.ts > m.cleared)
  <2>1. d.ts \in Nat /\ d.ts >= l.cleared /\ (d.kind = "pre" => d.ts > l.cleared)
    BY LineFacts DEF NotBefore
  <2>2. e.ts < d.ts \/ (e.ts = d.ts /\ (Priority(e.kind) < Priority(d.kind) \/ e.kind = d.kind))
    BY DEF Before
  <2>3. e.kind = "stop" /\ d.kind = "pre" => ~(Priority(e.kind) < Priority(d.kind))
    BY DEF Priority
  <2> QED BY <1>1, <1>3, <2>1, <2>2, <2>3
<1> QED BY <1>4, <1>5 DEF AfterClear, NotBefore, m

-----------------------------------------------------------------------------
(* Lines in their order leave no call too many *)

\* A call has one line of each kind, which the hooks were called for.
Fits(P) ==
  /\ \A e \in P : (e.kind = "pre" => reported[e.call] # "no") /\ (e.kind = "post" => reported[e.call] = "done")
  /\ \A d, e \in P : d \in CallLines /\ e \in CallLines /\ d.kind = e.kind /\ d.call = e.call => d = e

Foremost(e, P) ==
  \A d \in P \ {e} : \/ e.ts < d.ts
                     \/ e.ts = d.ts /\ (Priority(e.kind) < Priority(d.kind) \/ e.kind = d.kind)

LEMMA CountStep ==
  ASSUME NEW l \in Lives, NEW P \in SUBSET Lines, NEW e \in P, Foremost(e, P), Fits(P),
         reported \in [Tools -> {"no", "running", "done"}], Counted(l, P), InTurn(l, P)
  PROVE  Counted(Effect(l, e), P \ {e}) /\ InTurn(Effect(l, e), P \ {e})
<1> DEFINE m == Effect(l, e)
           Q == P \ {e}
           call == [call |-> e.call, ts |-> e.ts]
<1>1. m \in Lives /\ (e.kind = "stop" => \A k \in DOMAIN m.running : m.running[k].ts > e.ts)
  BY EffectFacts
<1>2. /\ (m.running = Append(l.running, call) /\ e.kind = "pre")
         \/ (Len(m.running) <= Len(l.running)
             /\ \A k \in DOMAIN m.running : \E j \in DOMAIN l.running : m.running[k] = l.running[j])
  BY EffectFacts
<1>3. e.kind = "post" /\ l.running # <<>> => Len(m.running) = Len(l.running) - 1
  BY EffectOf, LineFacts, CompleteFacts
<1>4. e \in Lines /\ e.ts \in Nat /\ \A d \in Q : d \in Lines /\ d.ts \in Nat
  BY LineFacts
<1>5. Len(l.running) \in Nat /\ Len(m.running) \in Nat /\ DOMAIN m.running = 1..Len(m.running)
  BY <1>1, LifeFacts
<1> HIDE DEF m
<1>6. InTurn(m, Q)
  <2> SUFFICES ASSUME NEW d \in Q, NEW k \in DOMAIN m.running PROVE m.running[k].ts <= d.ts
    BY DEF InTurn
  <2>1. (m.running[k] = call /\ e.kind = "pre") \/ \E j \in DOMAIN l.running : m.running[k] = l.running[j]
    BY <1>1, <1>2, EntriesFrom
  <2>2. CASE m.running[k] = call
    <3>1. e.ts < d.ts \/ e.ts = d.ts
      BY DEF Foremost
    <3> QED BY <2>2, <3>1, <1>4
  <2>3. CASE \E j \in DOMAIN l.running : m.running[k] = l.running[j]
    BY <2>3 DEF InTurn
  <2> QED BY <2>1, <2>2, <2>3
<1>7. ASSUME NEW d \in Q, d.kind = "pre", reported[d.call] = "done"
      PROVE  PostAfter(Q, d.call, d.ts) \/ StopAfter(Q, d.ts)
  <2>1. PICK p \in P : p.ts >= d.ts /\ ((p.kind = "post" /\ p.call = d.call) \/ p.kind = "stop")
    BY <1>7 DEF Counted, PostAfter, StopAfter
  <2>2. p # e
    <3> SUFFICES ASSUME p = e PROVE FALSE
      OBVIOUS
    <3>1. Priority(e.kind) \in {2, 3} /\ Priority(d.kind) = 1 /\ e.kind # d.kind
      BY <1>7, <2>1 DEF Priority
    <3>2. e.ts < d.ts \/ (e.ts = d.ts /\ (Priority(e.kind) < Priority(d.kind) \/ e.kind = d.kind))
      BY DEF Foremost
    <3> QED BY <1>4, <2>1, <3>1, <3>2
  <2> QED BY <2>1, <2>2 DEF PostAfter, StopAfter
<1>8. ASSUME NoStop(Q) PROVE Len(m.running) <= Cardinality(Open(Q))
  <2>1. \A S : IsFiniteSet(Open(S)) /\ Cardinality(Open(S)) \in Nat
    <3>1. \A S : Open(S) \subseteq Tools
      BY DEF Open
    <3> QED BY <3>1, ToolAssumption, FS_Subset, FS_CardinalityType
  <2>2. CASE e.kind = "stop"
    <3>1. \A j \in DOMAIN l.running : l.running[j].ts <= e.ts /\ l.running[j].ts \in Nat
      BY LifeFacts DEF InTurn
    <3>2. \A k \in DOMAIN m.running : FALSE
      <4> SUFFICES ASSUME NEW k \in DOMAIN m.running PROVE FALSE
        OBVIOUS
      <4>1. PICK j \in DOMAIN l.running : m.running[k] = l.running[j]
        BY <1>2, <2>2
      <4>2. m.running[k].ts > e.ts
        BY <1>1, <2>2
      <4> QED BY <4>1, <4>2, <3>1, <1>4
    <3>3. Len(m.running) = 0
      BY <3>2, <1>5
    <3> QED BY <2>1, <3>3
  <2>3. CASE e.kind # "stop"
    <3>1. NoStop(P)
      BY <1>8, <2>3 DEF NoStop
    <3>2. Len(l.running) <= Cardinality(Open(P))
      BY <3>1 DEF Counted
    <3>3. CASE e.kind = "pre"
      <4> DEFINE t == e.call
      <4>1. t \in Tools /\ reported[t] # "no" /\ e \in CallLines
        BY <3>3, <1>4, LineFacts DEF Fits
      <4>2. \A d \in Q : ~(d.kind = "pre" /\ d.call = t)
        <5> SUFFICES ASSUME NEW d \in Q, d.kind = "pre", d.call = t PROVE FALSE
          OBVIOUS
        <5>1. d \in CallLines
          BY <1>4, LineFacts
        <5> QED BY <4>1, <5>1, <3>3 DEF Fits
      <4>3. reported[t] = "running" \/ PostAfter(Q, t, 0)
        <5> SUFFICES ASSUME reported[t] = "done" PROVE PostAfter(Q, t, 0)
          BY <4>1
        <5>1. PostAfter(P, t, e.ts)
          BY <3>1, <3>3 DEF Counted, NoStop, StopAfter
        <5>2. PICK p \in P : p.kind = "post" /\ p.call = t
          BY <5>1 DEF PostAfter
        <5>3. p \in Q
          BY <5>2, <3>3
        <5> QED BY <5>2, <5>3, <1>4 DEF PostAfter
      <4>4. t \in Open(Q) /\ t \notin Open(P)
        BY <4>1, <4>2, <4>3, <3>3 DEF Open
      <4>5. Open(P) \subseteq Open(Q)
        <5> SUFFICES ASSUME NEW u \in Open(P) PROVE u \in Open(Q)
          OBVIOUS
        <5>1. PostAfter(P, u, 0) => PostAfter(Q, u, 0)
          BY <3>3 DEF PostAfter
        <5> QED BY <5>1 DEF Open
      <4>6. Cardinality(Open(P) \cup {t}) = Cardinality(Open(P)) + 1
        BY <2>1, <4>4, FS_AddElement
      <4>7. Cardinality(Open(P) \cup {t}) <= Cardinality(Open(Q))
        BY <2>1, <4>4, <4>5, FS_Subset
      <4>8. Len(m.running) <= Len(l.running) + 1
        <5>1. Len(Append(l.running, call)) = Len(l.running) + 1
          BY LifeFacts
        <5> QED BY <5>1, <1>2, <1>5
      <4> QED BY <3>2, <4>6, <4>7, <4>8, <2>1, <1>5
    <3>4. CASE e.kind = "post"
      <4> DEFINE t == e.call
      <4>1. Open(P) \ {t} \subseteq Open(Q)
        <5> SUFFICES ASSUME NEW u \in Open(P) \ {t} PROVE u \in Open(Q)
          OBVIOUS
        <5>1. PostAfter(P, u, 0) => PostAfter(Q, u, 0)
          BY DEF PostAfter
        <5> QED BY <5>1 DEF Open
      <4>2. Cardinality(Open(P)) - 1 <= Cardinality(Open(P) \ {t})
        <5>0. Cardinality(Open(P)) \in Nat /\ IsFiniteSet(Open(P))
          BY <2>1
        <5>1. CASE t \in Open(P)
          <6>1. Cardinality(Open(P) \ {t}) = Cardinality(Open(P)) - 1
            BY <5>0, <5>1, FS_RemoveElement
          <6> QED BY <5>0, <6>1
        <5>2. CASE t \notin Open(P)
          <6>1. Open(P) \ {t} = Open(P)
            BY <5>2
          <6>2. Cardinality(Open(P) \ {t}) = Cardinality(Open(P))
            BY <6>1
          <6> QED BY <5>0, <6>2
        <5> QED BY <5>1, <5>2
      <4>3. Cardinality(Open(P) \ {t}) <= Cardinality(Open(Q)) /\ Cardinality(Open(P) \ {t}) \in Nat
        <5>1. IsFiniteSet(Open(P) \ {t})
          BY <2>1, FS_Subset
        <5> QED BY <5>1, <2>1, <4>1, FS_Subset, FS_CardinalityType
      <4>4. CASE l.running # <<>>
        BY <1>3, <1>5, <3>2, <3>4, <4>2, <4>3, <4>4, <2>1
      <4>5. CASE l.running = <<>>
        <5>1. Len(m.running) <= 0
          BY <1>2, <3>4, <4>5
        <5> QED BY <5>1, <1>5, <2>1
      <4> QED BY <4>4, <4>5
    <3>5. CASE e.kind = "hint"
      <4>1. Open(P) \subseteq Open(Q)
        <5> SUFFICES ASSUME NEW u \in Open(P) PROVE u \in Open(Q)
          OBVIOUS
        <5>1. PostAfter(P, u, 0) => PostAfter(Q, u, 0)
          BY <3>5 DEF PostAfter
        <5> QED BY <5>1 DEF Open
      <4>2. Cardinality(Open(P)) <= Cardinality(Open(Q))
        BY <2>1, <4>1, FS_Subset
      <4>3. Len(m.running) <= Len(l.running)
        BY <1>2, <3>5
      <4> QED BY <3>2, <4>2, <4>3, <1>5, <2>1
    <3>6. e.kind \in {"pre", "post", "stop", "hint"}
      BY <1>4, LineFacts
    <3> QED BY <2>3, <3>3, <3>4, <3>5, <3>6
  <2> QED BY <2>2, <2>3
<1> QED BY <1>6, <1>7, <1>8 DEF Counted, m

-----------------------------------------------------------------------------
(* A call on its own, in whatever order its lines come *)

\* What waits for a start of this call is still there for it.
LEMMA StartIsOver ==
  ASSUME NEW l \in Lives, NEW e \in CallLines,
         \/ \E p \in l.early : p.call = e.call /\ p.ts >= e.ts /\ p.ts <= e.ts + MatchWindow
         \/ \E h \in l.hints : h >= e.ts
  PROVE  EarlyCompletions(l, e) # {} \/ CoveredByHint(l, e)
<1>1. CASE \E h \in l.hints : h >= e.ts
  <2>1. PICK h \in l.hints : h >= e.ts
    BY <1>1
  <2>2. h \in Nat /\ e.ts \in Nat
    BY LifeFacts DEF CallLines
  <2> QED BY <2>1, <2>2, SlackFacts DEF CoveredByHint
<1>2. CASE \E p \in l.early : p.call = e.call /\ p.ts >= e.ts /\ p.ts <= e.ts + MatchWindow
  <2> DEFINE exact == {p \in l.early : p.call = e.call /\ p.call \notin Unnamed}
             near == {p \in l.early : Distance(p.ts, e.ts) <= MatchWindow}
  <2>1. PICK p \in l.early : p.call = e.call /\ p.ts >= e.ts /\ p.ts <= e.ts + MatchWindow
    BY <1>2
  <2>2. e.ts \in Nat /\ \A q \in l.early : q.ts \in Nat
    BY LifeFacts DEF CallLines, Calls
  <2>3. Distance(p.ts, e.ts) <= MatchWindow
    BY <2>1, <2>2, SlackFacts DEF Distance
  <2>4. \A q \in l.early : Distance(q.ts, e.ts) \in Nat
    BY <2>2 DEF Distance
  <2>5. PICK x \in {Distance(q.ts, e.ts) : q \in near} : \A y \in {Distance(q.ts, e.ts) : q \in near} : x <= y
    <3>1. {Distance(q.ts, e.ts) : q \in near} \subseteq Nat /\ {Distance(q.ts, e.ts) : q \in near} # {}
      BY <2>1, <2>3, <2>4
    <3> HIDE DEF near
    <3> QED BY <3>1, Least
  <2>6. PICK n \in near : Distance(n.ts, e.ts) = x
    BY <2>5
  <2>7. n \in {q \in near : \A r \in near : Distance(q.ts, e.ts) <= Distance(r.ts, e.ts)}
    BY <2>5, <2>6
  <2> QED BY <2>7 DEF EarlyCompletions
<1> QED BY <1>1, <1>2

LEMMA AloneStep ==
  ASSUME NEW l \in Lives, NEW P \in SUBSET Lines, NEW e \in P, NEW Q \in SUBSET P, P \ {e} \subseteq Q,
         e \in CallLines => e \notin Q,
         reported \in [Tools -> {"no", "running", "done"}], OnlyOne, Fits(P), Past(l), Alone(l, P),
         \A d \in Q : e.kind = "post" /\ d.kind = "pre" => e.ts <= d.ts + MatchWindow
  PROVE  Alone(Effect(l, e), Q)
<1> DEFINE m == Effect(l, e)
           call == [call |-> e.call, ts |-> e.ts]
<1>1. e \in Lines /\ e.ts \in Nat /\ \A d \in P : d \in Lines /\ d.ts \in Nat
  BY LineFacts
<1>2. \A d \in P : d.kind \in {"pre", "post"} => d.call \in Tools /\ d \in CallLines /\ reported[d.call] # "no"
  BY <1>1, LineFacts DEF Fits
<1>3. \A i \in DOMAIN l.running : l.running[i].call \in Tools /\ reported[l.running[i].call] # "no"
                                  /\ l.running[i].ts \in Nat
  BY LifeFacts DEF Past
<1>4. m \in Lives /\ DOMAIN l.running = 1..Len(l.running) /\ Len(l.running) \in Nat /\ Len(l.running) <= 1
  <2>1. m \in Lives
    BY EffectFacts
  <2>2. DOMAIN l.running = 1..Len(l.running) /\ Len(l.running) \in Nat
    BY LifeFacts
  <2>3. Len(l.running) <= 1
    BY DEF Alone
  <2> QED BY <2>1, <2>2, <2>3
<1>5. CASE e.kind = "pre"
  <2>1. m = Start(l, e) /\ e \in CallLines /\ e \notin Q /\ l.running = <<>>
    BY <1>1, <1>2, <1>5, EffectOf DEF Alone
  <2>2. \A d \in Q : d.kind # "pre"
    <3> SUFFICES ASSUME NEW d \in Q, d.kind = "pre" PROVE FALSE
      OBVIOUS
    <3>1. d.call = e.call
      BY <1>2, <1>5 DEF OnlyOne
    <3>2. d = e
      BY <1>2, <1>5, <3>1 DEF Fits
    <3> QED BY <2>1, <3>2
  <2> HIDE DEF m
  <2>3. m.early \subseteq l.early
    BY <2>1, StartFacts
  <2>4. \A d \in Q : d.kind = "post" => \A p \in m.early : p.call # d.call
    BY <2>3 DEF Alone
  <2>5. CASE m.running = l.running
    BY <2>1, <2>2, <2>4, <2>5 DEF Alone, m
  <2>6. CASE m.running # l.running
    <3>1. m.running = Append(l.running, call) /\ EarlyCompletions(l, e) = {} /\ ~CoveredByHint(l, e)
      BY <2>1, <2>6, StartFacts
    <3>2. m.running = <<call>> /\ DOMAIN m.running = {1} /\ m.running[1] = call /\ Len(m.running) = 1
      BY <2>1, <3>1
    <3>3. reported[e.call] = "done" => PostAfter(P, e.call, e.ts) \/ StopAfter(P, e.ts)
      BY <1>5, <2>1, <3>1, StartIsOver DEF Alone, WaitsFor
    <3>4. reported[e.call] = "done" => PostAfter(Q, e.call, 0) \/ StopAfter(Q, e.ts)
      <4>1. PostAfter(P, e.call, e.ts) => PostAfter(Q, e.call, 0)
        BY <1>1, <1>5 DEF PostAfter
      <4>2. StopAfter(P, e.ts) => StopAfter(Q, e.ts)
        BY <1>5 DEF StopAfter
      <4> QED BY <3>3, <4>1, <4>2
    <3> QED BY <2>2, <2>4, <3>2, <3>4 DEF Alone, m
  <2> QED BY <2>5, <2>6
<1>6. CASE e.kind = "post"
  <2>1. m = Complete(l, e) /\ e \in CallLines /\ e \notin Q
    BY <1>1, <1>2, <1>6, EffectOf
  <2> HIDE DEF m
  <2>2. m.running = <<>> /\ m.hints = l.hints
    <3>1. CASE l.running = <<>>
      BY <2>1, <3>1, CompleteFacts
    <3>2. CASE l.running # <<>>
      <4>1. Len(m.running) = Len(l.running) - 1 /\ m.hints = l.hints
        BY <2>1, <3>2, CompleteFacts
      <4>2. m.running \in Seq(Calls) /\ l.running \in Seq(Calls) /\ Len(l.running) \in Nat
        BY <1>4, LifeFacts
      <4>3. Len(l.running) # 0
        BY <3>2, <4>2
      <4>4. Len(m.running) = 0
        <5>1. \A n \in Nat : n <= 1 /\ n # 0 => n - 1 = 0
          OBVIOUS
        <5>2. Len(l.running) - 1 = 0
          BY <1>4, <4>3, <5>1
        <5> QED BY <4>1, <5>2
      <4> QED BY <4>1, <4>2, <4>4
    <3> QED BY <3>1, <3>2
  <2>3. \A d \in Q : d.kind # "post"
    <3> SUFFICES ASSUME NEW d \in Q, d.kind = "post" PROVE FALSE
      OBVIOUS
    <3>1. d.call = e.call
      BY <1>2, <1>6 DEF OnlyOne
    <3>2. d = e
      BY <1>2, <1>6, <3>1 DEF Fits
    <3> QED BY <2>1, <3>2
  <2>4. ASSUME NEW d \in Q, d.kind = "pre"
        PROVE  d.call \notin m.finished /\ (reported[d.call] = "done" => WaitsFor(m, Q, d))
    <3>1. l.running = <<>> /\ d.call \notin l.finished /\ (reported[d.call] = "done" => WaitsFor(l, P, d))
      BY <2>4 DEF Alone
    <3>2. d.call = e.call
      BY <1>2, <1>6, <2>4 DEF OnlyOne
    <3>3. m.finished = l.finished
          /\ (m.early = l.early \cup {call} \/ (m.early = l.early /\ (e.call \in l.finished \/ \E p \in l.early : p.call = e.call)))
      BY <2>1, <3>1, CompleteFacts
    <3>4. ~ \E p \in l.early : p.call = e.call
      BY <1>6 DEF Alone
    <3>5. m.early = l.early \cup {call}
      BY <3>1, <3>2, <3>3, <3>4
    <3>6. e.ts <= d.ts + MatchWindow
      BY <1>6, <2>4
    <3>7. ASSUME PostAfter(P, d.call, d.ts) PROVE WaitsFor(m, Q, d)
      <4>1. PICK p \in P : p.kind = "post" /\ p.call = d.call /\ p.ts >= d.ts
        BY <3>7 DEF PostAfter
      <4>2. p = e
        BY <1>2, <1>6, <3>2, <4>1 DEF Fits
      <4>3. call \in m.early /\ call.call = d.call /\ call.ts >= d.ts /\ call.ts <= d.ts + MatchWindow
        BY <3>2, <3>5, <3>6, <4>1, <4>2
      <4> QED BY <4>3 DEF WaitsFor
    <3>8. StopAfter(P, d.ts) => StopAfter(Q, d.ts)
      BY <1>6 DEF StopAfter
    <3>9. l.early \subseteq m.early
      BY <3>5
    <3>10. WaitsFor(l, P, d) => WaitsFor(m, Q, d)
      BY <2>2, <3>7, <3>8, <3>9 DEF WaitsFor
    <3> QED BY <3>1, <3>3, <3>10
  <2> QED BY <2>2, <2>3, <2>4 DEF Alone, m
<1>7. CASE e.kind \in {"stop", "hint"}
  <2> DEFINE slack == IF e.kind = "hint" THEN Window ELSE 0
  <2>1. m = Clears(l, e, slack) /\ e \in Stops \cup Hints /\ slack \in Nat
    BY <1>1, <1>7, EffectOf, SlackFacts
  <2> HIDE DEF m, slack
  <2>2. /\ Len(m.running) <= Len(l.running) /\ m.early = l.early
        /\ \A k \in DOMAIN m.running : \E j \in DOMAIN l.running :
             m.running[k] = l.running[j] /\ l.running[j].ts > e.ts + slack
        /\ m.finished \subseteq l.finished \cup Running(l)
        /\ l.hints \subseteq m.hints /\ (l.running = <<>> => e.ts \in m.hints)
    BY <2>1, ClearsFacts
  <2>3. Len(m.running) <= 1 /\ Len(m.running) \in Nat
    BY <1>4, <2>2, LifeFacts
  <2>4. \A t, x : PostAfter(P, t, x) => PostAfter(Q, t, x)
    BY <1>7 DEF PostAfter
  <2>5. ASSUME NEW d \in Q, d.kind = "pre"
        PROVE  /\ m.running = <<>> /\ d.call \notin m.finished
               /\ reported[d.call] = "done" => WaitsFor(m, Q, d)
    <3>1. l.running = <<>> /\ d.call \notin l.finished /\ (reported[d.call] = "done" => WaitsFor(l, P, d))
      BY <2>5 DEF Alone
    <3>2. m.running = <<>>
      <4>1. Len(m.running) = 0 /\ m.running \in Seq(Calls)
        BY <1>4, <2>2, <2>3, <3>1, LifeFacts
      <4> QED BY <4>1
    <3>3. d.call \notin m.finished
      BY <2>2, <3>1 DEF Running
    <3>4. StopAfter(P, d.ts) => StopAfter(Q, d.ts) \/ \E h \in m.hints : h >= d.ts
      BY <2>2, <3>1 DEF StopAfter
    <3>5. WaitsFor(l, P, d) => WaitsFor(m, Q, d)
      BY <2>2, <2>4, <3>4 DEF WaitsFor
    <3> QED BY <3>1, <3>2, <3>3, <3>5
  <2>6. ASSUME NEW k \in DOMAIN m.running, reported[m.running[k].call] = "done"
        PROVE  PostAfter(Q, m.running[k].call, 0) \/ StopAfter(Q, m.running[k].ts)
    <3>1. PICK j \in DOMAIN l.running : m.running[k] = l.running[j] /\ l.running[j].ts > e.ts + slack
      BY <2>2
    <3>2. PostAfter(P, m.running[k].call, 0) \/ StopAfter(P, m.running[k].ts)
      BY <2>6, <3>1 DEF Alone
    <3>3. ~(e.ts >= m.running[k].ts)
      BY <1>1, <1>3, <2>1, <3>1
    <3>4. StopAfter(P, m.running[k].ts) => StopAfter(Q, m.running[k].ts)
      BY <3>3 DEF StopAfter
    <3> QED BY <2>4, <3>2, <3>4
  <2>7. \A d \in Q : d.kind = "post" => \A p \in m.early : p.call # d.call
    BY <2>2 DEF Alone
  <2> QED BY <2>3, <2>5, <2>6, <2>7 DEF Alone, m
<1> QED BY <1>1, <1>5, <1>6, <1>7, LineFacts

-----------------------------------------------------------------------------
(* What is read and applied in one tick *)

LEMMA FitsFacts == ASSUME ToolInv PROVE Fits(Pending)
BY DEF ToolInv, LinesFit, Fits

LEMMA PastRipe ==
  ASSUME NEW l \in Lives, clock \in Nat, Past(l), NEW d \in Lines, ~Ripe(d)
  PROVE  d.ts > l.cleared /\ \A i \in DOMAIN l.running : l.running[i].ts <= d.ts
<1>1. ~(d.ts + Window <= clock) /\ d.ts \in Nat \ {0} /\ Window \in Nat /\ l.cleared \in Nat
  BY LineFacts, LifeFacts, SlackFacts DEF Ripe
<1>2. d.ts > l.cleared
  <2>1. l.cleared # 0 => l.cleared + Window <= clock
    BY DEF Past
  <2> QED BY <1>1, <2>1
<1>3. ASSUME NEW i \in DOMAIN l.running PROVE l.running[i].ts <= d.ts
  <2>1. l.running[i].ts + Window <= clock /\ l.running[i].ts \in Nat
    BY LifeFacts DEF Past
  <2> QED BY <1>1, <2>1
<1> QED BY <1>2, <1>3

LEMMA FlushFacts ==
  ASSUME ToolInv, NEW hint, hint = {} \/ hint = {StatuslineHint}, NEW rank \in Ranks
  PROVE  LET E == held \cup NewLines \cup hint
             U == {e \in E : ~Ripe(e)}
             m == Purged(Applied(life, {e \in E : Ripe(e)}, rank))
         IN /\ m \in Lives /\ U \subseteq Lines /\ IsFiniteSet(U) /\ U \subseteq In \cup hint
            /\ Past(m) /\ life.cleared <= m.cleared
            /\ ~overran => AfterClear(m) /\ \A e \in U : e.ts > m.cleared
            /\ Punctual => Counted(m, flying \cup U) /\ InTurn(m, U)
            /\ OnlyOne /\ ~lost => Alone(m, flying \cup U)
<1> DEFINE E == held \cup NewLines \cup hint
           R == {e \in E : Ripe(e)}
           U == {e \in E : ~Ripe(e)}
           others == flying \cup U
           A(w) == Past(w.life) /\ life.cleared <= w.life.cleared
           B(w) == ~overran => AfterClear(w.life) /\ NotBefore(w.life, w.left)
           C(w) == Punctual => Counted(w.life, w.left \cup others) /\ InTurn(w.life, w.left \cup others)
           D(w) == OnlyOne /\ ~lost => Alone(w.life, w.left \cup others)
           G == {w \in [life : Lives, left : SUBSET R] : A(w) /\ B(w) /\ C(w) /\ D(w)}
           start == [life |-> life, left |-> R]
<1>1. /\ clock \in Nat \ {0} /\ reported \in [Tools -> {"no", "running", "done"}]
      /\ flying \subseteq HookLines /\ log \subseteq HookLines /\ old \subseteq HookLines /\ held \subseteq Lines
      /\ IsFiniteSet(log) /\ IsFiniteSet(old) /\ IsFiniteSet(held) /\ IsFiniteSet(flying) /\ life \in Lives
      /\ overran \in BOOLEAN /\ lost \in BOOLEAN
  BY DEF ToolInv, ToolTypeOK
<1>2. hint \subseteq Hints /\ IsFiniteSet(hint) /\ \A e \in hint : e.ts = clock /\ e.kind = "hint" /\ e \notin CallLines
  <2>1. StatuslineHint \in Hints /\ StatuslineHint.ts = clock /\ StatuslineHint.kind = "hint" /\ StatuslineHint \notin CallLines
    BY <1>1 DEF StatuslineHint, Hints, CallLines
  <2>2. IsFiniteSet({}) /\ IsFiniteSet({StatuslineHint})
    BY FS_EmptySet, FS_Singleton
  <2> QED BY <2>1, <2>2
<1>3. E = In \cup hint /\ E \subseteq Lines /\ IsFiniteSet(E) /\ flying \subseteq Lines
  <2>1. E = In \cup hint
    BY DEF NewLines, In
  <2>2. IsFiniteSet(old \cup log)
    BY <1>1, FS_Union
  <2>3. IsFiniteSet(held \cup (old \cup log))
    BY <1>1, <2>2, FS_Union
  <2>4. IsFiniteSet((held \cup (old \cup log)) \cup hint)
    BY <1>2, <2>3, FS_Union
  <2> QED BY <1>1, <1>2, <2>1, <2>4 DEF NewLines, Lines
<1>4. R \subseteq Lines /\ U \subseteq Lines /\ IsFiniteSet(R) /\ IsFiniteSet(U) /\ others \subseteq Lines
  BY <1>3, FS_Subset
<1>5. Pending \cup hint = R \cup others /\ R \cup others \subseteq Lines
  BY <1>3, <1>4 DEF Pending
<1>6. Fits(R \cup others)
  <2>1. Fits(Pending)
    BY FitsFacts
  <2> QED BY <1>2, <1>5, <2>1 DEF Fits
<1>7. \A e \in R \cup others : e.ts <= clock /\ e.ts \in Nat \ {0}
  <2>1. \A e \in Pending : e.ts <= clock
    BY DEF ToolInv, LinesFit
  <2> QED BY <1>1, <1>2, <1>5, <2>1, LineFacts
<1>8. \A e \in R : e.ts + Window <= clock
  BY DEF Ripe
<1>9. \A d \in U : ~Ripe(d)
  OBVIOUS
<1>10. Punctual => \A d \in others : ~Ripe(d)
  BY <1>9 DEF Punctual
<1>11. \A e \in R : e \in CallLines => e \notin others
  <2>1. \A e \in flying : e \in CallLines => e \notin In
    BY DEF ToolInv, LinesFit
  <2> QED BY <1>2, <1>3, <2>1
<1> HIDE DEF E, R, U, others
<1>12. start \in G
  <2>1. start.life = life /\ start.left = R /\ start \in [life : Lives, left : SUBSET R]
    BY <1>1
  <2>2. A(start)
    BY <1>1, <2>1, LifeFacts DEF ToolInv
  <2>3. B(start)
    <3> SUFFICES ASSUME ~overran PROVE AfterClear(life) /\ NotBefore(life, R)
      BY <2>1
    <3>1. AfterClear(life) /\ \A e \in In : e.ts > life.cleared
      BY DEF ToolInv, Resynced
    <3>2. ASSUME NEW e \in R PROVE e.ts >= life.cleared /\ (e.kind = "pre" => e.ts > life.cleared)
      <4>1. CASE e \in In
        <5>1. e.ts > life.cleared /\ e.ts \in Nat /\ life.cleared \in Nat
          BY <1>1, <1>7, <3>1, <4>1, LifeFacts
        <5> QED BY <5>1
      <4>2. CASE e \in hint
        <5>1. e.ts = clock /\ e.kind = "hint" /\ clock \in Nat
          BY <1>1, <1>2, <4>2
        <5>2. life.cleared \in Nat /\ (life.cleared # 0 => life.cleared + Window <= clock)
          BY <1>1, LifeFacts DEF ToolInv, Past
        <5>3. life.cleared <= clock
          BY <5>1, <5>2, SlackFacts
        <5> QED BY <5>1, <5>3
      <4> QED BY <1>3, <4>1, <4>2 DEF R
    <3> QED BY <3>1, <3>2 DEF NotBefore
  <2>4. C(start)
    <3> SUFFICES ASSUME Punctual PROVE Counted(life, R \cup others) /\ InTurn(life, R \cup others)
      BY <2>1
    <3>1. Counted(life, Pending) /\ InTurn(life, In)
      BY DEF ToolInv, NoneTooMany
    <3>2. \A x : \A t : PostAfter(R \cup others, t, x) <=> PostAfter(Pending, t, x)
      BY <1>2, <1>5 DEF PostAfter
    <3>3. \A x : StopAfter(R \cup others, x) <=> StopAfter(Pending, x)
      BY <1>2, <1>5 DEF StopAfter
    <3>4. Open(R \cup others) = Open(Pending)
      <4>1. \A t \in Tools : (\A e \in R \cup others : ~(e.kind = "pre" /\ e.call = t))
                             <=> (\A e \in Pending : ~(e.kind = "pre" /\ e.call = t))
        BY <1>2, <1>5
      <4> QED BY <3>2, <4>1 DEF Open
    <3>5. NoStop(R \cup others) => NoStop(Pending)
      BY <1>5 DEF NoStop
    <3>6. \A e \in R \cup others : e.kind = "pre" => e \in Pending
      BY <1>2, <1>5
    <3>7. Counted(life, R \cup others)
      BY <3>1, <3>2, <3>3, <3>4, <3>5, <3>6 DEF Counted
    <3>8. ASSUME NEW e \in R \cup others, NEW i \in DOMAIN life.running PROVE life.running[i].ts <= e.ts
      <4>1. CASE e \in In
        BY <3>1, <4>1 DEF InTurn
      <4>2. CASE e \in hint
        <5>1. life.running[i].ts + Window <= clock /\ life.running[i].ts \in Nat
          BY <1>1, LifeFacts DEF ToolInv, Past
        <5> QED BY <1>1, <1>2, <4>2, <5>1, SlackFacts
      <4>3. CASE e \in flying
        <5>1. Past(life) /\ ~Ripe(e) /\ e \in Lines /\ clock \in Nat
          BY <1>1, <1>3, <4>3 DEF ToolInv, Punctual
        <5> QED BY <1>1, <5>1, PastRipe
      <4> QED BY <1>5, <4>1, <4>2, <4>3 DEF Pending
    <3> QED BY <3>7, <3>8 DEF InTurn
  <2>5. D(start)
    <3> SUFFICES ASSUME OnlyOne, ~lost PROVE Alone(life, R \cup others)
      BY <2>1
    <3>1. Alone(life, Pending)
      BY DEF ToolInv, OneIsRight
    <3>2. \A t, x : PostAfter(R \cup others, t, x) <=> PostAfter(Pending, t, x)
      BY <1>2, <1>5 DEF PostAfter
    <3>3. \A x : StopAfter(R \cup others, x) <=> StopAfter(Pending, x)
      BY <1>2, <1>5 DEF StopAfter
    <3>4. \A e \in R \cup others : e.kind \in {"pre", "post"} => e \in Pending
      BY <1>2, <1>5
    <3> QED BY <3>1, <3>2, <3>3, <3>4 DEF Alone, WaitsFor
  <2> QED BY <2>1, <2>2, <2>3, <2>4, <2>5
<1>13. ASSUME NEW w \in G, w.left # {} PROVE NextLine(w, rank) \in G
  <2> DEFINE l == w.life
             S == w.left
             e == First(S, rank)
             P == S \cup others
             Q == (S \ {e}) \cup others
             m == Effect(l, e)
             v == [life |-> m, left |-> S \ {e}]
  <2>1. l \in Lives /\ S \in SUBSET R /\ A(w) /\ B(w) /\ C(w) /\ D(w)
    OBVIOUS
  <2>2. NextLine(w, rank) = v
    BY DEF NextLine
  <2>3. e \in S /\ \A d \in S \ {e} : Before(e, d, rank)
    BY <1>4, <1>13, <2>1, FirstFacts
  <2> HIDE DEF G, A, B, C, D, e, l, S, m, v
  <2>4. e \in Lines /\ e.ts + Window <= clock /\ e.ts \in Nat /\ e.ts <= clock
    BY <1>4, <1>7, <1>8, <2>1, <2>3
  <2>5. P \subseteq R \cup others /\ P \in SUBSET Lines /\ e \in P
    BY <1>5, <2>1, <2>3
  <2>6. Fits(P)
    BY <1>6, <2>5 DEF Fits
  <2>7. m \in Lives
    BY <2>1, <2>4, EffectFacts DEF m
  <2>8. Past(m) /\ l.cleared <= m.cleared
    <3>1. Past(l) /\ clock \in Nat
      BY <1>1, <2>1 DEF A, l
    <3>2. (e.kind = "pre" => reported[e.call] # "no") /\ (e.kind = "post" => reported[e.call] = "done")
      BY <2>5, <2>6 DEF Fits
    <3> QED BY <2>1, <2>4, <3>1, <3>2, PastStep DEF m
  <2>9. v.life = m /\ v.left = S \ {e} /\ v \in [life : Lives, left : SUBSET R]
    BY <2>1, <2>7 DEF v
  <2>10. A(v)
    <3>1. life.cleared <= l.cleared /\ life.cleared \in Nat /\ l.cleared \in Nat /\ m.cleared \in Nat
      BY <1>1, <2>1, <2>7, LifeFacts DEF A, l
    <3> QED BY <2>8, <2>9, <3>1 DEF A
  <2>11. B(v)
    <3> SUFFICES ASSUME ~overran PROVE AfterClear(m) /\ NotBefore(m, S \ {e})
      BY <2>9 DEF B
    <3>1. AfterClear(l) /\ NotBefore(l, S) /\ S \in SUBSET Lines
      BY <1>4, <2>1 DEF B, l, S
    <3> QED BY <2>1, <2>3, <3>1, ClearStep DEF m
  <2>12. C(v)
    <3> SUFFICES ASSUME Punctual PROVE Counted(m, Q) /\ InTurn(m, Q)
      BY <2>9 DEF C
    <3>1. Counted(l, P) /\ InTurn(l, P)
      BY <2>1 DEF C, l, S
    <3>2. e \notin others
      <4>1. Ripe(e)
        BY <2>4 DEF Ripe
      <4> QED BY <1>10, <4>1
    <3>3. Q = P \ {e}
      BY <3>2
    <3>4. Foremost(e, P)
      <4> SUFFICES ASSUME NEW d \in P \ {e}
                   PROVE  e.ts < d.ts \/ (e.ts = d.ts /\ (Priority(e.kind) < Priority(d.kind) \/ e.kind = d.kind))
        BY DEF Foremost
      <4>1. CASE d \in S
        BY <2>3, <4>1 DEF Before
      <4>2. CASE d \in others
        <5>1. ~(d.ts + Window <= clock) /\ d.ts \in Nat
          BY <1>7, <1>10, <4>2 DEF Ripe
        <5> QED BY <1>1, <2>4, <5>1, SlackFacts
      <4> QED BY <4>1, <4>2
    <3> QED BY <1>1, <2>1, <2>5, <2>6, <3>1, <3>3, <3>4, CountStep DEF m
  <2>13. D(v)
    <3> SUFFICES ASSUME OnlyOne, ~lost PROVE Alone(m, Q)
      BY <2>9 DEF D
    <3>1. Alone(l, P) /\ Past(l)
      BY <2>1 DEF D, A, l, S
    <3>2. Q \in SUBSET P /\ P \ {e} \subseteq Q
      OBVIOUS
    <3>3. e \in CallLines => e \notin Q
      BY <1>11, <2>1, <2>3
    <3>4. ASSUME NEW d \in Q, e.kind = "post", d.kind = "pre" PROVE e.ts <= d.ts + MatchWindow
      <4>0. d.ts \in Nat /\ MatchWindow \in Nat /\ Delay \in Nat /\ Window \in Nat
        BY <1>7, <2>5, <3>2, SlackFacts
      <4>1. CASE d \in S \ {e}
        <5>1. e.ts <= d.ts
          BY <2>3, <2>4, <4>0, <4>1 DEF Before
        <5> QED BY <2>4, <4>0, <5>1
      <4>2. CASE d \in U
        <5>1. ~(d.ts + Window <= clock)
          BY <1>9, <4>2 DEF Ripe
        <5> QED BY <1>1, <2>4, <4>0, <5>1
      <4>3. CASE d \in flying
        <5>1. clock <= d.ts + Delay
          BY <4>3 DEF ToolInv, LinesFit
        <5> QED BY <1>1, <2>4, <4>0, <5>1, LatenessAssumption
      <4> QED BY <4>1, <4>2, <4>3 DEF others
    <3> HIDE DEF P, Q
    <3> QED BY <1>1, <2>1, <2>5, <2>6, <3>1, <3>2, <3>3, <3>4, AloneStep DEF m
  <2> QED BY <2>2, <2>9, <2>10, <2>11, <2>12, <2>13 DEF G
<1>14. \A w \in G : w.left \subseteq Lines
  BY <1>4
<1> HIDE DEF G
<1>15. PICK w \in G : w.left = {} /\ w.life = Applied(life, R, rank)
  BY <1>4, <1>12, <1>13, <1>14, AppliedIn
<1> DEFINE l == w.life
           m == Purged(l)
<1>16. l \in Lives /\ A(w) /\ B(w) /\ C(w) /\ D(w) /\ {} \cup others = others
  BY <1>15 DEF G
<1>17. /\ m \in Lives /\ m.running = l.running /\ m.finished = l.finished /\ m.cleared = l.cleared
       /\ m.early \subseteq l.early /\ m.hints \subseteq l.hints
       /\ \A p \in l.early : clock <= p.ts + Ttl => p \in m.early
       /\ \A h \in l.hints : clock <= h + Ttl => h \in m.hints
  BY <1>16, PurgedFacts
<1> HIDE DEF m
<1>18. Past(m) /\ life.cleared <= m.cleared
  BY <1>16, <1>17 DEF A, Past
<1>19. ~overran => AfterClear(m) /\ \A e \in U : e.ts > m.cleared
  <2>1. \A e \in U : e.ts > m.cleared
    BY <1>1, <1>4, <1>9, <1>17, <1>18, PastRipe
  <2> QED BY <1>16, <1>17, <2>1 DEF B, AfterClear
<1>20. Punctual => Counted(m, others) /\ InTurn(m, U)
  <2> SUFFICES ASSUME Punctual PROVE Counted(m, others) /\ InTurn(m, U)
    OBVIOUS
  <2>1. Counted(l, others) /\ InTurn(l, others)
    BY <1>15, <1>16 DEF C
  <2> QED BY <1>17, <2>1 DEF Counted, InTurn, others
<1>21. OnlyOne /\ ~lost => Alone(m, others)
  <2> SUFFICES ASSUME OnlyOne, ~lost PROVE Alone(m, others)
    OBVIOUS
  <2>1. Alone(l, others)
    BY <1>15, <1>16 DEF D
  <2>2. ASSUME NEW d \in others, d.kind = "pre", WaitsFor(l, others, d) PROVE WaitsFor(m, others, d)
    <3>1. clock <= d.ts + Ttl /\ d.ts \in Nat
      <4>0. d.ts \in Nat /\ Ttl \in Nat /\ Delay \in Nat /\ Window \in Nat
        BY <1>7, SlackFacts
      <4>1. CASE d \in U
        <5>1. ~(d.ts + Window <= clock)
          BY <1>9, <4>1 DEF Ripe
        <5> QED BY <1>1, <4>0, <5>1, LatenessAssumption
      <4>2. CASE d \in flying
        <5>1. clock <= d.ts + Delay
          BY <4>2 DEF ToolInv, LinesFit
        <5> QED BY <1>1, <4>0, <5>1, LatenessAssumption
      <4> QED BY <4>0, <4>1, <4>2 DEF others
    <3>2. \A p \in l.early : p.ts \in Nat
      BY <1>16, LifeFacts DEF Calls
    <3>3. \A h \in l.hints : h \in Nat
      BY <1>16, LifeFacts
    <3>4. \A p \in l.early : p.ts >= d.ts => p \in m.early
      BY <1>1, <1>17, <3>1, <3>2, SlackFacts
    <3>5. \A h \in l.hints : h >= d.ts => h \in m.hints
      BY <1>1, <1>17, <3>1, <3>3, SlackFacts
    <3> QED BY <2>2, <3>4, <3>5 DEF WaitsFor
  <2> QED BY <1>17, <2>1, <2>2 DEF Alone
<1>22. m = Purged(Applied(life, R, rank))
  BY <1>15 DEF m
<1>23. U \subseteq In \cup hint
  BY <1>3 DEF U
<1> QED BY <1>4, <1>17, <1>18, <1>19, <1>20, <1>21, <1>22, <1>23 DEF E, R, U, others

-----------------------------------------------------------------------------
(* The steps *)

\* Everything but the clock of the tick, the watchdog and what the hooks have open.
Same == UNCHANGED <<clock, reported, flying, log, old, held, life, disk, lost, overran>>

LEMMA SameKeeps ==
  ASSUME ToolInv, Same, ToolTypeOK', Sent'
  PROVE  ToolInv'
<1>1. LinesFit' /\ Past(life)' /\ Past(disk)' /\ Resynced'
  BY DEF ToolInv, Same, LinesFit, Past, Resynced, AfterClear, Pending, In
<1>2. NoneTooMany'
  BY DEF ToolInv, Same, NoneTooMany, Punctual, Ripe, Counted, InTurn, Pending, In, Open, PostAfter, StopAfter, NoStop
<1>3. OneIsRight'
  BY DEF ToolInv, Same, OneIsRight, OnlyOne, Alone, WaitsFor, Pending, In, PostAfter, StopAfter
<1> QED BY <1>1, <1>2, <1>3 DEF ToolInv

LEMMA CandidateFacts ==
  ASSUME ToolTypeOK, Candidate.call # NoCall
  PROVE  Candidate.call \in Running(life) /\ Candidate.call \in Tools
<1>1. life \in Lives
  BY DEF ToolTypeOK
<1>2. life.running # <<>>
  BY DEF Candidate
<1>3. /\ DOMAIN life.running = 1..Len(life.running) /\ Len(life.running) \in Nat
      /\ \A i \in DOMAIN life.running : life.running[i].call \in Tools /\ life.running[i].ts \in Nat
      /\ life.running \in Seq(Calls)
  BY <1>1, LifeFacts
<1>4. DOMAIN life.running # {}
  BY <1>2, <1>3
<1>5. PICK x \in {life.running[i].ts : i \in DOMAIN life.running} :
        \A y \in {life.running[i].ts : i \in DOMAIN life.running} : x <= y
  <2>1. {life.running[i].ts : i \in DOMAIN life.running} \subseteq Nat
        /\ {life.running[i].ts : i \in DOMAIN life.running} # {}
    BY <1>3, <1>4
  <2> QED BY <2>1, Least
<1>6. PICK i \in {j \in DOMAIN life.running : life.running[j].ts = x} :
        \A k \in {j \in DOMAIN life.running : life.running[j].ts = x} : i <= k
  <2> DEFINE I == {j \in DOMAIN life.running : life.running[j].ts = x}
  <2>1. I \subseteq Nat /\ I # {}
    BY <1>3, <1>5
  <2> HIDE DEF I
  <2>2. \E i \in I : \A k \in I : i <= k
    BY <2>1, Least
  <2> QED BY <2>2 DEF I
<1>7. i \in DOMAIN life.running /\ \A j \in DOMAIN life.running :
        \/ life.running[i].ts < life.running[j].ts
        \/ life.running[i].ts = life.running[j].ts /\ i <= j
  <2>1. i \in DOMAIN life.running /\ life.running[i].ts = x
    BY <1>6
  <2>2. ASSUME NEW j \in DOMAIN life.running
        PROVE  \/ life.running[i].ts < life.running[j].ts
               \/ life.running[i].ts = life.running[j].ts /\ i <= j
    <3>1. x <= life.running[j].ts /\ life.running[j].ts \in Nat /\ x \in Nat
      BY <1>3, <1>5, <2>1
    <3>2. life.running[j].ts = x => i <= j
      BY <1>6
    <3> QED BY <2>1, <3>1, <3>2
  <2> QED BY <2>1, <2>2
<1>8. \E j \in DOMAIN life.running : Candidate = life.running[j]
  BY <1>2, <1>7 DEF Candidate
<1> QED BY <1>3, <1>8 DEF Running

LEMMA DogFacts ==
  ASSUME ToolTypeOK
  PROVE  /\ NoDog \in [call : Tools \cup {NoCall}, sentAt : Nat, retryAt : Nat, escalated : BOOLEAN]
         /\ NoDog.sentAt = 0 /\ NoDog.escalated = FALSE
         /\ dog = [call |-> dog.call, sentAt |-> dog.sentAt, retryAt |-> dog.retryAt, escalated |-> dog.escalated]
         /\ dog.call \in Tools \cup {NoCall} /\ dog.sentAt \in Nat /\ dog.retryAt \in Nat /\ dog.escalated \in BOOLEAN
BY DEF ToolTypeOK, NoDog

\* What the watchdog does with its episode.
LEMMA LooksStep ==
  ASSUME ToolInv, WatchdogClears \/ WatchdogObserves \/ WatchdogWaits \/ WatchdogInterrupts \/ WatchdogEscalates
  PROVE  ToolInv'
<1> DEFINE Dogs == [call : Tools \cup {NoCall}, sentAt : Nat, retryAt : Nat, escalated : BOOLEAN]
<1>1. /\ ToolTypeOK /\ Sent /\ clock \in Nat \ {0} /\ dog \in Dogs /\ hit \subseteq Tools /\ NoDog \in Dogs
      /\ NoDog.sentAt = 0
  BY DogFacts DEF ToolInv, ToolTypeOK
<1>2. phase' = "done" /\ Same /\ UNCHANGED <<stops, oldFlying, draining, restarts>>
  BY DEF WatchdogClears, WatchdogObserves, WatchdogWaits, WatchdogInterrupts, WatchdogEscalates, Looks, Keeps, Same,
         toolVars, stream, trouble
<1>3. dog' \in Dogs /\ hit' \subseteq Tools /\ Sent'
  <2>1. CASE WatchdogClears \/ WatchdogObserves \/ WatchdogWaits
    <3>1. hit' = hit /\ (dog' = NoDog \/ dog' = dog)
      BY <2>1 DEF WatchdogClears, WatchdogObserves, WatchdogWaits
    <3> QED BY <1>1, <3>1 DEF Sent
  <2>2. CASE WatchdogInterrupts
    <3>1. Candidate.call \in Tools
      BY <1>1, <2>2, CandidateFacts DEF WatchdogInterrupts, InTime
    <3>2. CASE dog' = [NoDog EXCEPT !.call = Candidate.call, !.sentAt = clock] /\ hit' = hit \cup {Candidate.call}
      <4>1. dog' = [call |-> Candidate.call, sentAt |-> clock, retryAt |-> 0, escalated |-> FALSE]
        BY <3>2 DEF NoDog
      <4> QED BY <1>1, <3>1, <3>2, <4>1 DEF Sent
    <3>3. CASE dog' = [NoDog EXCEPT !.call = Candidate.call, !.retryAt = clock + Cooldown] /\ hit' = hit
      <4>1. dog' = [call |-> Candidate.call, sentAt |-> 0, retryAt |-> clock + Cooldown, escalated |-> FALSE]
        BY <3>3 DEF NoDog
      <4>2. clock + Cooldown \in Nat
        BY <1>1, ToolAssumption
      <4> QED BY <1>1, <3>1, <3>3, <4>1, <4>2 DEF Sent
    <3> QED BY <2>2, <3>2, <3>3 DEF WatchdogInterrupts
  <2>3. CASE WatchdogEscalates
    <3>1. hit' = hit /\ dog' = [dog EXCEPT !.escalated = TRUE]
      BY <2>3 DEF WatchdogEscalates
    <3>2. dog' = [call |-> dog.call, sentAt |-> dog.sentAt, retryAt |-> dog.retryAt, escalated |-> TRUE]
      BY <1>1, <3>1, DogFacts
    <3>3. dog' \in Dogs
      BY <1>1, <3>2, DogFacts
    <3>4. Sent'
      BY <1>1, <3>1, <3>2 DEF Sent
    <3> QED BY <1>1, <3>1, <3>3, <3>4
  <2> QED BY <2>1, <2>2, <2>3
<1>4. ToolTypeOK'
  BY <1>1, <1>2, <1>3 DEF ToolTypeOK, Same
<1> QED BY <1>2, <1>3, <1>4, SameKeeps

LEMMA ReadStep == ASSUME ToolInv, ReadAndApply PROVE ToolInv'
<1>1. /\ phase' = "save" /\ old' = {} /\ log' = {}
      /\ UNCHANGED <<clock, reported, stops, flying, oldFlying, disk, dog, hit, restarts, lost, overran>>
      /\ draining' \in BOOLEAN
  BY DEF ReadAndApply, trouble, DrainEnds, ToolInv, ToolTypeOK
<1>2. PICK hint \in {{}} \cup (IF HintDue THEN {{StatuslineHint}} ELSE {}) : Flush(held \cup NewLines \cup hint)
  BY DEF ReadAndApply
<1> DEFINE E == held \cup NewLines \cup hint
<1>3. PICK rank \in Ranks : life' = Purged(Applied(life, {e \in E : Ripe(e)}, rank))
  BY <1>2 DEF Flush
<1>4. held' = {e \in E : ~Ripe(e)}
  BY <1>2 DEF Flush
<1>5. hint = {} \/ hint = {StatuslineHint}
  BY <1>2
<1>6. /\ life' \in Lives /\ held' \subseteq Lines /\ IsFiniteSet(held') /\ held' \subseteq In \cup hint
      /\ Past(life') /\ life.cleared <= life'.cleared
      /\ ~overran => AfterClear(life') /\ \A e \in held' : e.ts > life'.cleared
      /\ Punctual => Counted(life', flying \cup held') /\ InTurn(life', held')
      /\ OnlyOne /\ ~lost => Alone(life', flying \cup held')
  BY <1>3, <1>4, <1>5, FlushFacts
<1>7. In' = held' /\ Pending' = flying \cup held'
  BY <1>1 DEF In, Pending
<1>8. \A e \in hint : e.ts = clock /\ e.kind = "hint" /\ e \notin CallLines
  BY <1>5 DEF StatuslineHint, CallLines
<1>9. ToolTypeOK /\ clock \in Nat \ {0} /\ life \in Lives /\ disk \in Lives
  BY DEF ToolInv, ToolTypeOK
<1>10. ToolTypeOK'
  <2>1. IsFiniteSet({})
    BY FS_EmptySet
  <2> QED BY <1>1, <1>6, <1>9, <2>1 DEF ToolTypeOK
<1>11. LinesFit'
  <2>1. \A e \in flying \cup held' : e \in Pending \/ e \in hint
    BY <1>6 DEF Pending
  <2>2. LinesFit
    BY DEF ToolInv
  <2>3. \A e \in Pending' : /\ e.ts <= clock
                            /\ e.kind = "pre" => reported[e.call] # "no"
                            /\ e.kind = "post" => reported[e.call] = "done"
    BY <1>7, <1>8, <1>9, <2>1, <2>2 DEF LinesFit
  <2>4. \A d, e \in Pending' : d \in CallLines /\ e \in CallLines /\ d.kind = e.kind /\ d.call = e.call => d = e
    BY <1>7, <1>8, <2>1, <2>2 DEF LinesFit
  <2>5. \A e \in flying : e \in CallLines => e \notin held'
    BY <1>6, <1>8, <2>2 DEF LinesFit
  <2>6. \A e \in flying : clock <= e.ts + Delay
    BY <2>2 DEF LinesFit
  <2> QED BY <1>1, <1>7, <2>3, <2>4, <2>5, <2>6 DEF LinesFit
<1>12. Past(life)' /\ Past(disk)'
  BY <1>1, <1>6 DEF Past, ToolInv
<1>13. Resynced'
  <2>1. disk.cleared <= life.cleared /\ (~overran => AfterClear(disk))
    BY DEF ToolInv, Resynced
  <2>2. disk.cleared <= life'.cleared
    BY <1>6, <1>9, <2>1, LifeFacts
  <2> QED BY <1>1, <1>6, <1>7, <2>1, <2>2 DEF Resynced, AfterClear
<1>14. NoneTooMany'
  <2> SUFFICES ASSUME Punctual' PROVE Counted(life, Pending)' /\ InTurn(life, In)'
    BY DEF NoneTooMany
  <2>1. Punctual
    BY <1>1 DEF Punctual, Ripe
  <2>2. Counted(life', Pending') /\ InTurn(life', In')
    BY <1>6, <1>7, <2>1
  <2> QED BY <1>1, <2>2 DEF Counted, InTurn, Open, PostAfter, StopAfter, NoStop
<1>15. OneIsRight'
  <2> SUFFICES ASSUME OnlyOne', ~lost' PROVE Alone(life, Pending)'
    BY DEF OneIsRight
  <2>1. OnlyOne /\ ~lost
    BY <1>1 DEF OnlyOne
  <2>2. Alone(life', Pending')
    BY <1>6, <1>7, <2>1
  <2> QED BY <1>1, <2>2 DEF Alone, WaitsFor, PostAfter, StopAfter
<1>16. Sent'
  BY <1>1 DEF ToolInv, Sent
<1> QED BY <1>10, <1>11, <1>12, <1>13, <1>14, <1>15, <1>16 DEF ToolInv

LEMMA PendingFacts ==
  ASSUME ToolInv
  PROVE  /\ \A e \in Pending : e \in Lines /\ e.ts \in Nat \ {0} /\ e.ts <= clock
         /\ \A e \in Pending : e.kind \in {"pre", "post"} => e.call \in Tools /\ e \in CallLines
         /\ clock \in Nat \ {0} /\ life \in Lives /\ disk \in Lives
         /\ reported \in [Tools -> {"no", "running", "done"}]
<1>1. ToolTypeOK /\ \A e \in Pending : e.ts <= clock
  BY DEF ToolInv, LinesFit
<1>2. Pending \subseteq Lines
  BY <1>1 DEF ToolTypeOK, Pending, In, Lines
<1>3. \A e \in Pending : e \in Lines /\ e.ts \in Nat \ {0} /\ (e.kind \in {"pre", "post"} => e.call \in Tools /\ e \in CallLines)
  BY <1>2, LineFacts
<1> QED BY <1>1, <1>3 DEF ToolTypeOK

LEMMA TimeStep == ASSUME ToolInv, ToolTime PROVE ToolInv'
<1>1. /\ clock' = clock + 1 /\ phase' = "read" /\ \A e \in flying : clock + 1 < e.ts + Delay
      /\ UNCHANGED <<reported, stops, flying, oldFlying, log, old, draining, held, life, disk, dog, hit, restarts, lost, overran>>
  BY DEF ToolTime, stream, trouble
<1>2. ToolTypeOK /\ clock \in Nat \ {0} /\ clock' \in Nat \ {0} /\ life \in Lives /\ disk \in Lives
  BY <1>1 DEF ToolInv, ToolTypeOK
<1>3. ToolTypeOK'
  BY <1>1, <1>2 DEF ToolTypeOK
<1>4. \A e \in Pending : e.ts \in Nat
  BY PendingFacts
<1>5. LinesFit'
  <2>1. \A e \in Pending : e.ts <= clock + 1
    <3>1. \A e \in Pending : e.ts <= clock
      BY DEF ToolInv, LinesFit
    <3> QED BY <1>2, <1>4, <3>1
  <2>2. \A e \in flying : clock + 1 <= e.ts + Delay
    <3>1. \A e \in flying : e.ts \in Nat
      BY <1>4 DEF Pending
    <3> QED BY <1>1, <1>2, <3>1, SlackFacts
  <2> QED BY <1>1, <2>1, <2>2 DEF ToolInv, LinesFit, Pending, In
<1>6. Past(life)' /\ Past(disk)'
  <2> SUFFICES ASSUME NEW l \in Lives, Past(l)
               PROVE  /\ \A i \in DOMAIN l.running : l.running[i].ts + Window <= clock + 1
                      /\ l.cleared # 0 => l.cleared + Window <= clock + 1
    BY <1>1, <1>2 DEF ToolInv, Past
  <2>1. \A i \in DOMAIN l.running : l.running[i].ts \in Nat /\ l.running[i].ts + Window <= clock
    BY LifeFacts DEF Past
  <2>2. l.cleared \in Nat /\ (l.cleared # 0 => l.cleared + Window <= clock)
    BY LifeFacts DEF Past
  <2> QED BY <1>2, <2>1, <2>2, SlackFacts
<1>7. Resynced'
  BY <1>1 DEF ToolInv, Resynced, AfterClear, In
<1>8. NoneTooMany'
  <2> SUFFICES ASSUME Punctual' PROVE Counted(life, Pending)' /\ InTurn(life, In)'
    BY DEF NoneTooMany
  <2>1. Punctual
    <3>1. \A e \in flying : e.ts \in Nat /\ ~(e.ts + Window <= clock + 1)
      BY <1>1, <1>4 DEF Pending, Punctual, Ripe
    <3>2. \A e \in flying : ~(e.ts + Window <= clock)
      BY <1>2, <3>1, SlackFacts
    <3> QED BY <1>1, <3>2 DEF Punctual, Ripe
  <2>2. Counted(life, Pending) /\ InTurn(life, In)
    BY <2>1 DEF ToolInv, NoneTooMany
  <2> QED BY <1>1, <2>2 DEF Counted, InTurn, Open, PostAfter, StopAfter, NoStop, Pending, In
<1>9. OneIsRight'
  BY <1>1 DEF ToolInv, OneIsRight, OnlyOne, Alone, WaitsFor, Pending, In, PostAfter, StopAfter
<1>10. Sent'
  BY <1>1 DEF ToolInv, Sent
<1> QED BY <1>3, <1>5, <1>6, <1>7, <1>8, <1>9, <1>10 DEF ToolInv

\* A hook is called: a line of its own, of this moment, is under way.
Called(n) == flying' = flying \cup {n} /\ UNCHANGED <<clock, stream, monitor, trouble>>

LEMMA CalledKeeps ==
  ASSUME ToolInv, NEW n \in HookLines, n.ts = clock, Called(n),
         reported' \in [Tools -> {"no", "running", "done"}], stops' \in Nat, oldFlying' \subseteq HookLines,
         \A t \in Tools : (reported[t] # "no" => reported'[t] # "no") /\ (reported[t] = "done" => reported'[t] = "done"),
         n.kind = "pre" => reported'[n.call] # "no", n.kind = "post" => reported'[n.call] = "done",
         \A e \in Pending : n \in CallLines => e # n /\ ~(e \in CallLines /\ e.kind = n.kind /\ e.call = n.call)
  PROVE  /\ ToolTypeOK' /\ LinesFit' /\ Past(life)' /\ Past(disk)' /\ Resynced' /\ Sent'
         /\ In' = In /\ Pending' = Pending \cup {n} /\ life' = life /\ lost' = lost
         /\ Punctual' => Punctual
<1>1. /\ flying' = flying \cup {n}
      /\ UNCHANGED <<clock, log, old, draining, held, life, disk, phase, dog, hit, restarts, lost, overran>>
  BY DEF Called, stream, monitor, trouble
<1>2. ToolTypeOK /\ clock \in Nat \ {0} /\ life \in Lives /\ disk \in Lives /\ n \in Lines
  BY DEF ToolInv, ToolTypeOK, Lines
<1>3. ToolTypeOK'
  <2>1. IsFiniteSet(flying')
    BY <1>1, <1>2, FS_AddElement DEF ToolTypeOK
  <2> QED BY <1>1, <1>2, <2>1 DEF ToolTypeOK
<1>4. In' = In /\ Pending' = Pending \cup {n}
  BY <1>1 DEF In, Pending
<1>5. LinesFit'
  <2>1. LinesFit
    BY DEF ToolInv
  <2>2. \A e \in Pending' : /\ e.ts <= clock
                            /\ e.kind = "pre" => reported'[e.call] # "no"
                            /\ e.kind = "post" => reported'[e.call] = "done"
    BY <1>2, <1>4, <2>1, PendingFacts DEF LinesFit
  <2>3. \A d, e \in Pending' : d \in CallLines /\ e \in CallLines /\ d.kind = e.kind /\ d.call = e.call => d = e
    BY <1>4, <2>1 DEF LinesFit
  <2>4. \A e \in flying' : e \in CallLines => e \notin In
    <3>1. n \in CallLines => n \notin In
      BY DEF Pending
    <3> QED BY <1>1, <2>1, <3>1 DEF LinesFit
  <2>5. \A e \in flying' : clock <= e.ts + Delay
    BY <1>1, <1>2, <2>1, SlackFacts DEF LinesFit
  <2> QED BY <1>1, <1>4, <2>2, <2>3, <2>4, <2>5 DEF LinesFit
<1>6. ASSUME NEW l \in Lives, Past(l)
      PROVE  /\ \A i \in DOMAIN l.running : reported'[l.running[i].call] # "no"
             /\ \A t \in l.finished : reported'[t] # "no"
             /\ \A p \in l.early : reported'[p.call] = "done"
  <2>1. \A p \in l.early : p.call \in Tools
    BY LifeFacts DEF Calls
  <2>2. \A i \in DOMAIN l.running : l.running[i].call \in Tools
    BY LifeFacts
  <2>3. l.finished \subseteq Tools
    BY LifeFacts
  <2> QED BY <1>6, <2>1, <2>2, <2>3 DEF Past
<1>7. Past(life)' /\ Past(disk)'
  BY <1>1, <1>2, <1>6 DEF ToolInv, Past
<1>8. Resynced'
  BY <1>1, <1>4 DEF ToolInv, Resynced, AfterClear
<1>9. Punctual' => Punctual
  BY <1>1 DEF Punctual, Ripe
<1> QED BY <1>1, <1>3, <1>4, <1>5, <1>7, <1>8, <1>9 DEF ToolInv, Sent

LEMMA NewLine ==
  ASSUME ToolInv, NEW k \in {"pre", "post"}, NEW t \in Tools
  PROVE  LET n == [kind |-> k, call |-> t, ts |-> clock]
         IN n \in HookLines /\ n \in CallLines /\ n.kind = k /\ n.call = t /\ n.ts = clock
BY DEF ToolInv, ToolTypeOK, HookLines, CallLines

LEMMA StartsStep == ASSUME ToolInv, NEW t \in Tools, CallStarts(t) PROVE ToolInv'
<1> DEFINE n == [kind |-> "pre", call |-> t, ts |-> clock]
<1>1. /\ reported[t] = "no" /\ reported' = [reported EXCEPT ![t] = "running"] /\ Called(n)
      /\ UNCHANGED <<stops, oldFlying>>
  BY DEF CallStarts, Stamp, Called
<1>2. n \in HookLines /\ n \in CallLines /\ n.kind = "pre" /\ n.call = t /\ n.ts = clock
  BY NewLine
<1> HIDE DEF n
<1>3. reported \in [Tools -> {"no", "running", "done"}] /\ stops \in Nat /\ oldFlying \subseteq HookLines /\ life \in Lives
  BY DEF ToolInv, ToolTypeOK
<1>4. /\ reported' \in [Tools -> {"no", "running", "done"}] /\ reported'[t] = "running"
      /\ \A u \in Tools : u # t => reported'[u] = reported[u]
  BY <1>1, <1>3
<1>5. \A e \in Pending : /\ e.kind \in {"pre", "post"} => e.call # t /\ e.call \in Tools
                         /\ e.kind = "pre" => reported[e.call] # "no"
                         /\ e.kind = "post" => reported[e.call] = "done"
  BY <1>1, PendingFacts DEF ToolInv, LinesFit
<1>6. \A e \in Pending : e # n /\ ~(e \in CallLines /\ e.kind = n.kind /\ e.call = n.call)
  BY <1>2, <1>5
<1>7. /\ ToolTypeOK' /\ LinesFit' /\ Past(life)' /\ Past(disk)' /\ Resynced' /\ Sent'
      /\ In' = In /\ Pending' = Pending \cup {n} /\ life' = life /\ lost' = lost
      /\ Punctual' => Punctual
  BY <1>1, <1>2, <1>3, <1>4, <1>6, CalledKeeps
<1>8. NoneTooMany'
  <2> SUFFICES ASSUME Punctual' PROVE Counted(life, Pending)' /\ InTurn(life, In)'
    BY DEF NoneTooMany
  <2>1. Counted(life, Pending) /\ InTurn(life, In)
    BY <1>7 DEF ToolInv, NoneTooMany
  <2>2. \A u, x : PostAfter(Pending, u, x) <=> PostAfter(Pending', u, x)
    BY <1>2, <1>7 DEF PostAfter
  <2>3. \A x : StopAfter(Pending, x) <=> StopAfter(Pending', x)
    BY <1>2, <1>7 DEF StopAfter
  <2>4. Open(Pending)' = Open(Pending)
    <3>1. ASSUME NEW u \in Tools PROVE u \in Open(Pending)' <=> u \in Open(Pending)
      <4>1. CASE u = t
        BY <1>1, <1>2, <1>7, <4>1 DEF Open
      <4>2. CASE u # t
        <5>1. reported'[u] = reported[u]
          BY <1>4, <4>2
        <5>2. (\A e \in Pending' : ~(e.kind = "pre" /\ e.call = u)) <=> (\A e \in Pending : ~(e.kind = "pre" /\ e.call = u))
          BY <1>2, <1>7, <4>2
        <5>3. PostAfter(Pending, u, 0)' <=> PostAfter(Pending, u, 0)
          BY <2>2 DEF PostAfter
        <5> QED BY <5>1, <5>2, <5>3 DEF Open
      <4> QED BY <4>1, <4>2
    <3> QED BY <3>1 DEF Open
  <2>5. NoStop(Pending)' => NoStop(Pending)
    BY <1>7 DEF NoStop
  <2>6. \A e \in Pending' : e.kind = "pre" /\ reported'[e.call] = "done" => e \in Pending /\ reported[e.call] = "done"
    BY <1>2, <1>4, <1>5, <1>7
  <2>7. \A e \in Pending' : e.kind = "pre" /\ reported'[e.call] = "done" =>
          PostAfter(Pending', e.call, e.ts) \/ StopAfter(Pending', e.ts)
    BY <2>1, <2>2, <2>3, <2>6 DEF Counted
  <2>8. Counted(life, Pending)'
    BY <1>7, <2>1, <2>4, <2>5, <2>7 DEF Counted, PostAfter, StopAfter
  <2> QED BY <1>7, <2>1, <2>8 DEF InTurn
<1>9. OneIsRight'
  <2> SUFFICES ASSUME OnlyOne', ~lost' PROVE Alone(life, Pending)'
    BY DEF OneIsRight
  <2>1. \A u \in Tools : reported[u] = "no"
    <3>1. \A u \in Tools : reported[u] # "no" => u = t
      BY <1>4 DEF OnlyOne
    <3> QED BY <1>1, <3>1
  <2>2. life.running = <<>> /\ t \notin life.finished
    <3>1. \A i \in DOMAIN life.running : life.running[i].call \in Tools /\ reported[life.running[i].call] # "no"
      BY <1>3, LifeFacts DEF ToolInv, Past
    <3>2. \A u \in life.finished : reported[u] # "no"
      BY DEF ToolInv, Past
    <3>3. DOMAIN life.running = {}
      BY <2>1, <3>1
    <3>4. life.running = <<>>
      BY <1>3, <3>3, LifeFacts
    <3> QED BY <2>1, <3>2, <3>4
  <2>3. \A e \in Pending : e.kind \notin {"pre", "post"}
    BY <1>5, <2>1
  <2> QED BY <1>2, <1>4, <1>7, <2>2, <2>3 DEF Alone
<1> QED BY <1>7, <1>8, <1>9 DEF ToolInv

LEMMA EndsStep == ASSUME ToolInv, NEW t \in Tools, CallEnds(t) PROVE ToolInv'
<1> DEFINE n == [kind |-> "post", call |-> t, ts |-> clock]
<1>1. /\ reported[t] = "running" /\ reported' = [reported EXCEPT ![t] = "done"] /\ Called(n)
      /\ UNCHANGED <<stops, oldFlying>>
  BY DEF CallEnds, Stamp, Called
<1>2. n \in HookLines /\ n \in CallLines /\ n.kind = "post" /\ n.call = t /\ n.ts = clock
  BY NewLine
<1> HIDE DEF n
<1>3. reported \in [Tools -> {"no", "running", "done"}] /\ stops \in Nat /\ oldFlying \subseteq HookLines /\ life \in Lives
  BY DEF ToolInv, ToolTypeOK
<1>4. /\ reported' \in [Tools -> {"no", "running", "done"}] /\ reported'[t] = "done"
      /\ \A u \in Tools : u # t => reported'[u] = reported[u]
  BY <1>1, <1>3
<1>5. \A e \in Pending : /\ e.kind \in {"pre", "post"} => e.call \in Tools
                         /\ e.kind = "post" => e.call # t
                         /\ e.ts \in Nat /\ e.ts <= clock
  BY <1>1, PendingFacts DEF ToolInv, LinesFit
<1>6. \A e \in Pending : e # n /\ ~(e \in CallLines /\ e.kind = n.kind /\ e.call = n.call)
  BY <1>2, <1>5
<1>7. /\ ToolTypeOK' /\ LinesFit' /\ Past(life)' /\ Past(disk)' /\ Resynced' /\ Sent'
      /\ In' = In /\ Pending' = Pending \cup {n} /\ life' = life /\ lost' = lost
      /\ Punctual' => Punctual
  BY <1>1, <1>2, <1>3, <1>4, <1>6, CalledKeeps
<1>8. \A u, x : PostAfter(Pending, u, x) => PostAfter(Pending', u, x)
  BY <1>7 DEF PostAfter
<1>9. \A x : StopAfter(Pending, x) => StopAfter(Pending', x)
  BY <1>7 DEF StopAfter
<1>10. \A x \in Nat : x <= clock => PostAfter(Pending', t, x)
  BY <1>2, <1>7 DEF PostAfter
<1>11. NoneTooMany'
  <2> SUFFICES ASSUME Punctual' PROVE Counted(life, Pending)' /\ InTurn(life, In)'
    BY DEF NoneTooMany
  <2>1. Counted(life, Pending) /\ InTurn(life, In)
    BY <1>7 DEF ToolInv, NoneTooMany
  <2>2. Open(Pending) \subseteq Open(Pending)'
    <3> SUFFICES ASSUME NEW u \in Open(Pending) PROVE u \in Open(Pending)'
      OBVIOUS
    <3>1. u \in Tools /\ reported[u] # "no" /\ (\A e \in Pending : ~(e.kind = "pre" /\ e.call = u))
          /\ (reported[u] = "running" \/ PostAfter(Pending, u, 0))
      BY DEF Open
    <3>2. \A e \in Pending' : ~(e.kind = "pre" /\ e.call = u)
      BY <1>2, <1>7, <3>1
    <3>3. reported'[u] # "no" /\ (reported'[u] = "running" \/ PostAfter(Pending', u, 0))
      <4>1. CASE u = t
        <5>1. 0 <= clock
          BY PendingFacts
        <5> QED BY <1>4, <1>10, <4>1, <5>1
      <4>2. CASE u # t
        BY <1>4, <1>8, <3>1, <4>2
      <4> QED BY <4>1, <4>2
    <3> QED BY <3>1, <3>2, <3>3 DEF Open, PostAfter
  <2>3. Cardinality(Open(Pending)) <= Cardinality(Open(Pending)')
        /\ Cardinality(Open(Pending)) \in Nat /\ Cardinality(Open(Pending)') \in Nat
    <3>1. Open(Pending)' \subseteq Tools /\ Open(Pending) \subseteq Tools
      BY DEF Open
    <3>2. IsFiniteSet(Open(Pending)') /\ IsFiniteSet(Open(Pending))
      BY <3>1, ToolAssumption, FS_Subset
    <3> QED BY <2>2, <3>2, FS_Subset, FS_CardinalityType
  <2>4. NoStop(Pending)' => Len(life.running) <= Cardinality(Open(Pending)')
    <3>1. NoStop(Pending)' => NoStop(Pending)
      BY <1>7 DEF NoStop
    <3>2. Len(life.running) \in Nat
      BY <1>3, LifeFacts
    <3> QED BY <2>1, <2>3, <3>1, <3>2 DEF Counted
  <2>5. ASSUME NEW e \in Pending', e.kind = "pre", reported'[e.call] = "done"
        PROVE  PostAfter(Pending', e.call, e.ts) \/ StopAfter(Pending', e.ts)
    <3>1. e \in Pending
      BY <1>2, <1>7, <2>5
    <3>2. CASE e.call = t
      BY <1>5, <1>10, <3>1, <3>2
    <3>3. CASE e.call # t
      <4>1. reported[e.call] = "done"
        BY <1>4, <1>5, <2>5, <3>1, <3>3
      <4>2. PostAfter(Pending, e.call, e.ts) \/ StopAfter(Pending, e.ts)
        BY <2>1, <2>5, <3>1, <4>1 DEF Counted
      <4> QED BY <1>8, <1>9, <4>2
    <3> QED BY <3>2, <3>3
  <2>6. Counted(life, Pending)'
    BY <1>7, <2>4, <2>5 DEF Counted, PostAfter, StopAfter
  <2> QED BY <1>7, <2>1, <2>6 DEF InTurn
<1>12. OneIsRight'
  <2> SUFFICES ASSUME OnlyOne', ~lost' PROVE Alone(life, Pending)'
    BY DEF OneIsRight
  <2>1. OnlyOne
    BY <1>1, <1>4 DEF OnlyOne
  <2>2. Alone(life, Pending)
    BY <1>7, <2>1 DEF ToolInv, OneIsRight
  <2>3. ASSUME NEW e \in Pending', e.kind = "pre"
        PROVE  /\ life.running = <<>> /\ e.call \notin life.finished
               /\ reported'[e.call] = "done" => WaitsFor(life, Pending', e)
    <3>1. e \in Pending
      BY <1>2, <1>7, <2>3
    <3>2. CASE e.call = t
      <4>1. PostAfter(Pending', e.call, e.ts)
        BY <1>5, <1>10, <3>1, <3>2
      <4> QED BY <2>2, <2>3, <3>1, <4>1 DEF Alone, WaitsFor
    <3>3. CASE e.call # t
      <4>1. reported'[e.call] = reported[e.call]
        BY <1>4, <1>5, <2>3, <3>1, <3>3
      <4>2. WaitsFor(life, Pending, e) => WaitsFor(life, Pending', e)
        BY <1>8, <1>9 DEF WaitsFor
      <4> QED BY <2>2, <2>3, <3>1, <4>1, <4>2 DEF Alone
    <3> QED BY <3>2, <3>3
  <2>4. \A e \in Pending' : e.kind = "post" => \A p \in life.early : p.call # e.call
    <3>1. \A p \in life.early : p.call # t
      BY <1>1 DEF ToolInv, Past
    <3> QED BY <1>2, <1>7, <2>2, <3>1 DEF Alone
  <2>5. ASSUME NEW i \in DOMAIN life.running, reported'[life.running[i].call] = "done"
        PROVE  PostAfter(Pending', life.running[i].call, 0) \/ StopAfter(Pending', life.running[i].ts)
    <3>0. life.running[i].call \in Tools
      BY <1>3, LifeFacts
    <3>1. CASE life.running[i].call = t
      <4>1. 0 <= clock
        BY PendingFacts
      <4> QED BY <1>10, <3>1, <4>1
    <3>2. CASE life.running[i].call # t
      <4>1. reported[life.running[i].call] = "done"
        BY <1>4, <2>5, <3>0, <3>2
      <4>2. PostAfter(Pending, life.running[i].call, 0) \/ StopAfter(Pending, life.running[i].ts)
        BY <2>2, <4>1 DEF Alone
      <4> QED BY <1>8, <1>9, <4>2
    <3> QED BY <3>1, <3>2
  <2> QED BY <1>7, <2>2, <2>3, <2>4, <2>5 DEF Alone, WaitsFor, PostAfter, StopAfter
<1> QED BY <1>7, <1>11, <1>12 DEF ToolInv

LEMMA TurnStep == ASSUME ToolInv, TurnEnds PROVE ToolInv'
<1> DEFINE n == [kind |-> "stop", call |-> NoCall, ts |-> clock]
<1>1. /\ stops' = stops + 1 /\ Called(n) /\ oldFlying' = oldFlying
      /\ reported' = [t \in Tools |-> IF reported[t] = "running" THEN "done" ELSE reported[t]]
  BY DEF TurnEnds, Stamp, Called
<1>2. n \in HookLines /\ n \notin CallLines /\ n.kind = "stop" /\ n.ts = clock
  BY DEF ToolInv, ToolTypeOK, HookLines, Stops, CallLines
<1> HIDE DEF n
<1>3. reported \in [Tools -> {"no", "running", "done"}] /\ stops \in Nat /\ oldFlying \subseteq HookLines /\ life \in Lives
      /\ clock \in Nat
  BY DEF ToolInv, ToolTypeOK
<1>4. /\ reported' \in [Tools -> {"no", "running", "done"}] /\ stops' \in Nat
      /\ \A t \in Tools : (reported[t] = "no" <=> reported'[t] = "no") /\ (reported[t] = "done" => reported'[t] = "done")
  BY <1>1, <1>3
<1>5. \A e \in Pending : e.ts \in Nat /\ e.ts <= clock /\ (e.kind \in {"pre", "post"} => e.call \in Tools)
  BY PendingFacts
<1>6. /\ ToolTypeOK' /\ LinesFit' /\ Past(life)' /\ Past(disk)' /\ Resynced' /\ Sent'
      /\ In' = In /\ Pending' = Pending \cup {n} /\ life' = life /\ lost' = lost
      /\ Punctual' => Punctual
  BY <1>1, <1>2, <1>3, <1>4, CalledKeeps
<1>7. \A x \in Nat : x <= clock => StopAfter(Pending', x)
  BY <1>2, <1>6 DEF StopAfter
<1>8. NoneTooMany'
  <2> SUFFICES ASSUME Punctual' PROVE Counted(life, Pending)' /\ InTurn(life, In)'
    BY DEF NoneTooMany
  <2>1. InTurn(life, In)
    BY <1>6 DEF ToolInv, NoneTooMany
  <2>2. ~NoStop(Pending)'
    BY <1>2, <1>6 DEF NoStop
  <2>3. \A e \in Pending' : e.kind = "pre" => StopAfter(Pending', e.ts)
    BY <1>2, <1>5, <1>6, <1>7
  <2>4. Counted(life, Pending)'
    BY <2>2, <2>3 DEF Counted, StopAfter
  <2> QED BY <1>6, <2>1, <2>4 DEF InTurn
<1>9. OneIsRight'
  <2> SUFFICES ASSUME OnlyOne', ~lost' PROVE Alone(life, Pending)'
    BY DEF OneIsRight
  <2>1. OnlyOne
    BY <1>4 DEF OnlyOne
  <2>2. Alone(life, Pending)
    BY <1>6, <2>1 DEF ToolInv, OneIsRight
  <2>3. \A e \in Pending' : e.kind \in {"pre", "post"} => e \in Pending
    BY <1>2, <1>6
  <2>4. \A e \in Pending' : e.kind = "pre" => WaitsFor(life, Pending', e)
    BY <1>5, <1>7, <2>3 DEF WaitsFor
  <2>5. \A i \in DOMAIN life.running : StopAfter(Pending', life.running[i].ts)
    <3> SUFFICES ASSUME NEW i \in DOMAIN life.running PROVE StopAfter(Pending', life.running[i].ts)
      OBVIOUS
    <3>1. life.running[i].ts \in Nat /\ life.running[i].ts + Window <= clock
      BY <1>3, LifeFacts DEF ToolInv, Past
    <3>2. life.running[i].ts <= clock
      BY <1>3, <3>1, SlackFacts
    <3> QED BY <1>7, <3>1, <3>2
  <2> QED BY <1>6, <2>2, <2>3, <2>4, <2>5 DEF Alone, WaitsFor, PostAfter, StopAfter
<1> QED BY <1>6, <1>8, <1>9 DEF ToolInv

\* Lines move or are lost; where none is lost they are the same.
LEMMA FewerLines ==
  ASSUME LinesFit, Pending' \subseteq Pending, UNCHANGED <<clock, reported>>, flying' \subseteq flying,
         \A e \in flying' : e \in CallLines => e \notin In'
  PROVE  LinesFit'
<1>1. \A e \in Pending' : /\ e.ts <= clock
                          /\ e.kind = "pre" => reported[e.call] # "no"
                          /\ e.kind = "post" => reported[e.call] = "done"
  BY DEF LinesFit
<1>2. \A d, e \in Pending' : d \in CallLines /\ e \in CallLines /\ d.kind = e.kind /\ d.call = e.call => d = e
  BY DEF LinesFit
<1>3. \A e \in flying' : clock <= e.ts + Delay
  BY DEF LinesFit
<1> QED BY <1>1, <1>2, <1>3 DEF LinesFit

LEMMA SameLines ==
  ASSUME ToolInv, UNCHANGED <<reported, life>>, Pending' = Pending
  PROVE  /\ lost' = lost => OneIsRight'
         /\ Punctual /\ InTurn(life, In') => Counted(life, Pending)' /\ InTurn(life, In)'
<1>1. ASSUME lost' = lost PROVE OneIsRight'
  <2> SUFFICES ASSUME OnlyOne', ~lost' PROVE Alone(life, Pending)'
    BY DEF OneIsRight
  <2>1. Alone(life, Pending)
    BY <1>1 DEF ToolInv, OneIsRight, OnlyOne
  <2> QED BY <2>1 DEF Alone, WaitsFor, PostAfter, StopAfter
<1>2. ASSUME Punctual, InTurn(life, In') PROVE Counted(life, Pending)' /\ InTurn(life, In)'
  <2>1. Counted(life, Pending)
    BY <1>2 DEF ToolInv, NoneTooMany
  <2>2. Counted(life, Pending)'
    BY <2>1 DEF Counted, Open, PostAfter, StopAfter, NoStop
  <2>3. InTurn(life, In)'
    BY <1>2 DEF InTurn
  <2> QED BY <2>2, <2>3
<1> QED BY <1>1, <1>2

LEMMA AppendsStep == ASSUME ToolInv, NEW e \in flying, HookAppends(e) PROVE ToolInv'
<1>1. /\ flying' = flying \ {e} /\ oldFlying' = oldFlying \ {e}
      /\ overran' = (overran \/ e.ts + Window <= clock)
      /\ UNCHANGED <<clock, reported, stops, draining, held, life, disk, phase, dog, hit, restarts>>
  BY DEF HookAppends, monitor
<1>2. \/ log' = log \cup {e} /\ UNCHANGED <<old, lost>>
      \/ old' = old \cup {e} /\ UNCHANGED <<log, lost>>
      \/ lost' = TRUE /\ UNCHANGED <<log, old>>
  BY DEF HookAppends
<1>3. ToolTypeOK /\ e \in HookLines /\ e \in Lines /\ clock \in Nat /\ life \in Lives
  BY DEF ToolInv, ToolTypeOK, Lines
<1>4. ToolTypeOK'
  <2>1. IsFiniteSet(flying')
    BY <1>1, <1>3, FS_Subset DEF ToolTypeOK
  <2>2. IsFiniteSet(log') /\ IsFiniteSet(old') /\ log' \subseteq HookLines /\ old' \subseteq HookLines /\ lost' \in BOOLEAN
    <3>1. IsFiniteSet(log \cup {e}) /\ IsFiniteSet(old \cup {e})
      BY <1>3, FS_AddElement DEF ToolTypeOK
    <3> QED BY <1>2, <1>3, <3>1 DEF ToolTypeOK
  <2>3. overran' \in BOOLEAN
    BY <1>1
  <2> QED BY <1>1, <1>3, <2>1, <2>2, <2>3 DEF ToolTypeOK
<1>5. In' \subseteq In \cup {e} /\ Pending' \subseteq Pending /\ e \in Pending
  BY <1>1, <1>2 DEF In, Pending
<1>6. ~lost' => lost' = lost /\ Pending' = Pending
  BY <1>1, <1>2 DEF In, Pending
<1>7. LinesFit'
  <2>1. \A d \in flying' : d \in CallLines => d \notin In'
    BY <1>1, <1>5 DEF ToolInv, LinesFit
  <2> QED BY <1>1, <1>5, <2>1, FewerLines DEF ToolInv
<1>8. Past(life)' /\ Past(disk)'
  BY <1>1 DEF ToolInv, Past
<1>9. ~overran' => ~overran /\ ~Ripe(e) /\ e.ts > life.cleared /\ \A i \in DOMAIN life.running : life.running[i].ts <= e.ts
  BY <1>1, <1>3, PastRipe DEF ToolInv, Ripe
<1>10. Resynced'
  <2>1. ~overran' => \A d \in In' : d.ts > life.cleared
    BY <1>5, <1>9 DEF ToolInv, Resynced
  <2> QED BY <1>1, <1>9, <2>1 DEF ToolInv, Resynced, AfterClear
<1>11. NoneTooMany'
  <2> SUFFICES ASSUME Punctual' PROVE Counted(life, Pending)' /\ InTurn(life, In)'
    BY DEF NoneTooMany
  <2>1. ~lost /\ ~overran /\ ~Ripe(e) /\ Pending' = Pending
    BY <1>6, <1>9 DEF Punctual
  <2>2. Punctual
    BY <1>1, <2>1 DEF Punctual, Ripe
  <2>3. InTurn(life, In')
    BY <1>5, <1>9, <2>2 DEF ToolInv, NoneTooMany, InTurn, Punctual
  <2> QED BY <1>1, <2>1, <2>2, <2>3, SameLines
<1>12. OneIsRight'
  <2>1. CASE lost'
    BY <2>1 DEF OneIsRight
  <2>2. CASE ~lost'
    BY <1>1, <1>6, <2>2, SameLines
  <2> QED BY <2>1, <2>2
<1>13. Sent'
  BY <1>1 DEF ToolInv, Sent
<1> QED BY <1>4, <1>7, <1>8, <1>10, <1>11, <1>12, <1>13 DEF ToolInv

-----------------------------------------------------------------------------
(* Saving, recovering, restarting *)

LEMMA SnapshotFacts ==
  ASSUME life \in Lives
  PROVE  /\ SessionSnapshot \in Lives /\ SessionSnapshot.running = life.running
         /\ SessionSnapshot.finished = {} /\ SessionSnapshot.early = life.early
         /\ SessionSnapshot.hints = life.hints /\ SessionSnapshot.cleared = life.cleared
<1>1. life = [running |-> life.running, finished |-> life.finished, early |-> life.early,
              hints |-> life.hints, cleared |-> life.cleared]
      /\ life.running \in Seq(Calls) /\ life.early \subseteq Calls
      /\ life.hints \subseteq Nat \ {0} /\ life.cleared \in Nat
  BY LifeFacts
<1>2. \A r, f, e, h, c : [[running |-> r, finished |-> f, early |-> e, hints |-> h, cleared |-> c] EXCEPT !.finished = {}]
                         = [running |-> r, finished |-> {}, early |-> e, hints |-> h, cleared |-> c]
  OBVIOUS
<1>3. SessionSnapshot = [running |-> life.running, finished |-> {}, early |-> life.early,
                         hints |-> life.hints, cleared |-> life.cleared]
  BY <1>1, <1>2 DEF SessionSnapshot
<1>4. {} \subseteq Tools
  OBVIOUS
<1> QED BY <1>1, <1>3, <1>4 DEF Lives

\* A life that differs in what is finished only is as good.
LEMMA AsGood ==
  ASSUME NEW l \in Lives, NEW m \in Lives, NEW P, NEW S, m.running = l.running, m.early = l.early,
         m.hints = l.hints, m.cleared = l.cleared, m.finished = {}
  PROVE  /\ Past(l) => Past(m)
         /\ AfterClear(l) => AfterClear(m)
         /\ Counted(l, P) => Counted(m, P)
         /\ InTurn(l, S) => InTurn(m, S)
         /\ Alone(l, P) => Alone(m, P)
<1>1. Past(l) => Past(m)
  BY DEF Past
<1>2. AfterClear(l) => AfterClear(m)
  BY DEF AfterClear
<1>3. (Counted(l, P) => Counted(m, P)) /\ (InTurn(l, S) => InTurn(m, S))
  BY DEF Counted, InTurn
<1>4. Alone(l, P) => Alone(m, P)
  BY DEF Alone, WaitsFor
<1> QED BY <1>1, <1>2, <1>3, <1>4

LEMMA SaveStep == ASSUME ToolInv, SaveAndRotate PROVE ToolInv'
<1>1. /\ phase' = "watchdog" /\ disk' = SessionSnapshot
      /\ UNCHANGED <<clock, reported, stops, flying, old, held, life, dog, hit, restarts, overran>>
  BY DEF SaveAndRotate
<1>2. \/ log' = {} /\ draining' = TRUE /\ lost' = (lost \/ log # {}) /\ oldFlying' = flying
      \/ UNCHANGED <<log, draining, lost, oldFlying>>
  BY DEF SaveAndRotate, Rotate
<1>3. ToolTypeOK /\ life \in Lives
  BY DEF ToolInv, ToolTypeOK
<1>4. ToolTypeOK'
  <2>1. log' \subseteq HookLines /\ IsFiniteSet(log') /\ oldFlying' \subseteq HookLines
        /\ draining' \in BOOLEAN /\ lost' \in BOOLEAN
    BY <1>2, <1>3, FS_EmptySet DEF ToolTypeOK
  <2>2. disk' \in Lives
    BY <1>1, <1>3, SnapshotFacts
  <2> QED BY <1>1, <1>3, <2>1, <2>2 DEF ToolTypeOK
<1>5. In' \subseteq In /\ Pending' \subseteq Pending
  BY <1>1, <1>2 DEF In, Pending
<1>6. ~lost' => lost' = lost /\ In' = In /\ Pending' = Pending
  <2> SUFFICES ASSUME ~lost' PROVE lost' = lost /\ In' = In /\ Pending' = Pending
    OBVIOUS
  <2>1. log' = log
    BY <1>2
  <2>2. lost' = lost
    <3>1. ~lost
      BY <1>2
    <3>2. lost \in BOOLEAN /\ lost' \in BOOLEAN
      BY <1>3, <1>4 DEF ToolTypeOK
    <3> QED BY <3>1, <3>2
  <2> QED BY <1>1, <2>1, <2>2 DEF In, Pending
<1>7. LinesFit'
  <2>1. \A d \in flying' : d \in CallLines => d \notin In'
    BY <1>1, <1>5 DEF ToolInv, LinesFit
  <2> QED BY <1>1, <1>5, <2>1, FewerLines DEF ToolInv
<1>8. Past(life)' /\ Past(disk)'
  <2>1. Past(SessionSnapshot)
    BY <1>3, SnapshotFacts, AsGood DEF ToolInv
  <2> QED BY <1>1, <2>1 DEF ToolInv, Past
<1>9. Resynced'
  <2>1. disk'.cleared = life.cleared /\ life.cleared \in Nat
    BY <1>1, <1>3, SnapshotFacts, LifeFacts
  <2>2. AfterClear(life) => AfterClear(disk')
    BY <1>1, <1>3, SnapshotFacts, AsGood
  <2> QED BY <1>1, <1>5, <2>1, <2>2 DEF ToolInv, Resynced, AfterClear
<1>10. NoneTooMany'
  <2> SUFFICES ASSUME Punctual' PROVE Counted(life, Pending)' /\ InTurn(life, In)'
    BY DEF NoneTooMany
  <2>1. Punctual /\ Pending' = Pending /\ In' = In
    BY <1>1, <1>6 DEF Punctual, Ripe
  <2>2. InTurn(life, In')
    BY <2>1 DEF ToolInv, NoneTooMany
  <2> QED BY <1>1, <2>1, <2>2, SameLines
<1>11. OneIsRight'
  <2>1. CASE lost'
    BY <2>1 DEF OneIsRight
  <2>2. CASE ~lost'
    BY <1>1, <1>6, <2>2, SameLines
  <2> QED BY <2>1, <2>2
<1>12. Sent'
  BY <1>1 DEF ToolInv, Sent
<1> QED BY <1>4, <1>7, <1>8, <1>9, <1>10, <1>11, <1>12 DEF ToolInv

LEMMA RecoverStep == ASSUME ToolInv, WatchdogRecovers PROVE ToolInv'
<1> DEFINE now == [kind |-> "hint", ts |-> clock]
           m == Clears(life, now, Window)
<1>1. /\ phase' = "done" /\ life' = Purged(m) /\ dog' = NoDog /\ InTime
      /\ UNCHANGED <<clock, reported, stops, flying, oldFlying, log, old, draining, held, disk, hit, restarts, lost, overran>>
  BY DEF WatchdogRecovers, Looks, Keeps, stream, trouble
<1>2. ToolTypeOK /\ life \in Lives /\ clock \in Nat \ {0} /\ now.kind = "hint" /\ now \in [kind : {"stop", "hint"}, ts : Nat \ {0}]
  BY DEF ToolInv, ToolTypeOK
<1> HIDE DEF now
<1>3. /\ m \in Lives /\ Len(m.running) <= Len(life.running) /\ m.early = life.early
      /\ \A k \in DOMAIN m.running : \E j \in DOMAIN life.running : m.running[k] = life.running[j]
      /\ m.finished \subseteq life.finished \cup Running(life)
      /\ m.cleared = life.cleared
  BY <1>2, ClearsFacts, SlackFacts
<1> HIDE DEF m
<1>4. /\ life' \in Lives /\ Len(life'.running) <= Len(life.running) /\ life'.early \subseteq life.early
      /\ \A k \in DOMAIN life'.running : \E j \in DOMAIN life.running : life'.running[k] = life.running[j]
      /\ life'.finished \subseteq life.finished \cup Running(life)
      /\ life'.cleared = life.cleared
  BY <1>1, <1>3, PurgedFacts
<1>5. life.running # <<>> /\ Len(life.running) \in Nat /\ Len(life'.running) \in Nat
  <2>1. life.running # <<>>
    BY <1>1 DEF InTime, Candidate
  <2> QED BY <1>2, <1>4, <2>1, LifeFacts
<1>6. ToolTypeOK'
  BY <1>1, <1>2, <1>4, DogFacts DEF ToolTypeOK
<1>7. Pending' = Pending /\ In' = In
  BY <1>1 DEF Pending, In
<1>8. LinesFit' /\ Past(disk)' /\ Sent'
  BY <1>1, <1>2, <1>7, DogFacts DEF ToolInv, LinesFit, Past, Sent
<1>9. Past(life)'
  <2>1. \A t \in Running(life) : reported[t] # "no"
    BY DEF ToolInv, Past, Running
  <2>2. \A t \in life'.finished : reported[t] # "no"
    BY <1>4, <2>1 DEF ToolInv, Past
  <2>3. \A i \in DOMAIN life'.running : reported[life'.running[i].call] # "no" /\ life'.running[i].ts + Window <= clock
    BY <1>4 DEF ToolInv, Past
  <2>4. \A p \in life'.early : reported[p.call] = "done"
    BY <1>4 DEF ToolInv, Past
  <2> QED BY <1>1, <1>4, <2>2, <2>3, <2>4 DEF ToolInv, Past
<1>10. Resynced'
  BY <1>1, <1>4, <1>7 DEF ToolInv, Resynced, AfterClear
<1>11. NoneTooMany'
  <2> SUFFICES ASSUME Punctual' PROVE Counted(life, Pending)' /\ InTurn(life, In)'
    BY DEF NoneTooMany
  <2>1. Counted(life, Pending) /\ InTurn(life, In)
    BY <1>1 DEF ToolInv, NoneTooMany, Punctual, Ripe
  <2>2. Cardinality(Open(Pending)) \in Nat
    <3>1. IsFiniteSet(Open(Pending))
      <4>1. Open(Pending) \subseteq Tools
        BY DEF Open
      <4> QED BY <4>1, ToolAssumption, FS_Subset
    <3> QED BY <3>1, FS_CardinalityType
  <2>3. NoStop(Pending) => Len(life'.running) <= Cardinality(Open(Pending))
    BY <1>4, <1>5, <2>1, <2>2 DEF Counted
  <2>4. Open(Pending)' = Open(Pending)
    BY <1>1, <1>7 DEF Open, PostAfter
  <2>5. Counted(life, Pending)'
    BY <1>1, <1>7, <2>1, <2>3, <2>4 DEF Counted, PostAfter, StopAfter, NoStop
  <2>6. InTurn(life, In)'
    BY <1>4, <1>7, <2>1 DEF InTurn
  <2> QED BY <2>5, <2>6
<1>12. OneIsRight'
  <2> SUFFICES ASSUME OnlyOne', ~lost' PROVE Alone(life, Pending)'
    BY DEF OneIsRight
  <2>1. Alone(life, Pending)
    BY <1>1 DEF ToolInv, OneIsRight, OnlyOne
  <2>2. Len(life'.running) <= 1
    BY <1>4, <1>5, <2>1 DEF Alone
  <2>3. \A e \in Pending : e.kind # "pre"
    BY <1>5, <2>1 DEF Alone
  <2>4. \A e \in Pending : e.kind = "post" => \A p \in life'.early : p.call # e.call
    BY <1>4, <2>1 DEF Alone
  <2>5. \A i \in DOMAIN life'.running : reported[life'.running[i].call] = "done" =>
          PostAfter(Pending, life'.running[i].call, 0) \/ StopAfter(Pending, life'.running[i].ts)
    BY <1>4, <2>1 DEF Alone
  <2> QED BY <1>1, <1>7, <2>2, <2>3, <2>4, <2>5 DEF Alone, PostAfter, StopAfter
<1> QED BY <1>6, <1>8, <1>9, <1>10, <1>11, <1>12 DEF ToolInv

LEMMA RestartStep == ASSUME ToolInv, MonitorRestarts PROVE ToolInv'
<1>1. /\ restarts' = restarts + 1 /\ phase' = "read" /\ held' = {} /\ life' = disk
      /\ lost' = (lost \/ held # {} \/ disk # SessionSnapshot)
      /\ UNCHANGED <<clock, reported, stops, flying, oldFlying, log, old, draining, disk, dog, hit, overran>>
  BY DEF MonitorRestarts
<1>2. ToolTypeOK /\ life \in Lives /\ disk \in Lives
  BY DEF ToolInv, ToolTypeOK
<1>3. ToolTypeOK'
  <2>1. held' \subseteq Lines /\ IsFiniteSet(held') /\ lost' \in BOOLEAN
    BY <1>1, FS_EmptySet
  <2> QED BY <1>1, <1>2, <2>1 DEF ToolTypeOK
<1>4. In' \subseteq In /\ Pending' \subseteq Pending
  BY <1>1 DEF In, Pending
<1>5. ~lost' => ~lost /\ In' = In /\ Pending' = Pending /\ life' = SessionSnapshot
  BY <1>1 DEF In, Pending
<1>6. LinesFit'
  <2>1. \A d \in flying' : d \in CallLines => d \notin In'
    BY <1>1, <1>4 DEF ToolInv, LinesFit
  <2> QED BY <1>1, <1>4, <2>1, FewerLines DEF ToolInv
<1>7. Past(life)' /\ Past(disk)' /\ Sent'
  BY <1>1 DEF ToolInv, Past, Sent
<1>8. Resynced'
  <2>1. disk.cleared \in Nat /\ life.cleared \in Nat /\ disk.cleared <= life.cleared
    BY <1>2, LifeFacts DEF ToolInv, Resynced
  <2>2. ASSUME ~overran PROVE \A e \in In : e.ts > disk.cleared
    <3>1. \A e \in In : e.ts > life.cleared /\ e.ts \in Nat
      BY <2>2, PendingFacts DEF ToolInv, Resynced, Pending
    <3> QED BY <2>1, <3>1
  <2> QED BY <1>1, <1>4, <2>1, <2>2 DEF ToolInv, Resynced, AfterClear
<1>9. NoneTooMany'
  <2> SUFFICES ASSUME Punctual' PROVE Counted(life, Pending)' /\ InTurn(life, In)'
    BY DEF NoneTooMany
  <2>1. Punctual /\ Pending' = Pending /\ In' = In /\ life' = SessionSnapshot
    BY <1>1, <1>5 DEF Punctual, Ripe
  <2>2. Counted(life, Pending) /\ InTurn(life, In)
    BY <2>1 DEF ToolInv, NoneTooMany
  <2>3. Counted(life', Pending) /\ InTurn(life', In)
    BY <1>2, <2>1, <2>2, SnapshotFacts, AsGood
  <2> QED BY <1>1, <2>1, <2>3 DEF Counted, InTurn, Open, PostAfter, StopAfter, NoStop
<1>10. OneIsRight'
  <2> SUFFICES ASSUME OnlyOne', ~lost' PROVE Alone(life, Pending)'
    BY DEF OneIsRight
  <2>1. Alone(life, Pending)
    BY <1>1, <1>5 DEF ToolInv, OneIsRight, OnlyOne
  <2>2. Alone(life', Pending)
    BY <1>2, <1>5, <2>1, SnapshotFacts, AsGood
  <2> QED BY <1>1, <1>5, <2>2 DEF Alone, WaitsFor, PostAfter, StopAfter
<1> QED BY <1>3, <1>6, <1>7, <1>8, <1>9, <1>10 DEF ToolInv

LEMMA EmptyFacts ==
  /\ EmptyLife \in Lives /\ EmptyLife.running = <<>> /\ EmptyLife.finished = {} /\ EmptyLife.early = {}
  /\ EmptyLife.hints = {} /\ EmptyLife.cleared = 0
  /\ Len(EmptyLife.running) = 0 /\ DOMAIN EmptyLife.running = {}
<1>1. <<>> \in Seq(Calls) /\ {} \subseteq Tools /\ {} \subseteq Calls /\ {} \subseteq Nat \ {0} /\ 0 \in Nat
  OBVIOUS
<1> QED BY <1>1 DEF EmptyLife, Lives

\* With no line and nothing known there is nothing to go wrong.
LEMMA NothingYet ==
  ASSUME ToolTypeOK, Sent, Pending = {}, life = EmptyLife, disk = EmptyLife, flying = {}
  PROVE  ToolInv
<1>1. In = {}
  BY DEF Pending
<1>2. LinesFit /\ Past(life) /\ Past(disk) /\ Resynced
  BY <1>1, EmptyFacts DEF LinesFit, Past, Resynced, AfterClear
<1>3. NoneTooMany
  <2>1. Cardinality(Open(Pending)) \in Nat
    <3>1. IsFiniteSet(Open(Pending))
      <4>1. Open(Pending) \subseteq Tools
        BY DEF Open
      <4> QED BY <4>1, ToolAssumption, FS_Subset
    <3> QED BY <3>1, FS_CardinalityType
  <2>2. Len(life.running) <= Cardinality(Open(Pending))
    BY <2>1, EmptyFacts
  <2> QED BY <1>1, <2>2 DEF NoneTooMany, Counted, InTurn
<1>4. OneIsRight
  BY EmptyFacts DEF OneIsRight, Alone
<1> QED BY <1>2, <1>3, <1>4 DEF ToolInv

LEMMA ResetStep == ASSUME ToolInv, LogReset PROVE ToolInv'
<1>1. /\ restarts' = restarts + 1
      /\ log' = {} /\ old' = {} /\ draining' = FALSE /\ held' = {}
      /\ life' = EmptyLife /\ disk' = EmptyLife /\ flying' = {} /\ oldFlying' = {}
      /\ reported' = [t \in Tools |-> IF reported[t] = "running" THEN "done" ELSE reported[t]]
      /\ UNCHANGED <<clock, stops, phase, dog, hit, lost, overran>>
  BY DEF LogReset
<1>2. ToolTypeOK /\ Sent
  BY DEF ToolInv
<1>3. ToolTypeOK'
  <2>1. reported' \in [Tools -> {"no", "running", "done"}]
    BY <1>1, <1>2 DEF ToolTypeOK
  <2>2. IsFiniteSet({}) /\ EmptyLife \in Lives
    BY FS_EmptySet, EmptyFacts
  <2>3. IsFiniteSet(flying)' /\ IsFiniteSet(log)' /\ IsFiniteSet(old)' /\ IsFiniteSet(held)'
    BY <1>1, <2>2
  <2>4. flying' \subseteq HookLines /\ oldFlying' \subseteq HookLines /\ log' \subseteq HookLines
        /\ old' \subseteq HookLines /\ held' \subseteq Lines
    BY <1>1
  <2>5. life' \in Lives /\ disk' \in Lives
    BY <1>1, <2>2 DEF EmptyLife
  <2>6. /\ clock' \in Nat \ {0} /\ stops' \in Nat /\ restarts' \in Nat
        /\ phase' \in {"read", "save", "watchdog", "done"} /\ hit' \subseteq Tools
    BY <1>1, <1>2 DEF ToolTypeOK
  <2>7. draining' \in BOOLEAN /\ lost' \in BOOLEAN /\ overran' \in BOOLEAN
    BY <1>1, <1>2 DEF ToolTypeOK
  <2>8. dog' \in [call : Tools \cup {NoCall}, sentAt : Nat, retryAt : Nat, escalated : BOOLEAN]
    BY <1>1, <1>2 DEF ToolTypeOK
  <2> QED BY <2>1, <2>3, <2>4, <2>5, <2>6, <2>7, <2>8 DEF ToolTypeOK
<1>4. Sent'
  BY <1>1, <1>2 DEF Sent
<1>5. Pending' = {}
  BY <1>1 DEF Pending, In
<1>6. (ToolTypeOK /\ Sent /\ Pending = {} /\ life = EmptyLife /\ disk = EmptyLife /\ flying = {} => ToolInv)'
  BY NothingYet, PTL
<1> QED BY <1>1, <1>3, <1>4, <1>5, <1>6 DEF EmptyLife

LEMMA ToolStarts == ToolInit => ToolInv
<1> SUFFICES ASSUME ToolInit PROVE ToolInv
  OBVIOUS
<1>1. ToolTypeOK
  <2>1. IsFiniteSet({}) /\ EmptyLife \in Lives
    BY FS_EmptySet, EmptyFacts
  <2>2. NoDog \in [call : Tools \cup {NoCall}, sentAt : Nat, retryAt : Nat, escalated : BOOLEAN]
    BY DEF NoDog
  <2>3. /\ IsFiniteSet(flying) /\ IsFiniteSet(log) /\ IsFiniteSet(old) /\ IsFiniteSet(held)
        /\ life \in Lives /\ disk \in Lives
    BY <2>1 DEF ToolInit
  <2>4. /\ flying \subseteq HookLines /\ oldFlying \subseteq HookLines
        /\ log \subseteq HookLines /\ old \subseteq HookLines /\ held \subseteq Lines /\ hit \subseteq Tools
    BY DEF ToolInit
  <2>5. /\ clock \in Nat \ {0} /\ stops \in Nat /\ restarts \in Nat
        /\ phase \in {"read", "save", "watchdog", "done"}
    BY DEF ToolInit
  <2>8. draining \in BOOLEAN /\ lost \in BOOLEAN /\ overran \in BOOLEAN
    BY DEF ToolInit
  <2>6. reported \in [Tools -> {"no", "running", "done"}]
    BY DEF ToolInit
  <2>7. dog \in [call : Tools \cup {NoCall}, sentAt : Nat, retryAt : Nat, escalated : BOOLEAN]
    BY <2>2 DEF ToolInit
  <2> QED BY <2>3, <2>4, <2>5, <2>6, <2>7, <2>8 DEF ToolTypeOK
<1>2. Sent /\ Pending = {}
  BY DEF ToolInit, Sent, NoDog, Pending, In
<1> QED BY <1>1, <1>2, NothingYet DEF ToolInit

LEMMA ToolStep == ToolInv /\ [ToolNext]_toolVars => ToolInv'
<1> SUFFICES ASSUME ToolInv, [ToolNext]_toolVars PROVE ToolInv'
  OBVIOUS
<1>1. CASE UNCHANGED toolVars
  <2>1. Same /\ ToolTypeOK' /\ Sent'
    BY <1>1 DEF toolVars, stream, monitor, trouble, Same, ToolInv, ToolTypeOK, Sent
  <2> QED BY <2>1, SameKeeps
<1>2. ASSUME NEW t \in Tools, CallStarts(t) \/ CallEnds(t) PROVE ToolInv'
  BY <1>2, StartsStep, EndsStep
<1>3. ASSUME NEW e \in flying, HookAppends(e) PROVE ToolInv'
  BY <1>3, AppendsStep
<1>4. CASE ToolTime \/ TurnEnds \/ ReadAndApply \/ SaveAndRotate
  BY <1>4, TimeStep, TurnStep, ReadStep, SaveStep
<1>5. CASE WatchdogClears \/ WatchdogObserves \/ WatchdogWaits \/ WatchdogInterrupts \/ WatchdogEscalates
  BY <1>5, LooksStep
<1>6. CASE WatchdogRecovers \/ MonitorRestarts \/ LogReset
  BY <1>6, RecoverStep, RestartStep, ResetStep
<1> QED BY <1>1, <1>2, <1>3, <1>4, <1>5, <1>6 DEF ToolNext

-----------------------------------------------------------------------------
(* Between two ticks: what follows for the watchdog *)

LEMMA NothingWaits ==
  ASSUME flying = {}, log = {}, held = {}, old = {}
  PROVE  /\ Pending = {} /\ Open(Pending) = {t \in Tools : reported[t] = "running"}
         /\ NoStop(Pending)
BY DEF Pending, In, Open, PostAfter, NoStop

LEMMA CountsRunning ==
  ASSUME ToolInv, ~lost, flying = {}, log = {}, held = {}, old = {},
         ~overran \/ Cardinality({t \in Tools : reported[t] # "no"}) = 1
  PROVE  Len(life.running) <= Cardinality({t \in Tools : reported[t] = "running"})
<1> DEFINE now == {t \in Tools : reported[t] = "running"}
           begun == {t \in Tools : reported[t] # "no"}
<1>1. Pending = {} /\ Open(Pending) = now /\ NoStop(Pending)
  BY NothingWaits
<1>2. life \in Lives /\ Len(life.running) \in Nat /\ DOMAIN life.running = 1..Len(life.running)
      /\ \A i \in DOMAIN life.running : life.running[i].call \in Tools
  BY LifeFacts DEF ToolInv, ToolTypeOK
<1>3. IsFiniteSet(now) /\ IsFiniteSet(begun) /\ Cardinality(now) \in Nat
  <2>1. now \subseteq Tools /\ begun \subseteq Tools
    OBVIOUS
  <2> QED BY <2>1, ToolAssumption, FS_Subset, FS_CardinalityType
<1>4. CASE ~overran
  <2>1. Punctual
    BY <1>4 DEF Punctual
  <2> QED BY <1>1, <2>1 DEF ToolInv, NoneTooMany, Counted
<1>5. CASE Cardinality(begun) = 1
  <2>1. OnlyOne
    <3>1. \E x : begun = {x}
      BY <1>3, <1>5, FS_Singleton
    <3> QED BY <3>1 DEF OnlyOne
  <2>2. Alone(life, Pending)
    BY <2>1 DEF ToolInv, OneIsRight
  <2>3. Len(life.running) <= 1
    BY <2>2 DEF Alone
  <2>4. CASE Len(life.running) = 0
    BY <1>3, <2>4
  <2>5. CASE Len(life.running) = 1
    <3> DEFINE t == life.running[1].call
    <3>1. 1 \in DOMAIN life.running /\ t \in Tools
      BY <1>2, <2>5
    <3>2. reported[t] # "no"
      BY <3>1 DEF ToolInv, Past
    <3>3. reported[t] # "done"
      BY <1>1, <2>2, <3>1 DEF Alone, PostAfter, StopAfter
    <3>4. reported[t] \in {"no", "running", "done"}
      BY <3>1 DEF ToolInv, ToolTypeOK
    <3>5. t \in now
      BY <3>1, <3>2, <3>3, <3>4
    <3>6. Cardinality(now) # 0
      BY <1>3, <3>5, FS_EmptySet
    <3> QED BY <1>3, <2>5, <3>6
  <2>6. \A n \in Nat : n <= 1 => n = 0 \/ n = 1
    OBVIOUS
  <2> QED BY <1>2, <2>3, <2>4, <2>5, <2>6
<1> QED BY <1>4, <1>5

LEMMA TrueCalls == ToolInv => CallsAreTrue
<1> SUFFICES ASSUME ToolInv PROVE CallsAreTrue
  OBVIOUS
<1>1. TurnEndResyncs
  BY DEF ToolInv, Resynced, AfterClear, TurnEndResyncs
<1>2. NoGhostCalls
  BY CountsRunning DEF NoGhostCalls
<1> QED BY <1>1, <1>2 DEF CallsAreTrue

Escalation ==
  dog'.escalated /\ ~dog.escalated =>
    /\ dog'.call \in Running(life)
    /\ dog'.call \in hit /\ clock > dog.sentAt + Grace

LEMMA EscalationStep == ToolInv /\ [ToolNext]_toolVars => [Escalation]_toolVars
<1> SUFFICES ASSUME ToolInv, ToolNext, dog'.escalated, ~dog.escalated
             PROVE  dog'.call \in Running(life) /\ dog'.call \in hit /\ clock > dog.sentAt + Grace
  BY DEF Escalation
<1>1. ToolTypeOK /\ Sent
  BY DEF ToolInv
<1>2. dog' # dog /\ dog' # NoDog
  BY DogFacts, <1>1
<1>3. CASE WatchdogEscalates
  <2>1. Candidate.call # NoCall /\ dog.call = Candidate.call /\ dog.sentAt # 0 /\ clock > dog.sentAt + Grace
        /\ dog' = [dog EXCEPT !.escalated = TRUE]
    BY <1>3 DEF WatchdogEscalates, InTime, Known
  <2>2. dog'.call = dog.call
    <3>1. DOMAIN dog = {"call", "sentAt", "retryAt", "escalated"}
      BY <1>1 DEF ToolTypeOK
    <3> QED BY <2>1, <3>1
  <2>3. Candidate.call \in Running(life)
    BY <1>1, <2>1, CandidateFacts
  <2> QED BY <1>1, <2>1, <2>2, <2>3 DEF Sent
<1>4. CASE WatchdogInterrupts
  <2>1. \/ dog' = [NoDog EXCEPT !.call = Candidate.call, !.sentAt = clock]
        \/ dog' = [NoDog EXCEPT !.call = Candidate.call, !.retryAt = clock + Cooldown]
    BY <1>4 DEF WatchdogInterrupts
  <2>2. ~dog'.escalated
    BY <2>1 DEF NoDog
  <2> QED BY <2>2
<1>5. CASE WatchdogClears \/ WatchdogObserves \/ WatchdogRecovers \/ WatchdogWaits
  BY <1>2, <1>5 DEF WatchdogClears, WatchdogObserves, WatchdogRecovers, WatchdogWaits
<1>6. CASE ToolTime \/ TurnEnds \/ ReadAndApply \/ SaveAndRotate \/ MonitorRestarts \/ LogReset
  BY <1>2, <1>6 DEF ToolTime, TurnEnds, ReadAndApply, SaveAndRotate, MonitorRestarts, LogReset, monitor
<1>7. ASSUME NEW t \in Tools, CallStarts(t) \/ CallEnds(t) PROVE dog' = dog
  BY <1>7 DEF CallStarts, CallEnds, monitor
<1>8. ASSUME NEW e \in flying, HookAppends(e) PROVE dog' = dog
  BY <1>8 DEF HookAppends, monitor
<1> QED BY <1>2, <1>3, <1>4, <1>5, <1>6, <1>7, <1>8 DEF ToolNext

LEMMA ToolInvCorrect == ToolSpec => []ToolInv
<1> QED BY ToolStarts, ToolStep, PTL DEF ToolSpec

\* The monitor's view of the tool calls that tool-lifecycle builds from the hook
\* lines has no call that has ended, once all lines are in, and none from before
\* the last end of turn: whatever the order in which the hooks' processes wrote,
\* the rotation of the file and restarts of the monitor or the agent.
THEOREM CallsAreTrueCorrect == ToolSpec => []CallsAreTrue
<1> QED BY ToolInvCorrect, TrueCalls, PTL

\* The tool watchdog triggers recovery only for a call it has interrupted and
\* still sees running, after the grace period of the rule.
THEOREM EscalatesTheInterruptedCorrect == ToolSpec => EscalatesTheInterrupted
<1>1. ToolSpec => [][Escalation]_toolVars
  BY ToolInvCorrect, EscalationStep, PTL DEF ToolSpec
<1> QED BY <1>1 DEF EscalatesTheInterrupted, Escalation

-----------------------------------------------------------------------------
(***************************************************************************)
(* C4Intake.  That senders of one conversation are told in cooldowns of    *)
(* their own is a matter of three places a reservation can be in: the      *)
(* table, the hands of the intake that made it, and the notices that went  *)
(* out.  The table forgets: a reservation expires, is taken over, or is    *)
(* given back by an intake that made an older one.  The invariant says     *)
(* what it never forgets: as long as a reservation may still become a      *)
(* notice, the table has it, or its cooldown is over.                      *)
(***************************************************************************)

Written == Sources \cup {"out"}
Steps == {"idle", "route", "reserve", "send", "clear"}

ReceiverRow == [at : Steps, src : Sources \cup {"none"}, key : Keys \cup {"none"},
                reserved : Nat]
ReceiverTypeOK(intake) ==
  /\ intake \in ReceiverRow
  /\ intake.at \in {"reserve", "send", "clear"} => intake.key \in Keys
  /\ intake.at \notin {"send", "clear"} => intake.reserved = 0

IntakeTypeOK ==
  /\ seconds \in Nat \ {0}
  /\ rows \in Seq(Written)
  /\ cooldowns \in [Keys -> Nat]
  /\ DOMAIN receiver = Intakes /\ receiver = [p \in Intakes |-> receiver[p]]
  /\ \A p \in Intakes: ReceiverTypeOK(receiver[p])
  /\ told \subseteq [src : Sources \cup {"none"}, key : Keys, reserved : Nat]

\* c4-receive may still send, or give back, what it reserved.
Reserves(p) == receiver[p].at \in {"send", "clear"} /\ receiver[p].reserved > 0

Apart(r, t) == r + CooldownTtl <= t \/ t + CooldownTtl <= r

\* The table has the reservation r of key k, or its cooldown is over and what the
\* table has now, if anything, was reserved after that.
Kept(k, r) ==
  /\ r <= seconds
  /\ \/ cooldowns[k] = r
     \/ /\ r + CooldownTtl <= seconds
        /\ cooldowns[k] = 0 \/ r + CooldownTtl <= cooldowns[k]

RowsInv == \A i, j \in DOMAIN rows: rows[i] = rows[j] /\ rows[i] \in Sources => i = j

KeptInv ==
  /\ \A p \in Intakes: Reserves(p) => Kept(receiver[p].key, receiver[p].reserved)
  /\ \A n \in told: n.reserved > 0 => Kept(n.key, n.reserved)

ApartInv ==
  /\ \A p, q \in Intakes: p # q /\ Reserves(p) /\ Reserves(q) /\ receiver[p].key = receiver[q].key
       => Apart(receiver[p].reserved, receiver[q].reserved)
  /\ \A p \in Intakes, n \in told: Reserves(p) /\ n.reserved > 0 /\ n.key = receiver[p].key
       => Apart(receiver[p].reserved, n.reserved)
  /\ \A n, m \in told: n # m /\ n.reserved > 0 /\ m.reserved > 0 /\ n.key = m.key
       => Apart(n.reserved, m.reserved)

IntakeInv == IntakeTypeOK /\ RowsInv /\ KeptInv /\ ApartInv

LEMMA TtlIsPositive == CooldownTtl \in Nat /\ CooldownTtl > 0
BY IntakeAssumption

-----------------------------------------------------------------------------
(* Types *)

LEMMA DecisionTyped ==
  ASSUME NEW file \in StatusFile, NEW answer \in MonitorAnswer
  PROVE  RouteDecision(file, answer) \in Keys \cup {"ok"}
<1>1. (CHOOSE k \in Keys: TRUE) \in Keys
  BY IntakeAssumption
<1> QED BY <1>1 DEF RouteDecision, FileRoute, StatusFile, MonitorAnswer

LEMMA IntakeTypeStep == IntakeTypeOK /\ [IntakeNext]_intakeVars => IntakeTypeOK'
<1> SUFFICES ASSUME IntakeTypeOK, [IntakeNext]_intakeVars PROVE IntakeTypeOK'
  OBVIOUS
<1> USE DEF IntakeTypeOK, notices, history, Written, At
<1>r. ReceiverTypeOK(Resting)
  BY DEF ReceiverTypeOK, ReceiverRow, Resting, Steps
<1>g. ASSUME NEW p \in Intakes, NEW intake, ReceiverTypeOK(intake)
      PROVE  LET new == [receiver EXCEPT ![p] = intake] IN
               /\ DOMAIN new = Intakes /\ new = [q \in Intakes |-> new[q]]
               /\ \A q \in Intakes: ReceiverTypeOK(new[q])
  BY <1>g
<1>s. ASSUME NEW p \in Intakes, receiver[p].key \in Keys, NEW step \in {"send", "clear"}
      PROVE  LET intake == [receiver[p] EXCEPT !.at = step] IN
               ReceiverTypeOK(intake) /\ intake.reserved = receiver[p].reserved
  BY <1>s DEF ReceiverTypeOK, ReceiverRow, Steps
<1>a. "out" \in Written /\ \A m \in Written: Append(rows, m) \in Seq(Written)
  OBVIOUS
<1>1. ASSUME NEW p \in Intakes, NEW m \in Sources, QueueMessage(p, m) PROVE IntakeTypeOK'
  <2>1. rows' \in Seq(Written)
    BY <1>1, <1>a DEF QueueMessage, InsertConversation
  <2>2. ReceiverTypeOK([Resting EXCEPT !.at = "route", !.src = m])
    BY DEF ReceiverTypeOK, ReceiverRow, Resting, Steps
  <2> QED BY <1>1, <1>g, <2>1, <2>2 DEF QueueMessage
<1>2. ASSUME NEW p \in Intakes, QueryRoute(p) PROVE IntakeTypeOK'
  <2>1. PICK decision \in Keys \cup {"ok"} :
          receiver' = [receiver EXCEPT ![p] = IF decision = "ok" THEN Resting
                         ELSE [@ EXCEPT !.at = "reserve", !.key = decision]]
    BY <1>2, DecisionTyped DEF QueryRoute
  <2>2. ASSUME decision \in Keys
        PROVE  ReceiverTypeOK([receiver[p] EXCEPT !.at = "reserve", !.key = decision])
    BY <1>2, <2>2 DEF QueryRoute, ReceiverTypeOK, ReceiverRow, Steps
  <2> QED BY <1>2, <1>g, <1>r, <2>1, <2>2 DEF QueryRoute
<1>3. ASSUME NEW p \in Intakes, ReserveNotice(p) PROVE IntakeTypeOK'
  <2>1. receiver[p].key \in Keys
    BY <1>3 DEF ReserveNotice, ReceiverTypeOK
  <2>2. \E intake : ReceiverTypeOK(intake) /\ receiver' = [receiver EXCEPT ![p] = intake]
    <3>1. ReceiverTypeOK([receiver[p] EXCEPT !.at = "send", !.reserved = seconds])
      BY ZenonT(30), <2>1 DEF ReceiverTypeOK, ReceiverRow, Steps
    <3>2. CASE receiver' = [receiver EXCEPT ![p].at = "send", ![p].reserved = seconds]
      <4>1. receiver' = [receiver EXCEPT ![p] = [receiver[p] EXCEPT !.at = "send",
                                                                   !.reserved = seconds]]
        BY <3>2
      <4> QED BY <3>1, <4>1
    <3>3. CASE Rests(p)
      BY <3>3, <1>r DEF Rests
    <3>4. CASE Goes(p, "send")
      <4>1. receiver' = [receiver EXCEPT ![p] = [receiver[p] EXCEPT !.at = "send"]]
        BY <3>4 DEF Goes
      <4> QED BY <4>1, <1>s, <2>1
    <3> QED BY <1>3, <3>2, <3>3, <3>4 DEF ReserveNotice
  <2>3. cooldowns' \in [Keys -> Nat]
    BY <1>3, <2>1 DEF ReserveNotice
  <2>4. PICK intake : ReceiverTypeOK(intake) /\ receiver' = [receiver EXCEPT ![p] = intake]
    BY <2>2
  <2>5. UNCHANGED <<seconds, rows, told>>
    BY <1>3 DEF ReserveNotice
  <2>6. ReceiverTypeOK(intake) /\ receiver' = [receiver EXCEPT ![p] = intake]
    BY <2>4
  <2>7. /\ DOMAIN receiver' = Intakes /\ receiver' = [q \in Intakes |-> receiver'[q]]
        /\ \A q \in Intakes: ReceiverTypeOK(receiver'[q])
    BY <1>g, <2>6
  <2> QED BY <2>3, <2>5, <2>7
<1>4. ASSUME NEW p \in Intakes, SendNotice(p) PROVE IntakeTypeOK'
  <2>1. rows' \in Seq(Written)
    BY <1>4, <1>a DEF SendNotice
  <2>2. receiver[p].key \in Keys /\ receiver[p] \in ReceiverRow
    BY <1>4 DEF SendNotice, ReceiverTypeOK
  <2>3. told' \subseteq [src : Sources \cup {"none"}, key : Keys, reserved : Nat]
    BY <1>4, <2>2 DEF SendNotice, ReceiverRow
  <2>4. \E intake : ReceiverTypeOK(intake) /\ receiver' = [receiver EXCEPT ![p] = intake]
    BY <1>4, <1>r, <1>s, <2>2 DEF SendNotice, Rests, Goes
  <2> QED BY <1>4, <1>g, <2>1, <2>3, <2>4 DEF SendNotice
<1>5. ASSUME NEW p \in Intakes, ClearReservation(p) PROVE IntakeTypeOK'
  <2>1. cooldowns' \in [Keys -> Nat]
    BY <1>5 DEF ClearReservation
  <2> QED BY SMTT(30), <1>5, <1>g, <1>r, <2>1 DEF ClearReservation, Rests
<1>6. ASSUME NEW p \in Intakes, ReceiverDies(p) PROVE IntakeTypeOK'
  BY <1>6, <1>g, <1>r DEF ReceiverDies, Rests
<1>7. CASE AgentSends
  BY <1>7, <1>a DEF AgentSends
<1>8. CASE IntakeSecond
  BY <1>8 DEF IntakeSecond
<1>9. CASE UNCHANGED <<seconds, rows, receiver, notices>>
  BY <1>9
<1> QED BY <1>1, <1>2, <1>3, <1>4, <1>5, <1>6, <1>7, <1>8, <1>9
        DEF IntakeNext, intakeVars, FetchUnsummarised, ReadLastCheckpoint, CreateCheckpoint, SyncDies

-----------------------------------------------------------------------------
(* Rows.  A source is only appended where it is not there yet, whoever *)
(* appends it; and what is sent is none of the sources.                *)

LEMMA RowsStep == IntakeTypeOK /\ RowsInv /\ [IntakeNext]_intakeVars => RowsInv'
<1> SUFFICES ASSUME IntakeTypeOK, RowsInv, [IntakeNext]_intakeVars PROVE RowsInv'
  OBVIOUS
<1> USE DEF notices, history
<1>1. ASSUME NEW x \in Written, x \in Sources => ~Duplicate(x), rows' = Append(rows, x)
      PROVE  RowsInv'
  <2>1. /\ DOMAIN rows' = 1 .. Len(rows) + 1 /\ DOMAIN rows = 1 .. Len(rows) /\ Len(rows) \in Nat
        /\ \A i \in 1 .. Len(rows): rows'[i] = rows[i]
        /\ rows'[Len(rows) + 1] = x
    BY <1>1 DEF IntakeTypeOK
  <2> SUFFICES ASSUME NEW i \in DOMAIN rows', NEW j \in DOMAIN rows',
                      rows'[i] = rows'[j], rows'[i] \in Sources, i # j
               PROVE  FALSE
    BY DEF RowsInv
  <2>2. CASE i \in DOMAIN rows /\ j \in DOMAIN rows
    BY <2>1, <2>2 DEF RowsInv
  <2>3. CASE i = Len(rows) + 1 /\ j \in DOMAIN rows
    BY <2>1, <2>3, <1>1 DEF Duplicate
  <2>4. CASE j = Len(rows) + 1 /\ i \in DOMAIN rows
    BY <2>1, <2>4, <1>1 DEF Duplicate
  <2> QED BY <2>1, <2>2, <2>3, <2>4
<1>2. ASSUME rows' = Append(rows, "out") PROVE RowsInv'
  BY <1>1, <1>2, IntakeAssumption DEF Written
<1>3. ASSUME rows' = rows PROVE RowsInv'
  BY <1>3 DEF RowsInv
<1>4. ASSUME NEW p \in Intakes, NEW m \in Sources, QueueMessage(p, m) PROVE RowsInv'
  BY <1>1, <1>3, <1>4 DEF QueueMessage, InsertConversation, Written
<1>5. ASSUME NEW p \in Intakes, SendNotice(p) PROVE RowsInv'
  BY <1>2, <1>3, <1>5 DEF SendNotice
<1>6. CASE AgentSends
  BY <1>2, <1>6 DEF AgentSends
<1>7. CASE rows' = rows
  BY <1>3, <1>7
<1> QED BY <1>4, <1>5, <1>6, <1>7
        DEF IntakeNext, intakeVars, QueryRoute, ReserveNotice, ClearReservation, ReceiverDies,
            IntakeSecond, FetchUnsummarised, ReadLastCheckpoint, CreateCheckpoint, SyncDies

-----------------------------------------------------------------------------
(* Notices *)

\* A step that makes no reservation, writes no notice and leaves the table alone.
LEMMA NoticeFrame ==
  ASSUME IntakeInv, IntakeTypeOK', cooldowns' = cooldowns, told' = told, seconds' >= seconds,
         \A q \in Intakes: Reserves(q)' => /\ Reserves(q)
                                           /\ receiver'[q].key = receiver[q].key
                                           /\ receiver'[q].reserved = receiver[q].reserved
  PROVE  KeptInv' /\ ApartInv'
<1> USE DEF IntakeInv
<1>1. \A k \in Keys, r \in Nat: Kept(k, r) => Kept(k, r)'
  BY TtlIsPositive DEF Kept, IntakeTypeOK
<1>2. KeptInv'
  <2>1. ASSUME NEW p \in Intakes, Reserves(p)' PROVE Kept(receiver[p].key, receiver[p].reserved)'
    <3>1. /\ Reserves(p) /\ receiver'[p].key = receiver[p].key
          /\ receiver'[p].reserved = receiver[p].reserved
      BY <2>1
    <3>2. Kept(receiver[p].key, receiver[p].reserved)
      BY <3>1 DEF KeptInv
    <3>3. receiver[p].key \in Keys /\ receiver[p].reserved \in Nat
      BY <3>1 DEF Reserves, IntakeTypeOK, ReceiverTypeOK, ReceiverRow
    <3> QED BY <3>1, <3>2, <3>3, TtlIsPositive DEF Kept, IntakeTypeOK
  <2>2. ASSUME NEW n \in told', n.reserved > 0 PROVE Kept(n.key, n.reserved)'
    BY <1>1, <2>2 DEF KeptInv, IntakeTypeOK
  <2> QED BY <2>1, <2>2 DEF KeptInv
<1>3. ApartInv'
  BY DEF ApartInv, Apart
<1> QED BY <1>2, <1>3

\* A reservation is made where the table had none, or an expired one: whatever
\* may still become a notice is out of its cooldown by then.
LEMMA NoticeReserved ==
  ASSUME IntakeInv, IntakeTypeOK', NEW p \in Intakes, At(p, "reserve"),
         cooldowns[receiver[p].key] = 0 \/ cooldowns[receiver[p].key] + CooldownTtl <= seconds,
         cooldowns' = [cooldowns EXCEPT ![receiver[p].key] = seconds],
         receiver' = [receiver EXCEPT ![p].at = "send", ![p].reserved = seconds],
         UNCHANGED <<seconds, told>>
  PROVE  KeptInv' /\ ApartInv'
<1> USE DEF IntakeInv
<1> DEFINE k == receiver[p].key
<1>k. k \in Keys /\ cooldowns \in [Keys -> Nat] /\ seconds \in Nat /\ seconds > 0
  BY DEF IntakeTypeOK, ReceiverTypeOK, At
<1>p. /\ receiver'[p].key = k /\ receiver'[p].reserved = seconds /\ receiver'[p].at = "send"
      /\ ~Reserves(p)
      /\ \A q \in Intakes: q # p => receiver'[q] = receiver[q]
  BY ZenonT(60) DEF IntakeTypeOK, ReceiverTypeOK, ReceiverRow, At, Reserves
<1>q. ASSUME NEW q \in Intakes, Reserves(q)
      PROVE  receiver[q].key \in Keys /\ receiver[q].reserved \in Nat \ {0}
  BY <1>q DEF IntakeTypeOK, ReceiverTypeOK, ReceiverRow, Reserves
<1>1. ASSUME NEW r \in Nat, r > 0, Kept(k, r) PROVE r + CooldownTtl <= seconds
  BY <1>1, <1>k, TtlIsPositive DEF Kept
<1>2. ASSUME NEW j \in Keys, NEW r \in Nat, r > 0, Kept(j, r) PROVE Kept(j, r)'
  BY <1>1, <1>2, <1>k, TtlIsPositive DEF Kept
<1>3. KeptInv'
  <2>1. ASSUME NEW q \in Intakes, Reserves(q)' PROVE Kept(receiver[q].key, receiver[q].reserved)'
    <3>1. CASE q = p
      BY <3>1, <1>k, <1>p DEF Kept
    <3>2. CASE q # p
      <4>1. Reserves(q) /\ receiver'[q] = receiver[q]
        BY <2>1, <3>2, <1>p DEF Reserves
      <4>2. Kept(receiver[q].key, receiver[q].reserved)
        BY <4>1 DEF KeptInv
      <4>3. receiver[q].key \in Keys /\ receiver[q].reserved \in Nat /\ receiver[q].reserved > 0
        BY <4>1, <1>q
      <4>4. \/ receiver[q].key # k
            \/ receiver[q].reserved + CooldownTtl <= seconds
        BY <1>1, <4>2, <4>3
      <4> QED BY <4>1, <4>2, <4>3, <4>4, <1>k, TtlIsPositive DEF Kept
    <3> QED BY <3>1, <3>2
  <2>2. ASSUME NEW n \in told', n.reserved > 0 PROVE Kept(n.key, n.reserved)'
    BY <1>2, <2>2 DEF KeptInv, IntakeTypeOK
  <2> QED BY <2>1, <2>2 DEF KeptInv
<1>4. ASSUME NEW q \in Intakes, q # p, Reserves(q), receiver[q].key = k
      PROVE  receiver[q].reserved + CooldownTtl <= seconds
  BY <1>1, <1>4, <1>q DEF KeptInv
<1>5. ASSUME NEW n \in told, n.reserved > 0, n.key = k PROVE n.reserved + CooldownTtl <= seconds
  BY <1>1, <1>5 DEF KeptInv, IntakeTypeOK
<1>6. ApartInv'
  <2>1. ASSUME NEW q \in Intakes, NEW o \in Intakes, q # o, Reserves(q)', Reserves(o)',
               receiver'[q].key = receiver'[o].key
        PROVE  Apart(receiver'[q].reserved, receiver'[o].reserved)
    <3>1. CASE q = p
      BY <2>1, <3>1, <1>4, <1>p DEF Apart, Reserves
    <3>2. CASE o = p
      BY <2>1, <3>2, <1>4, <1>p DEF Apart, Reserves
    <3>3. CASE q # p /\ o # p
      BY <2>1, <3>3, <1>p DEF ApartInv, Reserves
    <3> QED BY <3>1, <3>2, <3>3
  <2>2. ASSUME NEW q \in Intakes, NEW n \in told, Reserves(q)', n.reserved > 0,
               n.key = receiver'[q].key
        PROVE  Apart(receiver'[q].reserved, n.reserved)
    <3>1. CASE q = p
      BY <2>2, <3>1, <1>5, <1>p DEF Apart
    <3>2. CASE q # p
      BY <2>2, <3>2, <1>p DEF ApartInv, Reserves
    <3> QED BY <3>1, <3>2
  <2> QED BY <2>1, <2>2 DEF ApartInv, Apart
<1> QED BY <1>3, <1>6

\* The reservation passes from the intake to the notice.
LEMMA NoticeSent ==
  ASSUME IntakeInv, IntakeTypeOK', NEW p \in Intakes, At(p, "send"), Rests(p),
         told' = told \cup {[src |-> receiver[p].src, key |-> receiver[p].key,
                             reserved |-> receiver[p].reserved]},
         UNCHANGED <<seconds, cooldowns>>
  PROVE  KeptInv' /\ ApartInv'
<1> USE DEF IntakeInv
<1> DEFINE note == [src |-> receiver[p].src, key |-> receiver[p].key,
                    reserved |-> receiver[p].reserved]
<1>p. /\ ~Reserves(p)'
      /\ \A q \in Intakes: q # p => receiver'[q] = receiver[q]
      /\ receiver[p].reserved > 0 => Reserves(p)
  BY DEF IntakeTypeOK, Rests, Resting, Reserves, At
<1>1. KeptInv'
  <2>1. ASSUME NEW q \in Intakes, Reserves(q)' PROVE Kept(receiver[q].key, receiver[q].reserved)'
    <3>1. q # p /\ Reserves(q) /\ receiver'[q] = receiver[q]
      BY <2>1, <1>p DEF Reserves
    <3> QED BY <3>1 DEF KeptInv, Kept
  <2>2. ASSUME NEW n \in told', n.reserved > 0 PROVE Kept(n.key, n.reserved)'
    <3>1. Kept(n.key, n.reserved)
      BY <2>2, <1>p DEF KeptInv
    <3> QED BY <3>1 DEF Kept
  <2> QED BY <2>1, <2>2 DEF KeptInv
<1>2. ApartInv'
  <2>1. \A q \in Intakes: Reserves(q)' => q # p /\ Reserves(q) /\ receiver'[q] = receiver[q]
    BY <1>p DEF Reserves
  <2>2. ASSUME NEW n \in told', NEW m \in told', n # m, n.reserved > 0, m.reserved > 0,
               n.key = m.key
        PROVE  Apart(n.reserved, m.reserved)
    <3>1. CASE n \in told /\ m \in told
      BY <2>2, <3>1 DEF ApartInv
    <3>2. CASE n = note /\ m \in told
      BY <2>2, <3>2, <1>p DEF ApartInv, Apart
    <3>3. CASE m = note /\ n \in told
      BY <2>2, <3>3, <1>p DEF ApartInv, Apart
    <3> QED BY <2>2, <3>1, <3>2, <3>3
  <2>3. ASSUME NEW q \in Intakes, NEW n \in told', Reserves(q)', n.reserved > 0,
               n.key = receiver'[q].key
        PROVE  Apart(receiver'[q].reserved, n.reserved)
    <3>1. CASE n \in told
      BY <2>1, <2>3, <3>1 DEF ApartInv
    <3>2. CASE n = note
      BY <2>1, <2>3, <3>2, <1>p DEF ApartInv
    <3> QED BY <2>3, <3>1, <3>2
  <2> QED BY <2>1, <2>2, <2>3 DEF ApartInv
<1> QED BY <1>1, <1>2

\* Only the reservation of the intake itself is given back: no other that may
\* still become a notice was made in the same cooldown.
LEMMA NoticeCleared ==
  ASSUME IntakeInv, IntakeTypeOK', NEW p \in Intakes, ClearReservation(p)
  PROVE  KeptInv' /\ ApartInv'
<1> USE DEF IntakeInv
<1> DEFINE k == receiver[p].key
<1>p. /\ ~Reserves(p)'
      /\ \A q \in Intakes: q # p => receiver'[q] = receiver[q]
      /\ UNCHANGED <<seconds, told>>
  BY DEF ClearReservation, IntakeTypeOK, Rests, Resting, Reserves
<1>r. \A q \in Intakes: Reserves(q)' => q # p /\ Reserves(q) /\ receiver'[q] = receiver[q]
  BY <1>p DEF Reserves
<1>1. CASE cooldowns' = cooldowns
  BY <1>1, <1>p, <1>r, NoticeFrame DEF IntakeTypeOK
<1>2. CASE cooldowns' # cooldowns
  <2>1. cooldowns[k] = receiver[p].reserved /\ cooldowns' = [cooldowns EXCEPT ![k] = 0]
    BY <1>2 DEF ClearReservation
  <2>2. k \in Keys /\ cooldowns \in [Keys -> Nat] /\ receiver[p].reserved > 0 /\ Reserves(p)
    <3>1. k \in Keys /\ cooldowns \in [Keys -> Nat] /\ receiver[p].reserved \in Nat
      BY DEF ClearReservation, At, IntakeTypeOK, ReceiverTypeOK, ReceiverRow
    <3>2. receiver[p].reserved # 0
      BY <1>2, <2>1, <3>1
    <3> QED BY <3>1, <3>2 DEF Reserves, ClearReservation, At
  <2>3. ASSUME NEW j \in Keys, NEW r \in Nat, Kept(j, r),
               j = k => Apart(receiver[p].reserved, r)
        PROVE  Kept(j, r)'
    <3>1. CASE j # k
      BY <2>1, <2>2, <2>3, <3>1, <1>p DEF Kept
    <3>2. CASE j = k
      <4>1. receiver[p].reserved \in Nat /\ seconds \in Nat
        BY DEF IntakeTypeOK, ReceiverTypeOK, ReceiverRow
      <4>2. r # receiver[p].reserved
        BY <2>3, <3>2, <4>1, TtlIsPositive DEF Apart
      <4>3. r + CooldownTtl <= seconds /\ r <= seconds
        BY <2>1, <2>3, <3>2, <4>2 DEF Kept
      <4> QED BY <2>1, <2>2, <3>2, <4>3, <1>p DEF Kept
    <3> QED BY <3>1, <3>2
  <2>4. KeptInv'
    <3>1. ASSUME NEW q \in Intakes, Reserves(q)'
          PROVE  Kept(receiver[q].key, receiver[q].reserved)'
      <4>1. q # p /\ Reserves(q) /\ receiver'[q] = receiver[q]
        BY <3>1, <1>r
      <4>2. /\ receiver[q].key \in Keys /\ receiver[q].reserved \in Nat
            /\ Kept(receiver[q].key, receiver[q].reserved)
            /\ receiver[q].key = k => Apart(receiver[p].reserved, receiver[q].reserved)
        BY <4>1, <2>2 DEF IntakeTypeOK, ReceiverTypeOK, ReceiverRow, Reserves, KeptInv, ApartInv
      <4> DEFINE j == receiver[q].key
                 r == receiver[q].reserved
      <4>3. \/ j # k
            \/ r + CooldownTtl <= seconds
        BY <4>2, <2>1, <2>2, TtlIsPositive DEF Kept, Apart, IntakeTypeOK, ReceiverTypeOK, ReceiverRow
      <4> QED BY <4>1, <4>2, <4>3, <2>1, <2>2, <1>p DEF Kept
    <3>2. ASSUME NEW n \in told', n.reserved > 0 PROVE Kept(n.key, n.reserved)'
      <4>1. /\ n.key \in Keys /\ n.reserved \in Nat /\ Kept(n.key, n.reserved)
            /\ n.key = k => Apart(receiver[p].reserved, n.reserved)
        BY <3>2, <2>2, <1>p DEF IntakeTypeOK, KeptInv, ApartInv
      <4> QED BY <4>1, <2>3
    <3> QED BY <3>1, <3>2 DEF KeptInv
  <2>5. ApartInv'
    BY <1>p, <1>r DEF ApartInv
  <2> QED BY <2>4, <2>5
<1> QED BY <1>1, <1>2

LEMMA NoticeStep == IntakeInv /\ IntakeTypeOK' /\ [IntakeNext]_intakeVars => KeptInv' /\ ApartInv'
<1> SUFFICES ASSUME IntakeInv, IntakeTypeOK', [IntakeNext]_intakeVars PROVE KeptInv' /\ ApartInv'
  OBVIOUS
<1> USE DEF notices, history, Reserves
<1>t. /\ seconds \in Nat
      /\ \A p \in Intakes: receiver[p].at \notin {"send", "clear"} => receiver[p].reserved = 0
      /\ DOMAIN receiver = Intakes
  BY DEF IntakeInv, IntakeTypeOK, ReceiverTypeOK
<1>1. ASSUME NEW p \in Intakes, NEW m \in Sources, QueueMessage(p, m) PROVE KeptInv' /\ ApartInv'
  BY <1>1, <1>t, NoticeFrame DEF QueueMessage, Resting
<1>2. ASSUME NEW p \in Intakes, QueryRoute(p) PROVE KeptInv' /\ ApartInv'
  <2>1. PICK intake : receiver' = [receiver EXCEPT ![p] = intake] /\ intake.at \in {"idle", "reserve"}
    <3>1. PICK decision : receiver' = [receiver EXCEPT ![p] = IF decision = "ok" THEN Resting
                                         ELSE [@ EXCEPT !.at = "reserve", !.key = decision]]
      BY <1>2 DEF QueryRoute
    <3>2. receiver[p] \in ReceiverRow
      BY DEF IntakeInv, IntakeTypeOK, ReceiverTypeOK
    <3> DEFINE asked == [receiver[p] EXCEPT !.at = "reserve", !.key = decision]
    <3>3. asked.at = "reserve"
      BY <3>2 DEF ReceiverRow
    <3>4. Resting.at = "idle"
      BY DEF Resting
    <3>5. CASE decision = "ok"
      BY <3>1, <3>4, <3>5
    <3>6. CASE decision # "ok"
      BY <3>1, <3>3, <3>6
    <3> QED BY <3>5, <3>6
  <2> QED BY <1>2, <1>t, <2>1, NoticeFrame DEF QueryRoute
<1>3. ASSUME NEW p \in Intakes, ReserveNotice(p) PROVE KeptInv' /\ ApartInv'
  <2>1. CASE cooldowns' = [cooldowns EXCEPT ![receiver[p].key] = seconds]
             /\ receiver' = [receiver EXCEPT ![p].at = "send", ![p].reserved = seconds]
             /\ (cooldowns[receiver[p].key] = 0 \/ cooldowns[receiver[p].key] + CooldownTtl <= seconds)
    BY <1>3, <2>1, NoticeReserved DEF ReserveNotice
  <2>2. CASE Rests(p) /\ UNCHANGED cooldowns
    BY <1>3, <2>2, <1>t, NoticeFrame DEF ReserveNotice, Rests, Resting
  <2>3. CASE Goes(p, "send") /\ UNCHANGED cooldowns
    <3>1. receiver'[p].reserved = 0 /\ \A q \in Intakes: q # p => receiver'[q] = receiver[q]
      BY <1>3, <2>3, <1>t DEF ReserveNotice, At, Goes
    <3> QED BY <1>3, <2>3, <1>t, <3>1, NoticeFrame DEF ReserveNotice
  <2> QED BY <1>3, <2>1, <2>2, <2>3 DEF ReserveNotice
<1>4. ASSUME NEW p \in Intakes, SendNotice(p) PROVE KeptInv' /\ ApartInv'
  <2>1. CASE Rests(p) /\ told' = told \cup {[src |-> receiver[p].src, key |-> receiver[p].key,
                                             reserved |-> receiver[p].reserved]}
    BY <1>4, <2>1, NoticeSent DEF SendNotice
  <2>2. CASE Goes(p, "clear") /\ UNCHANGED told
    <3>1. /\ At(p, "send") /\ receiver'[p].reserved = receiver[p].reserved
          /\ receiver'[p].key = receiver[p].key
          /\ \A q \in Intakes: q # p => receiver'[q] = receiver[q]
      <4>1. receiver[p] \in ReceiverRow
        BY DEF IntakeInv, IntakeTypeOK, ReceiverTypeOK
      <4>2. receiver' = [receiver EXCEPT ![p] = [receiver[p] EXCEPT !.at = "clear"]]
        BY <2>2 DEF Goes
      <4> QED BY <1>4, <1>t, <4>1, <4>2 DEF SendNotice, ReceiverRow
    <3> QED BY <1>4, <2>2, <1>t, <3>1, NoticeFrame DEF SendNotice, At
  <2>3. CASE Rests(p) /\ UNCHANGED told
    BY <1>4, <2>3, <1>t, NoticeFrame DEF SendNotice, Rests, Resting
  <2> QED BY <1>4, <2>1, <2>2, <2>3 DEF SendNotice
<1>5. ASSUME NEW p \in Intakes, ClearReservation(p) PROVE KeptInv' /\ ApartInv'
  BY <1>5, NoticeCleared
<1>6. ASSUME NEW p \in Intakes, ReceiverDies(p) PROVE KeptInv' /\ ApartInv'
  BY <1>6, <1>t, NoticeFrame DEF ReceiverDies, Rests, Resting
<1>7. CASE UNCHANGED <<receiver, notices>> /\ seconds' \in {seconds, seconds + 1}
  BY <1>7, <1>t, NoticeFrame
<1> QED BY <1>1, <1>2, <1>3, <1>4, <1>5, <1>6, <1>7
        DEF IntakeNext, intakeVars, AgentSends, IntakeSecond, FetchUnsummarised,
            ReadLastCheckpoint, CreateCheckpoint, SyncDies

\* However often a message is handed in, however many intakes run and wherever
\* they die, insertConversation queues it once, and reserveStatusNoticeCooldown
\* with clearStatusNoticeCooldownReservation tell one sender in a cooldown.
THEOREM OneRowOneNoticeEach == IntakeSpec => []OneRowOneNotice
<1>1. IntakeInit => IntakeInv
  <2> SUFFICES ASSUME IntakeInit PROVE IntakeInv
    OBVIOUS
  <2> USE DEF IntakeInit, Resting
  <2>1. IntakeTypeOK
    BY DEF IntakeTypeOK, ReceiverTypeOK, ReceiverRow, Steps
  <2>2. RowsInv
    BY DEF RowsInv
  <2>3. KeptInv /\ ApartInv
    BY DEF KeptInv, ApartInv, Reserves
  <2> QED BY <2>1, <2>2, <2>3 DEF IntakeInv
<1>2. IntakeInv /\ [IntakeNext]_intakeVars => IntakeInv'
  BY IntakeTypeStep, RowsStep, NoticeStep DEF IntakeInv
<1>3. IntakeInv => OneRowOneNotice
  <2> SUFFICES ASSUME IntakeInv PROVE OneRowOneNotice
    OBVIOUS
  <2>1. ASSUME NEW n \in told, NEW m \in told, n # m, n.key = m.key, n.reserved > 0,
               m.reserved >= n.reserved
        PROVE  m.reserved >= n.reserved + CooldownTtl
    <3>1. n.reserved \in Nat /\ m.reserved \in Nat
      BY DEF IntakeInv, IntakeTypeOK
    <3>2. Apart(n.reserved, m.reserved)
      BY <2>1, <3>1 DEF IntakeInv, ApartInv
    <3> QED BY <2>1, <3>1, <3>2, TtlIsPositive DEF Apart
  <2> QED BY <2>1 DEF OneRowOneNotice, IntakeInv, RowsInv
<1> QED BY <1>1, <1>2, <1>3, PTL DEF IntakeSpec

-----------------------------------------------------------------------------
(***************************************************************************)
(* Checkpoints.  A sync summarises from where the last checkpoint ended    *)
(* when it read, and its checkpoint begins where the last one ends when it *)
(* is created; a sync that ends between the two makes these differ.  What  *)
(* both have in common is that everything before is covered already, and   *)
(* what is covered stays so.                                               *)
(***************************************************************************)
Covered(n) ==
  \A i \in 1 .. n: /\ i \in summarised
                   /\ \E c \in DOMAIN checkpoints: i \in checkpoints[c].first .. checkpoints[c].last

SyncRow == [at : {"idle", "read", "insert"}, first : Nat, last : Nat, before : Nat]

HistoryTypeOK ==
  /\ checkpoints \in Seq([first : Nat, last : Nat])
  /\ DOMAIN sync = Syncs /\ sync = [s \in Syncs |-> sync[s]]
  /\ \A s \in Syncs: sync[s] \in SyncRow

CoveredBy(intake) ==
  /\ intake.at \in {"read", "insert"} => intake.first > 0 /\ Covered(intake.first - 1)
  /\ intake.at = "insert" => Covered(intake.before)

CoveredInv == Covered(LastEnd) /\ \A s \in Syncs: CoveredBy(sync[s])

HistoryInv == IntakeTypeOK /\ HistoryTypeOK /\ CoveredInv

LEMMA LastEndTyped == HistoryTypeOK => LastEnd \in Nat
<1> SUFFICES ASSUME HistoryTypeOK PROVE LastEnd \in Nat
  OBVIOUS
<1>1. CASE checkpoints = <<>>
  BY <1>1 DEF LastEnd
<1>2. CASE checkpoints # <<>>
  <2>1. Len(checkpoints) \in DOMAIN checkpoints
    BY <1>2 DEF HistoryTypeOK
  <2>2. \A S : \A q \in Seq(S) : \A i \in DOMAIN q : q[i] \in S
    OBVIOUS
  <2>3. checkpoints[Len(checkpoints)] \in [first : Nat, last : Nat]
    BY <2>1, <2>2 DEF HistoryTypeOK
  <2> QED BY <1>2, <2>3 DEF LastEnd
<1> QED BY <1>1, <1>2

\* A step of one sync that writes no checkpoint.
LEMMA HistoryFrame ==
  ASSUME HistoryTypeOK, CoveredInv, UNCHANGED <<checkpoints, summarised>>,
         NEW s \in Syncs, NEW intake, intake \in SyncRow, CoveredBy(intake),
         sync' = [sync EXCEPT ![s] = intake]
  PROVE  HistoryTypeOK' /\ CoveredInv'
<1>1. HistoryTypeOK'
  BY DEF HistoryTypeOK
<1>2. \A n : Covered(n)' <=> Covered(n)
  BY DEF Covered
<1>3. LastEnd' = LastEnd
  BY DEF LastEnd
<1>4. ASSUME NEW q \in Syncs PROVE CoveredBy(sync[q])'
  <2>1. CoveredBy(sync'[q])
    BY DEF CoveredInv, HistoryTypeOK
  <2> QED BY <2>1, <1>2 DEF CoveredBy
<1>5. Covered(LastEnd)'
  BY <1>2, <1>3 DEF CoveredInv
<1> QED BY <1>1, <1>4, <1>5 DEF CoveredInv

\* What the author read and what lay before it are summarised, and the range of
\* the checkpoint and what lay before that are in a checkpoint.
LEMMA HistoryGrows ==
  ASSUME HistoryTypeOK, CoveredInv, NEW s \in Syncs, CreateCheckpoint(s)
  PROVE  HistoryTypeOK' /\ CoveredInv'
<1> DEFINE intake == sync[s]
           new == [first |-> intake.before + 1, last |-> intake.last]
           size == Len(checkpoints)
<1>r. /\ intake.at = "insert" /\ intake.first \in Nat /\ intake.last \in Nat /\ intake.before \in Nat
      /\ intake.first > 0 /\ Covered(intake.first - 1) /\ Covered(intake.before)
  BY DEF CreateCheckpoint, HistoryTypeOK, SyncRow, CoveredInv, CoveredBy
<1>n. checkpoints' = Append(checkpoints, new) /\ new \in [first : Nat, last : Nat]
  BY <1>r DEF CreateCheckpoint
<1>c. /\ size \in Nat /\ DOMAIN checkpoints = 1 .. size /\ DOMAIN checkpoints' = 1 .. size + 1
      /\ \A c \in 1 .. size: checkpoints'[c] = checkpoints[c]
      /\ checkpoints'[size + 1] = new /\ Len(checkpoints') = size + 1
  BY <1>n DEF HistoryTypeOK
<1>1. HistoryTypeOK'
  <2>1. Asleep \in SyncRow
    BY DEF Asleep, SyncRow
  <2>2. checkpoints' \in Seq([first : Nat, last : Nat])
    BY <1>n DEF HistoryTypeOK
  <2> QED BY <2>1, <2>2 DEF HistoryTypeOK, CreateCheckpoint
<1>2. ASSUME NEW n, Covered(n) PROVE Covered(n)'
  <2> SUFFICES ASSUME NEW i \in 1 .. n
               PROVE  /\ i \in summarised'
                      /\ \E c \in DOMAIN checkpoints' :
                           i \in checkpoints'[c].first .. checkpoints'[c].last
    BY DEF Covered
  <2>1. i \in summarised'
    BY <1>2 DEF Covered, CreateCheckpoint
  <2>2. PICK c \in DOMAIN checkpoints : i \in checkpoints[c].first .. checkpoints[c].last
    BY <1>2 DEF Covered
  <2>3. c \in DOMAIN checkpoints' /\ checkpoints'[c] = checkpoints[c]
    BY <1>c
  <2> QED BY <2>1, <2>2, <2>3
<1>3. LastEnd' = intake.last
  <2>1. checkpoints' # <<>>
    BY <1>c
  <2> QED BY <2>1, <1>c DEF LastEnd
<1>4. ASSUME NEW n, n = intake.last PROVE Covered(n)'
  <2> SUFFICES ASSUME NEW i \in 1 .. n
               PROVE  /\ i \in summarised'
                      /\ \E c \in DOMAIN checkpoints' :
                           i \in checkpoints'[c].first .. checkpoints'[c].last
    BY DEF Covered
  <2>1. i \in summarised'
    <3>1. CASE i \in 1 .. (intake.first - 1)
      BY <3>1, <1>r DEF Covered, CreateCheckpoint
    <3>2. CASE i \in intake.first .. intake.last
      BY <3>2 DEF CreateCheckpoint
    <3> QED BY <1>4, <1>r, <3>1, <3>2
  <2>2. \E c \in DOMAIN checkpoints' : i \in checkpoints'[c].first .. checkpoints'[c].last
    <3>1. CASE i \in 1 .. intake.before
      BY <3>1, <1>r, <1>2 DEF Covered
    <3>2. CASE i \in (intake.before + 1) .. intake.last
      <4>1. size + 1 \in DOMAIN checkpoints'
        BY <1>c
      <4> QED BY <3>2, <4>1, <1>c
    <3> QED BY <1>4, <1>r, <3>1, <3>2
  <2> QED BY <2>1, <2>2
<1>5. ASSUME NEW q \in Syncs PROVE CoveredBy(sync[q])'
  <2>1. CoveredBy(sync'[q])
    <3>1. CoveredBy(Asleep)
      BY DEF CoveredBy, Asleep
    <3> QED BY <3>1 DEF CoveredInv, CreateCheckpoint, HistoryTypeOK
  <2> QED BY <2>1, <1>2 DEF CoveredBy
<1>6. Covered(LastEnd)'
  BY <1>3, <1>4
<1> QED BY <1>1, <1>5, <1>6 DEF CoveredInv

LEMMA HistoryStep == HistoryInv /\ [IntakeNext]_intakeVars => HistoryInv'
<1> SUFFICES ASSUME HistoryInv, [IntakeNext]_intakeVars PROVE HistoryInv'
  OBVIOUS
<1>t. IntakeTypeOK' /\ HistoryTypeOK /\ CoveredInv /\ LastEnd \in Nat /\ Len(rows) \in Nat
  BY IntakeTypeStep, LastEndTyped DEF HistoryInv, IntakeTypeOK
<1>1. ASSUME NEW s \in Syncs, FetchUnsummarised(s) PROVE HistoryTypeOK' /\ CoveredInv'
  <2> DEFINE intake == [Asleep EXCEPT !.at = "read", !.first = LastEnd + 1, !.last = Len(rows)]
  <2>1. intake \in SyncRow /\ intake.at = "read" /\ intake.first = LastEnd + 1
    <3>1. \A a, b \in Nat : LET r == [Asleep EXCEPT !.at = "read", !.first = a, !.last = b] IN
            r \in SyncRow /\ r.at = "read" /\ r.first = a
      BY DEF Asleep, SyncRow
    <3>2. LastEnd + 1 \in Nat
      BY <1>t
    <3> QED BY <1>t, <3>1, <3>2
  <2>2. LastEnd + 1 - 1 = LastEnd /\ LastEnd + 1 > 0
    BY <1>t
  <2>3. CoveredBy(intake)
    BY <2>1, <2>2, <1>t DEF CoveredBy, CoveredInv
  <2> QED BY <1>1, <1>t, <2>1, <2>3, HistoryFrame DEF FetchUnsummarised
<1>2. ASSUME NEW s \in Syncs, ReadLastCheckpoint(s) PROVE HistoryTypeOK' /\ CoveredInv'
  <2> DEFINE intake == [sync[s] EXCEPT !.at = "insert", !.before = LastEnd]
  <2>0. sync[s] \in SyncRow /\ sync[s].at = "read" /\ CoveredBy(sync[s])
    BY <1>2, <1>t DEF ReadLastCheckpoint, HistoryTypeOK, CoveredInv
  <2>1. intake \in SyncRow /\ intake.at = "insert" /\ intake.first = sync[s].first /\ intake.before = LastEnd
    BY <2>0, <1>t DEF SyncRow
  <2>2. CoveredBy(intake)
    BY <2>0, <2>1, <1>t DEF CoveredBy, CoveredInv
  <2>3. sync' = [sync EXCEPT ![s] = intake]
    BY <1>2 DEF ReadLastCheckpoint
  <2> QED BY <1>2, <1>t, <2>1, <2>2, <2>3, HistoryFrame DEF ReadLastCheckpoint
<1>3. ASSUME NEW s \in Syncs, CreateCheckpoint(s) PROVE HistoryTypeOK' /\ CoveredInv'
  BY <1>3, <1>t, HistoryGrows
<1>4. ASSUME NEW s \in Syncs, SyncDies(s) PROVE HistoryTypeOK' /\ CoveredInv'
  <2>1. Asleep \in SyncRow /\ CoveredBy(Asleep)
    BY DEF SyncRow, Asleep, CoveredBy
  <2> QED BY <1>4, <1>t, <2>1, HistoryFrame DEF SyncDies
<1>5. ASSUME UNCHANGED <<checkpoints, sync, summarised>> PROVE HistoryTypeOK' /\ CoveredInv'
  <2>1. HistoryTypeOK'
    BY <1>5, <1>t DEF HistoryTypeOK
  <2>2. (\A n : Covered(n)' <=> Covered(n)) /\ LastEnd' = LastEnd
    BY <1>5 DEF Covered, LastEnd
  <2>3. CoveredInv'
    BY <1>5, <1>t, <2>2 DEF CoveredInv, CoveredBy
  <2> QED BY <2>1, <2>3
<1>6. HistoryTypeOK' /\ CoveredInv'
  BY <1>1, <1>2, <1>3, <1>4, <1>5
     DEF IntakeNext, intakeVars, history, notices, QueueMessage, QueryRoute, ReserveNotice, SendNotice,
         ClearReservation, ReceiverDies, AgentSends, IntakeSecond
<1> QED BY <1>t, <1>6 DEF HistoryInv

\* Whichever syncs overlap or die, a conversation that getUnsummarizedRange leaves
\* out was read by the author of a checkpoint, and createCheckpoint covered it.
THEOREM NothingIsSkipped == IntakeSpec => []NothingSkipped
<1>1. IntakeInit => HistoryInv
  <2> SUFFICES ASSUME IntakeInit PROVE HistoryInv
    OBVIOUS
  <2> USE DEF IntakeInit
  <2>1. IntakeTypeOK
    BY DEF IntakeTypeOK, ReceiverTypeOK, ReceiverRow, Steps, Resting
  <2>2. HistoryTypeOK
    BY DEF HistoryTypeOK, SyncRow, Asleep
  <2>3. CoveredInv
    BY DEF CoveredInv, CoveredBy, Covered, LastEnd, Asleep
  <2> QED BY <2>1, <2>2, <2>3 DEF HistoryInv
<1>2. HistoryInv /\ [IntakeNext]_intakeVars => HistoryInv'
  BY HistoryStep
<1>3. HistoryInv => NothingSkipped
  <2> SUFFICES ASSUME HistoryInv, NEW i \in DOMAIN rows \ Unsummarised
               PROVE  /\ i \in summarised
                      /\ \E c \in DOMAIN checkpoints :
                           i \in checkpoints[c].first .. checkpoints[c].last
    BY DEF NothingSkipped
  <2>1. LastEnd \in Nat /\ rows \in Seq(Written)
    BY LastEndTyped DEF HistoryInv, IntakeTypeOK
  <2>2. i \in 1 .. LastEnd
    BY <2>1 DEF Unsummarised
  <2> QED BY <2>2 DEF HistoryInv, CoveredInv, Covered
<1> QED BY <1>1, <1>2, <1>3, PTL DEF IntakeSpec

-----------------------------------------------------------------------------
(* Scheduler *)

(* What a statement does to the tasks table *)

\* The row each of the statements writes, and its status.
LEMMA RowChanges ==
  ASSUME NEW r \in Row, NEW s \in Statuses, NEW k \in Kind
  PROVE  /\ Stamped(r, s) \in Row /\ Stamped(r, s).status = s
         /\ NextWindow(r) \in Row /\ NextWindow(r).status = "pending"
         /\ Rewritten(r, k) \in Row /\ Rewritten(r, k).status = r.status
BY DEF Row, Statuses, Overdue, Stamped, NextWindow, Rewritten

\* An update without a schedule leaves the status.
LEMMA AmendEffect ==
  ASSUME row \in [Tasks -> Row], NEW t \in Tasks, Amend(t)
  PROVE  row' \in [Tasks -> Row] /\ \A u \in Tasks : row'[u].status = row[u].status
<1>1. PICK k \in Kinds[t] : row' = [row EXCEPT ![t] = Amended(row[t], k.priority)]
  BY DEF Amend
<1>2. row[t] \in Row /\ k \in Kind
  BY KindsAssumption
<1> DEFINE kind == [row[t].kind EXCEPT !.priority = k.priority]
<1>3. kind \in Kind
  BY <1>2 DEF Kind, Row
<1>4. Amended(row[t], k.priority) = [row[t] EXCEPT !.kind = kind, !.old = FALSE]
  BY DEF Amended
<1> HIDE DEF kind
<1>5. /\ [row[t] EXCEPT !.kind = kind, !.old = FALSE] \in Row
      /\ [row[t] EXCEPT !.kind = kind, !.old = FALSE].status = row[t].status
  BY <1>2, <1>3 DEF Row
<1> QED BY <1>1, <1>4, <1>5

LEMMA Defaults ==
  /\ AnyKind \in Kind
  /\ "pending" \in Statuses
  /\ NoRow \in Row /\ NoRow.status = "absent"
BY DEF AnyKind, Kind, Statuses, NoRow, Row, Overdue

LEMMA NewRows ==
  ASSUME NEW k \in Kind
  PROVE  /\ NewTask(k) \in Row /\ NewTask(k).status = "pending"
         /\ RemovedRow \in Row /\ RemovedRow.status = "removed"
<1>1. \A r \in Row : /\ [r EXCEPT !.status = "pending", !.kind = k] \in Row
                     /\ [r EXCEPT !.status = "pending", !.kind = k].status = "pending"
  BY DEF Row, Statuses
<1>2. \A r \in Row : /\ [r EXCEPT !.status = "removed"] \in Row
                     /\ [r EXCEPT !.status = "removed"].status = "removed"
  BY DEF Row
<1> QED BY <1>1, <1>2, Defaults DEF NewTask, RemovedRow

\* A status update changes the status of one existing row.
LEMMA SetStatusEffect ==
  ASSUME row \in [Tasks -> Row], NEW t \in Tasks, NEW s \in Statuses, SetStatus(t, s)
  PROVE  /\ row' \in [Tasks -> Row]
         /\ \A u \in Tasks :
              row'[u].status = IF u = t /\ Exists(t) THEN s ELSE row[u].status
<1> DEFINE r == Stamped(row[t], s)
<1>1. row[t] \in Row
  OBVIOUS
<1>2. r \in Row /\ r.status = s
  BY <1>1, RowChanges, Defaults
<1>3. row' = [row EXCEPT ![t] = IF Exists(t) THEN r ELSE row[t]]
  BY DEF SetStatus
<1> HIDE DEF r
<1> QED BY <1>2, <1>3

\* A new window replaces one row and starts its counters again.
LEMMA PostponeEffect ==
  ASSUME TypeOK, NEW t \in Tasks, NEW r \in Row, Postpone(t, r)
  PROVE  /\ row' = [row EXCEPT ![t] = r]
         /\ row' \in [Tasks -> Row]
         /\ earlier' \in [Tasks -> SUBSET Tasks]
         /\ copies' \in [Tasks -> Nat] /\ late' \in [Tasks -> Nat]
         /\ copies' = [copies EXCEPT ![t] = 0] /\ late' = [late EXCEPT ![t] = 0]
<1>1. row' = [row EXCEPT ![t] = r] /\ row' \in [Tasks -> Row]
  BY DEF Postpone, TypeOK
<1>2. copies' = [copies EXCEPT ![t] = 0] /\ late' = [late EXCEPT ![t] = 0]
  BY DEF Postpone
<1>3. copies' \in [Tasks -> Nat] /\ late' \in [Tasks -> Nat]
  BY <1>2 DEF TypeOK
<1>4. PICK before \in SUBSET {u \in Tasks \ {t} : Exists(u)} :
        earlier' = [u \in Tasks |->
            IF u = t THEN before
            ELSE (earlier[u] \ {t}) \cup (IF Exists(u) /\ u \notin before THEN {t} ELSE {})]
  BY DEF Postpone
<1>5. earlier' \in [Tasks -> SUBSET Tasks]
  BY <1>4 DEF TypeOK
<1> QED BY <1>1, <1>2, <1>3, <1>5

\* updateNextRunTime makes an existing row pending, in a window of its own.
LEMMA NextRunEffect ==
  ASSUME TypeOK, NEW t \in Tasks, UpdateNextRunTime(t)
  PROVE  /\ row' \in [Tasks -> Row]
         /\ earlier' \in [Tasks -> SUBSET Tasks]
         /\ copies' \in [Tasks -> Nat] /\ late' \in [Tasks -> Nat]
         /\ \A u \in Tasks :
              row'[u].status = IF u = t /\ Exists(t) THEN "pending" ELSE row[u].status
         /\ \A u \in Tasks : u # t => copies'[u] = copies[u] /\ late'[u] = late[u]
         /\ \/ copies'[t] = 0 /\ late'[t] = 0
            \/ ~Exists(t) /\ copies'[t] = copies[t] /\ late'[t] = late[t]
<1>1. CASE ~Exists(t)
  BY <1>1 DEF UpdateNextRunTime, historyVars, TypeOK
<1>2. CASE Exists(t)
  <2> DEFINE r == NextWindow(row[t])
  <2>1. row[t] \in Row
    BY DEF TypeOK
  <2>2. r \in Row /\ r.status = "pending"
    BY <2>1, RowChanges, Defaults
  <2>3. Postpone(t, r)
    BY <1>2 DEF UpdateNextRunTime
  <2> HIDE DEF r
  <2>4. /\ row' = [row EXCEPT ![t] = r] /\ row' \in [Tasks -> Row]
        /\ earlier' \in [Tasks -> SUBSET Tasks]
        /\ copies' \in [Tasks -> Nat] /\ late' \in [Tasks -> Nat]
        /\ copies' = [copies EXCEPT ![t] = 0] /\ late' = [late EXCEPT ![t] = 0]
    BY <2>2, <2>3, PostponeEffect
  <2> QED BY <1>2, <2>2, <2>4 DEF TypeOK
<1> QED BY <1>1, <1>2

LEMMA JobTyped ==
  ASSUME TypeOK, NEW t \in Tasks, NEW b \in {"completed", "nextMissed"}
  PROVE  JobOf(t, b) \in Job
<1>1. row[t] \in Row
  BY DEF TypeOK
<1>2. row[t].overdue \in Overdue /\ row[t].kind.type \in {"one-time", "recurring"}
  BY <1>1 DEF Row, Kind
<1> QED BY <1>2 DEF JobOf, Job

-----------------------------------------------------------------------------
(* Types *)

LEMMA InitTyped == Init => TypeOK
<1> SUFFICES ASSUME Init PROVE TypeOK
  OBVIOUS
<1>1. row \in [Tasks -> Row]
  BY Defaults DEF Init
<1>2. pc \in PcValues /\ pc \notin Dispatching \cup {"skip", "skipMissed", "expire"}
  BY DEF Init, PcValues, Dispatching
<1>3. cur \in Job \cup {NoJob} /\ rest \subseteq Job
  BY DEF Init
<1> QED BY <1>1, <1>2, <1>3 DEF Init, TypeOK

LEMMA PollTyped == TypeOK /\ Poll => TypeOK'
<1> SUFFICES ASSUME TypeOK, Poll PROVE TypeOK'
  OBVIOUS
<1>1. CASE pc' = "completed" /\ UNCHANGED cur
  BY <1>1 DEF Poll, TypeOK, agentVars, historyVars, PcValues, Dispatching
<1>2. ASSUME NEW t \in GetNextPendingTask, cur' = JobOf(t, "completed"),
             pc' = IF row[t].overdue = "over" THEN "skip" ELSE "claim"
      PROVE  TypeOK'
  <2>1. cur' \in Job
    BY <1>2, JobTyped DEF GetNextPendingTask
  <2> QED BY <1>2, <2>1 DEF Poll, TypeOK, agentVars, historyVars, PcValues, Dispatching
<1> QED BY <1>1, <1>2 DEF Poll

LEMMA SkipTyped == TypeOK /\ Skip => TypeOK'
<1> SUFFICES ASSUME TypeOK, Skip PROVE TypeOK'
  OBVIOUS
<1>1. cur.task \in Tasks
  BY DEF Skip, TypeOK, Job
<1>2. /\ row' \in [Tasks -> Row] /\ earlier' \in [Tasks -> SUBSET Tasks]
      /\ copies' \in [Tasks -> Nat] /\ late' \in [Tasks -> Nat]
  <2>1. CASE SetStatus(cur.task, "failed") /\ UNCHANGED <<earlier, historyVars>>
    BY <1>1, <2>1, SetStatusEffect DEF TypeOK, historyVars, Statuses
  <2>2. CASE UpdateNextRunTime(cur.task)
    BY <1>1, <2>2, NextRunEffect
  <2> QED BY <2>1, <2>2 DEF Skip
<1> QED BY <1>2 DEF Skip, TypeOK, agentVars, PcValues, Dispatching

LEMMA DispatchTyped == TypeOK /\ Dispatch => TypeOK'
<1> SUFFICES ASSUME TypeOK, Dispatch PROVE TypeOK'
  OBVIOUS
<1> USE DEF PcValues, Dispatching, agentVars, historyVars
<1>1. cur \in Job /\ cur.task \in Tasks /\ cur.back \in {"completed", "nextMissed"}
  BY DEF TypeOK, Job, Dispatch, Claim, Log, Refused, Accepted, Succeeds, TimesOut, Revert, Close
<1>2. CASE Claim
  <2>1. row' \in [Tasks -> Row]
    BY <1>1, <1>2, SetStatusEffect DEF Claim, TypeOK, Statuses
  <2> QED BY <1>1, <1>2, <2>1 DEF Claim, Return, TypeOK
<1>3. CASE Log
  BY <1>1, <1>3 DEF Log, EndIteration, TypeOK
<1>4. CASE Refused
  BY <1>1, <1>4 DEF Refused, TypeOK
<1>5. CASE Accepted
  BY <1>1, <1>5 DEF Accepted, TypeOK
<1>6. CASE Succeeds
  BY <1>1, <1>6 DEF Succeeds, Return, TypeOK
<1>7. CASE TimesOut
  BY <1>1, <1>7 DEF TimesOut, TypeOK
<1>8. CASE Revert
  <2>1. row' \in [Tasks -> Row]
    BY <1>1, <1>8, SetStatusEffect DEF Revert, TypeOK, Statuses
  <2> QED BY <1>1, <1>8, <2>1 DEF Revert, TypeOK
<1>9. CASE Close
  BY <1>1, <1>9 DEF Close, CloseLatest, Return, TypeOK
<1> QED BY <1>2, <1>3, <1>4, <1>5, <1>6, <1>7, <1>8, <1>9 DEF Dispatch

\* The jobs a pass selects.
LEMMA SelectionTyped ==
  ASSUME TypeOK, NEW S \in SUBSET Tasks, NEW b \in {"completed", "nextMissed"}
  PROVE  {JobOf(t, b) : t \in S} \subseteq Job
BY JobTyped

LEMMA CompletedPassTyped == TypeOK /\ (SelectCompleted \/ Reschedule) => TypeOK'
<1> SUFFICES ASSUME TypeOK, SelectCompleted \/ Reschedule PROVE TypeOK'
  OBVIOUS
<1> USE DEF PcValues, Dispatching, agentVars, historyVars
<1>1. CASE SelectCompleted
  <2>1. rest' \subseteq Job
    BY <1>1, SelectionTyped DEF SelectCompleted
  <2> QED BY <1>1, <2>1 DEF SelectCompleted, TypeOK
<1>2. CASE Reschedule
  <2>1. PICK j \in rest :
          /\ rest' = rest \ {j}
          /\ \/ UpdateNextRunTime(j.task)
             \/ SetStatus(j.task, "failed") /\ UNCHANGED <<earlier, historyVars>>
    BY <1>2 DEF Reschedule
  <2>2. j.task \in Tasks /\ "failed" \in Statuses
    BY DEF TypeOK, Job, Statuses
  <2>3. /\ row' \in [Tasks -> Row] /\ earlier' \in [Tasks -> SUBSET Tasks]
        /\ copies' \in [Tasks -> Nat] /\ late' \in [Tasks -> Nat]
    <3>1. CASE UpdateNextRunTime(j.task)
      BY <2>2, <3>1, NextRunEffect
    <3>2. CASE SetStatus(j.task, "failed") /\ UNCHANGED <<earlier, historyVars>>
      BY <2>2, <3>2, SetStatusEffect DEF TypeOK
    <3> QED BY <2>1, <3>1, <3>2
  <2> QED BY <1>2, <2>1, <2>3 DEF Reschedule, TypeOK
<1> QED BY <1>1, <1>2

LEMMA MissedPassTyped == TypeOK /\ (SelectMissed \/ NextMissed \/ SkipMissed) => TypeOK'
<1> SUFFICES ASSUME TypeOK, SelectMissed \/ NextMissed \/ SkipMissed PROVE TypeOK'
  OBVIOUS
<1> USE DEF PcValues, Dispatching, agentVars, historyVars
<1>1. CASE SelectMissed
  <2>1. rest' \subseteq Job
    BY <1>1, SelectionTyped DEF SelectMissed
  <2> QED BY <1>1, <2>1 DEF SelectMissed, TypeOK
<1>2. CASE NextMissed
  <2>1. CASE rest = {} /\ pc' = "stale" /\ UNCHANGED <<cur, rest>>
    BY <1>2, <2>1 DEF NextMissed, TypeOK
  <2>2. CASE \E j \in rest :
               /\ rest' = rest \ {j}
               /\ IF j.overdue = "over" THEN pc' = "skipMissed" /\ cur' = j
                  ELSE IF alive THEN pc' = "claim" /\ cur' = j
                  ELSE UNCHANGED <<pc, cur>>
    BY <1>2, <2>2 DEF NextMissed, TypeOK
  <2> QED BY <1>2, <2>1, <2>2 DEF NextMissed
<1>3. CASE SkipMissed
  <2>1. cur.task \in Tasks /\ cur.back \in {"completed", "nextMissed"}
    BY <1>3 DEF SkipMissed, TypeOK, Job
  <2>2. /\ row' \in [Tasks -> Row] /\ earlier' \in [Tasks -> SUBSET Tasks]
        /\ copies' \in [Tasks -> Nat] /\ late' \in [Tasks -> Nat]
    BY <1>3, <2>1, NextRunEffect DEF SkipMissed
  <2> QED BY <1>3, <2>1, <2>2 DEF SkipMissed, Return, TypeOK
<1> QED BY <1>1, <1>2, <1>3

LEMMA StalePassTyped == TypeOK /\ (SelectStale \/ TimeoutHistory \/ Expire) => TypeOK'
<1> SUFFICES ASSUME TypeOK, SelectStale \/ TimeoutHistory \/ Expire PROVE TypeOK'
  OBVIOUS
<1> USE DEF PcValues, Dispatching, agentVars, historyVars
<1>1. CASE SelectStale
  <2>1. rest' \subseteq Job
    BY <1>1, SelectionTyped DEF SelectStale
  <2> QED BY <1>1, <2>1 DEF SelectStale, TypeOK
<1>2. CASE TimeoutHistory
  <2>1. PICK j \in rest : /\ cur' = j /\ rest' = rest \ {j}
                          /\ open' = [open EXCEPT ![j.task] = 0]
    BY <1>2 DEF TimeoutHistory
  <2>2. j \in Job
    BY DEF TypeOK
  <2> QED BY <1>2, <2>1, <2>2 DEF TimeoutHistory, TypeOK
<1>3. CASE Expire
  <2>1. cur.task \in Tasks
    BY <1>3 DEF Expire, TypeOK, Job
  <2>2. ExpiredStatus(cur.type) \in Statuses
    BY DEF ExpiredStatus, Statuses
  <2>3. row' \in [Tasks -> Row]
    BY <1>3, <2>1, <2>2, SetStatusEffect DEF Expire, TypeOK
  <2> QED BY <1>3, <2>3 DEF Expire, TypeOK
<1> QED BY <1>1, <1>2, <1>3

LEMMA CrashTyped == TypeOK /\ Crash => TypeOK'
BY DEF Crash, TypeOK, PcValues, Dispatching, agentVars, historyVars

LEMMA DaemonTyped == TypeOK /\ (Poll \/ Daemon \/ Crash) => TypeOK'
BY PollTyped, SkipTyped, DispatchTyped, CompletedPassTyped, MissedPassTyped,
   StalePassTyped, CrashTyped DEF Daemon
LEMMA CommandTyped ==
  ASSUME TypeOK, NEW t \in Tasks, Commands(t)
  PROVE  TypeOK'
<1> USE DEF cliOnly, daemonVars, agentVars, historyVars
<1>1. CASE Add(t)
  <2>1. PICK k \in Kinds[t] : Postpone(t, NewTask(k))
    BY <1>1 DEF Add
  <2>2. k \in Kind
    BY KindsAssumption
  <2>3. NewTask(k) \in Row
    BY <2>2, NewRows
  <2> QED BY <1>1, <2>1, <2>3, PostponeEffect DEF Add, TypeOK
<1>2. CASE Update(t)
  <2>1. PICK k \in Kinds[t] : Postpone(t, Rewritten(row[t], k))
    BY <1>2 DEF Update
  <2>2. k \in Kind /\ row[t] \in Row
    BY KindsAssumption DEF TypeOK
  <2>3. Rewritten(row[t], k) \in Row
    BY <2>2, RowChanges, Defaults
  <2> QED BY <1>2, <2>1, <2>3, PostponeEffect DEF Update, TypeOK
<1>3. CASE Remove(t)
  <2>1. RemovedRow \in Row
    BY NewRows, Defaults
  <2>2. earlier' \in [Tasks -> SUBSET Tasks]
    BY <1>3 DEF Remove, TypeOK
  <2> QED BY <1>3, <2>1, <2>2 DEF Remove, TypeOK
<1>4. CASE UserDone(t)
  <2>1. row' \in [Tasks -> Row]
    BY <1>4, SetStatusEffect DEF UserDone, Done, TypeOK, Statuses
  <2>2. raced' \in [Tasks -> Nat]
    BY <1>4 DEF UserDone, Done, Races, TypeOK
  <2>3. cli' \in {"done", "pause", "resume"} \X Tasks
    BY <1>4 DEF UserDone, Done
  <2> QED BY <1>4, <2>1, <2>2, <2>3 DEF UserDone, Done, TypeOK
<1>5. CASE DoneHistory(t)
  BY <1>5 DEF DoneHistory, CloseLatest, TypeOK
<1>6. ASSUME NEW op \in {"pause", "resume"}, NEW s \in Statuses, Look(op, s, t)
      PROVE  TypeOK'
  BY <1>6 DEF Look, TypeOK
<1>7. ASSUME NEW op, NEW s \in Statuses, NEW seen, Write(op, s, seen, t)
      PROVE  TypeOK'
  <2>1. row' \in [Tasks -> Row]
    BY <1>7, SetStatusEffect DEF Write, TypeOK
  <2>2. raced' \in [Tasks -> Nat] /\ cli' = <<"none", "none">>
    BY <1>7 DEF Write, Races, TypeOK
  <2> QED BY <1>7, <2>1, <2>2 DEF Write, TypeOK
<1>8. CASE Amend(t)
  <2>1. row' \in [Tasks -> Row]
    BY <1>8, AmendEffect DEF TypeOK
  <2> QED BY <1>8, <2>1 DEF Amend, TypeOK
<1> QED
  BY <1>1, <1>2, <1>3, <1>4, <1>5, <1>6, <1>7, <1>8 DEF Commands, Pause, Resume, Statuses

LEMMA SurroundingsTyped ==
  ASSUME TypeOK, NEW t \in Tasks, Agent(t) \/ TimePasses(t) \/ Ages(t)
  PROVE  TypeOK'
<1> USE DEF cliOnly, daemonVars, agentVars, historyVars
<1>0. row[t] \in Row
  BY DEF TypeOK
<1>1. CASE Delivers(t)
  BY <1>1 DEF Delivers, TypeOK
<1>2. CASE AgentDone(t)
  <2>1. row' \in [Tasks -> Row]
    BY <1>2, SetStatusEffect DEF AgentDone, Done, TypeOK, Statuses
  <2>2. raced' \in [Tasks -> Nat]
    BY <1>2 DEF AgentDone, Done, Races, TypeOK
  <2>3. cli' \in {"done", "pause", "resume"} \X Tasks
    BY <1>2 DEF AgentDone, Done
  <2> QED BY <1>2, <2>1, <2>2, <2>3 DEF AgentDone, Done, TypeOK
<1>3. CASE Forgets(t)
  BY <1>3 DEF Forgets, TypeOK
<1>4. CASE TimePasses(t)
  <2> DEFINE o == Later(row[t].kind, row[t].overdue)
  <2>2. row' = [row EXCEPT ![t].overdue = o]
    BY <1>4 DEF TimePasses
  <2>3. o \in Overdue
    BY DEF Later, Overdue
  <2> HIDE DEF o
  <2>4. row' \in [Tasks -> Row]
    BY <1>0, <2>2, <2>3 DEF TypeOK, Row
  <2> QED BY <1>4, <2>4 DEF TimePasses, TypeOK
<1>5. CASE Ages(t)
  <2>1. row' \in [Tasks -> Row]
    BY <1>0, <1>5 DEF Ages, TypeOK, Row
  <2> QED BY <1>5, <2>1 DEF Ages, TypeOK
<1> QED BY <1>1, <1>2, <1>3, <1>4, <1>5 DEF Agent

LEMMA StepTyped == TypeOK /\ [Next]_vars => TypeOK'
<1>1. ASSUME TypeOK, UNCHANGED vars PROVE TypeOK'
  BY <1>1 DEF TypeOK, vars, daemonVars, agentVars, historyVars
<1>2. ASSUME TypeOK, NEW t \in Tasks, Commands(t) \/ Agent(t) \/ TimePasses(t) \/ Ages(t)
      PROVE  TypeOK'
  BY <1>2, CommandTyped, SurroundingsTyped
<1>3. TypeOK /\ RuntimeChanges => TypeOK'
  BY DEF RuntimeChanges, TypeOK, daemonVars, historyVars
<1> QED BY <1>1, <1>2, <1>3, DaemonTyped DEF Next

\* Every variable keeps its type: rows stay rows whatever command changes them
\* between two statements of the daemon, and no counter becomes negative.
THEOREM TypeCorrect == Spec => []TypeOK
BY InitTyped, StepTyped, PTL DEF Spec
-----------------------------------------------------------------------------
(* The rows the daemon holds and those the commands change *)

\* What a command does to the status of its own row.
LEMMA CommandStatus ==
  ASSUME TypeOK, NEW t \in Tasks, Commands(t) \/ Agent(t) \/ TimePasses(t) \/ Ages(t)
  PROVE  /\ UNCHANGED daemonVars
         /\ \A u \in Tasks : u # t => row'[u].status = row[u].status
         /\ row'[t].status = "running" => row[t].status = "running"
         /\ row'[t].status = "absent" => row[t].status = "absent"
<1> USE DEF cliOnly, daemonVars, agentVars, historyVars
<1>0. row \in [Tasks -> Row] /\ row[t] \in Row
  BY DEF TypeOK
<1>1. CASE Add(t)
  <2>1. PICK k \in Kinds[t] : Postpone(t, NewTask(k))
    BY <1>1 DEF Add
  <2>2. k \in Kind
    BY KindsAssumption
  <2>3. NewTask(k) \in Row /\ NewTask(k).status = "pending"
    BY <2>2, NewRows
  <2>4. row' = [row EXCEPT ![t] = NewTask(k)]
    BY <2>1, <2>3, PostponeEffect
  <2> QED BY <1>0, <1>1, <2>3, <2>4 DEF Add
<1>2. CASE Update(t)
  <2>1. PICK k \in Kinds[t] : Postpone(t, Rewritten(row[t], k))
    BY <1>2 DEF Update
  <2>2. k \in Kind
    BY KindsAssumption
  <2>3. /\ Rewritten(row[t], k) \in Row
        /\ Rewritten(row[t], k).status = row[t].status
    BY <1>0, <2>2, RowChanges, Defaults
  <2>4. row' = [row EXCEPT ![t] = Rewritten(row[t], k)]
    BY <2>1, <2>3, PostponeEffect
  <2> QED BY <1>0, <1>2, <2>3, <2>4 DEF Update
<1>3. CASE Remove(t)
  <2>1. RemovedRow.status = "removed"
    BY NewRows, Defaults
  <2> QED BY <1>0, <1>3, <2>1 DEF Remove
<1>4. CASE UserDone(t) \/ AgentDone(t)
  <2>1. SetStatus(t, "completed") /\ "completed" \in Statuses
    BY <1>4 DEF UserDone, AgentDone, Done, Statuses
  <2>2. \A u \in Tasks :
          row'[u].status = IF u = t /\ Exists(t) THEN "completed" ELSE row[u].status
    BY <1>0, <2>1, SetStatusEffect
  <2> QED BY <1>4, <2>2 DEF UserDone, AgentDone, Done
<1>5. CASE DoneHistory(t)
  BY <1>5 DEF DoneHistory
<1>6. ASSUME NEW op, NEW s, Look(op, s, t)
      PROVE  UNCHANGED <<row, daemonVars>>
  BY <1>6 DEF Look
<1>7. ASSUME NEW op, NEW s \in {"paused", "pending"}, NEW seen, Write(op, s, seen, t)
      PROVE  /\ UNCHANGED daemonVars
             /\ \A u \in Tasks :
                  row'[u].status = IF u = t /\ Exists(t) THEN s ELSE row[u].status
  <2>1. SetStatus(t, s) /\ s \in Statuses
    BY <1>7 DEF Write, Statuses
  <2> QED BY <1>0, <1>7, <2>1, SetStatusEffect DEF Write
<1>8. CASE Pause(t) \/ Resume(t)
  BY <1>6, <1>7, <1>8 DEF Pause, Resume
<1>9. CASE Delivers(t) \/ Forgets(t)
  BY <1>9 DEF Delivers, Forgets
<1>10. CASE TimePasses(t)
  <2> DEFINE o == Later(row[t].kind, row[t].overdue)
  <2>1. row' = [row EXCEPT ![t].overdue = o]
    BY <1>10 DEF TimePasses
  <2> HIDE DEF o
  <2>2. \A u \in Tasks : row'[u].status = row[u].status
    BY <1>0, <2>1 DEF Row
  <2> QED BY <1>10, <2>2 DEF TimePasses
<1>11. CASE Ages(t)
  <2>1. \A u \in Tasks : row'[u].status = row[u].status
    BY <1>0, <1>11 DEF Ages, Row
  <2> QED BY <1>11, <2>1 DEF Ages
<1>12. CASE Amend(t)
  <2>1. \A u \in Tasks : row'[u].status = row[u].status
    BY <1>0, <1>12, AmendEffect
  <2> QED BY <1>12, <2>1 DEF Amend
<1> QED
  BY <1>1, <1>2, <1>3, <1>4, <1>5, <1>8, <1>9, <1>10, <1>11, <1>12 DEF Commands, Agent

\* The daemon works on one row at a time, and none it has still to work on runs,
\* except in the stale pass.
JobsInv ==
  /\ pc = "poll" => rest = {}
  /\ \A i, j \in rest : i.task = j.task => i = j
  /\ pc \notin {"timeout", "expire"} => \A j \in rest : row[j.task].status # "running"
  /\ pc \in Dispatching \cup {"skipMissed"} => \A j \in rest : j.task # cur.task
  /\ pc \in {"skip", "skipMissed"} => row[cur.task].status # "running"
  /\ pc \in {"log", "send"} => row[cur.task].status # "absent"

LEMMA InitJobs == Init => JobsInv
BY DEF Init, JobsInv, Dispatching

LEMMA OtherJobs ==
  ASSUME TypeOK, JobsInv, UNCHANGED daemonVars,
         \A u \in Tasks : /\ row'[u].status = "running" => row[u].status = "running"
                          /\ row'[u].status = "absent" => row[u].status = "absent"
  PROVE  JobsInv'
<1>1. \A j \in rest : j.task \in Tasks
  BY DEF TypeOK, Job
<1>2. pc \in Dispatching \cup {"skip", "skipMissed"} => cur.task \in Tasks
  BY DEF TypeOK, Job
<1> QED BY <1>1, <1>2 DEF JobsInv, daemonVars, Dispatching
\* Rows a pass selects are distinct, and are not running if it looks for others.
LEMMA SelectionJobs ==
  ASSUME NEW S \in SUBSET Tasks, NEW b
  PROVE  /\ \A i, j \in {JobOf(t, b) : t \in S} : i.task = j.task => i = j
         /\ \A j \in {JobOf(t, b) : t \in S} : j.task \in S
BY DEF JobOf

LEMMA DispatchJobs ==
  ASSUME TypeOK, JobsInv, Dispatch
  PROVE  JobsInv'
<1> USE DEF Dispatching, agentVars, historyVars
<1>1. cur.task \in Tasks /\ cur.back \in {"completed", "nextMissed"}
  BY DEF TypeOK, Job, Dispatch, Claim, Log, Refused, Accepted, Succeeds, TimesOut, Revert, Close
<1>2. \A j \in rest : j.task \in Tasks
  BY DEF TypeOK, Job
<1>3. pc \in Dispatching
  BY DEF Dispatch, Claim, Log, Refused, Accepted, Succeeds, TimesOut, Revert, Close
<1>4. CASE Claim
  <2>1. CASE ~Claimable(cur.task)
    BY <1>1, <1>2, <1>3, <1>4, <2>1 DEF Claim, Return, JobsInv
  <2>2. CASE Claimable(cur.task)
    <3>1. SetStatus(cur.task, "running") /\ pc' = "log" /\ UNCHANGED <<cur, rest>>
      BY <1>4, <2>2 DEF Claim
    <3>2. \A u \in Tasks : row'[u].status = IF u = cur.task /\ Exists(cur.task)
                                            THEN "running" ELSE row[u].status
      BY <1>1, <3>1, SetStatusEffect DEF TypeOK, Statuses
    <3>3. row[cur.task].status # "absent"
      BY <2>2 DEF Claimable
    <3> QED BY <1>1, <1>2, <1>3, <3>1, <3>2, <3>3 DEF JobsInv
  <2> QED BY <2>1, <2>2
<1>5. CASE Log
  <2>1. CASE Exists(cur.task)
    BY <1>1, <1>2, <1>5, <2>1 DEF Log, JobsInv, Exists, Statuses
  <2>2. CASE ~Exists(cur.task)
    BY <1>5, <2>2 DEF Log, EndIteration, JobsInv
  <2> QED BY <2>1, <2>2
<1>6. CASE Refused
  BY <1>6 DEF Refused, JobsInv
<1>7. CASE Accepted
  BY <1>7 DEF Accepted, JobsInv
<1>8. CASE Succeeds
  BY <1>1, <1>8 DEF Succeeds, Return, JobsInv
<1>9. CASE TimesOut
  BY <1>9 DEF TimesOut, JobsInv
<1>10. CASE Revert
  <2>1. \A u \in Tasks : row'[u].status = IF u = cur.task /\ Exists(cur.task)
                                          THEN "pending" ELSE row[u].status
    BY <1>1, <1>10, SetStatusEffect DEF Revert, TypeOK, Statuses
  <2> QED BY <1>1, <1>2, <1>10, <2>1 DEF Revert, JobsInv
<1>11. CASE Close
  BY <1>1, <1>11 DEF Close, Return, JobsInv
<1> QED
  BY <1>4, <1>5, <1>6, <1>7, <1>8, <1>9, <1>10, <1>11 DEF Dispatch

LEMMA PassJobs ==
  ASSUME TypeOK, JobsInv, Poll \/ Daemon \/ Crash
  PROVE  JobsInv'
<1> USE DEF Dispatching, agentVars, historyVars
<1>0. \A j \in rest : j.task \in Tasks
  BY DEF TypeOK, Job
<1>1. CASE Poll
  <2>1. CASE pc' = "completed"
    BY <1>1, <2>1 DEF Poll, JobsInv
  <2>2. ASSUME NEW t \in GetNextPendingTask, cur' = JobOf(t, "completed"),
               pc' = IF row[t].overdue = "over" THEN "skip" ELSE "claim"
        PROVE  JobsInv'
    <3>1. cur'.task = t /\ row[t].status = "pending"
      BY <2>2 DEF JobOf, GetNextPendingTask, Due
    <3> QED BY <1>1, <2>2, <3>1 DEF Poll, JobsInv
  <2> QED BY <1>1, <2>1, <2>2 DEF Poll
<1>2. CASE Skip
  <2>1. cur.task \in Tasks
    BY <1>2 DEF Skip, TypeOK, Job
  <2>2. \A u \in Tasks : row'[u].status = "running" => row[u].status = "running"
    <3>1. CASE SetStatus(cur.task, "failed")
      BY <2>1, <3>1, SetStatusEffect DEF TypeOK, Statuses
    <3>2. CASE UpdateNextRunTime(cur.task)
      BY <2>1, <3>2, NextRunEffect
    <3> QED BY <1>2, <3>1, <3>2 DEF Skip
  <2> QED BY <1>0, <1>2, <2>2 DEF Skip, JobsInv
<1>3. CASE SelectCompleted
  <2> DEFINE S == {u \in Tasks : row[u].status = "completed" /\ row[u].kind.type # "one-time"}
  <2>1. rest' = {JobOf(t, "completed") : t \in S} /\ S \in SUBSET Tasks
    BY <1>3 DEF SelectCompleted
  <2>2. \A t \in S : row[t].status # "running"
    OBVIOUS
  <2> HIDE DEF S
  <2>3. /\ \A i, j \in rest' : i.task = j.task => i = j
        /\ \A j \in rest' : row[j.task].status # "running"
    BY <2>1, <2>2, SelectionJobs
  <2> QED BY <1>3, <2>3 DEF SelectCompleted, JobsInv
<1>4. CASE Reschedule
  <2>1. PICK j \in rest :
          rest' = rest \ {j} /\ (UpdateNextRunTime(j.task) \/ SetStatus(j.task, "failed"))
    BY <1>4 DEF Reschedule
  <2>2. \A u \in Tasks : row'[u].status = "running" => row[u].status = "running"
    <3>1. j.task \in Tasks
      BY DEF TypeOK, Job
    <3>2. CASE UpdateNextRunTime(j.task)
      BY <3>1, <3>2, NextRunEffect
    <3>3. CASE SetStatus(j.task, "failed")
      BY <3>1, <3>3, SetStatusEffect DEF TypeOK, Statuses
    <3> QED BY <2>1, <3>2, <3>3
  <2> QED BY <1>0, <1>4, <2>1, <2>2 DEF Reschedule, JobsInv
<1>5. CASE SelectMissed
  <2> DEFINE S == {u \in Tasks : Missed(u)}
  <2>1. rest' = {JobOf(t, "nextMissed") : t \in S} /\ S \in SUBSET Tasks
    BY <1>5 DEF SelectMissed
  <2>2. \A t \in S : row[t].status # "running"
    BY DEF Missed
  <2> HIDE DEF S
  <2>3. /\ \A i, j \in rest' : i.task = j.task => i = j
        /\ \A j \in rest' : row[j.task].status # "running"
    BY ZenonT(30), <2>1, <2>2, SelectionJobs
  <2> QED BY <1>5, <2>3 DEF SelectMissed, JobsInv
<1>6. CASE NextMissed
  <2>1. CASE rest = {} /\ pc' = "stale" /\ UNCHANGED <<cur, rest>>
    BY <1>6, <2>1 DEF NextMissed, JobsInv
  <2>2. ASSUME NEW j \in rest, rest' = rest \ {j},
               IF j.overdue = "over" THEN pc' = "skipMissed" /\ cur' = j
               ELSE IF alive THEN pc' = "claim" /\ cur' = j
               ELSE UNCHANGED <<pc, cur>>
        PROVE  JobsInv'
    BY <1>0, <1>6, <2>2 DEF NextMissed, JobsInv
  <2> QED BY <1>6, <2>1, <2>2 DEF NextMissed
<1>7. CASE SkipMissed
  <2>1. cur.task \in Tasks /\ cur.back \in {"completed", "nextMissed"}
    BY <1>7 DEF SkipMissed, TypeOK, Job
  <2>2. \A u \in Tasks : row'[u].status = "running" => row[u].status = "running"
    BY <1>7, <2>1, NextRunEffect DEF SkipMissed
  <2> QED BY <1>0, <1>7, <2>1, <2>2 DEF SkipMissed, Return, JobsInv
<1>8. CASE SelectStale
  <2> DEFINE S == {u \in Tasks : StaleRunning(u)}
  <2>1. rest' = {JobOf(t, "completed") : t \in S} /\ S \in SUBSET Tasks
    BY <1>8 DEF SelectStale
  <2> HIDE DEF S
  <2>2. \A i, j \in rest' : i.task = j.task => i = j
    BY <2>1, SelectionJobs
  <2> QED BY <1>8, <2>2 DEF SelectStale, JobsInv
<1>9. CASE TimeoutHistory
  BY <1>9 DEF TimeoutHistory, JobsInv
<1>10. CASE Expire
  BY <1>10 DEF Expire, JobsInv
<1>11. CASE Crash
  BY <1>11 DEF Crash, JobsInv
<1> QED
  BY <1>1, <1>2, <1>3, <1>4, <1>5, <1>6, <1>7, <1>8, <1>9, <1>10, <1>11, DispatchJobs
  DEF Daemon

LEMMA StepJobs == TypeOK /\ JobsInv /\ [Next]_vars => JobsInv'
<1>1. ASSUME TypeOK, JobsInv, NEW t \in Tasks,
             Commands(t) \/ Agent(t) \/ TimePasses(t) \/ Ages(t)
      PROVE  JobsInv'
  <2>1. \A u \in Tasks : /\ row'[u].status = "running" => row[u].status = "running"
                         /\ row'[u].status = "absent" => row[u].status = "absent"
    BY <1>1, CommandStatus
  <2>2. UNCHANGED daemonVars
    BY <1>1, CommandStatus
  <2> QED BY <1>1, <2>1, <2>2, OtherJobs
<1>2. ASSUME TypeOK, JobsInv, RuntimeChanges \/ UNCHANGED vars PROVE JobsInv'
  BY <1>2, OtherJobs DEF RuntimeChanges, vars, daemonVars, historyVars
<1> QED BY <1>1, <1>2, PassJobs DEF Next
-----------------------------------------------------------------------------
(* History entries *)

\* What HistoryAccounted needs at the points where the daemon is about to add an
\* entry, to take a row's 'running' away or to fail a task.
Entries(t) ==
  /\ open[t] <= Closers(t) + raced[t] + crashes + Count(row[t].status = "running")
  /\ pc = "log" /\ cur.task = t /\ Exists(t) =>
       /\ open[t] + 1 <= Closers(t) + raced[t] + crashes + Count(row[t].status = "running")
       /\ 1 <= raced[t] + Count(row[t].status = "running")
  /\ pc = "revert" /\ cur.task = t => open[t] <= Closers(t) + raced[t] + crashes
  /\ pc = "expire" /\ cur.task = t => open[t] = 0
EntriesInv == \A t \in Tasks : Entries(t)

LEMMA InitEntries == Init => EntriesInv
<1> SUFFICES ASSUME Init, NEW t \in Tasks PROVE Entries(t)
  BY DEF EntriesInv
<1>1. Closers(t) \in Nat /\ Count(row[t].status = "running") \in Nat
  BY DEF Closers, Count
<1>2. open[t] = 0 /\ raced[t] = 0 /\ crashes = 0 /\ pc = "stale"
  BY DEF Init
<1> QED BY <1>1, <1>2 DEF Entries

\* A step of the daemon that neither touches the history nor stops a task.
LEMMA QuietEntries ==
  ASSUME TypeOK, EntriesInv, UNCHANGED <<open, cli, raced, crashes>>,
         pc \notin {"revert", "close"}, pc' \notin {"log", "revert", "close", "expire"},
         \A u \in Tasks : row[u].status = "running" => row'[u].status = "running"
  PROVE  EntriesInv'
<1> SUFFICES ASSUME NEW u \in Tasks PROVE Entries(u)'
  BY DEF EntriesInv
<1>1. open[u] \in Nat /\ raced[u] \in Nat /\ crashes \in Nat
  BY DEF TypeOK
<1>2. Closers(u)' = Closers(u) /\ Closers(u) \in Nat
  BY DEF Closers, Count
<1>3. Count(row[u].status = "running") <= Count(row'[u].status = "running")
      /\ Count(row[u].status = "running") \in Nat /\ Count(row'[u].status = "running") \in Nat
  BY DEF Count
<1>4. open[u] <= Closers(u) + raced[u] + crashes + Count(row[u].status = "running")
  BY DEF EntriesInv, Entries
<1> QED BY <1>1, <1>2, <1>3, <1>4 DEF Entries

LEMMA DispatchEntries ==
  ASSUME TypeOK, EntriesInv, Dispatch
  PROVE  EntriesInv'
<1> USE DEF Dispatching, agentVars, historyVars
<1>1. cur.task \in Tasks /\ cur.back \in {"completed", "nextMissed"}
  BY DEF TypeOK, Job, Dispatch, Claim, Log, Refused, Accepted, Succeeds, TimesOut, Revert, Close
<1>2. \A u \in Tasks : open[u] \in Nat /\ raced[u] \in Nat /\ crashes \in Nat
  BY DEF TypeOK
<1>3. CASE Claim
  <2>1. CASE ~Claimable(cur.task)
    BY <1>1, <1>3, <2>1, QuietEntries DEF Claim, Return
  <2>2. CASE Claimable(cur.task)
    <3>1. SetStatus(cur.task, "running") /\ pc' = "log" /\ UNCHANGED <<cur, rest>>
      BY <1>3, <2>2 DEF Claim
    <3>2. \A u \in Tasks : row'[u].status = IF u = cur.task THEN "running" ELSE row[u].status
      BY <1>1, <2>2, <3>1, SetStatusEffect DEF TypeOK, Claimable, Exists, Statuses
    <3> QED BY <1>1, <1>2, <1>3, <2>2, <3>1, <3>2
            DEF Claim, Claimable, EntriesInv, Entries, Closers, Count
  <2> QED BY <2>1, <2>2
<1>4. CASE Log
  <2>1. CASE Exists(cur.task)
    <3>1. \A u \in Tasks : open'[u] = IF u = cur.task THEN open[u] + 1 ELSE open[u]
      BY <1>1, <1>4, <2>1 DEF Log, TypeOK
    <3> QED BY <1>1, <1>2, <1>4, <2>1, <3>1 DEF Log, EntriesInv, Entries, Closers, Count
  <2>2. CASE ~Exists(cur.task)
    BY <1>4, <2>2, QuietEntries DEF Log, EndIteration
  <2> QED BY <2>1, <2>2
<1>5. CASE Refused
  BY <1>1, <1>2, <1>5 DEF Refused, EntriesInv, Entries, Closers, Count
<1>6. CASE Accepted
  BY <1>6, QuietEntries DEF Accepted
<1>7. CASE Succeeds
  BY <1>1, <1>7, QuietEntries DEF Succeeds, Return
<1>8. CASE TimesOut
  BY <1>1, <1>2, <1>8 DEF TimesOut, EntriesInv, Entries, Closers, Count
<1>9. CASE Revert
  <2>1. \A u \in Tasks : u # cur.task => row'[u].status = row[u].status
    BY <1>1, <1>9, SetStatusEffect DEF Revert, TypeOK, Statuses
  <2> QED BY <1>1, <1>2, <1>9, <2>1 DEF Revert, EntriesInv, Entries, Closers, Count
<1>10. CASE Close
  <2>1. \A u \in Tasks : open'[u] = IF u = cur.task /\ open[u] > 0 THEN open[u] - 1 ELSE open[u]
    BY <1>1, <1>10 DEF Close, CloseLatest, TypeOK
  <2> QED BY <1>1, <1>2, <1>10, <2>1 DEF Close, Return, EntriesInv, Entries, Closers, Count
<1> QED
  BY <1>3, <1>4, <1>5, <1>6, <1>7, <1>8, <1>9, <1>10 DEF Dispatch
LEMMA PassEntries ==
  ASSUME TypeOK, JobsInv, EntriesInv, Poll \/ Daemon \/ Crash
  PROVE  EntriesInv'
<1> USE DEF agentVars, historyVars
<1>0. \A u \in Tasks : open[u] \in Nat /\ raced[u] \in Nat /\ crashes \in Nat
  BY DEF TypeOK
<1>1. CASE Poll
  BY <1>1, QuietEntries DEF Poll
<1>2. CASE Skip
  <2>1. cur.task \in Tasks /\ row[cur.task].status # "running"
    BY <1>2 DEF Skip, TypeOK, Job, JobsInv
  <2>2. \A u \in Tasks : row[u].status = "running" => row'[u].status = "running"
    <3>1. CASE SetStatus(cur.task, "failed")
      BY <2>1, <3>1, SetStatusEffect DEF TypeOK, Statuses
    <3>2. CASE UpdateNextRunTime(cur.task)
      BY <2>1, <3>2, NextRunEffect
    <3> QED BY <1>2, <3>1, <3>2 DEF Skip
  <2> QED BY <1>2, <2>2, QuietEntries DEF Skip
<1>3. CASE SelectCompleted
  BY <1>3, QuietEntries DEF SelectCompleted
<1>4. CASE Reschedule
  <2>1. PICK j \in rest : UpdateNextRunTime(j.task) \/ SetStatus(j.task, "failed")
    BY <1>4 DEF Reschedule
  <2>2. j.task \in Tasks /\ row[j.task].status # "running"
    BY <1>4 DEF Reschedule, TypeOK, Job, JobsInv
  <2>3. \A u \in Tasks : row[u].status = "running" => row'[u].status = "running"
    <3>1. CASE UpdateNextRunTime(j.task)
      BY <2>2, <3>1, NextRunEffect
    <3>2. CASE SetStatus(j.task, "failed")
      BY <2>2, <3>2, SetStatusEffect DEF TypeOK, Statuses
    <3> QED BY <2>1, <3>1, <3>2
  <2> QED BY <1>4, <2>3, QuietEntries DEF Reschedule
<1>5. CASE SelectMissed
  BY <1>5, QuietEntries DEF SelectMissed
<1>6. CASE NextMissed
  BY <1>6, QuietEntries DEF NextMissed
<1>7. CASE SkipMissed
  <2>1. /\ cur.task \in Tasks /\ cur.back \in {"completed", "nextMissed"}
        /\ row[cur.task].status # "running"
    BY <1>7 DEF SkipMissed, TypeOK, Job, JobsInv
  <2>2. \A u \in Tasks : row[u].status = "running" => row'[u].status = "running"
    BY <1>7, <2>1, NextRunEffect DEF SkipMissed
  <2> QED BY <1>7, <2>1, <2>2, QuietEntries DEF SkipMissed, Return
<1>8. CASE SelectStale
  BY <1>8, QuietEntries DEF SelectStale
<1>9. CASE TimeoutHistory
  <2>1. PICK j \in rest : /\ cur' = j /\ rest' = rest \ {j}
                          /\ open' = [open EXCEPT ![j.task] = 0]
    BY <1>9 DEF TimeoutHistory
  <2>2. j.task \in Tasks
    BY DEF TypeOK, Job
  <2>3. \A u \in Tasks : open'[u] = IF u = j.task THEN 0 ELSE open[u]
    BY <2>1, <2>2 DEF TypeOK
  <2> QED BY <1>0, <1>9, <2>1, <2>3 DEF TimeoutHistory, EntriesInv, Entries, Closers, Count
<1>10. CASE Expire
  <2>1. cur.task \in Tasks /\ ExpiredStatus(cur.type) \in Statuses
    BY <1>10 DEF Expire, TypeOK, Job, ExpiredStatus, Statuses
  <2>2. \A u \in Tasks : u # cur.task => row'[u].status = row[u].status
    BY <1>10, <2>1, SetStatusEffect DEF Expire, TypeOK
  <2> QED BY <1>0, <1>10, <2>1, <2>2 DEF Expire, EntriesInv, Entries, Closers, Count
<1>11. CASE Crash
  <2> SUFFICES ASSUME NEW u \in Tasks PROVE Entries(u)'
    BY DEF EntriesInv
  <2>1. Closers(u) <= Closers(u)' + 1 /\ Closers(u) \in Nat /\ Closers(u)' \in Nat
    BY <1>11 DEF Crash, Closers, Count
  <2>2. Count(row[u].status = "running")' = Count(row[u].status = "running")
        /\ Count(row[u].status = "running") \in Nat
    BY <1>11 DEF Crash, Count
  <2>3. open[u] <= Closers(u) + raced[u] + crashes + Count(row[u].status = "running")
    BY DEF EntriesInv, Entries
  <2>4. pc' = "stale" /\ crashes' = crashes + 1 /\ open' = open /\ raced' = raced
    BY <1>11 DEF Crash
  <2> QED BY <1>0, <2>1, <2>2, <2>3, <2>4 DEF Entries
<1> QED
  BY <1>1, <1>2, <1>3, <1>4, <1>5, <1>6, <1>7, <1>8, <1>9, <1>10, <1>11, DispatchEntries
  DEF Daemon
\* A step that changes no entry, and no status but that of a task it adds.
LEMMA SameEntries ==
  ASSUME TypeOK, JobsInv, EntriesInv, UNCHANGED <<daemonVars, open, raced, crashes>>,
         \A u \in Tasks : (cli' = <<"done", u>>) <=> (cli = <<"done", u>>),
         \A u \in Tasks : \/ row'[u].status = row[u].status
                          \/ row[u].status = "absent" /\ row'[u].status = "pending"
  PROVE  EntriesInv'
<1> SUFFICES ASSUME NEW u \in Tasks PROVE Entries(u)'
  BY DEF EntriesInv
<1>1. Closers(u)' = Closers(u)
  BY DEF Closers, Count, daemonVars
<1>2. Count(row[u].status = "running")' = Count(row[u].status = "running")
  BY DEF Count
<1>3. pc = "log" /\ cur.task = u => row'[u].status = row[u].status
  BY DEF JobsInv
<1>4. Entries(u)
  BY DEF EntriesInv
<1> QED BY <1>1, <1>2, <1>3, <1>4 DEF Entries, Exists, daemonVars

\* done changes the task and leaves its entry to DoneHistory.
LEMMA DoneEntries ==
  ASSUME TypeOK, EntriesInv, NEW t \in Tasks, Done(t)
  PROVE  EntriesInv'
<1> USE DEF daemonVars, historyVars
<1>1. \A u \in Tasks : open[u] \in Nat /\ raced[u] \in Nat /\ crashes \in Nat
  BY DEF TypeOK
<1>2. \A u \in Tasks : u # t => row'[u].status = row[u].status
  BY SetStatusEffect DEF Done, TypeOK, Statuses
<1>3. \A u \in Tasks : raced'[u] = IF u = t /\ pc = "log" /\ cur.task = t
                                   THEN raced[u] + 1 ELSE raced[u]
  BY DEF Done, Races, TypeOK
<1>4. \A u \in Tasks : cli # <<"done", u>> /\ (cli' = <<"done", u>> <=> u = t)
  BY DEF Done, Quiet
<1>5. UNCHANGED <<open, pc, cur, crashes>>
  BY DEF Done
<1> SUFFICES ASSUME NEW u \in Tasks PROVE Entries(u)'
  BY DEF EntriesInv
<1>6. Entries(u)
  BY DEF EntriesInv
<1>7. CASE u # t
  <2>1. Closers(u)' = Closers(u) /\ raced'[u] = raced[u] /\ row'[u].status = row[u].status
    BY <1>2, <1>3, <1>4, <1>5, <1>7 DEF Closers
  <2> QED BY <1>5, <1>6, <2>1 DEF Entries, Exists
<1>8. CASE u = t
  <2>1. Closers(u)' = Closers(u) + 1 /\ Closers(u) \in Nat
    BY <1>4, <1>5, <1>8 DEF Closers, Count
  <2>2. Count(row[u].status = "running") \in {0, 1} /\ Count(row'[u].status = "running") \in {0, 1}
    BY DEF Count
  <2>3. /\ pc = "log" /\ cur.task = u => raced'[u] = raced[u] + 1
        /\ raced'[u] >= raced[u] /\ raced'[u] \in Nat
    BY <1>1, <1>3, <1>8
  <2>4. Exists(u)
    BY <1>8 DEF Done
  <2> QED BY <1>1, <1>5, <1>6, <2>1, <2>2, <2>3, <2>4 DEF Entries
<1> QED BY <1>7, <1>8

LEMMA DoneHistoryEntries ==
  ASSUME TypeOK, EntriesInv, NEW t \in Tasks, DoneHistory(t)
  PROVE  EntriesInv'
<1> USE DEF daemonVars, historyVars
<1>1. \A u \in Tasks : open[u] \in Nat /\ raced[u] \in Nat /\ crashes \in Nat
  BY DEF TypeOK
<1>2. \A u \in Tasks : open'[u] = IF u = t /\ open[u] > 0 THEN open[u] - 1 ELSE open[u]
  BY DEF DoneHistory, CloseLatest, TypeOK
<1>3. \A u \in Tasks : cli' # <<"done", u>> /\ (cli = <<"done", u>> <=> u = t)
  BY DEF DoneHistory
<1>4. UNCHANGED <<row, pc, cur, raced, crashes>>
  BY DEF DoneHistory
<1> QED BY <1>1, <1>2, <1>3, <1>4 DEF EntriesInv, Entries, Exists, Closers, Count

\* pause and resume overwrite 'running' only when they race the daemon.
LEMMA WriteEntries ==
  ASSUME TypeOK, EntriesInv, NEW t \in Tasks,
         NEW op \in {"pause", "resume"}, NEW s \in {"paused", "pending"},
         NEW seen \in {"paused", "pending"}, Write(op, s, seen, t)
  PROVE  EntriesInv'
<1> USE DEF cliOnly, daemonVars
<1>1. \A u \in Tasks : open[u] \in Nat /\ raced[u] \in Nat /\ crashes \in Nat
  BY DEF TypeOK
<1>2. \A u \in Tasks : row'[u].status = IF u = t /\ Exists(t) THEN s ELSE row[u].status
  BY SetStatusEffect DEF Write, TypeOK, Statuses
<1>3. \A u \in Tasks : raced'[u] = IF u = t /\ row[t].status # seen
                                   THEN raced[u] + 1 ELSE raced[u]
  BY DEF Write, Races, TypeOK
<1>4. \A u \in Tasks : cli' # <<"done", u>> /\ cli # <<"done", u>>
  BY DEF Write
<1>5. UNCHANGED <<open, pc, cur, crashes>>
  BY DEF Write
<1> SUFFICES ASSUME NEW u \in Tasks PROVE Entries(u)'
  BY DEF EntriesInv
<1>6. Entries(u)
  BY DEF EntriesInv
<1>7. Closers(u)' = Closers(u) /\ Closers(u) \in Nat
  BY <1>4, <1>5 DEF Closers, Count
<1>8. Exists(u)' => Exists(u)
  BY <1>2 DEF Exists, Statuses
<1>9. raced'[u] + Count(row'[u].status = "running")
        >= raced[u] + Count(row[u].status = "running")
  BY <1>1, <1>2, <1>3 DEF Count
<1>10. raced'[u] >= raced[u] /\ raced'[u] \in Nat
  BY <1>1, <1>3
<1>11. Count(row[u].status = "running") \in Nat /\ Count(row'[u].status = "running") \in Nat
  BY DEF Count
<1> QED BY <1>1, <1>5, <1>6, <1>7, <1>8, <1>9, <1>10, <1>11 DEF Entries
LEMMA RemoveEntries ==
  ASSUME TypeOK, EntriesInv, NEW t \in Tasks, Remove(t)
  PROVE  EntriesInv'
<1> USE DEF daemonVars, historyVars
<1>1. \A u \in Tasks : raced[u] \in Nat /\ crashes \in Nat
  BY DEF TypeOK
<1>2. RemovedRow.status = "removed"
  BY NewRows, Defaults
<1>3. \A u \in Tasks : u # t => row'[u] = row[u] /\ open'[u] = open[u]
  BY DEF Remove, TypeOK
<1>4. row'[t].status = "removed" /\ open'[t] = 0
  BY <1>2 DEF Remove, TypeOK
<1>5. UNCHANGED <<pc, cur, cli, raced, crashes>>
  BY DEF Remove
<1> QED BY <1>1, <1>3, <1>4, <1>5 DEF EntriesInv, Entries, Exists, Statuses, Closers, Count

LEMMA CommandEntries ==
  ASSUME TypeOK, JobsInv, EntriesInv, NEW t \in Tasks,
         Commands(t) \/ Agent(t) \/ TimePasses(t) \/ Ages(t)
  PROVE  EntriesInv'
<1> USE DEF cliOnly, daemonVars, agentVars, historyVars
<1>0. row \in [Tasks -> Row] /\ row[t] \in Row
  BY DEF TypeOK
<1>1. CASE Add(t)
  <2>1. PICK k \in Kinds[t] : Postpone(t, NewTask(k))
    BY <1>1 DEF Add
  <2>2. k \in Kind
    BY KindsAssumption
  <2>3. NewTask(k) \in Row /\ NewTask(k).status = "pending"
    BY <2>2, NewRows
  <2>4. row' = [row EXCEPT ![t] = NewTask(k)]
    BY <2>1, <2>3, PostponeEffect
  <2>5. \A u \in Tasks : \/ row'[u].status = row[u].status
                         \/ row[u].status = "absent" /\ row'[u].status = "pending"
    BY <1>0, <1>1, <2>3, <2>4 DEF Add
  <2> QED BY <1>1, <2>5, SameEntries DEF Add
<1>2. CASE Update(t)
  <2>1. PICK k \in Kinds[t] : Postpone(t, Rewritten(row[t], k))
    BY <1>2 DEF Update
  <2>2. k \in Kind
    BY KindsAssumption
  <2>3. /\ Rewritten(row[t], k) \in Row
        /\ Rewritten(row[t], k).status = row[t].status
    BY <1>0, <2>2, RowChanges, Defaults
  <2>4. row' = [row EXCEPT ![t] = Rewritten(row[t], k)]
    BY <2>1, <2>3, PostponeEffect
  <2>5. \A u \in Tasks : row'[u].status = row[u].status
    BY <1>0, <2>3, <2>4
  <2> QED BY <1>2, <2>5, SameEntries DEF Update
<1>3. CASE UserDone(t) \/ AgentDone(t)
  BY <1>3, DoneEntries DEF UserDone, AgentDone
<1>4. ASSUME NEW op \in {"pause", "resume"}, NEW s, Look(op, s, t)
      PROVE  EntriesInv'
  BY <1>4, SameEntries DEF Look, Quiet
<1>5. CASE Pause(t) \/ Resume(t)
  BY <1>4, <1>5, WriteEntries DEF Pause, Resume
<1>6. CASE Delivers(t) \/ Forgets(t)
  BY <1>6, SameEntries DEF Delivers, Forgets
<1>7. CASE TimePasses(t)
  <2> DEFINE o == Later(row[t].kind, row[t].overdue)
  <2>1. row' = [row EXCEPT ![t].overdue = o]
    BY <1>7 DEF TimePasses
  <2> HIDE DEF o
  <2>2. \A u \in Tasks : row'[u].status = row[u].status
    BY <1>0, <2>1 DEF Row
  <2> QED BY <1>7, <2>2, SameEntries DEF TimePasses
<1>8. CASE Ages(t)
  <2>1. \A u \in Tasks : row'[u].status = row[u].status
    BY <1>0, <1>8 DEF Ages, Row
  <2> QED BY <1>8, <2>1, SameEntries DEF Ages
<1>9. CASE Amend(t)
  <2>1. \A u \in Tasks : row'[u].status = row[u].status
    BY <1>0, <1>9, AmendEffect
  <2> QED BY <1>9, <2>1, SameEntries DEF Amend
<1> QED
  BY <1>1, <1>2, <1>3, <1>5, <1>6, <1>7, <1>8, <1>9, RemoveEntries, DoneHistoryEntries
  DEF Commands, Agent

LEMMA StepEntries == TypeOK /\ JobsInv /\ EntriesInv /\ [Next]_vars => EntriesInv'
<1>1. ASSUME TypeOK, JobsInv, EntriesInv, RuntimeChanges \/ UNCHANGED vars
      PROVE  EntriesInv'
  BY <1>1, SameEntries DEF RuntimeChanges, vars, daemonVars, historyVars
<1> QED BY <1>1, PassEntries, CommandEntries DEF Next

\* No history entry stays 'started' unaccounted for: each is the run of a running
\* task, about to be closed, or due to a daemon death or a command that wrote over
\* what the daemon was doing, whichever commands run between any two statements
\* of dispatchTask, handleStaleRunningTasks and the other passes.
THEOREM HistoryIsAccounted == Spec => []HistoryAccounted
<1>1. EntriesInv => HistoryAccounted
  BY DEF EntriesInv, Entries, HistoryAccounted
<1> QED
  BY <1>1, InitTyped, StepTyped, InitJobs, StepJobs, InitEntries, StepEntries, PTL DEF Spec
-----------------------------------------------------------------------------
(* Prompts *)

\* A task that can be dispatched again has no prompt unaccounted for in its window,
\* nor has one that is being dispatched before its prompt is accepted.
Waiting(t) == row[t].status \in {"pending", "paused"}
Prompts(t) ==
  /\ copies[t] <= 1 + late[t] + raced[t]
  /\ Waiting(t) => copies[t] <= late[t] + raced[t]
  /\ pc \in {"log", "send"} /\ cur.task = t =>
       /\ copies[t] <= late[t] + raced[t]
       /\ Waiting(t) => copies[t] + 1 <= late[t] + raced[t] /\ 1 <= raced[t]
  /\ pc = "revert" /\ cur.task = t => copies[t] <= late[t] + raced[t]
PromptsInv == \A t \in Tasks : Prompts(t)

LEMMA InitPrompts == Init => PromptsInv
<1> SUFFICES ASSUME Init, NEW t \in Tasks PROVE Prompts(t)
  BY DEF PromptsInv
<1>1. copies[t] = 0 /\ late[t] = 0 /\ raced[t] = 0 /\ pc = "stale"
  BY DEF Init
<1>2. row[t].status = "absent"
  BY Defaults DEF Init
<1> QED BY <1>1, <1>2 DEF Prompts, Waiting

\* A step of the daemon after which it dispatches nothing: a row waits again only
\* in a new window.
LEMMA QuietPrompts ==
  ASSUME TypeOK, PromptsInv, UNCHANGED raced, pc' \notin {"log", "send", "revert"},
         \A u \in Tasks : \/ /\ copies'[u] = copies[u] /\ late'[u] = late[u]
                             /\ Waiting(u)' => Waiting(u)
                          \/ copies'[u] = 0 /\ late'[u] = 0
  PROVE  PromptsInv'
<1>1. \A u \in Tasks : copies[u] \in Nat /\ late[u] \in Nat /\ raced[u] \in Nat
  BY DEF TypeOK
<1> QED BY <1>1 DEF PromptsInv, Prompts

\* updateNextRunTime is such a step.
LEMMA NextRunPrompts ==
  ASSUME TypeOK, NEW t \in Tasks, UpdateNextRunTime(t)
  PROVE  \A u \in Tasks : \/ /\ copies'[u] = copies[u] /\ late'[u] = late[u]
                             /\ Waiting(u)' => Waiting(u)
                          \/ copies'[u] = 0 /\ late'[u] = 0
BY NextRunEffect DEF Waiting

LEMMA DispatchPrompts ==
  ASSUME TypeOK, PromptsInv, Dispatch
  PROVE  PromptsInv'
<1> USE DEF Dispatching, agentVars, historyVars
<1>1. cur.task \in Tasks /\ cur.back \in {"completed", "nextMissed"}
  BY DEF TypeOK, Job, Dispatch, Claim, Log, Refused, Accepted, Succeeds, TimesOut, Revert, Close
<1>2. \A u \in Tasks : copies[u] \in Nat /\ late[u] \in Nat /\ raced[u] \in Nat
  BY DEF TypeOK
<1>3. CASE Claim
  <2>1. CASE ~Claimable(cur.task)
    BY <1>1, <1>3, <2>1, QuietPrompts DEF Claim, Return, Waiting
  <2>2. CASE Claimable(cur.task)
    <3>1. SetStatus(cur.task, "running") /\ pc' = "log" /\ UNCHANGED <<cur, rest>>
      BY <1>3, <2>2 DEF Claim
    <3>2. \A u \in Tasks : row'[u].status = IF u = cur.task THEN "running" ELSE row[u].status
      BY <1>1, <2>2, <3>1, SetStatusEffect DEF TypeOK, Claimable, Exists, Statuses
    <3>3. Waiting(cur.task)
      BY <2>2 DEF Claimable, Waiting
    <3> QED BY <1>1, <1>2, <1>3, <3>1, <3>2, <3>3 DEF Claim, PromptsInv, Prompts, Waiting
  <2> QED BY <2>1, <2>2
<1>4. CASE Log
  <2>1. CASE Exists(cur.task)
    BY <1>4, <2>1 DEF Log, PromptsInv, Prompts, Waiting
  <2>2. CASE ~Exists(cur.task)
    BY <1>4, <2>2, QuietPrompts DEF Log, EndIteration, Waiting
  <2> QED BY <2>1, <2>2
<1>5. CASE Refused
  BY <1>5 DEF Refused, PromptsInv, Prompts, Waiting
<1>6. CASE Accepted
  <2>1. \A u \in Tasks : copies'[u] = IF u = cur.task THEN copies[u] + 1 ELSE copies[u]
    BY <1>1, <1>6 DEF Accepted, TypeOK
  <2> QED BY <1>1, <1>2, <1>6, <2>1 DEF Accepted, PromptsInv, Prompts, Waiting
<1>7. CASE Succeeds
  BY <1>1, <1>7, QuietPrompts DEF Succeeds, Return, Waiting
<1>8. CASE TimesOut
  <2>1. \A u \in Tasks : late'[u] = IF u = cur.task THEN late[u] + 1 ELSE late[u]
    BY <1>1, <1>8 DEF TimesOut, TypeOK
  <2> QED BY <1>1, <1>2, <1>8, <2>1 DEF TimesOut, PromptsInv, Prompts, Waiting
<1>9. CASE Revert
  <2>1. \A u \in Tasks : u # cur.task => row'[u].status = row[u].status
    BY <1>1, <1>9, SetStatusEffect DEF Revert, TypeOK, Statuses
  <2> QED BY <1>1, <1>2, <1>9, <2>1 DEF Revert, PromptsInv, Prompts, Waiting
<1>10. CASE Close
  BY <1>1, <1>10, QuietPrompts DEF Close, Return, Waiting
<1> QED
  BY <1>3, <1>4, <1>5, <1>6, <1>7, <1>8, <1>9, <1>10 DEF Dispatch

LEMMA PassPrompts ==
  ASSUME TypeOK, PromptsInv, Poll \/ Daemon \/ Crash
  PROVE  PromptsInv'
<1> USE DEF agentVars, historyVars
<1>1. CASE Poll
  BY <1>1, QuietPrompts DEF Poll, Waiting
<1>2. CASE Skip
  <2>1. cur.task \in Tasks
    BY <1>2 DEF Skip, TypeOK, Job
  <2>2. CASE SetStatus(cur.task, "failed") /\ UNCHANGED <<earlier, historyVars>>
    <3>1. \A u \in Tasks : Waiting(u)' => Waiting(u)
      BY <2>1, <2>2, SetStatusEffect DEF TypeOK, Statuses, Waiting
    <3> QED BY <1>2, <2>2, <3>1, QuietPrompts DEF Skip
  <2>3. CASE UpdateNextRunTime(cur.task)
    BY <1>2, <2>1, <2>3, NextRunPrompts, QuietPrompts DEF Skip
  <2> QED BY <1>2, <2>2, <2>3 DEF Skip
<1>3. CASE SelectCompleted \/ SelectMissed \/ SelectStale
  BY <1>3, QuietPrompts DEF SelectCompleted, SelectMissed, SelectStale, Waiting
<1>4. CASE Reschedule
  <2>1. PICK j \in rest :
          \/ UpdateNextRunTime(j.task)
          \/ SetStatus(j.task, "failed") /\ UNCHANGED <<earlier, historyVars>>
    BY <1>4 DEF Reschedule
  <2>2. j.task \in Tasks
    BY DEF TypeOK, Job
  <2>3. CASE UpdateNextRunTime(j.task)
    BY <1>4, <2>2, <2>3, NextRunPrompts, QuietPrompts DEF Reschedule
  <2>4. CASE SetStatus(j.task, "failed") /\ UNCHANGED <<earlier, historyVars>>
    <3>1. \A u \in Tasks : Waiting(u)' => Waiting(u)
      BY <2>2, <2>4, SetStatusEffect DEF TypeOK, Statuses, Waiting
    <3> QED BY <1>4, <2>4, <3>1, QuietPrompts DEF Reschedule, historyVars
  <2> QED BY <2>1, <2>3, <2>4
<1>5. CASE NextMissed
  BY <1>5, QuietPrompts DEF NextMissed, Waiting
<1>6. CASE SkipMissed
  <2>1. cur.task \in Tasks /\ cur.back \in {"completed", "nextMissed"}
    BY <1>6 DEF SkipMissed, TypeOK, Job
  <2> QED BY <1>6, <2>1, NextRunPrompts, QuietPrompts DEF SkipMissed, Return
<1>7. CASE TimeoutHistory
  BY <1>7, QuietPrompts DEF TimeoutHistory, Waiting
<1>8. CASE Expire
  <2>1. cur.task \in Tasks /\ ExpiredStatus(cur.type) \in {"failed", "completed"}
    BY <1>8 DEF Expire, TypeOK, Job, ExpiredStatus
  <2>2. \A u \in Tasks : Waiting(u)' => Waiting(u)
    BY <1>8, <2>1, SetStatusEffect DEF Expire, TypeOK, Statuses, Waiting
  <2> QED BY <1>8, <2>2, QuietPrompts DEF Expire
<1>9. CASE Crash
  <2>1. \A u \in Tasks : copies[u] \in Nat /\ late[u] \in Nat /\ raced[u] \in Nat
    BY DEF TypeOK
  <2>2. CASE UNCHANGED copies
    BY <1>9, <2>2, QuietPrompts DEF Crash, Waiting
  <2>3. CASE pc = "send" /\ copies' = [copies EXCEPT ![cur.task] = @ + 1]
    <3>1. cur.task \in Tasks
      BY <2>3 DEF TypeOK, Job, Dispatching
    <3>2. \A u \in Tasks : copies'[u] = IF u = cur.task THEN copies[u] + 1 ELSE copies[u]
      BY <2>3, <3>1 DEF TypeOK
    <3> QED BY <1>9, <2>1, <2>3, <3>1, <3>2 DEF Crash, PromptsInv, Prompts, Waiting
  <2> QED BY <1>9, <2>2, <2>3 DEF Crash
<1> QED
  BY <1>1, <1>2, <1>3, <1>4, <1>5, <1>6, <1>7, <1>8, <1>9, DispatchPrompts DEF Daemon
\* A step of somebody else that accepts no prompt and lets no task wait again.
LEMMA SamePrompts ==
  ASSUME TypeOK, PromptsInv, UNCHANGED <<daemonVars, historyVars, raced>>,
         \A u \in Tasks : Waiting(u)' => Waiting(u)
  PROVE  PromptsInv'
BY DEF PromptsInv, Prompts, daemonVars, historyVars

\* add and update open a window, also for a task that is being dispatched.
LEMMA WindowPrompts ==
  ASSUME TypeOK, PromptsInv, NEW t \in Tasks, NEW r \in Row, Postpone(t, r),
         UNCHANGED <<daemonVars, raced>>,
         pc \in {"log", "send"} /\ cur.task = t => r.status = row[t].status
  PROVE  PromptsInv'
<1>1. /\ row' = [row EXCEPT ![t] = r]
      /\ copies' = [copies EXCEPT ![t] = 0] /\ late' = [late EXCEPT ![t] = 0]
  BY PostponeEffect
<1>2. \A u \in Tasks : raced[u] \in Nat
  BY DEF TypeOK
<1>3. \A u \in Tasks : u # t => row'[u] = row[u] /\ copies'[u] = copies[u] /\ late'[u] = late[u]
  BY <1>1 DEF TypeOK
<1>4. row'[t] = r /\ copies'[t] = 0 /\ late'[t] = 0
  BY <1>1 DEF TypeOK
<1> QED BY <1>2, <1>3, <1>4 DEF PromptsInv, Prompts, Waiting, daemonVars

LEMMA DonePrompts ==
  ASSUME TypeOK, PromptsInv, NEW t \in Tasks, Done(t)
  PROVE  PromptsInv'
<1>1. \A u \in Tasks : copies[u] \in Nat /\ late[u] \in Nat /\ raced[u] \in Nat
  BY DEF TypeOK
<1>2. \A u \in Tasks : Waiting(u)' => Waiting(u)
  BY SetStatusEffect DEF Done, TypeOK, Statuses, Waiting
<1>3. \A u \in Tasks : raced'[u] \in {raced[u], raced[u] + 1}
  BY DEF Done, Races, TypeOK
<1>4. UNCHANGED <<pc, cur, copies, late>>
  BY DEF Done, daemonVars, historyVars
<1> QED BY <1>1, <1>2, <1>3, <1>4 DEF PromptsInv, Prompts

\* pause and resume make a task wait that did not only when they race the daemon.
LEMMA WritePrompts ==
  ASSUME TypeOK, PromptsInv, NEW t \in Tasks,
         NEW op, NEW s \in {"paused", "pending"},
         NEW seen \in {"paused", "pending"}, Write(op, s, seen, t)
  PROVE  PromptsInv'
<1>1. \A u \in Tasks : copies[u] \in Nat /\ late[u] \in Nat /\ raced[u] \in Nat
  BY DEF TypeOK
<1>2. \A u \in Tasks : row'[u].status = IF u = t /\ Exists(t) THEN s ELSE row[u].status
  BY SetStatusEffect DEF Write, TypeOK, Statuses
<1>3. \A u \in Tasks : raced'[u] = IF u = t /\ row[t].status # seen
                                   THEN raced[u] + 1 ELSE raced[u]
  BY DEF Write, Races, TypeOK
<1>4. UNCHANGED <<pc, cur, copies, late>>
  BY DEF Write, cliOnly, daemonVars, historyVars
<1> QED BY <1>1, <1>2, <1>3, <1>4 DEF PromptsInv, Prompts, Waiting

LEMMA CommandPrompts ==
  ASSUME TypeOK, JobsInv, PromptsInv, NEW t \in Tasks,
         Commands(t) \/ Agent(t) \/ TimePasses(t) \/ Ages(t)
  PROVE  PromptsInv'
<1> USE DEF cliOnly, daemonVars, agentVars, historyVars
<1>0. row \in [Tasks -> Row] /\ row[t] \in Row
  BY DEF TypeOK
<1>1. CASE Add(t)
  <2>1. PICK k \in Kinds[t] : Postpone(t, NewTask(k))
    BY <1>1 DEF Add
  <2>2. k \in Kind
    BY KindsAssumption
  <2>3. NewTask(k) \in Row
    BY <2>2, NewRows
  <2>4. ~(pc \in {"log", "send"} /\ cur.task = t)
    BY <1>1 DEF Add, JobsInv
  <2> QED BY <1>1, <2>1, <2>3, <2>4, WindowPrompts DEF Add
<1>2. CASE Update(t)
  <2>1. PICK k \in Kinds[t] : Postpone(t, Rewritten(row[t], k))
    BY <1>2 DEF Update
  <2>2. k \in Kind
    BY KindsAssumption
  <2>3. /\ Rewritten(row[t], k) \in Row
        /\ Rewritten(row[t], k).status = row[t].status
    BY <1>0, <2>2, RowChanges, Defaults
  <2> QED BY <1>2, <2>1, <2>3, WindowPrompts DEF Update
<1>3. CASE Remove(t)
  <2>1. RemovedRow.status = "removed"
    BY NewRows, Defaults
  <2>2. \A u \in Tasks : Waiting(u)' => Waiting(u)
    BY <1>0, <1>3, <2>1 DEF Remove, Waiting
  <2> QED BY <1>3, <2>2, SamePrompts DEF Remove
<1>4. CASE UserDone(t) \/ AgentDone(t)
  BY <1>4, DonePrompts DEF UserDone, AgentDone
<1>5. CASE DoneHistory(t) \/ Delivers(t) \/ Forgets(t)
  BY <1>5, SamePrompts DEF DoneHistory, Delivers, Forgets, Waiting
<1>6. ASSUME NEW op, NEW s, Look(op, s, t)
      PROVE  PromptsInv'
  BY <1>6, SamePrompts DEF Look, Waiting
<1>7. CASE Pause(t) \/ Resume(t)
  BY <1>6, <1>7, WritePrompts DEF Pause, Resume
<1>8. CASE TimePasses(t)
  <2> DEFINE o == Later(row[t].kind, row[t].overdue)
  <2>1. row' = [row EXCEPT ![t].overdue = o]
    BY <1>8 DEF TimePasses
  <2> HIDE DEF o
  <2>2. \A u \in Tasks : Waiting(u)' => Waiting(u)
    BY <1>0, <2>1 DEF Row, Waiting
  <2> QED BY <1>8, <2>2, SamePrompts DEF TimePasses
<1>9. CASE Ages(t)
  <2>1. \A u \in Tasks : Waiting(u)' => Waiting(u)
    BY <1>0, <1>9 DEF Ages, Row, Waiting
  <2> QED BY <1>9, <2>1, SamePrompts DEF Ages
<1>10. CASE Amend(t)
  <2>1. \A u \in Tasks : Waiting(u)' => Waiting(u)
    BY <1>0, <1>10, AmendEffect DEF Waiting
  <2> QED BY <1>10, <2>1, SamePrompts DEF Amend
<1> QED
  BY <1>1, <1>2, <1>3, <1>4, <1>5, <1>7, <1>8, <1>9, <1>10 DEF Commands, Agent

LEMMA StepPrompts == TypeOK /\ JobsInv /\ PromptsInv /\ [Next]_vars => PromptsInv'
<1>1. ASSUME TypeOK, PromptsInv, RuntimeChanges \/ UNCHANGED vars
      PROVE  PromptsInv'
  BY <1>1, SamePrompts DEF RuntimeChanges, vars, daemonVars, historyVars, Waiting
<1> QED BY <1>1, PassPrompts, CommandPrompts DEF Next

\* For one scheduled time a prompt is accepted once, and once more for every send
\* that timed out after queueing it and every command that wrote over what
\* dispatchTask was doing: neither the passes at the end of an iteration nor a
\* daemon that dies and starts again dispatch a task a second time.
THEOREM PromptsAreBounded == Spec => []OnePromptPerWindow
<1>1. PromptsInv => OnePromptPerWindow
  BY DEF PromptsInv, Prompts, OnePromptPerWindow
<1> QED
  BY <1>1, InitTyped, StepTyped, InitJobs, StepJobs, InitPrompts, StepPrompts, PTL DEF Spec
=============================================================================
