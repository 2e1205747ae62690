------------------------------ MODULE ConsoleProof ------------------------------
(***************************************************************************)
(* Proofs about the web console: for any number of sends, texts and states *)
(* of the agent, of messages and frames, and of outages.                   *)
(***************************************************************************)
EXTENDS WebConsole, ListsProof, FiniteSetTheorems, SequenceTheorems, TLAPS

-----------------------------------------------------------------------------
(* The web console: what its state says at any time *)

Messages == [dir : {"in", "out"}, text : Texts \cup {"none"}, files : BOOLEAN, by : Nat]
Pages == [link : {"closed", "open", "polling"}, tries : Nat,
          load : {"asked", "read", "done", "failed"}, to : Nat, last : Nat,
          shown : SUBSET Nat, status : States \cup {"none"}]
Temps == [n : Sends, text : Texts, files : BOOLEAN, at : {"sending", "sent", "failed"}]
Frames == [kind : {"status", "messages", "failed"}, ids : SUBSET Nat, n : Nat,
           state : States \cup {"none"}]
OnTheWay == [at : {"no", "wire", "child", "stored", "done"}, via : {"none", "ws", "http"},
             text : Texts \cup {"none"}, files : BOOLEAN]

ConsoleTypeOK ==
  /\ messages \in Seq(Messages) /\ agentState \in States
  /\ console \in [up : BOOLEAN, last : Nat, status : States \cup {"none"}]
  /\ page \in Pages /\ temps \in Seq(Temps) /\ pipe \in Seq(Frames)
  /\ sends \in [Sends -> OnTheWay] /\ missed \in SUBSET Nat
  /\ odd \in [crossed : BOOLEAN, again : BOOLEAN, state : BOOLEAN] /\ outages \in Nat

\* Rows are talked of that are there; frames are for a page that is connected.
KnownRows ==
  /\ console.last <= Len(messages) /\ page.last <= Len(messages) /\ page.to <= Len(messages)
  /\ page.shown \subseteq 1 .. Len(messages) /\ missed \subseteq 1 .. Len(messages)
  /\ \A i \in DOMAIN pipe :
       /\ pipe[i].ids \subseteq 1 .. console.last
       /\ pipe[i].kind = "messages" => \E r \in pipe[i].ids : \A o \in pipe[i].ids : o <= r
       /\ pipe[i].kind # "messages" => pipe[i].ids = {}
  /\ page.link # "open" => pipe = <<>>
  /\ page.link = "open" => console.up
  /\ \A n \in Sends : sends[n].via = "ws" => page.link = "open"
  /\ page.load = "done" => 1 .. page.to \subseteq page.shown
  /\ page.load \in {"asked", "failed"} => page.to = 0

\* Whether a row needs no announcement any more.
Heard(r) == r \in page.shown \/ r \in missed \/ r \in InPipe \/ (page.load = "read" /\ r <= page.to)

Announcements ==
  /\ page.link # "polling" /\ page.load # "asked" => \A r \in 1 .. console.last : Heard(r)
  /\ \A r \in 1 .. page.last : Heard(r) \/ (page.load = "asked" /\ r <= console.last)

\* The last state that is under way, or else the one shown, is what the server knows.
LastState(k) == pipe[k].kind = "status" /\ \A l \in DOMAIN pipe : pipe[l].kind = "status" => l <= k

StateComes ==
  page.link = "open" /\ ~odd.state =>
    /\ \A k \in DOMAIN pipe : LastState(k) => pipe[k].state = console.status
    /\ (\A k \in DOMAIN pipe : pipe[k].kind # "status") => page.status = console.status

\* Sends begin in their order, and rows, ms, are of sends, sd, one of each.
Correspond(ms, sd) ==
  /\ \A n \in Sends : IF sd[n].at = "no" THEN sd[n] = NoSend
                      ELSE sd[n].text \in Texts /\ \A m \in Earlier(n) : sd[m].at # "no"
  /\ \A r \in DOMAIN ms : ms[r].by # 0 =>
       /\ ms[r].by \in Sends /\ ms[r].dir = "in"
       /\ sd[ms[r].by].at \in {"stored", "done"}
       /\ ms[r].text = sd[ms[r].by].text /\ ms[r].files = sd[ms[r].by].files
  /\ \A r, o \in DOMAIN ms : ms[r].by # 0 /\ ms[r].by = ms[o].by => r = o
  /\ \A n \in Sends : sd[n].at = "stored" => \E r \in DOMAIN ms : ms[r].by = n

\* Temporary messages, tmp, are of sends, at most one of each.
Temporary(sd, tmp) ==
  /\ \A i \in DOMAIN tmp : /\ sd[tmp[i].n].at # "no" /\ tmp[i].text = sd[tmp[i].n].text
                           /\ tmp[i].files = sd[tmp[i].n].files
  /\ \A i, j \in DOMAIN tmp : tmp[i].n = tmp[j].n => i = j

SendsOf(sd, text) == {n \in Sends : sd[n].text = text}
ShownAs(text, tmp) == {n \in Sends : \E i \in DOMAIN tmp : tmp[i].n = n /\ tmp[i].text = text}
StoredAs(ms, text, seen) == {n \in Sends : \E r \in seen : ms[r].by = n /\ ms[r].text = text}

\* With the rows seen shown, this one's is to come.
Coming(ms, sd, n, seen) ==
  \/ sd[n].at \in {"wire", "child"}
  \/ \E r \in (DOMAIN ms) \ seen : ms[r].by = n

\* There are as many temporary messages as sends whose row is not shown.
Counted(ms, sd, tmp, seen) ==
  \A text \in Texts :
    Cardinality(SendsOf(sd, text) \ StoredAs(ms, text, seen)) = Cardinality(ShownAs(text, tmp))

\* Only of the same text, without files, can a row take another's temporary message.
NoneTaken(ms, sd, tmp, seen) ==
  /\ \A n \in Sends : sd[n].files /\ Coming(ms, sd, n, seen) =>
       \A i \in DOMAIN tmp : tmp[i].files /\ tmp[i].at = "sending" => tmp[i].n = n
  /\ \A r \in (DOMAIN ms) \ seen : ms[r].dir = "in" /\ ms[r].by = 0 =>
       \A i \in DOMAIN tmp : /\ tmp[i].text # ms[r].text
                             /\ ms[r].files => ~(tmp[i].files /\ tmp[i].at = "sending")

Kept(ms, sd, tmp, seen) == Counted(ms, sd, tmp, seen) /\ NoneTaken(ms, sd, tmp, seen)

\* Of two sends with one text neither has files.
Plain(sd) ==
  \A n, m \in Sends : n # m /\ sd[n].at # "no" /\ sd[n].text = sd[m].text => ~sd[n].files /\ ~sd[m].files

NoneAgain(sd) == \A n, m \in Sends : sd[n].at # "no" /\ sd[n].text = sd[m].text => n = m

SendsShown ==
  /\ Correspond(messages, sends) /\ Temporary(sends, temps)
  /\ ~odd.crossed => Kept(messages, sends, temps, page.shown) /\ Plain(sends)
  /\ ~odd.again => NoneAgain(sends)

\* Without an outage the answer to a send over the socket, or its row, gets to the page.
AnswerComes ==
  \A i \in DOMAIN temps : temps[i].at = "sending" /\ sends[temps[i].n].at = "done" =>
    /\ sends[temps[i].n].via = "ws"
    /\ \/ \E k \in DOMAIN pipe : pipe[k].kind = "failed" /\ pipe[k].n = temps[i].n
       \/ \E r \in Ids : messages[r].by = temps[i].n

Answered ==
  outages = 0 =>
    /\ console.up /\ page.link # "polling" /\ page.load # "failed"
    /\ \A n \in Sends : sends[n].at # "no" => sends[n].via # "none"
    /\ \A r \in missed : messages[r].by # 0 => sends[messages[r].by].via # "ws"
    /\ AnswerComes

ConsoleInv ==
  ConsoleTypeOK /\ KnownRows /\ Announcements /\ StateComes /\ SendsShown /\ Answered

LEMMA ConsoleConstants == /\ Cardinality(Sends) \in Nat /\ Sends \subseteq Nat \ {0}
                          /\ \A n \in Sends : Earlier(n) \subseteq Sends
<1>1. IsFiniteSet(Sends) /\ Sends = 1 .. Cardinality(Sends)
  BY ConsoleAssumption
<1>2. Cardinality(Sends) \in Nat
  BY <1>1, FS_CardinalityType
<1> QED BY <1>1, <1>2 DEF Earlier

\* The first of some messages goes, or, if there is none, nothing.
LEMMA WithoutFirstFacts ==
  ASSUME NEW tmp \in Seq(Temps), NEW found, found \subseteq DOMAIN tmp
  PROVE  IF found = {} THEN WithoutFirst(tmp, found) = tmp
         ELSE \E i \in found : WithoutFirst(tmp, found) = Without(tmp, i)
<1>1. CASE found = {}
  BY <1>1 DEF WithoutFirst
<1>2. CASE found # {}
  <2>1. found \subseteq Nat
    <3>1. DOMAIN tmp = 1..Len(tmp)
      OBVIOUS
    <3> QED BY <3>1
  <2>2. \E i \in found : \A j \in found : i <= j
    BY <1>2, <2>1, Least
  <2> DEFINE c == CHOOSE i \in found : \A j \in found : i <= j
  <2>3. c \in found
    BY <2>2
  <2>4. WithoutFirst(tmp, found) = Without(tmp, c)
    BY <1>2 DEF WithoutFirst
  <2> QED BY <1>2, <2>3, <2>4
<1> QED BY <1>1, <1>2

\* What one less has in common with the list it was.
Shortened(new, old) ==
  /\ new \in Seq(Temps)
  /\ \A k \in DOMAIN new : \E j \in DOMAIN old : new[k] = old[j]

LEMMA OneLess ==
  ASSUME NEW tmp \in Seq(Temps), NEW i \in DOMAIN tmp
  PROVE  /\ Shortened(Without(tmp, i), tmp)
         /\ \A j \in DOMAIN tmp : j # i => \E k \in DOMAIN Without(tmp, i) : Without(tmp, i)[k] = tmp[j]
         /\ \A sd : Temporary(sd, tmp) =>
              /\ Temporary(sd, Without(tmp, i))
              /\ \A k \in DOMAIN Without(tmp, i) : Without(tmp, i)[k].n # tmp[i].n
<1> DEFINE less == Without(tmp, i)
<1>1. Len(tmp) \in Nat /\ DOMAIN tmp = 1..Len(tmp) /\ i \in 1..Len(tmp)
  OBVIOUS
<1>2. /\ less \in Seq(Temps) /\ DOMAIN less = 1..(Len(tmp) - 1)
      /\ \A k \in 1..(Len(tmp) - 1) : less[k] = IF k < i THEN tmp[k] ELSE tmp[k + 1]
      /\ \A k \in DOMAIN less : \E j \in DOMAIN tmp : less[k] = tmp[j]
  <2> HIDE DEF less
  <2>1. \A T : \A s \in Seq(T) : \A j \in 1..Len(s) :
          /\ Without(s, j) \in Seq(T) /\ DOMAIN Without(s, j) = 1..(Len(s) - 1)
          /\ \A k \in 1..(Len(s) - 1) : Without(s, j)[k] = IF k < j THEN s[k] ELSE s[k + 1]
          /\ \A k \in DOMAIN Without(s, j) : \E l \in DOMAIN s : Without(s, j)[k] = s[l]
    BY WithoutFacts
  <2>2. \A j \in 1..Len(tmp) :
          /\ Without(tmp, j) \in Seq(Temps) /\ DOMAIN Without(tmp, j) = 1..(Len(tmp) - 1)
          /\ \A k \in 1..(Len(tmp) - 1) : Without(tmp, j)[k] = IF k < j THEN tmp[k] ELSE tmp[k + 1]
          /\ \A k \in DOMAIN Without(tmp, j) : \E l \in DOMAIN tmp : Without(tmp, j)[k] = tmp[l]
    BY <2>1
  <2>3. /\ Without(tmp, i) \in Seq(Temps) /\ DOMAIN Without(tmp, i) = 1..(Len(tmp) - 1)
        /\ \A k \in 1..(Len(tmp) - 1) : Without(tmp, i)[k] = IF k < i THEN tmp[k] ELSE tmp[k + 1]
        /\ \A k \in DOMAIN Without(tmp, i) : \E l \in DOMAIN tmp : Without(tmp, i)[k] = tmp[l]
    BY <1>1, <2>2
  <2> QED BY <2>3 DEF less
<1> HIDE DEF less
<1>3. ASSUME NEW j \in DOMAIN tmp, j # i PROVE \E k \in DOMAIN less : less[k] = tmp[j]
  <2>1. CASE j < i
    <3>1. j \in DOMAIN less /\ less[j] = tmp[j]
      BY <1>1, <1>2, <2>1
    <3> QED BY <3>1
  <2>2. CASE ~(j < i)
    <3>1. j - 1 \in DOMAIN less /\ ~(j - 1 < i) /\ (j - 1) + 1 = j
      BY <1>1, <1>2, <1>3, <2>2
    <3>2. less[j - 1] = tmp[j]
      BY <1>1, <1>2, <3>1
    <3> QED BY <3>1, <3>2
  <2> QED BY <2>1, <2>2
<1>4. ASSUME NEW sd, Temporary(sd, tmp)
      PROVE  Temporary(sd, less) /\ \A k \in DOMAIN less : less[k].n # tmp[i].n
  <2> DEFINE at(k) == IF k < i THEN k ELSE k + 1
  <2>1. \A k \in DOMAIN less : at(k) \in DOMAIN tmp /\ less[k] = tmp[at(k)] /\ at(k) # i
    BY <1>1, <1>2
  <2>2. \A k, l \in DOMAIN less : at(k) = at(l) => k = l
    BY <1>1, <1>2
  <2> HIDE DEF at
  <2>3. \A k, l \in DOMAIN tmp : tmp[k].n = tmp[l].n => k = l
    BY <1>4 DEF Temporary
  <2>4. \A k, l \in DOMAIN less : less[k].n = less[l].n => k = l
    BY <2>1, <2>2, <2>3
  <2>5. \A k \in DOMAIN less : less[k].n # tmp[i].n
    BY <2>1, <2>3
  <2>6. \A k \in DOMAIN less : /\ sd[less[k].n].at # "no" /\ less[k].text = sd[less[k].n].text
                               /\ less[k].files = sd[less[k].n].files
    BY <1>4, <2>1 DEF Temporary
  <2> QED BY <2>4, <2>5, <2>6 DEF Temporary
<1> QED BY <1>2, <1>3, <1>4 DEF less, Shortened

\* A row takes messages away, or none.
LEMMA FirstGoes ==
  ASSUME NEW tmp \in Seq(Temps), NEW found, found \subseteq DOMAIN tmp
  PROVE  /\ Shortened(WithoutFirst(tmp, found), tmp)
         /\ \A sd : Temporary(sd, tmp) => Temporary(sd, WithoutFirst(tmp, found))
<1>1. CASE found = {}
  <2>1. WithoutFirst(tmp, found) = tmp
    BY <1>1, WithoutFirstFacts
  <2> QED BY <2>1 DEF Shortened
<1>2. CASE found # {}
  <2>1. PICK i \in found : WithoutFirst(tmp, found) = Without(tmp, i)
    BY <1>2, WithoutFirstFacts
  <2>2. i \in DOMAIN tmp
    BY <2>1
  <2> QED BY <2>1, <2>2, OneLess
<1> QED BY <1>1, <1>2

LEMMA RowShortens ==
  ASSUME NEW tmp \in Seq(Temps), NEW row
  PROVE  /\ Shortened(ReplaceTemp(tmp, row), tmp)
         /\ \A sd : Temporary(sd, tmp) => Temporary(sd, ReplaceTemp(tmp, row))
<1> DEFINE rest == WithoutFirst(tmp, {i \in DOMAIN tmp: tmp[i].text = row.text})
           last == WithoutFirst(rest, {i \in DOMAIN rest: rest[i].files /\ rest[i].at = "sending"})
<1>1. Shortened(rest, tmp) /\ \A sd : Temporary(sd, tmp) => Temporary(sd, rest)
  BY FirstGoes
<1>2. rest \in Seq(Temps)
  BY <1>1 DEF Shortened
<1> HIDE DEF rest
<1>3. Shortened(last, rest) /\ \A sd : Temporary(sd, rest) => Temporary(sd, last)
  BY <1>2, FirstGoes
<1> HIDE DEF last
<1>4. Shortened(last, tmp)
  BY <1>1, <1>3 DEF Shortened
<1>5. ReplaceTemp(tmp, row) \in {tmp, rest, last}
  BY DEF ReplaceTemp, rest, last
<1>6. Shortened(tmp, tmp)
  BY DEF Shortened
<1> QED BY <1>1, <1>3, <1>4, <1>5, <1>6

\* The recursive function in Added, over the first n rows.
NextRow(ids, r, before) == IF r \in ids THEN ReplaceTemp(before, messages[r]) ELSE before
AfterRows(ids, n, f) == [r \in 0..n |-> IF r = 0 THEN temps ELSE NextRow(ids, r, f[r - 1])]

LEMMA AfterRowsExist ==
  ASSUME NEW ids, NEW n \in Nat
  PROVE  \E f : f = AfterRows(ids, n, f)
<1> DEFINE Have == {m \in Nat : \E f : f = AfterRows(ids, m, f)}
<1>1. 0 \in Have
  <2> DEFINE f == [r \in 0..0 |-> temps]
  <2>1. f = AfterRows(ids, 0, f)
    BY DEF AfterRows
  <2> QED BY <2>1
<1>2. ASSUME NEW m \in Nat, m \in Have PROVE m + 1 \in Have
  <2>1. PICK f : f = AfterRows(ids, m, f)
    BY <1>2
  <2> DEFINE g == [r \in 0..(m + 1) |-> IF r = 0 THEN temps ELSE NextRow(ids, r, f[r - 1])]
  <2> HIDE DEF NextRow
  <2>2. \A r \in 0..m : f[r] = IF r = 0 THEN temps ELSE NextRow(ids, r, f[r - 1])
    <3>1. \A r \in 0..m : AfterRows(ids, m, f)[r] = IF r = 0 THEN temps ELSE NextRow(ids, r, f[r - 1])
      BY DEF AfterRows
    <3> QED BY <2>1, <3>1
  <2>3. \A r \in 0..m : g[r] = f[r]
    BY <2>2
  <2>4. \A r \in 0..(m + 1) : r # 0 => r - 1 \in 0..m
    OBVIOUS
  <2>5. \A r \in 0..(m + 1) : r # 0 => g[r - 1] = f[r - 1]
    BY <2>3, <2>4
  <2>6. g = AfterRows(ids, m + 1, g)
    <3>1. \A r \in 0..(m + 1) : g[r] = AfterRows(ids, m + 1, g)[r]
      BY <2>5 DEF AfterRows
    <3> QED BY <3>1 DEF AfterRows
  <2> QED BY <2>6
<1> HIDE DEF Have
<1>3. Nat \subseteq Have
  BY <1>1, <1>2, Induction
<1> QED BY <1>3 DEF Have

\* What holds of the temporary messages, and of them after each row, holds in the end.
LEMMA RowByRow ==
  ASSUME Len(messages) \in Nat, NEW ids, NEW G, <<0, temps>> \in G,
         \A r \in 1..Len(messages) : \A tmp : <<r - 1, tmp>> \in G => <<r, NextRow(ids, r, tmp)>> \in G
  PROVE  <<Len(messages), Added(ids)>> \in G
<1> DEFINE after == CHOOSE f : f = AfterRows(ids, Len(messages), f)
<1>1. after = AfterRows(ids, Len(messages), after)
  BY AfterRowsExist
<1>2. Added(ids) = after[Len(messages)]
  BY DEF Added, AfterRows, NextRow
<1> HIDE DEF after
<1> HIDE DEF NextRow
<1>3. \A r \in 0..Len(messages) : after[r] = IF r = 0 THEN temps ELSE NextRow(ids, r, after[r - 1])
  <2>1. \A r \in 0..Len(messages) :
          AfterRows(ids, Len(messages), after)[r] = IF r = 0 THEN temps ELSE NextRow(ids, r, after[r - 1])
    BY DEF AfterRows
  <2> QED BY <1>1, <2>1
<1> DEFINE Good == {n \in Nat : n <= Len(messages) => <<n, after[n]>> \in G}
<1>4. 0 \in Good
  BY <1>3
<1>5. ASSUME NEW n \in Nat, n \in Good PROVE n + 1 \in Good
  <2> SUFFICES ASSUME n + 1 <= Len(messages) PROVE <<n + 1, after[n + 1]>> \in G
    OBVIOUS
  <2>1. n + 1 \in 1..Len(messages) /\ (n + 1) - 1 = n /\ n + 1 \in 0..Len(messages) /\ n + 1 # 0
    OBVIOUS
  <2>2. after[n + 1] = NextRow(ids, n + 1, after[n])
    BY <1>3, <2>1
  <2>3. <<n, after[n]>> \in G
    BY <1>5
  <2>4. <<n + 1, NextRow(ids, n + 1, after[n])>> \in G
    <3>1. \A tmp : <<(n + 1) - 1, tmp>> \in G => <<n + 1, NextRow(ids, n + 1, tmp)>> \in G
      BY <2>1
    <3> QED BY <2>1, <2>3, <3>1
  <2> QED BY <2>2, <2>4
<1> HIDE DEF Good
<1>6. Nat \subseteq Good
  BY <1>4, <1>5, Induction
<1> QED BY <1>2, <1>6 DEF Good

\* Rows take messages away, and leave no two of one send.
LEMMA AddedShortens ==
  ASSUME messages \in Seq(Messages), temps \in Seq(Temps), NEW ids
  PROVE  Shortened(Added(ids), temps) /\ (Temporary(sends, temps) => Temporary(sends, Added(ids)))
<1> DEFINE Fine(tmp) == Shortened(tmp, temps) /\ (Temporary(sends, temps) => Temporary(sends, tmp))
           G == {p \in Nat \X Seq(Temps) : Fine(p[2])}
<1>1. Len(messages) \in Nat
  OBVIOUS
<1>2. Fine(temps)
  BY DEF Shortened
<1>3. \A tmp \in Seq(Temps) : \A row : Fine(tmp) => Fine(ReplaceTemp(tmp, row)) /\ ReplaceTemp(tmp, row) \in Seq(Temps)
  BY RowShortens DEF Shortened
<1> HIDE DEF Fine
<1>4. <<0, temps>> \in G
  BY <1>2
<1>5. ASSUME NEW r \in 1..Len(messages), NEW tmp, <<r - 1, tmp>> \in G
      PROVE  <<r, NextRow(ids, r, tmp)>> \in G
  <2>1. tmp \in Seq(Temps) /\ Fine(tmp) /\ r \in Nat
    BY <1>1, <1>5
  <2>2. NextRow(ids, r, tmp) \in Seq(Temps) /\ Fine(NextRow(ids, r, tmp))
    BY <1>3, <2>1 DEF NextRow
  <2> QED BY <2>1, <2>2
<1> HIDE DEF G
<1>6. <<Len(messages), Added(ids)>> \in G
  BY <1>1, <1>4, <1>5, RowByRow
<1>7. Fine(Added(ids))
  BY <1>6 DEF G
<1> QED BY <1>7 DEF Fine

LEMMA FiniteOfSends ==
  ASSUME NEW S, S \subseteq Sends
  PROVE  IsFiniteSet(S) /\ Cardinality(S) \in Nat
<1>1. IsFiniteSet(Sends) /\ S \in SUBSET Sends
  BY ConsoleAssumption
<1>2. IsFiniteSet(S)
  BY <1>1, FS_Subset
<1> QED BY <1>2, FS_CardinalityType

\* With fewer temporary messages, and more rows shown, none that is sent can be taken
\* for one more.
LEMMA NoneMistaken ==
  ASSUME NEW ms, NEW sd, NEW tmp, NEW new, Shortened(new, tmp), NEW seen, NEW more, seen \subseteq more,
         NoneTaken(ms, sd, tmp, seen)
  PROVE  NoneTaken(ms, sd, new, more)
<1>1. \A k \in DOMAIN new : \E j \in DOMAIN tmp : new[k] = tmp[j]
  BY DEF Shortened
<1>2. \A n \in Sends : Coming(ms, sd, n, more) => Coming(ms, sd, n, seen)
  BY DEF Coming
<1>3. /\ \A n \in Sends : sd[n].files /\ Coming(ms, sd, n, seen) =>
           \A i \in DOMAIN tmp : tmp[i].files /\ tmp[i].at = "sending" => tmp[i].n = n
      /\ \A r \in (DOMAIN ms) \ seen : ms[r].dir = "in" /\ ms[r].by = 0 =>
           \A i \in DOMAIN tmp : /\ tmp[i].text # ms[r].text
                                 /\ ms[r].files => ~(tmp[i].files /\ tmp[i].at = "sending")
  BY DEF NoneTaken
<1>4. (DOMAIN ms) \ more \subseteq (DOMAIN ms) \ seen
  OBVIOUS
<1>5. ASSUME NEW n \in Sends, sd[n].files, Coming(ms, sd, n, more), NEW i \in DOMAIN new,
             new[i].files, new[i].at = "sending"
      PROVE  new[i].n = n
  <2>1. PICK j \in DOMAIN tmp : new[i] = tmp[j]
    BY <1>1
  <2> QED BY <1>2, <1>3, <1>5, <2>1
<1>6. ASSUME NEW r \in (DOMAIN ms) \ more, ms[r].dir = "in", ms[r].by = 0, NEW i \in DOMAIN new
      PROVE  new[i].text # ms[r].text /\ (ms[r].files => ~(new[i].files /\ new[i].at = "sending"))
  <2>1. PICK j \in DOMAIN tmp : new[i] = tmp[j]
    BY <1>1
  <2> QED BY <1>3, <1>4, <1>6, <2>1
<1> QED BY <1>5, <1>6 DEF NoneTaken

\* The row of a send takes a temporary message with its text, and no other one.
LEMMA TakesOne ==
  ASSUME messages \in Seq(Messages), sends \in [Sends -> OnTheWay], Correspond(messages, sends),
         Plain(sends), NEW tmp \in Seq(Temps), Temporary(sends, tmp), NEW seen, seen \subseteq Ids, NEW r \in Ids \ seen,
         Kept(messages, sends, tmp, seen), messages[r].by # 0
  PROVE  \E i \in DOMAIN tmp : /\ tmp[i].text = messages[r].text
                               /\ ReplaceTemp(tmp, messages[r]) = Without(tmp, i)
<1> DEFINE n == messages[r].by
           t == messages[r].text
           found == {i \in DOMAIN tmp: tmp[i].text = t}
           rest == WithoutFirst(tmp, found)
           again == {i \in DOMAIN rest: rest[i].files /\ rest[i].at = "sending"}
<1>1. /\ n \in Sends /\ messages[r].dir = "in" /\ sends[n].at \in {"stored", "done"}
      /\ t = sends[n].text /\ messages[r].files = sends[n].files /\ r \in Ids /\ r \notin seen
  BY DEF Correspond, Ids
<1>2. t \in Texts
  BY <1>1 DEF Correspond
<1>3. n \notin StoredAs(messages, t, seen)
  BY <1>1 DEF StoredAs, Correspond, Ids
<1>4. found # {}
  <2> DEFINE S == SendsOf(sends, t) \ StoredAs(messages, t, seen)
  <2>1. S \subseteq Sends /\ n \in SendsOf(sends, t) /\ ShownAs(t, tmp) \subseteq Sends
    BY <1>1 DEF SendsOf, ShownAs
  <2>2. n \in S
    BY <1>3, <2>1
  <2>3. Cardinality(S) = Cardinality(ShownAs(t, tmp))
    BY <1>2 DEF Kept, Counted
  <2> HIDE DEF S
  <2>4. IsFiniteSet(S) /\ IsFiniteSet(ShownAs(t, tmp))
    BY <2>1, FiniteOfSends
  <2>5. ShownAs(t, tmp) # {}
    BY <2>2, <2>3, <2>4, FS_EmptySet
  <2> QED BY <2>5 DEF ShownAs
<1>5. PICK i \in found : rest = Without(tmp, i)
  <2> HIDE DEF found
  <2>1. found \subseteq DOMAIN tmp
    BY DEF found
  <2> QED BY <1>4, <2>1, WithoutFirstFacts
<1>6. i \in DOMAIN tmp /\ tmp[i].text = t /\ tmp[i] \in Temps
  OBVIOUS
<1> HIDE DEF found, rest
<1>7. rest \in Seq(Temps) /\ Shortened(rest, tmp) /\ \A k \in DOMAIN rest : rest[k].n # tmp[i].n
  <2>1. Shortened(Without(tmp, i), tmp) /\ \A k \in DOMAIN Without(tmp, i) : Without(tmp, i)[k].n # tmp[i].n
    BY <1>6, OneLess
  <2> QED BY <1>5, <2>1 DEF Shortened
<1>8. ASSUME messages[r].files PROVE again = {}
  <2>1. sends[n].files
    BY <1>1, <1>8
  <2>2. tmp[i].n \in Sends /\ sends[tmp[i].n].text = t
    BY <1>6 DEF Temporary, Temps
  <2>3. tmp[i].n = n
    BY <1>1, <2>1, <2>2 DEF Plain
  <2>4. Coming(messages, sends, n, seen)
    BY <1>1 DEF Coming, Ids
  <2>5. \A j \in DOMAIN tmp : tmp[j].files /\ tmp[j].at = "sending" => tmp[j].n = n
    BY <1>1, <2>1, <2>4 DEF Kept, NoneTaken
  <2>6. \A k \in DOMAIN rest : \E j \in DOMAIN tmp : rest[k] = tmp[j]
    BY <1>7 DEF Shortened
  <2>7. \A k \in DOMAIN rest : rest[k].files /\ rest[k].at = "sending" => rest[k].n = n
    BY <2>5, <2>6
  <2> QED BY <1>7, <2>3, <2>7
<1>9. ReplaceTemp(tmp, messages[r]) = IF messages[r].files THEN WithoutFirst(rest, again) ELSE rest
  BY <1>1 DEF ReplaceTemp, rest, found
<1> HIDE DEF again
<1>10. ReplaceTemp(tmp, messages[r]) = rest
  <2>1. again = {} => WithoutFirst(rest, again) = rest
    BY DEF WithoutFirst
  <2> QED BY <1>8, <1>9, <2>1
<1> QED BY <1>5, <1>6, <1>10

LEMMA RowKeeps ==
  ASSUME messages \in Seq(Messages), sends \in [Sends -> OnTheWay], Correspond(messages, sends),
         Plain(sends), NEW tmp \in Seq(Temps), Temporary(sends, tmp),
         NEW seen, seen \subseteq Ids, NEW r \in Ids \ seen, Kept(messages, sends, tmp, seen)
  PROVE  Kept(messages, sends, ReplaceTemp(tmp, messages[r]), seen \cup {r})
<1> DEFINE row == messages[r]
           new == ReplaceTemp(tmp, row)
           more == seen \cup {r}
<1>1. row.by # 0 => /\ row.by \in Sends /\ row.dir = "in"
                    /\ row.text = sends[row.by].text /\ row.text \in Texts
  BY DEF Correspond, Ids
<1>2. Shortened(new, tmp)
  BY RowShortens
<1>3. seen \subseteq more
  OBVIOUS
<1> SUFFICES ASSUME NEW text \in Texts
             PROVE  Cardinality(SendsOf(sends, text) \ StoredAs(messages, text, more)) =
                      Cardinality(ShownAs(text, new))
  <2> HIDE DEF new, more
  <2>1. NoneTaken(messages, sends, tmp, seen)
    BY DEF Kept
  <2>2. NoneTaken(messages, sends, new, more)
    BY <1>2, <1>3, <2>1, NoneMistaken
  <2> QED BY <2>2 DEF Kept, Counted, new, more
<1>4. Cardinality(SendsOf(sends, text) \ StoredAs(messages, text, seen)) = Cardinality(ShownAs(text, tmp))
  BY DEF Kept, Counted
<1>5. CASE row.by = 0
  <2>1. StoredAs(messages, text, more) = StoredAs(messages, text, seen)
    <3>1. 0 \notin Sends
      BY ConsoleConstants
    <3> QED BY <1>5, <3>1 DEF StoredAs
  <2>2. new = tmp
    <3>1. CASE row.dir = "out"
      BY <3>1 DEF ReplaceTemp
    <3>2. CASE row.dir # "out"
      <4>1. row.dir = "in"
        <5>1. row \in Messages
          BY DEF Ids
        <5> QED BY <3>2, <5>1 DEF Messages
      <4> DEFINE found == {i \in DOMAIN tmp: tmp[i].text = row.text}
                 rest == WithoutFirst(tmp, found)
                 again == {i \in DOMAIN rest: rest[i].files /\ rest[i].at = "sending"}
      <4>2. \A i \in DOMAIN tmp : tmp[i].text # row.text /\ (row.files => ~(tmp[i].files /\ tmp[i].at = "sending"))
        BY <1>5, <4>1 DEF Kept, NoneTaken, Ids
      <4>3. found = {}
        BY <4>2
      <4> HIDE DEF found
      <4>4. rest = tmp
        BY <4>3 DEF WithoutFirst
      <4> HIDE DEF rest
      <4>5. row.files => again = {}
        BY <4>2, <4>4
      <4> HIDE DEF again
      <4>6. row.files => WithoutFirst(rest, again) = tmp
        BY <4>4, <4>5 DEF WithoutFirst
      <4>7. new = IF row.files THEN WithoutFirst(rest, again) ELSE rest
        BY <3>2 DEF ReplaceTemp, found, rest, again
      <4> QED BY <4>4, <4>6, <4>7
    <3> QED BY <3>1, <3>2
  <2> QED BY <1>4, <2>1, <2>2
<1>6. CASE row.by # 0
  <2>1. PICK i \in DOMAIN tmp : tmp[i].text = row.text /\ new = Without(tmp, i)
    BY <1>6, TakesOne
  <2>2. /\ \A j \in DOMAIN tmp : j # i => \E k \in DOMAIN new : new[k] = tmp[j]
        /\ \A k \in DOMAIN new : new[k].n # tmp[i].n
        /\ \A k \in DOMAIN new : \E j \in DOMAIN tmp : new[k] = tmp[j]
    BY <2>1, OneLess DEF Shortened
  <2>3. tmp[i].n \in Sends /\ \A j \in DOMAIN tmp : tmp[j].n = tmp[i].n => j = i
    <3>1. tmp[i] \in Temps
      BY <2>1
    <3>2. \A j \in DOMAIN tmp : tmp[j].n = tmp[i].n => j = i
      BY DEF Temporary
    <3> QED BY <3>1, <3>2 DEF Temps
  <2>4. ShownAs(text, new) = ShownAs(text, tmp) \ {tmp[i].n}
    <3> HIDE DEF new
    <3>1. ASSUME NEW n \in ShownAs(text, new) PROVE n \in ShownAs(text, tmp) /\ n # tmp[i].n
      BY <2>2 DEF ShownAs
    <3>2. ASSUME NEW n \in ShownAs(text, tmp), n # tmp[i].n PROVE n \in ShownAs(text, new)
      <4>1. PICK j \in DOMAIN tmp : tmp[j].n = n /\ tmp[j].text = text
        BY DEF ShownAs
      <4>2. PICK k \in DOMAIN new : new[k] = tmp[j]
        BY <2>2, <3>2, <4>1
      <4> QED BY <4>1, <4>2 DEF ShownAs
    <3> QED BY <3>1, <3>2
  <2>5. StoredAs(messages, text, more) =
          StoredAs(messages, text, seen) \cup (IF row.text = text THEN {row.by} ELSE {})
    BY <1>1, <1>6 DEF StoredAs
  <2> HIDE DEF new, more
  <2>6. CASE row.text # text
    <3>1. tmp[i].n \notin ShownAs(text, tmp)
      BY <2>1, <2>3, <2>6 DEF ShownAs
    <3>2. ShownAs(text, new) = ShownAs(text, tmp)
      BY <2>4, <3>1
    <3> QED BY <1>4, <2>5, <2>6, <3>2
  <2>7. CASE row.text = text
    <3> DEFINE S == SendsOf(sends, text) \ StoredAs(messages, text, seen)
               U == ShownAs(text, tmp)
    <3>1. S \subseteq Sends /\ U \subseteq Sends
      BY DEF SendsOf, ShownAs
    <3>2. row.by \in S
      BY <1>1, <1>6, <2>7 DEF SendsOf, StoredAs, Correspond, Ids
    <3>3. tmp[i].n \in U
      BY <2>1, <2>3, <2>7 DEF ShownAs
    <3>4. SendsOf(sends, text) \ StoredAs(messages, text, more) = S \ {row.by}
      BY <2>5, <2>7
    <3>5. Cardinality(S) = Cardinality(U)
      BY <1>4
    <3> HIDE DEF S, U, row
    <3>6. IsFiniteSet(S) /\ IsFiniteSet(U)
      BY <3>1, FiniteOfSends
    <3>7. Cardinality(S \ {row.by}) = Cardinality(S) - 1
      BY <3>2, <3>6, FS_RemoveElement
    <3>8. Cardinality(U \ {tmp[i].n}) = Cardinality(U) - 1
      BY <3>3, <3>6, FS_RemoveElement
    <3>9. ShownAs(text, new) = U \ {tmp[i].n}
      BY <2>4 DEF U
    <3> QED BY <3>4, <3>5, <3>7, <3>8, <3>9
  <2> QED BY <2>6, <2>7
<1> QED BY <1>5, <1>6

\* What the user sent is on the page once after some rows have been added, too.
LEMMA AddedKeeps ==
  ASSUME messages \in Seq(Messages), temps \in Seq(Temps), sends \in [Sends -> OnTheWay],
         Correspond(messages, sends), Plain(sends), Temporary(sends, temps),
         page.shown \subseteq Ids, NEW ids, ids \subseteq Ids,
         Kept(messages, sends, temps, page.shown)
  PROVE  Kept(messages, sends, AddMessages(ids), page.shown \cup ids)
<1> DEFINE new == ids \ page.shown
           seen(r) == page.shown \cup {o \in new : o <= r}
           Fine(r, tmp) == Temporary(sends, tmp) /\ Kept(messages, sends, tmp, seen(r))
           G == {p \in Nat \X Seq(Temps) : Fine(p[1], p[2])}
<1>1. Len(messages) \in Nat /\ Ids = 1..Len(messages)
  BY DEF Ids
<1>2. seen(0) = page.shown /\ seen(Len(messages)) = page.shown \cup ids
  <2>1. \A o \in new : o \in ids /\ o \in Nat /\ 1 <= o /\ o <= Len(messages)
    BY <1>1
  <2>2. {o \in new : o <= 0} = {}
    BY <2>1
  <2>3. {o \in new : o <= Len(messages)} = new
    BY <2>1
  <2> QED BY <2>2, <2>3
<1>3. \A r \in 0..Len(messages) : seen(r) \subseteq Ids
  OBVIOUS
<1>4. \A r \in 1..Len(messages) : IF r \in new THEN r \notin seen(r - 1) /\ seen(r) = seen(r - 1) \cup {r}
                                  ELSE seen(r) = seen(r - 1)
  <2>1. ASSUME NEW r \in 1..Len(messages)
        PROVE  {o \in new : o <= r} = {o \in new : o <= r - 1} \cup (IF r \in new THEN {r} ELSE {})
    <3>1. \A o, q \in Nat : o <= q <=> o <= q - 1 \/ o = q
      OBVIOUS
    <3>2. \A o \in new : o \in Nat
      BY <1>1
    <3>4. r \in Nat
      BY <1>1, <2>1
    <3>3. \A o \in new : o <= r <=> o <= r - 1 \/ o = r
      BY <3>1, <3>2, <3>4
    <3> HIDE DEF new
    <3> QED BY <3>3
  <2>2. ASSUME NEW r \in 1..Len(messages) PROVE r \in new => r \notin seen(r - 1)
    BY <1>1
  <2>3. \A r \in 1..Len(messages) : seen(r) = seen(r - 1) \cup (IF r \in new THEN {r} ELSE {})
    BY <2>1
  <2> HIDE DEF seen, new
  <2> QED BY <2>2, <2>3
<1> HIDE DEF seen
<1>5. <<0, temps>> \in G
  BY <1>2
<1>6. ASSUME NEW r \in 1..Len(messages), NEW tmp, <<r - 1, tmp>> \in G
      PROVE  <<r, NextRow(new, r, tmp)>> \in G
  <2>1. tmp \in Seq(Temps) /\ Temporary(sends, tmp) /\ Kept(messages, sends, tmp, seen(r - 1)) /\ r \in Nat
    BY <1>1, <1>6
  <2>2. CASE r \in new
    <3>1. r \in Ids \ seen(r - 1) /\ seen(r - 1) \subseteq Ids
      BY <1>1, <1>3, <1>4, <2>2
    <3>2. Kept(messages, sends, ReplaceTemp(tmp, messages[r]), seen(r - 1) \cup {r})
      BY <2>1, <3>1, RowKeeps
    <3>3. Temporary(sends, ReplaceTemp(tmp, messages[r])) /\ ReplaceTemp(tmp, messages[r]) \in Seq(Temps)
      BY <2>1, RowShortens DEF Shortened
    <3>4. Fine(r, ReplaceTemp(tmp, messages[r]))
      BY <1>4, <2>2, <3>2, <3>3
    <3>5. NextRow(new, r, tmp) = ReplaceTemp(tmp, messages[r])
      BY <2>2 DEF NextRow
    <3> HIDE DEF Fine
    <3> QED BY <2>1, <3>3, <3>4, <3>5
  <2>3. CASE r \notin new
    <3>1. Fine(r, tmp)
      BY <1>4, <2>1, <2>3
    <3>2. NextRow(new, r, tmp) = tmp
      BY <2>3 DEF NextRow
    <3> HIDE DEF Fine
    <3> QED BY <2>1, <3>1, <3>2
  <2> QED BY <2>2, <2>3
<1> HIDE DEF G
<1>7. <<Len(messages), Added(new)>> \in G
  BY <1>1, <1>5, <1>6, RowByRow
<1>8. Kept(messages, sends, Added(new), seen(Len(messages)))
  BY <1>7 DEF G
<1> QED BY <1>2, <1>8 DEF AddMessages

LEMMA PageFields ==
  ASSUME page \in Pages
  PROVE  /\ page.link \in {"closed", "open", "polling"} /\ page.tries \in Nat
         /\ page.load \in {"asked", "read", "done", "failed"} /\ page.to \in Nat /\ page.last \in Nat
         /\ page.shown \in SUBSET Nat /\ page.status \in States \cup {"none"}
         /\ page = [link |-> page.link, tries |-> page.tries, load |-> page.load, to |-> page.to,
                    last |-> page.last, shown |-> page.shown, status |-> page.status]
  BY DEF Pages

LEMMA ConsoleFields ==
  ASSUME ConsoleTypeOK
  PROVE  /\ console.up \in BOOLEAN /\ console.last \in Nat /\ console.status \in States \cup {"none"}
         /\ odd.crossed \in BOOLEAN /\ odd.again \in BOOLEAN /\ odd.state \in BOOLEAN
         /\ Len(messages) \in Nat /\ Ids = 1 .. Len(messages)
         /\ Len(pipe) \in Nat /\ DOMAIN pipe = 1 .. Len(pipe)
  BY DEF ConsoleTypeOK, Ids

\* The page, after a connection was lost.
LEMMA ReconnectingIs ==
  ASSUME page \in Pages
  PROVE  /\ Reconnecting \in Pages /\ Reconnecting.link \in {"closed", "polling"}
         /\ Reconnecting.load = page.load /\ Reconnecting.to = page.to
         /\ Reconnecting.last = page.last /\ Reconnecting.shown = page.shown
         /\ Reconnecting.status = "none"
<1>1. CASE page.tries < MaxReconnects
  <2>1. Reconnecting = [link |-> "closed", tries |-> page.tries + 1, load |-> page.load, to |-> page.to,
                        last |-> page.last, shown |-> page.shown, status |-> "none"]
    BY <1>1, PageFields DEF Reconnecting
  <2> QED BY <2>1, PageFields DEF Pages
<1>2. CASE ~(page.tries < MaxReconnects)
  <2>1. Reconnecting = [link |-> "polling", tries |-> page.tries, load |-> page.load, to |-> page.to,
                        last |-> page.last, shown |-> page.shown, status |-> "none"]
    BY <1>2, PageFields DEF Reconnecting
  <2> QED BY <2>1, PageFields DEF Pages
<1> QED BY <1>1, <1>2

LEMMA MissesType ==
  ASSUME ConsoleTypeOK, NEW ids, ids \subseteq Nat
  PROVE  Misses(ids) \subseteq Nat
  BY DEF ConsoleTypeOK, Misses

LEMMA MarkType ==
  ASSUME ConsoleTypeOK, NEW n, NEW at \in {"sending", "sent", "failed"}
  PROVE  /\ Mark(n, at) \in Seq(Temps) /\ DOMAIN Mark(n, at) = DOMAIN temps
         /\ \A i \in DOMAIN temps : /\ Mark(n, at)[i].n = temps[i].n /\ Mark(n, at)[i].text = temps[i].text
                                    /\ Mark(n, at)[i].files = temps[i].files
                                    /\ Mark(n, at)[i].at = IF temps[i].n = n THEN at ELSE temps[i].at
<1>1. temps \in Seq(Temps) /\ DOMAIN temps = 1 .. Len(temps) /\ Len(temps) \in Nat
  BY DEF ConsoleTypeOK
<1>2. ASSUME NEW i \in DOMAIN temps
      PROVE  /\ Mark(n, at)[i] \in Temps
             /\ Mark(n, at)[i].n = temps[i].n /\ Mark(n, at)[i].text = temps[i].text
             /\ Mark(n, at)[i].files = temps[i].files
             /\ Mark(n, at)[i].at = IF temps[i].n = n THEN at ELSE temps[i].at
  <2>1. temps[i] \in Temps
    BY <1>1, <1>2
  <2>2. Mark(n, at)[i] = IF temps[i].n = n THEN [temps[i] EXCEPT !.at = at] ELSE temps[i]
    BY <1>2 DEF Mark
  <2> QED BY <2>1, <2>2 DEF Temps
<1>3. DOMAIN Mark(n, at) = DOMAIN temps
  BY DEF Mark
<1>4. Mark(n, at) \in Seq(Temps)
  <2>1. Mark(n, at) = [i \in 1 .. Len(temps) |-> Mark(n, at)[i]]
    BY <1>1 DEF Mark
  <2>2. \A i \in 1 .. Len(temps) : Mark(n, at)[i] \in Temps
    BY <1>1, <1>2
  <2> HIDE DEF Mark
  <2>3. \A T : \A m \in Nat : \A s : s = [i \in 1..m |-> s[i]] /\ (\A i \in 1..m : s[i] \in T) => s \in Seq(T)
    OBVIOUS
  <2> QED BY <1>1, <2>1, <2>2, <2>3
<1> QED BY <1>2, <1>3, <1>4

LEMMA FrameType ==
  ASSUME NEW kind \in {"status", "messages", "failed"}, NEW ids \in SUBSET Nat, NEW n \in Nat,
         NEW state \in States \cup {"none"}
  PROVE  Frame(kind, ids, n, state) \in Frames
  BY DEF Frame, Frames

LEMMA CutOffType ==
  ASSUME NEW send \in OnTheWay
  PROVE  /\ CutOff(send) \in OnTheWay /\ CutOff(send).text = send.text /\ CutOff(send).files = send.files
         /\ CutOff(send).at = (IF send.via = "ws" /\ send.at = "wire" THEN "done" ELSE send.at)
         /\ CutOff(send).via = (IF send.via = "ws" THEN "none" ELSE send.via)
  BY DEF CutOff, OnTheWay

\* What each step makes of the page.
LEMMA PageMoves ==
  ASSUME ConsoleTypeOK
  PROVE  /\ ServeHistory =>
              page' = [link |-> page.link, tries |-> page.tries, load |-> "read", to |-> Len(messages),
                       last |-> page.last, shown |-> page.shown, status |-> page.status]
         /\ LoadConversations =>
              page' = [link |-> page.link, tries |-> page.tries, load |-> "done", to |-> page.to,
                       last |-> IF page.to = 0 THEN page.last ELSE page.to,
                       shown |-> page.shown \cup 1 .. page.to, status |-> page.status]
         /\ HistoryFails =>
              page' = [link |-> page.link, tries |-> page.tries, load |-> "failed", to |-> page.to,
                       last |-> page.last, shown |-> page.shown, status |-> page.status]
         /\ Connects =>
              page' = [link |-> "open", tries |-> 0, load |-> page.load, to |-> page.to,
                       last |-> page.last, shown |-> page.shown, status |-> page.status]
         /\ PollMessages =>
              page' = [link |-> page.link, tries |-> page.tries, load |-> page.load, to |-> page.to,
                       last |-> Len(messages), shown |-> page.shown \cup (page.last + 1 .. Len(messages)),
                       status |-> page.status]
         /\ UpdateStatusViaHttp =>
              page' = [link |-> page.link, tries |-> page.tries, load |-> page.load, to |-> page.to,
                       last |-> page.last, shown |-> page.shown,
                       status |-> IF console.up THEN agentState ELSE "none"]
<1>1. page = [link |-> page.link, tries |-> page.tries, load |-> page.load, to |-> page.to,
              last |-> page.last, shown |-> page.shown, status |-> page.status]
  BY PageFields DEF ConsoleTypeOK
<1>2. ServeHistory => page' = [link |-> page.link, tries |-> page.tries, load |-> "read", to |-> Len(messages),
                               last |-> page.last, shown |-> page.shown, status |-> page.status]
  BY <1>1 DEF ServeHistory
<1>3. LoadConversations =>
        page' = [link |-> page.link, tries |-> page.tries, load |-> "done", to |-> page.to,
                 last |-> IF page.to = 0 THEN page.last ELSE page.to,
                 shown |-> page.shown \cup 1 .. page.to, status |-> page.status]
  BY <1>1 DEF LoadConversations
<1>4. HistoryFails =>
        page' = [link |-> page.link, tries |-> page.tries, load |-> "failed", to |-> page.to,
                 last |-> page.last, shown |-> page.shown, status |-> page.status]
  BY <1>1 DEF HistoryFails
<1>5. Connects =>
        page' = [link |-> "open", tries |-> 0, load |-> page.load, to |-> page.to,
                 last |-> page.last, shown |-> page.shown, status |-> page.status]
  BY <1>1 DEF Connects
<1>6. PollMessages =>
        page' = [link |-> page.link, tries |-> page.tries, load |-> page.load, to |-> page.to,
                 last |-> Len(messages), shown |-> page.shown \cup (page.last + 1 .. Len(messages)),
                 status |-> page.status]
  BY <1>1 DEF PollMessages
<1>7. UpdateStatusViaHttp =>
        page' = [link |-> page.link, tries |-> page.tries, load |-> page.load, to |-> page.to,
                 last |-> page.last, shown |-> page.shown,
                 status |-> IF console.up THEN agentState ELSE "none"]
  BY <1>1 DEF UpdateStatusViaHttp
<1> QED BY <1>2, <1>3, <1>4, <1>5, <1>6, <1>7

\* What a frame that arrives does: a state, rows, or that a send has failed.
LEMMA ReceivesIs ==
  ASSUME ConsoleTypeOK, KnownRows, Receives
  PROVE  LET frame == Head(pipe) IN
         /\ pipe # <<>> /\ Len(pipe) >= 1 /\ frame = pipe[1] /\ frame \in Frames /\ page.link = "open"
         /\ pipe' \in Seq(Frames) /\ Len(pipe') = Len(pipe) - 1
         /\ \A i \in 1 .. Len(pipe) - 1 : pipe'[i] = pipe[i + 1]
         /\ frame.ids \subseteq 1 .. console.last
         /\ \/ /\ frame.kind = "status" /\ temps' = temps
               /\ page' = [link |-> page.link, tries |-> page.tries, load |-> page.load, to |-> page.to,
                           last |-> page.last, shown |-> page.shown, status |-> frame.state]
            \/ /\ frame.kind = "messages" /\ temps' = AddMessages(frame.ids)
               /\ \E r \in frame.ids :
                    /\ \A o \in frame.ids : o <= r
                    /\ page' = [link |-> page.link, tries |-> page.tries, load |-> page.load, to |-> page.to,
                                last |-> r, shown |-> page.shown \cup frame.ids, status |-> page.status]
            \/ frame.kind = "failed" /\ temps' = Mark(frame.n, "failed") /\ page' = page
<1> DEFINE frame == Head(pipe)
<1>1. page = [link |-> page.link, tries |-> page.tries, load |-> page.load, to |-> page.to,
              last |-> page.last, shown |-> page.shown, status |-> page.status]
  BY PageFields DEF ConsoleTypeOK
<1>2. pipe \in Seq(Frames) /\ pipe # <<>>
  BY DEF ConsoleTypeOK, Receives
<1>3. Len(pipe) \in Nat /\ Len(pipe) >= 1 /\ frame = pipe[1] /\ frame \in Frames /\ 1 \in DOMAIN pipe
  BY <1>2
<1>4. /\ Tail(pipe) \in Seq(Frames) /\ Len(Tail(pipe)) = Len(pipe) - 1
      /\ \A i \in 1 .. Len(pipe) - 1 : Tail(pipe)[i] = pipe[i + 1]
  BY <1>2, <1>3, HeadTailProperties
<1>5. /\ frame.ids \subseteq 1 .. console.last
      /\ frame.kind = "messages" => \E r \in frame.ids : \A o \in frame.ids : o <= r
  BY <1>3 DEF KnownRows
<1>6. page.link = "open" /\ pipe' = Tail(pipe)
  BY DEF Receives
<1> HIDE DEF frame
<1>7. \/ frame.kind = "status" /\ page' = [page EXCEPT !.status = frame.state] /\ temps' = temps
      \/ /\ frame.kind = "messages" /\ temps' = AddMessages(frame.ids)
         /\ page' = [page EXCEPT !.shown = @ \cup frame.ids,
                                 !.last = CHOOSE r \in frame.ids: \A o \in frame.ids: o <= r]
      \/ frame.kind = "failed" /\ temps' = Mark(frame.n, "failed") /\ page' = page
  BY DEF Receives, frame
<1>8. \/ /\ frame.kind = "status" /\ temps' = temps
         /\ page' = [link |-> page.link, tries |-> page.tries, load |-> page.load, to |-> page.to,
                     last |-> page.last, shown |-> page.shown, status |-> frame.state]
      \/ /\ frame.kind = "messages" /\ temps' = AddMessages(frame.ids)
         /\ \E r \in frame.ids :
              /\ \A o \in frame.ids : o <= r
              /\ page' = [link |-> page.link, tries |-> page.tries, load |-> page.load, to |-> page.to,
                          last |-> r, shown |-> page.shown \cup frame.ids, status |-> page.status]
      \/ frame.kind = "failed" /\ temps' = Mark(frame.n, "failed") /\ page' = page
  <2>1. CASE frame.kind = "status" /\ page' = [page EXCEPT !.status = frame.state] /\ temps' = temps
    BY <1>1, <2>1
  <2>2. CASE /\ frame.kind = "messages" /\ temps' = AddMessages(frame.ids)
             /\ page' = [page EXCEPT !.shown = @ \cup frame.ids,
                                     !.last = CHOOSE r \in frame.ids: \A o \in frame.ids: o <= r]
    <3> DEFINE c == CHOOSE r \in frame.ids: \A o \in frame.ids: o <= r
    <3>1. c \in frame.ids /\ \A o \in frame.ids : o <= c
      BY <1>5, <2>2
    <3>2. page' = [page EXCEPT !.shown = @ \cup frame.ids, !.last = c]
      BY <2>2
    <3> HIDE DEF c
    <3>3. page' = [link |-> page.link, tries |-> page.tries, load |-> page.load, to |-> page.to,
                   last |-> c, shown |-> page.shown \cup frame.ids, status |-> page.status]
      BY <1>1, <3>2
    <3> QED BY <2>2, <3>1, <3>3
  <2>3. CASE frame.kind = "failed" /\ temps' = Mark(frame.n, "failed") /\ page' = page
    BY <2>3
  <2> QED BY <1>7, <2>1, <2>2, <2>3
<1> QED BY <1>2, <1>3, <1>4, <1>5, <1>6, <1>8 DEF frame

\* A send goes on, or is over.
GoesOn(sd, new) ==
  /\ new \in [Sends -> OnTheWay]
  /\ \A n \in Sends :
       /\ new[n].text = sd[n].text /\ new[n].files = sd[n].files
       /\ \/ new[n].at = sd[n].at
          \/ sd[n].at = "wire" /\ new[n].at = "child"
          \/ sd[n].at # "no" /\ new[n].at = "done"
       /\ sd[n] = NoSend => new[n] = NoSend

\* What is shown as being sent stays so, or is shown to be sent or to have failed.
Remarked(tmp, new) ==
  /\ new \in Seq(Temps) /\ DOMAIN new = DOMAIN tmp
  /\ \A i \in DOMAIN tmp : /\ new[i].n = tmp[i].n /\ new[i].text = tmp[i].text /\ new[i].files = tmp[i].files
                           /\ new[i].at = "sending" => tmp[i].at = "sending"

LEMMA AnswerIs ==
  ASSUME ConsoleTypeOK, NEW n \in Sends, NEW ok \in BOOLEAN, Answer(n, ok), sends[n].at # "no"
  PROVE  /\ GoesOn(sends, sends') /\ Remarked(temps, temps') /\ pipe' \in Seq(Frames)
         /\ sends'[n].at = "done" /\ sends'[n].via = sends[n].via
         /\ \A m \in Sends : m # n => sends'[m] = sends[m]
         /\ temps' = IF sends[n].via # "http" THEN temps ELSE Mark(n, IF ok THEN "sent" ELSE "failed")
         /\ pipe' = IF sends[n].via = "ws" /\ ~ok THEN Append(pipe, Frame("failed", {}, n, "none")) ELSE pipe
<1>1. sends \in [Sends -> OnTheWay] /\ pipe \in Seq(Frames) /\ temps \in Seq(Temps)
  BY DEF ConsoleTypeOK
<1>2. sends' = [sends EXCEPT ![n].at = "done"]
  BY DEF Answer
<1>3. /\ \A m \in Sends : sends'[m] \in OnTheWay /\ (m # n => sends'[m] = sends[m])
      /\ sends'[n].at = "done" /\ sends'[n].via = sends[n].via
      /\ sends'[n].text = sends[n].text /\ sends'[n].files = sends[n].files
      /\ sends' \in [Sends -> OnTheWay]
  <2>1. sends[n] \in OnTheWay
    BY <1>1
  <2>2. /\ [sends[n] EXCEPT !.at = "done"] \in OnTheWay
        /\ [sends[n] EXCEPT !.at = "done"].at = "done"
        /\ [sends[n] EXCEPT !.at = "done"].via = sends[n].via
        /\ [sends[n] EXCEPT !.at = "done"].text = sends[n].text
        /\ [sends[n] EXCEPT !.at = "done"].files = sends[n].files
    BY <2>1 DEF OnTheWay
  <2>3. sends'[n] = [sends[n] EXCEPT !.at = "done"] /\ \A m \in Sends : m # n => sends'[m] = sends[m]
    BY <1>1, <1>2
  <2>4. sends' \in [Sends -> OnTheWay]
    BY <1>1, <1>2, <2>2
  <2> QED BY <2>2, <2>3, <2>4
<1>4. GoesOn(sends, sends')
  <2>1. ~(sends[n] = NoSend)
    BY DEF NoSend
  <2> QED BY <1>3, <2>1 DEF GoesOn
<1>5. pipe' = IF sends[n].via = "ws" /\ ~ok THEN Append(pipe, Frame("failed", {}, n, "none")) ELSE pipe
  BY DEF Answer
<1>6. pipe' \in Seq(Frames)
  <2>1. n \in Nat
    BY ConsoleConstants
  <2>2. Frame("failed", {}, n, "none") \in Frames
    BY <2>1, FrameType
  <2> QED BY <1>1, <1>5, <2>2
<1>7. temps' = IF sends[n].via # "http" THEN temps ELSE Mark(n, IF ok THEN "sent" ELSE "failed")
  BY DEF Answer
<1>8. Remarked(temps, temps')
  <2>1. Remarked(temps, temps)
    BY <1>1 DEF Remarked
  <2>2. \A at \in {"sent", "failed"} : Remarked(temps, Mark(n, at))
    BY MarkType DEF Remarked
  <2> QED BY <1>7, <2>1, <2>2
<1> QED BY <1>3, <1>4, <1>5, <1>6, <1>7, <1>8

\* Losing a connection, a send goes on or is over.
LEMMA CutOffIs ==
  ASSUME ConsoleTypeOK
  PROVE  GoesOn(sends, [n \in Sends |-> CutOff(sends[n])])
<1>1. \A n \in Sends : sends[n] \in OnTheWay
  BY DEF ConsoleTypeOK
<1>2. ASSUME NEW n \in Sends PROVE sends[n] = NoSend => CutOff(sends[n]) = NoSend
  BY DEF CutOff, NoSend
<1> QED BY <1>1, <1>2, CutOffType DEF GoesOn

\* ... and losing the server, what waited for its answer is marked.
DeadAs(send) ==
  IF send.via = "http" /\ send.at # "done"
  THEN [send EXCEPT !.via = "none", !.at = IF @ = "wire" THEN "done" ELSE @]
  ELSE CutOff(send)

LEMMA ServerDiesIs ==
  ASSUME ConsoleTypeOK, ServerDies
  PROVE  GoesOn(sends, sends') /\ Remarked(temps, temps')
<1>1. \A n \in Sends : sends[n] \in OnTheWay
  BY DEF ConsoleTypeOK
<1>2. sends' = [n \in Sends |-> DeadAs(sends[n])]
  BY DEF ServerDies, DeadAs
<1>3. ASSUME NEW n \in Sends
      PROVE  /\ DeadAs(sends[n]) \in OnTheWay
             /\ DeadAs(sends[n]).text = sends[n].text /\ DeadAs(sends[n]).files = sends[n].files
             /\ DeadAs(sends[n]).at = sends[n].at \/ (sends[n].at = "wire" /\ DeadAs(sends[n]).at = "done")
             /\ sends[n] = NoSend => DeadAs(sends[n]) = NoSend
  <2>1. CASE sends[n].via = "http" /\ sends[n].at # "done"
    <3>1. sends[n] # NoSend
      BY <2>1 DEF NoSend
    <3> QED BY <1>1, <2>1, <3>1 DEF DeadAs, OnTheWay
  <2>2. CASE ~(sends[n].via = "http" /\ sends[n].at # "done")
    <3>1. DeadAs(sends[n]) = CutOff(sends[n])
      BY <2>2 DEF DeadAs
    <3>2. sends[n] = NoSend => CutOff(sends[n]) = NoSend
      BY DEF CutOff, NoSend
    <3> QED BY <1>1, <3>1, <3>2, CutOffType
  <2> QED BY <2>1, <2>2
<1>4. GoesOn(sends, sends')
  <2> HIDE DEF DeadAs
  <2> QED BY <1>2, <1>3 DEF GoesOn
<1> DEFINE mark(i) == LET send == sends[temps[i].n]
                      IN IF send.via = "http" /\ send.at # "done" THEN [temps[i] EXCEPT !.at = "failed"]
                         ELSE temps[i]
<1>5. temps' = [i \in DOMAIN temps |-> mark(i)]
  BY DEF ServerDies
<1>6. temps \in Seq(Temps) /\ DOMAIN temps = 1 .. Len(temps) /\ Len(temps) \in Nat
  BY DEF ConsoleTypeOK
<1>7. ASSUME NEW i \in DOMAIN temps
      PROVE  /\ mark(i) \in Temps /\ mark(i).n = temps[i].n /\ mark(i).text = temps[i].text
             /\ mark(i).files = temps[i].files /\ (mark(i).at = "sending" => temps[i].at = "sending")
  <2>1. temps[i] \in Temps
    BY <1>6, <1>7
  <2>2. mark(i) = temps[i] \/ mark(i) = [temps[i] EXCEPT !.at = "failed"]
    OBVIOUS
  <2> HIDE DEF mark
  <2> QED BY <2>1, <2>2 DEF Temps
<1> HIDE DEF mark
<1>8. temps' \in Seq(Temps)
  <2>1. \A T : \A m \in Nat : \A s : s = [i \in 1..m |-> s[i]] /\ (\A i \in 1..m : s[i] \in T) => s \in Seq(T)
    OBVIOUS
  <2>2. temps' = [i \in 1 .. Len(temps) |-> temps'[i]] /\ \A i \in 1 .. Len(temps) : temps'[i] \in Temps
    BY <1>5, <1>6, <1>7
  <2> QED BY <1>6, <2>1, <2>2
<1>9. Remarked(temps, temps')
  BY <1>5, <1>7, <1>8 DEF Remarked
<1> QED BY <1>4, <1>9

\* The new rows are announced in a frame, after the state if that is another one.
LEMMA CheckUpdatesIs ==
  ASSUME ConsoleTypeOK, CheckUpdates
  PROVE  /\ console' = [up |-> console.up, last |-> Len(messages), status |-> agentState] /\ console.up
         /\ pipe' \in Seq(Frames)
         /\ page.link # "open" => pipe' = pipe
         /\ page.link = "open" =>
              LET new == console.last + 1 .. Len(messages)
                  told == IF agentState = console.status THEN <<>> ELSE <<Frame("status", {}, 0, agentState)>>
                  rows == IF new = {} THEN <<>> ELSE <<Frame("messages", new, 0, "none")>>
              IN pipe' = pipe \o told \o rows
         /\ \A i \in 1 .. Len(pipe) : i \in DOMAIN pipe' /\ pipe'[i] = pipe[i]
<1>1. console \in [up : BOOLEAN, last : Nat, status : States \cup {"none"}] /\ pipe \in Seq(Frames)
      /\ agentState \in States /\ Len(messages) \in Nat
  BY DEF ConsoleTypeOK
<1>2. console' = [up |-> console.up, last |-> Len(messages), status |-> agentState] /\ console.up
  BY <1>1 DEF CheckUpdates
<1> DEFINE new == console.last + 1 .. Len(messages)
           told == IF agentState = console.status THEN <<>> ELSE <<Frame("status", {}, 0, agentState)>>
           added == IF new = {} THEN <<>> ELSE <<Frame("messages", new, 0, "none")>>
<1>3. pipe' = IF page.link # "open" THEN pipe ELSE pipe \o told \o added
  BY DEF CheckUpdates, NewMessages
<1>4. told \in Seq(Frames)
  <2>1. Frame("status", {}, 0, agentState) \in Frames
    BY <1>1, FrameType
  <2> QED BY <2>1
<1>5. added \in Seq(Frames)
  <2>1. new \in SUBSET Nat
    BY <1>1
  <2>2. Frame("messages", new, 0, "none") \in Frames
    BY <2>1, FrameType
  <2> QED BY <2>2
<1> HIDE DEF told, added
<1>6. /\ pipe \o told \o added \in Seq(Frames)
      /\ \A i \in 1 .. Len(pipe) : i \in DOMAIN (pipe \o told \o added) /\ (pipe \o told \o added)[i] = pipe[i]
  <2>1. \A s, t \in Seq(Frames) :
          /\ s \o t \in Seq(Frames) /\ Len(s) \in Nat /\ Len(t) \in Nat /\ Len(s \o t) = Len(s) + Len(t)
          /\ DOMAIN (s \o t) = 1 .. Len(s) + Len(t)
          /\ \A i \in 1 .. Len(s) : (s \o t)[i] = s[i]
    <3>1. \A s, t \in Seq(Frames) :
            /\ s \o t \in Seq(Frames) /\ Len(s) \in Nat /\ Len(t) \in Nat /\ Len(s \o t) = Len(s) + Len(t)
            /\ DOMAIN (s \o t) = 1 .. Len(s) + Len(t)
      OBVIOUS
    <3>2. \A s, t \in Seq(Frames) : \A i \in 1 .. Len(s) : (s \o t)[i] = s[i]
      OBVIOUS
    <3> QED BY <3>1, <3>2
  <2> DEFINE first == pipe \o told
  <2>2. /\ first \in Seq(Frames) /\ Len(first) = Len(pipe) + Len(told) /\ Len(pipe) \in Nat /\ Len(told) \in Nat
        /\ \A i \in 1 .. Len(pipe) : first[i] = pipe[i]
    BY <1>1, <1>4, <2>1
  <2> HIDE DEF first
  <2>3. /\ first \o added \in Seq(Frames) /\ DOMAIN (first \o added) = 1 .. Len(first) + Len(added)
        /\ Len(added) \in Nat /\ \A i \in 1 .. Len(first) : (first \o added)[i] = first[i]
    BY <1>5, <2>1, <2>2
  <2>4. \A i \in 1 .. Len(pipe) : i \in 1 .. Len(first) /\ i \in 1 .. Len(first) + Len(added)
    BY <2>2, <2>3
  <2>5. \A i \in 1 .. Len(pipe) : i \in DOMAIN (first \o added) /\ (first \o added)[i] = pipe[i]
    BY <2>2, <2>3, <2>4
  <2> QED BY <2>3, <2>5 DEF first
<1>7. pipe' \in Seq(Frames) /\ \A i \in 1 .. Len(pipe) : i \in DOMAIN pipe' /\ pipe'[i] = pipe[i]
  BY <1>1, <1>3, <1>6
<1> QED BY <1>2, <1>3, <1>7 DEF told, added

LEMMA TypeStep ==
  ASSUME ConsoleTypeOK, KnownRows, ConsoleNext
  PROVE  ConsoleTypeOK'
<1>1. /\ messages \in Seq(Messages) /\ agentState \in States
      /\ console \in [up : BOOLEAN, last : Nat, status : States \cup {"none"}]
      /\ page \in Pages /\ temps \in Seq(Temps) /\ pipe \in Seq(Frames)
      /\ sends \in [Sends -> OnTheWay] /\ missed \in SUBSET Nat
      /\ odd \in [crossed : BOOLEAN, again : BOOLEAN, state : BOOLEAN] /\ outages \in Nat
  BY DEF ConsoleTypeOK
<1>2. /\ Len(messages) \in Nat /\ page.to \in Nat /\ page.last \in Nat /\ page.tries \in Nat /\ page.shown \subseteq Nat
      /\ page.link \in {"closed", "open", "polling"} /\ page.load \in {"asked", "read", "done", "failed"}
      /\ page.status \in States \cup {"none"} /\ console.last \in Nat
  BY <1>1, PageFields
<1>3. Outage => outages' \in Nat
  BY <1>1 DEF Outage
<1>4. \A ids : AddMessages(ids) \in Seq(Temps)
  BY <1>1, AddedShortens DEF AddMessages, Shortened
<1>5. InPipe \subseteq Nat
  <2>1. \A i \in DOMAIN pipe : pipe[i] \in Frames
    BY <1>1
  <2>2. \A i \in DOMAIN pipe : pipe[i].ids \subseteq Nat
    BY <2>1 DEF Frames
  <2> QED BY <2>2 DEF InPipe
<1>6. Reconnecting \in Pages
  BY <1>1, ReconnectingIs
<1>7. <<>> \in Seq(Frames)
  OBVIOUS
<1>8. CASE ServeHistory
  <2>1. page' \in Pages
    BY <1>2, <1>8, PageMoves DEF Pages
  <2>2. UNCHANGED <<messages, agentState, console, temps, pipe, sends, missed, odd, outages>>
    BY <1>8 DEF ServeHistory
  <2> QED BY <1>1, <2>1, <2>2 DEF ConsoleTypeOK
<1>9. CASE LoadConversations
  <2>1. page' \in Pages
    <3>1. page.shown \cup 1 .. page.to \in SUBSET Nat /\ (IF page.to = 0 THEN page.last ELSE page.to) \in Nat
      BY <1>2
    <3> QED BY <1>2, <1>9, <3>1, PageMoves DEF Pages
  <2>2. UNCHANGED <<messages, agentState, console, pipe, sends, missed, odd, outages>> /\ temps' \in Seq(Temps)
    BY <1>4, <1>9 DEF LoadConversations
  <2> QED BY <1>1, <2>1, <2>2 DEF ConsoleTypeOK
<1>10. CASE HistoryFails
  <2>1. page' \in Pages
    BY <1>2, <1>10, PageMoves DEF Pages
  <2>2. missed' \in SUBSET Nat
    <3>1. 1 .. console.last \ InPipe \subseteq Nat
      BY <1>2
    <3> QED BY <1>10, <3>1, MissesType DEF HistoryFails
  <2>3. UNCHANGED <<messages, agentState, console, temps, pipe, sends, odd>> /\ outages' \in Nat
    BY <1>1, <1>3, <1>10 DEF HistoryFails
  <2> QED BY <1>1, <2>1, <2>2, <2>3 DEF ConsoleTypeOK
<1>11. CASE Connects
  <2>1. page' \in Pages
    BY <1>2, <1>11, PageMoves DEF Pages
  <2>2. pipe' \in Seq(Frames)
    <3>1. Frame("status", {}, 0, agentState) \in Frames
      BY <1>1, FrameType
    <3> QED BY <1>11, <3>1 DEF Connects
  <2>3. odd' \in [crossed : BOOLEAN, again : BOOLEAN, state : BOOLEAN]
    BY <1>1, <1>11 DEF Connects
  <2>4. UNCHANGED <<messages, agentState, console, temps, sends, missed, outages>>
    BY <1>11 DEF Connects
  <2> QED BY <1>1, <2>1, <2>2, <2>3, <2>4 DEF ConsoleTypeOK
<1>12. CASE ConnectFails
  <2>1. page' \in Pages /\ missed' \in SUBSET Nat /\ outages' \in Nat
    BY <1>1, <1>3, <1>6, <1>12 DEF ConnectFails
  <2>2. UNCHANGED <<messages, agentState, console, temps, pipe, sends, odd>>
    BY <1>12 DEF ConnectFails
  <2> QED BY <1>1, <2>1, <2>2 DEF ConsoleTypeOK
<1>13. CASE LinkDrops
  <2>1. page' \in Pages /\ pipe' \in Seq(Frames) /\ outages' \in Nat
    BY <1>3, <1>6, <1>7, <1>13 DEF LinkDrops
  <2>2. missed' \in SUBSET Nat
    <3>1. Unheard \subseteq Nat
      BY <1>5 DEF Unheard
    <3> QED BY <1>13, <3>1, MissesType DEF LinkDrops
  <2>3. sends' \in [Sends -> OnTheWay]
    BY <1>13, CutOffIs DEF GoesOn, LinkDrops
  <2>4. UNCHANGED <<messages, agentState, console, temps, odd>>
    BY <1>13 DEF LinkDrops
  <2> QED BY <1>1, <2>1, <2>2, <2>3, <2>4 DEF ConsoleTypeOK
<1>14. CASE Receives
  <2> DEFINE frame == Head(pipe)
  <2>1. frame \in Frames /\ pipe' \in Seq(Frames)
    BY <1>14, ReceivesIs
  <2>2. UNCHANGED <<messages, agentState, console, sends, missed, odd, outages>>
    BY <1>14 DEF Receives
  <2>3. \/ /\ frame.kind = "status" /\ temps' = temps
           /\ page' = [link |-> page.link, tries |-> page.tries, load |-> page.load, to |-> page.to,
                       last |-> page.last, shown |-> page.shown, status |-> frame.state]
        \/ /\ frame.kind = "messages" /\ temps' = AddMessages(frame.ids)
           /\ \E r \in frame.ids :
                page' = [link |-> page.link, tries |-> page.tries, load |-> page.load, to |-> page.to,
                         last |-> r, shown |-> page.shown \cup frame.ids, status |-> page.status]
        \/ frame.kind = "failed" /\ temps' = Mark(frame.n, "failed") /\ page' = page
    BY <1>14, ReceivesIs
  <2> HIDE DEF frame
  <2>4. frame.ids \subseteq Nat /\ frame.state \in States \cup {"none"}
    BY <2>1 DEF Frames
  <2>5. page' \in Pages
    BY <1>1, <1>2, <2>3, <2>4 DEF Pages
  <2>6. temps' \in Seq(Temps)
    BY <1>1, <1>4, <2>3, MarkType
  <2> QED BY <1>1, <2>1, <2>2, <2>5, <2>6 DEF ConsoleTypeOK
<1>15. CASE PollMessages
  <2>1. page' \in Pages
    <3>1. page.shown \cup (page.last + 1 .. Len(messages)) \in SUBSET Nat
      BY <1>2
    <3> QED BY <1>2, <1>15, <3>1, PageMoves DEF Pages
  <2>2. UNCHANGED <<messages, agentState, console, pipe, sends, missed, odd, outages>> /\ temps' \in Seq(Temps)
    BY <1>4, <1>15 DEF PollMessages
  <2> QED BY <1>1, <2>1, <2>2 DEF ConsoleTypeOK
<1>16. CASE UpdateStatusViaHttp
  <2>1. page' \in Pages
    BY <1>1, <1>2, <1>16, PageMoves DEF Pages
  <2>2. UNCHANGED <<messages, agentState, console, temps, pipe, sends, missed, odd, outages>>
    BY <1>16 DEF UpdateStatusViaHttp
  <2> QED BY <1>1, <2>1, <2>2 DEF ConsoleTypeOK
<1>17. ASSUME NEW n \in Sends, NEW text \in Texts, NEW files \in BOOLEAN, HandleSubmit(n, text, files)
       PROVE  ConsoleTypeOK'
  <2>1. temps' \in Seq(Temps)
    <3>1. [n |-> n, text |-> text, files |-> files, at |-> "sending"] \in Temps
      BY <1>17 DEF Temps
    <3> QED BY <1>1, <1>17, <3>1 DEF HandleSubmit
  <2>2. sends' \in [Sends -> OnTheWay]
    <3>1. [at |-> "wire", text |-> text, files |-> files,
           via |-> IF page.link = "open" THEN "ws" ELSE "http"] \in OnTheWay
      BY <1>17 DEF OnTheWay
    <3> QED BY <1>1, <1>17, <3>1 DEF HandleSubmit
  <2>3. odd' \in [crossed : BOOLEAN, again : BOOLEAN, state : BOOLEAN]
    <3> DEFINE c == \/ odd.crossed
                    \/ files /\ \E m \in Earlier(n): sends[m].files /\ Underway(m)
                    \/ files /\ \E i \in DOMAIN temps: temps[i].files /\ temps[i].at = "sending"
                    \/ \E m \in Earlier(n): sends[m].text = text /\ (files \/ sends[m].files)
                    \/ \E r \in Unshown: messages[r].text = text \/ (files /\ messages[r].files)
               a == odd.again \/ \E m \in Earlier(n): sends[m].text = text
    <3>1. odd' = [odd EXCEPT !.crossed = c, !.again = a]
      BY <1>17 DEF HandleSubmit
    <3>2. c \in BOOLEAN /\ a \in BOOLEAN
      OBVIOUS
    <3> HIDE DEF c, a
    <3> QED BY <1>1, <3>1, <3>2
  <2>4. UNCHANGED <<messages, agentState, console, page, pipe, missed, outages>>
    BY <1>17 DEF HandleSubmit
  <2> QED BY <1>1, <2>1, <2>2, <2>3, <2>4 DEF ConsoleTypeOK
<1>18. ASSUME NEW n \in Sends, SendConsoleMessage(n) PROVE ConsoleTypeOK'
  <2>1. sends' \in [Sends -> OnTheWay]
    BY <1>1, <1>18 DEF SendConsoleMessage, OnTheWay
  <2>2. UNCHANGED <<messages, agentState, console, page, temps, pipe, missed, odd, outages>>
    BY <1>18 DEF SendConsoleMessage
  <2> QED BY <1>1, <2>1, <2>2 DEF ConsoleTypeOK
<1>19. ASSUME NEW n \in Sends, NEW ok \in BOOLEAN, Answer(n, ok), sends[n].at # "no",
              UNCHANGED <<messages, agentState, console, page, missed, odd, outages>>
       PROVE  ConsoleTypeOK'
  <2>1. sends' \in [Sends -> OnTheWay] /\ temps' \in Seq(Temps) /\ pipe' \in Seq(Frames)
    BY <1>19, AnswerIs DEF GoesOn, Remarked
  <2> QED BY <1>1, <1>19, <2>1 DEF ConsoleTypeOK
<1>20. ASSUME NEW n \in Sends, Refuse(n) PROVE ConsoleTypeOK'
  BY <1>19, <1>20 DEF Refuse
<1>21. ASSUME NEW n \in Sends, NEW ok \in BOOLEAN, ChildEnds(n, ok) PROVE ConsoleTypeOK'
  BY <1>19, <1>21 DEF ChildEnds
<1>22. ASSUME NEW n \in Sends, ChildStores(n) PROVE ConsoleTypeOK'
  <2>1. sends' \in [Sends -> OnTheWay]
    <3>1. [sends[n] EXCEPT !.at = "stored"] \in OnTheWay
      BY <1>1, <1>22 DEF OnTheWay
    <3>2. sends' = [sends EXCEPT ![n] = [sends[n] EXCEPT !.at = "stored"]]
      BY <1>22 DEF ChildStores
    <3> QED BY <1>1, <3>1, <3>2
  <2>2. messages' \in Seq(Messages)
    <3>1. sends[n] \in OnTheWay /\ n \in Nat
      BY <1>1, <1>22, ConsoleConstants
    <3>2. Message("in", sends[n].text, sends[n].files, n) \in Messages
      BY <3>1 DEF Message, Messages, OnTheWay
    <3> QED BY <1>1, <1>22, <3>2 DEF ChildStores
  <2>3. UNCHANGED <<agentState, console, page, temps, pipe, missed, odd, outages>>
    BY <1>22 DEF ChildStores
  <2> QED BY <1>1, <2>1, <2>2, <2>3 DEF ConsoleTypeOK
<1>23. CASE CheckUpdates
  <2>1. console' = [up |-> console.up, last |-> Len(messages), status |-> agentState] /\ pipe' \in Seq(Frames)
    BY <1>23, CheckUpdatesIs
  <2>2. missed' \in SUBSET Nat
    <3>1. console.last + 1 .. Len(messages) \subseteq Nat
      BY <1>2
    <3>2. Announced(console.last + 1 .. Len(messages)) \subseteq Nat
      <4>1. (console.last + 1 .. Len(messages)) \ 1 .. page.to \subseteq Nat
        BY <3>1
      <4> QED BY <1>1, <4>1, MissesType DEF Announced
    <3> QED BY <1>23, <3>2 DEF CheckUpdates
  <2>3. odd' \in [crossed : BOOLEAN, again : BOOLEAN, state : BOOLEAN]
    BY <1>1, <1>23 DEF CheckUpdates
  <2>4. UNCHANGED <<messages, agentState, page, temps, sends, outages>>
    BY <1>23 DEF CheckUpdates
  <2> QED BY <1>1, <1>2, <2>1, <2>2, <2>3, <2>4 DEF ConsoleTypeOK
<1>24. CASE ServerDies
  <2>1. console' \in [up : BOOLEAN, last : Nat, status : States \cup {"none"}] /\ outages' \in Nat
    BY <1>1, <1>3, <1>24 DEF ServerDies
  <2>2. sends' \in [Sends -> OnTheWay] /\ temps' \in Seq(Temps)
    BY <1>24, ServerDiesIs DEF GoesOn, Remarked
  <2>3. page' \in Pages /\ pipe' \in Seq(Frames)
    BY <1>1, <1>6, <1>7, <1>24 DEF ServerDies
  <2>4. missed' \in SUBSET Nat
    <3>1. Unheard \subseteq Nat
      BY <1>5 DEF Unheard
    <3>2. Misses(Unheard) \subseteq Nat
      BY <3>1, MissesType
    <3>3. missed' = missed \/ missed' = Misses(Unheard)
      BY <1>24 DEF ServerDies
    <3> QED BY <1>1, <3>2, <3>3
  <2>5. UNCHANGED <<messages, agentState, odd>>
    BY <1>24 DEF ServerDies
  <2> QED BY <1>1, <2>1, <2>2, <2>3, <2>4, <2>5 DEF ConsoleTypeOK
<1>25. CASE ServerStarts
  <2>1. console' = [up |-> TRUE, last |-> Len(messages), status |-> "none"]
    BY <1>25 DEF ServerStarts
  <2>2. missed' \in SUBSET Nat
    <3>1. NewMessages \ 1 .. page.to \subseteq Nat
      BY <1>2 DEF NewMessages
    <3> QED BY <1>1, <1>25, <3>1, MissesType DEF ServerStarts, Announced
  <2>3. UNCHANGED <<messages, agentState, page, temps, pipe, sends, odd, outages>>
    BY <1>25 DEF ServerStarts
  <2> QED BY <1>1, <1>2, <2>1, <2>2, <2>3 DEF ConsoleTypeOK
<1>26. CASE AgentReplies
  <2>1. messages' \in Seq(Messages)
    <3>1. Message("out", "none", FALSE, 0) \in Messages
      BY DEF Message, Messages
    <3>2. \A m \in Messages : Append(messages, m) \in Seq(Messages)
      BY <1>1
    <3>3. messages' = Append(messages, Message("out", "none", FALSE, 0))
      BY <1>26 DEF AgentReplies
    <3> QED BY <3>1, <3>2, <3>3
  <2>2. UNCHANGED <<agentState, console, page, temps, pipe, sends, missed, odd, outages>>
    BY <1>26 DEF AgentReplies
  <2> QED BY <1>1, <2>1, <2>2 DEF ConsoleTypeOK
<1>27. CASE StateChanges
  <2>1. agentState' \in States
    BY <1>27 DEF StateChanges
  <2>2. UNCHANGED <<messages, console, page, temps, pipe, sends, missed, odd, outages>>
    BY <1>27 DEF StateChanges
  <2> QED BY <1>1, <2>1, <2>2 DEF ConsoleTypeOK
<1> QED BY <1>8, <1>9, <1>10, <1>11, <1>12, <1>13, <1>14, <1>15, <1>16, <1>17, <1>18, <1>20, <1>21, <1>22,
            <1>23, <1>24, <1>25, <1>26, <1>27 DEF ConsoleNext

LEMMA InPipeIs == \A r : r \in InPipe <=> \E i \in DOMAIN pipe : r \in pipe[i].ids
  BY DEF InPipe

LEMMA PipeRowsKnown ==
  ASSUME KnownRows
  PROVE  InPipe \subseteq 1 .. console.last
  BY InPipeIs DEF KnownRows

LEMMA MissesIs ==
  ASSUME NEW ids
  PROVE  /\ missed \subseteq Misses(ids) /\ Misses(ids) \subseteq missed \cup (ids \ page.shown)
         /\ \A r \in ids \ page.shown : page.link # "polling" \/ r <= page.last => r \in Misses(ids)
  BY DEF Misses

LEMMA AnnouncedIs ==
  ASSUME NEW ids
  PROVE  /\ missed \subseteq Announced(ids) /\ Announced(ids) \subseteq missed \cup (ids \ page.shown)
         /\ page.link = "open" => Announced(ids) = missed
         /\ page.link # "open" /\ page.load # "asked" =>
              \A r \in (ids \ 1 .. page.to) \ page.shown :
                page.link # "polling" \/ r <= page.last => r \in Announced(ids)
<1>1. CASE page.link = "open" \/ page.load = "asked"
  BY <1>1 DEF Announced
<1>2. CASE ~(page.link = "open" \/ page.load = "asked")
  <2>1. Announced(ids) = Misses(ids \ 1 .. page.to)
    BY <1>2 DEF Announced
  <2>2. /\ missed \subseteq Misses(ids \ 1 .. page.to)
        /\ Misses(ids \ 1 .. page.to) \subseteq missed \cup ((ids \ 1 .. page.to) \ page.shown)
        /\ \A r \in (ids \ 1 .. page.to) \ page.shown :
             page.link # "polling" \/ r <= page.last => r \in Misses(ids \ 1 .. page.to)
    BY MissesIs
  <2> QED BY <1>2, <2>1, <2>2
<1> QED BY <1>1, <1>2

\* Steps in which only messages are added, and sends go on.
LEMMA KnownWithMore ==
  ASSUME ConsoleTypeOK, KnownRows, UNCHANGED <<console, page, missed>>, Len(messages') \in Nat,
         Len(messages) <= Len(messages'), sends' \in [Sends -> OnTheWay],
         \A n \in Sends : sends'[n].via = "ws" => sends[n].via = "ws" \/ page.link = "open",
         \/ pipe' = pipe
         \/ page.link = "open" /\ \E n : pipe' = Append(pipe, Frame("failed", {}, n, "none"))
  PROVE  KnownRows'
<1>1. /\ Len(messages) \in Nat /\ console.last \in Nat /\ page.last \in Nat /\ page.to \in Nat
      /\ pipe \in Seq(Frames) /\ Len(pipe) \in Nat /\ DOMAIN pipe = 1 .. Len(pipe)
  BY ConsoleFields, PageFields DEF ConsoleTypeOK
<1>2. 1 .. Len(messages) \subseteq 1 .. Len(messages')
  BY <1>1
<1>3. /\ console'.last <= Len(messages') /\ page'.last <= Len(messages') /\ page'.to <= Len(messages')
      /\ page'.shown \subseteq 1 .. Len(messages') /\ missed' \subseteq 1 .. Len(messages')
  <2>1. /\ console.last <= Len(messages) /\ page.last <= Len(messages) /\ page.to <= Len(messages)
        /\ page.shown \subseteq 1 .. Len(messages) /\ missed \subseteq 1 .. Len(messages)
    BY DEF KnownRows
  <2> QED BY <1>1, <1>2, <2>1
<1>4. \A i \in DOMAIN pipe' : /\ pipe'[i].ids \subseteq 1 .. console'.last
                              /\ pipe'[i].kind = "messages" =>
                                   \E r \in pipe'[i].ids : \A o \in pipe'[i].ids : o <= r
                              /\ pipe'[i].kind # "messages" => pipe'[i].ids = {}
  <2>1. \A i \in DOMAIN pipe : /\ pipe[i].ids \subseteq 1 .. console'.last
                               /\ pipe[i].kind = "messages" =>
                                    \E r \in pipe[i].ids : \A o \in pipe[i].ids : o <= r
                               /\ pipe[i].kind # "messages" => pipe[i].ids = {}
    BY DEF KnownRows
  <2>2. ASSUME NEW n, pipe' = Append(pipe, Frame("failed", {}, n, "none")), NEW i \in DOMAIN pipe'
        PROVE  /\ pipe'[i].ids \subseteq 1 .. console'.last
               /\ pipe'[i].kind = "messages" => \E r \in pipe'[i].ids : \A o \in pipe'[i].ids : o <= r
               /\ pipe'[i].kind # "messages" => pipe'[i].ids = {}
    <3> DEFINE f == Frame("failed", {}, n, "none")
    <3>1. f.ids = {} /\ f.kind = "failed"
      BY DEF Frame
    <3> HIDE DEF f
    <3>2. (i \in DOMAIN pipe /\ pipe'[i] = pipe[i]) \/ pipe'[i] = f
      <4>1. \A m \in Nat : \A j \in 1 .. m + 1 : j \in 1 .. m \/ j = m + 1
        OBVIOUS
      <4>2. pipe' = Append(pipe, f)
        BY <2>2 DEF f
      <4>3. /\ DOMAIN Append(pipe, f) = 1 .. Len(pipe) + 1 /\ Append(pipe, f)[Len(pipe) + 1] = f
            /\ \A j \in 1 .. Len(pipe) : Append(pipe, f)[j] = pipe[j]
        <5>1. \A x : /\ DOMAIN Append(pipe, x) = 1 .. Len(pipe) + 1 /\ Append(pipe, x)[Len(pipe) + 1] = x
                     /\ \A j \in 1 .. Len(pipe) : Append(pipe, x)[j] = pipe[j]
          BY <1>1
        <5> QED BY <5>1
      <4>4. i \in 1 .. Len(pipe) \/ i = Len(pipe) + 1
        BY <1>1, <2>2, <4>1, <4>2, <4>3
      <4> QED BY <1>1, <4>2, <4>3, <4>4
    <3> QED BY <2>1, <3>1, <3>2
  <2> QED BY <2>1, <2>2
<1>5. page'.link # "open" => pipe' = <<>>
  BY DEF KnownRows
<1>6. /\ page'.link = "open" => console'.up
      /\ \A n \in Sends : sends'[n].via = "ws" => page'.link = "open"
      /\ page'.load = "done" => 1 .. page'.to \subseteq page'.shown
      /\ page'.load \in {"asked", "failed"} => page'.to = 0
  BY DEF KnownRows
<1> QED BY <1>3, <1>4, <1>5, <1>6 DEF KnownRows

\* Steps in which a connection is lost or the page not connected.
LEMMA KnownWithout ==
  ASSUME ConsoleTypeOK, KnownRows, messages' = messages, page' \in Pages,
         page'.link # "open", pipe' = <<>>,
         page'.load = page.load, page'.to = page.to, page'.last = page.last, page'.shown = page.shown,
         console'.last = console.last \/ console'.last = Len(messages),
         missed' \subseteq 1 .. Len(messages), \A n \in Sends : sends'[n].via # "ws"
  PROVE  KnownRows'
<1>1. Len(messages) \in Nat /\ DOMAIN pipe' = {}
  BY ConsoleFields
<1>2. /\ console'.last <= Len(messages') /\ page'.last <= Len(messages') /\ page'.to <= Len(messages')
      /\ page'.shown \subseteq 1 .. Len(messages') /\ missed' \subseteq 1 .. Len(messages')
  BY <1>1 DEF KnownRows
<1>3. /\ page'.load = "done" => 1 .. page'.to \subseteq page'.shown
      /\ page'.load \in {"asked", "failed"} => page'.to = 0
  BY DEF KnownRows
<1> QED BY <1>1, <1>2, <1>3 DEF KnownRows

LEMMA KnownStep ==
  ASSUME ConsoleTypeOK, KnownRows, ConsoleNext, ConsoleTypeOK'
  PROVE  KnownRows'
<1>1. /\ Len(messages) \in Nat /\ page.to \in Nat /\ page.last \in Nat /\ page.shown \subseteq Nat
      /\ console.last \in Nat /\ page \in Pages /\ page' \in Pages /\ pipe \in Seq(Frames)
      /\ sends \in [Sends -> OnTheWay] /\ sends' \in [Sends -> OnTheWay]
      /\ messages \in Seq(Messages) /\ Len(messages') \in Nat
  <2>1. messages' \in Seq(Messages) /\ page' \in Pages /\ sends' \in [Sends -> OnTheWay]
    BY DEF ConsoleTypeOK
  <2> QED BY SMTT(30), <2>1, PageFields, ConsoleFields DEF ConsoleTypeOK
<1>2. /\ console.last <= Len(messages) /\ page.last <= Len(messages) /\ page.to <= Len(messages)
      /\ page.shown \subseteq 1 .. Len(messages) /\ missed \subseteq 1 .. Len(messages)
  BY DEF KnownRows
<1>3. /\ \A i \in DOMAIN pipe : /\ pipe[i].ids \subseteq 1 .. console.last
                                /\ pipe[i].kind = "messages" =>
                                     \E r \in pipe[i].ids : \A o \in pipe[i].ids : o <= r
                                /\ pipe[i].kind # "messages" => pipe[i].ids = {}
      /\ page.link # "open" => pipe = <<>>
      /\ page.link = "open" => console.up
      /\ \A n \in Sends : sends[n].via = "ws" => page.link = "open"
      /\ page.load = "done" => 1 .. page.to \subseteq page.shown
      /\ page.load \in {"asked", "failed"} => page.to = 0
  BY DEF KnownRows
<1>4. CASE ServeHistory
  <2>1. UNCHANGED <<messages, agentState, console, temps, pipe, sends, missed, odd, outages>>
    BY <1>4 DEF ServeHistory
  <2>2. /\ page'.link = page.link /\ page'.load = "read" /\ page'.to = Len(messages)
        /\ page'.last = page.last /\ page'.shown = page.shown
    BY <1>4, PageMoves
  <2> QED BY <1>1, <1>2, <1>3, <2>1, <2>2 DEF KnownRows
<1>5. CASE LoadConversations
  <2>1. UNCHANGED <<messages, agentState, console, pipe, sends, missed, odd, outages>>
    BY <1>5 DEF LoadConversations
  <2>2. /\ page'.link = page.link /\ page'.load = "done" /\ page'.to = page.to
        /\ page'.last = (IF page.to = 0 THEN page.last ELSE page.to)
        /\ page'.shown = page.shown \cup 1 .. page.to
    BY <1>5, PageMoves
  <2>3. page'.shown \subseteq 1 .. Len(messages)
    BY <1>1, <1>2, <2>2
  <2> QED BY <1>1, <1>2, <1>3, <2>1, <2>2, <2>3 DEF KnownRows
<1>6. CASE HistoryFails
  <2>1. UNCHANGED <<messages, agentState, console, temps, pipe, sends, odd>>
    BY <1>6 DEF HistoryFails
  <2>2. /\ page'.link = page.link /\ page'.load = "failed" /\ page'.to = page.to
        /\ page'.last = page.last /\ page'.shown = page.shown /\ page.load = "asked"
    BY <1>6, PageMoves DEF HistoryFails
  <2>3. missed' \subseteq 1 .. Len(messages)
    <3>1. missed' \subseteq missed \cup (1 .. console.last)
      BY <1>6, MissesIs DEF HistoryFails
    <3>2. 1 .. console.last \subseteq 1 .. Len(messages)
      BY <1>1, <1>2
    <3> QED BY <1>2, <3>1, <3>2
  <2> QED BY <1>1, <1>2, <1>3, <2>1, <2>2, <2>3 DEF KnownRows
<1>7. CASE Connects
  <2>1. UNCHANGED <<messages, agentState, console, temps, sends, missed, outages>> /\ console.up
    BY <1>7 DEF Connects
  <2>2. /\ page'.link = "open" /\ page'.load = page.load /\ page'.to = page.to
        /\ page'.last = page.last /\ page'.shown = page.shown
    BY <1>7, PageMoves
  <2>3. \A i \in DOMAIN pipe' : pipe'[i].ids = {} /\ pipe'[i].kind = "status"
    BY <1>7 DEF Connects, Frame
  <2> QED BY <1>1, <1>2, <1>3, <2>1, <2>2, <2>3 DEF KnownRows
<1>8. CASE ConnectFails
  <2>1. UNCHANGED <<messages, agentState, console, temps, pipe, sends, odd>> /\ page.link = "closed"
        /\ page' = Reconnecting /\ missed' \subseteq missed
    BY <1>8 DEF ConnectFails
  <2>2. \A n \in Sends : sends'[n].via # "ws"
    BY <1>3, <2>1
  <2> QED BY <1>1, <1>2, <1>3, <2>1, <2>2, ReconnectingIs, KnownWithout
<1>10. Misses(Unheard) \subseteq 1 .. Len(messages)
  <2>1. Unheard \subseteq 1 .. console.last
    BY PipeRowsKnown DEF Unheard
  <2>2. 1 .. console.last \subseteq 1 .. Len(messages)
    BY <1>1, <1>2
  <2>3. Misses(Unheard) \subseteq missed \cup (Unheard \ page.shown)
    BY MissesIs
  <2> QED BY <1>2, <2>1, <2>2, <2>3
<1>11. CASE LinkDrops
  <2>1. /\ messages' = messages /\ page' = Reconnecting /\ pipe' = <<>> /\ console' = console
        /\ missed' = Misses(Unheard) /\ sends' = [n \in Sends |-> CutOff(sends[n])]
    BY <1>11 DEF LinkDrops
  <2>2. \A n \in Sends : sends'[n].via # "ws"
    <3>1. \A n \in Sends : sends'[n] = CutOff(sends[n]) /\ sends[n] \in OnTheWay
      BY <1>1, <2>1
    <3> QED BY <3>1, CutOffType
  <2> QED BY <1>1, <1>10, <2>1, <2>2, ReconnectingIs, KnownWithout
<1>12. CASE Receives
  <2> DEFINE frame == Head(pipe)
  <2>1. UNCHANGED <<messages, agentState, console, sends, missed, odd, outages>>
    BY <1>12 DEF Receives
  <2>2. /\ page.link = "open" /\ Len(pipe') = Len(pipe) - 1 /\ pipe' \in Seq(Frames)
        /\ \A i \in 1 .. Len(pipe) - 1 : pipe'[i] = pipe[i + 1]
        /\ frame.ids \subseteq 1 .. console.last
    BY <1>12, ReceivesIs
  <2>3. /\ page'.link = page.link /\ page'.load = page.load /\ page'.to = page.to
        /\ page'.last = page.last \/ page'.last \in frame.ids
        /\ page.shown \subseteq page'.shown /\ page'.shown \subseteq page.shown \cup frame.ids
    BY <1>12, ReceivesIs
  <2> HIDE DEF frame
  <2>4. frame.ids \subseteq 1 .. Len(messages)
    BY <1>1, <1>2, <2>2
  <2>5. /\ page'.last <= Len(messages') /\ page'.shown \subseteq 1 .. Len(messages')
    BY <1>1, <1>2, <2>1, <2>3, <2>4
  <2>6. \A i \in DOMAIN pipe' : /\ pipe'[i].ids \subseteq 1 .. console'.last
                                /\ pipe'[i].kind = "messages" =>
                                     \E r \in pipe'[i].ids : \A o \in pipe'[i].ids : o <= r
                                /\ pipe'[i].kind # "messages" => pipe'[i].ids = {}
    <3>1. \A i \in DOMAIN pipe' : i + 1 \in DOMAIN pipe /\ pipe'[i] = pipe[i + 1]
      BY <1>1, <2>2
    <3> QED BY <1>3, <2>1, <3>1
  <2>7. page'.load = "done" => 1 .. page'.to \subseteq page'.shown
    BY <1>3, <2>3
  <2> QED BY <1>2, <1>3, <2>1, <2>2, <2>3, <2>5, <2>6, <2>7 DEF KnownRows
<1>13. CASE PollMessages
  <2>1. UNCHANGED <<messages, agentState, console, pipe, sends, missed, odd, outages>>
    BY <1>13 DEF PollMessages
  <2>2. /\ page'.link = page.link /\ page'.load = page.load /\ page'.to = page.to
        /\ page'.last = Len(messages) /\ page'.shown = page.shown \cup (page.last + 1 .. Len(messages))
    BY <1>13, PageMoves
  <2>3. page'.shown \subseteq 1 .. Len(messages)
    BY <1>1, <1>2, <2>2
  <2> QED BY <1>1, <1>2, <1>3, <2>1, <2>2, <2>3 DEF KnownRows
<1>14. CASE UpdateStatusViaHttp
  <2>1. UNCHANGED <<messages, agentState, console, temps, pipe, sends, missed, odd, outages>>
    BY <1>14 DEF UpdateStatusViaHttp
  <2>2. /\ page'.link = page.link /\ page'.load = page.load /\ page'.to = page.to
        /\ page'.last = page.last /\ page'.shown = page.shown
    BY <1>14, PageMoves
  <2> QED BY <1>1, <1>2, <1>3, <2>1, <2>2 DEF KnownRows
<1>15. ASSUME NEW n \in Sends, NEW text \in Texts, NEW files \in BOOLEAN, HandleSubmit(n, text, files)
       PROVE  KnownRows'
  <2>1. UNCHANGED <<messages, agentState, console, page, pipe, missed, outages>>
    BY <1>15 DEF HandleSubmit
  <2>2. \A m \in Sends : sends'[m].via = "ws" => sends[m].via = "ws" \/ page.link = "open"
    BY <1>1, <1>15 DEF HandleSubmit
  <2> QED BY <1>1, <2>1, <2>2, KnownWithMore
<1>16. ASSUME NEW n \in Sends, SendConsoleMessage(n) PROVE KnownRows'
  <2>1. UNCHANGED <<messages, agentState, console, page, temps, pipe, missed, odd, outages>>
    BY <1>16 DEF SendConsoleMessage
  <2>2. \A m \in Sends : sends'[m].via = "ws" => sends[m].via = "ws" \/ page.link = "open"
    BY <1>1, <1>16 DEF SendConsoleMessage, OnTheWay
  <2> QED BY <1>1, <2>1, <2>2, KnownWithMore
<1>17. ASSUME NEW n \in Sends, NEW ok \in BOOLEAN, Answer(n, ok), sends[n].at # "no",
              UNCHANGED <<messages, agentState, console, page, missed, odd, outages>>
       PROVE  KnownRows'
  <2>1. /\ sends'[n].via = sends[n].via /\ \A m \in Sends : m # n => sends'[m] = sends[m]
        /\ pipe' = IF sends[n].via = "ws" /\ ~ok THEN Append(pipe, Frame("failed", {}, n, "none")) ELSE pipe
    BY <1>17, AnswerIs
  <2>2. \A m \in Sends : sends'[m].via = "ws" => sends[m].via = "ws" \/ page.link = "open"
    BY <2>1
  <2>3. \/ pipe' = pipe
        \/ page.link = "open" /\ \E m : pipe' = Append(pipe, Frame("failed", {}, m, "none"))
    BY <1>3, <2>1
  <2> QED BY <1>1, <1>17, <2>2, <2>3, KnownWithMore
<1>18. ASSUME NEW n \in Sends, Refuse(n) PROVE KnownRows'
  BY <1>17, <1>18 DEF Refuse
<1>19. ASSUME NEW n \in Sends, NEW ok \in BOOLEAN, ChildEnds(n, ok) PROVE KnownRows'
  BY <1>17, <1>19 DEF ChildEnds
<1>20. ASSUME NEW n \in Sends, ChildStores(n) PROVE KnownRows'
  <2>1. UNCHANGED <<agentState, console, page, temps, pipe, missed, odd, outages>>
        /\ messages' = Append(messages, Message("in", sends[n].text, sends[n].files, n))
    BY <1>20 DEF ChildStores
  <2>2. Len(messages) <= Len(messages')
    BY <1>1, <2>1
  <2>3. \A m \in Sends : sends'[m].via = "ws" => sends[m].via = "ws" \/ page.link = "open"
    BY <1>1, <1>20 DEF ChildStores, OnTheWay
  <2> QED BY <1>1, <2>1, <2>2, <2>3, KnownWithMore
<1>21. CASE CheckUpdates
  <2> DEFINE new == console.last + 1 .. Len(messages)
             told == IF agentState = console.status THEN <<>> ELSE <<Frame("status", {}, 0, agentState)>>
             added == IF new = {} THEN <<>> ELSE <<Frame("messages", new, 0, "none")>>
  <2>1. UNCHANGED <<messages, agentState, page, temps, sends, outages>> /\ missed' = Announced(new)
    BY <1>21 DEF CheckUpdates
  <2>2. /\ console' = [up |-> console.up, last |-> Len(messages), status |-> agentState] /\ console.up
        /\ page.link # "open" => pipe' = pipe
        /\ page.link = "open" => pipe' = pipe \o told \o added
    BY <1>21, CheckUpdatesIs
  <2>3. missed' \subseteq 1 .. Len(messages)
    <3>1. Announced(new) \subseteq missed \cup (new \ page.shown)
      BY AnnouncedIs
    <3>2. new \subseteq 1 .. Len(messages)
      BY <1>1
    <3> HIDE DEF new
    <3> QED BY <1>2, <2>1, <3>1, <3>2
  <2>4. \A i \in DOMAIN pipe' : /\ pipe'[i].ids \subseteq 1 .. console'.last
                                /\ pipe'[i].kind = "messages" =>
                                     \E r \in pipe'[i].ids : \A o \in pipe'[i].ids : o <= r
                                /\ pipe'[i].kind # "messages" => pipe'[i].ids = {}
    <3>1. new \subseteq 1 .. Len(messages) /\ (new # {} => Len(messages) \in new /\ \A o \in new : o <= Len(messages))
      BY <1>1, <1>2
    <3>2. 1 .. console.last \subseteq 1 .. Len(messages) /\ console'.last = Len(messages)
      BY <1>1, <1>2, <2>2
    <3>3. \A i \in DOMAIN pipe : /\ pipe[i].ids \subseteq 1 .. console'.last
                                 /\ pipe[i].kind = "messages" =>
                                      \E r \in pipe[i].ids : \A o \in pipe[i].ids : o <= r
                                 /\ pipe[i].kind # "messages" => pipe[i].ids = {}
      BY <1>3, <3>2
    <3>4. CASE page.link = "open"
      <4> HIDE DEF new
      <4>1. \A i \in DOMAIN told : told[i].ids = {} /\ told[i].kind = "status"
        BY DEF Frame
      <4>2. \A i \in DOMAIN added : added[i].ids = new /\ new # {} /\ added[i].kind = "messages"
        BY DEF Frame
      <4>3. told \in Seq(Frames) /\ added \in Seq(Frames)
        <5>1. Frame("status", {}, 0, agentState) \in Frames
          BY FrameType DEF ConsoleTypeOK
        <5>2. Frame("messages", new, 0, "none") \in Frames
          BY <3>1, FrameType
        <5> QED BY <5>1, <5>2
      <4> HIDE DEF told, added
      <4>4. \A i \in DOMAIN pipe' : \/ \E j \in DOMAIN pipe : pipe'[i] = pipe[j]
                                    \/ \E j \in DOMAIN told : pipe'[i] = told[j]
                                    \/ \E j \in DOMAIN added : pipe'[i] = added[j]
        <5>1. \A s, t \in Seq(Frames) : s \o t \in Seq(Frames) /\
                \A i \in DOMAIN (s \o t) : (\E j \in DOMAIN s : (s \o t)[i] = s[j]) \/ (\E j \in DOMAIN t : (s \o t)[i] = t[j])
          <6> TAKE s, t \in Seq(Frames)
          <6>1. s \o t \in Seq(Frames) /\ DOMAIN (s \o t) = 1 .. Len(s) + Len(t) /\ DOMAIN s = 1 .. Len(s)
                /\ DOMAIN t = 1 .. Len(t) /\ Len(s) \in Nat /\ Len(t) \in Nat
            OBVIOUS
          <6>2. \A i \in 1 .. Len(s) + Len(t) : (s \o t)[i] = IF i <= Len(s) THEN s[i] ELSE t[i - Len(s)]
            BY ConcatProperties
          <6>3. \A a, b \in Nat : \A i \in 1 .. a + b : IF i <= a THEN i \in 1 .. a ELSE i - a \in 1 .. b
            OBVIOUS
          <6>4. \A i \in 1 .. Len(s) + Len(t) : IF i <= Len(s) THEN i \in DOMAIN s ELSE i - Len(s) \in DOMAIN t
            BY <6>1, <6>3
          <6> QED BY <6>1, <6>2, <6>4
        <5> DEFINE first == pipe \o told
        <5>2. first \in Seq(Frames) /\ \A i \in DOMAIN first : (\E j \in DOMAIN pipe : first[i] = pipe[j])
                                                            \/ (\E j \in DOMAIN told : first[i] = told[j])
          BY <1>1, <4>3, <5>1
        <5> HIDE DEF first
        <5>3. \A i \in DOMAIN (first \o added) : (\E j \in DOMAIN first : (first \o added)[i] = first[j])
                                               \/ (\E j \in DOMAIN added : (first \o added)[i] = added[j])
          BY <4>3, <5>1, <5>2
        <5>4. pipe' = first \o added
          BY <2>2, <3>4 DEF first
        <5> QED BY <5>2, <5>3, <5>4
      <4> TAKE i \in DOMAIN pipe'
      <4>5. CASE \E j \in DOMAIN pipe : pipe'[i] = pipe[j]
        BY <3>3, <4>5
      <4>6. CASE \E j \in DOMAIN told : pipe'[i] = told[j]
        BY <4>1, <4>6
      <4>7. CASE \E j \in DOMAIN added : pipe'[i] = added[j]
        BY <3>1, <3>2, <4>2, <4>7
      <4> QED BY <4>4, <4>5, <4>6, <4>7
    <3>5. CASE page.link # "open"
      BY <2>2, <3>3, <3>5
    <3> QED BY <3>4, <3>5
  <2>5. /\ page'.link # "open" => pipe' = <<>>
        /\ page'.link = "open" => console'.up
        /\ \A n \in Sends : sends'[n].via = "ws" => page'.link = "open"
        /\ page'.load = "done" => 1 .. page'.to \subseteq page'.shown
        /\ page'.load \in {"asked", "failed"} => page'.to = 0
    BY <1>3, <2>1, <2>2
  <2>6. /\ console'.last <= Len(messages') /\ page'.last <= Len(messages') /\ page'.to <= Len(messages')
        /\ page'.shown \subseteq 1 .. Len(messages') /\ missed' \subseteq 1 .. Len(messages')
    BY <1>1, <1>2, <2>1, <2>2, <2>3
  <2> QED BY <2>4, <2>5, <2>6 DEF KnownRows
<1>22. CASE ServerDies
  <2>1. messages' = messages /\ console'.last = console.last
    BY <1>22 DEF ServerDies, ConsoleTypeOK
  <2>2. \A n \in Sends : sends'[n].via # "ws"
    <3>1. \A n \in Sends : sends'[n] = DeadAs(sends[n]) /\ sends[n] \in OnTheWay
      BY <1>1, <1>22 DEF ServerDies, DeadAs
    <3>2. ASSUME NEW send \in OnTheWay PROVE DeadAs(send).via # "ws"
      <4>1. CutOff(send).via # "ws"
        BY CutOffType
      <4> QED BY <4>1 DEF DeadAs, OnTheWay
    <3> QED BY <3>1, <3>2
  <2>3. /\ page'.link # "open" /\ pipe' = <<>> /\ page'.load = page.load /\ page'.to = page.to
        /\ page'.last = page.last /\ page'.shown = page.shown /\ missed' \subseteq 1 .. Len(messages)
    <3>1. CASE page.link # "open"
      BY <1>2, <1>3, <1>22, <3>1 DEF ServerDies
    <3>2. CASE page.link = "open"
      <4>1. page' = Reconnecting /\ pipe' = <<>> /\ missed' = Misses(Unheard)
        BY <1>22, <3>2 DEF ServerDies
      <4> QED BY <1>1, <1>10, <4>1, ReconnectingIs
    <3> QED BY <3>1, <3>2
  <2> QED BY <1>1, <2>1, <2>2, <2>3, KnownWithout
<1>23. CASE ServerStarts
  <2>1. /\ UNCHANGED <<messages, agentState, page, temps, pipe, sends, odd, outages>> /\ ~console.up
        /\ console' = [up |-> TRUE, last |-> Len(messages), status |-> "none"] /\ missed' = Announced(NewMessages)
    BY <1>23 DEF ServerStarts
  <2>2. missed' \subseteq 1 .. Len(messages)
    <3>1. Announced(NewMessages) \subseteq missed \cup (NewMessages \ page.shown)
      BY AnnouncedIs
    <3>2. NewMessages \subseteq 1 .. Len(messages)
      BY <1>1 DEF NewMessages
    <3> QED BY <1>2, <2>1, <3>1, <3>2
  <2>3. page.link # "open" /\ \A n \in Sends : sends'[n].via # "ws"
    BY <1>3, <2>1
  <2> QED BY <1>1, <1>3, <2>1, <2>2, <2>3, KnownWithout
<1>24. CASE AgentReplies
  <2>1. UNCHANGED <<agentState, console, page, temps, pipe, sends, missed, odd, outages>>
        /\ messages' = Append(messages, Message("out", "none", FALSE, 0))
    BY <1>24 DEF AgentReplies
  <2>2. Len(messages) <= Len(messages')
    BY <1>1, <2>1
  <2> QED BY <1>1, <2>1, <2>2, KnownWithMore
<1>25. CASE StateChanges
  <2>1. UNCHANGED <<messages, console, page, temps, pipe, sends, missed, odd, outages>>
    BY <1>25 DEF StateChanges
  <2> QED BY <1>1, <2>1, KnownWithMore
<1> QED BY <1>4, <1>5, <1>6, <1>7, <1>8, <1>11, <1>12, <1>13, <1>14, <1>15, <1>16, <1>18, <1>19, <1>20,
            <1>21, <1>22, <1>23, <1>24, <1>25 DEF ConsoleNext

LEMMA InPipeNext == \A r : r \in InPipe' <=> \E i \in DOMAIN pipe' : r \in pipe'[i].ids
  BY DEF InPipe

\* Steps in which nothing is announced and nothing that was heard of is lost.
LEMMA AnnouncementsStay ==
  ASSUME Announcements, console'.last = console.last,
         page'.link = page.link, page'.load = page.load, page'.to = page.to, page'.last = page.last,
         page.shown \subseteq page'.shown, missed \subseteq missed',
         InPipe \subseteq InPipe' \cup page'.shown
  PROVE  Announcements'
<1>1. ASSUME NEW r, Heard(r) PROVE Heard(r)'
  BY <1>1 DEF Heard
<1>2. page'.link # "polling" /\ page'.load # "asked" => \A r \in 1 .. console'.last : Heard(r)'
  BY <1>1 DEF Announcements
<1>3. \A r \in 1 .. page'.last : Heard(r)' \/ (page'.load = "asked" /\ r <= console'.last)
  BY <1>1 DEF Announcements
<1> QED BY <1>2, <1>3 DEF Announcements

\* Where a connection is lost, what was under way is noted unless the history has it.
LEMMA AnnouncementsLost ==
  ASSUME ConsoleTypeOK, KnownRows, Announcements, console'.last = console.last, page.link = "open",
         page'.load = page.load, page'.to = page.to, page'.last = page.last, page'.shown = page.shown,
         missed' = Misses(Unheard)
  PROVE  Announcements'
<1>1. /\ page.last \in Nat /\ page.to \in Nat /\ console.last \in Nat
      /\ page.load \in {"asked", "read", "done", "failed"}
  BY PageFields, ConsoleFields DEF ConsoleTypeOK
<1>2. /\ page.load = "done" => 1 .. page.to \subseteq page.shown
      /\ page.load \in {"asked", "failed"} => page.to = 0
  BY DEF KnownRows
<1>3. InPipe \subseteq 1 .. console.last
  BY PipeRowsKnown
<1>4. /\ missed \subseteq missed'
      /\ \A r \in Unheard \ page.shown : r \in missed'
  BY MissesIs
<1>5. ASSUME NEW r \in InPipe, page.load # "asked" PROVE Heard(r)'
  <2>1. r \in Unheard \/ r \in 1 .. page.to
    BY <1>5 DEF Unheard
  <2>2. CASE r \in Unheard
    BY <1>4, <2>2 DEF Heard
  <2>3. CASE r \in 1 .. page.to
    <3>1. page.load = "read" \/ page.load = "done"
      BY <1>1, <1>2, <1>5, <2>3
    <3> QED BY <1>1, <1>2, <2>3, <3>1 DEF Heard
  <2> QED BY <2>1, <2>2, <2>3
<1>6. ASSUME NEW r, Heard(r), page.load # "asked" PROVE Heard(r)'
  <2>1. CASE r \in InPipe
    BY <1>5, <1>6, <2>1
  <2>2. CASE r \notin InPipe
    BY <1>4, <1>6, <2>2 DEF Heard
  <2> QED BY <2>1, <2>2
<1>7. page'.link # "polling" /\ page'.load # "asked" => \A r \in 1 .. console'.last : Heard(r)'
  BY <1>6 DEF Announcements
<1>8. ASSUME NEW r \in 1 .. page'.last PROVE Heard(r)' \/ (page'.load = "asked" /\ r <= console'.last)
  <2>1. Heard(r) \/ (page.load = "asked" /\ r <= console.last)
    BY <1>8 DEF Announcements
  <2>2. CASE page.load # "asked"
    BY <1>6, <2>1, <2>2
  <2>3. CASE page.load = "asked" /\ ~(r <= console.last)
    <3>1. r \notin InPipe /\ Heard(r)
      BY <1>1, <1>3, <2>1, <2>3
    <3>2. Heard(r)'
      BY <1>4, <3>1 DEF Heard
    <3> QED BY <3>2
  <2> QED BY <2>2, <2>3
<1> QED BY <1>7, <1>8 DEF Announcements

\* Where rows are announced, they are sent, or asked for, or noted.
LEMMA AnnouncementsMore ==
  ASSUME ConsoleTypeOK, KnownRows, Announcements, console'.last = Len(messages), UNCHANGED page,
         missed' = Announced(console.last + 1 .. Len(messages)), InPipe \subseteq InPipe',
         page.link = "open" => console.last + 1 .. Len(messages) \subseteq InPipe'
  PROVE  Announcements'
<1> DEFINE new == console.last + 1 .. Len(messages)
<1>1. /\ page.last \in Nat /\ page.to \in Nat /\ console.last \in Nat /\ Len(messages) \in Nat
      /\ page.load \in {"asked", "read", "done", "failed"}
  BY PageFields, ConsoleFields DEF ConsoleTypeOK
<1>2. /\ page.load = "done" => 1 .. page.to \subseteq page.shown
      /\ page.load \in {"asked", "failed"} => page.to = 0
      /\ console.last <= Len(messages)
  BY DEF KnownRows
<1>3. /\ missed \subseteq missed'
      /\ page.link # "open" /\ page.load # "asked" =>
           \A r \in (new \ 1 .. page.to) \ page.shown : page.link # "polling" \/ r <= page.last => r \in missed'
  BY AnnouncedIs
<1>4. ASSUME NEW r, Heard(r) PROVE Heard(r)'
  BY <1>3, <1>4 DEF Heard
<1>5. ASSUME NEW r \in new, page.link # "polling", page.load # "asked" PROVE Heard(r)'
  <2>1. CASE page.link = "open"
    BY <1>5, <2>1 DEF Heard
  <2>2. CASE page.link # "open" /\ r \in 1 .. page.to
    <3>1. page.load = "read" \/ page.load = "done"
      BY <1>1, <1>2, <1>5, <2>2
    <3> QED BY <1>1, <1>2, <2>2, <3>1 DEF Heard
  <2>3. CASE page.link # "open" /\ r \notin 1 .. page.to
    BY <1>3, <1>5, <2>3 DEF Heard
  <2> QED BY <2>1, <2>2, <2>3
<1>6. \A r \in 1 .. Len(messages) : r \in 1 .. console.last \/ r \in new
  BY <1>1, <1>2
<1> HIDE DEF new
<1>7. page'.link # "polling" /\ page'.load # "asked" => \A r \in 1 .. console'.last : Heard(r)'
  BY <1>4, <1>5, <1>6 DEF Announcements
<1>8. \A r \in 1 .. page'.last : Heard(r)' \/ (page'.load = "asked" /\ r <= console'.last)
  <2>1. \A r \in 1 .. page.last : Heard(r) \/ (page.load = "asked" /\ r <= console.last)
    BY DEF Announcements
  <2>2. \A r \in 1 .. page.last : r <= console.last => r <= console'.last
    BY <1>1, <1>2
  <2> QED BY <1>4, <2>1, <2>2
<1> QED BY <1>7, <1>8 DEF Announcements

LEMMA AnnouncementsStep ==
  ASSUME ConsoleTypeOK, KnownRows, Announcements, ConsoleNext
  PROVE  Announcements'
<1>1. /\ Len(messages) \in Nat /\ page.to \in Nat /\ page.last \in Nat /\ page.shown \subseteq Nat
      /\ console.last \in Nat /\ page \in Pages /\ pipe \in Seq(Frames)
      /\ page.link \in {"closed", "open", "polling"} /\ page.load \in {"asked", "read", "done", "failed"}
      /\ Len(pipe) \in Nat /\ DOMAIN pipe = 1 .. Len(pipe)
  BY PageFields, ConsoleFields DEF ConsoleTypeOK
<1>2. /\ console.last <= Len(messages) /\ page.last <= Len(messages) /\ page.to <= Len(messages)
      /\ page.link # "open" => pipe = <<>>
      /\ page.load = "done" => 1 .. page.to \subseteq page.shown
      /\ page.load \in {"asked", "failed"} => page.to = 0
  BY DEF KnownRows
<1>3. /\ page.link # "polling" /\ page.load # "asked" => \A r \in 1 .. console.last : Heard(r)
      /\ \A r \in 1 .. page.last : Heard(r) \/ (page.load = "asked" /\ r <= console.last)
  BY DEF Announcements
<1>4. ASSUME UNCHANGED <<console, page, pipe, missed>> PROVE Announcements'
  <2>1. InPipe' = InPipe
    BY <1>4 DEF InPipe
  <2> QED BY <1>4, <2>1, AnnouncementsStay
<1>5. CASE ServeHistory
  <2>1. UNCHANGED <<messages, agentState, console, temps, pipe, sends, missed, odd, outages>> /\ page.load = "asked"
    BY <1>5 DEF ServeHistory
  <2>2. /\ page'.link = page.link /\ page'.load = "read" /\ page'.to = Len(messages)
        /\ page'.last = page.last /\ page'.shown = page.shown
    BY <1>5, PageMoves
  <2>3. \A r \in 1 .. console'.last : Heard(r)'
    BY <1>1, <1>2, <2>1, <2>2 DEF Heard
  <2>4. \A r \in 1 .. page'.last : Heard(r)'
    BY <1>1, <1>2, <2>1, <2>2 DEF Heard
  <2> QED BY <2>3, <2>4 DEF Announcements
<1>6. CASE LoadConversations
  <2>1. UNCHANGED <<messages, agentState, console, pipe, sends, missed, odd, outages>> /\ page.load = "read"
    BY <1>6 DEF LoadConversations
  <2>2. /\ page'.link = page.link /\ page'.load = "done" /\ page'.to = page.to
        /\ page'.last = (IF page.to = 0 THEN page.last ELSE page.to)
        /\ page'.shown = page.shown \cup 1 .. page.to
    BY <1>6, PageMoves
  <2>3. InPipe' = InPipe
    BY <2>1 DEF InPipe
  <2>4. ASSUME NEW r \in Nat, 1 <= r, Heard(r) PROVE Heard(r)'
    BY <1>1, <2>1, <2>2, <2>3, <2>4 DEF Heard
  <2>5. \A r \in 1 .. console'.last : page'.link # "polling" => Heard(r)'
    BY <1>1, <1>3, <2>1, <2>2, <2>4
  <2>6. \A r \in 1 .. page'.last : Heard(r)'
    <3>1. CASE page.to = 0
      BY <1>1, <1>3, <2>1, <2>2, <2>4, <3>1
    <3>2. CASE page.to # 0
      BY <2>2, <3>2 DEF Heard
    <3> QED BY <3>1, <3>2
  <2> QED BY <2>5, <2>6 DEF Announcements
<1>7. CASE HistoryFails
  <2>1. /\ UNCHANGED <<messages, agentState, console, temps, pipe, sends, odd>> /\ page.load = "asked"
        /\ missed' = Misses(1 .. console.last \ InPipe)
    BY <1>7 DEF HistoryFails
  <2>2. /\ page'.link = page.link /\ page'.load = "failed" /\ page'.to = page.to
        /\ page'.last = page.last /\ page'.shown = page.shown
    BY <1>7, PageMoves
  <2>3. InPipe' = InPipe
    BY <2>1 DEF InPipe
  <2>4. /\ missed \subseteq missed'
        /\ \A r \in (1 .. console.last \ InPipe) \ page.shown :
             page.link # "polling" \/ r <= page.last => r \in missed'
    BY <2>1, MissesIs
  <2>5. \A r \in 1 .. console.last : page.link # "polling" \/ r <= page.last => Heard(r)'
    BY <2>2, <2>3, <2>4 DEF Heard
  <2>6. ASSUME NEW r \in 1 .. page'.last PROVE Heard(r)'
    <3>1. CASE r \in 1 .. console.last
      BY <1>1, <2>2, <2>5, <2>6, <3>1
    <3>2. CASE r \notin 1 .. console.last
      <4>1. Heard(r)
        BY <1>1, <1>3, <2>2, <2>6, <3>2
      <4> QED BY <2>1, <2>2, <2>3, <2>4, <4>1 DEF Heard
    <3> QED BY <3>1, <3>2
  <2> QED BY <2>1, <2>2, <2>5, <2>6 DEF Announcements
<1>8. CASE Connects
  <2>1. UNCHANGED <<messages, agentState, console, temps, sends, missed, outages>> /\ page.link = "closed"
    BY <1>8 DEF Connects
  <2>2. /\ page'.link = "open" /\ page'.load = page.load /\ page'.to = page.to
        /\ page'.last = page.last /\ page'.shown = page.shown
    BY <1>8, PageMoves
  <2>3. InPipe = {}
    BY <1>2, <2>1, InPipeIs
  <2>4. ASSUME NEW r, Heard(r) PROVE Heard(r)'
    BY <2>1, <2>2, <2>3, <2>4 DEF Heard
  <2> QED BY <1>3, <2>1, <2>2, <2>4 DEF Announcements
<1>9. CASE ConnectFails
  <2>1. UNCHANGED <<messages, agentState, console, temps, pipe, sends, odd>> /\ page.link = "closed"
        /\ page' = Reconnecting
        /\ missed' = IF page'.link = "polling" THEN {r \in missed: r <= page.last} ELSE missed
    BY <1>9 DEF ConnectFails
  <2>2. /\ page'.load = page.load /\ page'.to = page.to /\ page'.last = page.last /\ page'.shown = page.shown
        /\ page'.link \in {"closed", "polling"}
    BY <1>1, <2>1, ReconnectingIs
  <2>3. InPipe' = InPipe
    BY <2>1 DEF InPipe
  <2>4. ASSUME NEW r, Heard(r), page'.link # "polling" \/ r <= page.last PROVE Heard(r)'
    BY <2>1, <2>2, <2>3, <2>4 DEF Heard
  <2>5. page'.link # "polling" /\ page'.load # "asked" => \A r \in 1 .. console'.last : Heard(r)'
    BY <1>3, <2>1, <2>2, <2>4
  <2>6. \A r \in 1 .. page'.last : Heard(r)' \/ (page'.load = "asked" /\ r <= console'.last)
    <3>1. \A r \in 1 .. page.last : r <= page.last
      BY <1>1
    <3> QED BY <1>3, <2>1, <2>2, <2>4, <3>1
  <2> QED BY <2>5, <2>6 DEF Announcements
<1>10. CASE LinkDrops
  <2>1. console' = console /\ page.link = "open" /\ page' = Reconnecting /\ missed' = Misses(Unheard)
    BY <1>10 DEF LinkDrops
  <2> QED BY <1>1, <2>1, ReconnectingIs, AnnouncementsLost
<1>11. CASE Receives
  <2> DEFINE frame == Head(pipe)
  <2>1. UNCHANGED <<messages, agentState, console, sends, missed, odd, outages>>
    BY <1>11 DEF Receives
  <2>2. /\ page.link = "open" /\ Len(pipe') = Len(pipe) - 1 /\ pipe' \in Seq(Frames) /\ frame = pipe[1]
        /\ \A i \in 1 .. Len(pipe) - 1 : pipe'[i] = pipe[i + 1]
        /\ frame.ids \subseteq 1 .. console.last /\ frame \in Frames
        /\ page'.link = page.link /\ page'.load = page.load /\ page'.to = page.to
    BY <1>11, ReceivesIs
  <2>3. \/ frame.kind # "messages" /\ page'.last = page.last /\ page'.shown = page.shown
        \/ /\ frame.kind = "messages" /\ page'.last \in frame.ids
           /\ page'.shown = page.shown \cup frame.ids
    BY <1>11, ReceivesIs
  <2> HIDE DEF frame
  <2>4. frame.kind # "messages" => frame.ids = {}
    <3>1. 1 \in DOMAIN pipe
      BY <1>11, ReceivesIs
    <3> QED BY <2>2, <3>1 DEF KnownRows
  <2>5. InPipe \subseteq InPipe' \cup frame.ids
    <3>1. ASSUME NEW r \in InPipe PROVE r \in InPipe' \cup frame.ids
      <4>1. PICK i \in DOMAIN pipe : r \in pipe[i].ids
        BY <3>1, InPipeIs
      <4>2. CASE i = 1
        BY <2>2, <4>1, <4>2
      <4>3. CASE i # 1
        <5>1. i - 1 \in DOMAIN pipe' /\ i - 1 \in 1 .. Len(pipe) - 1 /\ (i - 1) + 1 = i
          BY <1>1, <2>2, <4>1, <4>3
        <5>2. pipe'[i - 1] = pipe[i]
          BY <2>2, <5>1
        <5> QED BY <4>1, <5>1, <5>2, InPipeNext
      <4> QED BY <4>2, <4>3
    <3> QED BY <3>1
  <2>6. ASSUME NEW r, Heard(r) PROVE Heard(r)'
    BY <2>1, <2>2, <2>3, <2>4, <2>5, <2>6 DEF Heard
  <2>7. page'.link # "polling" /\ page'.load # "asked" => \A r \in 1 .. console'.last : Heard(r)'
    BY <1>3, <2>1, <2>2, <2>6
  <2>8. \A r \in 1 .. page'.last : Heard(r)' \/ (page'.load = "asked" /\ r <= console'.last)
    <3>1. CASE page'.last = page.last
      BY <1>3, <2>1, <2>2, <2>6, <3>1
    <3>2. CASE page'.last \in frame.ids
      <4>1. \A r \in 1 .. page'.last : r \in 1 .. console.last /\ r <= console.last
        BY <1>1, <2>2, <3>2
      <4>2. CASE page.load = "asked"
        BY <2>1, <2>2, <4>1, <4>2
      <4>3. CASE page.load # "asked"
        BY <1>3, <2>2, <2>6, <4>1, <4>3
      <4> QED BY <4>2, <4>3
    <3> QED BY <2>3, <3>1, <3>2
  <2> QED BY <2>7, <2>8 DEF Announcements
<1>12. CASE PollMessages
  <2>1. UNCHANGED <<messages, agentState, console, pipe, sends, missed, odd, outages>> /\ page.link = "polling"
    BY <1>12 DEF PollMessages
  <2>2. /\ page'.link = page.link /\ page'.load = page.load /\ page'.to = page.to
        /\ page'.last = Len(messages) /\ page'.shown = page.shown \cup (page.last + 1 .. Len(messages))
    BY <1>12, PageMoves
  <2>3. InPipe' = InPipe
    BY <2>1 DEF InPipe
  <2>4. ASSUME NEW r, Heard(r) PROVE Heard(r)'
    BY <2>1, <2>2, <2>3, <2>4 DEF Heard
  <2>5. ASSUME NEW r \in 1 .. page'.last PROVE Heard(r)' \/ (page'.load = "asked" /\ r <= console'.last)
    <3>1. CASE r <= page.last
      <4>1. r \in 1 .. page.last
        BY <1>1, <2>2, <2>5, <3>1
      <4> QED BY <1>3, <2>1, <2>2, <2>4, <4>1
    <3>2. CASE ~(r <= page.last)
      <4>1. r \in page'.shown
        BY <1>1, <2>2, <2>5, <3>2
      <4> QED BY <4>1 DEF Heard
    <3> QED BY <3>1, <3>2
  <2> QED BY <2>1, <2>2, <2>5 DEF Announcements
<1>13. CASE UpdateStatusViaHttp
  <2>1. UNCHANGED <<messages, agentState, console, temps, pipe, sends, missed, odd, outages>>
    BY <1>13 DEF UpdateStatusViaHttp
  <2>2. /\ page'.link = page.link /\ page'.load = page.load /\ page'.to = page.to
        /\ page'.last = page.last /\ page'.shown = page.shown
    BY <1>13, PageMoves
  <2>3. InPipe' = InPipe
    BY <2>1 DEF InPipe
  <2> QED BY <2>1, <2>2, <2>3, AnnouncementsStay
<1>14. ASSUME NEW n \in Sends, NEW text \in Texts, NEW files \in BOOLEAN, HandleSubmit(n, text, files)
       PROVE  Announcements'
  BY <1>4, <1>14 DEF HandleSubmit
<1>15. ASSUME NEW n \in Sends, SendConsoleMessage(n) PROVE Announcements'
  BY <1>4, <1>15 DEF SendConsoleMessage
<1>16. ASSUME NEW n \in Sends, NEW ok \in BOOLEAN, Answer(n, ok), sends[n].at # "no",
              UNCHANGED <<messages, agentState, console, page, missed, odd, outages>>
       PROVE  Announcements'
  <2>1. pipe' = IF sends[n].via = "ws" /\ ~ok THEN Append(pipe, Frame("failed", {}, n, "none")) ELSE pipe
    BY <1>16, AnswerIs
  <2>2. \A i \in DOMAIN pipe : i \in DOMAIN pipe' /\ pipe'[i] = pipe[i]
    <3>1. \A f : \A i \in 1 .. Len(pipe) : i \in DOMAIN Append(pipe, f) /\ Append(pipe, f)[i] = pipe[i]
      BY <1>1
    <3> QED BY <1>1, <2>1, <3>1
  <2>3. InPipe \subseteq InPipe'
    BY <2>2, InPipeIs, InPipeNext
  <2> QED BY <1>16, <2>3, AnnouncementsStay
<1>17. ASSUME NEW n \in Sends, Refuse(n) PROVE Announcements'
  BY <1>16, <1>17 DEF Refuse
<1>18. ASSUME NEW n \in Sends, NEW ok \in BOOLEAN, ChildEnds(n, ok) PROVE Announcements'
  BY <1>16, <1>18 DEF ChildEnds
<1>19. ASSUME NEW n \in Sends, ChildStores(n) PROVE Announcements'
  BY <1>4, <1>19 DEF ChildStores
<1>20. CASE CheckUpdates
  <2> DEFINE new == console.last + 1 .. Len(messages)
             told == IF agentState = console.status THEN <<>> ELSE <<Frame("status", {}, 0, agentState)>>
             added == IF new = {} THEN <<>> ELSE <<Frame("messages", new, 0, "none")>>
  <2>1. UNCHANGED <<messages, agentState, page, temps, sends, outages>> /\ missed' = Announced(new)
    BY <1>20 DEF CheckUpdates
  <2>2. /\ console'.last = Len(messages) /\ pipe' \in Seq(Frames)
        /\ page.link = "open" => pipe' = pipe \o told \o added
        /\ \A i \in DOMAIN pipe : i \in DOMAIN pipe' /\ pipe'[i] = pipe[i]
    <3>1. /\ console' = [up |-> console.up, last |-> Len(messages), status |-> agentState]
          /\ pipe' \in Seq(Frames) /\ (page.link = "open" => pipe' = pipe \o told \o added)
      BY <1>20, CheckUpdatesIs
    <3>2. \A i \in 1 .. Len(pipe) : i \in DOMAIN pipe' /\ pipe'[i] = pipe[i]
      BY <1>20, CheckUpdatesIs
    <3> HIDE DEF told, added
    <3> QED BY <1>1, <3>1, <3>2
  <2>3. InPipe \subseteq InPipe'
    BY <2>2, InPipeIs, InPipeNext
  <2>4. page.link = "open" => new \subseteq InPipe'
    <3> SUFFICES ASSUME page.link = "open", NEW r \in new PROVE r \in InPipe'
      OBVIOUS
    <3>1. new # {} /\ new \in SUBSET Nat
      BY <1>1
    <3> HIDE DEF new
    <3>2. added = <<Frame("messages", new, 0, "none")>> /\ Frame("messages", new, 0, "none") \in Frames
      BY <3>1, FrameType
    <3>3. told \in Seq(Frames)
      <4>1. Frame("status", {}, 0, agentState) \in Frames
        BY FrameType DEF ConsoleTypeOK
      <4> QED BY <4>1
    <3> HIDE DEF told, added
    <3>4. \A s \in Seq(Frames) : \A f \in Frames : Len(s) + 1 \in DOMAIN (s \o <<f>>) /\ (s \o <<f>>)[Len(s) + 1] = f
      OBVIOUS
    <3>5. pipe \o told \in Seq(Frames)
      BY <1>1, <3>3
    <3>6. pipe' = (pipe \o told) \o <<Frame("messages", new, 0, "none")>>
      BY <2>2, <3>2
    <3>7. \E i \in DOMAIN pipe' : pipe'[i] = Frame("messages", new, 0, "none")
      BY <3>2, <3>4, <3>5, <3>6
    <3>8. \E i \in DOMAIN pipe' : pipe'[i].ids = new
      BY <3>7 DEF Frame
    <3> QED BY <3>8, InPipeNext
  <2> HIDE DEF told, added
  <2> QED BY <2>1, <2>2, <2>3, <2>4, AnnouncementsMore
<1>21. CASE ServerDies
  <2>1. console'.last = console.last
    BY <1>21 DEF ServerDies, ConsoleTypeOK
  <2>2. CASE page.link = "open"
    <3>1. page' = Reconnecting /\ missed' = Misses(Unheard)
      BY <1>21, <2>2 DEF ServerDies
    <3> QED BY <1>1, <2>1, <2>2, <3>1, ReconnectingIs, AnnouncementsLost
  <2>3. CASE page.link # "open"
    <3>1. UNCHANGED <<page, pipe, missed>>
      BY <1>21, <2>3 DEF ServerDies
    <3>2. InPipe' = InPipe
      BY <3>1 DEF InPipe
    <3> QED BY <2>1, <3>1, <3>2, AnnouncementsStay
  <2> QED BY <2>2, <2>3
<1>22. CASE ServerStarts
  <2>1. /\ UNCHANGED <<messages, agentState, page, temps, pipe, sends, odd, outages>> /\ ~console.up
        /\ console' = [up |-> TRUE, last |-> Len(messages), status |-> "none"]
        /\ missed' = Announced(console.last + 1 .. Len(messages))
    BY <1>22 DEF ServerStarts, NewMessages
  <2>2. page.link # "open" /\ InPipe' = InPipe /\ console'.last = Len(messages)
    BY <2>1 DEF KnownRows, InPipe
  <2> QED BY <2>1, <2>2, AnnouncementsMore
<1>23. CASE AgentReplies
  BY <1>4, <1>23 DEF AgentReplies
<1>24. CASE StateChanges
  BY <1>4, <1>24 DEF StateChanges
<1> QED BY <1>5, <1>6, <1>7, <1>8, <1>9, <1>10, <1>11, <1>12, <1>13, <1>14, <1>15, <1>17, <1>18, <1>19,
            <1>20, <1>21, <1>22, <1>23, <1>24 DEF ConsoleNext

\* A message that was announced is on the page, on its way to it, or excepted.
LEMMA NothingIsMissing ==
  ASSUME ConsoleTypeOK, KnownRows, Announcements
  PROVE  NothingMissing
<1> DEFINE due == 1 .. (IF page.link = "polling" THEN page.last ELSE console.last)
           loading == CASE page.load = "asked" -> due [] page.load = "read" -> 1 .. page.to [] OTHER -> {}
<1>1. page.last \in Nat /\ page.to \in Nat /\ console.last \in Nat
  BY PageFields, ConsoleFields DEF ConsoleTypeOK
<1>2. page.load = "asked" => loading = due
  OBVIOUS
<1>3. page.load = "read" => loading = 1 .. page.to
  OBVIOUS
<1>4. \A r \in due : r \in Nat /\ 1 <= r
  BY <1>1
<1>5. ASSUME NEW r \in due PROVE r \in page.shown \cup missed \cup InPipe \cup loading
  <2>1. CASE page.load = "asked"
    BY <1>2, <1>5, <2>1
  <2>2. CASE page.load # "asked"
    <3>1. Heard(r)
      BY <1>5, <2>2 DEF Announcements
    <3>2. page.load = "read" /\ r <= page.to => r \in loading
      BY <1>1, <1>3, <1>4, <1>5
    <3> QED BY <3>1, <3>2 DEF Heard
  <2> QED BY <2>1, <2>2
<1> HIDE DEF loading
<1>6. due \subseteq page.shown \cup missed \cup InPipe \cup loading
  BY <1>5
<1> QED BY <1>6 DEF NothingMissing, loading

\* Steps that leave the states under way, and the one the server knows.
LEMMA StateStays ==
  ASSUME ConsoleTypeOK, StateComes, pipe' \in Seq(Frames), console'.status = console.status,
         odd'.state = odd.state, page'.link = page.link, page'.status = page.status,
         DOMAIN pipe \subseteq DOMAIN pipe', \A i \in DOMAIN pipe : pipe'[i] = pipe[i],
         \A i \in (DOMAIN pipe') \ DOMAIN pipe : pipe'[i].kind # "status"
  PROVE  StateComes'
<1>1. ASSUME NEW k \in DOMAIN pipe', LastState(k)' PROVE k \in DOMAIN pipe /\ LastState(k)
  <2>1. pipe'[k].kind = "status" /\ \A l \in DOMAIN pipe' : pipe'[l].kind = "status" => l <= k
    BY <1>1 DEF LastState
  <2> QED BY <2>1 DEF LastState
<1>2. (\A k \in DOMAIN pipe' : pipe'[k].kind # "status") => \A k \in DOMAIN pipe : pipe[k].kind # "status"
  OBVIOUS
<1> QED BY <1>1, <1>2 DEF StateComes

LEMMA StateStep ==
  ASSUME ConsoleTypeOK, KnownRows, StateComes, ConsoleNext, ConsoleTypeOK', KnownRows'
  PROVE  StateComes'
<1>1. /\ page \in Pages /\ pipe \in Seq(Frames) /\ Len(pipe) \in Nat /\ DOMAIN pipe = 1 .. Len(pipe)
      /\ page.link # "open" => pipe = <<>>
      /\ odd \in [crossed : BOOLEAN, again : BOOLEAN, state : BOOLEAN]
      /\ console \in [up : BOOLEAN, last : Nat, status : States \cup {"none"}]
      /\ Len(messages) \in Nat /\ console.last \in Nat
  BY ConsoleFields DEF ConsoleTypeOK, KnownRows
<1>2. ASSUME page'.link # "open" PROVE StateComes'
  BY <1>2 DEF StateComes
<1>3. ASSUME page'.link = page.link, page'.status = page.status, pipe' = pipe, console'.status = console.status,
             odd'.state = odd.state
      PROVE  StateComes'
  BY <1>1, <1>3, StateStays
<1>4. CASE ServeHistory
  BY <1>3, <1>4, PageMoves DEF ServeHistory
<1>5. CASE LoadConversations
  BY <1>3, <1>5, PageMoves DEF LoadConversations
<1>6. CASE HistoryFails
  BY <1>3, <1>6, PageMoves DEF HistoryFails
<1>7. CASE Connects
  <2>1. pipe' = <<Frame("status", {}, 0, agentState)>> /\ odd' = [odd EXCEPT !.state = agentState # console.status]
        /\ console' = console
    BY <1>7 DEF Connects
  <2>2. odd'.state = (agentState # console.status)
    BY <1>1, <2>1
  <2>3. DOMAIN pipe' = {1} /\ pipe'[1].kind = "status" /\ pipe'[1].state = agentState
    BY <2>1 DEF Frame
  <2> QED BY <2>1, <2>2, <2>3 DEF StateComes
<1>8. CASE ConnectFails
  BY <1>1, <1>2, <1>8, ReconnectingIs DEF ConnectFails
<1>9. CASE LinkDrops
  BY <1>1, <1>2, <1>9, ReconnectingIs DEF LinkDrops
<1>10. CASE Receives
  <2> DEFINE frame == Head(pipe)
  <2>1. UNCHANGED <<messages, agentState, console, sends, missed, odd, outages>>
    BY <1>10 DEF Receives
  <2>2. /\ page.link = "open" /\ Len(pipe') = Len(pipe) - 1 /\ pipe' \in Seq(Frames) /\ frame = pipe[1]
        /\ Len(pipe) >= 1 /\ \A i \in 1 .. Len(pipe) - 1 : pipe'[i] = pipe[i + 1]
        /\ page'.link = page.link
    BY <1>10, ReceivesIs
  <2>3. \/ frame.kind # "status" /\ page'.status = page.status
        \/ frame.kind = "status" /\ page'.status = frame.state
    BY <1>10, ReceivesIs
  <2> HIDE DEF frame
  <2>4. DOMAIN pipe' = 1 .. Len(pipe) - 1 /\ 1 \in DOMAIN pipe
        /\ \A i \in DOMAIN pipe' : i + 1 \in DOMAIN pipe /\ pipe'[i] = pipe[i + 1]
    BY <1>1, <2>2
  <2>5. \A i \in DOMAIN pipe : i = 1 \/ (i - 1 \in DOMAIN pipe' /\ pipe'[i - 1] = pipe[i])
    <3>1. \A i \in DOMAIN pipe : i # 1 => i - 1 \in 1 .. Len(pipe) - 1 /\ (i - 1) + 1 = i
      BY <1>1
    <3> QED BY <2>2, <2>4, <3>1
  <2> SUFFICES ASSUME ~odd.state
               PROVE  /\ \A k \in DOMAIN pipe' : LastState(k)' => pipe'[k].state = console.status
                      /\ (\A k \in DOMAIN pipe' : pipe'[k].kind # "status") => page'.status = console.status
    BY <2>1 DEF StateComes
  <2>6. /\ \A k \in DOMAIN pipe : LastState(k) => pipe[k].state = console.status
        /\ (\A k \in DOMAIN pipe : pipe[k].kind # "status") => page.status = console.status
    BY <2>2 DEF StateComes
  <2>7. ASSUME NEW k \in DOMAIN pipe', LastState(k)' PROVE pipe'[k].state = console.status
    <3>1. pipe'[k].kind = "status" /\ \A l \in DOMAIN pipe' : pipe'[l].kind = "status" => l <= k
      BY <2>7 DEF LastState
    <3>2. k + 1 \in DOMAIN pipe /\ pipe[k + 1] = pipe'[k] /\ k \in Nat
      BY <1>1, <2>4, <2>7
    <3>3. \A l \in DOMAIN pipe : pipe[l].kind = "status" => l <= k + 1
      <4> TAKE l \in DOMAIN pipe
      <4>1. CASE l = 1
        BY <3>2, <4>1
      <4>2. CASE l # 1
        <5>1. l - 1 \in DOMAIN pipe' /\ pipe'[l - 1] = pipe[l] /\ l \in Nat
          BY <1>1, <2>5, <4>2
        <5>2. pipe[l].kind = "status" => l - 1 <= k
          BY <3>1, <5>1
        <5> QED BY <3>2, <5>1, <5>2
      <4> QED BY <4>1, <4>2
    <3>4. LastState(k + 1)
      BY <3>1, <3>2, <3>3 DEF LastState
    <3> QED BY <2>6, <3>2, <3>4
  <2>8. ASSUME \A k \in DOMAIN pipe' : pipe'[k].kind # "status" PROVE page'.status = console.status
    <3>1. \A l \in DOMAIN pipe : l # 1 => pipe[l].kind # "status"
      BY <2>5, <2>8
    <3>2. CASE frame.kind = "status"
      <4>1. LastState(1)
        BY <2>2, <2>4, <3>1, <3>2 DEF LastState
      <4> QED BY <2>2, <2>3, <2>4, <2>6, <3>2, <4>1
    <3>3. CASE frame.kind # "status"
      BY <2>2, <2>3, <2>6, <3>1, <3>3
    <3> QED BY <3>2, <3>3
  <2> QED BY <2>7, <2>8
<1>11. CASE PollMessages
  BY <1>3, <1>11, PageMoves DEF PollMessages
<1>12. CASE UpdateStatusViaHttp
  BY <1>1, <1>2, <1>12, PageMoves DEF UpdateStatusViaHttp
<1>13. ASSUME NEW n \in Sends, NEW text \in Texts, NEW files \in BOOLEAN, HandleSubmit(n, text, files)
       PROVE  StateComes'
  <2>1. odd'.state = odd.state
    BY <1>1, <1>13 DEF HandleSubmit
  <2> QED BY <1>3, <1>13, <2>1 DEF HandleSubmit
<1>14. ASSUME NEW n \in Sends, SendConsoleMessage(n) PROVE StateComes'
  BY <1>3, <1>14 DEF SendConsoleMessage
<1>15. ASSUME NEW n \in Sends, NEW ok \in BOOLEAN, Answer(n, ok), sends[n].at # "no",
              UNCHANGED <<messages, agentState, console, page, missed, odd, outages>>
       PROVE  StateComes'
  <2>1. /\ pipe' = IF sends[n].via = "ws" /\ ~ok THEN Append(pipe, Frame("failed", {}, n, "none")) ELSE pipe
        /\ pipe' \in Seq(Frames)
    BY <1>15, AnswerIs
  <2> DEFINE f == Frame("failed", {}, n, "none")
  <2>2. f.kind = "failed"
    BY DEF Frame
  <2> HIDE DEF f
  <2>3. /\ DOMAIN Append(pipe, f) = 1 .. Len(pipe) + 1 /\ Append(pipe, f)[Len(pipe) + 1] = f
        /\ \A i \in 1 .. Len(pipe) : Append(pipe, f)[i] = pipe[i]
    <3>1. \A x : /\ DOMAIN Append(pipe, x) = 1 .. Len(pipe) + 1 /\ Append(pipe, x)[Len(pipe) + 1] = x
                 /\ \A i \in 1 .. Len(pipe) : Append(pipe, x)[i] = pipe[i]
      BY <1>1
    <3> QED BY <3>1
  <2>4. CASE pipe' = Append(pipe, f)
    <3>1. DOMAIN pipe \subseteq DOMAIN pipe' /\ \A i \in (DOMAIN pipe') \ DOMAIN pipe : i = Len(pipe) + 1
      BY <1>1, <2>3, <2>4
    <3>2. \A i \in DOMAIN pipe : pipe'[i] = pipe[i]
      BY <1>1, <2>3, <2>4
    <3>3. \A i \in (DOMAIN pipe') \ DOMAIN pipe : pipe'[i].kind # "status"
      BY <2>2, <2>3, <2>4, <3>1
    <3> QED BY <1>15, <2>1, <3>1, <3>2, <3>3, StateStays
  <2>5. CASE pipe' = pipe
    BY <1>3, <1>15, <2>5
  <2> QED BY <2>1, <2>4, <2>5 DEF f
<1>16. ASSUME NEW n \in Sends, Refuse(n) PROVE StateComes'
  BY <1>15, <1>16 DEF Refuse
<1>17. ASSUME NEW n \in Sends, NEW ok \in BOOLEAN, ChildEnds(n, ok) PROVE StateComes'
  BY <1>15, <1>17 DEF ChildEnds
<1>18. ASSUME NEW n \in Sends, ChildStores(n) PROVE StateComes'
  BY <1>3, <1>18 DEF ChildStores
<1>19. CASE CheckUpdates
  <2> DEFINE new == console.last + 1 .. Len(messages)
             told == IF agentState = console.status THEN <<>> ELSE <<Frame("status", {}, 0, agentState)>>
             added == IF new = {} THEN <<>> ELSE <<Frame("messages", new, 0, "none")>>
  <2>1. UNCHANGED <<messages, agentState, page, temps, sends, outages>>
        /\ odd' = IF agentState = console.status THEN odd ELSE [odd EXCEPT !.state = FALSE]
    BY <1>19 DEF CheckUpdates
  <2>2. /\ console' = [up |-> console.up, last |-> Len(messages), status |-> agentState]
        /\ pipe' \in Seq(Frames) /\ (page.link = "open" => pipe' = pipe \o told \o added)
    BY <1>19, CheckUpdatesIs
  <2>3. \A i \in 1 .. Len(pipe) : i \in DOMAIN pipe' /\ pipe'[i] = pipe[i]
    BY <1>19, CheckUpdatesIs
  <2> SUFFICES ASSUME page.link = "open" PROVE StateComes'
    BY <1>2, <2>1
  <2>4. told \in Seq(Frames) /\ added \in Seq(Frames) /\ Len(added) \in {0, 1}
        /\ \A i \in DOMAIN added : added[i].kind = "messages"
    <3>1. new \in SUBSET Nat
      BY <1>1
    <3> HIDE DEF new
    <3>2. Frame("status", {}, 0, agentState) \in Frames /\ Frame("messages", new, 0, "none") \in Frames
      BY <3>1, FrameType DEF ConsoleTypeOK
    <3>3. told \in Seq(Frames) /\ added \in Seq(Frames) /\ Len(added) \in {0, 1}
      BY <3>2
    <3>4. \A i \in DOMAIN added : added[i].kind = "messages"
      BY DEF Frame
    <3> QED BY <3>3, <3>4
  <2> HIDE DEF added
  <2>5. \A s, t \in Seq(Frames) : /\ s \o t \in Seq(Frames) /\ Len(s) \in Nat /\ Len(t) \in Nat
                                  /\ DOMAIN (s \o t) = 1 .. Len(s) + Len(t) /\ Len(s \o t) = Len(s) + Len(t)
                                  /\ \A i \in 1 .. Len(s) + Len(t) :
                                       (s \o t)[i] = IF i <= Len(s) THEN s[i] ELSE t[i - Len(s)]
    <3> TAKE s, t \in Seq(Frames)
    <3>1. \A i \in 1 .. Len(s) + Len(t) : (s \o t)[i] = IF i <= Len(s) THEN s[i] ELSE t[i - Len(s)]
      BY ConcatProperties
    <3> QED BY <3>1
  <2>6. CASE agentState = console.status
    <3>1. told = <<>> /\ pipe \o told = pipe
      BY <1>1, <2>6
    <3>2. pipe' = pipe \o added
      BY <2>2, <3>1
    <3>3. DOMAIN pipe \subseteq DOMAIN pipe' /\ \A i \in DOMAIN pipe : pipe'[i] = pipe[i]
      BY <1>1, <2>3
    <3>4. \A i \in (DOMAIN pipe') \ DOMAIN pipe : pipe'[i].kind # "status"
      <4> TAKE i \in (DOMAIN pipe') \ DOMAIN pipe
      <4>1. i \in 1 .. Len(pipe) + Len(added) /\ ~(i <= Len(pipe)) /\ Len(added) \in Nat
        BY <1>1, <2>4, <2>5, <3>2
      <4>2. pipe'[i] = added[i - Len(pipe)] /\ i - Len(pipe) \in DOMAIN added
        BY <1>1, <2>4, <2>5, <3>2, <4>1
      <4> QED BY <2>4, <4>2
    <3> QED BY <2>1, <2>2, <2>6, <3>3, <3>4, StateStays
  <2>7. CASE agentState # console.status
    <3> DEFINE f == Frame("status", {}, 0, agentState)
    <3>1. told = <<f>> /\ f.kind = "status" /\ f.state = agentState
      BY <2>7 DEF Frame
    <3> HIDE DEF f, told
    <3>2. Len(told) = 1 /\ told[1] = f
      BY <3>1
    <3> DEFINE first == pipe \o told
    <3>3. first \in Seq(Frames) /\ Len(first) = Len(pipe) + 1 /\ first[Len(pipe) + 1] = f
      <4>1. Len(pipe) + 1 \in 1 .. Len(pipe) + Len(told) /\ ~(Len(pipe) + 1 <= Len(pipe))
            /\ (Len(pipe) + 1) - Len(pipe) = 1
        BY <1>1, <3>2
      <4> QED BY SMTT(30), <1>1, <2>4, <2>5, <3>2, <4>1
    <3> HIDE DEF first
    <3>4. pipe' = first \o added
      BY <2>2 DEF first
    <3>5. /\ DOMAIN pipe' = 1 .. Len(pipe) + 1 + Len(added) /\ Len(added) \in Nat
          /\ pipe'[Len(pipe) + 1] = f
          /\ \A i \in DOMAIN pipe' : i > Len(pipe) + 1 => pipe'[i].kind # "status"
      <4>1. DOMAIN pipe' = 1 .. Len(first) + Len(added) /\ Len(added) \in Nat
            /\ \A i \in 1 .. Len(first) + Len(added) :
                 pipe'[i] = IF i <= Len(first) THEN first[i] ELSE added[i - Len(first)]
        BY <2>4, <2>5, <3>3, <3>4
      <4>2. \A i \in DOMAIN pipe' : i > Len(pipe) + 1 => i - Len(first) \in DOMAIN added /\ ~(i <= Len(first))
        BY <1>1, <2>4, <3>3, <4>1
      <4>3. \A i \in DOMAIN pipe' : i > Len(pipe) + 1 => pipe'[i].kind # "status"
        BY <2>4, <4>1, <4>2
      <4>4. Len(pipe) + 1 \in 1 .. Len(first) + Len(added) /\ Len(pipe) + 1 <= Len(first)
        BY <1>1, <3>3, <4>1
      <4>5. pipe'[Len(pipe) + 1] = f
        BY <3>3, <4>1, <4>4
      <4> QED BY <3>3, <4>1, <4>3, <4>5
    <3>6. Len(pipe) + 1 \in DOMAIN pipe' /\ pipe'[Len(pipe) + 1].kind = "status"
      BY <1>1, <3>1, <3>5
    <3>7. ASSUME NEW k \in DOMAIN pipe', LastState(k)' PROVE pipe'[k].state = agentState
      <4>1. pipe'[k].kind = "status" /\ Len(pipe) + 1 <= k
        BY <3>6, <3>7 DEF LastState
      <4>2. k = Len(pipe) + 1
        BY <1>1, <3>5, <3>7, <4>1
      <4> QED BY <3>1, <3>5, <4>2
    <3>8. console'.status = agentState
      BY <2>2
    <3> QED BY <3>6, <3>7, <3>8 DEF StateComes
  <2> QED BY <2>6, <2>7
<1>20. CASE ServerDies
  <2>1. page'.link # "open"
    BY <1>1, <1>20, ReconnectingIs DEF ServerDies
  <2> QED BY <1>2, <2>1
<1>21. CASE ServerStarts
  <2>1. page'.link # "open"
    BY <1>21 DEF ServerStarts, KnownRows
  <2> QED BY <1>2, <2>1
<1>22. CASE AgentReplies
  BY <1>3, <1>22 DEF AgentReplies
<1>23. CASE StateChanges
  BY <1>3, <1>23 DEF StateChanges
<1> QED BY <1>4, <1>5, <1>6, <1>7, <1>8, <1>9, <1>10, <1>11, <1>12, <1>13, <1>14, <1>16, <1>17, <1>18, <1>19,
            <1>20, <1>21, <1>22, <1>23 DEF ConsoleNext

LEMMA StateIsShown ==
  ASSUME ConsoleTypeOK, StateComes
  PROVE  StateShown
  BY DEF StateComes, StateShown

LEMMA TempFields ==
  ASSUME NEW tmp \in Seq(Temps)
  PROVE  \A i \in DOMAIN tmp : /\ tmp[i].n \in Sends /\ tmp[i].text \in Texts
                               /\ tmp[i].at \in {"sending", "sent", "failed"}
<1>1. \A i \in DOMAIN tmp : tmp[i] \in Temps
  OBVIOUS
<1> QED BY <1>1 DEF Temps

\* What goes on, and is shown to, is where it was otherwise.
LEMMA SendsGoOn ==
  ASSUME ConsoleTypeOK, SendsShown, messages' = messages, GoesOn(sends, sends'), Remarked(temps, temps'),
         page'.shown = page.shown, odd'.crossed = odd.crossed, odd'.again = odd.again
  PROVE  SendsShown'
<1>1. /\ \A n \in Sends :
           /\ sends'[n].text = sends[n].text /\ sends'[n].files = sends[n].files
           /\ \/ sends'[n].at = sends[n].at
              \/ sends[n].at = "wire" /\ sends'[n].at = "child"
              \/ sends[n].at # "no" /\ sends'[n].at = "done"
           /\ sends[n] = NoSend => sends'[n] = NoSend
      /\ \A n \in Sends : sends'[n].at = "no" <=> sends[n].at = "no"
  BY DEF GoesOn
<1>2. /\ DOMAIN temps' = DOMAIN temps
      /\ \A i \in DOMAIN temps : /\ temps'[i].n = temps[i].n /\ temps'[i].text = temps[i].text
                                 /\ temps'[i].files = temps[i].files
                                 /\ temps'[i].at = "sending" => temps[i].at = "sending"
  BY DEF Remarked
<1>3. \A i \in DOMAIN temps : temps[i].n \in Sends
  BY TempFields DEF ConsoleTypeOK
<1>4. Correspond(messages, sends')
  <2>1. Correspond(messages, sends)
    BY DEF SendsShown
  <2>2. \A n \in Sends : IF sends'[n].at = "no" THEN sends'[n] = NoSend
                         ELSE sends'[n].text \in Texts /\ \A m \in Earlier(n) : sends'[m].at # "no"
    <3> TAKE n \in Sends
    <3>1. CASE sends[n].at = "no"
      BY <1>1, <2>1, <3>1 DEF Correspond
    <3>2. CASE sends[n].at # "no"
      <4>1. \A m \in Earlier(n) : m \in Sends
        BY ConsoleConstants
      <4> QED BY <1>1, <2>1, <3>2, <4>1 DEF Correspond
    <3> QED BY <3>1, <3>2
  <2>3. \A r \in DOMAIN messages : messages[r].by # 0 =>
          /\ messages[r].by \in Sends /\ messages[r].dir = "in"
          /\ sends'[messages[r].by].at \in {"stored", "done"}
          /\ messages[r].text = sends'[messages[r].by].text /\ messages[r].files = sends'[messages[r].by].files
    BY <1>1, <2>1 DEF Correspond
  <2>4. \A n \in Sends : sends'[n].at = "stored" => \E r \in DOMAIN messages : messages[r].by = n
    BY <1>1, <2>1 DEF Correspond
  <2> QED BY <2>1, <2>2, <2>3, <2>4 DEF Correspond
<1>5. Temporary(sends', temps')
  BY <1>1, <1>2, <1>3 DEF SendsShown, Temporary
<1>6. ASSUME Kept(messages, sends, temps, page.shown) PROVE Kept(messages, sends', temps', page.shown)
  <2>1. \A text : SendsOf(sends', text) = SendsOf(sends, text)
    BY <1>1 DEF SendsOf
  <2>2. \A text : ShownAs(text, temps') = ShownAs(text, temps)
    <3> TAKE text
    <3>1. \A n \in Sends : (\E i \in DOMAIN temps' : temps'[i].n = n /\ temps'[i].text = text)
                           <=> \E i \in DOMAIN temps : temps[i].n = n /\ temps[i].text = text
      BY <1>2
    <3> QED BY <3>1 DEF ShownAs
  <2>3. Counted(messages, sends', temps', page.shown)
    BY <1>6, <2>1, <2>2 DEF Kept, Counted
  <2>4. \A n \in Sends : Coming(messages, sends', n, page.shown) => Coming(messages, sends, n, page.shown)
    BY <1>1 DEF Coming
  <2>5. NoneTaken(messages, sends', temps', page.shown)
    <3>1. NoneTaken(messages, sends, temps, page.shown)
      BY <1>6 DEF Kept
    <3> QED BY <1>1, <1>2, <2>4, <3>1 DEF NoneTaken
  <2> QED BY <2>3, <2>5 DEF Kept
<1>7. (Plain(sends) => Plain(sends')) /\ (NoneAgain(sends) => NoneAgain(sends'))
  BY <1>1 DEF Plain, NoneAgain
<1> QED BY <1>4, <1>5, <1>6, <1>7 DEF SendsShown

\* Rows are added to what the page shows.
LEMMA SendsAdded ==
  ASSUME ConsoleTypeOK, SendsShown, page.shown \subseteq Ids, UNCHANGED <<messages, sends, odd>>,
         NEW ids, ids \subseteq Ids, temps' = AddMessages(ids), page'.shown = page.shown \cup ids
  PROVE  SendsShown'
<1>1. messages \in Seq(Messages) /\ temps \in Seq(Temps) /\ sends \in [Sends -> OnTheWay]
  BY DEF ConsoleTypeOK
<1>2. Correspond(messages, sends) /\ Temporary(sends, temps)
      /\ (~odd.crossed => Kept(messages, sends, temps, page.shown) /\ Plain(sends))
      /\ (~odd.again => NoneAgain(sends))
  BY DEF SendsShown
<1>3. Temporary(sends, AddMessages(ids))
  BY <1>1, <1>2, AddedShortens DEF AddMessages
<1>4. ~odd.crossed => Kept(messages, sends, AddMessages(ids), page.shown \cup ids)
  BY <1>1, <1>2, AddedKeeps
<1> QED BY <1>2, <1>3, <1>4 DEF SendsShown

LEMMA Appended ==
  ASSUME NEW T, NEW s \in Seq(T), NEW x
  PROVE  /\ DOMAIN s = 1 .. Len(s) /\ Len(s) \in Nat
         /\ DOMAIN Append(s, x) = 1 .. Len(s) + 1 /\ Append(s, x)[Len(s) + 1] = x
         /\ \A i \in DOMAIN s : i \in DOMAIN Append(s, x) /\ Append(s, x)[i] = s[i]
         /\ \A i \in DOMAIN Append(s, x) : i \in DOMAIN s \/ i = Len(s) + 1
         /\ Len(s) + 1 \notin DOMAIN s
  OBVIOUS

\* A row is stored that is of a send, or of the agent.
LEMMA SendsStored ==
  ASSUME ConsoleTypeOK, SendsShown, page.shown \subseteq Ids, page' = page, temps' = temps, odd' = odd,
         NEW row, messages' = Append(messages, row),
         \/ row.by = 0 /\ row.dir = "out" /\ sends' = sends
         \/ /\ row.by \in Sends /\ row.dir = "in" /\ sends[row.by].at = "child"
            /\ row.text = sends[row.by].text /\ row.files = sends[row.by].files
            /\ sends' = [sends EXCEPT ![row.by].at = "stored"]
  PROVE  SendsShown'
<1> DEFINE last == Len(messages) + 1
<1>1. messages \in Seq(Messages) /\ temps \in Seq(Temps) /\ sends \in [Sends -> OnTheWay] /\ 0 \notin Sends
  BY ConsoleConstants DEF ConsoleTypeOK
<1>2. /\ last \in DOMAIN messages' /\ messages'[last] = row /\ last \notin DOMAIN messages
      /\ \A r \in DOMAIN messages : r \in DOMAIN messages' /\ messages'[r] = messages[r]
      /\ \A r \in DOMAIN messages' : r \in DOMAIN messages \/ r = last
  <2>1. \A x : /\ DOMAIN messages = 1 .. Len(messages) /\ Len(messages) \in Nat
               /\ DOMAIN Append(messages, x) = 1 .. Len(messages) + 1 /\ Append(messages, x)[Len(messages) + 1] = x
               /\ \A i \in DOMAIN messages : i \in DOMAIN Append(messages, x) /\ Append(messages, x)[i] = messages[i]
               /\ \A i \in DOMAIN Append(messages, x) : i \in DOMAIN messages \/ i = Len(messages) + 1
               /\ Len(messages) + 1 \notin DOMAIN messages
    BY <1>1, Appended
  <2> QED BY <2>1
<1> HIDE DEF last
<1>3. /\ \A n \in Sends : sends'[n].text = sends[n].text /\ sends'[n].files = sends[n].files
                          /\ (n # row.by => sends'[n] = sends[n])
      /\ row.by \in Sends => sends'[row.by].at = "stored" /\ sends[row.by].at = "child"
  BY <1>1 DEF OnTheWay
<1>4. Correspond(messages, sends)
  BY DEF SendsShown
<1>5. \A r \in DOMAIN messages : messages[r].by = row.by => row.by = 0
  BY <1>1, <1>3, <1>4 DEF Correspond
<1>6. Correspond(messages', sends')
  <2>1. \A n \in Sends : IF sends'[n].at = "no" THEN sends'[n] = NoSend
                         ELSE sends'[n].text \in Texts /\ \A m \in Earlier(n) : sends'[m].at # "no"
    <3>1. \A n \in Sends : sends'[n].at # "no" <=> sends[n].at # "no"
      BY <1>3
    <3>2. \A n \in Sends : \A m \in Earlier(n) : m \in Sends
      BY ConsoleConstants
    <3>3. \A n \in Sends : sends'[n].at = "no" => sends'[n] = sends[n]
      BY <1>3
    <3> QED BY <1>3, <1>4, <3>1, <3>2, <3>3 DEF Correspond
  <2>2. \A r \in DOMAIN messages' : messages'[r].by # 0 =>
          /\ messages'[r].by \in Sends /\ messages'[r].dir = "in"
          /\ sends'[messages'[r].by].at \in {"stored", "done"}
          /\ messages'[r].text = sends'[messages'[r].by].text
          /\ messages'[r].files = sends'[messages'[r].by].files
    <3> TAKE r \in DOMAIN messages'
    <3>1. CASE r \in DOMAIN messages
      BY <1>2, <1>3, <1>4, <1>5, <3>1 DEF Correspond
    <3>2. CASE r = last
      BY <1>2, <1>3, <3>2
    <3> QED BY <1>2, <3>1, <3>2
  <2>3. \A r, o \in DOMAIN messages' : messages'[r].by # 0 /\ messages'[r].by = messages'[o].by => r = o
    BY <1>2, <1>4, <1>5 DEF Correspond
  <2>4. \A n \in Sends : sends'[n].at = "stored" => \E r \in DOMAIN messages' : messages'[r].by = n
    <3> TAKE n \in Sends
    <3>1. CASE n = row.by
      BY <1>2, <3>1
    <3>2. CASE n # row.by
      <4>1. sends'[n].at = "stored" => \E r \in DOMAIN messages : messages[r].by = n
        BY <1>3, <1>4, <3>2 DEF Correspond
      <4> QED BY <1>2, <4>1
    <3> QED BY <3>1, <3>2
  <2> QED BY <2>1, <2>2, <2>3, <2>4 DEF Correspond
<1>7. Temporary(sends', temps)
  <2>1. \A i \in DOMAIN temps : temps[i].n \in Sends
    BY <1>1, TempFields
  <2>2. \A n \in Sends : sends[n].at # "no" => sends'[n].at # "no"
    BY <1>3
  <2> QED BY <1>3, <2>1, <2>2 DEF SendsShown, Temporary
<1>8. ASSUME Kept(messages, sends, temps, page.shown) PROVE Kept(messages', sends', temps, page.shown)
  <2>1. \A text : SendsOf(sends', text) = SendsOf(sends, text)
    BY <1>3 DEF SendsOf
  <2>2. \A text : StoredAs(messages', text, page.shown) = StoredAs(messages, text, page.shown)
    <3>1. \A r \in page.shown : messages'[r] = messages[r]
      BY <1>2 DEF Ids
    <3> QED BY <3>1 DEF StoredAs
  <2>3. Counted(messages', sends', temps, page.shown)
    BY <1>8, <2>1, <2>2 DEF Kept, Counted
  <2>4. ASSUME NEW n \in Sends, Coming(messages', sends', n, page.shown) PROVE Coming(messages, sends, n, page.shown)
    <3>1. CASE n = row.by
      BY <1>3, <3>1 DEF Coming
    <3>2. CASE n # row.by
      <4>1. \A r \in (DOMAIN messages') \ page.shown : messages'[r].by = n =>
              r \in (DOMAIN messages) \ page.shown /\ messages[r].by = n
        BY <1>2, <3>2
      <4> QED BY <1>3, <2>4, <3>2, <4>1 DEF Coming
    <3> QED BY <3>1, <3>2
  <2>5. NoneTaken(messages, sends, temps, page.shown)
    BY <1>8 DEF Kept
  <2>6. \A r \in (DOMAIN messages') \ page.shown : messages'[r].dir = "in" /\ messages'[r].by = 0 =>
          r \in (DOMAIN messages) \ page.shown /\ messages'[r] = messages[r]
    BY <1>1, <1>2
  <2>7. \A n \in Sends : sends'[n].files /\ Coming(messages', sends', n, page.shown) =>
          \A i \in DOMAIN temps : temps[i].files /\ temps[i].at = "sending" => temps[i].n = n
    BY <1>3, <2>4, <2>5 DEF NoneTaken
  <2>8. \A r \in (DOMAIN messages') \ page.shown : messages'[r].dir = "in" /\ messages'[r].by = 0 =>
          \A i \in DOMAIN temps : /\ temps[i].text # messages'[r].text
                                  /\ messages'[r].files => ~(temps[i].files /\ temps[i].at = "sending")
    BY <2>5, <2>6 DEF NoneTaken
  <2>9. NoneTaken(messages', sends', temps, page.shown)
    BY <2>7, <2>8 DEF NoneTaken
  <2> QED BY <2>3, <2>9 DEF Kept
<1>9. (Plain(sends) => Plain(sends')) /\ (NoneAgain(sends) => NoneAgain(sends'))
  <2>1. \A n \in Sends : sends'[n].at # "no" <=> sends[n].at # "no"
    BY <1>3
  <2> QED BY <1>3, <2>1 DEF Plain, NoneAgain
<1> QED BY <1>6, <1>7, <1>8, <1>9 DEF SendsShown

\* With another send nothing is counted twice, and none taken for another one, but in
\* the cases that are noted.
LEMMA Submitted ==
  ASSUME ConsoleTypeOK, SendsShown, page.shown \subseteq Ids,
         NEW n \in Sends, NEW text \in Texts, NEW files \in BOOLEAN, HandleSubmit(n, text, files)
  PROVE  SendsShown'
<1> DEFINE temp == [n |-> n, text |-> text, files |-> files, at |-> "sending"]
           last == Len(temps) + 1
           crossed == \/ odd.crossed
                      \/ files /\ \E m \in Earlier(n): sends[m].files /\ Underway(m)
                      \/ files /\ \E i \in DOMAIN temps: temps[i].files /\ temps[i].at = "sending"
                      \/ \E m \in Earlier(n): sends[m].text = text /\ (files \/ sends[m].files)
                      \/ \E r \in Unshown: messages[r].text = text \/ (files /\ messages[r].files)
           again == odd.again \/ \E m \in Earlier(n): sends[m].text = text
<1>1. /\ messages \in Seq(Messages) /\ temps \in Seq(Temps) /\ sends \in [Sends -> OnTheWay] /\ 0 \notin Sends
      /\ Sends \subseteq Nat /\ \A m \in Sends : Earlier(m) \subseteq Sends
      /\ odd \in [crossed : BOOLEAN, again : BOOLEAN, state : BOOLEAN]
  BY ConsoleConstants DEF ConsoleTypeOK
<1>2. /\ sends[n].at = "no" /\ \A m \in Earlier(n): sends[m].at # "no"
      /\ UNCHANGED <<messages, agentState, console, page, pipe, missed, outages>>
      /\ temps' = Append(temps, temp)
      /\ odd' = [odd EXCEPT !.crossed = crossed, !.again = again]
      /\ sends' = [sends EXCEPT ![n] = [at |-> "wire", text |-> text, files |-> files,
                                        via |-> IF page.link = "open" THEN "ws" ELSE "http"]]
  BY DEF HandleSubmit
<1>3. Correspond(messages, sends) /\ Temporary(sends, temps)
  BY DEF SendsShown
<1>4. odd'.crossed = crossed /\ odd'.again = again
  <2>1. crossed \in BOOLEAN /\ again \in BOOLEAN
    OBVIOUS
  <2> HIDE DEF crossed, again
  <2> QED BY <1>1, <1>2, <2>1
<1>5. /\ sends'[n].at = "wire" /\ sends'[n].text = text /\ sends'[n].files = files
      /\ \A m \in Sends : m # n => sends'[m] = sends[m]
  BY <1>1, <1>2
<1>6. sends[n] = NoSend /\ sends[n].text = "none" /\ "none" \notin Texts
  BY <1>2, <1>3, ConsoleAssumption DEF Correspond, NoSend
\* Those that have begun are earlier ones.
<1>7. ASSUME NEW m \in Sends, sends[m].at # "no" PROVE m \in Earlier(n)
  <2>1. m # n /\ m \in Nat /\ n \in Nat /\ 1 <= m
    BY <1>1, <1>2, <1>7
  <2>2. ~(n < m)
    <3>1. \A l \in Earlier(m) : sends[l].at # "no"
      BY <1>3, <1>7 DEF Correspond
    <3>2. n < m => n \in Earlier(m)
      BY <1>1, <2>1 DEF Earlier
    <3> QED BY <1>2, <3>1, <3>2
  <2> QED BY <2>1, <2>2 DEF Earlier
<1>8. ASSUME NEW m \in Sends, sends[m].text \in Texts PROVE sends[m].at # "no"
  BY <1>3, <1>6, <1>8 DEF Correspond, NoSend
<1>9. \A r \in DOMAIN messages : messages[r].by # n
  BY <1>1, <1>2, <1>3 DEF Correspond
<1>10. /\ temps'[last] = temp /\ last \in DOMAIN temps' /\ last \notin DOMAIN temps
       /\ \A i \in DOMAIN temps : i \in DOMAIN temps' /\ temps'[i] = temps[i]
       /\ \A i \in DOMAIN temps' : i \in DOMAIN temps \/ i = last
  <2> HIDE DEF temp
  <2>1. \A x : /\ Append(temps, x)[Len(temps) + 1] = x /\ Len(temps) + 1 \in DOMAIN Append(temps, x)
               /\ \A i \in DOMAIN temps : i \in DOMAIN Append(temps, x) /\ Append(temps, x)[i] = temps[i]
               /\ \A i \in DOMAIN Append(temps, x) : i \in DOMAIN temps \/ i = Len(temps) + 1
               /\ Len(temps) + 1 \notin DOMAIN temps
    BY <1>1
  <2> QED BY <1>2, <2>1
<1>11. temp.n = n /\ temp.text = text /\ temp.files = files /\ temp.at = "sending"
  OBVIOUS
<1> HIDE DEF temp, last
<1>12. \A i \in DOMAIN temps : temps[i].n \in Sends /\ sends[temps[i].n].at # "no" /\ temps[i].n # n
  BY <1>1, <1>2, <1>3, TempFields DEF Temporary
<1>13. Correspond(messages, sends')
  <2>1. \A m \in Sends : IF sends'[m].at = "no" THEN sends'[m] = NoSend
                         ELSE sends'[m].text \in Texts /\ \A l \in Earlier(m) : sends'[l].at # "no"
    <3> TAKE m \in Sends
    <3>1. CASE m = n
      <4>1. \A l \in Earlier(n) : l \in Sends /\ l # n
        BY <1>1, <1>2
      <4> QED BY <1>2, <1>5, <3>1, <4>1
    <3>2. CASE m # n
      <4>1. \A l \in Earlier(m) : l \in Sends /\ (sends[l].at # "no" => sends'[l].at # "no")
        BY <1>1, <1>5
      <4> QED BY <1>3, <1>5, <3>2, <4>1 DEF Correspond
    <3> QED BY <3>1, <3>2
  <2>2. \A r \in DOMAIN messages : messages[r].by # 0 =>
          /\ messages[r].by \in Sends /\ messages[r].dir = "in"
          /\ sends'[messages[r].by].at \in {"stored", "done"}
          /\ messages[r].text = sends'[messages[r].by].text /\ messages[r].files = sends'[messages[r].by].files
    BY <1>3, <1>5, <1>9 DEF Correspond
  <2>3. \A m \in Sends : sends'[m].at = "stored" => \E r \in DOMAIN messages : messages[r].by = m
    BY <1>3, <1>5 DEF Correspond
  <2> QED BY <1>3, <2>1, <2>2, <2>3 DEF Correspond
<1>14. Temporary(sends', temps')
  <2>1. \A i \in DOMAIN temps' : /\ sends'[temps'[i].n].at # "no" /\ temps'[i].text = sends'[temps'[i].n].text
                                 /\ temps'[i].files = sends'[temps'[i].n].files
    <3> TAKE i \in DOMAIN temps'
    <3>1. CASE i = last
      BY <1>5, <1>10, <1>11, <3>1
    <3>2. CASE i \in DOMAIN temps
      BY <1>3, <1>5, <1>10, <1>12, <3>2 DEF Temporary
    <3> QED BY <1>10, <3>1, <3>2
  <2>2. \A i, j \in DOMAIN temps' : temps'[i].n = temps'[j].n => i = j
    <3>1. \A i, j \in DOMAIN temps : temps[i].n = temps[j].n => i = j
      BY <1>3 DEF Temporary
    <3> QED BY <1>10, <1>11, <1>12, <3>1
  <2> QED BY <2>1, <2>2 DEF Temporary
<1>15. ASSUME ~crossed PROVE Kept(messages, sends', temps', page.shown) /\ Plain(sends')
  <2>1. /\ ~odd.crossed
        /\ ~(files /\ \E m \in Earlier(n): sends[m].files /\ Underway(m))
        /\ ~(files /\ \E i \in DOMAIN temps: temps[i].files /\ temps[i].at = "sending")
        /\ ~(\E m \in Earlier(n): sends[m].text = text /\ (files \/ sends[m].files))
        /\ ~(\E r \in Unshown: messages[r].text = text \/ (files /\ messages[r].files))
    BY <1>15
  <2> HIDE DEF crossed, again
  <2>2. Counted(messages, sends, temps, page.shown) /\ NoneTaken(messages, sends, temps, page.shown) /\ Plain(sends)
    BY <2>1 DEF SendsShown, Kept
  <2>3. ASSUME NEW t \in Texts
        PROVE  Cardinality(SendsOf(sends', t) \ StoredAs(messages, t, page.shown)) = Cardinality(ShownAs(t, temps'))
    <3> DEFINE S == SendsOf(sends, t) \ StoredAs(messages, t, page.shown)
               U == ShownAs(t, temps)
               one == IF t = text THEN {n} ELSE {}
    <3>1. n \notin StoredAs(messages, t, page.shown)
      BY <1>9 DEF StoredAs, Ids
    <3>2. SendsOf(sends', t) = SendsOf(sends, t) \cup one /\ n \notin SendsOf(sends, t)
      BY <1>5, <1>6, <2>3 DEF SendsOf
    <3>3. SendsOf(sends', t) \ StoredAs(messages, t, page.shown) = S \cup one /\ n \notin S
      BY <3>1, <3>2
    <3>4. n \notin U
      BY <1>12 DEF ShownAs
    <3>5. ShownAs(t, temps') = U \cup one
      <4>1. \A m \in Sends : (\E i \in DOMAIN temps' : temps'[i].n = m /\ temps'[i].text = t)
              <=> (\E i \in DOMAIN temps : temps[i].n = m /\ temps[i].text = t) \/ (m = n /\ t = text)
        BY <1>10, <1>11
      <4> QED BY <4>1 DEF ShownAs
    <3>6. S \subseteq Sends /\ U \subseteq Sends
      BY DEF SendsOf, ShownAs
    <3>7. Cardinality(S) = Cardinality(U)
      BY <2>2, <2>3 DEF Counted
    <3> HIDE DEF S, U
    <3>8. IsFiniteSet(S) /\ IsFiniteSet(U)
      BY <3>6, FiniteOfSends
    <3>9. CASE t = text
      <4>1. Cardinality(S \cup {n}) = Cardinality(S) + 1 /\ Cardinality(U \cup {n}) = Cardinality(U) + 1
        BY <3>3, <3>4, <3>8, FS_AddElement
      <4> QED BY <3>3, <3>5, <3>7, <3>9, <4>1
    <3>10. CASE t # text
      <4>1. S \cup one = S /\ U \cup one = U
        BY <3>10
      <4> QED BY <3>3, <3>5, <3>7, <4>1
    <3> QED BY <3>9, <3>10
  <2>4. ASSUME NEW m \in Sends, sends'[m].files, Coming(messages, sends', m, page.shown),
               NEW i \in DOMAIN temps', temps'[i].files, temps'[i].at = "sending"
        PROVE  temps'[i].n = m
    <3>1. CASE m = n
      <4>1. files
        BY <1>5, <2>4, <3>1
      <4>2. i \notin DOMAIN temps
        BY <1>10, <2>1, <2>4, <4>1
      <4> QED BY <1>10, <1>11, <3>1, <4>2
    <3>2. CASE m # n
      <4>1. sends[m].files /\ Coming(messages, sends, m, page.shown)
        BY <1>5, <2>4, <3>2 DEF Coming
      <4>2. CASE i \in DOMAIN temps
        BY <1>10, <2>2, <2>4, <4>1, <4>2 DEF NoneTaken
      <4>3. CASE i = last
        <5>1. files
          BY <1>10, <1>11, <2>4, <4>3
        <5>2. sends[m].at # "no"
          BY <1>1, <1>3, <4>1 DEF Coming, Correspond
        <5>3. m \in Earlier(n)
          BY <1>7, <5>2
        <5>4. Underway(m)
          BY <4>1 DEF Coming, Underway, Ids
        <5> QED BY <2>1, <4>1, <5>1, <5>3, <5>4
      <4> QED BY <1>10, <4>2, <4>3
    <3> QED BY <3>1, <3>2
  <2>5. ASSUME NEW r \in (DOMAIN messages) \ page.shown, messages[r].dir = "in", messages[r].by = 0,
               NEW i \in DOMAIN temps'
        PROVE  /\ temps'[i].text # messages[r].text
               /\ messages[r].files => ~(temps'[i].files /\ temps'[i].at = "sending")
    <3>1. CASE i \in DOMAIN temps
      BY <1>10, <2>2, <2>5, <3>1 DEF NoneTaken
    <3>2. CASE i = last
      <4>1. r \in Unshown
        BY <2>5 DEF Unshown, Ids
      <4>2. messages[r].text # text /\ ~(files /\ messages[r].files)
        BY <2>1, <4>1
      <4> QED BY <1>10, <1>11, <3>2, <4>2
    <3> QED BY <1>10, <3>1, <3>2
  <2>6. NoneTaken(messages, sends', temps', page.shown)
    BY <2>4, <2>5 DEF NoneTaken
  <2>7. ASSUME NEW m \in Sends, m # n, sends[m].text = text PROVE ~files /\ ~sends[m].files
    <3>1. m \in Earlier(n)
      BY <1>7, <1>8, <2>7
    <3> QED BY <2>1, <2>7, <3>1
  <2>8. Plain(sends')
    <3> SUFFICES ASSUME NEW l \in Sends, NEW m \in Sends, l # m, sends'[l].at # "no",
                        sends'[l].text = sends'[m].text
                 PROVE  ~sends'[l].files /\ ~sends'[m].files
      BY DEF Plain
    <3>1. CASE l = n
      BY <1>5, <2>7, <3>1
    <3>2. CASE m = n
      BY <1>5, <2>7, <3>2
    <3>3. CASE l # n /\ m # n
      BY <1>5, <2>2, <3>3 DEF Plain
    <3> QED BY <3>1, <3>2, <3>3
  <2> QED BY <2>3, <2>6, <2>8 DEF Kept, Counted
<1>16. ASSUME ~again PROVE NoneAgain(sends')
  <2>1. ~odd.again /\ \A m \in Earlier(n): sends[m].text # text
    BY <1>16
  <2>2. NoneAgain(sends)
    BY <2>1 DEF SendsShown
  <2> HIDE DEF again
  <2>3. \A m \in Sends : m # n => sends[m].text # text
    BY <1>7, <1>8, <2>1
  <2> SUFFICES ASSUME NEW l \in Sends, NEW m \in Sends, sends'[l].at # "no", sends'[l].text = sends'[m].text
               PROVE  l = m
    BY DEF NoneAgain
  <2> QED BY <1>5, <2>2, <2>3 DEF NoneAgain
<1> HIDE DEF crossed, again
<1> QED BY <1>2, <1>4, <1>13, <1>14, <1>15, <1>16 DEF SendsShown

LEMMA SendsStep ==
  ASSUME ConsoleTypeOK, KnownRows, SendsShown, ConsoleNext
  PROVE  SendsShown'
<1>1. /\ sends \in [Sends -> OnTheWay] /\ temps \in Seq(Temps) /\ page \in Pages /\ messages \in Seq(Messages)
      /\ page.shown \subseteq Ids /\ Ids = 1 .. Len(messages) /\ Len(messages) \in Nat
      /\ page.to \in Nat /\ page.last \in Nat /\ page.to <= Len(messages)
      /\ odd \in [crossed : BOOLEAN, again : BOOLEAN, state : BOOLEAN]
      /\ console.last \in Nat /\ console.last <= Len(messages)
  BY PageFields, ConsoleFields DEF ConsoleTypeOK, KnownRows
<1>2. GoesOn(sends, sends) /\ Remarked(temps, temps)
  BY <1>1 DEF GoesOn, Remarked
<1>3. ASSUME messages' = messages, sends' = sends, temps' = temps, page'.shown = page.shown,
             odd'.crossed = odd.crossed, odd'.again = odd.again
      PROVE  SendsShown'
  BY <1>2, <1>3, SendsGoOn
<1>4. CASE ServeHistory
  BY <1>3, <1>4, PageMoves DEF ServeHistory
<1>5. CASE LoadConversations
  <2>1. page'.shown = page.shown \cup 1 .. page.to
    BY <1>5, PageMoves
  <2>2. 1 .. page.to \subseteq Ids
    BY <1>1
  <2> QED BY <1>1, <1>5, <2>1, <2>2, SendsAdded DEF LoadConversations
<1>6. CASE HistoryFails
  BY <1>3, <1>6, PageMoves DEF HistoryFails
<1>7. CASE Connects
  <2>1. odd'.crossed = odd.crossed /\ odd'.again = odd.again
    BY <1>1, <1>7 DEF Connects
  <2> QED BY <1>3, <1>7, <2>1, PageMoves DEF Connects
<1>8. CASE ConnectFails
  BY <1>1, <1>3, <1>8, ReconnectingIs DEF ConnectFails
<1>9. CASE LinkDrops
  <2>1. page' = Reconnecting /\ sends' = [n \in Sends |-> CutOff(sends[n])]
        /\ UNCHANGED <<messages, agentState, console, temps, odd>>
    BY <1>9 DEF LinkDrops
  <2> QED BY <1>1, <1>2, <2>1, CutOffIs, ReconnectingIs, SendsGoOn
<1>10. CASE Receives
  <2> DEFINE frame == Head(pipe)
  <2>1. UNCHANGED <<messages, agentState, console, sends, missed, odd, outages>>
    BY <1>10 DEF Receives
  <2>2. frame.ids \subseteq 1 .. console.last
    BY <1>10, ReceivesIs
  <2>3. \/ temps' = temps /\ page'.shown = page.shown
        \/ temps' = AddMessages(frame.ids) /\ page'.shown = page.shown \cup frame.ids
        \/ temps' = Mark(frame.n, "failed") /\ page'.shown = page.shown
    BY <1>10, ReceivesIs
  <2> HIDE DEF frame
  <2>4. frame.ids \subseteq Ids
    BY <1>1, <2>2
  <2>5. CASE temps' = temps /\ page'.shown = page.shown
    BY <1>3, <2>1, <2>5
  <2>6. CASE temps' = AddMessages(frame.ids) /\ page'.shown = page.shown \cup frame.ids
    BY <1>1, <2>1, <2>4, <2>6, SendsAdded
  <2>7. CASE temps' = Mark(frame.n, "failed") /\ page'.shown = page.shown
    <3>1. Remarked(temps, Mark(frame.n, "failed"))
      BY MarkType DEF Remarked
    <3> QED BY <1>2, <2>1, <2>7, <3>1, SendsGoOn
  <2> QED BY <2>3, <2>5, <2>6, <2>7
<1>11. CASE PollMessages
  <2>1. page'.shown = page.shown \cup (page.last + 1 .. Len(messages))
    BY <1>11, PageMoves
  <2>2. page.last + 1 .. Len(messages) \subseteq Ids
    BY <1>1
  <2> QED BY <1>1, <1>11, <2>1, <2>2, SendsAdded DEF PollMessages
<1>12. CASE UpdateStatusViaHttp
  BY <1>3, <1>12, PageMoves DEF UpdateStatusViaHttp
<1>13. ASSUME NEW n \in Sends, NEW text \in Texts, NEW files \in BOOLEAN, HandleSubmit(n, text, files)
       PROVE  SendsShown'
  BY <1>1, <1>13, Submitted
<1>14. ASSUME NEW n \in Sends, SendConsoleMessage(n) PROVE SendsShown'
  <2>1. sends[n].at = "wire" /\ sends' = [sends EXCEPT ![n].at = "child"]
        /\ UNCHANGED <<messages, agentState, console, page, temps, pipe, missed, odd, outages>>
    BY <1>14 DEF SendConsoleMessage
  <2>2. GoesOn(sends, sends')
    <3>1. sends[n] \in OnTheWay /\ sends[n] # NoSend
      BY <1>1, <2>1 DEF NoSend
    <3>2. /\ [sends[n] EXCEPT !.at = "child"] \in OnTheWay /\ [sends[n] EXCEPT !.at = "child"].at = "child"
          /\ [sends[n] EXCEPT !.at = "child"].text = sends[n].text
          /\ [sends[n] EXCEPT !.at = "child"].files = sends[n].files
      BY <3>1 DEF OnTheWay
    <3>3. sends' \in [Sends -> OnTheWay] /\ sends'[n] = [sends[n] EXCEPT !.at = "child"]
          /\ \A m \in Sends : m # n => sends'[m] = sends[m]
      BY <1>1, <2>1, <3>2
    <3> QED BY <2>1, <3>1, <3>2, <3>3 DEF GoesOn
  <2> QED BY <1>2, <2>1, <2>2, SendsGoOn
<1>15. ASSUME NEW n \in Sends, NEW ok \in BOOLEAN, Answer(n, ok), sends[n].at # "no",
              UNCHANGED <<messages, agentState, console, page, missed, odd, outages>>
       PROVE  SendsShown'
  BY <1>15, AnswerIs, SendsGoOn
<1>16. ASSUME NEW n \in Sends, Refuse(n) PROVE SendsShown'
  BY <1>15, <1>16 DEF Refuse
<1>17. ASSUME NEW n \in Sends, NEW ok \in BOOLEAN, ChildEnds(n, ok) PROVE SendsShown'
  BY <1>15, <1>17 DEF ChildEnds
<1>18. ASSUME NEW n \in Sends, ChildStores(n) PROVE SendsShown'
  <2> DEFINE row == Message("in", sends[n].text, sends[n].files, n)
  <2>1. /\ messages' = Append(messages, row) /\ sends[n].at = "child"
        /\ sends' = [sends EXCEPT ![n].at = "stored"]
        /\ UNCHANGED <<agentState, console, page, temps, pipe, missed, odd, outages>>
    BY <1>18 DEF ChildStores
  <2>2. row.by = n /\ row.dir = "in" /\ row.text = sends[n].text /\ row.files = sends[n].files
    BY DEF Message
  <2> HIDE DEF row
  <2> QED BY <1>1, <2>1, <2>2, SendsStored
<1>19. CASE CheckUpdates
  <2>1. odd'.crossed = odd.crossed /\ odd'.again = odd.again
    BY <1>1, <1>19 DEF CheckUpdates
  <2> QED BY <1>3, <1>19, <2>1 DEF CheckUpdates
<1>20. CASE ServerDies
  <2>1. page'.shown = page.shown
    BY <1>1, <1>20, ReconnectingIs DEF ServerDies
  <2>2. UNCHANGED <<messages, agentState, odd>>
    BY <1>20 DEF ServerDies
  <2> QED BY <1>20, <2>1, <2>2, ServerDiesIs, SendsGoOn
<1>21. CASE ServerStarts
  BY <1>3, <1>21 DEF ServerStarts
<1>22. CASE AgentReplies
  <2> DEFINE row == Message("out", "none", FALSE, 0)
  <2>1. messages' = Append(messages, row)
        /\ UNCHANGED <<agentState, console, page, temps, pipe, sends, missed, odd, outages>>
    BY <1>22 DEF AgentReplies
  <2>2. row.by = 0 /\ row.dir = "out"
    BY DEF Message
  <2> HIDE DEF row
  <2> QED BY <1>1, <2>1, <2>2, SendsStored
<1>23. CASE StateChanges
  BY <1>3, <1>23 DEF StateChanges
<1> QED BY <1>4, <1>5, <1>6, <1>7, <1>8, <1>9, <1>10, <1>11, <1>12, <1>13, <1>14, <1>16, <1>17, <1>18, <1>19,
            <1>20, <1>21, <1>22, <1>23 DEF ConsoleNext

\* What is sent is on the page once.
LEMMA SubmissionsAreKept ==
  ASSUME ConsoleTypeOK, KnownRows, SendsShown
  PROVE  SubmissionsKept
<1> SUFFICES ASSUME ~odd.crossed, NEW text \in Texts
             PROVE  Cardinality({n \in Sends: sends[n].text = text}) =
                      Cardinality({i \in DOMAIN temps: temps[i].text = text})
                      + Cardinality({r \in page.shown: messages[r].by # 0 /\ messages[r].text = text})
  BY DEF SubmissionsKept
<1> DEFINE here == {i \in DOMAIN temps: temps[i].text = text}
           rows == {r \in page.shown: messages[r].by # 0 /\ messages[r].text = text}
           S == SendsOf(sends, text)
           U == ShownAs(text, temps)
           V == StoredAs(messages, text, page.shown)
<1>1. /\ temps \in Seq(Temps) /\ page.shown \subseteq Ids /\ 0 \notin Sends
      /\ Correspond(messages, sends) /\ Temporary(sends, temps)
  BY ConsoleFields, ConsoleConstants DEF ConsoleTypeOK, KnownRows, SendsShown
<1>2. Cardinality(S \ V) = Cardinality(U)
  BY DEF SendsShown, Kept, Counted
<1>3. S \subseteq Sends /\ U \subseteq Sends /\ V \subseteq Sends /\ V \subseteq S
  <2>1. ASSUME NEW n \in V PROVE n \in S
    <3>1. PICK r \in page.shown : messages[r].by = n /\ messages[r].text = text
      BY <2>1 DEF StoredAs
    <3>2. n \in Sends
      BY <2>1 DEF StoredAs
    <3> QED BY <1>1, <3>1, <3>2 DEF Correspond, SendsOf, Ids
  <2> QED BY <2>1 DEF SendsOf, ShownAs, StoredAs
<1>4. IsFiniteSet(S) /\ IsFiniteSet(U) /\ IsFiniteSet(V) /\ Cardinality(S) \in Nat /\ Cardinality(V) \in Nat
  BY <1>3, FiniteOfSends
<1>5. Cardinality(U) = Cardinality(here)
  <2> DEFINE f == [n \in U |-> CHOOSE i \in here : temps[i].n = n]
  <2>1. \A n \in U : \E i \in here : temps[i].n = n
    BY DEF ShownAs
  <2>2. \A n \in U : f[n] \in here /\ temps[f[n]].n = n
    BY <2>1
  <2>3. \A i, j \in here : temps[i].n = temps[j].n => i = j
    BY <1>1 DEF Temporary
  <2>4. \A i \in here : temps[i].n \in U
    BY <1>1, TempFields DEF ShownAs
  <2>5. f \in [U -> here]
    BY <2>2
  <2> HIDE DEF f, here, U
  <2>6. f \in Injection(U, here)
    BY <2>2, <2>5 DEF Injection, IsInjective
  <2>7. f \in Surjection(U, here)
    <3>1. \A i \in here : \E n \in U : f[n] = i
      BY <2>2, <2>3, <2>4
    <3> QED BY <2>5, <3>1 DEF Surjection
  <2>8. ExistsBijection(U, here)
    BY <2>6, <2>7 DEF ExistsBijection, Bijection
  <2> QED BY <1>4, <2>8, FS_Bijection DEF U, here
<1>6. Cardinality(V) = Cardinality(rows)
  <2> DEFINE f == [n \in V |-> CHOOSE r \in rows : messages[r].by = n]
  <2>1. \A n \in V : \E r \in rows : messages[r].by = n
    BY <1>1 DEF StoredAs
  <2>2. \A n \in V : f[n] \in rows /\ messages[f[n]].by = n
    BY <2>1
  <2>3. \A r, o \in rows : messages[r].by = messages[o].by => r = o
    BY <1>1 DEF Correspond, Ids
  <2>4. \A r \in rows : messages[r].by \in V
    BY <1>1 DEF StoredAs, Correspond, Ids
  <2>5. f \in [V -> rows]
    BY <2>2
  <2> HIDE DEF f, rows, V
  <2>6. f \in Injection(V, rows)
    BY <2>2, <2>5 DEF Injection, IsInjective
  <2>7. f \in Surjection(V, rows)
    <3>1. \A r \in rows : \E n \in V : f[n] = r
      BY <2>2, <2>3, <2>4
    <3> QED BY <2>5, <3>1 DEF Surjection
  <2>8. ExistsBijection(V, rows)
    BY <2>6, <2>7 DEF ExistsBijection, Bijection
  <2> QED BY <1>4, <2>8, FS_Bijection DEF V, rows
<1>7. Cardinality(S \ V) = Cardinality(S) - Cardinality(V)
  <2> HIDE DEF S, V
  <2>1. S \cap V = V
    BY <1>3
  <2> QED BY <1>4, <2>1, FS_Difference
<1>8. {n \in Sends: sends[n].text = text} = S
  BY DEF SendsOf
<1> HIDE DEF here, rows, S, U, V
<1>9. Cardinality(S) = Cardinality(here) + Cardinality(rows)
  BY <1>2, <1>4, <1>5, <1>6, <1>7
<1> QED BY <1>8, <1>9 DEF here, rows

\* Steps in which nothing more is answered, and no answer is lost.
LEMMA AnsweredStays ==
  ASSUME ConsoleTypeOK, KnownRows, SendsShown, Answered, outages = 0,
         console'.up, page'.link # "polling", page'.load # "failed",
         \A n \in Sends : /\ sends[n].at # "no" => sends'[n].via = sends[n].via
                          /\ sends'[n].at # "no" => sends[n].at # "no"
                          /\ sends'[n].at = "done" => sends[n].at = "done",
         \A i \in DOMAIN temps' : \E j \in DOMAIN temps :
           temps'[i].n = temps[j].n /\ (temps'[i].at = "sending" => temps[j].at = "sending"),
         \A r \in Ids : r \in Ids' /\ messages'[r] = messages[r],
         \A k \in DOMAIN pipe : pipe[k].kind = "failed" => \E l \in DOMAIN pipe' : pipe'[l] = pipe[k],
         \A r \in missed' : r \in missed \/ messages'[r].by = 0 \/ sends'[messages'[r].by].via # "ws"
  PROVE  Answered'
<1>1. /\ \A n \in Sends : sends[n].at # "no" => sends[n].via # "none"
      /\ \A r \in missed : messages[r].by # 0 => sends[messages[r].by].via # "ws"
      /\ AnswerComes
  BY DEF Answered
<1>2. /\ Correspond(messages, sends) /\ Temporary(sends, temps) /\ temps \in Seq(Temps)
      /\ missed \subseteq Ids
  BY ConsoleFields DEF SendsShown, ConsoleTypeOK, KnownRows
<1>3. \A n \in Sends : sends'[n].at # "no" => sends'[n].via # "none"
  BY <1>1
<1>4. ASSUME NEW r \in missed', messages'[r].by # 0 PROVE sends'[messages'[r].by].via # "ws"
  <2>1. CASE r \in missed
    <3>1. r \in Ids /\ messages'[r] = messages[r]
      BY <1>2, <2>1
    <3>2. messages[r].by \in Sends /\ sends[messages[r].by].at # "no"
      BY <1>2, <1>4, <3>1 DEF Correspond, Ids
    <3> QED BY <1>1, <1>4, <2>1, <3>1, <3>2
  <2> QED BY <1>4, <2>1
<1>5. AnswerComes'
  <2> SUFFICES ASSUME NEW i \in DOMAIN temps', temps'[i].at = "sending", sends'[temps'[i].n].at = "done"
               PROVE  /\ sends'[temps'[i].n].via = "ws"
                      /\ \/ \E k \in DOMAIN pipe' : pipe'[k].kind = "failed" /\ pipe'[k].n = temps'[i].n
                         \/ \E r \in Ids' : messages'[r].by = temps'[i].n
    BY DEF AnswerComes
  <2>1. PICK j \in DOMAIN temps : temps'[i].n = temps[j].n /\ temps[j].at = "sending"
    OBVIOUS
  <2>2. temps[j].n \in Sends
    BY <1>2, TempFields
  <2>3. /\ sends[temps[j].n].via = "ws"
        /\ \/ \E k \in DOMAIN pipe : pipe[k].kind = "failed" /\ pipe[k].n = temps[j].n
           \/ \E r \in Ids : messages[r].by = temps[j].n
    BY <1>1, <2>1, <2>2 DEF AnswerComes
  <2>4. sends'[temps[j].n].via = "ws"
    BY <1>2, <2>2, <2>3 DEF Temporary
  <2> QED BY <2>1, <2>3, <2>4
<1> QED BY <1>3, <1>4, <1>5 DEF Answered

\* An answer comes to the page, or a row tells what it would have said.
LEMMA AnsweredByAnswer ==
  ASSUME ConsoleTypeOK, KnownRows, SendsShown, Answered, outages = 0,
         NEW n \in Sends, NEW ok \in BOOLEAN, Answer(n, ok), sends[n].at # "no", ok => sends[n].at = "stored",
         UNCHANGED <<messages, agentState, console, page, missed, odd, outages>>
  PROVE  Answered'
<1>1. /\ console.up /\ page.link # "polling" /\ page.load # "failed"
      /\ \A m \in Sends : sends[m].at # "no" => sends[m].via # "none"
      /\ \A r \in missed : messages[r].by # 0 => sends[messages[r].by].via # "ws"
      /\ AnswerComes
  BY DEF Answered
<1>2. /\ Correspond(messages, sends) /\ Temporary(sends, temps) /\ temps \in Seq(Temps) /\ pipe \in Seq(Frames)
      /\ missed \subseteq Ids /\ missed' = missed /\ messages' = messages /\ Ids' = Ids
  BY ConsoleFields DEF SendsShown, ConsoleTypeOK, KnownRows, Ids
<1>3. /\ Remarked(temps, temps') /\ sends'[n].at = "done" /\ sends'[n].via = sends[n].via
      /\ \A m \in Sends : m # n => sends'[m] = sends[m]
      /\ temps' = IF sends[n].via # "http" THEN temps ELSE Mark(n, IF ok THEN "sent" ELSE "failed")
      /\ pipe' = IF sends[n].via = "ws" /\ ~ok THEN Append(pipe, Frame("failed", {}, n, "none")) ELSE pipe
  BY AnswerIs
<1>4. \A m \in Sends : sends'[m].at # "no" => sends'[m].via # "none"
  BY <1>1, <1>3
<1>5. \A r \in missed' : messages'[r].by # 0 => sends'[messages'[r].by].via # "ws"
  <2>1. \A r \in missed : messages[r].by # 0 => messages[r].by \in Sends
    BY <1>2 DEF Correspond, Ids
  <2> QED BY <1>1, <1>2, <1>3, <2>1
<1>6. /\ \A k \in DOMAIN pipe : k \in DOMAIN pipe' /\ pipe'[k] = pipe[k]
      /\ sends[n].via = "ws" /\ ~ok => \E k \in DOMAIN pipe' : pipe'[k].kind = "failed" /\ pipe'[k].n = n
  <2>1. \A x : /\ \A k \in DOMAIN pipe : k \in DOMAIN Append(pipe, x) /\ Append(pipe, x)[k] = pipe[k]
               /\ Len(pipe) + 1 \in DOMAIN Append(pipe, x) /\ Append(pipe, x)[Len(pipe) + 1] = x
    BY <1>2, Appended
  <2>2. Frame("failed", {}, n, "none").kind = "failed" /\ Frame("failed", {}, n, "none").n = n
    BY DEF Frame
  <2> QED BY <1>3, <2>1, <2>2
<1>7. ASSUME NEW i \in DOMAIN temps', temps'[i].at = "sending", sends'[temps'[i].n].at = "done"
      PROVE  /\ sends'[temps'[i].n].via = "ws"
             /\ \/ \E k \in DOMAIN pipe' : pipe'[k].kind = "failed" /\ pipe'[k].n = temps'[i].n
                \/ \E r \in Ids' : messages'[r].by = temps'[i].n
  <2>1. i \in DOMAIN temps /\ temps'[i].n = temps[i].n /\ temps[i].at = "sending"
    BY <1>3, <1>7 DEF Remarked
  <2>2. temps[i].n \in Sends
    BY <1>2, <2>1, TempFields
  <2>3. CASE temps[i].n # n
    <3>1. sends[temps[i].n].at = "done" /\ sends'[temps[i].n] = sends[temps[i].n]
      BY <1>3, <1>7, <2>1, <2>2, <2>3
    <3>2. /\ sends[temps[i].n].via = "ws"
          /\ \/ \E k \in DOMAIN pipe : pipe[k].kind = "failed" /\ pipe[k].n = temps[i].n
             \/ \E r \in Ids : messages[r].by = temps[i].n
      BY <1>1, <2>1, <3>1 DEF AnswerComes
    <3> QED BY <1>2, <1>6, <2>1, <3>1, <3>2
  <2>4. CASE temps[i].n = n
    <3>1. sends[n].via # "http"
      <4>1. \A at \in {"sent", "failed"} : Mark(n, at)[i].at = at
        BY <2>1, <2>4, MarkType
      <4> QED BY <1>3, <1>7, <4>1
    <3>2. sends[n].via = "ws"
      <4>1. sends[n] \in OnTheWay
        BY DEF ConsoleTypeOK
      <4> QED BY <1>1, <3>1, <4>1 DEF OnTheWay
    <3>3. CASE ok
      <4>1. \E r \in DOMAIN messages : messages[r].by = n
        BY <1>2, <3>3 DEF Correspond
      <4> QED BY <1>2, <1>3, <2>1, <2>4, <3>2, <4>1 DEF Ids
    <3>4. CASE ~ok
      BY <1>3, <1>6, <2>1, <2>4, <3>2, <3>4
    <3> QED BY <3>3, <3>4
  <2> QED BY <2>3, <2>4
<1>8. AnswerComes'
  BY <1>7 DEF AnswerComes
<1> QED BY <1>1, <1>4, <1>5, <1>8 DEF Answered

LEMMA AnsweredStep ==
  ASSUME ConsoleTypeOK, KnownRows, SendsShown, Answered, ConsoleNext
  PROVE  Answered'
<1> SUFFICES ASSUME outages' = 0 PROVE Answered'
  BY DEF Answered
<1>1. /\ sends \in [Sends -> OnTheWay] /\ temps \in Seq(Temps) /\ page \in Pages /\ messages \in Seq(Messages)
      /\ pipe \in Seq(Frames) /\ outages \in Nat /\ Ids = 1 .. Len(messages) /\ Len(messages) \in Nat
      /\ DOMAIN pipe = 1 .. Len(pipe) /\ Len(pipe) \in Nat
      /\ missed \subseteq Ids /\ console.last \in Nat
      /\ Correspond(messages, sends) /\ Temporary(sends, temps)
  BY ConsoleFields DEF ConsoleTypeOK, KnownRows, SendsShown
<1>2. ~Outage
  BY <1>1 DEF Outage
<1>3. CASE outages # 0
  <2>1. outages' = outages
    BY <1>2 DEF ConsoleNext, ServeHistory, LoadConversations, HistoryFails, Connects, ConnectFails, LinkDrops,
                Receives, PollMessages, UpdateStatusViaHttp, HandleSubmit, SendConsoleMessage, Refuse,
                ChildStores, ChildEnds, CheckUpdates, ServerDies, ServerStarts, AgentReplies, StateChanges
  <2> QED BY <1>3, <2>1
<1>4. CASE outages = 0
  <2>1. /\ console.up /\ page.link # "polling" /\ page.load # "failed"
        /\ \A n \in Sends : sends[n].at # "no" => sends[n].via # "none"
        /\ \A r \in missed : messages[r].by # 0 => sends[messages[r].by].via # "ws"
        /\ AnswerComes
    BY <1>4 DEF Answered
  <2>2. ~HistoryFails /\ ~ConnectFails /\ ~LinkDrops /\ ~PollMessages /\ ~UpdateStatusViaHttp /\ ~ServerDies
        /\ ~ServerStarts
    BY <1>2, <2>1 DEF HistoryFails, ConnectFails, LinkDrops, PollMessages, UpdateStatusViaHttp, ServerDies,
                      ServerStarts
  \* Whatever of it all does not change.
  <2>3. \A i \in DOMAIN temps : \E j \in DOMAIN temps :
          temps[i].n = temps[j].n /\ (temps[i].at = "sending" => temps[j].at = "sending")
    OBVIOUS
  <2>4. \A ids : \A i \in DOMAIN AddMessages(ids) : \E j \in DOMAIN temps :
          /\ AddMessages(ids)[i].n = temps[j].n
          /\ AddMessages(ids)[i].at = "sending" => temps[j].at = "sending"
    <3>1. \A ids : \A i \in DOMAIN AddMessages(ids) : \E j \in DOMAIN temps : AddMessages(ids)[i] = temps[j]
      BY <1>1, AddedShortens DEF AddMessages, Shortened
    <3> QED BY <3>1
  <2>5. \A k \in DOMAIN pipe : pipe[k].kind = "failed" => \E l \in DOMAIN pipe : pipe[l] = pipe[k]
    OBVIOUS
  <2>6. ASSUME messages' = messages, console'.up, page'.link # "polling", page'.load # "failed", sends' = sends,
               missed' = missed,
               \A i \in DOMAIN temps' : \E j \in DOMAIN temps :
                 temps'[i].n = temps[j].n /\ (temps'[i].at = "sending" => temps[j].at = "sending"),
               \A k \in DOMAIN pipe : pipe[k].kind = "failed" => \E l \in DOMAIN pipe' : pipe'[l] = pipe[k]
        PROVE  Answered'
    <3>1. \A r \in Ids : r \in Ids' /\ messages'[r] = messages[r]
      BY <2>6 DEF Ids
    <3>2. \A r \in missed' : r \in missed \/ messages'[r].by = 0 \/ sends'[messages'[r].by].via # "ws"
      BY <2>6
    <3>3. \A n \in Sends : /\ sends[n].at # "no" => sends'[n].via = sends[n].via
                           /\ sends'[n].at # "no" => sends[n].at # "no"
                           /\ sends'[n].at = "done" => sends[n].at = "done"
      BY <2>6
    <3> QED BY <1>4, <2>6, <3>1, <3>2, <3>3, AnsweredStays
  <2>7. CASE ServeHistory
    <3>1. /\ UNCHANGED <<messages, agentState, console, temps, pipe, sends, missed, odd, outages>>
          /\ page'.link = page.link /\ page'.load = "read"
      BY <2>7, PageMoves DEF ServeHistory
    <3> QED BY <2>1, <2>3, <2>5, <2>6, <3>1
  <2>8. CASE LoadConversations
    <3>1. /\ UNCHANGED <<messages, agentState, console, pipe, sends, missed, odd, outages>>
          /\ temps' = AddMessages(1 .. page.to) /\ page'.link = page.link /\ page'.load = "done"
      BY <2>8, PageMoves DEF LoadConversations
    <3> QED BY <2>1, <2>4, <2>5, <2>6, <3>1
  <2>9. CASE Connects
    <3>1. /\ UNCHANGED <<messages, agentState, console, temps, sends, missed, outages>> /\ page.link = "closed"
          /\ page'.link = "open" /\ page'.load = page.load
      BY <2>9, PageMoves DEF Connects
    <3>2. DOMAIN pipe = {}
      BY <3>1 DEF KnownRows
    <3> QED BY <2>1, <2>3, <2>6, <3>1, <3>2
  <2>10. CASE Receives
    <3> DEFINE frame == Head(pipe)
    <3>1. UNCHANGED <<messages, agentState, console, sends, missed, odd, outages>>
      BY <2>10 DEF Receives
    <3>2. /\ frame = pipe[1] /\ Len(pipe) >= 1 /\ pipe' \in Seq(Frames) /\ Len(pipe') = Len(pipe) - 1
          /\ \A i \in 1 .. Len(pipe) - 1 : pipe'[i] = pipe[i + 1]
          /\ page'.link = page.link /\ page'.load = page.load
          /\ \/ frame.kind \in {"status", "messages"} /\ (temps' = temps \/ temps' = AddMessages(frame.ids))
             \/ frame.kind = "failed" /\ temps' = Mark(frame.n, "failed")
      BY <2>10, ReceivesIs
    <3> HIDE DEF frame
    <3>3. \A k \in DOMAIN pipe : k # 1 => k - 1 \in DOMAIN pipe' /\ pipe'[k - 1] = pipe[k]
      <4> TAKE k \in DOMAIN pipe
      <4>1. k # 1 => /\ k - 1 \in 1 .. Len(pipe) - 1 /\ (k - 1) + 1 = k
        BY <1>1
      <4>2. DOMAIN pipe' = 1 .. Len(pipe) - 1
        BY <3>2
      <4> QED BY <3>2, <4>1, <4>2
    <3>4. CASE frame.kind \in {"status", "messages"} /\ (temps' = temps \/ temps' = AddMessages(frame.ids))
      <4>1. \A k \in DOMAIN pipe : pipe[k].kind = "failed" => \E l \in DOMAIN pipe' : pipe'[l] = pipe[k]
        BY <3>2, <3>3, <3>4
      <4>2. \A i \in DOMAIN temps' : \E j \in DOMAIN temps :
              temps'[i].n = temps[j].n /\ (temps'[i].at = "sending" => temps[j].at = "sending")
        BY <2>3, <2>4, <3>4
      <4> QED BY <2>1, <2>6, <3>1, <3>2, <4>1, <4>2
    <3>5. CASE frame.kind = "failed" /\ temps' = Mark(frame.n, "failed")
      <4>1. Ids' = Ids
        BY <3>1 DEF Ids
      <4>2. ASSUME NEW i \in DOMAIN temps', temps'[i].at = "sending", sends'[temps'[i].n].at = "done"
            PROVE  /\ sends'[temps'[i].n].via = "ws"
                   /\ \/ \E k \in DOMAIN pipe' : pipe'[k].kind = "failed" /\ pipe'[k].n = temps'[i].n
                      \/ \E r \in Ids' : messages'[r].by = temps'[i].n
        <5>1. /\ i \in DOMAIN temps /\ temps'[i].n = temps[i].n /\ temps[i].at = "sending"
              /\ temps[i].n # frame.n
          BY <3>5, <4>2, MarkType
        <5>2. /\ sends[temps[i].n].via = "ws"
              /\ \/ \E k \in DOMAIN pipe : pipe[k].kind = "failed" /\ pipe[k].n = temps[i].n
                 \/ \E r \in Ids : messages[r].by = temps[i].n
          BY <2>1, <3>1, <4>2, <5>1 DEF AnswerComes
        <5>3. \A k \in DOMAIN pipe : pipe[k].n = temps[i].n => k # 1
          BY <3>2, <5>1
        <5> QED BY <3>1, <3>3, <4>1, <5>1, <5>2, <5>3
      <4>3. AnswerComes'
        BY <4>2 DEF AnswerComes
      <4> QED BY <2>1, <3>1, <3>2, <4>3 DEF Answered
    <3> QED BY <3>2, <3>4, <3>5
  <2>11. ASSUME NEW n \in Sends, NEW text \in Texts, NEW files \in BOOLEAN, HandleSubmit(n, text, files)
         PROVE  Answered'
    <3> DEFINE temp == [n |-> n, text |-> text, files |-> files, at |-> "sending"]
    <3>1. /\ sends[n].at = "no" /\ temps' = Append(temps, temp)
          /\ sends' = [sends EXCEPT ![n] = [at |-> "wire", text |-> text, files |-> files,
                                            via |-> IF page.link = "open" THEN "ws" ELSE "http"]]
          /\ UNCHANGED <<messages, agentState, console, page, pipe, missed, outages>>
      BY <2>11 DEF HandleSubmit
    <3>2. /\ sends'[n].at = "wire" /\ sends'[n].via \in {"ws", "http"}
          /\ \A m \in Sends : m # n => sends'[m] = sends[m]
      BY <1>1, <3>1
    <3>3. temp.n = n
      OBVIOUS
    <3> HIDE DEF temp
    <3>4. \A i \in DOMAIN temps' : (i \in DOMAIN temps /\ temps'[i] = temps[i]) \/ temps'[i] = temp
      BY <1>1, <3>1, Appended
    <3>5. \A r \in missed : messages[r].by # 0 => messages[r].by \in Sends /\ messages[r].by # n
      BY <1>1, <3>1 DEF Correspond, Ids
    <3>6. ASSUME NEW i \in DOMAIN temps', temps'[i].at = "sending", sends'[temps'[i].n].at = "done"
          PROVE  /\ sends'[temps'[i].n].via = "ws"
                 /\ \/ \E k \in DOMAIN pipe' : pipe'[k].kind = "failed" /\ pipe'[k].n = temps'[i].n
                    \/ \E r \in Ids' : messages'[r].by = temps'[i].n
      <4>1. temps'[i] # temp /\ i \in DOMAIN temps /\ temps'[i] = temps[i]
        BY <3>2, <3>3, <3>4, <3>6
      <4>2. temps[i].n \in Sends /\ temps[i].n # n
        BY <1>1, <3>1, <4>1, TempFields DEF Temporary
      <4>3. sends'[temps[i].n] = sends[temps[i].n] /\ Ids' = Ids
        BY <3>1, <3>2, <4>2 DEF Ids
      <4> QED BY <2>1, <3>1, <3>6, <4>1, <4>3 DEF AnswerComes
    <3>7. AnswerComes'
      BY <3>6 DEF AnswerComes
    <3>8. \A m \in Sends : sends'[m].at # "no" => sends'[m].via # "none"
      BY <2>1, <3>2
    <3>9. \A r \in missed' : messages'[r].by # 0 => sends'[messages'[r].by].via # "ws"
      BY <2>1, <3>1, <3>2, <3>5
    <3> QED BY <2>1, <3>1, <3>7, <3>8, <3>9 DEF Answered
  <2>12. ASSUME NEW n \in Sends, NEW at \in {"child", "stored"}, sends[n].at \notin {"no", "done"},
                sends' = [sends EXCEPT ![n].at = at]
         PROVE  \A m \in Sends : /\ sends[m].at # "no" => sends'[m].via = sends[m].via
                                 /\ sends'[m].at # "no" => sends[m].at # "no"
                                 /\ sends'[m].at = "done" => sends[m].at = "done"
    <3>1. /\ [sends[n] EXCEPT !.at = at].at = at /\ [sends[n] EXCEPT !.at = at].via = sends[n].via
      <4>1. sends[n] \in OnTheWay
        BY <1>1
      <4> QED BY <4>1 DEF OnTheWay
    <3>2. sends'[n] = [sends[n] EXCEPT !.at = at] /\ \A m \in Sends : m # n => sends'[m] = sends[m]
      BY <1>1, <2>12
    <3> QED BY <2>12, <3>1, <3>2
  <2>13. ASSUME NEW n \in Sends, SendConsoleMessage(n) PROVE Answered'
    <3>1. /\ sends[n].at = "wire" /\ sends' = [sends EXCEPT ![n].at = "child"]
          /\ UNCHANGED <<messages, agentState, console, page, temps, pipe, missed, odd, outages>>
      BY <2>13 DEF SendConsoleMessage
    <3>2. \A m \in Sends : /\ sends[m].at # "no" => sends'[m].via = sends[m].via
                           /\ sends'[m].at # "no" => sends[m].at # "no"
                           /\ sends'[m].at = "done" => sends[m].at = "done"
      BY <2>12, <3>1
    <3>3. \A r \in Ids : r \in Ids' /\ messages'[r] = messages[r]
      BY <3>1 DEF Ids
    <3> QED BY <1>4, <2>1, <2>3, <2>5, <3>1, <3>2, <3>3, AnsweredStays
  <2>14. ASSUME NEW n \in Sends, Refuse(n) PROVE Answered'
    BY <1>4, <2>14, AnsweredByAnswer DEF Refuse
  <2>15. ASSUME NEW n \in Sends, NEW ok \in BOOLEAN, ChildEnds(n, ok) PROVE Answered'
    BY <1>4, <2>15, AnsweredByAnswer DEF ChildEnds
  \* Rows that are added.
  <2>16. ASSUME NEW row, messages' = Append(messages, row)
         PROVE  \A r \in Ids : r \in Ids' /\ messages'[r] = messages[r]
    BY <1>1, <2>16, Appended DEF Ids
  <2>17. ASSUME NEW n \in Sends, ChildStores(n) PROVE Answered'
    <3>1. /\ messages' = Append(messages, Message("in", sends[n].text, sends[n].files, n))
          /\ sends[n].at = "child" /\ sends' = [sends EXCEPT ![n].at = "stored"]
          /\ UNCHANGED <<agentState, console, page, temps, pipe, missed, odd, outages>>
      BY <2>17 DEF ChildStores
    <3>2. \A m \in Sends : /\ sends[m].at # "no" => sends'[m].via = sends[m].via
                           /\ sends'[m].at # "no" => sends[m].at # "no"
                           /\ sends'[m].at = "done" => sends[m].at = "done"
      BY <2>12, <3>1
    <3>3. \A r \in Ids : r \in Ids' /\ messages'[r] = messages[r]
      BY <2>16, <3>1
    <3> QED BY <1>4, <2>1, <2>3, <2>5, <3>1, <3>2, <3>3, AnsweredStays
  <2>18. CASE AgentReplies
    <3>1. /\ messages' = Append(messages, Message("out", "none", FALSE, 0))
          /\ UNCHANGED <<agentState, console, page, temps, pipe, sends, missed, odd, outages>>
      BY <2>18 DEF AgentReplies
    <3>2. \A r \in Ids : r \in Ids' /\ messages'[r] = messages[r]
      BY <2>16, <3>1
    <3> QED BY <1>4, <2>1, <2>3, <2>5, <3>1, <3>2, AnsweredStays
  <2>19. CASE CheckUpdates
    <3>1. /\ UNCHANGED <<messages, agentState, page, temps, sends, outages>>
          /\ missed' = Announced(console.last + 1 .. Len(messages))
      BY <2>19 DEF CheckUpdates
    <3>2. console'.up /\ \A i \in 1 .. Len(pipe) : i \in DOMAIN pipe' /\ pipe'[i] = pipe[i]
      BY <2>19, CheckUpdatesIs
    <3>3. \A k \in DOMAIN pipe : pipe[k].kind = "failed" => \E l \in DOMAIN pipe' : pipe'[l] = pipe[k]
      BY <1>1, <3>2
    <3>4. ASSUME NEW r \in missed' PROVE r \in missed \/ messages'[r].by = 0 \/ sends'[messages'[r].by].via # "ws"
      <4>1. CASE page.link = "open"
        BY <3>1, <3>4, <4>1, AnnouncedIs
      <4>2. CASE page.link # "open"
        <5>1. r \in missed \/ r \in console.last + 1 .. Len(messages)
          BY <3>1, <3>4, AnnouncedIs
        <5>2. r \in Ids
          <6>1. \A o \in console.last + 1 .. Len(messages) : o \in 1 .. Len(messages)
            BY <1>1
          <6> QED BY <1>1, <5>1, <6>1
        <5>3. messages[r].by # 0 => messages[r].by \in Sends
          BY <1>1, <5>2 DEF Correspond, Ids
        <5>4. \A n \in Sends : sends[n].via # "ws"
          BY <4>2 DEF KnownRows
        <5> QED BY <3>1, <5>3, <5>4
      <4> QED BY <4>1, <4>2
    <3>5. \A r \in Ids : r \in Ids' /\ messages'[r] = messages[r]
      BY <3>1 DEF Ids
    <3> QED BY <1>4, <2>1, <2>3, <3>1, <3>2, <3>3, <3>4, <3>5, AnsweredStays
  <2>20. CASE StateChanges
    <3>1. UNCHANGED <<messages, console, page, temps, pipe, sends, missed, odd, outages>>
      BY <2>20 DEF StateChanges
    <3> QED BY <2>1, <2>3, <2>5, <2>6, <3>1
  <2> QED BY <2>2, <2>7, <2>8, <2>9, <2>10, <2>11, <2>13, <2>14, <2>15, <2>17, <2>18, <2>19, <2>20 DEF ConsoleNext
<1> QED BY <1>3, <1>4

\* Without an outage no send is left as being sent.
LEMMA NoneHangs ==
  ASSUME ConsoleTypeOK, KnownRows, Announcements, SendsShown, Answered
  PROVE  NothingHangs
<1> SUFFICES ASSUME outages = 0, ~odd.crossed, ~odd.again,
                    \A n \in Sends: sends[n].at \in {"no", "done"},
                    console.last = Len(messages), pipe = <<>>, page.load \in {"done", "failed"},
                    NEW i \in DOMAIN temps, temps[i].at = "sending"
             PROVE  FALSE
  BY DEF NothingHangs
<1> DEFINE n == temps[i].n
           text == temps[i].text
<1>1. /\ temps \in Seq(Temps) /\ Ids = 1 .. Len(messages)
      /\ Correspond(messages, sends) /\ Temporary(sends, temps)
      /\ Counted(messages, sends, temps, page.shown) /\ NoneAgain(sends)
  BY ConsoleFields DEF ConsoleTypeOK, SendsShown, Kept
<1>2. n \in Sends /\ text \in Texts
  BY <1>1, TempFields
<1>3. sends[n].at = "done" /\ sends[n].text = text
  BY <1>1, <1>2 DEF Temporary
<1> HIDE DEF n
<1>4. sends[n].via = "ws" /\ \E r \in Ids : messages[r].by = n
  BY <1>3 DEF Answered, AnswerComes, n
<1>5. PICK r \in Ids : messages[r].by = n
  BY <1>4
<1>6. n # 0
  BY <1>2, ConsoleConstants
<1>7. r \in page.shown
  <2>1. Heard(r)
    BY <1>1, <1>5 DEF Announcements, Answered
  <2>2. r \notin missed
    BY <1>4, <1>5, <1>6 DEF Answered
  <2>3. r \notin InPipe
    BY InPipeIs
  <2> QED BY <2>1, <2>2, <2>3 DEF Heard
<1>8. messages[r].text = text
  BY <1>1, <1>3, <1>5, <1>6 DEF Correspond, Ids
<1>9. n \in StoredAs(messages, text, page.shown)
  BY <1>2, <1>5, <1>7, <1>8 DEF StoredAs
<1>10. SendsOf(sends, text) \ StoredAs(messages, text, page.shown) = {}
  <2>1. \A m \in SendsOf(sends, text) : m = n
    BY <1>1, <1>2, <1>3 DEF NoneAgain, SendsOf
  <2> QED BY <1>9, <2>1
<1>11. ShownAs(text, temps) = {}
  <2>1. Cardinality(ShownAs(text, temps)) = Cardinality({})
    BY <1>1, <1>2, <1>10 DEF Counted
  <2>2. IsFiniteSet(ShownAs(text, temps))
    <3>1. ShownAs(text, temps) \subseteq Sends
      BY DEF ShownAs
    <3> QED BY <3>1, FiniteOfSends
  <2> QED BY <2>1, <2>2, FS_EmptySet
<1>12. n \in ShownAs(text, temps)
  BY <1>2 DEF ShownAs, n
<1> QED BY <1>11, <1>12

LEMMA ConsoleInvInit == ConsoleInit => ConsoleInv
<1> SUFFICES ASSUME ConsoleInit PROVE ConsoleInv
  OBVIOUS
<1>1. /\ agentState \in States
      /\ console = [up |-> TRUE, last |-> Len(messages), status |-> agentState]
      /\ page = [link |-> "closed", tries |-> 0, load |-> "asked", to |-> 0, last |-> 0,
                 shown |-> {}, status |-> "none"]
      /\ temps = <<>> /\ pipe = <<>> /\ sends = [n \in Sends |-> NoSend]
      /\ missed = {} /\ odd = [crossed |-> FALSE, again |-> FALSE, state |-> FALSE] /\ outages = 0
  BY DEF ConsoleInit
<1>2. messages \in Seq(Messages) /\ Len(messages) \in Nat /\ Ids = 1 .. Len(messages)
      /\ \A r \in DOMAIN messages : messages[r].by = 0
  <2>1. PICK text \in Texts : \E files \in BOOLEAN : messages \in {<<>>, <<Message("in", text, files, 0)>>}
    BY DEF ConsoleInit
  <2>2. PICK files \in BOOLEAN : messages \in {<<>>, <<Message("in", text, files, 0)>>}
    BY <2>1
  <2>3. Message("in", text, files, 0) \in Messages /\ Message("in", text, files, 0).by = 0
    BY DEF Message, Messages
  <2>4. \A m \in Messages : /\ <<m>> \in Seq(Messages) /\ DOMAIN <<m>> = {1} /\ <<m>>[1] = m
    OBVIOUS
  <2>5. messages \in Seq(Messages) /\ \A r \in DOMAIN messages : messages[r].by = 0
    <3>1. CASE messages = <<>>
      BY <3>1
    <3>2. CASE messages = <<Message("in", text, files, 0)>>
      BY <2>3, <2>4, <3>2
    <3> QED BY <2>2, <3>1, <3>2
  <2> QED BY <2>5 DEF Ids
<1>3. NoSend \in OnTheWay /\ NoSend.at = "no" /\ NoSend.via = "none" /\ NoSend.text = "none" /\ NoSend.files = FALSE
  BY DEF NoSend, OnTheWay
<1>4. /\ page \in Pages /\ console \in [up : BOOLEAN, last : Nat, status : States \cup {"none"}]
      /\ odd \in [crossed : BOOLEAN, again : BOOLEAN, state : BOOLEAN]
      /\ sends \in [Sends -> OnTheWay] /\ \A n \in Sends : sends[n] = NoSend
      /\ page.link = "closed" /\ page.load = "asked" /\ page.to = 0 /\ page.last = 0 /\ page.shown = {}
      /\ console.last = Len(messages) /\ console.up
  BY <1>1, <1>2, <1>3 DEF Pages
<1>5. ConsoleTypeOK
  BY <1>1, <1>2, <1>4 DEF ConsoleTypeOK
<1>6. KnownRows
  <2>1. DOMAIN pipe = {} /\ 0 <= Len(messages) /\ Len(messages) <= Len(messages)
    BY <1>1, <1>2
  <2>2. \A n \in Sends : sends[n].via # "ws"
    BY <1>3, <1>4
  <2> QED BY <1>1, <1>4, <2>1, <2>2 DEF KnownRows
<1>7. Announcements
  BY <1>4 DEF Announcements
<1>8. StateComes
  BY <1>4 DEF StateComes
<1>9. Correspond(messages, sends)
  BY <1>2, <1>3, <1>4 DEF Correspond
<1>10. DOMAIN temps = {}
  BY <1>1
<1>11. Temporary(sends, temps)
  BY <1>10 DEF Temporary
<1>12. Kept(messages, sends, temps, page.shown)
  <2>1. \A text \in Texts : SendsOf(sends, text) = {}
    BY <1>3, <1>4, ConsoleAssumption DEF SendsOf
  <2>2. \A text \in Texts : ShownAs(text, temps) = {}
    BY <1>10 DEF ShownAs
  <2>3. \A text \in Texts : SendsOf(sends, text) \ StoredAs(messages, text, page.shown) = ShownAs(text, temps)
    BY <2>1, <2>2
  <2>4. Counted(messages, sends, temps, page.shown)
    BY <2>3 DEF Counted
  <2>5. NoneTaken(messages, sends, temps, page.shown)
    BY <1>10 DEF NoneTaken
  <2> QED BY <2>4, <2>5 DEF Kept
<1>13. Plain(sends) /\ NoneAgain(sends)
  BY <1>3, <1>4 DEF Plain, NoneAgain
<1>14. SendsShown
  BY <1>9, <1>11, <1>12, <1>13 DEF SendsShown
<1>15. Answered
  <2>1. AnswerComes
    BY <1>10 DEF AnswerComes
  <2> QED BY <1>1, <1>3, <1>4, <2>1 DEF Answered
<1> QED BY <1>5, <1>6, <1>7, <1>8, <1>14, <1>15 DEF ConsoleInv

LEMMA ConsoleInvStep ==
  ASSUME ConsoleInv, [ConsoleNext]_consoleVars
  PROVE  ConsoleInv'
<1>1. ConsoleTypeOK /\ KnownRows /\ Announcements /\ StateComes /\ SendsShown /\ Answered
  BY DEF ConsoleInv
<1>2. CASE ConsoleNext
  <2>1. ConsoleTypeOK'
    BY <1>1, <1>2, TypeStep
  <2>2. KnownRows'
    BY <1>1, <1>2, <2>1, KnownStep
  <2>3. Announcements' /\ SendsShown' /\ Answered'
    BY <1>1, <1>2, AnnouncementsStep, SendsStep, AnsweredStep
  <2>4. StateComes'
    BY <1>1, <1>2, <2>1, <2>2, StateStep
  <2> QED BY <2>1, <2>2, <2>3, <2>4 DEF ConsoleInv
<1>3. CASE UNCHANGED consoleVars
  <2>1. /\ messages' = messages /\ agentState' = agentState /\ console' = console /\ page' = page
        /\ temps' = temps /\ pipe' = pipe /\ sends' = sends /\ missed' = missed /\ odd' = odd
        /\ outages' = outages
    BY <1>3 DEF consoleVars
  <2>2. InPipe' = InPipe /\ Ids' = Ids
    BY <2>1 DEF InPipe, Ids
  <2>3. ConsoleTypeOK' /\ KnownRows' /\ SendsShown'
    BY <1>1, <2>1 DEF ConsoleTypeOK, KnownRows, SendsShown
  <2>4. Announcements'
    BY <1>1, <2>1, <2>2 DEF Announcements, Heard
  <2>5. StateComes'
    BY <1>1, <2>1 DEF StateComes, LastState
  <2>6. Answered'
    BY <1>1, <2>1, <2>2 DEF Answered, AnswerComes
  <2> QED BY <2>3, <2>4, <2>5, <2>6 DEF ConsoleInv
<1> QED BY <1>2, <1>3

\* Whatever history, frames, answers, polls and outages come in, and in whatever order,
\* the console's page neither loses nor repeats what was written, leaves nothing as being
\* sent without an outage, and shows the state that the server knows.
THEOREM PageIsTrueCorrect == ConsoleSpec => []PageIsTrue
<1>1. ConsoleInv => PageIsTrue
  BY NothingIsMissing, SubmissionsAreKept, NoneHangs, StateIsShown DEF ConsoleInv, PageIsTrue
<1> QED BY <1>1, ConsoleInvInit, ConsoleInvStep, PTL DEF ConsoleSpec
=============================================================================
