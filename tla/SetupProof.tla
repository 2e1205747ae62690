------------------------------ MODULE SetupProof ------------------------------
(***************************************************************************)
(* Proofs about the instruction files, about yos init, which writes them   *)
(* among much else, and about the hooks of both agents: for any number of  *)
(* releases, runs, syncs, launches, edits, failures and deaths, any        *)
(* runtimes, ports, packages, groups and hooks.                            *)
(***************************************************************************)
EXTENDS Setup, HookSync, ListsProof, FiniteSetTheorems, TLAPS

-----------------------------------------------------------------------------
(* The instruction files *)

Versioned == {"system", "assembler"}
TextsOf(e) == IF e = "output" THEN [system : Nat, text : Nat] ELSE Nat
FilesOf(e) == [of : TextsOf(e), at : Nat]
BackupsOf(e) == [of : TextsOf(e), at : Nat, txn : Nat]
Writers ==
  [at : {"idle", "recover", "stage", "keep", "put", "discard", "undo", "done", "thrown"},
   call : {"none", "fresh", "refresh"}, todo : Seq(Entries), put : Seq(Entries),
   kept : Seq(Entries), text : Nat, wrong : BOOLEAN, residue : BOOLEAN, txn : Nat]

InstructionTypeOK ==
  /\ DOMAIN file = Entries /\ \A e \in Entries : file[e] \in FilesOf(e) \cup {NoFile}
  /\ DOMAIN bak = Entries /\ \A e \in Entries : bak[e] \in BackupsOf(e) \cup {NoFile}
  /\ marker \in [txn : Nat, release : Nat \ {0}] \cup {NoFile}
  /\ writer \in Writers /\ release \in Nat \ {0} /\ stamp \in Nat
  /\ spent \in [runs : Nat, edits : Nat, faults : Nat, deaths : Nat, launches : Nat]

\* YOS.md is never moved, and the seed is only laid where there is none.
UsersOwn ==
  /\ bak["YOS"] = NoFile
  /\ There("YOS") => file["YOS"].of = 1 + spent.edits
  /\ marker = NoFile => spent.edits = 0
  /\ marker # NoFile => There("YOS") /\ marker.txn < stamp

\* A run recovers every backup before it stages.
Recovering ==
  /\ writer.at \in {"recover", "stage"} => writer.put = <<>> /\ writer.kept = <<>>
  /\ writer.at = "recover" =>
       /\ IsInjective(writer.todo) /\ \A e \in ToSet(writer.todo) : bak[e] # NoFile
       /\ writer.wrong \/ \A e \in Entries : bak[e] # NoFile => e \in ToSet(writer.todo)
  /\ writer.at = "stage" => \A e \in Entries : bak[e] = NoFile

\* Until it commits, the backups are its own, and what it has put into place has one.
Moving ==
  writer.at \in {"keep", "put", "undo"} =>
    /\ writer.txn < stamp /\ (marker # NoFile => marker.txn # writer.txn)
    /\ \A e \in Entries : bak[e] # NoFile => bak[e].txn = writer.txn
    /\ marker # NoFile => /\ "YOS" \notin ToSet(writer.put)
                          /\ \A e \in ToSet(writer.put) \cap Versioned : bak[e] # NoFile
    /\ IsInjective(writer.kept) /\ \A e \in ToSet(writer.kept) : bak[e] # NoFile

\* What is not to do any more is in place.
Placing ==
  writer.at \in {"keep", "put"} =>
    /\ IsInjective(writer.todo)
    /\ \A e \in Versioned \ ToSet(writer.todo) : There(e) /\ file[e].of = release
    /\ "YOS" \in ToSet(writer.todo) => marker = NoFile /\ ~There("YOS")
    /\ "YOS" \notin ToSet(writer.todo) => There("YOS")
    /\ \A e \in ToSet(writer.todo) :
         bak[e] = NoFile \/ (writer.at = "put" /\ e = Head(writer.todo))
    /\ writer.at = "put" =>
         /\ writer.todo # <<>>
         /\ marker # NoFile /\ Head(writer.todo) \in Versioned => bak[Head(writer.todo)] # NoFile

\* Once it has committed, its backups are void.
Discarding ==
  writer.at = "discard" =>
    marker # NoFile /\ \A e \in Entries : bak[e] # NoFile => bak[e].txn = marker.txn

InstructionInv ==
  /\ InstructionTypeOK /\ UsersOwn /\ Recovering /\ Moving /\ Placing /\ Discarding /\ OneGeneration

LEMMA EntryFacts ==
  /\ Entries = {"system", "assembler", "YOS", "output"} /\ Versioned \subseteq Entries
  /\ "YOS" \notin Versioned /\ "output" \notin Versioned
BY DEF Entries, Versioned

LEMMA NoSuchFile ==
  ASSUME NEW e \in Entries
  PROVE  /\ NoFile \notin FilesOf(e) /\ NoFile \notin BackupsOf(e)
         /\ NoFile \notin [txn : Nat, release : Nat \ {0}]
<1>1. TextsOf(e) \subseteq Texts
  BY DEF TextsOf, Texts
<1> QED BY <1>1, NoFileAssumption DEF FilesOf, BackupsOf

\* Sequences of entries.
LEMMA TakeHead ==
  ASSUME NEW q \in Seq(Entries), q # <<>>
  PROVE  /\ Head(q) \in Entries /\ Tail(q) \in Seq(Entries) /\ ToSet(Tail(q)) \subseteq Entries
         /\ ToSet(q) = {Head(q)} \cup ToSet(Tail(q))
         /\ IsInjective(q) => IsInjective(Tail(q)) /\ Head(q) \notin ToSet(Tail(q))
<1>1. /\ Head(q) = q[1] /\ Head(q) \in Entries /\ Tail(q) \in Seq(Entries)
      /\ Len(q) \in Nat /\ Len(q) >= 1
      /\ DOMAIN q = 1 .. Len(q) /\ DOMAIN Tail(q) = 1 .. (Len(q) - 1)
      /\ \A i \in 1 .. (Len(q) - 1) : Tail(q)[i] = q[i + 1] /\ i + 1 \in 1 .. Len(q) /\ i + 1 # 1
  OBVIOUS
<1>2. \A i \in 1 .. Len(q) : i = 1 \/ (i - 1 \in 1 .. (Len(q) - 1) /\ q[i] = Tail(q)[i - 1])
  BY <1>1
<1>3. ToSet(q) = {Head(q)} \cup ToSet(Tail(q))
  <2>1. \A e \in ToSet(q) : e \in {Head(q)} \cup ToSet(Tail(q))
    <3> SUFFICES ASSUME NEW i \in 1 .. Len(q) PROVE q[i] \in {Head(q)} \cup ToSet(Tail(q))
      BY <1>1 DEF ToSet
    <3>1. CASE i = 1
      BY <1>1, <3>1
    <3>2. CASE i - 1 \in 1 .. (Len(q) - 1) /\ q[i] = Tail(q)[i - 1]
      BY <1>1, <3>2 DEF ToSet
    <3> QED BY <1>2, <3>1, <3>2
  <2>2. \A e \in ToSet(Tail(q)) : e \in ToSet(q)
    BY <1>1 DEF ToSet
  <2>3. Head(q) \in ToSet(q)
    BY <1>1 DEF ToSet
  <2> QED BY <2>1, <2>2, <2>3
<1>4. ASSUME IsInjective(q)
      PROVE  IsInjective(Tail(q)) /\ Head(q) \notin ToSet(Tail(q))
  <2>1. \A i, j \in 1 .. Len(q) : q[i] = q[j] => i = j
    BY <1>1, <1>4 DEF IsInjective
  <2>2. \A i, j \in 1 .. (Len(q) - 1) : Tail(q)[i] = Tail(q)[j] => i = j
    <3> SUFFICES ASSUME NEW i \in 1 .. (Len(q) - 1), NEW j \in 1 .. (Len(q) - 1), Tail(q)[i] = Tail(q)[j]
                 PROVE  i = j
      OBVIOUS
    <3>1. i + 1 = j + 1
      BY <1>1, <2>1
    <3> QED BY <1>1, <3>1
  <2>3. \A i \in 1 .. (Len(q) - 1) : Tail(q)[i] # q[1]
    <3> SUFFICES ASSUME NEW i \in 1 .. (Len(q) - 1), Tail(q)[i] = q[1] PROVE FALSE
      OBVIOUS
    <3>1. i + 1 = 1
      BY <1>1, <2>1
    <3> QED BY <1>1, <3>1
  <2> QED BY <1>1, <2>2, <2>3 DEF IsInjective, ToSet
<1>5. ToSet(Tail(q)) \subseteq Entries
  <2>1. \A r \in Seq(Entries) : \A i \in DOMAIN r : r[i] \in Entries
    OBVIOUS
  <2> QED BY <1>1, <2>1 DEF ToSet
<1> QED BY <1>1, <1>3, <1>4, <1>5

LEMMA PutFront ==
  ASSUME NEW q \in Seq(Entries), NEW e \in Entries
  PROVE  /\ <<e>> \o q \in Seq(Entries) /\ <<e>> \o q # <<>>
         /\ ToSet(<<e>> \o q) = {e} \cup ToSet(q)
         /\ IsInjective(q) /\ e \notin ToSet(q) => IsInjective(<<e>> \o q)
<1> DEFINE r == <<e>> \o q
<1>1. /\ r \in Seq(Entries) /\ Len(r) = Len(q) + 1 /\ Len(q) \in Nat /\ r[1] = e
      /\ DOMAIN r = 1 .. (Len(q) + 1) /\ DOMAIN q = 1 .. Len(q)
      /\ \A i \in 1 .. Len(q) : i + 1 \in 1 .. (Len(q) + 1) /\ r[i + 1] = q[i]
  OBVIOUS
<1> HIDE DEF r
<1>2. \A i \in 1 .. (Len(q) + 1) : i = 1 \/ (i - 1 \in 1 .. Len(q) /\ r[i] = q[i - 1])
  <2> SUFFICES ASSUME NEW i \in 1 .. (Len(q) + 1), i # 1 PROVE i - 1 \in 1 .. Len(q) /\ r[i] = q[i - 1]
    OBVIOUS
  <2>1. i - 1 \in 1 .. Len(q) /\ (i - 1) + 1 = i
    BY <1>1
  <2> QED BY <1>1, <2>1
<1>3. ToSet(r) = {e} \cup ToSet(q)
  <2>1. \A x \in ToSet(r) : x \in {e} \cup ToSet(q)
    BY <1>1, <1>2 DEF ToSet
  <2>2. \A x \in ToSet(q) : x \in ToSet(r)
    BY <1>1 DEF ToSet
  <2>3. e \in ToSet(r)
    BY <1>1 DEF ToSet
  <2> QED BY <2>1, <2>2, <2>3
<1>4. ASSUME IsInjective(q), e \notin ToSet(q)
      PROVE  IsInjective(r)
  <2>1. /\ \A i, j \in 1 .. Len(q) : q[i] = q[j] => i = j
        /\ \A i \in 1 .. Len(q) : q[i] # e
    BY <1>1, <1>4 DEF IsInjective, ToSet
  <2> SUFFICES ASSUME NEW i \in 1 .. (Len(q) + 1), NEW j \in 1 .. (Len(q) + 1), r[i] = r[j]
               PROVE  i = j
    BY <1>1 DEF IsInjective
  <2>2. CASE i = 1 \/ j = 1
    BY <1>1, <1>2, <2>1, <2>2
  <2>3. CASE i # 1 /\ j # 1
    <3>1. i - 1 = j - 1
      BY <1>2, <2>1, <2>3
    <3> QED BY <1>1, <3>1
  <2> QED BY <2>2, <2>3
<1>5. r # <<>>
  BY <1>1
<1> QED BY <1>1, <1>3, <1>4, <1>5 DEF r

LEMMA NothingLeft ==
  <<>> \in Seq(Entries) /\ ToSet(<<>>) = {} /\ IsInjective(<<>>)
<1>1. DOMAIN <<>> = {} /\ <<>> \in Seq(Entries)
  OBVIOUS
<1> QED BY <1>1 DEF ToSet, IsInjective

\* The backups to recover, each once.
LEMMA AllInSeq ==
  ASSUME NEW S \in SUBSET Entries
  PROVE  SetToSeq(S) \in Seq(Entries) /\ ToSet(SetToSeq(S)) = S /\ IsInjective(SetToSeq(S))
<1>1. IsFiniteSet(S)
  <2>1. IsFiniteSet({})
    BY FS_EmptySet
  <2>2. IsFiniteSet({} \cup {"system"})
    BY <2>1, FS_AddElement
  <2>3. IsFiniteSet(({} \cup {"system"}) \cup {"assembler"})
    BY <2>2, FS_AddElement
  <2>4. IsFiniteSet((({} \cup {"system"}) \cup {"assembler"}) \cup {"YOS"})
    BY <2>3, FS_AddElement
  <2>5. IsFiniteSet(((({} \cup {"system"}) \cup {"assembler"}) \cup {"YOS"}) \cup {"output"})
    BY <2>4, FS_AddElement
  <2>6. Entries = ((({} \cup {"system"}) \cup {"assembler"}) \cup {"YOS"}) \cup {"output"}
    BY EntryFacts
  <2>7. IsFiniteSet(Entries)
    BY <2>5, <2>6
  <2> QED BY <2>7, FS_Subset
<1> DEFINE n == Cardinality(S)
<1>2. n \in Nat /\ ExistsBijection(1 .. n, S)
  BY <1>1, FS_CardinalityType
<1>3. \E f \in [1 .. n -> S] : IsInjective(f)
  BY <1>2 DEF ExistsBijection, Bijection, Injection, IsInjective
<1> DEFINE f == SetToSeq(S)
<1>4. f \in [1 .. n -> S] /\ IsInjective(f)
  BY <1>3 DEF SetToSeq
<1> HIDE DEF f
<1>5. f \in Injection(1 .. n, S)
  BY <1>4 DEF IsInjective, Injection
<1>6. IsFiniteSet(1 .. n) /\ Cardinality(1 .. n) = n
  BY <1>2, FS_Interval
<1>7. f \in Surjection(1 .. n, S)
  BY <1>1, <1>5, <1>6, FS_Injection
<1>8. ToSet(f) = S
  BY <1>4, <1>7 DEF ToSet, Surjection
<1>9. f \in Seq(Entries)
  BY <1>2, <1>4
<1> QED BY <1>4, <1>8, <1>9 DEF f

LEMMA OrderFacts ==
  /\ EntryOrder \in Seq(Entries) /\ IsInjective(EntryOrder) /\ Versioned \subseteq ToSet(EntryOrder)
  /\ "YOS" \in ToSet(EntryOrder) <=> (marker = NoFile /\ ~There("YOS"))
<1>1. CASE marker # NoFile
  <2>1. EntryOrder = <<"system", "output", "assembler">>
    BY <1>1 DEF EntryOrder
  <2>2. DOMAIN <<"system", "output", "assembler">> = {1, 2, 3}
    OBVIOUS
  <2> QED BY <1>1, <2>1, <2>2, EntryFacts DEF ToSet, IsInjective, Versioned
<1>2. CASE marker = NoFile /\ There("YOS")
  <2>1. EntryOrder = <<"system", "assembler", "output">>
    BY <1>2 DEF EntryOrder
  <2>2. DOMAIN <<"system", "assembler", "output">> = {1, 2, 3}
    OBVIOUS
  <2> QED BY <1>2, <2>1, <2>2, EntryFacts DEF ToSet, IsInjective, Versioned
<1>3. CASE marker = NoFile /\ ~There("YOS")
  <2>1. EntryOrder = <<"system", "assembler", "YOS", "output">>
    BY <1>3 DEF EntryOrder
  <2>2. DOMAIN <<"system", "assembler", "YOS", "output">> = {1, 2, 3, 4}
    OBVIOUS
  <2> QED BY <1>3, <2>1, <2>2, EntryFacts DEF ToSet, IsInjective, Versioned
<1> QED BY <1>1, <1>2, <1>3

LEMMA Spent ==
  ASSUME spent \in [runs : Nat, edits : Nat, faults : Nat, deaths : Nat, launches : Nat],
         NEW what \in {"runs", "edits", "faults", "deaths", "launches"}, NEW most, Spend(what, most)
  PROVE  /\ spent' \in [runs : Nat, edits : Nat, faults : Nat, deaths : Nat, launches : Nat]
         /\ spent'.edits = IF what = "edits" THEN spent.edits + 1 ELSE spent.edits
<1>1. CASE what = "runs"
  BY <1>1 DEF Spend
<1>2. CASE what = "edits"
  BY <1>2 DEF Spend
<1>3. CASE what = "faults"
  BY <1>3 DEF Spend
<1>4. CASE what = "deaths"
  BY <1>4 DEF Spend
<1>5. CASE what = "launches"
  BY <1>5 DEF Spend
<1> QED BY <1>1, <1>2, <1>3, <1>4, <1>5

LEMMA SpentOrNot ==
  ASSUME spent \in [runs : Nat, edits : Nat, faults : Nat, deaths : Nat, launches : Nat],
         UNCHANGED spent \/ Spend("faults", MaxFaults)
  PROVE  /\ spent' \in [runs : Nat, edits : Nat, faults : Nat, deaths : Nat, launches : Nat]
         /\ spent'.edits = spent.edits
<1>1. CASE UNCHANGED spent
  BY <1>1
<1>2. CASE Spend("faults", MaxFaults)
  BY <1>2, Spent
<1> QED BY <1>1, <1>2

\* A step that leaves YOS.md, and what there is to recover of the others, as it was.
LEMMA SameToRecover ==
  ASSUME UsersOwn, OneGeneration, marker' = marker, spent'.edits = spent.edits,
         marker \in [txn : Nat, release : Nat \ {0}] \cup {NoFile}, stamp \in Nat,
         stamp' \in Nat, stamp <= stamp', file'["YOS"] = file["YOS"], bak'["YOS"] = bak["YOS"],
         marker # NoFile => \A e \in Versioned : AfterRecovery(e)' = AfterRecovery(e)
  PROVE  UsersOwn' /\ OneGeneration'
<1>1. UsersOwn'
  <2>1. marker # NoFile => marker.txn < stamp'
    BY DEF UsersOwn
  <2> QED BY <2>1 DEF UsersOwn, There
<1>2. OneGeneration'
  BY DEF OneGeneration, AfterRecovery, There, Versioned, UsersOwn
<1> QED BY <1>1, <1>2

\* A step of the writer that moves no file.
LEMMA WriterOnly ==
  ASSUME InstructionInv, UNCHANGED <<file, bak, marker>>,
         spent' \in [runs : Nat, edits : Nat, faults : Nat, deaths : Nat, launches : Nat],
         spent'.edits = spent.edits, stamp' \in Nat, stamp <= stamp', release' \in Nat \ {0},
         writer' \in Writers, Recovering', Moving', Placing', Discarding'
  PROVE  InstructionInv'
<1>1. UsersOwn' /\ OneGeneration'
  BY SameToRecover DEF InstructionInv, InstructionTypeOK, AfterRecovery, There
<1> QED BY <1>1 DEF InstructionInv, InstructionTypeOK

LEMMA AtRest ==
  ASSUME writer'.at \in {"idle", "done", "thrown"}
  PROVE  Recovering' /\ Moving' /\ Placing' /\ Discarding'
BY DEF Recovering, Moving, Placing, Discarding

LEMMA CallStep ==
  ASSUME InstructionInv,
         \/ \E call \in {"fresh", "refresh"} : BeginInstructions(call)
         \/ Recovered \/ RecordFormat \/ Undone \/ WriterEnds \/ WriterDies \/ NewRelease
  PROVE  InstructionInv'
<1> USE DEF InstructionInv, InstructionTypeOK
<1>0. /\ Idle \in Writers /\ Idle.at = "idle" /\ Idle.put = <<>> /\ Idle.kept = <<>> /\ ~Idle.wrong
  <2>1. 0 \in Nat
    OBVIOUS
  <2> QED BY <2>1, NothingLeft DEF Idle, Writers
<1>1. ASSUME NEW call \in {"fresh", "refresh"}, BeginInstructions(call)
      PROVE  InstructionInv'
  <2> DEFINE S == {e \in Entries : bak[e] # NoFile}
             q == SetToSeq(S)
             r == Residue
  <2>1. /\ writer' = [Idle EXCEPT !.at = "recover", !.call = call, !.residue = r, !.todo = q]
        /\ UNCHANGED <<file, bak, marker, release, stamp>> /\ Spend("runs", MaxRuns)
    BY <1>1 DEF BeginInstructions
  <2>2. q \in Seq(Entries) /\ ToSet(q) = S /\ IsInjective(q)
    BY AllInSeq
  <2>3. r \in BOOLEAN
    BY DEF Residue
  <2> HIDE DEF q, r
  <2>4. /\ writer' \in Writers /\ writer'.at = "recover" /\ writer'.todo = q /\ writer'.put = <<>>
        /\ writer'.kept = <<>>
    BY <1>0, <2>1, <2>2, <2>3 DEF Writers
  <2>5. Recovering' /\ Moving' /\ Placing' /\ Discarding'
    BY <2>1, <2>2, <2>4 DEF Recovering, Moving, Placing, Discarding
  <2>6. /\ spent' \in [runs : Nat, edits : Nat, faults : Nat, deaths : Nat, launches : Nat]
        /\ spent'.edits = spent.edits
    BY <2>1, Spent
  <2> QED BY <2>1, <2>4, <2>5, <2>6, WriterOnly
<1>2. CASE Recovered
  <2> DEFINE legacy == There("YOS") \/ There("output")
             refused == \/ writer.wrong
                        \/ marker = NoFile /\ (writer.call = "refresh" \/ (legacy /\ ~writer.residue))
             at == IF refused THEN "thrown" ELSE "stage"
             call == IF marker # NoFile THEN "refresh" ELSE writer.call
  <2>1. /\ writer.at = "recover" /\ writer.todo = <<>>
        /\ writer' = [writer EXCEPT !.at = at, !.call = call]
        /\ UNCHANGED <<file, bak, marker, release, stamp, spent>>
    BY <1>2 DEF Recovered, Writers
  <2>2. at \in {"thrown", "stage"} /\ (at = "stage" => ~writer.wrong) /\ call \in {"none", "fresh", "refresh"}
    BY DEF Writers
  <2> HIDE DEF at, call
  <2>3. /\ writer' \in Writers /\ writer'.at = at /\ writer'.put = writer.put /\ writer'.kept = writer.kept
    BY <2>1, <2>2 DEF Writers
  <2>4. writer.put = <<>> /\ writer.kept = <<>> /\ (at = "stage" => \A e \in Entries : bak[e] = NoFile)
    BY <2>1, <2>2, NothingLeft DEF Recovering
  <2>5. Recovering' /\ Moving' /\ Placing' /\ Discarding'
    BY <2>1, <2>2, <2>3, <2>4 DEF Recovering, Moving, Placing, Discarding
  <2> QED BY <2>1, <2>3, <2>5, WriterOnly
<1>3. CASE RecordFormat
  <2>1. /\ UNCHANGED <<file, bak, marker, release, stamp>> /\ writer' = [writer EXCEPT !.at = "done"]
        /\ UNCHANGED spent \/ Spend("faults", MaxFaults)
    BY <1>3 DEF RecordFormat
  <2>2. writer' \in Writers /\ writer'.at = "done"
    BY <2>1 DEF Writers
  <2> QED BY <2>1, <2>2, SpentOrNot, AtRest, WriterOnly
<1>4. CASE Undone
  <2>1. /\ UNCHANGED <<file, bak, marker, release, stamp, spent>> /\ writer' = [writer EXCEPT !.at = "thrown"]
    BY <1>4 DEF Undone
  <2>2. writer' \in Writers /\ writer'.at = "thrown"
    BY <2>1 DEF Writers
  <2> QED BY <2>1, <2>2, AtRest, WriterOnly
<1>5. CASE WriterEnds
  <2>1. UNCHANGED <<file, bak, marker, release, stamp, spent>> /\ writer' = Idle
    BY <1>5 DEF WriterEnds
  <2> QED BY <1>0, <2>1, AtRest, WriterOnly
<1>6. CASE WriterDies
  <2>1. UNCHANGED <<file, bak, marker, release, stamp>> /\ writer' = Idle /\ Spend("deaths", MaxDeaths)
    BY <1>6 DEF WriterDies
  <2>2. /\ spent' \in [runs : Nat, edits : Nat, faults : Nat, deaths : Nat, launches : Nat]
        /\ spent'.edits = spent.edits
    BY <2>1, Spent
  <2> QED BY <1>0, <2>1, <2>2, AtRest, WriterOnly
<1>7. CASE NewRelease
  <2>1. /\ UNCHANGED <<file, bak, marker, writer, stamp, spent>> /\ writer.at = "idle" /\ release' = release + 1
    BY <1>7 DEF NewRelease
  <2>2. release' \in Nat \ {0}
    BY <2>1
  <2> QED BY <2>1, <2>2, AtRest, WriterOnly
<1> QED BY <1>1, <1>2, <1>3, <1>4, <1>5, <1>6, <1>7

LEMMA RecoverStep ==
  ASSUME InstructionInv, Recover
  PROVE  InstructionInv'
<1> USE DEF InstructionInv, InstructionTypeOK
<1> DEFINE e == Head(writer.todo)
           rest == Tail(writer.todo)
<1>1. /\ writer.at = "recover" /\ writer.todo # <<>> /\ UNCHANGED <<marker, release, stamp>>
  BY DEF Recover
<1>2. writer.todo \in Seq(Entries)
  BY DEF Writers
<1>3. /\ e \in Entries /\ rest \in Seq(Entries) /\ ToSet(writer.todo) = {e} \cup ToSet(rest)
      /\ ToSet(rest) \subseteq Entries
      /\ IsInjective(rest) /\ e \notin ToSet(rest) /\ bak[e] # NoFile /\ e # "YOS"
  BY <1>1, <1>2, TakeHead DEF Recovering, UsersOwn
<1>4. writer.put = <<>> /\ writer.kept = <<>>
  BY <1>1 DEF Recovering
<1>5. CASE /\ file' = IF Returns(bak[e])
                      THEN [file EXCEPT ![e] = [of |-> bak[e].of, at |-> bak[e].at]] ELSE file
           /\ bak' = [bak EXCEPT ![e] = NoFile]
           /\ writer' = [writer EXCEPT !.todo = Tail(@)] /\ UNCHANGED spent
  <2>1. writer' = [writer EXCEPT !.todo = rest]
    BY <1>5 DEF Writers
  <2> DEFINE b == [of |-> bak[e].of, at |-> bak[e].at]
  <2>2. b \in FilesOf(e) /\ b.of = bak[e].of /\ b # NoFile
    <3>1. bak[e] \in BackupsOf(e)
      BY <1>3
    <3>2. b \in FilesOf(e) /\ b.of = bak[e].of
      BY <3>1 DEF BackupsOf, FilesOf
    <3> QED BY <1>3, <3>2, NoSuchFile
  <2>3. /\ file'[e] = IF Returns(bak[e]) THEN b ELSE file[e]
        /\ bak'[e] = NoFile /\ \A q \in Entries \ {e} : file'[q] = file[q] /\ bak'[q] = bak[q]
        /\ DOMAIN file' = Entries /\ DOMAIN bak' = Entries
    BY <1>3, <1>5
  <2> HIDE DEF e, rest, b
  <2>4. /\ writer' \in Writers /\ writer'.at = "recover" /\ writer'.todo = rest /\ writer'.put = <<>>
        /\ writer'.kept = <<>> /\ writer'.wrong = writer.wrong
    BY <1>1, <1>3, <1>4, <2>1 DEF Writers
  <2>5. InstructionTypeOK'
    BY <1>1, <1>3, <1>5, <2>2, <2>3, <2>4
  <2>6. marker # NoFile => \A q \in Versioned : AfterRecovery(q)' = AfterRecovery(q)
    BY <1>1, <1>3, <2>2, <2>3, EntryFacts DEF AfterRecovery, There, Returns
  <2>7. UsersOwn' /\ OneGeneration'
    <3>1. file'["YOS"] = file["YOS"] /\ bak'["YOS"] = bak["YOS"]
      BY <1>3, <2>3, EntryFacts
    <3> QED BY <1>1, <1>5, <2>6, <3>1, SameToRecover
  <2>8. Recovering'
    <3>1. \A q \in ToSet(rest) : bak'[q] # NoFile
      BY <1>1, <1>3, <2>3 DEF Recovering
    <3>2. writer.wrong \/ \A q \in Entries : bak'[q] # NoFile => q \in ToSet(rest)
      BY <1>1, <1>3, <2>3 DEF Recovering
    <3> HIDE DEF InstructionInv, InstructionTypeOK
    <3> QED BY <1>3, <2>4, <3>1, <3>2 DEF Recovering
  <2>9. Moving' /\ Placing' /\ Discarding'
    BY <2>4 DEF Moving, Placing, Discarding
  <2> QED BY <2>5, <2>7, <2>8, <2>9
<1>6. CASE /\ Spend("faults", MaxFaults) /\ UNCHANGED <<file, bak>>
           /\ writer' = [[writer EXCEPT !.todo = Tail(@)] EXCEPT !.wrong = TRUE]
  <2>1. writer' = [writer EXCEPT !.todo = rest, !.wrong = TRUE]
    BY <1>6 DEF Writers
  <2> HIDE DEF e, rest
  <2>2. /\ writer' \in Writers /\ writer'.at = "recover" /\ writer'.todo = rest /\ writer'.put = <<>>
        /\ writer'.kept = <<>> /\ writer'.wrong
    BY <1>1, <1>3, <1>4, <2>1 DEF Writers
  <2>3. Recovering' /\ Moving' /\ Placing' /\ Discarding'
    BY <1>1, <1>3, <1>6, <2>2 DEF Recovering, Moving, Placing, Discarding
  <2> QED BY <1>1, <1>6, <2>2, <2>3, SpentOrNot, WriterOnly
<1> QED BY <1>5, <1>6 DEF Recover

LEMMA StageStep ==
  ASSUME InstructionInv, Stage
  PROVE  InstructionInv'
<1> USE DEF InstructionInv, InstructionTypeOK
<1> DEFINE text == IF There("YOS") THEN file["YOS"].of ELSE 1
           order == EntryOrder
<1>1. /\ writer.at = "stage" /\ stamp' = stamp + 1 /\ UNCHANGED <<file, bak, marker, release>>
      /\ \/ /\ writer' = [writer EXCEPT !.at = "keep", !.todo = order, !.text = text, !.txn = stamp]
            /\ UNCHANGED spent
         \/ /\ writer' = [[writer EXCEPT !.at = "keep", !.todo = order, !.text = text, !.txn = stamp]
                            EXCEPT !.at = "undo"]
            /\ Spend("faults", MaxFaults)
  BY DEF Stage
<1>2. text \in Nat
  BY DEF UsersOwn
<1>3. /\ order \in Seq(Entries) /\ IsInjective(order) /\ Versioned \subseteq ToSet(order)
      /\ "YOS" \in ToSet(order) <=> (marker = NoFile /\ ~There("YOS"))
  BY OrderFacts
<1>4. writer.put = <<>> /\ writer.kept = <<>> /\ \A e \in Entries : bak[e] = NoFile
  BY <1>1 DEF Recovering
<1> HIDE DEF text, order
<1>5. /\ writer' \in Writers /\ writer'.at \in {"keep", "undo"} /\ writer'.todo = order
      /\ writer'.txn = stamp /\ writer'.put = <<>> /\ writer'.kept = <<>>
  <2> DEFINE y == [writer EXCEPT !.at = "keep", !.todo = order, !.text = text, !.txn = stamp]
  <2>1. y \in Writers /\ y.at = "keep" /\ y.todo = order /\ y.txn = stamp /\ y.put = <<>> /\ y.kept = <<>>
    BY <1>2, <1>3, <1>4 DEF Writers
  <2>2. writer' = y \/ writer' = [y EXCEPT !.at = "undo"]
    BY <1>1
  <2> HIDE DEF y
  <2>3. CASE writer' = [y EXCEPT !.at = "undo"]
    BY <2>1, <2>3 DEF Writers
  <2> QED BY <2>1, <2>2, <2>3
<1>6. Recovering' /\ Discarding'
  BY <1>5 DEF Recovering, Discarding
<1>7. Moving'
  <2>1. stamp < stamp' /\ (marker # NoFile => marker.txn # stamp)
    BY <1>1 DEF UsersOwn
  <2> QED BY <1>1, <1>4, <1>5, <2>1, NothingLeft DEF Moving
<1>8. Placing'
  <2>1. "YOS" \notin ToSet(order) => There("YOS")
    BY <1>3 DEF UsersOwn
  <2>2. \A e \in ToSet(order) : bak[e] = NoFile
    BY <1>3, <1>4 DEF ToSet
  <2> QED BY <1>1, <1>3, <1>5, <2>1, <2>2 DEF Placing, There
<1>9. stamp' \in Nat /\ stamp <= stamp'
  BY <1>1
<1> QED BY <1>1, <1>5, <1>6, <1>7, <1>8, <1>9, SpentOrNot, WriterOnly

LEMMA KeepStep ==
  ASSUME InstructionInv, Keep
  PROVE  InstructionInv'
<1> USE DEF InstructionInv, InstructionTypeOK
<1> DEFINE e == Head(writer.todo)
           rest == Tail(writer.todo)
<1>1. writer.at = "keep" /\ writer.todo # <<>> /\ UNCHANGED <<marker, release, stamp>>
  BY DEF Keep
<1>2. writer.todo \in Seq(Entries) /\ writer.kept \in Seq(Entries)
  BY DEF Writers
<1>3. /\ e \in Entries /\ ToSet(writer.todo) = {e} \cup ToSet(rest) /\ ToSet(rest) \subseteq Entries
      /\ IsInjective(writer.todo) /\ e \notin ToSet(rest) /\ bak[e] = NoFile
      /\ e = "YOS" => marker = NoFile /\ ~There("YOS")
  BY <1>1, <1>2, TakeHead DEF Placing
<1>4. CASE There(e) /\ Spend("faults", MaxFaults) /\ writer' = [writer EXCEPT !.at = "undo"] /\ UNCHANGED <<file, bak>>
  <2>1. /\ writer' \in Writers /\ writer'.at = "undo" /\ writer'.put = writer.put /\ writer'.kept = writer.kept
        /\ writer'.txn = writer.txn
    BY <1>4 DEF Writers
  <2>2. Recovering' /\ Placing' /\ Discarding'
    BY <2>1 DEF Recovering, Placing, Discarding
  <2>3. Moving'
    BY <1>1, <1>4, <2>1 DEF Moving
  <2> QED BY <1>1, <1>4, <2>1, <2>2, <2>3, SpentOrNot, WriterOnly
<1>5. CASE ~There(e) /\ writer' = [writer EXCEPT !.at = "put"] /\ UNCHANGED <<file, bak, spent>>
  <2>1. /\ writer' \in Writers /\ writer'.at = "put" /\ writer'.put = writer.put /\ writer'.kept = writer.kept
        /\ writer'.txn = writer.txn /\ writer'.todo = writer.todo
    BY <1>5 DEF Writers
  <2>2. Recovering' /\ Discarding'
    BY <2>1 DEF Recovering, Discarding
  <2>3. Moving'
    BY <1>1, <1>5, <2>1 DEF Moving
  <2>4. ~(marker # NoFile /\ e \in Versioned)
    <3> SUFFICES ASSUME marker # NoFile, e \in Versioned PROVE FALSE
      OBVIOUS
    <3>1. AfterRecovery(e) = 0
      BY <1>3, <1>5 DEF AfterRecovery
    <3>2. AfterRecovery(e) = marker.release /\ marker.release # 0
      BY DEF OneGeneration, Versioned
    <3> QED BY <3>1, <3>2
  <2> HIDE DEF e, rest
  <2>5. Placing'
    <3>1. e = Head(writer.todo)
      BY DEF e
    <3> QED BY <1>1, <1>5, <2>1, <2>4, <3>1 DEF Placing, There
  <2> QED BY <1>1, <1>5, <2>1, <2>2, <2>3, <2>5, WriterOnly
<1>6. CASE /\ There(e)
           /\ bak' = [bak EXCEPT ![e] = [of |-> file[e].of, at |-> file[e].at, txn |-> writer.txn]]
           /\ file' = [file EXCEPT ![e] = NoFile]
           /\ writer' = [writer EXCEPT !.at = "put", !.kept = <<e>> \o @] /\ UNCHANGED spent
  <2> DEFINE b == [of |-> file[e].of, at |-> file[e].at, txn |-> writer.txn]
             kept == <<e>> \o writer.kept
  <2>1. b \in BackupsOf(e) /\ b.of = file[e].of /\ b.txn = writer.txn /\ b # NoFile
    <3>1. file[e] \in FilesOf(e) /\ writer.txn \in Nat
      BY <1>3, <1>6 DEF There, Writers
    <3>2. b \in BackupsOf(e) /\ b.of = file[e].of /\ b.txn = writer.txn
      BY <3>1 DEF BackupsOf, FilesOf
    <3> QED BY <1>3, <3>2, NoSuchFile
  <2>2. /\ file'[e] = NoFile /\ bak'[e] = b /\ DOMAIN file' = Entries /\ DOMAIN bak' = Entries
        /\ \A q \in Entries \ {e} : file'[q] = file[q] /\ bak'[q] = bak[q]
    BY <1>3, <1>6
  <2>3. kept \in Seq(Entries) /\ ToSet(kept) = {e} \cup ToSet(writer.kept) /\ IsInjective(kept)
    <3>1. IsInjective(writer.kept) /\ e \notin ToSet(writer.kept)
      BY <1>1, <1>3 DEF Moving
    <3> QED BY <1>2, <1>3, <3>1, PutFront
  <2>4. writer' = [writer EXCEPT !.at = "put", !.kept = kept]
    BY <1>6 DEF Writers
  <2>5. e = Head(writer.todo) /\ e # "YOS"
    BY <1>3, <1>6
  <2>6. ToSet(writer.kept) \subseteq Entries /\ ToSet(writer.put) \subseteq Entries
    <3>1. \A r \in Seq(Entries) : \A i \in DOMAIN r : r[i] \in Entries
      OBVIOUS
    <3> QED BY <3>1 DEF ToSet, Writers
  <2> HIDE DEF e, rest, b, kept
  <2>7. /\ writer' \in Writers /\ writer'.at = "put" /\ writer'.todo = writer.todo /\ writer'.put = writer.put
        /\ writer'.kept = kept /\ writer'.txn = writer.txn
    BY <2>3, <2>4 DEF Writers
  <2>8. InstructionTypeOK'
    BY <1>1, <1>3, <1>6, <2>1, <2>2, <2>7
  <2>9. Moving'
    <3>1. /\ writer.txn < stamp /\ (marker # NoFile => marker.txn # writer.txn)
          /\ \A q \in Entries : bak[q] # NoFile => bak[q].txn = writer.txn
          /\ marker # NoFile => /\ "YOS" \notin ToSet(writer.put)
                                /\ \A q \in ToSet(writer.put) \cap Versioned : bak[q] # NoFile
          /\ \A q \in ToSet(writer.kept) : bak[q] # NoFile
      BY <1>1 DEF Moving
    <3>2. \A q \in Entries : bak[q] # NoFile => bak'[q] # NoFile
      BY <2>1, <2>2
    <3>3. \A q \in Entries : bak'[q] # NoFile => bak'[q].txn = writer.txn
      BY <2>1, <2>2, <3>1
    <3>4. \A q \in ToSet(kept) : bak'[q] # NoFile
      BY <2>1, <2>2, <2>3, <2>6, <3>1, <3>2
    <3>5. marker # NoFile => \A q \in ToSet(writer.put) \cap Versioned : bak'[q] # NoFile
      BY <2>6, <3>1, <3>2
    <3> HIDE DEF InstructionInv, InstructionTypeOK
    <3> QED BY <1>1, <2>3, <2>7, <3>1, <3>3, <3>4, <3>5 DEF Moving
  <2>10. Placing'
    <3>1. /\ \A q \in Versioned \ ToSet(writer.todo) : There(q)' /\ file'[q].of = release
          /\ "YOS" \in ToSet(writer.todo) => marker = NoFile /\ ~There("YOS")'
          /\ "YOS" \notin ToSet(writer.todo) => There("YOS")'
      BY <1>1, <1>3, <2>2, <2>5, EntryFacts DEF Placing, There
    <3>2. \A q \in ToSet(writer.todo) : bak'[q] = NoFile \/ q = Head(writer.todo)
      BY <1>1, <1>3, <2>2, <2>5 DEF Placing
    <3>3. bak'[Head(writer.todo)] # NoFile
      BY <2>1, <2>2, <2>5
    <3> HIDE DEF InstructionInv, InstructionTypeOK
    <3> QED BY <1>1, <1>3, <2>7, <3>1, <3>2, <3>3 DEF Placing
  <2>11. UsersOwn' /\ OneGeneration'
    <3>1. file'["YOS"] = file["YOS"] /\ bak'["YOS"] = bak["YOS"]
      BY <2>2, <2>5, EntryFacts
    <3>2. marker # NoFile => \A q \in Versioned : AfterRecovery(q)' = AfterRecovery(q)
      <4>1. marker # NoFile => marker.txn # writer.txn
        BY <1>1 DEF Moving
      <4> QED BY <1>1, <1>3, <1>6, <2>1, <2>2, <4>1, EntryFacts DEF AfterRecovery, There
    <3> QED BY <1>1, <1>6, <3>1, <3>2, SameToRecover
  <2>12. Recovering' /\ Discarding'
    BY <2>7 DEF Recovering, Discarding
  <2> QED BY <2>8, <2>9, <2>10, <2>11, <2>12
<1> QED BY <1>4, <1>5, <1>6 DEF Keep

LEMMA SubsetEntries ==
  \A q \in Seq(Entries) : ToSet(q) \subseteq Entries
<1>1. \A q \in Seq(Entries) : \A i \in DOMAIN q : q[i] \in Entries
  OBVIOUS
<1> QED BY <1>1 DEF ToSet

LEMMA PutStep ==
  ASSUME InstructionInv, Put
  PROVE  InstructionInv'
<1> USE DEF InstructionInv, InstructionTypeOK
<1> DEFINE e == Head(writer.todo)
           rest == Tail(writer.todo)
<1>1. writer.at = "put" /\ UNCHANGED <<bak, marker, release, stamp>>
  BY DEF Put
<1>2. writer.todo \in Seq(Entries) /\ writer.put \in Seq(Entries) /\ writer.todo # <<>>
  BY <1>1 DEF Writers, Placing
<1>3. /\ e \in Entries /\ ToSet(writer.todo) = {e} \cup ToSet(rest) /\ ToSet(rest) \subseteq Entries
      /\ rest \in Seq(Entries) /\ IsInjective(rest) /\ e \notin ToSet(rest)
      /\ e = "YOS" => marker = NoFile /\ ~There("YOS")
      /\ marker # NoFile /\ e \in Versioned => bak[e] # NoFile
  BY <1>1, <1>2, TakeHead DEF Placing
<1>4. CASE Spend("faults", MaxFaults) /\ writer' = [writer EXCEPT !.at = "undo"] /\ UNCHANGED file
  <2>1. /\ writer' \in Writers /\ writer'.at = "undo" /\ writer'.put = writer.put /\ writer'.kept = writer.kept
        /\ writer'.txn = writer.txn
    BY <1>4 DEF Writers
  <2>2. Recovering' /\ Placing' /\ Discarding'
    BY <2>1 DEF Recovering, Placing, Discarding
  <2>3. Moving'
    BY <1>1, <1>4, <2>1 DEF Moving
  <2> QED BY <1>1, <1>4, <2>1, <2>2, <2>3, SpentOrNot, WriterOnly
<1>5. CASE /\ file' = [file EXCEPT ![e] = [of |-> Content(e), at |-> writer.txn]]
           /\ writer' = [writer EXCEPT !.at = "keep", !.todo = Tail(@), !.put = <<e>> \o @]
           /\ UNCHANGED spent
  <2> DEFINE c == Content(e)
             f == [of |-> c, at |-> writer.txn]
             put == <<e>> \o writer.put
  <2>1. /\ c \in TextsOf(e) /\ (e = "YOS" => c = 1) /\ (e \in Versioned => c = release)
    BY <1>3, EntryFacts DEF Content, TextsOf, Writers, Versioned
  <2> HIDE DEF c
  <2>2. f \in FilesOf(e) /\ f.of = c /\ f # NoFile
    <3>1. writer.txn \in Nat
      BY DEF Writers
    <3>2. f \in FilesOf(e) /\ f.of = c
      BY <2>1, <3>1 DEF FilesOf
    <3> QED BY <1>3, <3>2, NoSuchFile
  <2>3. /\ file'[e] = f /\ DOMAIN file' = Entries /\ \A q \in Entries \ {e} : file'[q] = file[q]
    BY <1>3, <1>5 DEF c
  <2>4. put \in Seq(Entries) /\ ToSet(put) = {e} \cup ToSet(writer.put)
    BY <1>2, <1>3, PutFront
  <2>5. writer' = [writer EXCEPT !.at = "keep", !.todo = rest, !.put = put]
    BY <1>5 DEF Writers
  <2>6. ToSet(writer.put) \subseteq Entries /\ e = Head(writer.todo)
    BY <1>2, SubsetEntries
  <2> HIDE DEF e, rest, f, put
  <2>7. /\ writer' \in Writers /\ writer'.at = "keep" /\ writer'.todo = rest /\ writer'.put = put
        /\ writer'.kept = writer.kept /\ writer'.txn = writer.txn
    BY <1>3, <2>4, <2>5 DEF Writers
  <2>8. InstructionTypeOK'
    BY <1>1, <1>3, <1>5, <2>2, <2>3, <2>7
  <2>9. Moving'
    <3>1. /\ writer.txn < stamp /\ (marker # NoFile => marker.txn # writer.txn)
          /\ \A q \in Entries : bak[q] # NoFile => bak[q].txn = writer.txn
          /\ marker # NoFile => /\ "YOS" \notin ToSet(writer.put)
                                /\ \A q \in ToSet(writer.put) \cap Versioned : bak[q] # NoFile
          /\ IsInjective(writer.kept) /\ \A q \in ToSet(writer.kept) : bak[q] # NoFile
      BY <1>1 DEF Moving
    <3> HIDE DEF InstructionInv, InstructionTypeOK
    <3> QED BY <1>1, <1>3, <2>4, <2>7, <3>1 DEF Moving
  <2>10. Placing'
    <3>1. /\ \A q \in Versioned \ ToSet(writer.todo) : There(q) /\ file[q].of = release
          /\ "YOS" \in ToSet(writer.todo) => marker = NoFile /\ ~There("YOS")
          /\ "YOS" \notin ToSet(writer.todo) => There("YOS")
          /\ \A q \in ToSet(writer.todo) : bak[q] = NoFile \/ q = e
      BY <1>1, <2>6 DEF Placing
    <3>2. \A q \in Versioned \ ToSet(rest) : There(q)' /\ file'[q].of = release
      BY <1>3, <2>1, <2>2, <2>3, <3>1, EntryFacts DEF There
    <3>3. /\ "YOS" \in ToSet(rest) => marker = NoFile /\ ~There("YOS")'
          /\ "YOS" \notin ToSet(rest) => There("YOS")'
      BY <1>3, <2>2, <2>3, <3>1, EntryFacts DEF There
    <3>4. \A q \in ToSet(rest) : bak[q] = NoFile
      BY <1>3, <3>1
    <3> HIDE DEF InstructionInv, InstructionTypeOK
    <3> QED BY <1>1, <1>3, <2>7, <3>2, <3>3, <3>4 DEF Placing
  <2>11. UsersOwn' /\ OneGeneration'
    <3>1. CASE e = "YOS"
      <4>1. marker = NoFile /\ marker' = NoFile /\ spent'.edits = 0 /\ file'["YOS"].of = 1 /\ bak'["YOS"] = NoFile
        BY <1>1, <1>3, <1>5, <2>1, <2>2, <2>3, <3>1 DEF UsersOwn
      <4> QED BY <4>1 DEF UsersOwn, OneGeneration
    <3>2. CASE e # "YOS"
      <4>1. file'["YOS"] = file["YOS"] /\ bak'["YOS"] = bak["YOS"]
        BY <1>1, <2>3, <3>2, EntryFacts
      <4>2. marker # NoFile => marker.txn # writer.txn /\ \A q \in Entries : bak[q] # NoFile => bak[q].txn = writer.txn
        BY <1>1 DEF Moving
      <4>3. marker # NoFile => \A q \in Versioned : AfterRecovery(q)' = AfterRecovery(q)
        BY <1>1, <1>3, <2>3, <4>2, EntryFacts DEF AfterRecovery, There
      <4> QED BY <1>1, <1>5, <4>1, <4>3, SameToRecover
    <3> QED BY <3>1, <3>2
  <2>12. Recovering' /\ Discarding'
    BY <2>7 DEF Recovering, Discarding
  <2> QED BY <2>8, <2>9, <2>10, <2>11, <2>12
<1> QED BY <1>4, <1>5 DEF Put

LEMMA CommitStep ==
  ASSUME InstructionInv, Commit
  PROVE  InstructionInv'
<1> USE DEF InstructionInv, InstructionTypeOK
<1>1. writer.at = "keep" /\ writer.todo = <<>> /\ UNCHANGED <<file, bak, release, stamp>>
  BY DEF Commit
<1>2. CASE Spend("faults", MaxFaults) /\ writer' = [writer EXCEPT !.at = "undo"] /\ UNCHANGED marker
  <2>1. /\ writer' \in Writers /\ writer'.at = "undo" /\ writer'.put = writer.put /\ writer'.kept = writer.kept
        /\ writer'.txn = writer.txn
    BY <1>2 DEF Writers
  <2>2. Recovering' /\ Placing' /\ Discarding'
    BY <2>1 DEF Recovering, Placing, Discarding
  <2>3. Moving'
    BY <1>1, <1>2, <2>1 DEF Moving
  <2> QED BY <1>1, <1>2, <2>1, <2>2, <2>3, SpentOrNot, WriterOnly
<1>3. CASE /\ marker' = [txn |-> writer.txn, release |-> release] /\ UNCHANGED spent
           /\ writer' = [writer EXCEPT !.at = "discard", !.put = <<>>]
  <2>1. writer' \in Writers /\ writer'.at = "discard"
    BY <1>3, NothingLeft DEF Writers
  <2>2. /\ marker' \in [txn : Nat, release : Nat \ {0}] /\ marker' # NoFile
        /\ marker'.txn = writer.txn /\ marker'.release = release
    <3>1. writer.txn \in Nat
      BY DEF Writers
    <3>2. marker' \in [txn : Nat, release : Nat \ {0}] /\ marker'.txn = writer.txn /\ marker'.release = release
      BY <1>3, <3>1
    <3> QED BY <3>2, NoSuchFile, EntryFacts
  <2>3. /\ \A q \in Versioned : There(q) /\ file[q].of = release
        /\ There("YOS")
    BY <1>1, NothingLeft DEF Placing
  <2>4. writer.txn < stamp /\ \A q \in Entries : bak[q] # NoFile => bak[q].txn = writer.txn
    BY <1>1 DEF Moving
  <2>5. InstructionTypeOK'
    BY <1>1, <1>3, <2>1, <2>2
  <2>6. UsersOwn'
    BY <1>1, <1>3, <2>2, <2>3, <2>4 DEF UsersOwn, There
  <2>7. OneGeneration'
    <3>1. \A q \in Versioned : AfterRecovery(q)' = release
      BY <1>1, <2>2, <2>3, <2>4, EntryFacts DEF AfterRecovery, There
    <3>2. AfterRecovery("YOS")' = 1 + spent'.edits
      BY <1>1, <1>3, <2>3 DEF AfterRecovery, There, UsersOwn
    <3> QED BY <2>2, <3>1, <3>2 DEF OneGeneration, Versioned
  <2>8. Discarding'
    BY <1>1, <2>1, <2>2, <2>4 DEF Discarding
  <2>9. Recovering' /\ Moving' /\ Placing'
    BY <2>1 DEF Recovering, Moving, Placing
  <2> QED BY <2>5, <2>6, <2>7, <2>8, <2>9
<1> QED BY <1>2, <1>3 DEF Commit

LEMMA DiscardStep ==
  ASSUME InstructionInv, DiscardBackup
  PROVE  InstructionInv'
<1> USE DEF InstructionInv, InstructionTypeOK
<1> DEFINE e == Head(writer.kept)
           rest == Tail(writer.kept)
<1>1. /\ writer.at = "discard" /\ writer.kept # <<>> /\ UNCHANGED <<file, marker, release, stamp>>
      /\ UNCHANGED spent \/ Spend("faults", MaxFaults)
      /\ bak' = [bak EXCEPT ![e] = NoFile] \/ UNCHANGED bak
  BY DEF DiscardBackup
<1>2. writer' = [writer EXCEPT !.kept = rest] /\ writer.kept \in Seq(Entries)
  BY DEF DiscardBackup, Writers
<1>3. e \in Entries /\ rest \in Seq(Entries)
  BY <1>1, <1>2, TakeHead
<1>4. /\ DOMAIN bak' = Entries /\ \A q \in Entries : bak'[q] \in {bak[q], NoFile}
  BY <1>1, <1>3
<1> HIDE DEF e, rest
<1>5. writer' \in Writers /\ writer'.at = "discard"
  BY <1>1, <1>2, <1>3 DEF Writers
<1>6. marker # NoFile /\ \A q \in Entries : bak[q] # NoFile => bak[q].txn = marker.txn
  BY <1>1 DEF Discarding
<1>7. /\ spent' \in [runs : Nat, edits : Nat, faults : Nat, deaths : Nat, launches : Nat]
      /\ spent'.edits = spent.edits
  BY <1>1, SpentOrNot
<1>8. InstructionTypeOK'
  BY <1>1, <1>4, <1>5, <1>7
<1>9. UsersOwn' /\ OneGeneration'
  <2>1. file'["YOS"] = file["YOS"] /\ bak'["YOS"] = bak["YOS"]
    BY <1>1, <1>4, EntryFacts DEF UsersOwn
  <2>2. \A q \in Versioned : AfterRecovery(q)' = AfterRecovery(q)
    BY <1>1, <1>4, <1>6, EntryFacts DEF AfterRecovery, There
  <2> QED BY <1>1, <1>7, <2>1, <2>2, SameToRecover
<1>10. Discarding'
  BY <1>1, <1>4, <1>6 DEF Discarding
<1>11. Recovering' /\ Moving' /\ Placing'
  BY <1>5 DEF Recovering, Moving, Placing
<1> QED BY <1>8, <1>9, <1>10, <1>11

LEMMA UndoStep ==
  ASSUME InstructionInv, RemovePut \/ RestoreKept
  PROVE  InstructionInv'
<1> USE DEF InstructionInv, InstructionTypeOK
<1>1. writer.at = "undo" /\ UNCHANGED <<marker, release, stamp>>
  BY DEF RemovePut, RestoreKept
<1>2. /\ writer.txn < stamp /\ (marker # NoFile => marker.txn # writer.txn)
      /\ \A q \in Entries : bak[q] # NoFile => bak[q].txn = writer.txn
      /\ marker # NoFile => /\ "YOS" \notin ToSet(writer.put)
                            /\ \A q \in ToSet(writer.put) \cap Versioned : bak[q] # NoFile
      /\ IsInjective(writer.kept) /\ \A q \in ToSet(writer.kept) : bak[q] # NoFile
  BY <1>1 DEF Moving
<1>3. writer.put \in Seq(Entries) /\ writer.kept \in Seq(Entries)
  BY DEF Writers
<1>4. CASE RemovePut
  <2> DEFINE e == Head(writer.put)
             rest == Tail(writer.put)
  <2>1. writer.put # <<>> /\ UNCHANGED bak
    BY <1>4 DEF RemovePut
  <2>2. e \in Entries /\ rest \in Seq(Entries) /\ ToSet(writer.put) = {e} \cup ToSet(rest)
    BY <1>3, <2>1, TakeHead
  <2>3. \/ /\ file' = [file EXCEPT ![e] = NoFile] /\ writer' = [writer EXCEPT !.put = rest] /\ UNCHANGED spent
        \/ /\ Spend("faults", MaxFaults) /\ writer' = [[writer EXCEPT !.put = rest] EXCEPT !.wrong = TRUE]
           /\ UNCHANGED file
    BY <1>4 DEF RemovePut, Writers
  <2>4. /\ DOMAIN file' = Entries /\ file'[e] \in {file[e], NoFile}
        /\ \A q \in Entries \ {e} : file'[q] = file[q]
    BY <2>2, <2>3
  <2> HIDE DEF e, rest
  <2>5. /\ writer' \in Writers /\ writer'.at = "undo" /\ writer'.put = rest /\ writer'.kept = writer.kept
        /\ writer'.txn = writer.txn
    <3>1. CASE writer' = [writer EXCEPT !.put = rest]
      BY <1>1, <2>2, <3>1 DEF Writers
    <3>2. CASE writer' = [[writer EXCEPT !.put = rest] EXCEPT !.wrong = TRUE]
      BY <1>1, <2>2, <3>2 DEF Writers
    <3> QED BY <2>3, <3>1, <3>2
  <2>6. /\ spent' \in [runs : Nat, edits : Nat, faults : Nat, deaths : Nat, launches : Nat]
        /\ spent'.edits = spent.edits
    BY <2>3, SpentOrNot
  <2>7. InstructionTypeOK'
    BY <1>1, <2>1, <2>2, <2>4, <2>5, <2>6
  <2>8. UsersOwn' /\ OneGeneration'
    <3>1. CASE e = "YOS"
      <4>1. marker = NoFile
        BY <1>2, <2>2, <3>1
      <4> QED BY <1>1, <2>1, <2>4, <2>6, <3>1, <4>1 DEF UsersOwn, OneGeneration, There
    <3>2. CASE e # "YOS"
      <4>1. file'["YOS"] = file["YOS"] /\ bak'["YOS"] = bak["YOS"]
        BY <2>1, <2>4, <3>2, EntryFacts
      <4>2. marker # NoFile => \A q \in Versioned : AfterRecovery(q)' = AfterRecovery(q)
        BY <1>1, <1>2, <2>1, <2>2, <2>4, EntryFacts DEF AfterRecovery, There
      <4> QED BY <1>1, <2>6, <4>1, <4>2, SameToRecover
    <3> QED BY <3>1, <3>2
  <2>9. Moving'
    <3> HIDE DEF InstructionInv, InstructionTypeOK
    <3> QED BY <1>1, <1>2, <2>1, <2>2, <2>5 DEF Moving
  <2>10. Recovering' /\ Placing' /\ Discarding'
    BY <2>5 DEF Recovering, Placing, Discarding
  <2> QED BY <2>7, <2>8, <2>9, <2>10
<1>5. CASE RestoreKept
  <2> DEFINE e == Head(writer.kept)
             rest == Tail(writer.kept)
             b == [of |-> bak[e].of, at |-> bak[e].at]
  <2>1. writer.put = <<>> /\ writer.kept # <<>>
    BY <1>5 DEF RestoreKept
  <2>2. /\ e \in Entries /\ rest \in Seq(Entries) /\ ToSet(writer.kept) = {e} \cup ToSet(rest)
        /\ ToSet(rest) \subseteq Entries /\ IsInjective(rest) /\ e \notin ToSet(rest)
    BY <1>2, <1>3, <2>1, TakeHead
  <2>3. \/ /\ file' = [file EXCEPT ![e] = b] /\ bak' = [bak EXCEPT ![e] = NoFile]
           /\ writer' = [writer EXCEPT !.kept = rest] /\ UNCHANGED spent
        \/ /\ Spend("faults", MaxFaults) /\ writer' = [[writer EXCEPT !.kept = rest] EXCEPT !.wrong = TRUE]
           /\ UNCHANGED <<file, bak>>
    BY <1>5 DEF RestoreKept, Writers
  <2>4. bak[e] # NoFile /\ e # "YOS"
    BY <1>2, <2>2 DEF UsersOwn
  <2>5. b \in FilesOf(e) /\ b.of = bak[e].of /\ b # NoFile
    <3>1. bak[e] \in BackupsOf(e)
      BY <2>2, <2>4
    <3>2. b \in FilesOf(e) /\ b.of = bak[e].of
      BY <3>1 DEF BackupsOf, FilesOf
    <3> QED BY <2>2, <3>2, NoSuchFile
  <2> HIDE DEF b
  <2>6. /\ DOMAIN file' = Entries /\ DOMAIN bak' = Entries
        /\ \/ file'[e] = b /\ bak'[e] = NoFile
           \/ file'[e] = file[e] /\ bak'[e] = bak[e]
        /\ \A q \in Entries \ {e} : file'[q] = file[q] /\ bak'[q] = bak[q]
    BY <2>2, <2>3
  <2> HIDE DEF e, rest
  <2>7. /\ writer' \in Writers /\ writer'.at = "undo" /\ writer'.put = writer.put /\ writer'.kept = rest
        /\ writer'.txn = writer.txn
    <3>1. CASE writer' = [writer EXCEPT !.kept = rest]
      BY <1>1, <2>2, <3>1 DEF Writers
    <3>2. CASE writer' = [[writer EXCEPT !.kept = rest] EXCEPT !.wrong = TRUE]
      BY <1>1, <2>2, <3>2 DEF Writers
    <3> QED BY <2>3, <3>1, <3>2
  <2>8. /\ spent' \in [runs : Nat, edits : Nat, faults : Nat, deaths : Nat, launches : Nat]
        /\ spent'.edits = spent.edits
    BY <2>3, SpentOrNot
  <2>9. InstructionTypeOK'
    BY <1>1, <2>2, <2>5, <2>6, <2>7, <2>8
  <2>10. UsersOwn' /\ OneGeneration'
    <3>1. file'["YOS"] = file["YOS"] /\ bak'["YOS"] = bak["YOS"]
      BY <2>4, <2>6, EntryFacts
    <3>2. marker # NoFile => \A q \in Versioned : AfterRecovery(q)' = AfterRecovery(q)
      BY <1>1, <1>2, <2>2, <2>4, <2>5, <2>6, EntryFacts DEF AfterRecovery, There
    <3> QED BY <1>1, <2>8, <3>1, <3>2, SameToRecover
  <2>11. Moving'
    <3>1. /\ \A q \in Entries : bak'[q] # NoFile => bak'[q].txn = writer.txn
          /\ \A q \in ToSet(rest) : bak'[q] # NoFile
      BY <1>2, <2>2, <2>6
    <3> HIDE DEF InstructionInv, InstructionTypeOK
    <3> QED BY <1>1, <1>2, <2>1, <2>2, <2>7, <3>1, NothingLeft DEF Moving
  <2>12. Recovering' /\ Placing' /\ Discarding'
    BY <2>7 DEF Recovering, Placing, Discarding
  <2> QED BY <2>9, <2>10, <2>11, <2>12
<1> QED BY <1>4, <1>5

LEMMA OutsideStep ==
  ASSUME InstructionInv, UserEditsYos \/ Launch
  PROVE  InstructionInv'
<1> USE DEF InstructionInv, InstructionTypeOK
<1>1. marker # NoFile /\ stamp' = stamp + 1 /\ UNCHANGED <<bak, marker, writer, release>>
  BY DEF UserEditsYos, Launch
<1>2. PICK e \in {"YOS", "output"} :
        /\ file'[e] \in FilesOf(e) /\ file'[e] # NoFile
        /\ DOMAIN file' = Entries /\ \A q \in Entries \ {e} : file'[q] = file[q]
        /\ spent' \in [runs : Nat, edits : Nat, faults : Nat, deaths : Nat, launches : Nat]
        /\ IF e = "YOS" THEN spent'.edits = spent.edits + 1 /\ file'["YOS"].of = 1 + spent'.edits
           ELSE spent'.edits = spent.edits
  <2>1. CASE UserEditsYos
    <3> DEFINE f == [of |-> file["YOS"].of + 1, at |-> stamp]
    <3>1. There("YOS") /\ Spend("edits", MaxEdits) /\ file' = [file EXCEPT !["YOS"] = f]
      BY <2>1, EntryFacts DEF UserEditsYos
    <3>2. file["YOS"].of = 1 + spent.edits /\ spent.edits \in Nat
      BY <3>1 DEF UsersOwn
    <3>3. f \in FilesOf("YOS") /\ f.of = 2 + spent.edits
      BY <3>2 DEF FilesOf, TextsOf
    <3>4. f # NoFile
      BY <3>3, NoSuchFile, EntryFacts
    <3> HIDE DEF f
    <3>5. /\ spent' \in [runs : Nat, edits : Nat, faults : Nat, deaths : Nat, launches : Nat]
          /\ spent'.edits = spent.edits + 1
      BY <3>1, Spent
    <3>6. file'["YOS"] = f /\ DOMAIN file' = Entries /\ \A q \in Entries \ {"YOS"} : file'[q] = file[q]
      BY <3>1, EntryFacts
    <3> QED BY <3>2, <3>3, <3>4, <3>5, <3>6
  <2>2. CASE Launch
    <3> DEFINE t == [system |-> file["system"].of, text |-> file["YOS"].of]
               f == [of |-> t, at |-> stamp]
    <3>1. There("system") /\ There("YOS") /\ Spend("launches", MaxLaunches) /\ file' = [file EXCEPT !["output"] = f]
      BY <2>2 DEF Launch
    <3>2. file["system"].of \in Nat /\ file["YOS"].of \in Nat
      BY <3>1, EntryFacts DEF FilesOf, TextsOf, There
    <3>3. t \in [system : Nat, text : Nat]
      BY <3>2
    <3> HIDE DEF t
    <3>4. f \in FilesOf("output")
      BY <3>3 DEF FilesOf, TextsOf
    <3>5. f # NoFile
      BY <3>4, NoSuchFile, EntryFacts
    <3> HIDE DEF f
    <3>6. /\ spent' \in [runs : Nat, edits : Nat, faults : Nat, deaths : Nat, launches : Nat]
          /\ spent'.edits = spent.edits
      BY <3>1, Spent
    <3>7. file'["output"] = f /\ DOMAIN file' = Entries /\ \A q \in Entries \ {"output"} : file'[q] = file[q]
      BY <3>1, EntryFacts
    <3> QED BY <3>4, <3>5, <3>6, <3>7
  <2> QED BY <2>1, <2>2
<1>3. InstructionTypeOK'
  BY <1>1, <1>2, EntryFacts
<1>4. e \notin Versioned /\ stamp' \in Nat /\ stamp <= stamp'
  BY <1>1, EntryFacts
<1>5. UsersOwn'
  BY <1>1, <1>2, <1>4, EntryFacts DEF UsersOwn, There
<1>6. OneGeneration'
  <2>1. \A q \in Versioned : AfterRecovery(q)' = AfterRecovery(q)
    BY <1>1, <1>2, <1>4, EntryFacts DEF AfterRecovery, There
  <2>2. AfterRecovery("YOS")' = 1 + spent'.edits
    BY <1>1, <1>5 DEF AfterRecovery, UsersOwn, There
  <2> QED BY <1>1, <2>1, <2>2 DEF OneGeneration, Versioned
<1>7. Recovering' /\ Discarding'
  BY <1>1 DEF Recovering, Discarding
<1>8. Moving'
  <2>1. writer.at \in {"keep", "put", "undo"} => writer.txn < stamp'
    <3>1. writer.txn \in Nat
      BY DEF Writers
    <3> QED BY <1>1, <3>1 DEF Moving
  <2> QED BY <1>1, <2>1 DEF Moving
<1>9. Placing'
  <2> SUFFICES ASSUME writer.at \in {"keep", "put"} PROVE Placing'
    BY <1>1 DEF Placing
  <2>1. \A q \in Versioned : There(q)' = There(q) /\ file'[q] = file[q]
    BY <1>2, <1>4, EntryFacts DEF There
  <2>2. There("YOS")'
    BY <1>1, <1>5 DEF UsersOwn
  <2>3. "YOS" \notin ToSet(writer.todo)
    BY <1>1 DEF Placing
  <2>4. /\ IsInjective(writer.todo)
        /\ \A q \in Versioned \ ToSet(writer.todo) : There(q) /\ file[q].of = release
        /\ \A q \in ToSet(writer.todo) : bak[q] = NoFile \/ (writer.at = "put" /\ q = Head(writer.todo))
        /\ writer.at = "put" =>
             /\ writer.todo # <<>>
             /\ marker # NoFile /\ Head(writer.todo) \in Versioned => bak[Head(writer.todo)] # NoFile
    BY DEF Placing
  <2> HIDE DEF InstructionInv, InstructionTypeOK
  <2> QED BY <1>1, <2>1, <2>2, <2>3, <2>4 DEF Placing
<1> QED BY <1>3, <1>5, <1>6, <1>7, <1>8, <1>9

LEMMA TextsBegin ==
  InstructionInit => InstructionInv
<1> SUFFICES ASSUME InstructionInit PROVE InstructionInv
  OBVIOUS
<1>1. /\ file = [e \in Entries |-> NoFile] /\ bak = [e \in Entries |-> NoFile] /\ marker = NoFile
      /\ writer = Idle /\ release = 1 /\ stamp = 1
      /\ spent = [runs |-> 0, edits |-> 0, faults |-> 0, deaths |-> 0, launches |-> 0]
  BY DEF InstructionInit
<1>2. Idle \in Writers /\ Idle.at = "idle"
  <2>1. 0 \in Nat
    OBVIOUS
  <2> QED BY <2>1, NothingLeft DEF Idle, Writers
<1>3. InstructionTypeOK
  <2>1. /\ DOMAIN file = Entries /\ \A e \in Entries : file[e] \in FilesOf(e) \cup {NoFile}
        /\ DOMAIN bak = Entries /\ \A e \in Entries : bak[e] \in BackupsOf(e) \cup {NoFile}
    BY <1>1
  <2>2. spent \in [runs : Nat, edits : Nat, faults : Nat, deaths : Nat, launches : Nat] /\ spent.edits = 0
    BY <1>1
  <2> QED BY <1>1, <1>2, <2>1, <2>2 DEF InstructionTypeOK
<1>4. UsersOwn /\ OneGeneration
  BY <1>1, EntryFacts DEF UsersOwn, OneGeneration, There
<1>5. Recovering /\ Moving /\ Placing /\ Discarding
  BY <1>1, <1>2 DEF Recovering, Moving, Placing, Discarding
<1> QED BY <1>3, <1>4, <1>5 DEF InstructionInv

\* At whatever point an installation dies or fails, its rollback and its recovery with it,
\* and whatever launches and the user do meanwhile: what the next run recovers is the
\* system text and the assembler of one release, that of the marker, and the user's own
\* text as it was edited last (recoverSplitTransaction, commitEntries).
THEOREM OneGenerationCorrect ==
  InstructionSpec => []OneGeneration
<1>1. InstructionInit => InstructionInv
  BY TextsBegin
<1>2. InstructionInv /\ [InstructionNext]_instructionVars => InstructionInv'
  <2> SUFFICES ASSUME InstructionInv, [InstructionNext]_instructionVars PROVE InstructionInv'
    OBVIOUS
  <2>1. CASE UNCHANGED instructionVars
    BY <2>1 DEF instructionVars, InstructionInv, InstructionTypeOK, UsersOwn, Recovering, Moving, Placing,
       Discarding, OneGeneration, AfterRecovery, There
  <2>2. CASE InstructionNext
    BY <2>2, CallStep, RecoverStep, StageStep, KeepStep, PutStep, CommitStep, DiscardStep, UndoStep, OutsideStep
       DEF InstructionNext, WriterStep
  <2> QED BY <2>1, <2>2
<1>3. InstructionInv => OneGeneration
  BY DEF InstructionInv
<1> QED BY <1>1, <1>2, <1>3, PTL DEF InstructionSpec

-----------------------------------------------------------------------------
(* yos init *)

BoxFields ==
  {"have", "dirs", "runtime", "threshold", "env", "port", "password", "zone", "ecosystem",
   "skills", "hooks", "db", "domain", "caddyBin", "caddyPort", "console", "monitor", "health",
   "boot", "path", "stalePort"}
InitFields == {"at", "way", "want", "was", "domain", "asks", "chain", "for", "denied", "moved", "code"}
AllDirs == {"skills", "config", "components"}

\* Where an init is: the skills come after the path in one way, after the zone in
\* the other, and write nothing that an invariant speaks of.
Point == IF init.at # "skills" THEN init.at ELSE IF init.way = "complete" THEN "path" ELSE "zone"

Looking == {"none", "packages", "install", "select", "detect"}
Unrecorded == {"dirs", "path", "runtime"}
Started == {"settle", "boot", "report"}
Stopped == {"start"} \cup Started
Prepared == {"stop"} \cup Stopped
HooksPut == {"password", "source", "port", "zone", "caddy", "download", "caddyfile", "health",
           "dependencies"} \cup Prepared
Instructed == {"hooks"} \cup HooksPut
Limited == {"templates", "instructions"} \cup Instructed
Recorded == {"threshold"} \cup Limited
BeforeCaddy == Unrecorded \cup {"threshold", "templates", "instructions", "hooks", "password",
                                "source", "port"}

SetupTypeOK ==
  /\ box = [f \in BoxFields |-> box[f]] /\ init = [f \in InitFields |-> init[f]]
  /\ box.dirs \in {{}, {"skills", "config"}, AllDirs}
  /\ Point \in Looking \cup Unrecorded \cup Recorded
  /\ Point = "dirs" => init.way # "complete"

\* Nothing is laid down before all the directories are.
Untouched ==
  box.dirs # AllDirs =>
    /\ Point \in Looking \cup {"dirs"} /\ box.runtime = NONE /\ box.caddyPort = 0
    /\ marker = NoFile /\ ~format
    /\ file["system"] = NoFile /\ file["assembler"] = NoFile

\* What an init has done so far, it has done for good.
Progress ==
  /\ Point \in Unrecorded \cup (Looking \ {"none"}) => box.runtime = init.was
  /\ Point \in Recorded => box.runtime = init.want
  /\ Point \in Limited => box.threshold # 0
  /\ Point \in Instructed => marker # NoFile /\ marker.release = release
  /\ Point \in HooksPut => box.hooks = release
  /\ Point \in Prepared => box.password # "none"
  /\ Point \in Stopped => /\ box.monitor \in {NONE, init.want}
                          /\ box.monitor # NONE => box.console = RecordedPort

\* Instructions are written by an init that has come to them, and what it has
\* committed is of its release.
WriterInTurn ==
  /\ Point # "instructions" => writer.at = "idle"
  /\ writer.at \in {"discard", "done"} => marker # NoFile /\ marker.release = release

\* Caddy serves the port on record, unless an init is known to have moved it since.
CaddyAgrees ==
  /\ box.caddyPort \in {0, RecordedPort} \/ box.stalePort
  /\ init.way # "complete" /\ Point \in BeforeCaddy => box.caddyPort = 0

SetupInv ==
  /\ SetupTypeOK /\ Untouched /\ Progress /\ WriterInTurn /\ CaddyAgrees /\ InstructionInv

\* What follows what where a complete layout is refreshed, ...
LEMMA NextOfComplete ==
  ASSUME init.way = "complete"
  PROVE  /\ After("path") = "skills" /\ After("skills") = "runtime"
         /\ After("runtime") = "threshold" /\ After("threshold") = "templates"
         /\ After("instructions") = "hooks" /\ After("hooks") = "password"
         /\ After("password") = "source" /\ After("source") = "zone"
         /\ After("zone") = "caddy" /\ After("caddy") = "health" /\ After("health") = "port"
         /\ After("port") = "dependencies" /\ After("dependencies") = "stop"
         /\ After("stop") = "start" /\ After("start") = "settle" /\ After("boot") = "report"
<1> DEFINE W == CompleteWay
<1>1. /\ Len(W) = 19 /\ W[1] = "path" /\ W[2] = "skills" /\ W[3] = "runtime"
      /\ W[4] = "threshold" /\ W[5] = "templates" /\ W[6] = "instructions" /\ W[7] = "hooks"
      /\ W[8] = "password" /\ W[9] = "source" /\ W[10] = "zone" /\ W[11] = "caddy"
      /\ W[12] = "health" /\ W[13] = "port" /\ W[14] = "dependencies" /\ W[15] = "stop"
      /\ W[16] = "start" /\ W[17] = "settle" /\ W[18] = "boot" /\ W[19] = "report"
  BY DEF CompleteWay
<1>2. W = Way
  BY DEF Way
<1> HIDE DEF W
<1>3. \A i \in 1 .. 19 : i \in {1, 2, 3, 4, 5, 6, 7, 8, 9, 10, 11, 12, 13, 14, 15, 16, 17, 18, 19}
  OBVIOUS
<1>4. /\ (CHOOSE i \in 1 .. 19 : W[i] = "path") = 1
      /\ (CHOOSE i \in 1 .. 19 : W[i] = "skills") = 2
      /\ (CHOOSE i \in 1 .. 19 : W[i] = "runtime") = 3
      /\ (CHOOSE i \in 1 .. 19 : W[i] = "threshold") = 4
      /\ (CHOOSE i \in 1 .. 19 : W[i] = "instructions") = 6
      /\ (CHOOSE i \in 1 .. 19 : W[i] = "hooks") = 7
      /\ (CHOOSE i \in 1 .. 19 : W[i] = "password") = 8
      /\ (CHOOSE i \in 1 .. 19 : W[i] = "source") = 9
  BY <1>1, <1>3
<1>5. /\ (CHOOSE i \in 1 .. 19 : W[i] = "zone") = 10
      /\ (CHOOSE i \in 1 .. 19 : W[i] = "caddy") = 11
      /\ (CHOOSE i \in 1 .. 19 : W[i] = "health") = 12
      /\ (CHOOSE i \in 1 .. 19 : W[i] = "port") = 13
      /\ (CHOOSE i \in 1 .. 19 : W[i] = "dependencies") = 14
      /\ (CHOOSE i \in 1 .. 19 : W[i] = "stop") = 15
      /\ (CHOOSE i \in 1 .. 19 : W[i] = "start") = 16
      /\ (CHOOSE i \in 1 .. 19 : W[i] = "boot") = 18
  BY <1>1, <1>3
<1>6. ASSUME NEW s PROVE After(s) = W[(CHOOSE i \in 1 .. 19 : W[i] = s) + 1]
  BY <1>1, <1>2 DEF After
<1> QED BY <1>1, <1>4, <1>5, <1>6

\* ... and where a layout is created.
LEMMA NextOfFresh ==
  ASSUME init.way # "complete"
  PROVE  /\ After("dirs") = "path" /\ After("path") = "runtime"
         /\ After("runtime") = "threshold" /\ After("threshold") = "templates"
         /\ After("instructions") = "hooks" /\ After("hooks") = "password"
         /\ After("password") = "source" /\ After("source") = "port"
         /\ After("port") = "zone" /\ After("zone") = "skills" /\ After("skills") = "caddy"
         /\ After("caddy") = "health" /\ After("health") = "dependencies"
         /\ After("dependencies") = "stop" /\ After("stop") = "start"
         /\ After("start") = "settle" /\ After("boot") = "report"
<1> DEFINE W == FreshWay
<1>1. /\ Len(W) = 20 /\ W[1] = "dirs" /\ W[2] = "path" /\ W[3] = "runtime"
      /\ W[4] = "threshold" /\ W[5] = "templates" /\ W[6] = "instructions" /\ W[7] = "hooks"
      /\ W[8] = "password" /\ W[9] = "source" /\ W[10] = "port" /\ W[11] = "zone"
      /\ W[12] = "skills" /\ W[13] = "caddy" /\ W[14] = "health" /\ W[15] = "dependencies"
      /\ W[16] = "stop" /\ W[17] = "start" /\ W[18] = "settle" /\ W[19] = "boot"
      /\ W[20] = "report"
  BY DEF FreshWay
<1>2. W = Way
  BY DEF Way
<1> HIDE DEF W
<1>3. \A i \in 1 .. 20 : i \in {1, 2, 3, 4, 5, 6, 7, 8, 9, 10, 11, 12, 13, 14, 15, 16, 17, 18, 19, 20}
  OBVIOUS
<1>4. /\ (CHOOSE i \in 1 .. 20 : W[i] = "dirs") = 1
      /\ (CHOOSE i \in 1 .. 20 : W[i] = "path") = 2
      /\ (CHOOSE i \in 1 .. 20 : W[i] = "runtime") = 3
      /\ (CHOOSE i \in 1 .. 20 : W[i] = "threshold") = 4
      /\ (CHOOSE i \in 1 .. 20 : W[i] = "instructions") = 6
      /\ (CHOOSE i \in 1 .. 20 : W[i] = "hooks") = 7
      /\ (CHOOSE i \in 1 .. 20 : W[i] = "password") = 8
      /\ (CHOOSE i \in 1 .. 20 : W[i] = "source") = 9
  BY <1>1, <1>3
<1>5. /\ (CHOOSE i \in 1 .. 20 : W[i] = "port") = 10
      /\ (CHOOSE i \in 1 .. 20 : W[i] = "zone") = 11
      /\ (CHOOSE i \in 1 .. 20 : W[i] = "skills") = 12
      /\ (CHOOSE i \in 1 .. 20 : W[i] = "caddy") = 13
      /\ (CHOOSE i \in 1 .. 20 : W[i] = "health") = 14
      /\ (CHOOSE i \in 1 .. 20 : W[i] = "dependencies") = 15
      /\ (CHOOSE i \in 1 .. 20 : W[i] = "stop") = 16
      /\ (CHOOSE i \in 1 .. 20 : W[i] = "start") = 17
      /\ (CHOOSE i \in 1 .. 20 : W[i] = "boot") = 19
  BY <1>1, <1>3
<1>6. ASSUME NEW s PROVE After(s) = W[(CHOOSE i \in 1 .. 20 : W[i] = s) + 1]
  BY <1>1, <1>2 DEF After
<1> QED BY SMTT(30), <1>1, <1>4, <1>5, <1>6

\* What of the machine the invariant speaks of.
Settings == <<box.dirs, box.runtime, box.threshold, box.hooks, box.password, box.monitor,
              box.console, box.port, box.caddyPort, box.stalePort>>
SameRun == init'.way = init.way /\ init'.want = init.want /\ init'.was = init.was

LEMMA TextsKept ==
  ASSUME InstructionInv, UNCHANGED instructionVars
  PROVE  InstructionInv'
BY DEF instructionVars, InstructionInv, InstructionTypeOK, UsersOwn, Recovering, Moving, Placing,
       Discarding, OneGeneration, AfterRecovery, There

\* The end of an init leaves the machine and the texts as they are; the next one
\* begins with the prerequisites.
LEMMA InitOver ==
  ASSUME SetupInv, init' = NoInit, box' = box, writer'.at \notin {"discard", "done"},
         writer'.at = "idle", InstructionInv', UNCHANGED <<file, marker, format>>
  PROVE  SetupInv'
<1>1. /\ init' = [f \in InitFields |-> init'[f]] /\ init'.at = "none"
  BY DEF NoInit, InitFields
<1>2. Point' = "none"
  BY <1>1 DEF Point
<1>3. SetupTypeOK'
  BY <1>1, <1>2 DEF SetupInv, SetupTypeOK, Looking
<1>4. Untouched' /\ WriterInTurn'
  BY <1>2 DEF SetupInv, Untouched, WriterInTurn, Looking
<1>5. Progress'
  BY <1>2 DEF Progress, Looking, Unrecorded, Recorded, Limited, Instructed, HooksPut, Prepared, Stopped, Started
<1>6. CaddyAgrees'
  BY <1>2 DEF SetupInv, CaddyAgrees, RecordedPort, BeforeCaddy, Unrecorded
<1> QED BY <1>3, <1>4, <1>5, <1>6 DEF SetupInv

\* Up to the look at the layout an init installs programs and asks for a runtime.
LEMMA StillLooking ==
  ASSUME SetupInv, UNCHANGED Settings, UNCHANGED instructionVars, Point \in Looking,
         box' = [f \in BoxFields |-> box'[f]], init' = [f \in InitFields |-> init'[f]],
         init'.at \in Looking \ {"none"},
         init'.was = IF Point = "none" THEN box.runtime ELSE init.was
  PROVE  SetupInv'
<1>1. Point' = init'.at /\ Point' \in Looking \ {"none"} /\ Point' # "dirs"
  BY DEF Point, Looking
<1>2. SetupTypeOK'
  BY <1>1 DEF SetupInv, SetupTypeOK, Settings
<1>3. Untouched'
  BY <1>1 DEF SetupInv, Untouched, Settings, instructionVars
<1>4. box'.runtime = init'.was
  BY DEF SetupInv, Progress, Settings
<1>5. Progress'
  BY <1>1, <1>4 DEF Progress, Looking, Unrecorded, Recorded, Limited, Instructed, HooksPut, Prepared, Stopped, Started
<1>6. writer.at = "idle" /\ writer' = writer
  BY DEF SetupInv, WriterInTurn, instructionVars, Looking
<1>7. WriterInTurn'
  BY <1>6 DEF WriterInTurn
<1>8. CaddyAgrees'
  BY <1>1 DEF SetupInv, CaddyAgrees, RecordedPort, BeforeCaddy, Unrecorded, Looking, Settings
<1> QED BY <1>2, <1>3, <1>5, <1>7, <1>8, TextsKept DEF SetupInv

\* A later step is judged by the settings it leaves.
LEMMA SettingStep ==
  ASSUME SetupInv, UNCHANGED instructionVars, SameRun, box'.dirs = box.dirs,
         box' = [f \in BoxFields |-> box'[f]], init' = [f \in InitFields |-> init'[f]],
         Point \in Unrecorded \cup Recorded, Point \notin {"instructions", "dirs"},
         Point' \in Unrecorded \cup Recorded, Point' # "dirs",
         Progress', CaddyAgrees'
  PROVE  SetupInv'
<1>1. Point \notin Looking
  BY DEF Looking, Unrecorded, Recorded, Limited, Instructed, HooksPut, Prepared, Stopped, Started
<1>2. box.dirs = AllDirs
  BY <1>1 DEF SetupInv, Untouched
<1>3. SetupTypeOK'
  BY DEF SetupInv, SetupTypeOK
<1>4. Untouched'
  BY <1>2 DEF Untouched
<1>5. writer.at = "idle" /\ writer' = writer
  BY DEF SetupInv, WriterInTurn, instructionVars
<1>6. WriterInTurn'
  BY <1>5 DEF WriterInTurn
<1> QED BY <1>3, <1>4, <1>6, TextsKept DEF SetupInv

\* Many leave them all alone.
LEMMA NothingSet ==
  ASSUME SetupInv, UNCHANGED Settings, UNCHANGED instructionVars, SameRun,
         box' = [f \in BoxFields |-> box'[f]], init' = [f \in InitFields |-> init'[f]],
         Point \in Unrecorded \cup Recorded, Point \notin {"instructions", "dirs"},
         Point' \in Unrecorded \cup Recorded, Point' # "dirs",
         \A S \in {Recorded, Limited, Instructed, HooksPut, Prepared, Stopped, Unrecorded} :
           Point' \in S => Point \in S,
         init.way # "complete" /\ Point' \in BeforeCaddy => Point \in BeforeCaddy
  PROVE  SetupInv'
<1>1. Point \notin Looking /\ Point' \notin Looking
  BY DEF Looking, Unrecorded, Recorded, Limited, Instructed, HooksPut, Prepared, Stopped, Started
<1>2. Progress'
  BY <1>1 DEF SetupInv, Progress, Settings, SameRun, RecordedPort, instructionVars
<1>3. CaddyAgrees'
  BY DEF SetupInv, CaddyAgrees, RecordedPort, Settings, SameRun
<1> QED BY <1>2, <1>3, SettingStep DEF Settings

LEMMA PrerequisiteStep ==
  ASSUME SetupInv, StartInit \/ InstallPackage \/ SelectRuntime \/ TryInstall \/ InstallExhausted
  PROVE  SetupInv'
<1>0. /\ box = [f \in BoxFields |-> box[f]] /\ init = [f \in InitFields |-> init[f]]
  BY DEF SetupInv, SetupTypeOK
<1>1. CASE StartInit
  <2>1. PICK wanted, domain, asks :
          init' = [NoInit EXCEPT !.at = "packages", !.domain = domain, !.asks = asks,
                                 !.want = wanted, !.was = box.runtime]
    BY <1>1 DEF StartInit
  <2>2. /\ init' = [f \in InitFields |-> init'[f]] /\ init'.at = "packages" /\ init'.was = box.runtime
    BY <2>1 DEF NoInit, InitFields
  <2>3. Point = "none" /\ UNCHANGED box /\ UNCHANGED instructionVars
    BY <1>1 DEF StartInit, Point, NoInit, TextsStay
  <2> QED BY <1>0, <2>2, <2>3, StillLooking DEF Settings, Looking
<1>2. CASE InstallPackage
  <2>1. /\ Point = "packages" /\ UNCHANGED box /\ UNCHANGED instructionVars
    BY <1>2 DEF InstallPackage, AtStep, Point, Machine, TextsStay
  <2>2. /\ init' = [f \in InitFields |-> init'[f]] /\ init'.at \in {"install", "select"}
        /\ init'.was = init.was
    BY <1>0, <1>2 DEF InstallPackage, Go, InitFields
  <2> QED BY <1>0, <2>1, <2>2, StillLooking DEF Settings, Looking
<1>3. CASE SelectRuntime
  <2>1. /\ Point = "select" /\ UNCHANGED box /\ UNCHANGED instructionVars
    BY <1>3 DEF SelectRuntime, AtStep, Point, Machine, TextsStay
  <2>2. /\ init' = [f \in InitFields |-> init'[f]] /\ init'.at \in {"install", "detect"}
        /\ init'.was = init.was
    <3>1. PICK chosen \in Runtimes :
            init' = [init EXCEPT !.want = chosen, !.at = IF MissingTool(chosen) THEN "install" ELSE "detect",
                                 !.for = chosen, !.chain = InstallSources(chosen)]
      BY <1>3 DEF SelectRuntime
    <3>2. DOMAIN init = InitFields
      BY <1>0
    <3>3. DOMAIN init' = InitFields /\ init' = [f \in DOMAIN init |-> init'[f]]
      BY <3>1, <3>2
    <3>4. init'.at = IF MissingTool(chosen) THEN "install" ELSE "detect"
      BY <3>1, <3>2 DEF InitFields
    <3>5. init'.was = init.was
      BY <3>1, <3>2 DEF InitFields
    <3> QED BY <3>2, <3>3, <3>4, <3>5
  <2> QED BY <1>0, <2>1, <2>2, StillLooking DEF Settings, Looking
<1>4. CASE TryInstall
  <2>1. /\ Point = "install" /\ UNCHANGED instructionVars
    BY <1>4 DEF TryInstall, AtStep, Point, TextsStay
  <2>2. /\ init' = [f \in InitFields |-> init'[f]] /\ init'.at \in {"install", "detect", "packages"}
        /\ init'.was = init.was
    <3>1. init.at = "install"
      BY <1>4 DEF TryInstall, AtStep
    <3> QED BY <1>0, <1>4, <3>1 DEF TryInstall, InitFields
  <2>3. /\ box' = [f \in BoxFields |-> box'[f]] /\ UNCHANGED Settings
    <3>1. box' = box \/ box' = [box EXCEPT !.have = @ \cup {init.for}]
      BY <1>4 DEF TryInstall, Machine
    <3> QED BY <1>0, <3>1 DEF Settings, BoxFields
  <2> QED BY <2>1, <2>2, <2>3, StillLooking DEF Looking
<1>5. CASE InstallExhausted
  <2>1. /\ Point = "install" /\ UNCHANGED box /\ UNCHANGED instructionVars
    BY <1>5 DEF InstallExhausted, AtStep, Point, Machine, TextsStay
  <2>2. CASE init' = [init EXCEPT !.chain = <<"sudo npm", "sudo mirror">>, !.denied = FALSE]
    <3>1. /\ init' = [f \in InitFields |-> init'[f]] /\ init'.at = init.at /\ init'.was = init.was
      BY <1>0, <2>2 DEF InitFields
    <3>2. init.at = "install"
      BY <1>5 DEF InstallExhausted, AtStep
    <3> QED BY <1>0, <2>1, <3>1, <3>2, StillLooking DEF Settings, Looking
  <2>3. CASE InitExits
    <3>1. writer'.at = "idle"
      BY <2>1 DEF SetupInv, WriterInTurn, instructionVars
    <3>2. InstructionInv'
      BY <2>1, TextsKept DEF SetupInv
    <3> QED BY <2>1, <2>3, <3>1, <3>2, InitOver DEF InitExits, instructionVars
  <2> QED BY <1>5, <2>2, <2>3 DEF InstallExhausted
<1> QED BY <1>1, <1>2, <1>3, <1>4, <1>5

\* What an init lays down afresh had never been there.
LEMMA LayingStep ==
  ASSUME SetupInv, Detect \/ CreateDirectories
  PROVE  SetupInv'
<1>0. /\ box = [f \in BoxFields |-> box[f]] /\ init = [f \in InitFields |-> init[f]]
      /\ box.dirs \in {{}, {"skills", "config"}, AllDirs} /\ DOMAIN file = Entries
  BY DEF SetupInv, SetupTypeOK, InstructionInv, InstructionTypeOK
<1>1. CASE Detect
  <2>0. /\ Point = "detect" /\ InstallState \in {"fresh", "incomplete", "complete"}
        /\ InstallState = "complete" <=> box.dirs = AllDirs
    BY <1>0, <1>1 DEF Detect, AtStep, Point, InstallState, AllDirs
  <2>1. writer.at = "idle" /\ box.runtime = init.was
    BY <2>0 DEF SetupInv, WriterInTurn, Progress, Looking
  <2>2. CASE /\ Machine(box) /\ TextsStay
             /\ init' = [init EXCEPT !.way = InstallState,
                                     !.at = IF InstallState = "complete" THEN "path" ELSE "dirs"]
    <3>1. /\ init' = [f \in InitFields |-> init'[f]] /\ init'.was = init.was
          /\ init'.way = InstallState /\ init'.at = IF InstallState = "complete" THEN "path" ELSE "dirs"
          /\ Point' = init'.at /\ box' = box
          /\ UNCHANGED <<file, marker, format, writer, release>>
      BY <1>0, <2>0, <2>2 DEF InitFields, Point, Machine, TextsStay, instructionVars
    <3>2. SetupTypeOK' /\ Untouched'
      BY <1>0, <2>0, <3>1 DEF SetupInv, SetupTypeOK, Untouched, Unrecorded
    <3>3. Progress' /\ WriterInTurn'
      BY <2>1, <3>1
      DEF Progress, WriterInTurn, Looking, Unrecorded, Recorded, Limited, Instructed, HooksPut, Prepared,
          Stopped, Started
    <3>4. CaddyAgrees'
      BY <2>0, <3>1 DEF SetupInv, CaddyAgrees, RecordedPort, Untouched
    <3> QED BY <2>2, <3>2, <3>3, <3>4, TextsKept DEF SetupInv, TextsStay
  <2>3. CASE /\ InstallState = "incomplete" /\ Machine(ResetManaged)
             /\ init' = [init EXCEPT !.way = InstallState, !.at = "dirs"]
             /\ marker' = NoFile /\ format' = FALSE
             /\ file' = [e \in Entries |-> IF e \in {"system", "assembler"} THEN NoFile ELSE file[e]]
             /\ UNCHANGED <<bak, temps, writer, release, stamp, spent>>
    <3>1. /\ init' = [f \in InitFields |-> init'[f]] /\ init'.was = init.was
          /\ init'.way = "incomplete" /\ init'.at = "dirs" /\ Point' = "dirs"
      BY <1>0, <2>3 DEF InitFields, Point
    <3>2. /\ box.runtime = NONE /\ box.caddyPort = 0 /\ marker = NoFile /\ ~format
          /\ file["system"] = NoFile /\ file["assembler"] = NoFile
      BY <2>0, <2>3 DEF SetupInv, Untouched
    <3>3. /\ box' = [f \in BoxFields |-> box'[f]] /\ box'.dirs = {} /\ box'.runtime = NONE
          /\ box'.caddyPort = 0
      BY ZenonT(60), <1>0, <2>3, <3>2 DEF Machine, ResetManaged, BoxFields
    <3>4. /\ DOMAIN file' = Entries /\ \A e \in Entries : file'[e] = file[e]
          /\ UNCHANGED <<marker, bak, writer, release, stamp, spent>>
      BY <2>3, <3>2
    <3>5. InstructionInv'
      <4>1. InstructionTypeOK' /\ UsersOwn'
        BY <3>4, EntryFacts DEF SetupInv, InstructionInv, InstructionTypeOK, UsersOwn, There
      <4>2. Recovering' /\ Moving' /\ Placing' /\ Discarding'
        BY <2>1, <3>4, AtRest
      <4>3. OneGeneration'
        BY <3>2, <3>4 DEF OneGeneration
      <4> QED BY <4>1, <4>2, <4>3 DEF InstructionInv
    <3>6. SetupTypeOK' /\ Untouched'
      BY <2>3, <3>1, <3>2, <3>3, <3>4, EntryFacts DEF SetupTypeOK, Untouched, Unrecorded
    <3>7. Progress' /\ WriterInTurn'
      BY <2>1, <3>1, <3>2, <3>3, <3>4
      DEF Progress, WriterInTurn, Looking, Unrecorded, Recorded, Limited, Instructed, HooksPut, Prepared,
          Stopped, Started
    <3>8. CaddyAgrees'
      BY <3>3 DEF CaddyAgrees
    <3> QED BY <3>5, <3>6, <3>7, <3>8 DEF SetupInv
  <2> QED BY <1>1, <2>2, <2>3 DEF Detect
<1>2. CASE CreateDirectories
  <2>0. /\ init.at = "dirs" /\ Point = "dirs" /\ init.way # "complete"
        /\ box.runtime = init.was /\ box.caddyPort = 0 /\ writer.at = "idle"
        /\ UNCHANGED <<file, marker, format, writer, release>>
    BY <1>2
    DEF CreateDirectories, AtStep, Point, SetupInv, SetupTypeOK, Progress, CaddyAgrees, WriterInTurn,
        BeforeCaddy, Unrecorded, TextsStay, instructionVars
  <2>1. \E new : box' = [box EXCEPT !.dirs = new]
    BY <1>2 DEF CreateDirectories, Machine
  <2>2. /\ box' = [f \in BoxFields |-> box'[f]] /\ box'.runtime = box.runtime
        /\ box'.caddyPort = box.caddyPort
    BY <1>0, <2>1 DEF BoxFields
  <2>3. /\ init' = [f \in InitFields |-> init'[f]] /\ SameRun
        /\ \/ init'.at = "dirs" /\ box'.dirs = {"skills", "config"}
           \/ init'.at = "path" /\ box'.dirs = AllDirs
        /\ init'.at = "dirs" => box.dirs # AllDirs
    <3>1. After("dirs") = "path"
      BY <2>0, NextOfFresh
    <3>2. CASE /\ "skills" \notin box.dirs /\ UNCHANGED init
               /\ Machine([box EXCEPT !.dirs = @ \cup {"skills", "config"}])
      <4>1. box'.dirs = {} \cup {"skills", "config"}
        BY <1>0, <3>2 DEF Machine, BoxFields, AllDirs
      <4> QED BY <1>0, <2>0, <3>2, <4>1 DEF SameRun, AllDirs
    <3>3. CASE /\ "skills" \in box.dirs /\ GoOn("dirs")
               /\ Machine([box EXCEPT !.dirs = @ \cup {"components"}])
      <4>1. box'.dirs = AllDirs
        BY <1>0, <3>3 DEF Machine, BoxFields, AllDirs
      <4> QED BY <1>0, <3>1, <3>3, <4>1 DEF GoOn, Go, InitFields, SameRun
    <3> QED BY <1>2, <3>2, <3>3 DEF CreateDirectories
  <2>4. Point' = init'.at
    BY <2>3 DEF Point
  <2>5. SetupTypeOK' /\ Untouched'
    BY <2>0, <2>2, <2>3, <2>4 DEF SetupInv, SetupTypeOK, Untouched, Unrecorded, SameRun
  <2>6. Progress' /\ WriterInTurn'
    BY <2>0, <2>2, <2>3, <2>4
    DEF Progress, WriterInTurn, SameRun, Looking, Unrecorded, Recorded, Limited, Instructed, HooksPut,
        Prepared, Stopped, Started
  <2>7. CaddyAgrees'
    BY <2>0, <2>2 DEF CaddyAgrees
  <2> QED BY <1>2, <2>5, <2>6, <2>7, TextsKept DEF SetupInv, CreateDirectories, TextsStay
<1> QED BY <1>1, <1>2

\* The steps that leave all settings alone.
LEMMA PlainStep ==
  ASSUME SetupInv,
         \/ EnsureBinInPath \/ DeployTemplates \/ RecordSource \/ ConfigureTimezone \/ SyncCoreSkills
         \/ ConfigureCaddy \/ DownloadCaddy \/ ClearHealth \/ ServicesSettle \/ BootAutostart
  PROVE  SetupInv'
<1> USE DEF Recorded, Limited, Instructed, HooksPut, Prepared, Stopped, Started, Unrecorded, BeforeCaddy
<1>0. /\ box = [f \in BoxFields |-> box[f]] /\ init = [f \in InitFields |-> init[f]]
  BY DEF SetupInv, SetupTypeOK
<1>1. CASE EnsureBinInPath
  <2>1. /\ init.at = "path" /\ UNCHANGED instructionVars
        /\ box' = [f \in BoxFields |-> box'[f]] /\ UNCHANGED Settings
    BY <1>0, <1>1 DEF EnsureBinInPath, AtStep, Machine, TextsStay, Settings, BoxFields
  <2>2. /\ init' = [f \in InitFields |-> init'[f]] /\ SameRun
        /\ init'.at = IF init.way = "complete" THEN "skills" ELSE "runtime"
    BY <1>0, <1>1, <2>1, NextOfComplete, NextOfFresh DEF EnsureBinInPath, GoOn, Go, InitFields, SameRun
  <2> QED BY <2>1, <2>2, NothingSet DEF Point, SameRun
<1>2. CASE DeployTemplates
  <2>1. /\ init.at = "templates" /\ UNCHANGED instructionVars
        /\ box' = [f \in BoxFields |-> box'[f]] /\ UNCHANGED Settings
    BY <1>0, <1>2 DEF DeployTemplates, AtStep, Machine, TextsStay, Settings, BoxFields
  <2>2. /\ init' = [f \in InitFields |-> init'[f]] /\ SameRun
        /\ init'.at = "instructions"
    BY <1>0, <1>2, <2>1, NextOfComplete, NextOfFresh DEF DeployTemplates, GoOn, Go, InitFields, SameRun
  <2> QED BY <2>1, <2>2, NothingSet DEF Point, SameRun
<1>3. CASE RecordSource
  <2>1. /\ init.at = "source" /\ UNCHANGED instructionVars
        /\ box' = [f \in BoxFields |-> box'[f]] /\ UNCHANGED Settings
    BY <1>0, <1>3 DEF RecordSource, AtStep, Machine, TextsStay, Settings, BoxFields
  <2>2. /\ init' = [f \in InitFields |-> init'[f]] /\ SameRun
        /\ init'.at = IF init.way = "complete" THEN "zone" ELSE "port"
    BY <1>0, <1>3, <2>1, NextOfComplete, NextOfFresh DEF RecordSource, GoOn, Go, InitFields, SameRun
  <2> QED BY <2>1, <2>2, NothingSet DEF Point, SameRun
<1>4. CASE ConfigureTimezone
  <2>1. /\ init.at = "zone" /\ UNCHANGED instructionVars
        /\ box' = [f \in BoxFields |-> box'[f]] /\ UNCHANGED Settings
    BY <1>0, <1>4 DEF ConfigureTimezone, AtStep, Machine, TextsStay, Settings, BoxFields
  <2>2. /\ init' = [f \in InitFields |-> init'[f]] /\ SameRun
        /\ init'.at = IF init.way = "complete" THEN "caddy" ELSE "skills"
    BY <1>0, <1>4, <2>1, NextOfComplete, NextOfFresh DEF ConfigureTimezone, GoOn, Go, InitFields, SameRun
  <2> QED BY <2>1, <2>2, NothingSet DEF Point, SameRun
<1>5. CASE SyncCoreSkills
  <2>1. /\ init.at = "skills" /\ UNCHANGED instructionVars
        /\ box' = [f \in BoxFields |-> box'[f]] /\ UNCHANGED Settings
    BY <1>0, <1>5 DEF SyncCoreSkills, AtStep, Machine, TextsStay, Settings, BoxFields
  <2>2. /\ init' = [f \in InitFields |-> init'[f]] /\ SameRun
        /\ init'.at = IF init.way = "complete" THEN "runtime" ELSE "caddy"
    BY <1>0, <1>5, <2>1, NextOfComplete, NextOfFresh DEF SyncCoreSkills, GoOn, Go, InitFields, SameRun
  <2> QED BY <2>1, <2>2, NothingSet DEF Point, SameRun
<1>6. CASE ConfigureCaddy
  <2>1. /\ init.at = "caddy" /\ UNCHANGED instructionVars
        /\ box' = [f \in BoxFields |-> box'[f]] /\ UNCHANGED Settings
    BY <1>0, <1>6 DEF ConfigureCaddy, AtStep, Machine, TextsStay, Settings, BoxFields
  <2>2. /\ init' = [f \in InitFields |-> init'[f]] /\ SameRun
        /\ init'.at \in {"health", "download"}
    BY <1>0, <1>6, <2>1, NextOfComplete, NextOfFresh DEF ConfigureCaddy, GoOn, Go, InitFields, SameRun
  <2> QED BY <2>1, <2>2, NothingSet DEF Point, SameRun
<1>7. CASE DownloadCaddy
  <2>1. /\ init.at = "download" /\ UNCHANGED instructionVars
        /\ box' = [f \in BoxFields |-> box'[f]] /\ UNCHANGED Settings
    BY <1>0, <1>7 DEF DownloadCaddy, AtStep, Machine, TextsStay, Settings, BoxFields
  <2>2. /\ init' = [f \in InitFields |-> init'[f]] /\ SameRun
        /\ init'.at \in {"health", "caddyfile"}
    BY <1>0, <1>7, <2>1, NextOfComplete, NextOfFresh DEF DownloadCaddy, GoOn, Go, InitFields, SameRun
  <2> QED BY <2>1, <2>2, NothingSet DEF Point, SameRun
<1>8. CASE ClearHealth
  <2>1. /\ init.at = "health" /\ UNCHANGED instructionVars
        /\ box' = [f \in BoxFields |-> box'[f]] /\ UNCHANGED Settings
    BY <1>0, <1>8 DEF ClearHealth, AtStep, Machine, TextsStay, Settings, BoxFields
  <2>2. /\ init' = [f \in InitFields |-> init'[f]] /\ SameRun
        /\ init'.at = IF init.way = "complete" THEN "port" ELSE "dependencies"
    BY <1>0, <1>8, <2>1, NextOfComplete, NextOfFresh DEF ClearHealth, GoOn, Go, InitFields, SameRun
  <2> QED BY <2>1, <2>2, NothingSet DEF Point, SameRun
<1>9. CASE ServicesSettle
  <2>1. /\ init.at = "settle" /\ UNCHANGED instructionVars
        /\ box' = [f \in BoxFields |-> box'[f]] /\ UNCHANGED Settings
    BY <1>0, <1>9 DEF ServicesSettle, AtStep, Machine, TextsStay, Settings, BoxFields
  <2>2. /\ init' = [f \in InitFields |-> init'[f]] /\ SameRun
        /\ init'.at = "boot"
    BY <1>0, <1>9, <2>1, NextOfComplete, NextOfFresh DEF ServicesSettle, GoOn, Go, InitFields, SameRun
  <2> QED BY <2>1, <2>2, NothingSet DEF Point, SameRun
<1>10. CASE BootAutostart
  <2>1. /\ init.at = "boot" /\ UNCHANGED instructionVars
        /\ box' = [f \in BoxFields |-> box'[f]] /\ UNCHANGED Settings
    BY <1>0, <1>10 DEF BootAutostart, AtStep, Machine, TextsStay, Settings, BoxFields
  <2>2. /\ init' = [f \in InitFields |-> init'[f]] /\ SameRun
        /\ init'.at = "report"
    BY <1>0, <1>10, <2>1, NextOfComplete, NextOfFresh DEF BootAutostart, GoOn, Go, InitFields, SameRun
  <2> QED BY <2>1, <2>2, NothingSet DEF Point, SameRun
<1> QED BY <1>1, <1>2, <1>3, <1>4, <1>5, <1>6, <1>7, <1>8, <1>9, <1>10

\* The steps that make a setting, each for the steps after it.
LEMMA MakingStep ==
  ASSUME SetupInv,
         \/ RecordRuntime \/ RecordThreshold \/ SyncHooks \/ MigratePassword \/ SettlePort
         \/ WriteCaddyfile \/ PrepareServices \/ StopServices \/ StartServices
  PROVE  SetupInv'
<1> USE DEF Looking, Recorded, Limited, Instructed, HooksPut, Prepared, Stopped, Started, Unrecorded, BeforeCaddy
<1>0. /\ box = [f \in BoxFields |-> box[f]] /\ init = [f \in InitFields |-> init[f]]
      /\ Progress /\ CaddyAgrees
  BY DEF SetupInv, SetupTypeOK
<1>1. CASE RecordRuntime
  <2>1. /\ init.at = "runtime" /\ UNCHANGED instructionVars
        /\ box' = [f \in BoxFields |-> box'[f]]
        /\ box'.runtime = IF init.was # init.want THEN init.want ELSE box.runtime
        /\ UNCHANGED <<box.dirs, box.threshold, box.hooks, box.password, box.monitor,
                        box.console, box.port, box.caddyPort, box.stalePort>>
    BY <1>0, <1>1 DEF RecordRuntime, AtStep, Machine, TextsStay, BoxFields
  <2>2. /\ init' = [f \in InitFields |-> init'[f]] /\ SameRun
        /\ init'.at = "threshold"
    BY <1>0, <1>1, <2>1, NextOfComplete, NextOfFresh DEF RecordRuntime, GoOn, Go, InitFields, SameRun
  <2>3. Point = "runtime" /\ Point' = init'.at
    BY <2>1, <2>2 DEF Point
  <2>4. Progress' /\ CaddyAgrees'
    BY <1>0, <2>1, <2>2, <2>3 DEF Progress, CaddyAgrees, RecordedPort, SameRun, instructionVars
  <2> QED BY <2>1, <2>2, <2>3, <2>4, SettingStep
<1>2. CASE RecordThreshold
  <2>1. /\ init.at = "threshold" /\ UNCHANGED instructionVars
        /\ box' = [f \in BoxFields |-> box'[f]]
        /\ box'.threshold # 0
        /\ UNCHANGED <<box.dirs, box.runtime, box.hooks, box.password, box.monitor,
                        box.console, box.port, box.caddyPort, box.stalePort>>
    BY <1>0, <1>2 DEF RecordThreshold, AtStep, Machine, TextsStay, BoxFields
  <2>2. /\ init' = [f \in InitFields |-> init'[f]] /\ SameRun
        /\ init'.at = "templates"
    BY <1>0, <1>2, <2>1, NextOfComplete, NextOfFresh DEF RecordThreshold, GoOn, Go, InitFields, SameRun
  <2>3. Point = "threshold" /\ Point' = init'.at
    BY <2>1, <2>2 DEF Point
  <2>4. Progress' /\ CaddyAgrees'
    BY <1>0, <2>1, <2>2, <2>3 DEF Progress, CaddyAgrees, RecordedPort, SameRun, instructionVars
  <2> QED BY <2>1, <2>2, <2>3, <2>4, SettingStep
<1>3. CASE SyncHooks
  <2>1. /\ init.at = "hooks" /\ UNCHANGED instructionVars
        /\ box' = [f \in BoxFields |-> box'[f]]
        /\ box'.hooks = release
        /\ UNCHANGED <<box.dirs, box.runtime, box.threshold, box.password, box.monitor,
                        box.console, box.port, box.caddyPort, box.stalePort>>
    BY <1>0, <1>3 DEF SyncHooks, AtStep, Machine, TextsStay, BoxFields
  <2>2. /\ init' = [f \in InitFields |-> init'[f]] /\ SameRun
        /\ init'.at = "password"
    BY <1>0, <1>3, <2>1, NextOfComplete, NextOfFresh DEF SyncHooks, GoOn, Go, InitFields, SameRun
  <2>3. Point = "hooks" /\ Point' = init'.at
    BY <2>1, <2>2 DEF Point
  <2>4. Progress' /\ CaddyAgrees'
    BY <1>0, <2>1, <2>2, <2>3 DEF Progress, CaddyAgrees, RecordedPort, SameRun, instructionVars
  <2> QED BY <2>1, <2>2, <2>3, <2>4, SettingStep
<1>4. CASE MigratePassword
  <2>1. /\ init.at = "password" /\ UNCHANGED instructionVars
        /\ box' = [f \in BoxFields |-> box'[f]]
        /\ UNCHANGED <<box.dirs, box.runtime, box.threshold, box.hooks, box.monitor,
                        box.console, box.port, box.caddyPort, box.stalePort>>
    BY <1>0, <1>4 DEF MigratePassword, AtStep, Machine, TextsStay, BoxFields
  <2>2. /\ init' = [f \in InitFields |-> init'[f]] /\ SameRun
        /\ init'.at = "source"
    BY <1>0, <1>4, <2>1, NextOfComplete, NextOfFresh DEF MigratePassword, GoOn, Go, InitFields, SameRun
  <2>3. Point = "password" /\ Point' = init'.at
    BY <2>1, <2>2 DEF Point
  <2>4. Progress' /\ CaddyAgrees'
    BY <1>0, <2>1, <2>2, <2>3 DEF Progress, CaddyAgrees, RecordedPort, SameRun, instructionVars
  <2> QED BY <2>1, <2>2, <2>3, <2>4, SettingStep
<1>5. CASE WriteCaddyfile
  <2>1. /\ init.at = "caddyfile" /\ UNCHANGED instructionVars
        /\ box' = [f \in BoxFields |-> box'[f]]
        /\ box'.caddyPort = RecordedPort
        /\ UNCHANGED <<box.dirs, box.runtime, box.threshold, box.hooks, box.password,
                        box.monitor, box.console, box.port>>
    BY <1>0, <1>5 DEF WriteCaddyfile, AtStep, Machine, TextsStay, BoxFields, RecordedPort
  <2>2. /\ init' = [f \in InitFields |-> init'[f]] /\ SameRun
        /\ init'.at = "health"
    BY <1>0, <1>5, <2>1, NextOfComplete, NextOfFresh DEF WriteCaddyfile, GoOn, Go, InitFields, SameRun
  <2>3. Point = "caddyfile" /\ Point' = init'.at
    BY <2>1, <2>2 DEF Point
  <2>4. Progress' /\ CaddyAgrees'
    BY <1>0, <2>1, <2>2, <2>3 DEF Progress, CaddyAgrees, RecordedPort, SameRun, instructionVars
  <2> QED BY <2>1, <2>2, <2>3, <2>4, SettingStep
<1>6. CASE PrepareServices
  <2>1. /\ init.at = "dependencies" /\ UNCHANGED instructionVars
        /\ box' = [f \in BoxFields |-> box'[f]]
        /\ box'.password # "none"
        /\ UNCHANGED <<box.dirs, box.runtime, box.threshold, box.hooks, box.monitor,
                        box.console, box.port, box.caddyPort, box.stalePort>>
    BY <1>0, <1>6 DEF PrepareServices, AtStep, Machine, TextsStay, BoxFields, EnsuredPassword
  <2>2. /\ init' = [f \in InitFields |-> init'[f]] /\ SameRun
        /\ init'.at = "stop"
    BY <1>0, <1>6, <2>1, NextOfComplete, NextOfFresh DEF PrepareServices, GoOn, Go, InitFields, SameRun
  <2>3. Point = "dependencies" /\ Point' = init'.at
    BY <2>1, <2>2 DEF Point
  <2>4. Progress' /\ CaddyAgrees'
    BY <1>0, <2>1, <2>2, <2>3 DEF Progress, CaddyAgrees, RecordedPort, SameRun, instructionVars
  <2> QED BY <2>1, <2>2, <2>3, <2>4, SettingStep
<1>7. CASE StopServices
  <2>1. /\ init.at = "stop" /\ UNCHANGED instructionVars
        /\ box' = [f \in BoxFields |-> box'[f]]
        /\ box'.monitor = NONE
        /\ UNCHANGED <<box.dirs, box.runtime, box.threshold, box.hooks, box.password, box.port,
                        box.caddyPort, box.stalePort>>
    BY <1>0, <1>7 DEF StopServices, AtStep, Machine, TextsStay, BoxFields
  <2>2. /\ init' = [f \in InitFields |-> init'[f]] /\ SameRun
        /\ init'.at = "start"
    BY <1>0, <1>7, <2>1, NextOfComplete, NextOfFresh DEF StopServices, GoOn, Go, InitFields, SameRun
  <2>3. Point = "stop" /\ Point' = init'.at
    BY <2>1, <2>2 DEF Point
  <2>4. Progress' /\ CaddyAgrees'
    BY <1>0, <2>1, <2>2, <2>3 DEF Progress, CaddyAgrees, RecordedPort, SameRun, instructionVars
  <2> QED BY <2>1, <2>2, <2>3, <2>4, SettingStep
<1>8. CASE StartServices
  <2>1. /\ init.at = "start" /\ Point = "start" /\ UNCHANGED instructionVars
    BY <1>8 DEF StartServices, AtStep, Point, TextsStay
  <2>2. CASE /\ GoOn("start") \/ Go("boot")
             /\ Machine([box EXCEPT !.console = RecordedPort, !.monitor = box.runtime,
                                    !.health = box.runtime])
    <3>1. /\ box' = [f \in BoxFields |-> box'[f]]
          /\ box'.console = RecordedPort /\ box'.monitor = box.runtime
          /\ UNCHANGED <<box.dirs, box.runtime, box.threshold, box.hooks, box.password, box.port,
                         box.caddyPort, box.stalePort>>
      BY <1>0, <2>2 DEF Machine, BoxFields
    <3>2. /\ init' = [f \in InitFields |-> init'[f]] /\ SameRun /\ init'.at \in {"settle", "boot"}
      BY <1>0, <2>2, NextOfComplete, NextOfFresh DEF GoOn, Go, InitFields, SameRun
    <3>3. Point' \in {"settle", "boot"}
      BY <3>2 DEF Point
    <3>4. Progress' /\ CaddyAgrees'
      BY <1>0, <2>1, <3>1, <3>2, <3>3 DEF Progress, CaddyAgrees, RecordedPort, SameRun, instructionVars
    <3> QED BY <2>1, <3>1, <3>2, <3>3, <3>4, SettingStep
  <2>3. CASE Go("boot") /\ Machine(box)
    <3>1. /\ init' = [f \in InitFields |-> init'[f]] /\ SameRun /\ init'.at = "boot" /\ box' = box
      BY <1>0, <2>3 DEF Go, Machine, InitFields, SameRun
    <3> QED BY <1>0, <2>1, <3>1, NothingSet DEF Point, Settings
  <2> QED BY <1>8, <2>2, <2>3 DEF StartServices
<1>9. CASE SettlePort
  <2>1. /\ init.at = "port" /\ Point = "port" /\ UNCHANGED instructionVars /\ GoOn("port")
    BY <1>9 DEF SettlePort, AtStep, Point, TextsStay
  <2>2. PICK port : box' = [box EXCEPT !.port = port,
                              !.stalePort = @ \/ (init.way = "complete" /\ port # box.port
                                                  /\ box.caddyPort # 0)]
    BY <1>9 DEF SettlePort, Machine
  <2>3. /\ box' = [f \in BoxFields |-> box'[f]] /\ box'.port = port
        /\ box'.stalePort <=> \/ box.stalePort
                              \/ init.way = "complete" /\ port # box.port /\ box.caddyPort # 0
        /\ UNCHANGED <<box.dirs, box.runtime, box.threshold, box.hooks, box.password, box.monitor,
                       box.console, box.caddyPort>>
    BY <1>0, <2>2 DEF BoxFields
  <2>4. /\ init' = [f \in InitFields |-> init'[f]] /\ SameRun
        /\ init'.at = IF init.way = "complete" THEN "dependencies" ELSE "zone"
    BY <1>0, <2>1, NextOfComplete, NextOfFresh DEF GoOn, Go, InitFields, SameRun
  <2>5. Point' = init'.at
    BY <2>4 DEF Point
  <2>6. Progress'
    BY <1>0, <2>1, <2>3, <2>4, <2>5 DEF Progress, SameRun, instructionVars
  <2>7. CaddyAgrees'
    <3>1. CASE init.way = "complete"
      BY <1>0, <2>3, <2>4, <2>5, <3>1 DEF CaddyAgrees, RecordedPort, SameRun
    <3>2. CASE init.way # "complete"
      BY <1>0, <2>1, <2>3, <2>4, <2>5, <3>2 DEF CaddyAgrees
    <3> QED BY <3>1, <3>2
  <2> QED BY <2>1, <2>3, <2>4, <2>5, <2>6, <2>7, SettingStep
<1> QED BY <1>1, <1>2, <1>3, <1>4, <1>5, <1>6, <1>7, <1>8, <1>9

\* What the writer commits is of the release that is at hand, and it is the marker
\* until the run is over.
LEMMA CommitsCurrent ==
  ASSUME InstructionInv, WriterInTurn, WriterStep
  PROVE  /\ writer'.at \in {"discard", "done"} => marker' # NoFile /\ marker'.release = release'
         /\ release' = release
<1>0. InstructionInv'
  BY CallStep, RecoverStep, StageStep, KeepStep, PutStep, CommitStep, DiscardStep, UndoStep DEF WriterStep
<1>1. writer \in Writers
  BY DEF InstructionInv, InstructionTypeOK
<1>2. CASE Recover \/ Recovered \/ Stage \/ Keep \/ Put
  <2>1. writer'.at \notin {"discard", "done"}
    <3>1. CASE Recover
      BY <1>1, <3>1 DEF Recover, Writers
    <3>2. CASE Recovered
      BY <1>1, <3>2 DEF Recovered, Writers
    <3>3. CASE Stage
      BY <1>1, <3>3 DEF Stage, Writers
    <3>4. CASE Keep
      BY <1>1, <3>4 DEF Keep, Writers
    <3>5. CASE Put
      BY <1>1, <3>5 DEF Put, Writers
    <3> QED BY <1>2, <3>1, <3>2, <3>3, <3>4, <3>5
  <2> QED BY <1>2, <2>1 DEF Recover, Recovered, Stage, Keep, Put
<1>3. CASE Commit
  <2>1. release' = release /\ (writer'.at = "discard" \/ writer'.at = "undo")
    BY <1>1, <1>3 DEF Commit, Writers
  <2>2. CASE marker' = [txn |-> writer.txn, release |-> release]
    <3>1. marker' # NoFile
      BY <1>1, <2>2, NoSuchFile, EntryFacts DEF InstructionInv, InstructionTypeOK, Writers
    <3> QED BY <2>1, <2>2, <3>1
  <2>3. CASE writer' = [writer EXCEPT !.at = "undo"]
    BY <1>1, <2>1, <2>3 DEF Writers
  <2> QED BY <1>3, <2>2, <2>3 DEF Commit
<1>4. CASE DiscardBackup \/ RecordFormat
  BY <1>4 DEF WriterInTurn, DiscardBackup, RecordFormat
<1>5. CASE RemovePut \/ RestoreKept \/ Undone
  <2>1. writer'.at \notin {"discard", "done"}
    <3>1. CASE RemovePut
      BY <1>1, <3>1 DEF RemovePut, Writers
    <3>2. CASE RestoreKept
      BY <1>1, <3>2 DEF RestoreKept, Writers
    <3>3. CASE Undone
      BY <1>1, <3>3 DEF Undone, Writers
    <3> QED BY <1>5, <3>1, <3>2, <3>3
  <2> QED BY <1>5, <2>1 DEF RemovePut, RestoreKept, Undone
<1> QED BY <1>2, <1>3, <1>4, <1>5 DEF WriterStep

\* The instruction files, which may end the init.
LEMMA InstructionsStep ==
  ASSUME SetupInv, DeployInstructions
  PROVE  SetupInv'
<1> USE DEF Looking, Recorded, Limited, Instructed, HooksPut, Prepared, Stopped, Started, Unrecorded, BeforeCaddy
<1>1. /\ init.at = "instructions" /\ Point = "instructions" /\ box' = box
      /\ init = [f \in InitFields |-> init[f]] /\ InstructionInv
  BY DEF DeployInstructions, AtStep, Point, Machine, SetupInv, SetupTypeOK
<1>2. box.dirs = AllDirs
  BY <1>1 DEF SetupInv, Untouched
<1>3. /\ Untouched' /\ (init' = init => SetupTypeOK' /\ CaddyAgrees')
  BY <1>1, <1>2 DEF SetupInv, Untouched, SetupTypeOK, CaddyAgrees, RecordedPort, Point
<1>4. CASE init' = init /\ BeginInstructions(IF init.way = "complete" THEN "refresh" ELSE "fresh")
  <2>1. InstructionInv'
    BY <1>1, <1>4, CallStep
  <2>2. writer'.at = "recover" /\ UNCHANGED <<marker, release>>
    BY <1>4 DEF BeginInstructions, Idle
  <2>3. Progress' /\ WriterInTurn'
    BY <1>1, <1>4, <2>2 DEF SetupInv, Progress, WriterInTurn, Point, RecordedPort
  <2> QED BY <1>3, <1>4, <2>1, <2>3 DEF SetupInv
<1>5. CASE init' = init /\ WriterStep
  <2>1. InstructionInv'
    BY <1>1, <1>5, CallStep, RecoverStep, StageStep, KeepStep, PutStep, CommitStep, DiscardStep, UndoStep
    DEF WriterStep
  <2>2. writer'.at \in {"discard", "done"} => marker' # NoFile /\ marker'.release = release'
    BY <1>1, <1>5, CommitsCurrent DEF SetupInv
  <2>3. Progress' /\ WriterInTurn'
    BY <1>1, <1>5, <2>2 DEF SetupInv, Progress, WriterInTurn, Point, RecordedPort
  <2> QED BY <1>3, <1>5, <2>1, <2>3 DEF SetupInv
<1>6. CASE writer.at = "done" /\ WriterEnds /\ GoOn("instructions")
  <2>1. InstructionInv'
    BY <1>1, <1>6, CallStep
  <2>2. writer'.at = "idle" /\ UNCHANGED <<marker, release>> /\ marker # NoFile /\ marker.release = release
    BY <1>6 DEF SetupInv, WriterInTurn, WriterEnds, Idle
  <2>3. /\ init' = [f \in InitFields |-> init'[f]] /\ SameRun /\ init'.at = "hooks"
    BY <1>1, <1>6, NextOfComplete, NextOfFresh DEF GoOn, Go, InitFields, SameRun
  <2>4. Point' = "hooks"
    BY <2>3 DEF Point
  <2>5. SetupTypeOK' /\ WriterInTurn'
    BY <1>1, <2>2, <2>3, <2>4 DEF SetupInv, SetupTypeOK, WriterInTurn
  <2>6. Progress'
    BY <1>1, <2>2, <2>3, <2>4 DEF SetupInv, Progress, RecordedPort, SameRun
  <2>7. CaddyAgrees'
    BY <1>1, <2>3, <2>4 DEF SetupInv, CaddyAgrees, RecordedPort, SameRun
  <2> QED BY <1>3, <2>1, <2>5, <2>6, <2>7 DEF SetupInv
<1>7. CASE writer.at = "thrown" /\ WriterEnds /\ InitExits
  <2>1. InstructionInv'
    BY <1>1, <1>7, CallStep
  <2>2. /\ writer'.at = "idle" /\ init' = NoInit /\ UNCHANGED <<file, marker, format>>
    BY <1>7 DEF WriterEnds, Idle, InitExits
  <2> QED BY <1>1, <2>1, <2>2, InitOver
<1> QED BY <1>4, <1>5, <1>6, <1>7 DEF DeployInstructions

\* The end of an init, at its last step or before, and a newer yos between two inits.
LEMMA BetweenInits ==
  ASSUME SetupInv, ReportInit \/ InitDies \/ NewerYos
  PROVE  SetupInv'
<1>1. InstructionInv
  BY DEF SetupInv
<1>2. CASE ReportInit
  <2>1. /\ init.at = "report" /\ init' = NoInit /\ box' = box /\ UNCHANGED instructionVars
    BY <1>2 DEF ReportInit, AtStep, InitExits, Machine, TextsStay
  <2>2. writer'.at = "idle"
    BY <2>1 DEF SetupInv, WriterInTurn, Point, instructionVars
  <2> QED BY <1>1, <2>1, <2>2, InitOver, TextsKept DEF instructionVars
<1>3. CASE InitDies
  <2>1. /\ init' = NoInit /\ box' = box /\ writer' = Idle /\ Spend("deaths", MaxDeaths)
        /\ UNCHANGED <<file, bak, temps, marker, format, release, stamp>>
    BY <1>3 DEF InitDies
  <2>2. /\ Idle \in Writers /\ Idle.at = "idle"
    <3>1. 0 \in Nat
      OBVIOUS
    <3> QED BY <3>1, NothingLeft DEF Idle, Writers
  <2>3. /\ spent' \in [runs : Nat, edits : Nat, faults : Nat, deaths : Nat, launches : Nat]
        /\ spent'.edits = spent.edits
    BY <1>1, <2>1 DEF Spend, InstructionInv, InstructionTypeOK
  <2>4. InstructionInv'
    BY <1>1, <2>1, <2>2, <2>3, AtRest, WriterOnly DEF InstructionInv, InstructionTypeOK
  <2> QED BY <2>1, <2>2, <2>4, InitOver
<1>4. CASE NewerYos
  <2>1. /\ Point = "none" /\ UNCHANGED setupVars /\ release \in Nat \ {0} /\ release' = release + 1
        /\ UNCHANGED <<file, bak, temps, marker, format, writer, stamp, spent>>
    BY <1>1, <1>4 DEF NewerYos, Point, NoInit, InstructionInv, InstructionTypeOK
  <2>2. writer.at = "idle"
    BY <2>1 DEF SetupInv, WriterInTurn
  <2>3. InstructionInv'
    BY <1>1, <2>1, <2>2, AtRest, WriterOnly DEF InstructionInv, InstructionTypeOK
  <2>4. SetupTypeOK' /\ Untouched' /\ CaddyAgrees'
    BY <2>1 DEF SetupInv, setupVars, SetupTypeOK, Untouched, CaddyAgrees, RecordedPort, Point
  <2>5. Point' = "none"
    BY <2>1 DEF Point, setupVars
  <2>6. Progress' /\ WriterInTurn'
    BY <2>1, <2>2, <2>5
    DEF Progress, WriterInTurn, Looking, Unrecorded, Recorded, Limited, Instructed, HooksPut, Prepared,
        Stopped, Started
  <2> QED BY <2>3, <2>4, <2>6 DEF SetupInv
<1> QED BY <1>2, <1>3, <1>4

\* What an init that ends with exit code 0 leaves behind is of one piece, whatever
\* died or failed before it and whichever release came in between: instruction
\* files, hooks and services of its release and its runtime, and a console where
\* .env and Caddy say it is (commands/init).
THEOREM FinishedInitAgreesCorrect ==
  SetupSpec => []FinishedInitAgrees
<1>1. SetupInit /\ InstructionInit => SetupInv
  <2> SUFFICES ASSUME SetupInit, InstructionInit PROVE SetupInv
    OBVIOUS
  <2>1. /\ init = NoInit /\ init.at = "none" /\ box = [f \in BoxFields |-> box[f]]
        /\ init = [f \in InitFields |-> init[f]]
        /\ box.dirs = {} /\ box.runtime = NONE /\ box.caddyPort = 0
    BY DEF SetupInit, NoInit, BoxFields, InitFields
  <2>2. Point = "none"
    BY <2>1 DEF Point
  <2>3. /\ marker = NoFile /\ ~format /\ file = [e \in Entries |-> NoFile] /\ writer.at = "idle"
    BY DEF InstructionInit, Idle
  <2>4. SetupTypeOK /\ Untouched /\ WriterInTurn
    BY <2>1, <2>2, <2>3, EntryFacts DEF SetupTypeOK, Untouched, WriterInTurn, Looking
  <2>5. Progress /\ CaddyAgrees
    BY <2>1, <2>2
    DEF Progress, CaddyAgrees, Looking, Unrecorded, Recorded, Limited, Instructed, HooksPut, Prepared,
        Stopped, Started
  <2> QED BY <2>4, <2>5, TextsBegin DEF SetupInv
<1>2. SetupInv /\ [SetupNext]_<<setupVars, instructionVars>> => SetupInv'
  <2> SUFFICES ASSUME SetupInv, [SetupNext]_<<setupVars, instructionVars>> PROVE SetupInv'
    OBVIOUS
  <2>1. CASE SetupNext
    BY <2>1, PrerequisiteStep, LayingStep, PlainStep, MakingStep, InstructionsStep, BetweenInits
    DEF SetupNext
  <2>2. CASE UNCHANGED <<setupVars, instructionVars>>
    <3>1. SetupTypeOK' /\ Untouched' /\ CaddyAgrees' /\ Progress' /\ WriterInTurn'
      BY <2>2
      DEF SetupInv, setupVars, instructionVars, SetupTypeOK, Untouched, CaddyAgrees, Progress,
          WriterInTurn, RecordedPort, Point
    <3> QED BY <2>2, <3>1, TextsKept DEF SetupInv
  <2> QED BY <2>1, <2>2
<1>3. SetupInv => FinishedInitAgrees
  <2> SUFFICES ASSUME SetupInv, init.at = "report"
               PROVE  /\ marker # NoFile /\ marker.release = release /\ There("YOS")
                      /\ box.hooks = release /\ box.password # "none" /\ box.threshold # 0
                      /\ box.runtime = init.want /\ box.monitor \in {NONE, init.want}
                      /\ box.monitor # NONE => box.console = RecordedPort
                      /\ box.caddyPort \in {0, RecordedPort} \/ box.stalePort
    BY DEF FinishedInitAgrees, AtStep
  <2>1. Point = "report"
    BY DEF Point
  <2>2. Point \in Stopped
    BY <2>1 DEF Stopped, Started
  <2>3. /\ Point \in Prepared /\ Point \in HooksPut /\ Point \in Instructed /\ Point \in Limited
        /\ Point \in Recorded
    BY <2>2 DEF Recorded, Limited, Instructed, HooksPut, Prepared
  <2>4. There("YOS")
    BY <2>3 DEF SetupInv, Progress, InstructionInv, UsersOwn
  <2> QED BY <2>2, <2>3, <2>4 DEF SetupInv, Progress, CaddyAgrees
<1> QED BY <1>1, <1>2, <1>3, PTL DEF SetupSpec

-----------------------------------------------------------------------------
(* The set of what Those picks *)

LEMMA ThoseOfList ==
  ASSUME NEW T, NEW list \in Seq(T), NEW S
  PROVE  Those(list, S) \in Seq(T) /\ ToSet(Those(list, S)) = ToSet(list) \cap S
<1> DEFINE r == Those(list, S)
<1>1. /\ r \in Seq(T)
      /\ \A k \in DOMAIN r : \E j \in DOMAIN list : r[k] = list[j] /\ list[j] \in S
      /\ \A j \in DOMAIN list : list[j] \in S => \E k \in DOMAIN r : r[k] = list[j]
  BY ThoseAre
<1> HIDE DEF r
<1>2. ToSet(r) \subseteq ToSet(list) \cap S
  BY <1>1 DEF ToSet
<1>3. ToSet(list) \cap S \subseteq ToSet(r)
  BY <1>1 DEF ToSet
<1> QED BY <1>1, <1>2, <1>3 DEF r

-----------------------------------------------------------------------------
(* The invariant *)

Hooks == [who : {"core", "mine", "legacy"}, n : Nat, v : Nat]
Groups == [matcher : {"startup", "other"}, hooks : Seq(Hooks)]
SettingsFiles == [ok : BOOLEAN, groups : Seq(Groups), model : {"none", "user", "plain", "1m"}]
Syncs ==
  [at : {"backup", "write", "prune", "threshold"}, read : SettingsFiles, ok : BOOLEAN,
   late : SUBSET Hooks, backfill : BOOLEAN]
Launches ==
  [at : {"none", "valid", "features", "list", "write", "mark", "runs"}, listed : Seq(Hooks),
   raced : BOOLEAN, skips : SUBSET (Nat \X Hooks)]
Used == [changes : Nat, syncs : Nat, tears : Nat, halved : BOOLEAN, raced : BOOLEAN]

ClaudeTypeOK ==
  /\ settings \in SettingsFiles /\ backups \in Seq(SettingsFiles)
  /\ threshold \in Nat /\ sync \in Syncs \cup {NoSync} /\ template \in Nat \ {0}
  /\ claims \in BOOLEAN /\ owned \subseteq Hooks /\ excused \subseteq Hooks
  /\ sync.at = "write" => backups # <<>>

CodexTypeOK ==
  /\ codex \in [ok : BOOLEAN, hooks : Seq(Hooks)]
  /\ codexConfig \in [ok : BOOLEAN, on : BOOLEAN, trusted : SUBSET (Nat \X Hooks)]
  /\ projectHooks \in BOOLEAN /\ version \in Nat
  /\ trust \in [hooks : Seq(Hooks), version : Nat, snapshot : SUBSET (Nat \X Hooks)] \cup {NoTrust}
  /\ launch \in Launches /\ writing \in {"none", "global", "hooks"}

\* The user's hooks are in a file that can be parsed, or the writer of it knows them,
\* or could not.
InCodex == IF codex.ok THEN ToSet(codex.hooks) ELSE {}
Has(doc, hooks) == doc.ok => hooks \subseteq HooksOf(doc.groups) \cup InCodex
Remembered ==
  /\ \A h \in owned : h.who = "mine"
  /\ Has(settings, owned \ excused)
  /\ sync.at \in {"backup", "write"} =>
       sync.read.ok /\ (sync.ok => Has(sync.read, owned \ (excused \cup sync.late)))
  /\ sync.at = "write" => Has(Head(backups), owned \ (excused \cup sync.late))

\* No two hooks of the core in one group have a key in common.
KeysDiffer(hooks) ==
  \A j, k \in DOMAIN hooks : IsCoreManaged(hooks[j]) /\ Key(hooks[j]) = Key(hooks[k]) => j = k
Distinct(groups) == \A i \in DOMAIN groups : KeysDiffer(groups[i].hooks)
NoKeyTwice ==
  /\ Distinct(settings.groups)
  /\ sync # NoSync => Distinct(sync.read.groups)
  /\ sync.at = "write" => Distinct(Head(backups).groups)

CoreOf(groups) == {h \in HooksOf(groups) : IsCoreManaged(h)}
Startups(groups) == {i \in DOMAIN groups : groups[i].matcher = "startup"}
InPlace(groups) ==
  /\ Keys(Desired(template)) = {Key(h) : h \in CoreOf(groups)}
  /\ Startups(groups) # {}
  /\ \A i \in Startups(groups) : Startups(groups) = {i} => CoreOf(groups) = ToSet(Desired(template))
Installed == sync.at = "prune" => InPlace(settings.groups)

\* The threshold a file needs is there, or is about to be.
Fits(doc) == doc.ok /\ doc.model = "1m" => threshold \in 1..30 \/ used.halved
ModelsFit ==
  /\ Fits(settings) \/ (sync.at \in {"prune", "threshold"} /\ sync.backfill /\ threshold = 0)
  /\ sync.at \in {"backup", "write"} => Fits(sync.read)
  /\ sync.at = "write" => Fits(Head(backups)) /\ (sync.backfill <=> SyncedModel # sync.read.model)
  /\ sync.at = "backup" => ~sync.backfill

\* What is on record as trusted is, and so is what the app-server is told of.
Trusting ==
  /\ trust # NoTrust /\ ~used.raced => At(trust.hooks) \subseteq trust.snapshot
  /\ launch.at \in {"write", "mark"} /\ ~launch.raced => launch.listed = codex.hooks
  /\ launch.at = "mark" => At(launch.listed) \subseteq codexConfig.trusted \/ codexConfig.trusted = {}

ClaudeInv == ClaudeTypeOK /\ Remembered /\ NoKeyTwice /\ Installed /\ ModelsFit
CodexInv == CodexTypeOK /\ Trusting /\ TrustIsReal
HookInv == ClaudeInv /\ CodexInv /\ used \in Used

-----------------------------------------------------------------------------
(* What a sync makes of the groups *)

\* A hook's key tells its owner.
LEMMA KeyTells ==
  ASSUME NEW g, NEW h, Key(g) = Key(h)
  PROVE  g.who = h.who /\ g.n = h.n /\ (IsCoreManaged(g) <=> IsCoreManaged(h))
BY DEF Key, IsCoreManaged

LEMMA DesiredFacts ==
  ASSUME NEW r \in Nat \ {0}
  PROVE  /\ Desired(r) \in Seq(Hooks)
         /\ \A d \in ToSet(Desired(r)) : IsCoreManaged(d) /\ Key(d) \in Keys(Desired(r))
         /\ \A d, e \in ToSet(Desired(r)) : Key(d) = Key(e) => d = e
         /\ \A h \in Hooks : Key(h) \in Keys(Desired(r)) => IsCoreManaged(h)
         /\ \A k \in Keys(Desired(r)) : \E d \in ToSet(Desired(r)) : Key(d) = k
         /\ Keys(Desired(r)) = {Key(d) : d \in ToSet(Desired(r))}
         /\ ToSet(Desired(r)) # {}
<1> DEFINE a == Hook("core", 0, r)
           b == Hook("core", r, r)
<1>1. a \in Hooks /\ b \in Hooks /\ IsCoreManaged(a) /\ IsCoreManaged(b) /\ Key(a) # Key(b)
  BY DEF Hooks, Hook, IsCoreManaged, Key
<1>2. Desired(r) = <<a, b>>
  BY DEF Desired
<1> HIDE DEF a, b
<1>3. Desired(r) \in Seq(Hooks) /\ DOMAIN Desired(r) = 1..2 /\ Desired(r)[1] = a /\ Desired(r)[2] = b
  BY <1>1, <1>2
<1>4. ToSet(Desired(r)) = {a, b} /\ Keys(Desired(r)) = {Key(a), Key(b)}
  BY <1>3 DEF ToSet, Keys
<1>5. \A h \in Hooks : Key(h) \in {Key(a), Key(b)} => IsCoreManaged(h)
  BY <1>1, KeyTells
<1> QED BY <1>1, <1>3, <1>4, <1>5

\* Two lists, one behind the other.
LEMMA Behind ==
  ASSUME NEW T, NEW a \in Seq(T), NEW b \in Seq(T)
  PROVE  /\ a \o b \in Seq(T) /\ DOMAIN (a \o b) = 1..(Len(a) + Len(b))
         /\ \A i \in 1..Len(a) : (a \o b)[i] = a[i]
         /\ \A i \in 1..Len(b) : (a \o b)[Len(a) + i] = b[i]
         /\ \A i \in 1..(Len(a) + Len(b)) :
              i \in 1..Len(a) \/ (i - Len(a) \in 1..Len(b) /\ (a \o b)[i] = b[i - Len(a)])
         /\ ToSet(a \o b) = ToSet(a) \cup ToSet(b)
<1>1. a \o b \in Seq(T) /\ DOMAIN (a \o b) = 1..(Len(a) + Len(b)) /\ DOMAIN a = 1..Len(a) /\ DOMAIN b = 1..Len(b)
  OBVIOUS
<1>2. \A i \in 1..Len(a) : (a \o b)[i] = a[i]
  OBVIOUS
<1>3. \A i \in 1..(Len(a) + Len(b)) :
        i \in 1..Len(a) \/ (i - Len(a) \in 1..Len(b) /\ (a \o b)[i] = b[i - Len(a)])
  OBVIOUS
<1>4. \A i \in 1..Len(b) : (a \o b)[Len(a) + i] = b[i] /\ Len(a) + i \in 1..(Len(a) + Len(b))
  OBVIOUS
<1> DEFINE c == a \o b
<1>5. ToSet(c) = ToSet(a) \cup ToSet(b)
  <2> HIDE DEF c
  <2>1. ASSUME NEW x \in ToSet(c) PROVE x \in ToSet(a) \cup ToSet(b)
    <3>1. PICK i \in 1..(Len(a) + Len(b)) : c[i] = x
      BY <1>1 DEF ToSet, c
    <3>2. CASE i \in 1..Len(a)
      BY <3>1, <3>2, <1>1, <1>2 DEF ToSet, c
    <3>3. CASE i \notin 1..Len(a)
      <4>1. i - Len(a) \in DOMAIN b /\ x = b[i - Len(a)]
        BY <3>1, <3>3, <1>1, <1>3 DEF c
      <4> QED BY <4>1 DEF ToSet
    <3> QED BY <3>2, <3>3
  <2>2. ASSUME NEW x \in ToSet(a) PROVE x \in ToSet(c)
    <3>1. PICK i \in 1..Len(a) : a[i] = x
      BY <1>1 DEF ToSet
    <3>2. i \in 1..(Len(a) + Len(b)) /\ c[i] = x
      BY <3>1, <1>2 DEF c
    <3> QED BY <3>2, <1>1 DEF ToSet, c
  <2>3. ASSUME NEW x \in ToSet(b) PROVE x \in ToSet(c)
    <3>1. PICK i \in 1..Len(b) : b[i] = x
      BY <1>1 DEF ToSet
    <3>2. Len(a) + i \in DOMAIN c /\ c[Len(a) + i] = x
      BY <3>1, <1>1, <1>4 DEF c
    <3> QED BY <3>2 DEF ToSet
  <2> QED BY <2>1, <2>2, <2>3
<1> QED BY <1>1, <1>2, <1>3, <1>4, <1>5

LEMMA DesiredInPlace ==
  ASSUME NEW hooks \in Seq(Hooks), NEW r \in Nat \ {0}
  PROVE  LET new == WithDesired(hooks, Desired(r))
         IN /\ new \in Seq(Hooks)
            /\ ToSet(Desired(r)) \subseteq ToSet(new)
            /\ \A h \in ToSet(hooks) : ~IsCoreManaged(h) => h \in ToSet(new)
            /\ KeysDiffer(hooks) =>
                 /\ KeysDiffer(new)
                 /\ \A h \in ToSet(new) : Key(h) \in Keys(Desired(r)) => h \in ToSet(Desired(r))
<1> DEFINE D == Desired(r)
           first(j) == \A i \in 1..(j - 1) : Key(hooks[i]) # Key(hooks[j])
           place(j) == {d \in ToSet(D) : Key(d) = Key(hooks[j]) /\ first(j)}
           a == [j \in DOMAIN hooks |-> IF place(j) = {} THEN hooks[j] ELSE CHOOSE d \in place(j) : TRUE]
           missing == {d \in ToSet(D) : Key(d) \notin Keys(hooks)}
           b == Those(D, missing)
<1>1. /\ D \in Seq(Hooks) /\ DOMAIN hooks = 1..Len(hooks) /\ Len(hooks) \in Nat
      /\ \A i \in DOMAIN hooks : hooks[i] \in Hooks
  BY DesiredFacts
<1>2. \A d \in ToSet(D) : d \in Hooks /\ IsCoreManaged(d) /\ Key(d) \in Keys(D)
  BY <1>1, DesiredFacts DEF ToSet
<1>3. \A d, e \in ToSet(D) : Key(d) = Key(e) => d = e
  BY DesiredFacts
<1>4. WithDesired(hooks, D) = a \o b
  BY DEF WithDesired
<1>5. b \in Seq(Hooks) /\ ToSet(b) = missing
  <2>1. b \in Seq(Hooks) /\ ToSet(b) = ToSet(D) \cap missing
    BY <1>1, ThoseOfList
  <2> QED BY <2>1
<1>6. \A j \in DOMAIN hooks : IF place(j) = {} THEN a[j] = hooks[j] ELSE a[j] \in place(j)
  OBVIOUS
<1>7. \A j \in DOMAIN hooks : Key(a[j]) = Key(hooks[j]) /\ a[j] \in Hooks
  BY <1>1, <1>2, <1>6
<1>8. a \in Seq(Hooks) /\ Len(a) = Len(hooks)
  <2>1. a \in [1..Len(hooks) -> Hooks]
    BY <1>1, <1>7
  <2>2. a \in Seq(Hooks)
    BY <2>1, <1>1
  <2> QED BY <2>1, <2>2, <1>1
<1>9. \A j \in DOMAIN hooks : a[j] = hooks[j] \/ a[j] \in ToSet(D)
  BY <1>6
<1>10. \A j \in DOMAIN hooks : first(j) /\ Key(hooks[j]) \in Keys(D) => a[j] \in ToSet(D)
  <2> SUFFICES ASSUME NEW j \in DOMAIN hooks, first(j), Key(hooks[j]) \in Keys(D)
               PROVE a[j] \in ToSet(D)
    OBVIOUS
  <2>1. PICK d \in ToSet(D) : Key(d) = Key(hooks[j])
    BY DesiredFacts
  <2>2. place(j) # {}
    BY <2>1
  <2> QED BY <2>2, <1>6
<1> DEFINE new == a \o b
<1>11. /\ new \in Seq(Hooks) /\ DOMAIN new = 1..(Len(hooks) + Len(b)) /\ Len(b) \in Nat
       /\ \A i \in 1..Len(hooks) : new[i] = a[i]
       /\ \A i \in DOMAIN new :
            i \in 1..Len(hooks) \/ (i - Len(hooks) \in 1..Len(b) /\ new[i] = b[i - Len(hooks)])
       /\ ToSet(new) = ToSet(a) \cup missing
  <2> HIDE DEF a, b
  <2>1. Len(b) \in Nat
    BY <1>5
  <2>2. new \in Seq(Hooks) /\ DOMAIN new = 1..(Len(a) + Len(b)) /\ ToSet(new) = ToSet(a) \cup ToSet(b)
    <3>1. a \in Seq(Hooks) /\ b \in Seq(Hooks)
      BY <1>5, <1>8
    <3>2. ToSet(a \o b) = ToSet(a) \cup ToSet(b)
      BY <3>1, Behind
    <3>3. a \o b \in Seq(Hooks) /\ DOMAIN (a \o b) = 1..(Len(a) + Len(b))
      BY <3>1
    <3> QED BY <3>2, <3>3
  <2>3. \A i \in 1..Len(a) : new[i] = a[i]
    BY <1>5, <1>8, Behind
  <2>4. \A i \in 1..(Len(a) + Len(b)) :
          i \in 1..Len(a) \/ (i - Len(a) \in 1..Len(b) /\ new[i] = b[i - Len(a)])
    BY <1>5, <1>8, Behind
  <2> QED BY <2>1, <2>2, <2>3, <2>4, <1>5, <1>8
<1>12. DOMAIN a = DOMAIN hooks
  OBVIOUS
<1> HIDE DEF a, place
<1>13. ToSet(D) \subseteq ToSet(new)
  <2> SUFFICES ASSUME NEW d \in ToSet(D), d \notin missing PROVE d \in ToSet(a)
    BY <1>11
  <2> DEFINE same == {j \in DOMAIN hooks : Key(hooks[j]) = Key(d)}
  <2>1. same # {} /\ same \subseteq Nat
    BY <1>1 DEF Keys
  <2>2. PICK j \in same : \A i \in same : j <= i
    BY <2>1, Least
  <2>3. first(j) /\ Key(hooks[j]) \in Keys(D)
    <3>1. \A i \in 1..(j - 1) : i \in DOMAIN hooks /\ ~(j <= i)
      BY <1>1, <2>1
    <3> QED BY <1>1, <1>2, <2>2, <3>1
  <2>4. a[j] \in ToSet(D) /\ Key(a[j]) = Key(d)
    BY <2>3, <1>7, <1>10
  <2>5. a[j] = d
    BY <2>4, <1>3
  <2> QED BY <2>5, <1>12 DEF ToSet
<1>14. \A h \in ToSet(hooks) : ~IsCoreManaged(h) => h \in ToSet(new)
  <2> SUFFICES ASSUME NEW h \in ToSet(hooks), ~IsCoreManaged(h) PROVE h \in ToSet(a)
    BY <1>11
  <2>1. PICK j \in DOMAIN hooks : hooks[j] = h
    BY DEF ToSet
  <2>2. ~IsCoreManaged(a[j])
    BY <2>1, <1>7, KeyTells
  <2>3. a[j] = h
    BY <2>1, <2>2, <1>2, <1>9
  <2> QED BY <2>3, <1>12 DEF ToSet
<1>15. ASSUME KeysDiffer(hooks) PROVE KeysDiffer(new)
  <2> SUFFICES ASSUME NEW j \in DOMAIN new, NEW k \in DOMAIN new,
                      IsCoreManaged(new[j]), Key(new[j]) = Key(new[k])
               PROVE  j = k
    BY DEF KeysDiffer
  <2>1. ASSUME NEW i \in DOMAIN new, i \in 1..Len(hooks)
        PROVE  Key(new[i]) = Key(hooks[i]) /\ Key(new[i]) \in Keys(hooks)
    BY <2>1, <1>1, <1>7, <1>11 DEF Keys
  <2>2. ASSUME NEW i \in DOMAIN new, i \notin 1..Len(hooks)
        PROVE  i - Len(hooks) \in 1..Len(b) /\ new[i] = b[i - Len(hooks)] /\ new[i] \in missing
    <3>1. i - Len(hooks) \in 1..Len(b) /\ new[i] = b[i - Len(hooks)]
      BY <2>2, <1>11
    <3>2. DOMAIN b = 1..Len(b)
      BY <1>5
    <3>3. new[i] \in ToSet(b)
      BY <3>1, <3>2 DEF ToSet
    <3> QED BY <3>1, <3>3, <1>5
  <2>3. CASE j \in 1..Len(hooks) /\ k \in 1..Len(hooks)
    <3>1. IsCoreManaged(hooks[j])
      BY <2>1, <2>3, KeyTells
    <3> QED BY <3>1, <2>1, <2>3, <1>1, <1>15 DEF KeysDiffer
  <2>4. CASE j \notin 1..Len(hooks) /\ k \notin 1..Len(hooks)
    <3>1. PICK p : Picks(Hooks, D, missing, Len(D), b, p)
      BY <1>1, ThosePicks
    <3> DEFINE s == j - Len(hooks)
               t == k - Len(hooks)
    <3>2. s \in 1..Len(b) /\ t \in 1..Len(b) /\ Key(b[s]) = Key(b[t]) /\ b[s] \in ToSet(D) /\ b[t] \in ToSet(D)
      BY <2>2, <2>4
    <3> HIDE DEF s, t
    <3>3. b[s] = b[t]
      BY <3>2, <1>3
    <3>4. b[s] = D[p[s]] /\ b[t] = D[p[t]] /\ p[s] \in 1..Len(D) /\ p[t] \in 1..Len(D)
      BY <3>1, <3>2 DEF Picks
    <3>5. \A m, n \in 1..Len(D) : D[m] = D[n] => m = n
      <4>1. D = <<Hook("core", 0, r), Hook("core", r, r)>>
        BY DEF Desired
      <4>2. Hook("core", 0, r) # Hook("core", r, r)
        BY DEF Hook
      <4>3. Len(D) = 2 /\ D[1] # D[2]
        BY <4>1, <4>2
      <4> QED BY <4>3
    <3>6. s = t
      BY <3>1, <3>2, <3>3, <3>4, <3>5 DEF Picks
    <3> QED BY <3>6, <1>1, <1>11 DEF s, t
  <2>5. CASE j \in 1..Len(hooks) /\ k \notin 1..Len(hooks)
    BY <2>1, <2>2, <2>5
  <2>6. CASE j \notin 1..Len(hooks) /\ k \in 1..Len(hooks)
    BY <2>1, <2>2, <2>6
  <2> QED BY <2>3, <2>4, <2>5, <2>6
<1>16. ASSUME KeysDiffer(hooks), NEW h \in ToSet(new), Key(h) \in Keys(D) PROVE h \in ToSet(D)
  <2> SUFFICES ASSUME h \in ToSet(a) PROVE h \in ToSet(D)
    BY <1>11
  <2>1. PICK j \in DOMAIN hooks : a[j] = h
    BY <1>12 DEF ToSet
  <2>2. IsCoreManaged(hooks[j]) /\ Key(hooks[j]) \in Keys(D)
    BY <1>1, <1>7, <1>16, <2>1, DesiredFacts
  <2>3. first(j)
    <3> SUFFICES ASSUME NEW i \in 1..(j - 1), Key(hooks[i]) = Key(hooks[j]) PROVE FALSE
      OBVIOUS
    <3>1. i \in DOMAIN hooks /\ i # j
      BY <1>1
    <3> QED BY <1>16, <2>2, <3>1 DEF KeysDiffer
  <2> QED BY <2>1, <2>2, <2>3, <1>10
<1> HIDE DEF new, D
<1> QED BY <1>4, <1>11, <1>13, <1>14, <1>15, <1>16 DEF new, D

LEMMA HooksOfGroups ==
  ASSUME NEW groups, NEW h
  PROVE  h \in HooksOf(groups) <=> \E i \in DOMAIN groups : h \in ToSet(groups[i].hooks)
BY DEF HooksOf

\* A group with a hook among others replaced, and a list with a group replaced.
LEMMA GroupOfHooks ==
  ASSUME NEW g \in Groups, NEW hooks \in Seq(Hooks)
  PROVE  LET new == [g EXCEPT !.hooks = hooks]
         IN new \in Groups /\ new.matcher = g.matcher /\ new.hooks = hooks
BY DEF Groups

LEMMA ForwardFacts ==
  ASSUME NEW groups \in Seq(Groups), NEW r \in Nat \ {0}
  PROVE  LET gs == Forward(groups, Desired(r))
         IN /\ gs \in Seq(Groups)
            /\ \A h \in HooksOf(groups) : ~IsCoreManaged(h) => h \in HooksOf(gs)
            /\ \E f \in DOMAIN gs :
                 /\ gs[f].matcher = "startup" /\ ToSet(Desired(r)) \subseteq ToSet(gs[f].hooks)
                 /\ Distinct(groups) =>
                      \A h \in ToSet(gs[f].hooks) : Key(h) \in Keys(Desired(r)) => h \in ToSet(Desired(r))
            /\ Distinct(groups) => Distinct(gs)
<1> DEFINE D == Desired(r)
           at == {i \in DOMAIN groups : groups[i].matcher = "startup"}
           gs == Forward(groups, D)
<1>1. /\ D \in Seq(Hooks) /\ DOMAIN groups = 1..Len(groups) /\ Len(groups) \in Nat
      /\ \A i \in DOMAIN groups : groups[i] \in Groups /\ groups[i].hooks \in Seq(Hooks)
  <2>1. D \in Seq(Hooks)
    BY DesiredFacts
  <2>2. DOMAIN groups = 1..Len(groups) /\ Len(groups) \in Nat /\ \A i \in DOMAIN groups : groups[i] \in Groups
    OBVIOUS
  <2>3. \A g \in Groups : g.hooks \in Seq(Hooks)
    BY DEF Groups
  <2> QED BY <2>1, <2>2, <2>3
<1>2. CASE at = {}
  <2> DEFINE g == [matcher |-> "startup", hooks |-> D]
             f == Len(groups) + 1
  <2>1. gs = Append(groups, g)
    BY <1>2 DEF Forward
  <2>2. g \in Groups /\ g.matcher = "startup" /\ g.hooks = D
    BY <1>1 DEF Groups
  <2> HIDE DEF g, gs, D
  <2>3. gs \in Seq(Groups) /\ DOMAIN gs = 1..(Len(groups) + 1) /\ gs[f] = g /\ f \in DOMAIN gs
        /\ \A i \in DOMAIN groups : gs[i] = groups[i]
    BY <1>1, <2>1, <2>2
  <2>4. \A h \in HooksOf(groups) : h \in HooksOf(gs)
    <3>1. \A i \in DOMAIN groups : i \in DOMAIN gs
      BY <1>1, <2>3
    <3> QED BY <2>3, <3>1, HooksOfGroups
  <2>5. KeysDiffer(D)
    <3>1. D = <<Hook("core", 0, r), Hook("core", r, r)>>
      BY DEF D, Desired
    <3>2. Key(Hook("core", 0, r)) # Key(Hook("core", r, r))
      BY DEF Key, Hook
    <3>3. DOMAIN D = 1..2 /\ Key(D[1]) # Key(D[2])
      BY <3>1, <3>2
    <3> QED BY <3>3 DEF KeysDiffer
  <2>6. Distinct(groups) => Distinct(gs)
    <3> SUFFICES ASSUME Distinct(groups), NEW i \in DOMAIN gs PROVE KeysDiffer(gs[i].hooks)
      BY DEF Distinct
    <3>1. CASE i = f
      BY <3>1, <2>2, <2>3, <2>5
    <3>2. CASE i # f
      <4>1. i \in DOMAIN groups
        BY <3>2, <1>1, <2>3
      <4> QED BY <4>1, <2>3 DEF Distinct
    <3> QED BY <3>1, <3>2
  <2>7. gs[f].matcher = "startup" /\ gs[f].hooks = D
    BY <2>2, <2>3
  <2> QED BY <2>3, <2>4, <2>6, <2>7 DEF gs, D
<1>3. CASE at # {}
  <2> DEFINE f == CHOOSE j \in at : \A k \in at : j <= k
             new == WithDesired(groups[f].hooks, D)
             g == [groups[f] EXCEPT !.hooks = new]
  <2>1. \E j \in at : \A k \in at : j <= k
    <3>1. at \subseteq Nat
      BY <1>1
    <3> QED BY <1>3, <3>1, Least
  <2>2. f \in at
    BY <2>1
  <2>3. gs = [groups EXCEPT ![f].hooks = new]
    BY <1>3 DEF Forward
  <2> HIDE DEF f
  <2>4. f \in DOMAIN groups /\ groups[f].matcher = "startup" /\ groups[f].hooks \in Seq(Hooks)
    BY <1>1, <2>2
  <2>5. /\ new \in Seq(Hooks) /\ ToSet(D) \subseteq ToSet(new)
        /\ \A h \in ToSet(groups[f].hooks) : ~IsCoreManaged(h) => h \in ToSet(new)
        /\ KeysDiffer(groups[f].hooks) =>
             /\ KeysDiffer(new)
             /\ \A h \in ToSet(new) : Key(h) \in Keys(D) => h \in ToSet(D)
    BY <2>4, DesiredInPlace
  <2> HIDE DEF new, D
  <2>6. g \in Groups /\ g.matcher = "startup" /\ g.hooks = new
    BY <1>1, <2>4, <2>5, GroupOfHooks
  <2>7. gs = [groups EXCEPT ![f] = g]
    BY <2>3
  <2> HIDE DEF gs, g
  <2>8. gs \in Seq(Groups) /\ DOMAIN gs = DOMAIN groups /\ gs[f] = g
        /\ \A i \in DOMAIN groups : i # f => gs[i] = groups[i]
    BY <1>1, <2>4, <2>6, <2>7
  <2>9. \A h \in HooksOf(groups) : ~IsCoreManaged(h) => h \in HooksOf(gs)
    <3> SUFFICES ASSUME NEW h \in HooksOf(groups), ~IsCoreManaged(h) PROVE h \in HooksOf(gs)
      OBVIOUS
    <3>1. PICK i \in DOMAIN groups : h \in ToSet(groups[i].hooks)
      BY HooksOfGroups
    <3>2. h \in ToSet(gs[i].hooks)
      BY <3>1, <2>5, <2>6, <2>8
    <3> QED BY <3>1, <3>2, <2>8, HooksOfGroups
  <2>10. Distinct(groups) => Distinct(gs) /\ KeysDiffer(groups[f].hooks)
    BY <2>4, <2>5, <2>6, <2>8 DEF Distinct
  <2>11. f \in DOMAIN gs /\ gs[f].matcher = "startup" /\ gs[f].hooks = new
    BY <2>4, <2>6, <2>8
  <2> QED BY <2>5, <2>8, <2>9, <2>10, <2>11 DEF gs, D
<1> QED BY <1>2, <1>3

\* What the reverse pass leaves of a group.
Left(g, desired) == [g EXCEPT !.hooks = Those(@, {h \in ToSet(@) : Stays(h, g.matcher, desired)})]

LEMMA LeftFacts ==
  ASSUME NEW g \in Groups, NEW desired
  PROVE  LET l == Left(g, desired)
         IN /\ l \in Groups /\ l.matcher = g.matcher
            /\ ToSet(l.hooks) = {h \in ToSet(g.hooks) : Stays(h, g.matcher, desired)}
            /\ KeysDiffer(g.hooks) => KeysDiffer(l.hooks)
<1> DEFINE S == {h \in ToSet(g.hooks) : Stays(h, g.matcher, desired)}
           new == Those(g.hooks, S)
           l == Left(g, desired)
<1>1. g.hooks \in Seq(Hooks)
  BY DEF Groups
<1>2. l = [g EXCEPT !.hooks = new]
  BY DEF Left
<1>3. new \in Seq(Hooks) /\ ToSet(new) = ToSet(g.hooks) \cap S
  BY <1>1, ThoseOfList
<1>4. ToSet(new) = S
  BY <1>3
<1>5. PICK p : Picks(Hooks, g.hooks, S, Len(g.hooks), new, p)
  BY <1>1, ThosePicks
<1> HIDE DEF new, S, l
<1>6. l \in Groups /\ l.matcher = g.matcher /\ l.hooks = new
  BY <1>2, <1>3, GroupOfHooks
<1>7. ASSUME KeysDiffer(g.hooks) PROVE KeysDiffer(new)
  <2> SUFFICES ASSUME NEW j \in DOMAIN new, NEW k \in DOMAIN new,
                      IsCoreManaged(new[j]), Key(new[j]) = Key(new[k])
               PROVE  j = k
    BY DEF KeysDiffer
  <2>1. j \in 1..Len(new) /\ k \in 1..Len(new)
    BY <1>3
  <2>2. new[j] = g.hooks[p[j]] /\ new[k] = g.hooks[p[k]] /\ p[j] \in DOMAIN g.hooks /\ p[k] \in DOMAIN g.hooks
    BY <1>1, <1>5, <2>1 DEF Picks
  <2>3. p[j] = p[k]
    BY <1>7, <2>2 DEF KeysDiffer
  <2> QED BY <1>5, <2>1, <2>3 DEF Picks
<1> QED BY <1>4, <1>6, <1>7 DEF S, l

LEMMA ObsoleteFacts ==
  ASSUME NEW gs \in Seq(Groups), NEW desired
  PROVE  LET result == WithoutObsolete(gs, desired)
         IN /\ result \in Seq(Groups)
            /\ \A k \in DOMAIN result : \E i \in DOMAIN gs : result[k] = Left(gs[i], desired)
            /\ \A i \in DOMAIN gs : Left(gs[i], desired).hooks # <<>> =>
                 \E k \in DOMAIN result : result[k] = Left(gs[i], desired)
<1> DEFINE all == [i \in DOMAIN gs |-> Left(gs[i], desired)]
           S == {g \in ToSet(all) : g.hooks # <<>>}
           result == WithoutObsolete(gs, desired)
<1>1. DOMAIN gs = 1..Len(gs) /\ Len(gs) \in Nat /\ \A i \in DOMAIN gs : gs[i] \in Groups
  OBVIOUS
<1>2. \A i \in DOMAIN gs : Left(gs[i], desired) \in Groups
  BY <1>1, LeftFacts
<1>3. all \in Seq(Groups) /\ DOMAIN all = DOMAIN gs /\ \A i \in DOMAIN gs : all[i] = Left(gs[i], desired)
  <2>1. all \in [1..Len(gs) -> Groups]
    BY <1>1, <1>2
  <2> QED BY <2>1, <1>1
<1>4. result = Those(all, S)
  BY DEF WithoutObsolete, Left
<1> HIDE DEF all, result
<1>5. result \in Seq(Groups) /\ ToSet(result) = ToSet(all) \cap S
  BY <1>3, <1>4, ThoseOfList
<1>6. ASSUME NEW k \in DOMAIN result PROVE \E i \in DOMAIN gs : result[k] = Left(gs[i], desired)
  <2>1. result[k] \in ToSet(all)
    BY <1>5 DEF ToSet
  <2>2. PICK i \in DOMAIN all : all[i] = result[k]
    BY <2>1 DEF ToSet
  <2> QED BY <2>2, <1>3
<1>7. ASSUME NEW i \in DOMAIN gs, Left(gs[i], desired).hooks # <<>>
      PROVE  \E k \in DOMAIN result : result[k] = Left(gs[i], desired)
  <2>1. all[i] \in ToSet(all) /\ all[i] = Left(gs[i], desired)
    BY <1>3 DEF ToSet
  <2>2. all[i] \in ToSet(result)
    BY <2>1, <1>5, <1>7
  <2> QED BY <2>1, <2>2 DEF ToSet
<1> QED BY <1>5, <1>6, <1>7 DEF result

LEMMA EmptyList == ToSet(<<>>) = {}
  BY DEF ToSet

LEMMA SyncedFacts ==
  ASSUME NEW groups \in Seq(Groups), template \in Nat \ {0}
  PROVE  /\ Synced(groups) \in Seq(Groups)
         /\ \A h \in HooksOf(groups) : h.who = "mine" => h \in HooksOf(Synced(groups))
         /\ Distinct(groups) => Distinct(Synced(groups)) /\ InPlace(Synced(groups))
<1> DEFINE D == Desired(template)
           gs == Forward(groups, D)
           result == Synced(groups)
<1>1. /\ gs \in Seq(Groups)
      /\ \A h \in HooksOf(groups) : ~IsCoreManaged(h) => h \in HooksOf(gs)
      /\ Distinct(groups) => Distinct(gs)
  BY ForwardFacts
<1>2. PICK f \in DOMAIN gs :
        /\ gs[f].matcher = "startup" /\ ToSet(D) \subseteq ToSet(gs[f].hooks)
        /\ Distinct(groups) =>
             \A h \in ToSet(gs[f].hooks) : Key(h) \in Keys(D) => h \in ToSet(D)
  BY ForwardFacts
<1>3. result = WithoutObsolete(gs, D)
  BY DEF Synced
<1> HIDE DEF gs, result, D
<1>4. /\ result \in Seq(Groups)
      /\ \A k \in DOMAIN result : \E i \in DOMAIN gs : result[k] = Left(gs[i], D)
      /\ \A i \in DOMAIN gs : Left(gs[i], D).hooks # <<>> =>
           \E k \in DOMAIN result : result[k] = Left(gs[i], D)
  BY <1>1, <1>3, ObsoleteFacts
<1>5. ASSUME NEW i \in DOMAIN gs
      PROVE  LET l == Left(gs[i], D)
             IN /\ l \in Groups /\ l.matcher = gs[i].matcher
                /\ ToSet(l.hooks) = {h \in ToSet(gs[i].hooks) : Stays(h, gs[i].matcher, D)}
                /\ KeysDiffer(gs[i].hooks) => KeysDiffer(l.hooks)
  <2>1. gs[i] \in Groups
    BY <1>1
  <2> QED BY <2>1, LeftFacts
<1>6. ASSUME NEW i \in DOMAIN gs, NEW h \in ToSet(gs[i].hooks), Stays(h, gs[i].matcher, D)
      PROVE  \E k \in DOMAIN result : result[k] = Left(gs[i], D) /\ h \in ToSet(result[k].hooks)
  <2>1. h \in ToSet(Left(gs[i], D).hooks)
    BY <1>5, <1>6
  <2>2. Left(gs[i], D).hooks # <<>>
    BY <2>1, EmptyList
  <2> QED BY <2>1, <2>2, <1>4
<1>7. \A h \in HooksOf(groups) : h.who = "mine" => h \in HooksOf(result)
  <2> SUFFICES ASSUME NEW h \in HooksOf(groups), h.who = "mine" PROVE h \in HooksOf(result)
    OBVIOUS
  <2>1. h \in HooksOf(gs)
    BY <1>1 DEF IsCoreManaged
  <2>2. PICK i \in DOMAIN gs : h \in ToSet(gs[i].hooks)
    BY <2>1, HooksOfGroups
  <2>3. Stays(h, gs[i].matcher, D)
    BY DEF Stays, IsCoreManaged
  <2> QED BY <2>2, <2>3, <1>6, HooksOfGroups
<1>8. ASSUME Distinct(groups) PROVE Distinct(result)
  <2>1. \A i \in DOMAIN gs : KeysDiffer(Left(gs[i], D).hooks)
    BY <1>1, <1>5, <1>8 DEF Distinct
  <2> QED BY <2>1, <1>4 DEF Distinct
<1>9. ASSUME Distinct(groups) PROVE InPlace(result)
  <2>1. PICK k \in DOMAIN result : result[k] = Left(gs[f], D)
    <3>1. PICK d \in ToSet(D) : TRUE
      BY DesiredFacts DEF D
    <3>2. d \in ToSet(gs[f].hooks) /\ Stays(d, gs[f].matcher, D)
      BY <3>1, <1>2, DesiredFacts DEF Stays, D
    <3> QED BY <3>2, <1>6
  <2>2. k \in Startups(result) /\ ToSet(result[k].hooks) = {h \in ToSet(gs[f].hooks) : Stays(h, gs[f].matcher, D)}
    BY <2>1, <1>2, <1>5 DEF Startups
  <2>3. ToSet(D) \subseteq ToSet(result[k].hooks)
    BY <2>2, <1>2, DesiredFacts DEF Stays, D
  <2>4. ToSet(D) \subseteq CoreOf(result)
    <3>1. \A d \in ToSet(D) : IsCoreManaged(d) /\ d \in HooksOf(result)
      BY <2>1, <2>3, HooksOfGroups, DesiredFacts DEF D
    <3> QED BY <3>1 DEF CoreOf
  <2>5. ASSUME NEW h \in CoreOf(result)
        PROVE  \E j \in Startups(result) : h \in ToSet(result[j].hooks) /\ Key(h) \in Keys(D)
    <3>1. PICK j \in DOMAIN result : h \in ToSet(result[j].hooks)
      BY HooksOfGroups DEF CoreOf
    <3>2. PICK i \in DOMAIN gs : result[j] = Left(gs[i], D)
      BY <1>4
    <3>3. Stays(h, gs[i].matcher, D) /\ result[j].matcher = gs[i].matcher
      BY <3>1, <3>2, <1>5
    <3>4. gs[i].matcher = "startup" /\ Key(h) \in Keys(D)
      BY <3>3 DEF CoreOf, Stays
    <3> QED BY <3>1, <3>3, <3>4 DEF Startups
  <2>6. Keys(D) = {Key(h) : h \in CoreOf(result)}
    <3>1. \A h \in CoreOf(result) : Key(h) \in Keys(D)
      BY <2>5
    <3>2. \A x \in Keys(D) : \E h \in CoreOf(result) : Key(h) = x
      BY <2>4, DesiredFacts DEF D
    <3> QED BY <3>1, <3>2
  <2>7. ASSUME NEW i \in Startups(result), Startups(result) = {i} PROVE CoreOf(result) = ToSet(D)
    <3>1. i = k
      BY <2>2, <2>7
    <3> SUFFICES ASSUME NEW h \in CoreOf(result) PROVE h \in ToSet(D)
      BY <2>4
    <3>2. h \in ToSet(result[k].hooks) /\ Key(h) \in Keys(D)
      BY <2>5, <2>7, <3>1
    <3> QED BY <3>2, <2>2, <1>2, <1>9
  <2> QED BY <2>2, <2>6, <2>7 DEF InPlace, D
<1> QED BY <1>4, <1>7, <1>8, <1>9 DEF result

-----------------------------------------------------------------------------
(* What the user, components and a sync do with the settings *)

LEMMA UseTyped ==
  ASSUME used \in Used, NEW field \in {"changes", "syncs", "tears"}, NEW bound, Use(field, bound)
  PROVE  used' \in Used /\ used'.halved = used.halved /\ used'.raced = used.raced
BY DEF Used, Use

LEMMA NoSyncIs ==
  /\ NoSync.at = "none" /\ \A s \in Syncs : s # NoSync
  /\ sync \in Syncs \cup {NoSync} => (sync = NoSync <=> sync.at = "none") /\ (sync # NoSync => sync \in Syncs)
<1>1. NoSync.at = "none" /\ \A s \in Syncs : s.at # "none"
  BY DEF NoSync, Syncs
<1> QED BY <1>1

\* Codex's side while only the settings change.
LEMMA CodexStays ==
  ASSUME CodexInv, UNCHANGED codexVars, used'.raced = used.raced
  PROVE  CodexInv' /\ InCodex' = InCodex
<1>1. UNCHANGED <<codex, codexConfig, projectHooks, trust, version, launch, writing>>
  BY DEF codexVars
<1>2. CodexTypeOK'
  BY <1>1 DEF CodexInv, CodexTypeOK
<1>3. Trusting' /\ TrustIsReal'
  BY <1>1 DEF CodexInv, Trusting, TrustIsReal, At
<1>4. InCodex' = InCodex
  BY <1>1 DEF InCodex
<1> QED BY <1>2, <1>3, <1>4 DEF CodexInv

\* The settings while only Codex's files change: of the user's hooks there at most
\* those that nobody could know of are gone.
LEMMA ClaudeStays ==
  ASSUME ClaudeInv, UNCHANGED <<settings, backups, threshold, sync, template, claims>>,
         owned' \subseteq Hooks, excused' \subseteq Hooks,
         \A h \in owned' : h.who = "mine",
         \A h \in owned' \ excused' : h \in InCodex' \/ (h \in owned \ excused /\ h \notin InCodex),
         used'.halved = used.halved
  PROVE  ClaudeInv'
<1>1. ClaudeTypeOK'
  BY DEF ClaudeInv, ClaudeTypeOK
<1>2. ASSUME NEW doc, NEW late, Has(doc, owned \ (excused \cup late))
      PROVE  doc.ok => (owned' \ (excused' \cup late)) \subseteq HooksOf(doc.groups) \cup InCodex'
  BY <1>2 DEF Has
<1>3. Remembered'
  <2>1. Has(settings, owned \ (excused \cup {}))
    BY DEF ClaudeInv, Remembered
  <2>2. settings.ok => (owned' \ excused') \subseteq HooksOf(settings.groups) \cup InCodex'
    BY <1>2, <2>1
  <2>3. Has(settings, owned \ excused)'
    BY <2>2 DEF Has
  <2>4. (sync.at \in {"backup", "write"} =>
           sync.read.ok /\ (sync.ok => Has(sync.read, owned \ (excused \cup sync.late))))'
    BY <1>2 DEF ClaudeInv, Remembered, Has
  <2>5. (sync.at = "write" => Has(Head(backups), owned \ (excused \cup sync.late)))'
    BY <1>2 DEF ClaudeInv, Remembered, Has
  <2> QED BY <2>3, <2>4, <2>5 DEF Remembered
<1>4. NoKeyTwice' /\ Installed' /\ ModelsFit'
  BY DEF ClaudeInv, NoKeyTwice, Distinct, KeysDiffer, Installed, InPlace, CoreOf, Startups, ModelsFit, Fits, SyncedModel
<1> QED BY <1>1, <1>3, <1>4 DEF ClaudeInv

LEMMA FileOf ==
  ASSUME NEW doc \in SettingsFiles
  PROVE  /\ doc.ok \in BOOLEAN /\ doc.groups \in Seq(Groups)
         /\ doc.model \in {"none", "user", "plain", "1m"}
         /\ \A groups \in Seq(Groups) :
              LET new == [doc EXCEPT !.groups = groups]
              IN new \in SettingsFiles /\ new.ok = doc.ok /\ new.model = doc.model /\ new.groups = groups
<1>1. doc.ok \in BOOLEAN /\ doc.groups \in Seq(Groups) /\ doc.model \in {"none", "user", "plain", "1m"}
  BY DEF SettingsFiles
<1>2. ASSUME NEW groups \in Seq(Groups)
      PROVE  LET new == [doc EXCEPT !.groups = groups]
             IN new \in SettingsFiles /\ new.ok = doc.ok /\ new.model = doc.model /\ new.groups = groups
  BY DEF SettingsFiles
<1> QED BY <1>1, <1>2

\* A list of groups where one has one more hook, or one more group, of the user's
\* or of a component.
Grown(groups, new, h) ==
  /\ new \in Seq(Groups)
  /\ HooksOf(new) = HooksOf(groups) \cup {h}
  /\ Distinct(groups) => Distinct(new)
  /\ InPlace(groups) => InPlace(new)

LEMMA GrownInPlace ==
  ASSUME NEW groups \in Seq(Groups), NEW new \in Seq(Groups), NEW h, ~IsCoreManaged(h),
         HooksOf(new) = HooksOf(groups) \cup {h}, NEW s \in {0, 1},
         \A k \in DOMAIN groups : k + s \in DOMAIN new /\ new[k + s].matcher = groups[k].matcher,
         InPlace(groups)
  PROVE  InPlace(new)
<1>1. CoreOf(new) = CoreOf(groups)
  BY DEF CoreOf
<1>2. PICK k \in Startups(groups) : TRUE
  BY DEF InPlace
<1>3. \A j \in Startups(groups) : j \in Nat /\ j + s \in Startups(new)
  BY DEF Startups
<1>4. ASSUME NEW i \in Startups(new), Startups(new) = {i} PROVE CoreOf(new) = ToSet(Desired(template))
  <2>1. \A j \in Startups(groups) : j + s = i
    BY <1>3, <1>4
  <2>2. \A j \in Startups(groups) : j = k
    BY <2>1, <1>2, <1>3
  <2>3. Startups(groups) = {k}
    BY <2>2, <1>2
  <2> QED BY <2>3, <1>1, <1>2 DEF InPlace
<1> QED BY <1>1, <1>2, <1>3, <1>4 DEF InPlace

\* The list of hooks with one more at either end.
LEMMA GrownHooks ==
  ASSUME NEW hooks \in Seq(Hooks), NEW h \in Hooks, ~IsCoreManaged(h), NEW front \in BOOLEAN
  PROVE  LET new == IF front THEN <<h>> \o hooks ELSE Append(hooks, h)
         IN /\ new \in Seq(Hooks) /\ ToSet(new) = ToSet(hooks) \cup {h}
            /\ KeysDiffer(hooks) => KeysDiffer(new)
<1> DEFINE new == IF front THEN <<h>> \o hooks ELSE Append(hooks, h)
           s == IF front THEN 1 ELSE 0
           at == IF front THEN 1 ELSE Len(hooks) + 1
<1>1. /\ new \in Seq(Hooks) /\ DOMAIN new = 1..(Len(hooks) + 1) /\ new[at] = h /\ at \in DOMAIN new
      /\ DOMAIN hooks = 1..Len(hooks) /\ Len(hooks) \in Nat
  OBVIOUS
<1>2. \A j \in DOMAIN hooks : new[j + s] = hooks[j] /\ j + s \in DOMAIN new
  OBVIOUS
<1>3. \A k \in DOMAIN new : k # at => k - s \in DOMAIN hooks /\ (k - s) + s = k
  OBVIOUS
<1>4. s \in {0, 1}
  OBVIOUS
<1> HIDE DEF new, s, at
<1>5. \A k \in DOMAIN new : k # at => k - s \in DOMAIN hooks /\ new[k] = hooks[k - s]
  BY <1>2, <1>3
<1>6. ToSet(new) = ToSet(hooks) \cup {h}
  <2>1. \A x \in ToSet(new) : x \in ToSet(hooks) \cup {h}
    BY <1>1, <1>5 DEF ToSet
  <2>2. \A x \in ToSet(hooks) \cup {h} : x \in ToSet(new)
    BY <1>1, <1>2 DEF ToSet
  <2> QED BY <2>1, <2>2
<1>7. ASSUME KeysDiffer(hooks) PROVE KeysDiffer(new)
  <2> SUFFICES ASSUME NEW j \in DOMAIN new, NEW k \in DOMAIN new,
                      IsCoreManaged(new[j]), Key(new[j]) = Key(new[k])
               PROVE  j = k
    BY DEF KeysDiffer
  <2>1. IsCoreManaged(new[k])
    BY KeyTells
  <2>2. j # at /\ k # at
    BY <2>1, <1>1
  <2>3. j - s \in DOMAIN hooks /\ new[j] = hooks[j - s] /\ k - s \in DOMAIN hooks /\ new[k] = hooks[k - s]
    BY <2>2, <1>5
  <2>4. j - s = k - s
    BY <2>3, <1>7 DEF KeysDiffer
  <2> QED BY <2>4, <1>1, <1>4
<1> QED BY <1>1, <1>6, <1>7 DEF new

LEMMA GroupGrows ==
  ASSUME NEW groups \in Seq(Groups), NEW h \in Hooks, ~IsCoreManaged(h), NEW front \in BOOLEAN,
         NEW i \in DOMAIN groups
  PROVE  Grown(groups, [groups EXCEPT ![i].hooks = IF front THEN <<h>> \o @ ELSE Append(@, h)], h)
<1> DEFINE hooks == IF front THEN <<h>> \o groups[i].hooks ELSE Append(groups[i].hooks, h)
           g == [groups[i] EXCEPT !.hooks = hooks]
           new == [groups EXCEPT ![i] = g]
<1>1. groups[i] \in Groups /\ groups[i].hooks \in Seq(Hooks) /\ DOMAIN groups = 1..Len(groups) /\ Len(groups) \in Nat
  <2>1. \A x \in Groups : x.hooks \in Seq(Hooks)
    BY DEF Groups
  <2> QED BY <2>1
<1>2. [groups EXCEPT ![i].hooks = IF front THEN <<h>> \o @ ELSE Append(@, h)] = new
  OBVIOUS
<1>3. hooks \in Seq(Hooks) /\ ToSet(hooks) = ToSet(groups[i].hooks) \cup {h}
      /\ (KeysDiffer(groups[i].hooks) => KeysDiffer(hooks))
  BY <1>1, GrownHooks
<1> HIDE DEF hooks
<1>4. g \in Groups /\ g.matcher = groups[i].matcher /\ g.hooks = hooks
  BY <1>1, <1>3, GroupOfHooks
<1> HIDE DEF g
<1>5. new \in Seq(Groups) /\ DOMAIN new = DOMAIN groups /\ new[i] = g
      /\ \A k \in DOMAIN groups : k # i => new[k] = groups[k]
  BY <1>1, <1>4
<1> HIDE DEF new
<1>6. HooksOf(new) = HooksOf(groups) \cup {h}
  <2>1. ASSUME NEW x \in HooksOf(new) PROVE x \in HooksOf(groups) \cup {h}
    <3>1. PICK k \in DOMAIN new : x \in ToSet(new[k].hooks)
      BY HooksOfGroups
    <3>2. x = h \/ x \in ToSet(groups[k].hooks)
      BY <3>1, <1>3, <1>4, <1>5
    <3> QED BY <3>1, <3>2, <1>5, HooksOfGroups
  <2>2. ASSUME NEW x \in HooksOf(groups) PROVE x \in HooksOf(new)
    <3>1. PICK k \in DOMAIN groups : x \in ToSet(groups[k].hooks)
      BY HooksOfGroups
    <3>2. x \in ToSet(new[k].hooks)
      BY <3>1, <1>3, <1>4, <1>5
    <3> QED BY <3>1, <3>2, <1>5, HooksOfGroups
  <2>3. h \in HooksOf(new)
    BY <1>3, <1>4, <1>5, HooksOfGroups
  <2> QED BY <2>1, <2>2, <2>3
<1>7. Distinct(groups) => Distinct(new)
  BY <1>3, <1>4, <1>5 DEF Distinct
<1>8. InPlace(groups) => InPlace(new)
  <2>1. \A k \in DOMAIN groups : k + 0 \in DOMAIN new /\ new[k + 0].matcher = groups[k].matcher
    BY <1>1, <1>4, <1>5
  <2> QED BY <2>1, <1>5, <1>6, GrownInPlace
<1> QED BY <1>2, <1>5, <1>6, <1>7, <1>8 DEF Grown

LEMMA GroupAdded ==
  ASSUME NEW groups \in Seq(Groups), NEW h \in Hooks, ~IsCoreManaged(h), NEW front \in BOOLEAN,
         NEW matcher \in {"startup", "other"}
  PROVE  LET g == [matcher |-> matcher, hooks |-> <<h>>]
         IN Grown(groups, IF front THEN <<g>> \o groups ELSE Append(groups, g), h)
<1> DEFINE g == [matcher |-> matcher, hooks |-> <<h>>]
           new == IF front THEN <<g>> \o groups ELSE Append(groups, g)
           s == IF front THEN 1 ELSE 0
           at == IF front THEN 1 ELSE Len(groups) + 1
<1>1. g \in Groups /\ g.hooks = <<h>>
  BY DEF Groups
<1> HIDE DEF g
<1>2. ToSet(g.hooks) = {h} /\ KeysDiffer(g.hooks)
  <2>1. DOMAIN <<h>> = {1} /\ <<h>>[1] = h
    OBVIOUS
  <2> QED BY <2>1, <1>1 DEF ToSet, KeysDiffer
<1>3. /\ new \in Seq(Groups) /\ DOMAIN new = 1..(Len(groups) + 1) /\ new[at] = g /\ at \in DOMAIN new
      /\ DOMAIN groups = 1..Len(groups) /\ Len(groups) \in Nat
  BY <1>1
<1>4. \A j \in DOMAIN groups : new[j + s] = groups[j] /\ j + s \in DOMAIN new
  BY <1>1
<1>5. \A k \in DOMAIN new : k # at => k - s \in DOMAIN groups /\ (k - s) + s = k
  BY <1>3
<1>6. s \in {0, 1}
  OBVIOUS
<1> HIDE DEF new, s, at
<1>7. \A k \in DOMAIN new : k # at => k - s \in DOMAIN groups /\ new[k] = groups[k - s]
  BY <1>4, <1>5
<1>8. HooksOf(new) = HooksOf(groups) \cup {h}
  <2>1. ASSUME NEW x \in HooksOf(new) PROVE x \in HooksOf(groups) \cup {h}
    <3>1. PICK k \in DOMAIN new : x \in ToSet(new[k].hooks)
      BY HooksOfGroups
    <3>2. CASE k = at
      BY <3>1, <3>2, <1>2, <1>3
    <3>3. CASE k # at
      BY <3>1, <3>3, <1>7, HooksOfGroups
    <3> QED BY <3>2, <3>3
  <2>2. ASSUME NEW x \in HooksOf(groups) PROVE x \in HooksOf(new)
    <3>1. PICK k \in DOMAIN groups : x \in ToSet(groups[k].hooks)
      BY HooksOfGroups
    <3> QED BY <3>1, <1>4, HooksOfGroups
  <2>3. h \in HooksOf(new)
    BY <1>2, <1>3, HooksOfGroups
  <2> QED BY <2>1, <2>2, <2>3
<1>9. Distinct(groups) => Distinct(new)
  BY <1>2, <1>3, <1>7 DEF Distinct
<1>10. InPlace(groups) => InPlace(new)
  BY <1>3, <1>4, <1>6, <1>8, GrownInPlace
<1> QED BY <1>3, <1>8, <1>9, <1>10 DEF Grown, new, g

\* A change of the settings that takes nothing of the user's away and brings no model.
LEMMA SettingsChange ==
  ASSUME ClaudeInv, settings.ok, NEW groups \in Seq(Groups), NEW new \in SUBSET Hooks,
         \A h \in new : h.who = "mine",
         settings' = [settings EXCEPT !.groups = groups], UNCHANGED <<backups, threshold, template>>,
         owned' = owned \cup new, UNCHANGED excused, InCodex' = InCodex,
         sync' = (IF sync = NoSync THEN sync ELSE [sync EXCEPT !.late = @ \cup new]),
         claims' \in BOOLEAN, used'.halved = used.halved,
         \A h \in HooksOf(settings.groups) : h.who = "mine" => h \in HooksOf(groups),
         new \subseteq HooksOf(groups),
         Distinct(settings.groups) => Distinct(groups),
         sync.at = "prune" => (InPlace(settings.groups) => InPlace(groups))
  PROVE  ClaudeInv'
<1>1. ClaudeTypeOK /\ settings \in SettingsFiles /\ sync \in Syncs \cup {NoSync}
  BY DEF ClaudeInv, ClaudeTypeOK
<1>2. settings' \in SettingsFiles /\ settings'.groups = groups /\ settings'.ok = settings.ok
      /\ settings'.model = settings.model
  BY <1>1, FileOf
<1>3. /\ sync' \in Syncs \cup {NoSync} /\ sync'.at = sync.at /\ sync'.read = sync.read /\ sync'.ok = sync.ok
      /\ sync'.backfill = sync.backfill /\ (sync' # NoSync <=> sync # NoSync)
      /\ (sync # NoSync => sync'.late = sync.late \cup new)
  <2>1. CASE sync = NoSync
    BY <2>1
  <2>2. CASE sync # NoSync
    <3>1. sync \in Syncs /\ sync' = [sync EXCEPT !.late = @ \cup new]
      BY <1>1, <2>2
    <3>2. sync' \in Syncs /\ sync'.at = sync.at /\ sync'.read = sync.read /\ sync'.ok = sync.ok
          /\ sync'.backfill = sync.backfill /\ sync'.late = sync.late \cup new
      BY <3>1 DEF Syncs
    <3> QED BY <2>2, <3>2, NoSyncIs
  <2> QED BY <2>1, <2>2
<1>4. ClaudeTypeOK'
  BY <1>1, <1>2, <1>3 DEF ClaudeTypeOK
<1>5. Remembered'
  <2>1. \A h \in owned' : h.who = "mine"
    BY DEF ClaudeInv, Remembered
  <2>2. Has(settings, owned \ excused)'
    BY <1>2, <2>1 DEF ClaudeInv, Remembered, Has
  <2>3. ASSUME sync.at \in {"backup", "write"} PROVE sync # NoSync
    BY <2>3, NoSyncIs
  <2>4. (sync.at \in {"backup", "write"} =>
           sync.read.ok /\ (sync.ok => Has(sync.read, owned \ (excused \cup sync.late))))'
    BY <1>3, <2>3 DEF ClaudeInv, Remembered, Has
  <2>5. (sync.at = "write" => Has(Head(backups), owned \ (excused \cup sync.late)))'
    BY <1>3, <2>3 DEF ClaudeInv, Remembered, Has
  <2> QED BY <2>1, <2>2, <2>4, <2>5 DEF Remembered
<1>6. NoKeyTwice'
  BY SMTT(30), <1>2, <1>3 DEF ClaudeInv, NoKeyTwice, Distinct, KeysDiffer
<1>7. Installed'
  BY <1>2, <1>3 DEF ClaudeInv, Installed, InPlace, CoreOf, Startups, HooksOf
<1>8. ModelsFit'
  BY <1>2, <1>3 DEF ClaudeInv, ModelsFit, Fits, SyncedModel
<1> QED BY <1>4, <1>5, <1>6, <1>7, <1>8 DEF ClaudeInv

LEMMA AddHookStep == ASSUME HookInv, AddHook PROVE HookInv'
<1> DEFINE h == Hook("mine", used.changes, 0)
           g == settings.groups
<1>1. h \in Hooks /\ h.who = "mine" /\ ~IsCoreManaged(h)
  BY DEF HookInv, Used, Hooks, Hook, IsCoreManaged
<1>2. used' \in Used /\ used'.halved = used.halved /\ used'.raced = used.raced
  BY UseTyped DEF HookInv, AddHook
<1>3. CodexInv' /\ InCodex' = InCodex
  BY <1>2, CodexStays DEF HookInv, AddHook
<1>4. g \in Seq(Groups)
  BY FileOf DEF HookInv, ClaudeInv, ClaudeTypeOK
<1>5. PICK matcher \in {"startup", "other"}, front \in BOOLEAN, i \in {0} \cup DOMAIN g :
        settings' = [settings EXCEPT !.groups =
          IF i # 0 THEN [g EXCEPT ![i].hooks = IF front THEN <<h>> \o @ ELSE Append(@, h)]
          ELSE IF front THEN <<[matcher |-> matcher, hooks |-> <<h>>]>> \o g
          ELSE Append(g, [matcher |-> matcher, hooks |-> <<h>>])]
  BY DEF AddHook
<1> DEFINE groups == IF i # 0 THEN [g EXCEPT ![i].hooks = IF front THEN <<h>> \o @ ELSE Append(@, h)]
                     ELSE IF front THEN <<[matcher |-> matcher, hooks |-> <<h>>]>> \o g
                     ELSE Append(g, [matcher |-> matcher, hooks |-> <<h>>])
<1>6. settings' = [settings EXCEPT !.groups = groups]
  BY <1>5
<1>7. settings.ok /\ owned' = owned \cup {h} /\ UNCHANGED <<backups, threshold, template, claims, excused>>
      /\ sync' = IF sync = NoSync THEN sync ELSE [sync EXCEPT !.late = @ \cup {h}]
  BY DEF AddHook
<1> HIDE DEF h, g
<1>8. Grown(g, groups, h)
  <2>1. CASE i # 0
    <3>1. i \in DOMAIN g
      BY <1>5, <2>1
    <3>2. Grown(g, [g EXCEPT ![i].hooks = IF front THEN <<h>> \o @ ELSE Append(@, h)], h)
      BY <3>1, <1>1, <1>4, <1>5, GroupGrows
    <3> QED BY <2>1, <3>2
  <2>2. CASE i = 0
    <3>1. Grown(g, IF front THEN <<[matcher |-> matcher, hooks |-> <<h>>]>> \o g
                   ELSE Append(g, [matcher |-> matcher, hooks |-> <<h>>]), h)
      BY <1>1, <1>4, <1>5, GroupAdded
    <3> QED BY <2>2, <3>1
  <2> QED BY <2>1, <2>2
<1> HIDE DEF groups
<1>9. claims' \in BOOLEAN
  BY <1>7 DEF HookInv, ClaudeInv, ClaudeTypeOK
<1>10. /\ groups \in Seq(Groups) /\ {h} \in SUBSET Hooks /\ \A x \in {h} : x.who = "mine"
       /\ \A x \in HooksOf(settings.groups) : x.who = "mine" => x \in HooksOf(groups)
       /\ {h} \subseteq HooksOf(groups) /\ (Distinct(settings.groups) => Distinct(groups))
       /\ (InPlace(settings.groups) => InPlace(groups))
  BY <1>1, <1>8 DEF Grown, g
<1>11. ClaudeInv'
  BY <1>2, <1>3, <1>6, <1>7, <1>9, <1>10, SettingsChange DEF HookInv
<1> QED BY <1>2, <1>3, <1>11 DEF HookInv

LEMMA ComponentHooksStep == ASSUME HookInv, ComponentHooks PROVE HookInv'
<1>1. used' \in Used /\ used'.halved = used.halved /\ used'.raced = used.raced
  BY UseTyped DEF HookInv, ComponentHooks
<1>2. CodexInv' /\ InCodex' = InCodex
  BY <1>1, CodexStays DEF HookInv, ComponentHooks
<1>3. settings \in SettingsFiles /\ settings.groups \in Seq(Groups) /\ claims \in BOOLEAN
  BY FileOf DEF HookInv, ClaudeInv, ClaudeTypeOK
<1>4. PICK groups : /\ settings' = [settings EXCEPT !.groups = groups] /\ groups \in Seq(Groups)
                    /\ \A x \in HooksOf(settings.groups) : x \in HooksOf(groups)
                    /\ Distinct(settings.groups) => Distinct(groups)
                    /\ claims' \in BOOLEAN
  <2>1. CASE claims' = TRUE /\ UNCHANGED settings
    <3>1. settings' = [settings EXCEPT !.groups = settings.groups]
      BY <1>3, <2>1 DEF SettingsFiles
    <3> QED BY <1>3, <2>1, <3>1
  <2>2. CASE /\ UNCHANGED claims
             /\ settings' = [settings EXCEPT !.groups =
                          Append(@, [matcher |-> "startup", hooks |-> <<Hook("legacy", 0, 0)>>])]
    <3> DEFINE h == Hook("legacy", 0, 0)
               g == [matcher |-> "startup", hooks |-> <<h>>]
    <3>1. h \in Hooks /\ ~IsCoreManaged(h)
      BY DEF Hooks, Hook, IsCoreManaged
    <3>2. settings' = [settings EXCEPT !.groups = Append(settings.groups, g)]
      BY <2>2
    <3> HIDE DEF h
    <3>3. Grown(settings.groups, Append(settings.groups, g), h)
      <4>1. Grown(settings.groups, IF FALSE THEN <<g>> \o settings.groups ELSE Append(settings.groups, g), h)
        BY <1>3, <3>1, GroupAdded
      <4> QED BY <4>1
    <3> HIDE DEF g
    <3> QED BY <1>3, <2>2, <3>2, <3>3 DEF Grown
  <2> QED BY <2>1, <2>2 DEF ComponentHooks
<1>5. settings.ok /\ sync = NoSync /\ UNCHANGED <<backups, threshold, sync, template, owned, excused>>
  BY DEF ComponentHooks
<1>6. sync.at # "prune" /\ owned' = owned \cup {} /\ {} \in SUBSET Hooks
      /\ sync' = IF sync = NoSync THEN sync ELSE [sync EXCEPT !.late = @ \cup {}]
  BY <1>5, NoSyncIs
<1>7. ClaudeInv'
  BY <1>1, <1>2, <1>4, <1>5, <1>6, SettingsChange DEF HookInv
<1> QED BY <1>1, <1>2, <1>7 DEF HookInv

LEMMA ChangeHookStep == ASSUME HookInv, ChangeHook PROVE HookInv'
<1>1. used' \in Used /\ used'.halved = used.halved /\ used'.raced = used.raced
  BY UseTyped DEF HookInv, ChangeHook
<1>2. CodexInv' /\ InCodex' = InCodex
  BY <1>1, CodexStays DEF HookInv, ChangeHook
<1>3. settings \in SettingsFiles /\ settings.groups \in Seq(Groups) /\ claims \in BOOLEAN
  BY FileOf DEF HookInv, ClaudeInv, ClaudeTypeOK
<1>4. settings.ok /\ sync = NoSync /\ UNCHANGED <<backups, threshold, sync, template, claims, owned, excused>>
  BY DEF ChangeHook
<1>5. sync.at # "prune" /\ owned' = owned \cup {} /\ {} \in SUBSET Hooks
      /\ sync' = IF sync = NoSync THEN sync ELSE [sync EXCEPT !.late = @ \cup {}]
  BY <1>4, NoSyncIs
<1>6. CASE settings' = [settings EXCEPT !.model = "user"]
  <2>1. settings' \in SettingsFiles /\ settings'.groups = settings.groups /\ settings'.model = "user"
        /\ settings'.ok = settings.ok
    BY <1>3, <1>6 DEF SettingsFiles
  <2>2. ClaudeTypeOK'
    BY <1>4, <2>1 DEF HookInv, ClaudeInv, ClaudeTypeOK
  <2>3. Remembered'
    BY <1>2, <1>4, <2>1, NoSyncIs DEF HookInv, ClaudeInv, Remembered, Has
  <2>4. NoKeyTwice' /\ Installed'
    BY <1>4, <2>1, NoSyncIs DEF HookInv, ClaudeInv, NoKeyTwice, Installed, Distinct, KeysDiffer
  <2>5. ModelsFit'
    BY <1>4, <2>1, NoSyncIs DEF ModelsFit, Fits
  <2> QED BY <1>1, <1>2, <2>2, <2>3, <2>4, <2>5 DEF HookInv, ClaudeInv
<1>7. CASE \E i \in DOMAIN settings.groups: \E j \in DOMAIN settings.groups[i].hooks:
             /\ IsCoreManaged(settings.groups[i].hooks[j])
             /\ settings' = [settings EXCEPT !.groups[i].hooks[j].v = 0]
  <2> DEFINE groups == settings.groups
  <2>a. PICK i \in DOMAIN groups : \E j \in DOMAIN groups[i].hooks :
          /\ IsCoreManaged(groups[i].hooks[j])
          /\ settings' = [settings EXCEPT !.groups[i].hooks[j].v = 0]
    BY <1>7
  <2>1. PICK j \in DOMAIN groups[i].hooks :
          /\ IsCoreManaged(groups[i].hooks[j])
          /\ settings' = [settings EXCEPT !.groups[i].hooks[j].v = 0]
    BY <2>a
  <2> DEFINE h == [groups[i].hooks[j] EXCEPT !.v = 0]
             hooks == [groups[i].hooks EXCEPT ![j] = h]
             g == [groups[i] EXCEPT !.hooks = hooks]
             new == [groups EXCEPT ![i] = g]
  <2>2. settings' = [settings EXCEPT !.groups = new]
    BY <2>1
  <2>3. groups[i] \in Groups /\ groups[i].hooks \in Seq(Hooks) /\ groups[i].hooks[j] \in Hooks
    <3>1. \A x \in Groups : x.hooks \in Seq(Hooks)
      BY DEF Groups
    <3>2. groups[i] \in Groups
      BY <1>3, <2>1
    <3>3. groups[i].hooks \in Seq(Hooks)
      BY <3>1, <3>2
    <3> QED BY <2>1, <3>2, <3>3
  <2>4. h \in Hooks /\ Key(h) = Key(groups[i].hooks[j]) /\ h.who = groups[i].hooks[j].who
    BY <2>3 DEF Hooks, Key
  <2> HIDE DEF h
  <2>5. hooks \in Seq(Hooks) /\ DOMAIN hooks = DOMAIN groups[i].hooks
        /\ \A k \in DOMAIN hooks : hooks[k] = IF k = j THEN h ELSE groups[i].hooks[k]
    BY <2>1, <2>3, <2>4
  <2> HIDE DEF hooks
  <2>6. g \in Groups /\ g.matcher = groups[i].matcher /\ g.hooks = hooks
    BY <2>3, <2>5, GroupOfHooks
  <2> HIDE DEF g
  <2>7. new \in Seq(Groups) /\ DOMAIN new = DOMAIN groups /\ new[i] = g
        /\ \A k \in DOMAIN groups : k # i => new[k] = groups[k]
    BY <1>3, <2>1, <2>6
  <2> HIDE DEF new
  <2>8. \A x \in ToSet(groups[i].hooks) : x.who = "mine" => x \in ToSet(hooks)
    BY <2>1, <2>5 DEF ToSet, IsCoreManaged
  <2>9. \A x \in HooksOf(groups) : x.who = "mine" => x \in HooksOf(new)
    <3> SUFFICES ASSUME NEW x \in HooksOf(groups), x.who = "mine" PROVE x \in HooksOf(new)
      OBVIOUS
    <3>1. PICK k \in DOMAIN groups : x \in ToSet(groups[k].hooks)
      BY HooksOfGroups
    <3>2. x \in ToSet(new[k].hooks)
      BY <3>1, <2>6, <2>7, <2>8
    <3> QED BY <3>1, <3>2, <2>7, HooksOfGroups
  <2>10. Distinct(groups) => Distinct(new)
    <3>1. KeysDiffer(groups[i].hooks) => KeysDiffer(hooks)
      <4>1. \A k \in DOMAIN hooks : Key(hooks[k]) = Key(groups[i].hooks[k])
        BY <2>4, <2>5
      <4>2. \A k \in DOMAIN hooks : IsCoreManaged(hooks[k]) => IsCoreManaged(groups[i].hooks[k])
        BY <4>1, KeyTells
      <4> QED BY <4>1, <4>2, <2>5 DEF KeysDiffer
    <3> QED BY <3>1, <2>6, <2>7, <2>1 DEF Distinct
  <2> HIDE DEF groups
  <2>11. ClaudeInv'
    BY <1>1, <1>2, <1>3, <1>4, <1>5, <2>2, <2>7, <2>9, <2>10, SettingsChange DEF HookInv, groups
  <2> QED BY <1>1, <1>2, <2>11 DEF HookInv
<1> QED BY <1>6, <1>7 DEF ChangeHook

LEMMA NewTemplateStep == ASSUME HookInv, NewTemplate PROVE HookInv'
<1>1. used' = used /\ sync = NoSync /\ template' = template + 1
      /\ UNCHANGED <<settings, backups, threshold, sync, claims, owned, excused>>
  BY DEF NewTemplate
<1>2. CodexInv' /\ InCodex' = InCodex
  BY <1>1, CodexStays DEF HookInv, NewTemplate
<1>3. ClaudeTypeOK'
  BY <1>1 DEF HookInv, ClaudeInv, ClaudeTypeOK
<1>4. Remembered' /\ NoKeyTwice' /\ Installed' /\ ModelsFit'
  BY <1>1, <1>2, NoSyncIs DEF HookInv, ClaudeInv, Remembered, Has, NoKeyTwice, Distinct, KeysDiffer, Installed,
     ModelsFit, Fits
<1> QED BY <1>1, <1>2, <1>3, <1>4 DEF HookInv, ClaudeInv

LEMMA SyncAt ==
  ASSUME NEW s \in Syncs, NEW at \in {"backup", "write", "prune", "threshold"}
  PROVE  LET new == [s EXCEPT !.at = at]
         IN new \in Syncs /\ new.at = at /\ new.read = s.read /\ new.ok = s.ok /\ new.late = s.late
            /\ new.backfill = s.backfill
BY DEF Syncs

LEMMA SyncReadsStep == ASSUME HookInv, SyncReads PROVE HookInv'
<1>1. used' \in Used /\ used'.halved = used.halved /\ used'.raced = used.raced
  BY UseTyped DEF HookInv, SyncReads
<1>2. CodexInv' /\ InCodex' = InCodex
  BY <1>1, CodexStays DEF HookInv, SyncReads
<1> DEFINE blank == [ok |-> TRUE, groups |-> <<>>, model |-> "none"]
<1>3. settings \in SettingsFiles /\ settings.ok \in BOOLEAN /\ blank \in SettingsFiles
  BY FileOf DEF HookInv, ClaudeInv, ClaudeTypeOK, SettingsFiles
<1>4. /\ UNCHANGED <<settings, backups, threshold, template, claims, owned, excused>>
      /\ sync'.at = "backup" /\ sync'.ok = settings.ok /\ sync'.late = {} /\ sync'.backfill = FALSE
      /\ sync'.read = (IF settings.ok THEN settings ELSE blank) /\ sync' \in Syncs
  <2>1. sync' = [at |-> "backup", read |-> IF settings.ok THEN settings ELSE blank, ok |-> settings.ok,
                 late |-> {}, backfill |-> FALSE]
    BY DEF SyncReads, NoSync
  <2> HIDE DEF blank
  <2>2. sync' \in Syncs
    BY <1>3, <2>1 DEF Syncs
  <2>3. UNCHANGED <<settings, backups, threshold, template, claims, owned, excused>>
    BY DEF SyncReads
  <2> QED BY <2>1, <2>2, <2>3
<1>5. blank.ok /\ blank.groups = <<>> /\ blank.model = "none" /\ Distinct(blank.groups)
  BY DEF Distinct
<1> HIDE DEF blank
<1>6. ClaudeTypeOK'
  BY <1>4 DEF HookInv, ClaudeInv, ClaudeTypeOK
<1>7. Remembered'
  <2>1. Has(settings, owned \ excused)'
    BY <1>2, <1>4 DEF HookInv, ClaudeInv, Remembered, Has
  <2>2. (sync.read.ok /\ (sync.ok => Has(sync.read, owned \ (excused \cup sync.late))))'
    BY <1>4, <1>5, <2>1 DEF Has
  <2> QED BY <1>4, <2>1, <2>2 DEF HookInv, ClaudeInv, Remembered
<1>8. NoKeyTwice' /\ Installed'
  <2>1. Distinct(settings.groups)' /\ Distinct(sync.read.groups)'
    BY <1>4, <1>5 DEF HookInv, ClaudeInv, NoKeyTwice, Distinct, KeysDiffer
  <2> QED BY <1>4, <2>1 DEF NoKeyTwice, Installed
<1>9. ModelsFit'
  <2>1. sync.at = "none"
    BY NoSyncIs DEF SyncReads
  <2>2. Fits(settings)
    BY <2>1 DEF HookInv, ClaudeInv, ModelsFit
  <2>3. Fits(settings)' /\ Fits(sync.read)'
    BY <1>1, <1>4, <1>5, <2>2 DEF Fits
  <2> QED BY <1>4, <2>3 DEF ModelsFit
<1> QED BY <1>1, <1>2, <1>6, <1>7, <1>8, <1>9 DEF HookInv, ClaudeInv

LEMMA FirstOf ==
  ASSUME NEW T, NEW x \in T, NEW list \in Seq(T)
  PROVE  <<x>> \o list \in Seq(T) /\ Head(<<x>> \o list) = x /\ <<x>> \o list # <<>>
<1>1. <<x>> \o list \in Seq(T) /\ Len(<<x>> \o list) = Len(list) + 1 /\ (<<x>> \o list)[1] = x
  OBVIOUS
<1>2. Len(<<x>> \o list) # 0
  BY <1>1
<1> QED BY <1>1, <1>2

LEMMA SyncEnds ==
  ASSUME HookInv, sync' = NoSync, UNCHANGED <<backups, template, claims, owned>>,
         settings' \in SettingsFiles, threshold' \in Nat, excused' \subseteq Hooks,
         excused \subseteq excused', Distinct(settings'.groups), InCodex' = InCodex, ModelsFit',
         settings'.ok => (owned \ excused') \subseteq HooksOf(settings'.groups) \cup InCodex
  PROVE  ClaudeInv'
<1>1. ClaudeTypeOK'
  BY NoSyncIs DEF HookInv, ClaudeInv, ClaudeTypeOK
<1>2. Remembered'
  BY NoSyncIs DEF HookInv, ClaudeInv, Remembered, Has
<1>3. NoKeyTwice' /\ Installed'
  BY NoSyncIs DEF NoKeyTwice, Distinct, KeysDiffer, Installed
<1> QED BY <1>1, <1>2, <1>3 DEF ClaudeInv

LEMMA SyncBacksUpStep == ASSUME HookInv, SyncBacksUp PROVE HookInv'
<1>1. used' = used /\ UNCHANGED <<settings, threshold, template, claims, owned, excused>> /\ sync.at = "backup"
  BY DEF SyncBacksUp
<1>2. CodexInv' /\ InCodex' = InCodex
  BY <1>1, CodexStays DEF HookInv, SyncBacksUp
<1>3. sync \in Syncs /\ sync # NoSync /\ settings \in SettingsFiles /\ backups \in Seq(SettingsFiles)
  BY <1>1, NoSyncIs DEF HookInv, ClaudeInv, ClaudeTypeOK
<1>4. CASE sync' = NoSync /\ UNCHANGED backups
  <2>1. ModelsFit'
    BY <1>1, <1>4, NoSyncIs DEF HookInv, ClaudeInv, ModelsFit, Fits
  <2>2. Distinct(settings'.groups) /\ (settings'.ok => (owned \ excused') \subseteq HooksOf(settings'.groups) \cup InCodex)
    BY <1>1 DEF HookInv, ClaudeInv, NoKeyTwice, Remembered, Has
  <2>3. threshold' \in Nat /\ excused' \subseteq Hooks /\ excused \subseteq excused'
    BY <1>1 DEF HookInv, ClaudeInv, ClaudeTypeOK
  <2>4. ClaudeInv'
    BY <1>1, <1>2, <1>3, <1>4, <2>1, <2>2, <2>3, SyncEnds
  <2> QED BY <1>1, <1>2, <2>4 DEF HookInv
<1>5. CASE /\ sync' = [sync EXCEPT !.at = "write", !.backfill = SyncedModel # sync.read.model]
           /\ backups' = <<settings>> \o backups
  <2> DEFINE b == SyncedModel # sync.read.model
  <2>1. b \in BOOLEAN
    OBVIOUS
  <2> HIDE DEF b
  <2>2. /\ sync' \in Syncs /\ sync'.at = "write" /\ sync'.read = sync.read /\ sync'.ok = sync.ok
        /\ sync'.late = sync.late /\ sync'.backfill = b
    <3>1. sync' = [sync EXCEPT !.at = "write", !.backfill = b]
      BY <1>5 DEF b
    <3>2. sync \in Syncs /\ b \in BOOLEAN
      BY <1>3, <2>1
    <3> QED BY <3>1, <3>2 DEF Syncs
  <2>3. backups' \in Seq(SettingsFiles) /\ Head(backups') = settings /\ backups' # <<>>
    BY <1>3, <1>5, FirstOf
  <2>4. ClaudeTypeOK'
    BY <1>1, <2>2, <2>3 DEF HookInv, ClaudeInv, ClaudeTypeOK
  <2>5. Remembered'
    BY <1>1, <1>2, <2>2, <2>3 DEF HookInv, ClaudeInv, Remembered, Has
  <2>6. NoKeyTwice' /\ Installed'
    BY <1>1, <1>3, <2>2, <2>3 DEF HookInv, ClaudeInv, NoKeyTwice, Distinct, KeysDiffer, Installed
  <2>7. ModelsFit'
    <3>1. SyncedModel' = SyncedModel
      BY <1>1, <2>2 DEF SyncedModel
    <3>2. sync'.backfill <=> SyncedModel' # sync'.read.model
      BY <2>2, <3>1 DEF b
    <3>3. Fits(settings)' /\ Fits(sync.read)' /\ Fits(Head(backups))'
      BY <1>1, <2>2, <2>3 DEF HookInv, ClaudeInv, ModelsFit, Fits
    <3> QED BY <2>2, <3>2, <3>3 DEF ModelsFit
  <2> QED BY <1>1, <1>2, <2>4, <2>5, <2>6, <2>7 DEF HookInv, ClaudeInv
<1> QED BY <1>4, <1>5 DEF SyncBacksUp

LEMMA SyncWritesStep == ASSUME HookInv, SyncWrites PROVE HookInv'
<1>1. /\ used' = used /\ UNCHANGED <<backups, threshold, template, claims, owned>> /\ sync.at = "write"
      /\ sync' = [sync EXCEPT !.at = "prune"]
      /\ settings' = [ok |-> TRUE, groups |-> Synced(sync.read.groups), model |-> SyncedModel]
      /\ excused' = excused \cup (IF sync.ok THEN sync.late ELSE owned)
  BY DEF SyncWrites
<1>2. CodexInv' /\ InCodex' = InCodex
  BY <1>1, CodexStays DEF HookInv, SyncWrites
<1>3. sync \in Syncs /\ sync # NoSync /\ template \in Nat \ {0} /\ owned \subseteq Hooks /\ excused \subseteq Hooks
  BY <1>1, NoSyncIs DEF HookInv, ClaudeInv, ClaudeTypeOK
<1>4. /\ sync' \in Syncs /\ sync'.at = "prune" /\ sync'.read = sync.read /\ sync'.ok = sync.ok
      /\ sync'.late = sync.late /\ sync'.backfill = sync.backfill
  BY <1>1, <1>3, SyncAt
<1>5. sync.read \in SettingsFiles /\ sync.read.groups \in Seq(Groups) /\ sync.late \subseteq Hooks /\ sync.ok \in BOOLEAN
      /\ sync.read.model \in {"none", "user", "plain", "1m"} /\ sync.read.ok \in BOOLEAN
  <2>1. sync.read \in SettingsFiles /\ sync.late \subseteq Hooks /\ sync.ok \in BOOLEAN
    BY <1>3 DEF Syncs
  <2> QED BY <2>1, FileOf
<1> DEFINE groups == Synced(sync.read.groups)
<1>6. /\ groups \in Seq(Groups)
      /\ \A h \in HooksOf(sync.read.groups) : h.who = "mine" => h \in HooksOf(groups)
      /\ Distinct(sync.read.groups) => Distinct(groups) /\ InPlace(groups)
  BY <1>3, <1>5, SyncedFacts
<1>7. SyncedModel \in {"none", "user", "plain", "1m"}
  BY <1>5 DEF SyncedModel
<1>8. settings'.ok = TRUE /\ settings'.groups = groups /\ settings'.model = SyncedModel
  BY <1>1
<1> HIDE DEF groups
<1>9. settings' \in SettingsFiles
  BY <1>1, <1>6, <1>7 DEF SettingsFiles, groups
<1>10. ClaudeTypeOK'
  BY <1>1, <1>3, <1>4, <1>5, <1>9 DEF HookInv, ClaudeInv, ClaudeTypeOK
<1>11. Remembered'
  <2>1. ASSUME NEW h \in owned \ excused' PROVE h \in HooksOf(groups) \cup InCodex
    <3>1. sync.ok /\ h \notin sync.late /\ h \notin excused
      BY <1>1, <2>1
    <3>2. sync.read.ok => h \in HooksOf(sync.read.groups) \cup InCodex
      BY <1>1, <2>1, <3>1 DEF HookInv, ClaudeInv, Remembered, Has
    <3>3. sync.read.ok
      BY <1>1, <3>1 DEF HookInv, ClaudeInv, Remembered
    <3>4. h.who = "mine"
      BY DEF HookInv, ClaudeInv, Remembered
    <3> QED BY <3>2, <3>3, <3>4, <1>6
  <2> QED BY <1>1, <1>2, <1>4, <1>8, <2>1 DEF HookInv, ClaudeInv, Remembered, Has
<1>12. Distinct(groups) /\ InPlace(groups)
  BY <1>3, <1>6 DEF HookInv, ClaudeInv, NoKeyTwice
<1>13. NoKeyTwice' /\ Installed'
  <2>1. Distinct(settings.groups)'
    BY <1>8, <1>12 DEF Distinct, KeysDiffer
  <2>2. InPlace(settings.groups)'
    BY <1>1, <1>8, <1>12 DEF InPlace, CoreOf, Startups
  <2>3. Distinct(sync.read.groups)'
    BY <1>3, <1>4 DEF HookInv, ClaudeInv, NoKeyTwice, Distinct, KeysDiffer
  <2> QED BY <1>4, <2>1, <2>2, <2>3 DEF NoKeyTwice, Installed
<1>14. ModelsFit'
  <2>1. sync.backfill <=> SyncedModel # sync.read.model
    BY <1>1 DEF HookInv, ClaudeInv, ModelsFit
  <2>2. CASE SyncedModel # "1m"
    BY <1>4, <1>8, <2>2 DEF ModelsFit, Fits
  <2>3. CASE SyncedModel = "1m" /\ sync.read.model = "1m"
    <3>1. threshold \in 1..30 \/ used.halved
      <4>1. Fits(sync.read) /\ sync.read.ok
        BY <1>1 DEF HookInv, ClaudeInv, ModelsFit, Remembered
      <4> QED BY <2>3, <4>1 DEF Fits
    <3> QED BY <1>1, <1>4, <3>1 DEF ModelsFit, Fits
  <2>4. CASE SyncedModel = "1m" /\ sync.read.model # "1m"
    <3>1. sync.backfill /\ ~(threshold > 30) /\ threshold \in Nat
      BY <2>1, <2>4 DEF SyncedModel, HookInv, ClaudeInv, ClaudeTypeOK
    <3>2. threshold = 0 \/ threshold \in 1..30
      BY <3>1
    <3> QED BY <1>1, <1>4, <3>1, <3>2 DEF ModelsFit, Fits
  <2> QED BY <2>2, <2>3, <2>4
<1> QED BY <1>1, <1>2, <1>10, <1>11, <1>13, <1>14 DEF HookInv, ClaudeInv

LEMMA SyncWriteFailsStep == ASSUME HookInv, SyncWriteFails PROVE HookInv'
<1>1. /\ UNCHANGED <<backups, threshold, template, claims, owned>> /\ sync.at = "write" /\ sync' = NoSync
      /\ settings' = Head(backups) /\ excused' = excused \cup sync.late
  BY DEF SyncWriteFails
<1>2. used' \in Used /\ used'.halved = used.halved /\ used'.raced = used.raced
  BY UseTyped DEF HookInv, SyncWriteFails
<1>3. CodexInv' /\ InCodex' = InCodex
  BY <1>2, CodexStays DEF HookInv, SyncWriteFails
<1>4. sync \in Syncs /\ backups \in Seq(SettingsFiles) /\ backups # <<>>
  BY <1>1, NoSyncIs DEF HookInv, ClaudeInv, ClaudeTypeOK
<1>5. settings' \in SettingsFiles /\ threshold' \in Nat /\ excused' \subseteq Hooks /\ excused \subseteq excused'
  <2>1. sync.late \subseteq Hooks
    BY <1>4 DEF Syncs
  <2> QED BY <1>1, <1>4, <2>1 DEF HookInv, ClaudeInv, ClaudeTypeOK
<1>6. Distinct(settings'.groups)
  BY <1>1 DEF HookInv, ClaudeInv, NoKeyTwice
<1>7. settings'.ok => (owned \ excused') \subseteq HooksOf(settings'.groups) \cup InCodex
  BY <1>1 DEF HookInv, ClaudeInv, Remembered, Has
<1>8. ModelsFit'
  BY <1>1, <1>2, NoSyncIs DEF HookInv, ClaudeInv, ModelsFit, Fits
<1>9. ClaudeInv'
  BY <1>1, <1>3, <1>5, <1>6, <1>7, <1>8, SyncEnds
<1> QED BY <1>2, <1>3, <1>9 DEF HookInv

LEMMA PruneStep == ASSUME HookInv, PruneOldBackups PROVE HookInv'
<1>1. /\ used' = used /\ UNCHANGED <<settings, threshold, template, claims, owned, excused>> /\ sync.at = "prune"
      /\ sync' = [sync EXCEPT !.at = "threshold"]
      /\ backups' = SubSeq(backups, 1, IF Len(backups) < KeptBackups THEN Len(backups) ELSE KeptBackups)
  BY DEF PruneOldBackups
<1>2. CodexInv' /\ InCodex' = InCodex
  BY <1>1, CodexStays DEF HookInv, PruneOldBackups
<1>3. sync \in Syncs /\ backups \in Seq(SettingsFiles)
  BY <1>1, NoSyncIs DEF HookInv, ClaudeInv, ClaudeTypeOK
<1>4. /\ sync' \in Syncs /\ sync'.at = "threshold" /\ sync'.read = sync.read /\ sync'.ok = sync.ok
      /\ sync'.late = sync.late /\ sync'.backfill = sync.backfill
  BY <1>1, <1>3, SyncAt
<1>5. backups' \in Seq(SettingsFiles)
  <2> DEFINE n == IF Len(backups) < KeptBackups THEN Len(backups) ELSE KeptBackups
  <2>1. n \in 0..Len(backups)
    BY <1>3, HooksAssumption
  <2> HIDE DEF n
  <2>2. SubSeq(backups, 1, n) \in Seq(SettingsFiles)
    BY <1>3, <2>1
  <2> QED BY <1>1, <2>2 DEF n
<1>6. ClaudeTypeOK'
  BY <1>1, <1>4, <1>5 DEF HookInv, ClaudeInv, ClaudeTypeOK
<1>7. Remembered' /\ NoKeyTwice' /\ Installed'
  <2>1. Distinct(sync.read.groups)
    BY <1>1, NoSyncIs DEF HookInv, ClaudeInv, NoKeyTwice
  <2>2. Remembered'
    BY <1>1, <1>2, <1>4 DEF HookInv, ClaudeInv, Remembered, Has
  <2>3. NoKeyTwice'
    BY SMTT(30), <1>1, <1>4, <2>1 DEF HookInv, ClaudeInv, NoKeyTwice, Distinct, KeysDiffer
  <2> QED BY <1>4, <2>2, <2>3 DEF Installed
<1>8. ModelsFit'
  BY <1>1, <1>4 DEF HookInv, ClaudeInv, ModelsFit, Fits
<1> QED BY <1>1, <1>2, <1>6, <1>7, <1>8 DEF HookInv, ClaudeInv

LEMMA CoupleStep == ASSUME HookInv, CoupleThreshold PROVE HookInv'
<1>1. /\ used' = used /\ UNCHANGED <<settings, backups, template, claims, owned, excused>> /\ sync.at = "threshold"
      /\ sync' = NoSync /\ threshold' = (IF sync.backfill /\ threshold = 0 THEN 30 ELSE threshold)
  BY DEF CoupleThreshold
<1>2. CodexInv' /\ InCodex' = InCodex
  BY <1>1, CodexStays DEF HookInv, CoupleThreshold
<1>3. settings' \in SettingsFiles /\ threshold' \in Nat /\ excused' \subseteq Hooks /\ excused \subseteq excused'
  BY <1>1 DEF HookInv, ClaudeInv, ClaudeTypeOK
<1>4. Distinct(settings'.groups) /\ (settings'.ok => (owned \ excused') \subseteq HooksOf(settings'.groups) \cup InCodex)
  BY <1>1 DEF HookInv, ClaudeInv, NoKeyTwice, Remembered, Has
<1>5. ModelsFit'
  <2>1. Fits(settings)'
    BY <1>1 DEF HookInv, ClaudeInv, ModelsFit, Fits
  <2> QED BY <1>1, <2>1, NoSyncIs DEF ModelsFit
<1>6. ClaudeInv'
  BY <1>1, <1>2, <1>3, <1>4, <1>5, SyncEnds
<1> QED BY <1>1, <1>2, <1>6 DEF HookInv

LEMMA SyncDiesStep == ASSUME HookInv, SyncDies PROVE HookInv'
<1>1. /\ UNCHANGED <<backups, threshold, template, claims, owned, excused>> /\ sync # NoSync /\ sync' = NoSync
      /\ settings' = [settings EXCEPT !.ok = @ /\ sync.at # "write"]
      /\ used' = [used EXCEPT !.tears = @ + 1, !.halved = @ \/ (sync.backfill /\ sync.at # "write")]
  BY DEF SyncDies
<1>2. sync \in Syncs /\ settings \in SettingsFiles /\ settings.ok \in BOOLEAN
  BY <1>1, NoSyncIs, FileOf DEF HookInv, ClaudeInv, ClaudeTypeOK
<1>3. /\ settings' \in SettingsFiles /\ settings'.groups = settings.groups /\ settings'.model = settings.model
      /\ settings'.ok = (settings.ok /\ sync.at # "write")
  <2> DEFINE b == settings.ok /\ sync.at # "write"
  <2>1. b \in BOOLEAN /\ settings' = [settings EXCEPT !.ok = b]
    BY <1>1
  <2> HIDE DEF b
  <2>2. settings' \in SettingsFiles /\ settings'.groups = settings.groups /\ settings'.model = settings.model
        /\ settings'.ok = b
    BY <1>2, <2>1 DEF SettingsFiles
  <2> QED BY <2>2 DEF b
<1>4. used' \in Used /\ used'.raced = used.raced /\ (used'.halved <=> used.halved \/ (sync.backfill /\ sync.at # "write"))
  <2> DEFINE b == used.halved \/ (sync.backfill /\ sync.at # "write")
  <2>1. b \in BOOLEAN /\ used' = [used EXCEPT !.tears = @ + 1, !.halved = b]
    BY <1>1
  <2> HIDE DEF b
  <2>2. used' \in Used /\ used'.raced = used.raced /\ used'.halved = b
    <3>1. used \in Used
      BY DEF HookInv
    <3>2. used.changes \in Nat /\ used.syncs \in Nat /\ used.tears + 1 \in Nat /\ used.raced \in BOOLEAN
      BY <3>1 DEF Used
    <3>3. used' = [changes |-> used.changes, syncs |-> used.syncs, tears |-> used.tears + 1,
                   halved |-> b, raced |-> used.raced]
      BY <2>1, <3>1 DEF Used
    <3> QED BY <2>1, <3>2, <3>3 DEF Used
  <2> QED BY <2>2 DEF b
<1>5. CodexInv' /\ InCodex' = InCodex
  BY <1>4, CodexStays DEF HookInv, SyncDies
<1>6. threshold' \in Nat /\ excused' \subseteq Hooks /\ excused \subseteq excused'
  BY <1>1 DEF HookInv, ClaudeInv, ClaudeTypeOK
<1>7. Distinct(settings'.groups) /\ (settings'.ok => (owned \ excused') \subseteq HooksOf(settings'.groups) \cup InCodex)
  BY <1>1, <1>3 DEF HookInv, ClaudeInv, NoKeyTwice, Remembered, Has
<1>8. ModelsFit'
  <2>1. Fits(settings)'
    <3> SUFFICES ASSUME settings.ok, sync.at # "write", settings.model = "1m"
                 PROVE  threshold \in 1..30 \/ used'.halved
      BY <1>1, <1>3 DEF Fits
    <3> QED BY <1>4 DEF HookInv, ClaudeInv, ModelsFit, Fits
  <2> QED BY <1>1, <2>1, NoSyncIs DEF ModelsFit
<1>9. ClaudeInv'
  BY <1>1, <1>3, <1>5, <1>6, <1>7, <1>8, SyncEnds
<1> QED BY <1>4, <1>5, <1>9 DEF HookInv

-----------------------------------------------------------------------------
(* What is written for Codex, and the launch that trusts it *)

LEMMA CoreHookLast ==
  ASSUME HookInv
  PROVE  /\ WithCoreHook \in Seq(Hooks)
         /\ \A h \in InCodex : h.who = "mine" => h \in ToSet(WithCoreHook)
<1> DEFINE there == IF codex.ok THEN codex.hooks ELSE <<>>
           S == {h \in ToSet(there) : ~IsCoreManaged(h)}
           list == Those(there, S)
<1>1. codex.hooks \in Seq(Hooks) /\ codex.ok \in BOOLEAN /\ template \in Nat
  BY DEF HookInv, CodexInv, CodexTypeOK, ClaudeInv, ClaudeTypeOK
<1>2. there \in Seq(Hooks)
  BY <1>1
<1>3. InCodex = ToSet(there)
  BY EmptyList DEF InCodex
<1> HIDE DEF there
<1>4. list \in Seq(Hooks) /\ ToSet(list) = ToSet(there) \cap S
  BY <1>2, ThoseOfList
<1>5. CoreCodexHook \in Hooks
  BY <1>1 DEF CoreCodexHook, Hook, Hooks
<1>6. WithCoreHook = Append(list, CoreCodexHook)
  BY DEF WithCoreHook, there
<1>7. \A h \in InCodex : h.who = "mine" => h \in ToSet(list)
  BY <1>3, <1>4 DEF IsCoreManaged
<1> HIDE DEF list
<1>8. WithCoreHook \in Seq(Hooks) /\ DOMAIN list \subseteq DOMAIN WithCoreHook
      /\ \A i \in DOMAIN list : WithCoreHook[i] = list[i]
  BY <1>4, <1>5, <1>6
<1>9. ToSet(list) \subseteq ToSet(WithCoreHook)
  BY <1>8 DEF ToSet
<1> QED BY <1>7, <1>8, <1>9

\* The files of Claude Code, while none of the user's hooks goes from Codex's.
LEMMA NothingLost ==
  ASSUME HookInv, UNCHANGED <<claudeVars>>, used'.halved = used.halved,
         \A h \in InCodex : h.who = "mine" => h \in InCodex'
  PROVE  ClaudeInv'
<1>1. UNCHANGED <<settings, backups, threshold, sync, template, claims, owned, excused>>
  BY DEF claudeVars
<1>2. owned \subseteq Hooks /\ excused \subseteq Hooks /\ \A h \in owned : h.who = "mine"
  BY DEF HookInv, ClaudeInv, ClaudeTypeOK, Remembered
<1> QED BY <1>1, <1>2, ClaudeStays DEF HookInv

\* A step that neither moves the launch on nor writes a marker.
LEMMA LaunchStays ==
  ASSUME CodexInv, UNCHANGED trust, used'.raced = used.raced,
         launch'.at = launch.at \/ launch'.at = "none", launch'.listed = launch.listed, launch'.skips = launch.skips,
         codexConfig'.trusted \in {codexConfig.trusted, {}},
         launch.at \in {"write", "mark"} /\ ~launch'.raced => ~launch.raced /\ codex'.hooks = codex.hooks
  PROVE  Trusting' /\ TrustIsReal'
<1>1. Trusting'
  BY DEF CodexInv, Trusting, At
<1>2. TrustIsReal'
  BY DEF CodexInv, TrustIsReal
<1> QED BY <1>1, <1>2

LEMMA CodexConfigOf ==
  ASSUME CodexTypeOK
  PROVE  /\ [ConfigRead EXCEPT !.on = TRUE] \in [ok : BOOLEAN, on : BOOLEAN, trusted : SUBSET (Nat \X Hooks)]
         /\ [ConfigRead EXCEPT !.on = TRUE].trusted \in {codexConfig.trusted, {}}
<1>1. ConfigRead \in [ok : BOOLEAN, on : BOOLEAN, trusted : SUBSET (Nat \X Hooks)]
      /\ ConfigRead.trusted \in {codexConfig.trusted, {}}
  BY DEF CodexTypeOK, ConfigRead
<1> HIDE DEF ConfigRead
<1> QED BY <1>1

LEMMA LaunchAt ==
  ASSUME NEW l \in Launches, NEW at \in {"none", "valid", "features", "list", "write", "mark", "runs"}
  PROVE  LET new == [l EXCEPT !.at = at]
         IN new \in Launches /\ new.at = at /\ new.listed = l.listed /\ new.raced = l.raced /\ new.skips = l.skips
BY DEF Launches

LEMMA WriteConfigStep ==
  ASSUME HookInv, WriteCodexConfig, UNCHANGED <<trust, version, claudeVars>> PROVE HookInv'
<1>1. CodexTypeOK /\ used \in Used /\ launch \in Launches
  BY DEF HookInv, CodexInv, CodexTypeOK
<1>2. CASE /\ Use("syncs", MaxSyncs) /\ writing' = "global" /\ projectHooks' = TRUE
           /\ UNCHANGED <<codex, codexConfig, launch>>
  <2>1. used' \in Used /\ used'.halved = used.halved /\ used'.raced = used.raced
    BY <1>1, <1>2, UseTyped
  <2>2. CodexTypeOK'
    BY <1>1, <1>2 DEF CodexTypeOK
  <2>3. Trusting' /\ TrustIsReal'
    BY <1>2, <2>1, LaunchStays DEF HookInv
  <2>4. InCodex' = InCodex
    BY <1>2 DEF InCodex
  <2> QED BY <2>1, <2>2, <2>3, <2>4, NothingLost DEF HookInv, CodexInv
<1>3. CASE /\ writing' = "hooks" /\ codexConfig' = [ConfigRead EXCEPT !.on = TRUE]
           /\ UNCHANGED <<codex, projectHooks, launch, used>>
  <2>1. CodexTypeOK' /\ codexConfig'.trusted \in {codexConfig.trusted, {}}
    BY <1>1, <1>3, CodexConfigOf DEF CodexTypeOK
  <2>2. Trusting' /\ TrustIsReal'
    BY <1>3, <2>1, LaunchStays DEF HookInv
  <2>3. InCodex' = InCodex
    BY <1>3 DEF InCodex
  <2> QED BY <1>1, <1>3, <2>1, <2>2, <2>3, NothingLost DEF HookInv, CodexInv
<1>4. CASE /\ writing' = "none" /\ codex' = [ok |-> TRUE, hooks |-> WithCoreHook]
           /\ launch' = [launch EXCEPT !.raced = launch.at \in {"list", "write", "mark"} /\ (@ \/ codex' # codex)]
           /\ UNCHANGED <<codexConfig, projectHooks, used>>
  <2> DEFINE b == launch.at \in {"list", "write", "mark"} /\ (launch.raced \/ codex' # codex)
  <2>1. b \in BOOLEAN /\ launch' = [launch EXCEPT !.raced = b]
    BY <1>4
  <2>2. launch.at \in {"write", "mark"} /\ ~b => ~launch.raced /\ codex' = codex
    OBVIOUS
  <2> HIDE DEF b
  <2>3. launch' \in Launches /\ launch'.at = launch.at /\ launch'.listed = launch.listed
        /\ launch'.skips = launch.skips /\ launch'.raced = b
    BY <1>1, <2>1 DEF Launches
  <2>4. codex'.ok = TRUE /\ codex'.hooks = WithCoreHook /\ codex' \in [ok : BOOLEAN, hooks : Seq(Hooks)]
    BY <1>4, CoreHookLast
  <2>5. CodexTypeOK'
    BY <1>1, <1>4, <2>3, <2>4 DEF CodexTypeOK
  <2>6. Trusting' /\ TrustIsReal'
    BY <1>4, <2>2, <2>3, LaunchStays DEF HookInv
  <2>7. \A h \in InCodex : h.who = "mine" => h \in InCodex'
    BY <2>4, CoreHookLast DEF InCodex
  <2> QED BY <1>1, <1>4, <2>5, <2>6, <2>7, NothingLost DEF HookInv, CodexInv
<1> QED BY <1>2, <1>3, <1>4 DEF WriteCodexConfig

LEMMA WriterTearsStep == ASSUME HookInv, WriterTears PROVE HookInv'
<1>1. CodexTypeOK /\ used \in Used /\ launch \in Launches /\ owned \subseteq Hooks /\ excused \subseteq Hooks
      /\ codex.ok \in BOOLEAN /\ codex.hooks \in Seq(Hooks) /\ codexConfig.ok \in BOOLEAN
      /\ \A h \in owned : h.who = "mine"
  BY DEF HookInv, CodexInv, CodexTypeOK, ClaudeInv, ClaudeTypeOK, Remembered
<1>2. used' \in Used /\ used'.halved = used.halved /\ used'.raced = used.raced
  BY <1>1, UseTyped DEF WriterTears
<1>3. /\ UNCHANGED <<projectHooks, trust, version>> /\ UNCHANGED <<settings, backups, threshold, sync, template, claims, owned>>
      /\ excused' = IF writing = "hooks" THEN owned ELSE excused
  BY DEF WriterTears
<1>4. CASE /\ writing' = "none" /\ UNCHANGED launch
           /\ codexConfig' = [codexConfig EXCEPT !.ok = @ /\ writing # "global"]
           /\ codex' = [codex EXCEPT !.ok = @ /\ writing # "hooks"]
  <2> DEFINE b == codexConfig.ok /\ writing # "global"
             c == codex.ok /\ writing # "hooks"
  <2>1. b \in BOOLEAN /\ c \in BOOLEAN /\ codexConfig' = [codexConfig EXCEPT !.ok = b] /\ codex' = [codex EXCEPT !.ok = c]
    BY <1>4
  <2>2. c <=> codex.ok /\ writing # "hooks"
    OBVIOUS
  <2> HIDE DEF b, c
  <2>3. CodexTypeOK' /\ codexConfig'.trusted = codexConfig.trusted /\ codex'.hooks = codex.hooks /\ codex'.ok = c
    BY <1>1, <1>3, <1>4, <2>1 DEF CodexTypeOK
  <2>4. Trusting' /\ TrustIsReal'
    BY <1>2, <1>3, <1>4, <2>3, LaunchStays DEF HookInv
  <2>5. ClaudeInv'
    <3>1. \A h \in owned' \ excused' : h \in InCodex' \/ (h \in owned \ excused /\ h \notin InCodex)
      BY <1>3, <2>2, <2>3 DEF InCodex
    <3> QED BY <1>1, <1>2, <1>3, <3>1, ClaudeStays DEF HookInv
  <2> QED BY <1>2, <2>3, <2>4, <2>5 DEF HookInv, CodexInv
<1>5. CASE launch' = [launch EXCEPT !.at = "none"] /\ UNCHANGED <<writing, codex, codexConfig>>
  <2>1. launch' \in Launches /\ launch'.at = "none" /\ launch'.listed = launch.listed /\ launch'.raced = launch.raced
        /\ launch'.skips = launch.skips
    BY <1>1, <1>5, LaunchAt
  <2>2. CodexTypeOK'
    BY <1>1, <1>3, <1>5, <2>1 DEF CodexTypeOK
  <2>3. Trusting' /\ TrustIsReal'
    BY <1>2, <1>3, <1>5, <2>1, LaunchStays DEF HookInv
  <2>4. ClaudeInv'
    <3>1. \A h \in owned' \ excused' : h \in InCodex' \/ (h \in owned \ excused /\ h \notin InCodex)
      BY <1>3, <1>5 DEF InCodex
    <3> QED BY <1>1, <1>2, <1>3, <3>1, ClaudeStays DEF HookInv
  <2> QED BY <1>2, <2>2, <2>3, <2>4 DEF HookInv, CodexInv
<1> QED BY <1>4, <1>5 DEF WriterTears

LEMMA CodexChangesStep == ASSUME HookInv, CodexChanges PROVE HookInv'
<1>1. CodexTypeOK /\ used \in Used /\ used.changes \in Nat /\ launch \in Launches /\ owned \subseteq Hooks
      /\ excused \subseteq Hooks /\ codex.ok \in BOOLEAN /\ codex.hooks \in Seq(Hooks) /\ version \in Nat
      /\ \A h \in owned : h.who = "mine"
  BY DEF HookInv, CodexInv, CodexTypeOK, ClaudeInv, ClaudeTypeOK, Remembered, Used
<1>2. used' \in Used /\ used'.halved = used.halved /\ used'.raced = used.raced
  BY <1>1, UseTyped DEF CodexChanges
<1>3. /\ UNCHANGED <<codexConfig, projectHooks, trust, writing>>
      /\ UNCHANGED <<settings, backups, threshold, sync, template, claims, excused>>
  BY DEF CodexChanges
<1>4. CASE version' = version + 1 /\ UNCHANGED <<codex, launch, owned>>
  <2>1. CodexTypeOK'
    BY <1>1, <1>3, <1>4 DEF CodexTypeOK
  <2>2. Trusting' /\ TrustIsReal'
    BY <1>2, <1>3, <1>4, LaunchStays DEF HookInv
  <2>3. InCodex' = InCodex /\ UNCHANGED claudeVars
    BY <1>3, <1>4 DEF InCodex, claudeVars
  <2> QED BY <1>2, <2>1, <2>2, <2>3, NothingLost DEF HookInv, CodexInv
<1>5. CASE /\ codex.ok /\ UNCHANGED version
           /\ codex' = [codex EXCEPT !.hooks = <<Hook("mine", used.changes, 0)>> \o @]
           /\ owned' = owned \cup {Hook("mine", used.changes, 0)}
           /\ launch' = [launch EXCEPT !.raced = TRUE]
  <2> DEFINE h == Hook("mine", used.changes, 0)
             hooks == <<h>> \o codex.hooks
  <2>1. h \in Hooks /\ h.who = "mine" /\ ~IsCoreManaged(h)
    BY <1>1 DEF Hooks, Hook, IsCoreManaged
  <2>2. codex' = [codex EXCEPT !.hooks = hooks] /\ owned' = owned \cup {h}
    BY <1>5
  <2> HIDE DEF h
  <2>3. hooks \in Seq(Hooks) /\ ToSet(hooks) = ToSet(codex.hooks) \cup {h}
    <3>1. LET new == IF TRUE THEN <<h>> \o codex.hooks ELSE Append(codex.hooks, h)
          IN new \in Seq(Hooks) /\ ToSet(new) = ToSet(codex.hooks) \cup {h}
      BY <1>1, <2>1, GrownHooks
    <3> QED BY <3>1
  <2> HIDE DEF hooks
  <2>4. launch' \in Launches /\ launch'.at = launch.at /\ launch'.listed = launch.listed /\ launch'.raced = TRUE
        /\ launch'.skips = launch.skips
    BY <1>1, <1>5 DEF Launches
  <2>5. CodexTypeOK' /\ codex'.ok = codex.ok /\ codex'.hooks = hooks
    BY <1>1, <1>3, <1>5, <2>2, <2>3, <2>4 DEF CodexTypeOK
  <2>6. Trusting' /\ TrustIsReal'
    BY <1>2, <1>3, <2>4, LaunchStays DEF HookInv
  <2>7. ClaudeInv'
    <3>1. InCodex' = InCodex \cup {h}
      BY <1>5, <2>3, <2>5 DEF InCodex
    <3>2. \A x \in owned' \ excused' : x \in InCodex' \/ (x \in owned \ excused /\ x \notin InCodex)
      BY <1>3, <2>2, <3>1
    <3>3. owned' \subseteq Hooks /\ \A x \in owned' : x.who = "mine"
      BY <1>1, <2>1, <2>2
    <3> QED BY <1>1, <1>2, <1>3, <3>2, <3>3, ClaudeStays DEF HookInv
  <2> QED BY <1>2, <2>5, <2>6, <2>7 DEF HookInv, CodexInv
<1> QED BY <1>4, <1>5 DEF CodexChanges

\* A launch leaves the user's files alone, but for hooks.json.
LEMMA LaunchInstallsStep == ASSUME HookInv, LaunchInstalls PROVE HookInv'
<1>1. CodexTypeOK /\ used \in Used /\ launch \in Launches
  BY DEF HookInv, CodexInv, CodexTypeOK
<1>2. used' \in Used /\ used'.halved = used.halved /\ used'.raced = used.raced
  BY <1>1, UseTyped DEF LaunchInstalls
<1>3. /\ launch' = [launch EXCEPT !.at = "valid", !.raced = FALSE] /\ codex' = [ok |-> TRUE, hooks |-> WithCoreHook]
      /\ UNCHANGED <<codexConfig, projectHooks, trust, version, writing>> /\ UNCHANGED <<claudeVars>>
  BY DEF LaunchInstalls
<1>4. launch' \in Launches /\ launch'.at = "valid"
  BY <1>1, <1>3 DEF Launches
<1>5. codex'.ok = TRUE /\ codex'.hooks = WithCoreHook /\ codex' \in [ok : BOOLEAN, hooks : Seq(Hooks)]
  BY <1>3, CoreHookLast
<1>6. CodexTypeOK'
  BY <1>1, <1>3, <1>4, <1>5 DEF CodexTypeOK
<1>7. Trusting' /\ TrustIsReal'
  BY <1>2, <1>3, <1>4 DEF HookInv, CodexInv, Trusting, TrustIsReal, At
<1>8. \A h \in InCodex : h.who = "mine" => h \in InCodex'
  BY <1>5, CoreHookLast DEF InCodex
<1>9. ClaudeInv'
  BY <1>2, <1>3, <1>8, NothingLost
<1> QED BY <1>2, <1>6, <1>7, <1>9 DEF HookInv, CodexInv

\* What Codex skips as it starts with hooks that are all trusted is nothing.
LEMMA AllTrusted ==
  ASSUME NEW l \in Launches, CodexTypeOK
  PROVE  /\ Runs(l) \in Launches /\ Runs(l).at = "runs" /\ Runs(l).raced = l.raced
         /\ At(codex.hooks) \subseteq codexConfig.trusted => Runs(l).skips = {}
<1> DEFINE s == At(codex.hooks) \ codexConfig.trusted
<1>1. s \subseteq Nat \X Hooks
  <2>1. \A i \in DOMAIN codex.hooks : i \in Nat /\ codex.hooks[i] \in Hooks
    BY DEF CodexTypeOK
  <2> QED BY <2>1 DEF At
<1>2. At(codex.hooks) \subseteq codexConfig.trusted => s = {}
  OBVIOUS
<1>3. Runs(l) = [l EXCEPT !.at = "runs", !.skips = s]
  BY DEF Runs
<1> HIDE DEF s
<1>4. Runs(l) \in Launches /\ Runs(l).at = "runs" /\ Runs(l).raced = l.raced /\ Runs(l).skips = s
  BY <1>1, <1>3 DEF Launches
<1> QED BY <1>2, <1>4

LEMMA ChecksTrustStep == ASSUME HookInv, LaunchChecksTrust PROVE HookInv'
<1>1. CodexTypeOK /\ used \in Used /\ launch \in Launches
  BY DEF HookInv, CodexInv, CodexTypeOK
<1>2. /\ UNCHANGED <<codex, codexConfig, projectHooks, trust, version, writing, used>> /\ UNCHANGED <<claudeVars>>
      /\ launch' = IF IsCodexTrustValid THEN Runs(launch) ELSE [launch EXCEPT !.at = "features"]
  BY DEF LaunchChecksTrust
<1>3. ClaudeInv'
  BY <1>2, NothingLost DEF InCodex
<1>4. CASE IsCodexTrustValid
  <2>1. launch' \in Launches /\ launch'.at = "runs"
    BY <1>1, <1>2, <1>4, AllTrusted
  <2>2. ~used.raced => launch'.skips = {}
    <3> SUFFICES ASSUME ~used.raced PROVE launch'.skips = {}
      OBVIOUS
    <3>1. At(codex.hooks) \subseteq codexConfig.trusted
      BY <1>4 DEF IsCodexTrustValid, HookInv, CodexInv, Trusting
    <3> QED BY <1>1, <1>2, <1>4, <3>1, AllTrusted
  <2>3. CodexTypeOK'
    BY <1>1, <1>2, <2>1 DEF CodexTypeOK
  <2>4. Trusting' /\ TrustIsReal'
    BY <1>2, <2>1, <2>2 DEF HookInv, CodexInv, Trusting, TrustIsReal, At
  <2> QED BY <1>1, <1>2, <1>3, <2>3, <2>4 DEF HookInv, CodexInv
<1>5. CASE ~IsCodexTrustValid
  <2>1. launch' \in Launches /\ launch'.at = "features"
    BY <1>1, <1>2, <1>5, LaunchAt
  <2>2. CodexTypeOK'
    BY <1>1, <1>2, <2>1 DEF CodexTypeOK
  <2>3. Trusting' /\ TrustIsReal'
    BY <1>2, <2>1 DEF HookInv, CodexInv, Trusting, TrustIsReal, At
  <2> QED BY <1>1, <1>2, <1>3, <2>2, <2>3 DEF HookInv, CodexInv
<1> QED BY <1>4, <1>5

LEMMA EnablesHooksStep == ASSUME HookInv, LaunchEnablesHooks PROVE HookInv'
<1>1. CodexTypeOK /\ used \in Used /\ launch \in Launches
  BY DEF HookInv, CodexInv, CodexTypeOK
<1>2. /\ UNCHANGED <<codex, trust, version, writing, used>> /\ UNCHANGED <<claudeVars>>
      /\ launch' = [launch EXCEPT !.at = "list"] /\ projectHooks' = TRUE /\ codexConfig' = [ConfigRead EXCEPT !.on = TRUE]
  BY DEF LaunchEnablesHooks
<1>3. launch' \in Launches /\ launch'.at = "list"
  BY <1>1, <1>2, LaunchAt
<1>4. CodexTypeOK'
  BY <1>1, <1>2, <1>3, CodexConfigOf DEF CodexTypeOK
<1>5. Trusting' /\ TrustIsReal'
  BY <1>2, <1>3 DEF HookInv, CodexInv, Trusting, TrustIsReal, At
<1>6. ClaudeInv'
  BY <1>2, NothingLost DEF InCodex
<1> QED BY <1>1, <1>2, <1>4, <1>5, <1>6 DEF HookInv, CodexInv

LEMMA ListsStep == ASSUME HookInv, AppServerLists PROVE HookInv'
<1>1. CodexTypeOK /\ used \in Used /\ launch \in Launches /\ codex.hooks \in Seq(Hooks)
  BY DEF HookInv, CodexInv, CodexTypeOK
<1>2. /\ UNCHANGED <<codex, codexConfig, projectHooks, trust, version, writing, used>> /\ UNCHANGED <<claudeVars>>
      /\ \/ launch' = [launch EXCEPT !.at = "write", !.listed = codex.hooks]
         \/ launch' = [launch EXCEPT !.at = "none"]
  BY DEF AppServerLists
<1>3. launch' \in Launches /\ (launch'.at = "none" \/ (launch'.at = "write" /\ launch'.listed = codex.hooks))
  BY <1>1, <1>2 DEF Launches
<1>4. CodexTypeOK'
  BY <1>1, <1>2, <1>3 DEF CodexTypeOK
<1>5. Trusting' /\ TrustIsReal'
  BY <1>2, <1>3 DEF HookInv, CodexInv, Trusting, TrustIsReal, At
<1>6. ClaudeInv'
  BY <1>2, NothingLost DEF InCodex
<1> QED BY <1>1, <1>2, <1>4, <1>5, <1>6 DEF HookInv, CodexInv

LEMMA TrustsStep == ASSUME HookInv, AppServerTrusts PROVE HookInv'
<1>1. CodexTypeOK /\ used \in Used /\ launch \in Launches /\ codexConfig.trusted \subseteq Nat \X Hooks
      /\ launch.listed \in Seq(Hooks)
  BY DEF HookInv, CodexInv, CodexTypeOK, Launches
<1>2. /\ UNCHANGED <<codex, projectHooks, trust, version, writing, used>> /\ UNCHANGED <<claudeVars>> /\ launch.at = "write"
  BY DEF AppServerTrusts
<1>3. ClaudeInv'
  BY <1>2, NothingLost DEF InCodex
<1>4. CASE /\ launch' = [launch EXCEPT !.at = "mark"]
           /\ codexConfig' = [codexConfig EXCEPT !.trusted =
               {t \in @: t[1] \notin DOMAIN launch.listed} \cup At(launch.listed)]
  <2> DEFINE now == {t \in codexConfig.trusted : t[1] \notin DOMAIN launch.listed} \cup At(launch.listed)
  <2>1. codexConfig' = [codexConfig EXCEPT !.trusted = now]
    BY <1>4
  <2>2. now \subseteq Nat \X Hooks /\ At(launch.listed) \subseteq now
    <3>1. \A i \in DOMAIN launch.listed : i \in Nat /\ launch.listed[i] \in Hooks
      BY <1>1
    <3>2. At(launch.listed) \subseteq Nat \X Hooks
      BY <3>1 DEF At
    <3> QED BY <1>1, <3>2
  <2> HIDE DEF now
  <2>3. launch' \in Launches /\ launch'.at = "mark" /\ launch'.listed = launch.listed /\ launch'.raced = launch.raced
    BY <1>1, <1>4, LaunchAt
  <2>4. CodexTypeOK' /\ codexConfig'.trusted = now
    BY <1>1, <1>2, <2>1, <2>2, <2>3 DEF CodexTypeOK
  <2>5. At(launch.listed)' = At(launch.listed)
    BY <2>3 DEF At
  <2>6. Trusting'
    BY <1>2, <2>2, <2>3, <2>4, <2>5 DEF HookInv, CodexInv, Trusting, At
  <2>7. TrustIsReal'
    BY <2>3 DEF TrustIsReal
  <2> QED BY <1>1, <1>2, <1>3, <2>4, <2>6, <2>7 DEF HookInv, CodexInv
<1>5. CASE launch' = [launch EXCEPT !.at = "none"] /\ UNCHANGED codexConfig
  <2>1. launch' \in Launches /\ launch'.at = "none"
    BY <1>1, <1>5, LaunchAt
  <2>2. CodexTypeOK'
    BY <1>1, <1>2, <1>5, <2>1 DEF CodexTypeOK
  <2>3. Trusting' /\ TrustIsReal'
    BY <1>2, <1>5, <2>1 DEF HookInv, CodexInv, Trusting, TrustIsReal, At
  <2> QED BY <1>1, <1>2, <1>3, <2>2, <2>3 DEF HookInv, CodexInv
<1> QED BY <1>4, <1>5 DEF AppServerTrusts

LEMMA MarksStep == ASSUME HookInv, LaunchMarks PROVE HookInv'
<1>1. CodexTypeOK /\ used \in Used /\ launch \in Launches /\ launch.raced \in BOOLEAN
  BY DEF HookInv, CodexInv, CodexTypeOK, Launches
<1>2. UNCHANGED <<codex, codexConfig, projectHooks, version, writing>> /\ UNCHANGED <<claudeVars>> /\ launch.at = "mark"
  BY DEF LaunchMarks
<1>3. CASE /\ codexConfig.trusted # {}
           /\ trust' = [hooks |-> codex.hooks, version |-> version, snapshot |-> codexConfig.trusted]
           /\ launch' = Runs(launch)
           /\ used' = [used EXCEPT !.raced = launch.raced]
  <2>1. used' \in Used /\ used'.halved = used.halved /\ used'.raced = launch.raced
    BY <1>1, <1>3 DEF Used
  <2>2. ~launch.raced => At(codex.hooks) \subseteq codexConfig.trusted
    BY <1>2, <1>3 DEF HookInv, CodexInv, Trusting
  <2>3. launch' \in Launches /\ launch'.at = "runs" /\ (~launch.raced => launch'.skips = {})
    BY <1>1, <1>3, <2>2, AllTrusted
  <2>4. trust' \in [hooks : Seq(Hooks), version : Nat, snapshot : SUBSET (Nat \X Hooks)]
        /\ trust'.hooks = codex.hooks /\ trust'.snapshot = codexConfig.trusted
    BY <1>1, <1>3 DEF CodexTypeOK
  <2>5. CodexTypeOK'
    BY <1>1, <1>2, <2>3, <2>4 DEF CodexTypeOK
  <2>6. Trusting' /\ TrustIsReal'
    BY <2>1, <2>2, <2>3, <2>4 DEF Trusting, TrustIsReal, At
  <2>7. ClaudeInv'
    BY <1>2, <2>1, NothingLost DEF InCodex
  <2> QED BY <2>1, <2>5, <2>6, <2>7 DEF HookInv, CodexInv
<1>4. CASE launch' = [launch EXCEPT !.at = "none"] /\ UNCHANGED <<trust, used>>
  <2>1. launch' \in Launches /\ launch'.at = "none"
    BY <1>1, <1>4, LaunchAt
  <2>2. CodexTypeOK'
    BY <1>1, <1>2, <1>4, <2>1 DEF CodexTypeOK
  <2>3. Trusting' /\ TrustIsReal'
    BY <1>2, <1>4, <2>1 DEF HookInv, CodexInv, Trusting, TrustIsReal, At
  <2>4. ClaudeInv'
    BY <1>2, <1>4, NothingLost DEF InCodex
  <2> QED BY <1>1, <1>4, <2>2, <2>3, <2>4 DEF HookInv, CodexInv
<1> QED BY <1>3, <1>4 DEF LaunchMarks

\* Whatever is synced, claimed, upgraded, torn and launched: the user's own hooks
\* stay, a sync leaves the hooks of its release in place and each once, a model comes
\* with the threshold it needs, and Codex skips no hook in silence
\* (sync-settings-hooks, codex-hooks).
THEOREM HooksInForceCorrect ==
  HooksSpec => []HooksInForce
<1>1. HooksInit => HookInv
  <2> SUFFICES ASSUME HooksInit PROVE HookInv
    OBVIOUS
  <2>1. ClaudeTypeOK
    <3>1. settings \in SettingsFiles
      BY DEF HooksInit, SettingsFiles
    <3>2. backups \in Seq(SettingsFiles)
      BY DEF HooksInit
    <3>3. threshold \in Nat /\ template \in Nat \ {0} /\ claims \in BOOLEAN /\ owned \subseteq Hooks /\ excused \subseteq Hooks
      <4>1. threshold \in {0, 70} /\ template = 1 /\ claims = FALSE /\ owned = {} /\ excused = {}
        BY DEF HooksInit
      <4>2. threshold \in Nat /\ template \in Nat \ {0}
        BY <4>1
      <4>3. owned \subseteq Hooks /\ excused \subseteq Hooks
        BY <4>1
      <4>4. claims \in BOOLEAN
        BY <4>1
      <4> QED BY <4>2, <4>3, <4>4
    <3>4. sync = NoSync
      BY DEF HooksInit
    <3> QED BY <3>1, <3>2, <3>3, <3>4, NoSyncIs DEF ClaudeTypeOK
  <2>2. CodexTypeOK /\ used \in Used
    <3>1. /\ codex \in [ok : BOOLEAN, hooks : Seq(Hooks)]
          /\ codexConfig \in [ok : BOOLEAN, on : BOOLEAN, trusted : SUBSET (Nat \X Hooks)]
      BY DEF HooksInit
    <3>2. launch \in Launches
      BY DEF HooksInit, Launches
    <3>3. used \in Used
      BY DEF HooksInit, Used
    <3>4. trust = NoTrust /\ projectHooks \in BOOLEAN /\ version \in Nat /\ writing = "none"
      BY DEF HooksInit, NoTrust
    <3> QED BY <3>1, <3>2, <3>3, <3>4 DEF CodexTypeOK
  <2>3. Remembered
    BY NoSyncIs DEF HooksInit, Remembered, Has
  <2>4. NoKeyTwice /\ Installed /\ ModelsFit
    BY NoSyncIs DEF HooksInit, NoKeyTwice, Distinct, Installed, ModelsFit, Fits
  <2>5. Trusting /\ TrustIsReal
    BY DEF HooksInit, Trusting, TrustIsReal, NoTrust
  <2> QED BY <2>1, <2>2, <2>3, <2>4, <2>5 DEF HookInv, ClaudeInv, CodexInv
<1>2. HookInv /\ [HooksNext]_hookVars => HookInv'
  <2> SUFFICES ASSUME HookInv, [HooksNext]_hookVars PROVE HookInv'
    OBVIOUS
  <2>1. CASE UNCHANGED hookVars
    <3>1. UNCHANGED <<claudeVars>> /\ UNCHANGED codexVars /\ UNCHANGED used
      BY <2>1 DEF hookVars
    <3>2. CodexInv' /\ InCodex' = InCodex
      BY <3>1, CodexStays DEF HookInv
    <3>3. ClaudeInv'
      BY <3>1, <3>2, NothingLost
    <3> QED BY <3>1, <3>2, <3>3 DEF HookInv
  <2>2. CASE ClaudeHooksNext
    BY <2>2, SyncReadsStep, SyncBacksUpStep, SyncWritesStep, SyncWriteFailsStep, PruneStep, CoupleStep, SyncDiesStep,
       AddHookStep, ChangeHookStep, ComponentHooksStep, NewTemplateStep DEF ClaudeHooksNext
  <2>3. CASE CodexHooksNext
    BY <2>3, WriteConfigStep, WriterTearsStep, LaunchInstallsStep, ChecksTrustStep, EnablesHooksStep, ListsStep,
       TrustsStep, MarksStep, CodexChangesStep DEF CodexHooksNext
  <2> QED BY <2>1, <2>2, <2>3 DEF HooksNext
<1>3. HookInv => HooksInForce
  <2> SUFFICES ASSUME HookInv PROVE HooksInForce
    OBVIOUS
  <2>1. UserHooksKept
    BY DEF HookInv, ClaudeInv, Remembered, Has, InCodex, UserHooksKept
  <2>2. CoreHooksInPlace
    <3> SUFFICES ASSUME sync.at = "prune"
                 PROVE  /\ {Key(h) : h \in CoreOf(settings.groups)} = Keys(Desired(template))
                        /\ Cardinality(Startups(settings.groups)) = 1 =>
                             CoreOf(settings.groups) = ToSet(Desired(template))
      BY DEF CoreHooksInPlace, CoreOf, Startups
    <3>1. InPlace(settings.groups)
      BY DEF HookInv, ClaudeInv, Installed
    <3>2. IsFiniteSet(Startups(settings.groups))
      <4>1. settings.groups \in Seq(Groups)
        BY FileOf DEF HookInv, ClaudeInv, ClaudeTypeOK
      <4>2. DOMAIN settings.groups = 1..Len(settings.groups) /\ Len(settings.groups) \in Nat
        BY <4>1
      <4>3. IsFiniteSet(1..Len(settings.groups))
        BY <4>2, FS_Interval
      <4>4. Startups(settings.groups) \subseteq 1..Len(settings.groups)
        BY <4>2 DEF Startups
      <4> QED BY <4>3, <4>4, FS_Subset
    <3>3. Cardinality(Startups(settings.groups)) = 1 => \E i : Startups(settings.groups) = {i}
      BY <3>2, FS_Singleton
    <3> QED BY <3>1, <3>3 DEF InPlace
  <2>3. ModelFitsThreshold
    BY NoSyncIs DEF HookInv, ClaudeInv, ModelsFit, Fits, ModelFitsThreshold
  <2> QED BY <2>1, <2>2, <2>3 DEF HookInv, CodexInv, HooksInForce
<1> QED BY <1>1, <1>2, <1>3, PTL DEF HooksSpec

=============================================================================
