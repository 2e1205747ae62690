------------------------------ MODULE ListsProof ------------------------------
(***************************************************************************)
(* Induction over numbers, and what a filter leaves of a list.             *)
(*                                                                         *)
(* A set of numbers with 0 in it, and with each number the next one, is    *)
(* all of them, because the least that is missing would have one before it *)
(* that is not.  That the recursion in Those defines a function, and which *)
(* entries it picks, is shown by that.                                     *)
(***************************************************************************)
EXTENDS Lists, WellFoundedInduction, SequenceTheorems, TLAPS

LEMMA SmallerInNat == \A x, y \in Nat : x < y => <<x, y>> \in OpToRel(<, Nat)
  BY DEF OpToRel

LEMMA Least ==
  ASSUME NEW T, T \subseteq Nat, T # {}
  PROVE  \E x \in T : \A y \in T : x <= y
<1>1. \E x \in T : \A y \in T : ~ (<<y, x>> \in OpToRel(<, Nat))
  BY WFMin, NatLessThanWellFounded
<1>2. PICK x \in T : \A y \in T : ~ (<<y, x>> \in OpToRel(<, Nat))
  BY <1>1
<1>3. \A y \in T : ~ (y < x)
  BY <1>2, SmallerInNat
<1> QED BY <1>3

LEMMA Induction ==
  ASSUME NEW S, 0 \in S, \A n \in Nat : n \in S => n + 1 \in S
  PROVE  Nat \subseteq S
<1> SUFFICES ASSUME Nat \ S # {} PROVE FALSE
  OBVIOUS
<1>1. PICK x \in Nat \ S : \A y \in Nat \ S : x <= y
  BY Least
<1>2. x # 0 /\ x - 1 \in Nat
  BY <1>1
<1>3. x - 1 \in S
  BY <1>1, <1>2
<1>4. (x - 1) + 1 \in S
  BY <1>2, <1>3
<1> QED BY <1>1, <1>4

\* The recursive function in Those, over the first n entries.
Next1(list, S, i, before) == IF list[i] \in S THEN Append(before, list[i]) ELSE before
Rows(list, S, n, f) == [i \in 0..n |-> IF i = 0 THEN <<>> ELSE Next1(list, S, i, f[i - 1])]

LEMMA RowsExist ==
  ASSUME NEW T, NEW list \in Seq(T), NEW S, NEW n \in Nat
  PROVE  \E f : f = Rows(list, S, n, f)
<1> DEFINE Have == {m \in Nat : \E f : f = Rows(list, S, m, f)}
<1>1. 0 \in Have
  <2> DEFINE f == [i \in 0..0 |-> <<>>]
  <2>1. f = Rows(list, S, 0, f)
    BY DEF Rows
  <2> QED BY <2>1
<1>2. ASSUME NEW m \in Nat, m \in Have PROVE m + 1 \in Have
  <2>1. PICK f : f = Rows(list, S, m, f)
    BY <1>2
  <2> DEFINE g == [i \in 0..(m + 1) |-> IF i = 0 THEN <<>> ELSE Next1(list, S, i, f[i - 1])]
  <2>2. \A i \in 0..m : f[i] = IF i = 0 THEN <<>> ELSE Next1(list, S, i, f[i - 1])
    <3>1. \A i \in 0..m : Rows(list, S, m, f)[i] = IF i = 0 THEN <<>> ELSE Next1(list, S, i, f[i - 1])
      BY DEF Rows
    <3> QED BY <2>1, <3>1
  <2>3. \A i \in 0..m : g[i] = f[i]
    BY <2>2
  <2>4. \A i \in 0..(m + 1) : i # 0 => i - 1 \in 0..m
    OBVIOUS
  <2>5. \A i \in 0..(m + 1) : i # 0 => g[i - 1] = f[i - 1]
    BY <2>3, <2>4
  <2>6. g = Rows(list, S, m + 1, g)
    <3> HIDE DEF Next1
    <3>1. \A i \in 0..(m + 1) : g[i] = Rows(list, S, m + 1, g)[i]
      BY <2>5 DEF Rows
    <3> QED BY <3>1 DEF Rows
  <2> QED BY <2>6
<1> HIDE DEF Have
<1>3. Nat \subseteq Have
  BY <1>1, <1>2, Induction
<1> QED BY <1>3 DEF Have

\* What has been picked from the first n entries, and from which of them.
Picks(T, list, S, n, r, p) ==
  /\ r \in Seq(T) /\ p \in [1..Len(r) -> 1..n]
  /\ \A k \in 1..Len(r) : r[k] = list[p[k]] /\ r[k] \in S
  /\ \A k, l \in 1..Len(r) : p[k] = p[l] => k = l
  /\ \A j \in 1..n : list[j] \in S => \E k \in 1..Len(r) : p[k] = j

LEMMA PicksGrow ==
  ASSUME NEW T, NEW list \in Seq(T), NEW S, NEW n \in Nat, n + 1 <= Len(list), NEW r, NEW p,
         Picks(T, list, S, n, r, p)
  PROVE  \E q : Picks(T, list, S, n + 1, Next1(list, S, n + 1, r), q)
<1>1. r \in Seq(T) /\ Len(r) \in Nat /\ DOMAIN r = 1..Len(r) /\ list[n + 1] \in T
  BY DEF Picks
<1>2. CASE list[n + 1] \in S
  <2> DEFINE q == [k \in 1..(Len(r) + 1) |-> IF k = Len(r) + 1 THEN n + 1 ELSE p[k]]
             s == Append(r, list[n + 1])
  <2>1. s \in Seq(T) /\ Len(s) = Len(r) + 1 /\ s[Len(r) + 1] = list[n + 1]
        /\ \A k \in 1..Len(r) : s[k] = r[k]
    BY <1>1
  <2> HIDE DEF s
  <2>2. q \in [1..Len(s) -> 1..(n + 1)]
    BY <1>1, <2>1 DEF Picks
  <2>3. \A k \in 1..Len(s) : s[k] = list[q[k]] /\ s[k] \in S
    BY <1>1, <1>2, <2>1 DEF Picks
  <2>4. \A k, l \in 1..Len(s) : q[k] = q[l] => k = l
    <3>1. \A k \in 1..Len(r) : p[k] \in 1..n /\ q[k] = p[k]
      BY <1>1 DEF Picks
    <3>2. \A k \in 1..Len(s) : k \in 1..Len(r) \/ (k = Len(r) + 1 /\ q[k] = n + 1)
      BY <1>1, <2>1
    <3>3. \A k, l \in 1..Len(r) : p[k] = p[l] => k = l
      BY DEF Picks
    <3> HIDE DEF q
    <3> QED BY <3>1, <3>2, <3>3
  <2>5. \A j \in 1..(n + 1) : list[j] \in S => \E k \in 1..Len(s) : q[k] = j
    <3> SUFFICES ASSUME NEW j \in 1..(n + 1), list[j] \in S PROVE \E k \in 1..Len(s) : q[k] = j
      OBVIOUS
    <3>1. CASE j = n + 1
      <4>1. q[Len(r) + 1] = j
        BY <3>1, <1>1
      <4> QED BY <4>1, <2>1, <1>1
    <3>2. CASE j # n + 1
      <4>1. PICK k \in 1..Len(r) : p[k] = j
        BY <3>2 DEF Picks
      <4>2. q[k] = j /\ k \in 1..Len(s)
        BY <4>1, <1>1, <2>1
      <4> QED BY <4>2
    <3> QED BY <3>1, <3>2
  <2>6. Picks(T, list, S, n + 1, s, q)
    BY <2>1, <2>2, <2>3, <2>4, <2>5 DEF Picks
  <2>7. Next1(list, S, n + 1, r) = s
    BY <1>2 DEF Next1, s
  <2> QED BY <2>6, <2>7
<1>3. CASE list[n + 1] \notin S
  <2>1. \A j \in 1..(n + 1) : list[j] \in S => j \in 1..n
    BY <1>3
  <2>2. p \in [1..Len(r) -> 1..(n + 1)]
    BY <1>1 DEF Picks
  <2>3. Picks(T, list, S, n + 1, r, p)
    BY <2>1, <2>2 DEF Picks
  <2>4. Next1(list, S, n + 1, r) = r
    BY <1>3 DEF Next1
  <2> QED BY <2>3, <2>4
<1> QED BY <1>2, <1>3

LEMMA ThosePicks ==
  ASSUME NEW T, NEW list \in Seq(T), NEW S
  PROVE  \E p : Picks(T, list, S, Len(list), Those(list, S), p)
<1> DEFINE kept == CHOOSE f : f = Rows(list, S, Len(list), f)
<1>1. Len(list) \in Nat
  OBVIOUS
<1>2. kept = Rows(list, S, Len(list), kept)
  BY <1>1, RowsExist
<1>3. Those(list, S) = kept[Len(list)]
  BY DEF Those, Rows, Next1
<1> HIDE DEF kept
<1>4. \A i \in 0..Len(list) : kept[i] = IF i = 0 THEN <<>> ELSE Next1(list, S, i, kept[i - 1])
  <2>1. \A i \in 0..Len(list) :
          Rows(list, S, Len(list), kept)[i] = IF i = 0 THEN <<>> ELSE Next1(list, S, i, kept[i - 1])
    BY DEF Rows
  <2> QED BY <1>2, <2>1
<1> DEFINE Good == {n \in Nat : n <= Len(list) => \E p : Picks(T, list, S, n, kept[n], p)}
<1>5. 0 \in Good
  <2>1. kept[0] = <<>>
    BY <1>1, <1>4
  <2> DEFINE none == [k \in 1..0 |-> 0]
  <2>2. Picks(T, list, S, 0, <<>>, none)
    BY DEF Picks
  <2> QED BY <2>1, <2>2
<1>6. ASSUME NEW n \in Nat, n \in Good PROVE n + 1 \in Good
  <2> SUFFICES ASSUME n + 1 <= Len(list) PROVE \E p : Picks(T, list, S, n + 1, kept[n + 1], p)
    OBVIOUS
  <2>1. PICK p : Picks(T, list, S, n, kept[n], p)
    BY <1>1, <1>6
  <2>2. kept[n + 1] = Next1(list, S, n + 1, kept[n])
    <3>1. n + 1 \in 0..Len(list) /\ n + 1 # 0 /\ (n + 1) - 1 = n
      BY <1>1
    <3> QED BY <3>1, <1>4
  <2> QED BY <2>1, <2>2, PicksGrow
<1> HIDE DEF Good
<1>7. Nat \subseteq Good
  BY <1>5, <1>6, Induction
<1>8. \E p : Picks(T, list, S, Len(list), kept[Len(list)], p)
  BY <1>1, <1>7 DEF Good
<1> QED BY <1>3, <1>8

\* The entries of the result are those of the list that are in the set.
LEMMA ThoseAre ==
  ASSUME NEW T, NEW list \in Seq(T), NEW S
  PROVE  /\ Those(list, S) \in Seq(T)
         /\ \A k \in DOMAIN Those(list, S) : \E j \in DOMAIN list : Those(list, S)[k] = list[j] /\ list[j] \in S
         /\ \A j \in DOMAIN list : list[j] \in S => \E k \in DOMAIN Those(list, S) : Those(list, S)[k] = list[j]
<1> DEFINE r == Those(list, S)
<1>1. PICK p : Picks(T, list, S, Len(list), r, p)
  BY ThosePicks
<1> HIDE DEF r
<1>2. r \in Seq(T) /\ DOMAIN r = 1..Len(r) /\ DOMAIN list = 1..Len(list)
  BY <1>1 DEF Picks
<1>3. ASSUME NEW k \in DOMAIN r PROVE \E j \in DOMAIN list : r[k] = list[j] /\ list[j] \in S
  <2>1. p[k] \in 1..Len(list) /\ r[k] = list[p[k]] /\ r[k] \in S
    BY <1>1, <1>2, <1>3 DEF Picks
  <2> QED BY <2>1, <1>2
<1>4. ASSUME NEW j \in DOMAIN list, list[j] \in S PROVE \E k \in DOMAIN r : r[k] = list[j]
  <2>1. PICK k \in 1..Len(r) : p[k] = j
    BY <1>1, <1>2, <1>4 DEF Picks
  <2>2. r[k] = list[j]
    BY <1>1, <2>1 DEF Picks
  <2> QED BY <2>1, <2>2, <1>2
<1> QED BY <1>2, <1>3, <1>4 DEF r

\* No more entries than there were.
LEMMA ThoseNoMore ==
  ASSUME NEW T, NEW list \in Seq(T), NEW S
  PROVE  Len(Those(list, S)) <= Len(list)
<1> DEFINE kept == CHOOSE f : f = Rows(list, S, Len(list), f)
<1>1. Len(list) \in Nat
  OBVIOUS
<1>2. kept = Rows(list, S, Len(list), kept)
  BY <1>1, RowsExist
<1>3. Those(list, S) = kept[Len(list)]
  BY DEF Those, Rows, Next1
<1> HIDE DEF kept
<1>4. \A i \in 0..Len(list) : kept[i] = IF i = 0 THEN <<>> ELSE Next1(list, S, i, kept[i - 1])
  <2>1. \A i \in 0..Len(list) :
          Rows(list, S, Len(list), kept)[i] = IF i = 0 THEN <<>> ELSE Next1(list, S, i, kept[i - 1])
    BY DEF Rows
  <2> QED BY <1>2, <2>1
<1> DEFINE Good == {n \in Nat : n <= Len(list) => kept[n] \in Seq(T) /\ Len(kept[n]) <= n}
<1>5. 0 \in Good
  <2>1. kept[0] = <<>>
    BY <1>1, <1>4
  <2>2. kept[0] \in Seq(T) /\ Len(kept[0]) = 0
    BY <2>1
  <2> QED BY <2>2
<1>6. ASSUME NEW n \in Nat, n \in Good PROVE n + 1 \in Good
  <2> SUFFICES ASSUME n + 1 <= Len(list) PROVE kept[n + 1] \in Seq(T) /\ Len(kept[n + 1]) <= n + 1
    OBVIOUS
  <2>1. kept[n] \in Seq(T) /\ Len(kept[n]) <= n /\ list[n + 1] \in T
    BY <1>1, <1>6
  <2>2. kept[n + 1] = Next1(list, S, n + 1, kept[n])
    <3>1. n + 1 \in 0..Len(list) /\ n + 1 # 0 /\ (n + 1) - 1 = n
      BY <1>1
    <3> QED BY <3>1, <1>4
  <2> QED BY <2>1, <2>2 DEF Next1
<1> HIDE DEF Good
<1>7. Nat \subseteq Good
  BY <1>5, <1>6, Induction
<1> QED BY <1>1, <1>3, <1>7 DEF Good

\* The entries after the one that goes move up.
LEMMA WithoutFacts ==
  ASSUME NEW T, NEW s \in Seq(T), NEW i \in 1..Len(s)
  PROVE  /\ Without(s, i) \in Seq(T) /\ Len(Without(s, i)) = Len(s) - 1
         /\ DOMAIN Without(s, i) = 1..(Len(s) - 1)
         /\ \A k \in 1..(Len(s) - 1) : Without(s, i)[k] = IF k < i THEN s[k] ELSE s[k + 1]
         /\ \A k \in DOMAIN Without(s, i) : \E j \in DOMAIN s : Without(s, i)[k] = s[j]
<1> DEFINE a == SubSeq(s, 1, i - 1)
           b == SubSeq(s, i + 1, Len(s))
<1>1. Len(s) \in Nat /\ DOMAIN s = 1..Len(s) /\ i \in Nat
  OBVIOUS
<1>2. a \in Seq(T) /\ Len(a) = i - 1 /\ \A k \in 1..(i - 1) : a[k] = s[k]
  BY <1>1
<1>3. b \in Seq(T) /\ Len(b) = Len(s) - i /\ \A k \in 1..(Len(s) - i) : b[k] = s[i + k]
  <2>2. \A k \in (i + 1)..Len(s) : s[k] \in T
    BY <1>1
  <2>1. b \in Seq(T) /\ Len(b) = Len(s) - i
    <3>1. b \in Seq(T) /\ Len(b) = IF i + 1 <= Len(s) THEN Len(s) - (i + 1) + 1 ELSE 0
      BY <1>1, <2>2, SubSeqProperties
    <3>2. \A n \in Nat : \A j \in 1..n : (IF j + 1 <= n THEN n - (j + 1) + 1 ELSE 0) = n - j
      OBVIOUS
    <3> HIDE DEF b
    <3> QED BY <1>1, <3>1, <3>2
  <2>3. \A k \in 1..(Len(s) - (i + 1) + 1) : b[k] = s[(i + 1) + k - 1]
    BY <1>1, <2>2, SubSeqProperties
  <2>4. Len(s) - (i + 1) + 1 = Len(s) - i /\ \A k \in Nat : (i + 1) + k - 1 = i + k
    BY <1>1
  <2> HIDE DEF b
  <2> QED BY <1>1, <2>1, <2>3, <2>4
<1> HIDE DEF a, b
<1>4. /\ a \o b \in Seq(T) /\ Len(a \o b) = Len(s) - 1 /\ DOMAIN (a \o b) = 1..(Len(s) - 1)
      /\ \A k \in 1..(Len(s) - 1) : (a \o b)[k] = IF k <= i - 1 THEN a[k] ELSE b[k - (i - 1)]
  <2>0. a \in Seq(T) /\ b \in Seq(T)
    BY <1>2, <1>3
  <2>1. a \o b \in Seq(T) /\ Len(a \o b) = Len(a) + Len(b) /\ DOMAIN (a \o b) = 1..(Len(a) + Len(b))
    BY <2>0
  <2>2. Len(a) + Len(b) = Len(s) - 1
    BY <1>1, <1>2, <1>3
  <2>3. \A k \in 1..Len(a) + Len(b) : (a \o b)[k] = IF k <= Len(a) THEN a[k] ELSE b[k - Len(a)]
    BY <2>0, ConcatProperties
  <2> QED BY <1>2, <2>1, <2>2, <2>3
<1>5. ASSUME NEW k \in 1..(Len(s) - 1) PROVE (a \o b)[k] = IF k < i THEN s[k] ELSE s[k + 1]
  <2>1. CASE k <= i - 1
    <3>1. k \in 1..(i - 1) /\ k \in 1..Len(s)
      BY <1>1, <2>1
    <3>2. (a \o b)[k] = a[k]
      BY <1>4, <2>1
    <3>3. (a \o b)[k] = s[k]
      BY <1>2, <3>1, <3>2
    <3> QED BY <1>1, <2>1, <3>1, <3>3
  <2>2. CASE ~(k <= i - 1)
    <3>1. k - (i - 1) \in 1..(Len(s) - i) /\ i + (k - (i - 1)) = k + 1 /\ k + 1 \in 1..Len(s)
      BY <1>1, <2>2
    <3>2. (a \o b)[k] = b[k - (i - 1)]
      BY <1>4, <2>2
    <3>3. b[k - (i - 1)] = s[i + (k - (i - 1))]
      BY <1>3, <3>1
    <3>4. (a \o b)[k] = s[k + 1]
      BY <3>1, <3>2, <3>3
    <3> QED BY <1>1, <2>2, <3>1, <3>4
  <2> QED BY <2>1, <2>2
<1>6. \A k \in 1..(Len(s) - 1) : \E j \in 1..Len(s) : (a \o b)[k] = s[j]
  <2>1. ASSUME NEW k \in 1..(Len(s) - 1) PROVE \E j \in 1..Len(s) : (a \o b)[k] = s[j]
    <3>1. k \in 1..Len(s) /\ k + 1 \in 1..Len(s)
      BY <1>1
    <3>2. (a \o b)[k] = s[k] \/ (a \o b)[k] = s[k + 1]
      BY <1>5
    <3> QED BY <3>1, <3>2
  <2> QED BY <2>1
<1> QED BY <1>1, <1>4, <1>5, <1>6 DEF Without, a, b
=============================================================================
