----------------------------- MODULE SessionStart -----------------------------
(***************************************************************************)
(* How the context of a new session is put together:                       *)
(* skills/activity-monitor session-start-orchestrator, shard-sequencer and *)
(* shard-registry.                                                         *)
(*                                                                         *)
(* At a start, and again at every compaction, the runtime runs one process *)
(* per shard, all at once, and takes what they print in the order in which *)
(* they end.  A shard waits for the flag file its predecessor writes when  *)
(* it ends, but not longer than its rung of the ladder, and takes no flag  *)
(* that is older than its own start, less a tolerance: the flags of the    *)
(* round before have the same names.  A shard can die before its flag, and *)
(* its flag can fail to be written.  The last to come is the start prompt, *)
(* which only a start sends.                                               *)
(***************************************************************************)
EXTENDS Integers, FiniteSets, SequencesExt

CONSTANTS
  CoreShards,    \* CORE_SHARDS in their order
  Declarations,  \* the files of shards.d, by name: name and order, or a fault
  Rounds,        \* bound: one start and the compactions after it
  LastTick,      \* bound on the clock
  Link,          \* T_LINK
  Quick,         \* a shard that takes longer counts as slow
  Skew,          \* processes of a round start within this of each other
  Tolerance,     \* FLAG_FRESH_TOLERANCE
  Gap            \* a session's context fills no faster than this: all rungs of the ladder

COMPONENT_ORDER_MIN == 10

ASSUME SessionAssumption ==
  /\ CoreShards \in Seq(STRING) /\ Declarations \in Seq([name : STRING, order : Int])
  /\ {Rounds, LastTick, Link, Quick, Skew, Tolerance, Gap} \subseteq Nat
  /\ Quick + Skew < Link
  /\ Gap >= (Len(CoreShards) + Len(Declarations)) * Link + Skew + Quick + Tolerance

VARIABLES
  tick,          \* the clock
  round,         \* the round that runs, 0 before the first
  begun,         \* when it began
  shard,         \* the process of each place: how far it is, since when
  flag,          \* per place: when the flag file was written last, 0 if never
  printed,       \* the places of this round in the order their processes ended
  slow           \* some shard was slow

sessionVars == <<tick, round, begun, shard, flag, printed, slow>>

-----------------------------------------------------------------------------
(* buildChain *)

\* validateDeclaration: a reserved name, one that an earlier file has taken and
\* an order below those of the core are refused.
RefusedShard(i) ==
  LET d == Declarations[i]
  IN \/ d.name \in Range(CoreShards)
     \/ d.order < COMPONENT_ORDER_MIN
     \/ \E j \in 1..(i - 1): Declarations[j].name = d.name
                             /\ Declarations[j].order >= COMPONENT_ORDER_MIN
AcceptedShards == {Declarations[i] : i \in {i \in DOMAIN Declarations: ~RefusedShard(i)}}
Chain == CoreShards \o
  [i \in 1..Cardinality(AcceptedShards) |->
     SetToSortSeq(AcceptedShards, LAMBDA a, b: a.order < b.order)[i].name]

\* The start prompt comes after the chain's tail.
Places == 1..(Len(Chain) + 1)
Prompt == Len(Chain) + 1

NotRunning == [at |-> "none", since |-> 0]

SessionInit ==
  /\ tick = 1 /\ round = 0 /\ begun = 0 /\ slow = FALSE
  /\ shard = [p \in Places |-> NotRunning]
  /\ flag = [i \in Places |-> 0]
  /\ printed = <<>>

-----------------------------------------------------------------------------
\* SessionStart fires.  The processes start one after the other; those that die
\* before they print might as well not have been started.  A compaction is no
\* start: it leaves the prompt out.
BeginRound ==
  /\ round < Rounds /\ (round = 0 \/ tick > begun + Gap)
  /\ round' = round + 1 /\ begun' = tick
  /\ \E dead \in SUBSET Places, delay \in [Places -> 0..Skew]:
       shard' = [p \in Places |->
                   IF p \in dead \/ (p = Prompt /\ round > 0) THEN NotRunning
                   ELSE [at |-> "waiting", since |-> tick + delay[p]]]
  /\ printed' = <<>>
  /\ UNCHANGED <<tick, flag, slow>>

\* When the predecessor ended; the first waits for none.
FlagTime(p) == IF p = 1 THEN shard[p].since ELSE flag[p - 1]

\* Mutant: any flag of the predecessor will do.
AnyFlag(p) == FlagTime(p) > 0

\* waitForFlag
Fresh(p) == FlagTime(p) > 0 /\ FlagTime(p) + Tolerance >= shard[p].since

\* ladderDeadlineMs
RungReached(p) == tick >= shard[p].since + (p - 1) * Link
Released(p) ==
  shard[p].at = "waiting" /\ tick >= shard[p].since /\ (Fresh(p) \/ RungReached(p))

EmitShard(p) ==
  /\ Released(p)
  /\ shard' = [shard EXCEPT ![p] = [at |-> "emitting", since |-> tick]]
  /\ UNCHANGED <<tick, round, begun, flag, printed, slow>>

\* Output, or the notice that stands for it, and the flag when the process ends;
\* those that wait poll far more often than that.
EndShard(p) ==
  /\ shard[p].at = "emitting" /\ \A q \in Places: ~Released(q)
  /\ shard' = [shard EXCEPT ![p] = NotRunning]
  /\ printed' = Append(printed, p)
  /\ flag' \in {flag, [flag EXCEPT ![p] = tick]}
  /\ UNCHANGED <<tick, round, begun, slow>>

\* What comes after a slow shard is not followed.
SessionTick ==
  /\ round > 0 /\ tick < LastTick /\ ~slow
  /\ \A p \in Places: ~Released(p)
  /\ tick' = tick + 1
  /\ slow' = \E p \in Places:
               shard[p].at = "emitting" /\ tick + 1 > shard[p].since + Quick
  /\ UNCHANGED <<round, begun, shard, flag, printed>>

SessionNext ==
  \/ BeginRound \/ SessionTick
  \/ \E p \in Places: EmitShard(p) \/ EndShard(p)

SessionSpec == SessionInit /\ [][SessionNext]_sessionVars

-----------------------------------------------------------------------------
(* Properties *)

\* Whichever shards die or fail to leave their flag, those that end do so in
\* the order of the chain, the start prompt last, as long as none is slow: in
\* a compaction as well, whose processes find the flags of the start.
SurvivorsInOrder ==
  ~slow => \A i, j \in DOMAIN printed: i < j => printed[i] < printed[j]
=============================================================================
