--------------------------- MODULE AtomicBaseline ---------------------------
(***************************************************************************)
(* What saving a merge baseline promises (cli/lib/manifest.js, the comment *)
(* of saveMergeBaseline): manifest and originals change together and at    *)
(* one instant, and a call that throws has not changed them, while a call  *)
(* that returns has.  A call may also be cut short by a crash, before or   *)
(* after the change.                                                       *)
(***************************************************************************)
CONSTANT Generations   \* the versions a component may be upgraded to

VARIABLES
  baseline,   \* [manifest, originals]: the pair a merge would work with
  save,       \* "closed", "open", "committed", "returned" or "thrown"
  target      \* the generation the open call is to save

vars == <<baseline, save, target>>

Init ==
  /\ save = "closed"
  /\ target \in Generations

\* A caller asks for a generation to be saved.
Open(g) ==
  /\ save = "closed"
  /\ save' = "open"
  /\ target' = g
  /\ UNCHANGED baseline

\* The only step that changes the baseline, and it changes both halves.
Commit ==
  /\ save = "open"
  /\ save' = "committed"
  /\ baseline' = [manifest |-> target, originals |-> target]
  /\ UNCHANGED target

Return ==
  /\ save = "committed"
  /\ save' = "returned"
  /\ UNCHANGED <<baseline, target>>

Throw ==
  /\ save = "open"
  /\ save' = "thrown"
  /\ UNCHANGED <<baseline, target>>

\* The caller has its answer, or the process died.
Close ==
  /\ save # "closed"
  /\ save' = "closed"
  /\ UNCHANGED <<baseline, target>>

Next == (\E g \in Generations: Open(g)) \/ Commit \/ Return \/ Throw \/ Close

Spec == Init /\ [][Next]_vars
=============================================================================
