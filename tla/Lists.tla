-------------------------------- MODULE Lists --------------------------------
(***************************************************************************)
(* What is done to a JavaScript array.  The filter is a recursive function *)
(* rather than SelectSeq, so that it can be reasoned about.                *)
(***************************************************************************)
EXTENDS Naturals, Sequences

\* The entries of a list that are in a set, in their order.
Those(list, S) ==
  LET kept[i \in 0..Len(list)] ==
        IF i = 0 THEN <<>>
        ELSE IF list[i] \in S THEN Append(kept[i - 1], list[i]) ELSE kept[i - 1]
  IN kept[Len(list)]

\* Without the entry at a place.
Without(s, i) == SubSeq(s, 1, i - 1) \o SubSeq(s, i + 1, Len(s))
=============================================================================
