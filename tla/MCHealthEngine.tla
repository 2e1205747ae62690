--------------------------- MODULE MCHealthEngine ---------------------------
(***************************************************************************)
(* Instances of HealthEngine for TLC.                                      *)
(***************************************************************************)
EXTENDS HealthEngine

CONSTANTS t1, r1, c1

AllPanes == {"clean", "limit", "auth", "api"}
AllLogins == {"success", "failure", "uncertain"}
Good == {[answers |-> TRUE, c4 |-> TRUE, pane |-> "clean", login |-> "success"]}
AnyLogin == {[answers |-> TRUE, c4 |-> TRUE, pane |-> "clean", login |-> l] : l \in AllLogins}
=============================================================================
