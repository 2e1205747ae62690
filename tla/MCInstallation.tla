---------------------------- MODULE MCInstallation ----------------------------
(***************************************************************************)
(* An instance of the parts of the yos command that change what is         *)
(* installed.  Each behaviour exercises one of the parts, which share no   *)
(* state, and leaves the others where they began: the states of the run    *)
(* are the sum of the parts' states, not their product.                    *)
(***************************************************************************)
EXTENDS MergeBaseline, ComponentCommands, UpgradeLock, SelfUpgrade

VARIABLE part  \* the part that this behaviour exercises

\* Three releases; the third takes back what the second changed in one of the two files.
MCVersions == 1..3
CONSTANT Code
MCText == [v \in MCVersions |-> [f \in {SkillMd, Code} |->
             IF f = SkillMd THEN v ELSE IF v = 3 THEN 1 ELSE v]]

\* A backup beside which there is a newer one is read by nothing and waits to be
\* removed: it is one of an unchanged release.
OlderIsPristine == Len(backups) > 1 => \E v \in Versions: Head(backups) = Pristine(v)

\* Once a rollback has had only what a removal left of its backup, no upgrade begins;
\* what a removal leaves is not kept beside a later transaction.
NothingAfterARest ==
  /\ turn[2] = "idle" /\ turn'[2] = "check" => ~spoilt
  /\ \A d \in older': d.whole

MCInit ==
  /\ part \in {"baseline", "component", "lock", "core"}
  /\ IF part = "baseline" THEN Init
     ELSE /\ manifest = None /\ originals = None /\ tmp = None /\ staged = None
          /\ backup = None /\ call = "none" /\ pc = "idle"
          /\ target = CHOOSE g \in Generations: TRUE
  /\ ComponentInit /\ LockInit /\ SelfInit

MCNext ==
  /\ UNCHANGED part
  /\ \/ part = "baseline" /\ Next /\ UNCHANGED <<componentVars, lockVars, selfVars>>
     \/ part = "component" /\ ComponentNext /\ OlderIsPristine' /\ UNCHANGED <<vars, lockVars, selfVars>>
     \/ part = "lock" /\ LockNext /\ UNCHANGED <<vars, componentVars, selfVars>>
     \/ part = "core" /\ SelfNext /\ NothingAfterARest /\ UNCHANGED <<vars, componentVars, lockVars>>

MCSpec == MCInit /\ [][MCNext]_<<part, vars, componentVars, lockVars, selfVars>>
=============================================================================
