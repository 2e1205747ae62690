----------------------------- MODULE UpgradeLock -----------------------------
(***************************************************************************)
(* cli/lib/lock.js: the lock file that keeps two upgrades of one component *)
(* apart.  Looking, reading, removing, creating and filling the file are   *)
(* separate filesystem calls, so the commands of several processes         *)
(* interleave between them.  A lock is stale when its owner is dead or     *)
(* when it is older than ten minutes, its owner alive or not; what cannot  *)
(* be read is taken for corrupted and removed as well.                     *)
(***************************************************************************)
CONSTANTS
  Commands,      \* processes that upgrade the component
  NoLock         \* no lock file

ASSUME LockAssumption == NoLock \notin Commands

VARIABLES
  lockFile,      \* whose lock file there is, or NoLock
  filled,        \* it has its content
  aged,          \* it is older than LOCK_TIMEOUT_MS
  alive,         \* the processes that run
  at,            \* where each process is in acquireLock or releaseLock
  disturbed      \* some lock has gone stale, or was read half written or just gone

lockVars == <<lockFile, filled, aged, alive, at, disturbed>>

LockInit ==
  /\ lockFile = NoLock /\ filled = FALSE /\ aged = FALSE /\ disturbed = FALSE
  /\ alive = Commands
  /\ at = [p \in Commands |-> "idle"]

Moves(p, from, to) == p \in alive /\ at[p] = from /\ at' = [at EXCEPT ![p] = to]

Unlinks == lockFile' = NoLock /\ filled' = FALSE /\ aged' = FALSE

-----------------------------------------------------------------------------
(* acquireLock *)

LookForLock(p) ==
  /\ Moves(p, "idle", IF lockFile = NoLock THEN "create" ELSE "read")
  /\ UNCHANGED <<lockFile, filled, aged, alive, disturbed>>

\* The file may be gone by now, or another's that has no content yet: either is an
\* error, which leads to the removal of what is there.
Unreadable == lockFile = NoLock \/ ~filled
Stale == aged \/ lockFile \notin alive

ReadLock(p) ==
  /\ Moves(p, "read", IF Unreadable \/ Stale THEN "remove" ELSE "refused")
  /\ disturbed' = (disturbed \/ Unreadable)
  /\ UNCHANGED <<lockFile, filled, aged, alive>>

\* unlinkSync, of whichever lock file is there by now.
RemoveStale(p) == Moves(p, "remove", "create") /\ Unlinks /\ UNCHANGED <<alive, disturbed>>

\* Mutant: the lock file is written over whatever is there.
CreateOver(p) ==
  /\ Moves(p, "create", "fill")
  /\ lockFile' = p /\ filled' = FALSE /\ aged' = FALSE
  /\ UNCHANGED <<alive, disturbed>>

\* writeFileSync with flag wx creates the file, unless there is one, and then fills it.
CreateLock(p) ==
  /\ \/ /\ lockFile = NoLock /\ Moves(p, "create", "fill")
        /\ lockFile' = p /\ filled' = FALSE /\ aged' = FALSE
     \/ /\ lockFile # NoLock /\ Moves(p, "create", "refused")
        /\ UNCHANGED <<lockFile, filled, aged>>
  /\ UNCHANGED <<alive, disturbed>>

FillLock(p) ==
  /\ Moves(p, "fill", "holds")
  /\ filled' = (filled \/ lockFile = p)
  /\ UNCHANGED <<lockFile, aged, alive, disturbed>>

-----------------------------------------------------------------------------
(* releaseLock, when the upgrade has ended *)

LookForOwn(p) ==
  /\ Moves(p, "holds", IF lockFile = NoLock THEN "refused" ELSE "check")
  /\ UNCHANGED <<lockFile, filled, aged, alive, disturbed>>

ReadOwn(p) ==
  /\ Moves(p, "check", IF lockFile = p /\ filled THEN "release" ELSE "refused")
  /\ UNCHANGED <<lockFile, filled, aged, alive, disturbed>>

Release(p) == Moves(p, "release", "idle") /\ Unlinks /\ UNCHANGED <<alive, disturbed>>

-----------------------------------------------------------------------------
(* Around the commands *)

Gives(p) == Moves(p, "refused", "idle") /\ UNCHANGED <<lockFile, filled, aged, alive, disturbed>>

\* A process that is killed, and the next command the user runs in its place.
LockOwnerDies(p) ==
  /\ p \in alive
  /\ alive' = alive \ {p}
  /\ disturbed' = (disturbed \/ lockFile = p)
  /\ UNCHANGED <<lockFile, filled, aged, at>>

Relaunch(p) ==
  /\ p \notin alive /\ lockFile # p
  /\ alive' = alive \cup {p}
  /\ at' = [at EXCEPT ![p] = "idle"]
  /\ UNCHANGED <<lockFile, filled, aged, disturbed>>

TenMinutes ==
  /\ lockFile # NoLock /\ ~aged
  /\ aged' = TRUE /\ disturbed' = TRUE
  /\ UNCHANGED <<lockFile, filled, alive, at>>

LockNext ==
  \/ \E p \in Commands: LookForLock(p) \/ ReadLock(p) \/ RemoveStale(p) \/ CreateLock(p)
       \/ FillLock(p) \/ LookForOwn(p) \/ ReadOwn(p) \/ Release(p) \/ Gives(p)
       \/ LockOwnerDies(p) \/ Relaunch(p)
  \/ TenMinutes

LockSpec == LockInit /\ [][LockNext]_lockVars

-----------------------------------------------------------------------------
(* Properties *)

Upgrading == {p \in alive: at[p] \in {"fill", "holds", "check", "release"}}

\* Two commands upgrade one component at once only after some lock has gone stale,
\* or was read while its owner created or released it; until then the exclusive
\* creation of the file keeps them apart, whatever the order of all other calls.
OneUpgradeAtATime == ~disturbed => \A p, q \in Upgrading: p = q
=============================================================================
