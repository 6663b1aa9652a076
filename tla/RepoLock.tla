------------------------------- MODULE RepoLock -------------------------------
(***************************************************************************)
(* What the comment on type Lock (restic/lock.go) promises the users of a  *)
(* repository: "There may be many different non-exclusive locks, but at    *)
(* most one exclusive lock, which can only be acquired while no            *)
(* non-exclusive lock is held."  Module Lock implements it.                *)
(***************************************************************************)

CONSTANT Proc           \* the processes that use the repository

VARIABLE mode           \* the lock each process holds

Mode == {"none", "shared", "exclusive"}

Init == mode = [p \in Proc |-> "none"]

\* A process may take a lock unless it conflicts with one that is held.
Acquire(p) ==
  /\ mode[p] = "none"
  /\ \/ /\ \A q \in Proc : mode[q] # "exclusive"
        /\ mode' = [mode EXCEPT ![p] = "shared"]
     \/ /\ \A q \in Proc : mode[q] = "none"
        /\ mode' = [mode EXCEPT ![p] = "exclusive"]

\* Unlocking, a crash, and the removal of a stale lock all end a hold.
Release(p) ==
  /\ mode[p] # "none"
  /\ mode' = [mode EXCEPT ![p] = "none"]

Next == \E p \in Proc : Acquire(p) \/ Release(p)

Spec == Init /\ [][Next]_mode
=============================================================================
