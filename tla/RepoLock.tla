------------------------------ MODULE RepoLock ------------------------------
(***************************************************************************)
(* What admission control promises: a readers-writer lock on the Borg      *)
(* repository.  A job takes the lock in the mode of its access and gives   *)
(* it back; two holders are always compatible.  JobRegistry implements     *)
(* this for every job that cannot be paused.                               *)
(***************************************************************************)
EXTENDS Jobs

CONSTANT Job          \* the ids jobs are known by

VARIABLE held         \* who holds the repository: a set of <<job, mode>>

Init == held = {}

(* A job may start only beside holders whose mode is compatible with its. *)
Acquire(j, mode) ==
  /\ \A h \in held : h[1] # j /\ Compatible(h[2], mode)
  /\ held' = held \cup {<<j, mode>>}

Release(h) ==
  /\ h \in held
  /\ held' = held \ {h}

Next ==
  \/ \E j \in Job, mode \in RepoAccess : Acquire(j, mode)
  \/ \E h \in held : Release(h)

Spec == Init /\ [][Next]_held
=============================================================================
