-------------------------------- MODULE Jobs --------------------------------
(***************************************************************************)
(* The job model of the daemon: crates/backtrackd/src/jobs/mod.rs (kinds,  *)
(* states, the transition table) and jobs/guard.rs (admission control for  *)
(* the Borg repository).  Both are pure, so this module has no variables;  *)
(* JobRegistry is the live registry built on it.                           *)
(*                                                                         *)
(* Abstracted: an EngineError is one value (FailedState), because nothing  *)
(* in the registry depends on which error a job failed with.               *)
(***************************************************************************)
EXTENDS Naturals, FiniteSets

(* JobKind: what a job is doing. *)
JobKind == {"Backup", "Offline", "Restore", "RestoreEverything", "Index",
            "Prune", "Compact", "Check", "Snapper"}

RepoAccess == {"Exclusive", "Shared", "Local"}

(* JobKind::access: the split mirrors Borg's own repository locking. *)
AccessOf(kind) ==
  IF kind \in {"Restore", "RestoreEverything", "Index"}
  THEN "Shared"
  ELSE "Exclusive"

(* JobKind::is_pausable: only guided disaster recovery.  (Mutant: a backup *)
(* too, by stopping Borg.)                                                 *)
IsPausable(kind) == kind = "RestoreEverything"

-----------------------------------------------------------------------------
Completed == "Completed"
Cancelled == "Cancelled"
Failed    == "Failed"

(* Done(Completed), Done(Cancelled) and Failed(_) are the terminal states. *)
Terminal == {Completed, Cancelled, Failed}

JobState == {"Queued", "Running", "Paused", "Cancelling"} \cup Terminal

(* JobState::holds_repo: whether the job is counted by the guard.  (Mutant: *)
(* a job being torn down is not.)                                           *)
HoldsRepoRunning(s) == s = "Running"
HoldsRepo(s) == s \in {"Running", "Cancelling"}

(* JobState::can_transition_to, as the set of legal <<from, to>> pairs.     *)
(* (Mutants: a running job cannot fail; a queued job can be queued.)        *)
NoFailing ==
  ({"Queued"} \X {"Running", Cancelled, Failed})
  \cup ({"Running"} \X {"Paused", "Cancelling", Completed, Cancelled})
  \cup ({"Paused"} \X {"Queued", "Cancelling", Cancelled})
  \cup ({"Cancelling"} \X {Completed, Cancelled})

Transitions ==
  ({"Queued"} \X {"Running", Cancelled, Failed})
  \cup ({"Running"} \X ({"Paused", "Cancelling"} \cup Terminal))
  \cup ({"Paused"} \X {"Queued", "Cancelling", Cancelled})
  \cup ({"Cancelling"} \X {Completed, Cancelled})

CanTransition(from, to) == <<from, to>> \in Transitions

-----------------------------------------------------------------------------
(***************************************************************************)
(* RepoGuard::admits over RepoGuard::from_running: `held' is the set of    *)
(* access modes of everything that holds the repository.  The guard counts *)
(* its readers, but admission only asks whether there is one.  (Mutant:    *)
(* readers are let in beside a writer.)                                    *)
(***************************************************************************)
AdmitsReaders(held, access) ==
  CASE access = "Exclusive" -> held \cap {"Exclusive", "Shared"} = {}
    [] access = "Shared"    -> TRUE
    [] access = "Local"     -> TRUE

Admits(held, access) ==
  CASE access = "Exclusive" -> held \cap {"Exclusive", "Shared"} = {}
    [] access = "Shared"    -> "Exclusive" \notin held
    [] access = "Local"     -> TRUE

(* Two access modes the guard lets run side by side. *)
Compatible(a, b) == a = "Local" \/ b = "Local" \/ (a = "Shared" /\ b = "Shared")
=============================================================================
