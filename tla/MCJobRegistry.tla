--------------------------- MODULE MCJobRegistry ---------------------------
(* JobRegistry with small constants for TLC.  The access mode, not the     *)
(* kind, decides what a job may run beside, so one kind per mode is        *)
(* submitted; RestoreEverything is the only kind that can be paused.       *)
EXTENDS JobRegistry

Writer == <<"Backup", "Exclusive">>
Reader == <<"Index", "Shared">>
LocalWork == <<"Restore", "Local">>
Recovery == <<"RestoreEverything", "Shared">>

WriterAndRecovery == {Writer, Recovery}
EveryKindOfWork == {Writer, Reader, LocalWork, Recovery}

AllCalls == {"submit", "submit_paused", "cancel", "pause", "resume"}
PauseResume == {"submit", "submit_paused", "pause", "resume"}

(* Clients are interchangeable. *)
ClientSymmetry == Permutations(Client)
=============================================================================
