------------------------------- MODULE Daemon -------------------------------
(***************************************************************************)
(* The daemon's registry, beside the processes a daemon is and a Borg with *)
(* its readers.  A process that ends takes its registry with it, and a job *)
(* knows of its Borg what its stream says, so each is on its own.          *)
(***************************************************************************)
EXTENDS JobRegistry

CONSTANTS
  Procs, Supervised, LostIsRestarted, Jobs, Starts, Events,
  Happenings,                  \* of Instances: its Circumstances
  Units, Pipe, Channel,
  Troubles                     \* of BorgStreams: its Circumstances

VARIABLES
  proc, owner, staging, background, unit, byHand, applying, window, started,
  events,                      \* of Instances
  use, child, out, err, reader, heard, stream, grace, listener, got, outcome,
  catalogued                   \* of BorgStreams

D == INSTANCE Instances WITH Circumstances <- Happenings

B == INSTANCE BorgStreams WITH borg <- child, owner <- listener, Circumstances <- Troubles

\* One daemon acts at a time, on what is its own (daemon.rs, background.rs); and
\* what a Borg did is what is made of it, and it is stopped as it wants to be
\* (invoke.rs).
ProcessSafety == D!ProcessSafety /\ B!BorgSafety
=============================================================================
