------------------------------ MODULE MCDaemon ------------------------------
(***************************************************************************)
(* The registry's methods, the processes of the daemon, and a Borg with    *)
(* its readers, on small instances.  They share no state, so a behaviour   *)
(* is about one of the three.                                              *)
(***************************************************************************)
EXTENDS MCJobRegistry, Daemon

VARIABLE about                 \* which of the three the behaviour is about

daemons == <<proc, owner, staging, background, unit, byHand, applying, window, started, events>>
borgs == <<use, child, out, err, reader, heard, stream, grace, listener, got, outcome,
           catalogued>>
\* A Borg that a behaviour is not about has ended.
DaemonInit ==
  /\ about \in {"registry", "processes", "borg"}
  /\ Init /\ D!Init
  /\ IF about = "borg" THEN B!Init ELSE B!Over
DaemonNext ==
  /\ UNCHANGED about
  /\ \/ about = "registry" /\ Next /\ UNCHANGED <<daemons, borgs>>
     \/ about = "processes" /\ D!Next /\ UNCHANGED <<vars, borgs>>
     \/ about = "borg" /\ B!Next /\ UNCHANGED <<vars, daemons>>
\* What is fair of the one has nothing to do where it is about another.
DaemonSpec ==
  /\ DaemonInit /\ [][DaemonNext]_<<vars, daemons, borgs, about>>
  /\ Fairness /\ D!Fairness /\ B!Fairness

\* A daemon that fails comes back (supervise.rs:39, backtrackd.service:17), and
\* neither Borg nor those that listen to it wait for ever (invoke.rs).
ComesBack == D!ComesBack /\ B!EndsAreHeard
=============================================================================
