--------------------------- MODULE MCCataloguing ---------------------------
(***************************************************************************)
(* Cataloguing on small instances.  The rules treat each path on its own,  *)
(* so one path shows them all, except where a listing that does not        *)
(* mention a path (a delta, a scoped one) must exist because of another.   *)
(***************************************************************************)
EXTENDS Cataloguing, SpoolCap, TLC

CONSTANTS p, q, x, y, i1, i2

OneContent == {x}

(***************************************************************************)
(* The planner of the spool's limit stands behind the number of archives   *)
(* that OfflinePlans takes: the job plans with sizes that Cataloguing does *)
(* not keep, so every plan for up to three archives of up to two bytes,    *)
(* with every limit below the largest number, is looked at once.           *)
(***************************************************************************)
EveryPlanMeetsTheCap == CapIsMet(2, 3)
EveryPlanMeetsTheCapWhateverTheSizes == CapIsMetWhateverTheSizes(2, 3)

\* The local snapshots stay within the limit the user set, and none is
\* dropped for nothing, whenever an offline backup makes room (plan_cap,
\* offline.rs:69).  With archives of different sizes the limit is not kept.
CapIsKept == JobDoes("Offline", "room") => EveryPlanMeetsTheCap
CapIsKeptAnyway == JobDoes("Offline", "room") => EveryPlanMeetsTheCapWhateverTheSizes

(***************************************************************************)
(* What the jobs do to one another with backups of the destination only,   *)
(* with archives that exist before they are in a row, with backups of this *)
(* computer that wait for the destination, and with a spool that is full,  *)
(* are four instances: a behaviour is of one.                              *)
(***************************************************************************)
VARIABLE about

Ordering == INSTANCE Cataloguing WITH
  Kinds <- {"Backup", "Index", "Snapper"},
  Circumstances <- {"stops", "prunes"}, Newcomers <- 0, SnapperScope <- {p}
Adopting == INSTANCE Cataloguing WITH
  Kinds <- {"Backup", "Index", "Snapper"},
  Circumstances <- {"prunes"}, Newcomers <- 1, SnapperScope <- {p}
Full == INSTANCE Cataloguing WITH
  Kinds <- {"Index", "Offline", "Snapshot"},
  Circumstances <- {"spool full", "listing fails", "crash"}, Newcomers <- 1,
  MaxArchives <- 3, SnapperScope <- {}

\* Only where the spool's deltas tell what changed do files need two contents:
\* everywhere else a file is listed, or it is not.
Unchanging ==
  \A listing \in {made[n].listing : n \in DOMAIN made} \cup {job.listing} :
    Range(listing) \subseteq OneContent

StoresInit == Init /\ about \in {"order", "adopting", "waiting", "full"}
StoresNext ==
  /\ UNCHANGED about
  /\ \/ about = "order" /\ Ordering!Next /\ Unchanging'
     \/ about = "adopting" /\ Adopting!Next /\ Unchanging'
     \/ about = "waiting" /\ Next
     \/ about = "full" /\ Full!Next /\ Unchanging'
StoresSpec == StoresInit /\ [][StoresNext]_<<vars, about>>

\* With backups that only this computer has, nothing is marked as discardable too
\* early, and no version is shown that cannot be had (mark_caught_up, pipeline.rs).
WaitingSafety == about = "waiting" => LocalSafety

\* With the spool at its limit, the catalogue knows nothing of what was not read,
\* and what is given up for room is what the limit asks (plan_cap, slot_in).
CapSafety == about = "full" => Full!TypeOK /\ NothingKnownOfUnread /\ CapIsKept
=============================================================================
