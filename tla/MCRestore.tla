----------------------------- MODULE MCRestore ------------------------------
(***************************************************************************)
(* Restores on a small instance: two of a backup, one after another; two,  *)
(* of the Trash as well, before the first can expire; or one that is       *)
(* carried out more than once.                                             *)
(***************************************************************************)
EXTENDS Restore

VARIABLE about  \* the restores there are

OfTheTrash == INSTANCE Restore WITH Circumstances <- {"trash"}
Again == INSTANCE Restore WITH Circumstances <- {"trash", "again"}

RestoresInit == Again!Init /\ about \in {"two", "of the Trash", "one"} /\ (about = "two" => Init)
RestoresNext ==
  /\ UNCHANGED about
  /\ \/ about = "two" /\ Next
     \/ about = "of the Trash" /\ OfTheTrash!Next /\ now' < LastSecond
     \/ about = "one" /\ Again!Next /\ \A j \in Jobs \ {Min(Jobs)} : UNCHANGED plans[j]
RestoresSpec == RestoresInit /\ [][RestoresNext]_<<vars, about>>
=============================================================================
