----------------------------- MODULE MCBrowsing -----------------------------
(***************************************************************************)
(* The window, and the queries of the catalogue it is painted from, on     *)
(* small instances.  The window is about when it asks and what becomes of  *)
(* the answer, the queries about what the answer is, so a behaviour is     *)
(* about the one or the other.                                             *)
(***************************************************************************)
EXTENDS Window

\* One file changes and is taken away, the other stays and changes.
TwoStories == {[f \in Folders |-> IF f = "docs" THEN <<1, 2, 0>> ELSE <<1, 1, 2>>]}

(* A home with a folder and a file in it, and one file further down; and   *)
(* what backups of it may find there: a folder's own record changes, a     *)
(* file is another, is gone, takes a folder's place, or is all that was    *)
(* asked for.                                                              *)
Tree == [home |-> "/", docs |-> "home", pic |-> "home", note |-> "docs"]
Contents == {"d1", "d2", "x", "y", "z"}
SizeInBytes == [d1 |-> 0, d2 |-> 0, x |-> 1, y |-> 2, z |-> 4]

Found ==
  {[home |-> "d1", docs |-> "d1", note |-> "x", pic |-> "x"],
   [home |-> "d1", docs |-> "d2", note |-> "y", pic |-> "x"],
   [home |-> "d1", docs |-> "d2", note |-> "x"],
   [home |-> "d2", docs |-> "d1", pic |-> "y"],
   [home |-> "d1", docs |-> "z", pic |-> "x"],
   [note |-> "y"],
   [home |-> "d2", pic |-> "x"]}

VARIABLES
  tables, shown,  \* of Reading, its cat and holds
  about           \* which of the two the behaviour is about

Queries == INSTANCE Reading WITH
  Path <- DOMAIN Tree, Content <- Contents, Parent <- Tree, Root <- "/",
  Dirs <- {"d1", "d2"}, Size <- SizeInBytes, Listings <- Found,
  Archives <- 3, Circumstances <- {}, cat <- tables, holds <- shown

BrowsingInit == Init /\ Queries!Init /\ about \in {"window", "queries"}
BrowsingNext ==
  /\ UNCHANGED about
  /\ \/ about = "window" /\ Next /\ UNCHANGED <<tables, shown>>
     \/ about = "queries" /\ Queries!Next /\ UNCHANGED vars
BrowsingSpec == BrowsingInit /\ [][BrowsingNext]_<<vars, tables, shown, about>>

\* What is answered of the catalogue is so of the archives (reader.rs).
QuerySafety == about = "queries" => Queries!QuerySafety
=============================================================================
