------------------------------ MODULE MCStores ------------------------------
(***************************************************************************)
(* What the daemon keeps beside the catalogue, on small instances: the     *)
(* passphrases, the extracted previews, and its listing of the desktop's   *)
(* Trash; and how it decides what a backup without Borg holds: a pattern   *)
(* against a path, and a walk.  They share nothing, so a behaviour         *)
(* exercises one of the five.                                              *)
(***************************************************************************)
EXTENDS Passphrases

VARIABLES
  dir, call, made, restarts,   \* of PreviewCache
  home, bin, archives, sources, clock, job, watch, noticed, rescan, listed,
  window, asked, budget,       \* of TrashIndex
  style, pattern, text, t, p, star, verdict,    \* of Patterns
  disk, copy, chosen, excluded, purpose, step, todo, stack, listing, items,
  unreadable, shown, wanted, brought,           \* of Walking
  about                        \* which of them the behaviour is about

ViewFiles == {"a", "b", "d"}
ViewSizes == [a |-> 1, b |-> 1, d |-> 2]
Previews == INSTANCE PreviewCache WITH
  Callers <- {1, 2}, Files <- ViewFiles, Size <- ViewSizes, Capacity <- 2,
  Calls <- 3, Restarts <- 1, Circumstances <- {}

Trash == INSTANCE TrashIndex WITH
  Events <- 2, Backups <- 1, Circumstances <- {},
  disk <- home, events <- noticed, left <- budget

Matching == INSTANCE Patterns WITH
  Letters <- {"a", "b"}, MaxPieces <- 3, MaxText <- 4, Circumstances <- {}

\* A home with a folder in it, a disk mounted there, and Backtrack's own.
Home ==
  [home |-> {"home"}, docs |-> {"home", "docs"}, note |-> {"home", "docs", "note"},
   junk |-> {"home", "docs", "junk"}, far |-> {"home", "far"}, deep |-> {"home", "far", "deep"},
   spool |-> {"home", "spool"}, part |-> {"home", "spool", "part"}]
Walked == INSTANCE Walking WITH
  Entry <- DOMAIN Home, Above <- Home, Folder <- {"home", "docs", "far", "spool"},
  Device <- [e \in DOMAIN Home |-> IF e \in {"far", "deep"} THEN 2 ELSE 1],
  Sources <- {<<"home">>, <<"docs">>, <<"far", "docs">>}, Own <- {"spool"},
  Rules <- {{}, {"junk"}, {"docs"}}, Removals <- 2, Circumstances <- {},
  sources <- chosen, asked <- wanted

matching == <<style, pattern, text, t, p, star, verdict>>
walked == <<disk, copy, chosen, excluded, purpose, step, todo, stack, listing, items,
            unreadable, shown, wanted, brought>>
previews == <<dir, call, made, restarts>>
trash == <<home, bin, archives, sources, clock, job, watch, noticed, rescan, listed,
           window, asked, budget>>
Parts == {"secrets", "previews", "trash", "patterns", "walks"}
\* What a behaviour is not about begins in one way only.
StoresInit ==
  /\ about \in Parts
  /\ Init /\ (about # "secrets" => repoKey = [r \in Repos |-> None])
  /\ Previews!Init
  /\ Trash!Init /\ (about # "trash" => archives = <<>>)
  /\ IF about = "patterns" THEN Matching!Init
     ELSE /\ style = "re" /\ pattern = <<"a">> /\ text = <<"a">>
          /\ t = 0 /\ p = 0 /\ star = <<0, 0>> /\ verdict = "matching"
  /\ Walked!Init
  /\ about # "walks" => chosen = <<"home">> /\ excluded = {} /\ purpose = "delta"
StoresNext ==
  /\ UNCHANGED about
  /\ \/ about = "secrets" /\ Next /\ UNCHANGED <<previews, trash, matching, walked>>
     \/ about = "previews" /\ Previews!Next /\ UNCHANGED <<vars, trash, matching, walked>>
     \/ about = "trash" /\ Trash!Next /\ UNCHANGED <<vars, previews, matching, walked>>
     \/ about = "patterns" /\ Matching!Next /\ UNCHANGED <<vars, previews, trash, walked>>
     \/ about = "walks" /\ Walked!Next /\ UNCHANGED <<vars, previews, trash, matching>>
StoresSpec ==
  StoresInit /\ [][StoresNext]_<<vars, previews, trash, matching, walked, about>>

\* A preview handed over is whole, and the cache keeps its size (preview.rs).
PreviewSafety == Previews!PreviewSafety

\* The Trash is listed as it is and restored as shown (trash.rs, plan.rs).
TrashSafety == about = "trash" => Trash!TrashSafety

\* What the daemon leaves out by itself is what the pattern says, and a walk lists,
\* and a restore from a snapshot brings back, what a backup holds (pattern.rs, walk.rs).
SelectionSafety ==
  /\ about = "patterns" => Matching!PatternSafety
  /\ about = "walks" => Walked!WalkSafety
=============================================================================
