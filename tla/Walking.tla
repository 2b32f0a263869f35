------------------------------ MODULE Walking ------------------------------
(***************************************************************************)
(* What a walk of the backed-up folders lists, and what is copied back out *)
(* of a snapshot (walk.rs, engine/folder.rs).                              *)
(*                                                                         *)
(* Three things walk: the offline delta and a snapshot's listing, one      *)
(* entry after another while the person goes on using the disk, the second *)
(* a copy taken as the subvolume it is of; and the wizard's estimate,      *)
(* which the person may call off.  A restore from a snapshot walks what it *)
(* was asked for again, with the rules there are by then, and copies it.   *)
(*                                                                         *)
(* A rule is the set of entries it matches; Patterns says which those are. *)
(***************************************************************************)
EXTENDS Naturals, Sequences, FiniteSets, SequencesExt

CONSTANTS
  Entry, Above,    \* a tree: each entry, and those it is in, itself included
  Folder,          \* the entries that are folders
  Device,          \* the filesystem each is on
  Sources,         \* what may be backed up: sequences of entries
  Own,             \* the spool and the snapshots, which are never walked
  Rules,           \* what may be excluded: sets of entries
  Removals,        \* bound: entries that go while something is walked
  Circumstances    \* "settings": the exclusions change before a restore;
                   \* "source": a backed-up folder itself is excluded

VARIABLES
  disk, copy,             \* the entries that are there; those of a snapshot
  sources, excluded,      \* the settings
  purpose, step,          \* "delta", "full", "estimate", "restore"
  todo, stack, listing,   \* sources, folders and entries still to be walked
  items, unreadable,
  shown,                  \* what the catalogue lists of the snapshot
  asked, brought          \* of a restore
tree == <<disk, copy>>
settings == <<sources, excluded>>
walk == <<todo, stack, listing, items, unreadable>>
restore == <<shown, asked, brought>>
vars == <<tree, settings, purpose, step, walk, restore>>

IsWithin(e, places) == Above[e] \cap places # {}
Below(e, there) == {x \in there \ {e} : Above[x] = Above[e] \cup {x}}

Purposes == {"delta", "full", "estimate", "restore"}
TypeOK ==
  /\ disk \subseteq Entry /\ copy \subseteq Entry
  /\ sources \in Sources /\ excluded \in Rules
  /\ purpose \in Purposes /\ step \in {"walking", "copying", "walked", "failed"}
  /\ todo \in Seq(Entry) /\ stack \in Seq(Entry) /\ listing \subseteq Entry
  /\ items \in Seq(Entry) /\ unreadable \in Nat
  /\ shown \subseteq Entry /\ asked \subseteq Entry /\ brought \subseteq Entry

\* A snapshot is of one filesystem: what is mounted in it is an empty folder there.
Copied == {e \in Entry : \A a, b \in Above[e] \ {e} : Device[a] = Device[b]}

Walks(what, from) ==
  /\ purpose = what /\ todo = from
  /\ stack = <<>> /\ listing = {} /\ items = <<>> /\ unreadable = 0 /\ step = "walking"
Init ==
  /\ disk = Entry /\ copy = Copied
  /\ sources \in Sources /\ excluded \in Rules
  /\ ToSet(sources) \cap excluded # {} => "source" \in Circumstances
  /\ \E what \in Purposes \ {"restore"} : Walks(what, sources)
  /\ shown = {} /\ asked = {} /\ brought = {}

\* A snapshot does not change; a restore out of one walks it too.
OfCopy == purpose \in {"full", "restore"}
There == IF OfCopy THEN copy ELSE disk
IncludeDirs == purpose \in {"full", "restore"}

\* Where the rules apply: a copy kept in Backtrack's own folder is walked as the
\* subvolume it is of.
KeptPlace(e) == IF OfCopy THEN CHOOSE o \in Own : TRUE ELSE e
RealPlace(e) == e
LeftOut(e) == IsWithin(RealPlace(e), Own) \/ e \in excluded
-----------------------------------------------------------------------------
Walking == step = "walking"
\* Links count for nothing in an estimate, and neither do folders.
Found(e) == IF purpose = "estimate" /\ e \in Folder THEN items ELSE Append(items, e)

\* visit: the next source, itself listed where folders are.  What a restore was
\* asked for has to be there.
NextSource ==
  /\ Walking /\ stack = <<>> /\ listing = {} /\ todo # <<>>
  /\ LET s == Head(todo)
     IN IF s \notin There
        THEN /\ unreadable' = unreadable + 1 /\ UNCHANGED <<items, stack>>
             /\ step' = IF purpose = "restore" THEN "failed" ELSE step
        ELSE /\ items' = IF IncludeDirs /\ ~LeftOut(s) THEN Append(items, s) ELSE items
             /\ stack' = IF IncludeDirs /\ s \notin Folder THEN <<>> ELSE <<s>>
             /\ UNCHANGED <<unreadable, step>>
  /\ todo' = Tail(todo)
  /\ UNCHANGED <<tree, settings, purpose, listing, restore>>

\* The folder last put on the stack is read, if it is there still and is one.
Opens ==
  /\ Walking /\ listing = {} /\ stack # <<>>
  /\ LET dir == Last(stack)
     IN IF dir \in There \cap Folder
        THEN listing' = Below(dir, There) /\ UNCHANGED unreadable
        ELSE unreadable' = unreadable + 1 /\ UNCHANGED listing
  /\ stack' = Front(stack)
  /\ UNCHANGED <<tree, settings, purpose, step, todo, items, restore>>

\* The filesystem the walk of a source began on.
Started(e) == {Device[s] : s \in Above[e] \cap ToSet(sources)}
OtherDevice(e) == ~OfCopy /\ Device[e] \notin Started(e)

\* walk_from, of one entry of what was read; a folder is descended.
Looks(e) ==
  /\ Walking /\ e \in listing
  /\ listing' = listing \ {e}
  /\ IF IsWithin(RealPlace(e), Own) THEN UNCHANGED <<unreadable, stack, items>>
     ELSE IF e \notin There THEN unreadable' = unreadable + 1 /\ UNCHANGED <<stack, items>>
     ELSE IF OtherDevice(e) \/ LeftOut(e) THEN UNCHANGED <<unreadable, stack, items>>
     ELSE /\ stack' = IF e \in Folder THEN Append(stack, e) ELSE stack
          /\ items' = IF e \in Folder /\ ~IncludeDirs THEN items ELSE Found(e)
          /\ UNCHANGED unreadable
  /\ UNCHANGED <<tree, settings, purpose, step, todo, restore>>

\* measure: called off at the next entry.
CallsOff ==
  /\ Walking /\ purpose = "estimate" /\ listing # {}
  /\ step' = "failed"
  /\ UNCHANGED <<tree, settings, purpose, walk, restore>>

\* The walk is over: a snapshot's is catalogued, a restore's is copied.
Ends ==
  /\ Walking /\ todo = <<>> /\ stack = <<>> /\ listing = {}
  /\ step' = IF purpose = "restore" THEN "copying" ELSE "walked"
  /\ shown' = IF purpose = "full" THEN ToSet(items) ELSE shown
  /\ UNCHANGED <<tree, settings, purpose, walk, asked, brought>>

-----------------------------------------------------------------------------
\* The person asks for things the catalogue shows (locate finds each in the copy).
Asks(paths) ==
  /\ step = "walked" /\ purpose = "full"
  /\ paths # {} /\ paths \subseteq shown
  /\ asked' = paths /\ purpose' = "restore" /\ step' = "walking"
  /\ todo' = SetToSeq(paths) /\ items' = <<>> /\ unreadable' = 0
  /\ excluded' \in IF "settings" \in Circumstances THEN Rules ELSE {excluded}
  /\ UNCHANGED <<tree, sources, stack, listing, shown, brought>>

\* copy_into, of one item; one that is gone fails the restore.
Copies ==
  /\ step = "copying" /\ items # <<>>
  /\ IF Head(items) \in copy
     THEN brought' = brought \cup {Head(items)} /\ items' = Tail(items) /\ UNCHANGED step
     ELSE step' = "failed" /\ UNCHANGED <<brought, items>>
  /\ UNCHANGED <<tree, settings, purpose, todo, stack, listing, unreadable, shown, asked>>
Brings ==
  /\ step = "copying" /\ items = <<>> /\ step' = "walked"
  /\ UNCHANGED <<tree, settings, purpose, walk, restore>>

\* The person takes something away; the snapshot is deleted, by Snapper or for its age.
Removed(e) ==
  /\ Cardinality(Entry \ disk) < Removals /\ e \in disk
  /\ disk' = {x \in disk : e \notin Above[x]}
  /\ UNCHANGED <<copy, settings, purpose, step, walk, restore>>
Expires ==
  /\ purpose \in {"full", "restore"} /\ copy # {}
  /\ step = "walking" => purpose = "restore"
  /\ copy' = {}
  /\ UNCHANGED <<disk, settings, purpose, step, walk, restore>>

Next ==
  \/ NextSource \/ Opens \/ CallsOff \/ Ends \/ Copies \/ Brings \/ Expires
  \/ \E e \in Entry : Looks(e) \/ Removed(e)
  \/ \E paths \in SUBSET shown : Asks(paths)
Spec == Init /\ [][Next]_vars

-----------------------------------------------------------------------------
\* In a backup: below a source, on its filesystem, and neither it nor a folder on
\* the way to it excluded or Backtrack's own.
InBackup(e, from, rules) == \E s \in from \cap Above[e] :
  \A a \in Above[e] \ (Above[s] \ {s}) :
    a \notin rules /\ ~IsWithin(a, Own) /\ (OfCopy \/ Device[a] = Device[s])

\* A walk lists what a backup of the folders would hold: nothing else, everything
\* that was there all the time, and once (walk.rs, offline_walk.rs).
WalkIsTheBackup == step = "walked" /\ purpose # "restore" =>
  LET Wanted(there) == {e \in there : InBackup(e, ToSet(sources), excluded)
                                      /\ (~IncludeDirs => e \notin Folder)}
  IN /\ ToSet(items) \subseteq Wanted(Entry) /\ Wanted(There) \subseteq ToSet(items)
     /\ Len(items) = Cardinality(ToSet(items))

\* A restore from a snapshot that succeeds brings back what the catalogue shows of
\* what was asked for (folder.rs:10-14).
BringsWhatIsShown == step = "walked" /\ purpose = "restore" =>
  brought = {e \in shown : IsWithin(e, asked)}

WalkSafety == TypeOK /\ WalkIsTheBackup /\ BringsWhatIsShown
=============================================================================
