----------------------------- MODULE TrashIndex -----------------------------
(***************************************************************************)
(* What is in the desktop's Trash and in no backup: how the daemon keeps a *)
(* listing of it (backtrackd/src/trash.rs, backtrack-core/src/trash.rs),   *)
(* how the window makes places in its timeline of it                       *)
(* (backtrack-gtk/src/model/trash.rs, ui/files.rs), and what a restore     *)
(* from such a place brings back (service/mod.rs, restore/plan.rs).        *)
(*                                                                         *)
(* The files are one at the top and one in a folder, of the same name, so  *)
(* that a name in the Trash says nothing of where a thing was.  A file's   *)
(* bytes are the number of the writing that made them, and a folder is 0.  *)
(* What goes to the Trash and what is backed up have seconds of their own. *)
(***************************************************************************)
EXTENDS Integers, Sequences, FiniteSets, SequencesExt, FiniteSetsExt, Functions

CONSTANTS
  Events,       \* bound: what the person does to files, the Trash and the settings
  Backups,      \* bound: backups and prunes
  Circumstances \* which of these may happen: see Possible

Possible ==
  {"unwatched", \* something goes to the Trash between the first look and the watch
   "inside",    \* something is taken out of a folder in the Trash
   "rebuild",   \* the catalogue is cleared, and the destination goes before the job
   "overlap",   \* one gap has two things in the Trash of one place, or within another
   "reused",    \* a name in the Trash is used again by one who knew it as another's
   "during"}    \* a backup that takes its time sees what changed since it began

VARIABLES
  disk,     \* the person's files
  bin,      \* what is in the Trash
  archives, \* the catalogue, oldest first
  sources,  \* which of the two places are backed up
  clock,    \* the second of the last backup or deletion
  job,      \* the job under way, with what it has still to do
  watch,    \* the loop that keeps the listing
  events,   \* whether inotify has something for it
  rescan,   \* TrashState::rescan
  listed,   \* TrashState::entries
  window,   \* what the window knows, and has heard of
  asked,    \* the restore the person started, and what came of it
  left      \* of Events and Backups

vars == <<disk, bin, archives, sources, clock, job, watch, events, rescan, listed, window,
          asked, left>>

-----------------------------------------------------------------------------
\* Trees: what is at each path.

Paths == {"top", "dir", "in"}
Files == {"top", "in"}
Folder == 0
Within(p, q) == p = q \/ (p = "in" /\ q = "dir")
At(tree, p) == Restrict(tree, {q \in DOMAIN tree : Within(q, p)})
Without(tree, p) == Restrict(tree, {q \in DOMAIN tree : ~Within(q, p)})
None == Restrict([p \in Paths |-> Folder], {})
Trees == UNION {[S -> 0 .. Events + 2] : S \in SUBSET Paths}
InSources(p, places) == \E s \in places : Within(p, s)
Base(p) == IF p = "dir" THEN "folder" ELSE "file"

\* A trashed thing: `holds' is a file's bytes, or those of the file in a folder,
\* 0 when there is none.  `there' is whether it was moved after its .trashinfo.
Item == [path: Paths, name: {"folder", "file"} \X Nat, at: Nat, there: BOOLEAN, holds: Nat]

\* An entry of the listing, which has no more of a folder than that it is one.
Listed == [path: Paths, name: {"folder", "file"} \X Nat, at: Nat, holds: Nat, counts: BOOLEAN]

Archive == [ts: Nat, tree: Trees, catalogued: BOOLEAN]
Unasked == [at |-> "nothing", target |-> "top", seen |-> None, archive |-> 0, trashed |-> <<>>,
            took |-> <<>>, from |-> None, calm |-> TRUE, got |-> None]

TypeOK ==
  /\ disk \in Trees /\ bin \subseteq Item /\ archives \in Seq(Archive)
  /\ sources \subseteq {"top", "dir"} /\ clock \in Nat
  /\ job \in {"none", "reading", "ending"}
  /\ watch.at \in {"look", "publish", "wait", "settle"} /\ watch.on \in BOOLEAN
  /\ {events, rescan, window.told, window.stale} \subseteq BOOLEAN
  /\ listed \in Seq(Listed) /\ window.items \in Seq(Listed)
  /\ window.archives \in Seq(Archive)
  /\ asked.at \in {"nothing", "called", "found", "over"} /\ asked.got \in Trees

Init ==
  /\ disk = ("top" :> 1) @@ ("in" :> 2) @@ ("dir" :> Folder) /\ bin = {}
  /\ sources = {"top", "dir"} /\ clock = 1
  /\ archives \in {<<>>, <<[ts |-> 1, tree |-> disk, catalogued |-> TRUE]>>}
  /\ job = "none"
  /\ watch = [at |-> "look", on |-> FALSE, found |-> {}]
  /\ events = FALSE /\ rescan = FALSE /\ listed = <<>>
  /\ window = [told |-> TRUE, stale |-> FALSE, items |-> <<>>, archives |-> archives]
  /\ asked = Unasked
  /\ left = [events |-> Events, backups |-> Backups]

-----------------------------------------------------------------------------
\* Gaps.

\* The backup before a time: counts' `before', and the window's base_for.
BaseFor(backups, at) ==
  Max({s \in DOMAIN backups : backups[s].catalogued /\ backups[s].ts <= at} \cup {0})

\* No two of one gap overlap.
Apart(items, backups) ==
  \A i, j \in items : i # j /\ BaseFor(backups, i.at) = BaseFor(backups, j.at) =>
    ~Within(i.path, j.path) /\ ~Within(j.path, i.path)

Overlaps(items, backups) == "overlap" \in Circumstances \/ Apart(items, backups)
Happens == left.events > 0 /\ left' = [left EXCEPT !.events = @ - 1]

-----------------------------------------------------------------------------
\* The person, and the desktop's Trash.

trashing == {i \in bin : ~i.there}
daemon == <<watch, rescan, listed>>
AtRest == trashing = {} /\ (watch.on \/ watch.at = "look" \/ "unwatched" \in Circumstances)

\* inotify, for what happens directly in `info' and `files'.
Noticed == events' = (events \/ watch.on)

Writes(f) ==
  /\ Happens /\ AtRest
  /\ disk' = (f :> Events - left.events + 3) @@ (IF f = "in" THEN "dir" :> Folder ELSE None) @@ disk
  /\ UNCHANGED <<bin, archives, sources, clock, job, daemon, events, window, asked>>

Taken == {i.name : i \in bin}
Known == {listed[i].name : i \in DOMAIN listed} \cup
         {window.items[i].name : i \in DOMAIN window.items} \cup {i.name : i \in watch.found} \cup
         ToSet(asked.trashed)

\* The .trashinfo is written first, under a name that is free.
WritesInfo(p) ==
  LET name == <<Base(p), Min({n \in 1 .. Cardinality(bin) + 1 : <<Base(p), n>> \notin Taken})>>
      item == [path |-> p, name |-> name, at |-> clock + 1, there |-> FALSE, holds |-> 0]
  IN /\ Happens /\ AtRest
     /\ p \in DOMAIN disk
     /\ "reused" \in Circumstances \/ name \notin Known
     /\ Overlaps(bin \cup {item}, archives) /\ Overlaps(bin \cup {item}, window.archives)
     /\ bin' = bin \cup {item}
     /\ clock' = clock + 1
     /\ asked' = [asked EXCEPT !.calm = FALSE]
     /\ Noticed
     /\ UNCHANGED <<disk, archives, sources, job, daemon, window>>

\* Then what it is about is moved.
Moves(i) ==
  /\ ~i.there
  /\ LET held == At(disk, i.path)
     IN bin' = (bin \ {i}) \cup {[i EXCEPT !.there = TRUE,
                                   !.holds = Max({held[q] : q \in DOMAIN held})]}
  /\ disk' = Without(disk, i.path)
  /\ Noticed
  /\ UNCHANGED <<archives, sources, clock, job, daemon, window, asked, left>>

\* Deleted for good, or put back by the file manager; or no more than what is
\* inside a folder, which is a change in neither of the watched folders.
Empties(i, whole) ==
  /\ Happens /\ AtRest /\ i.there
  /\ whole \/ ("inside" \in Circumstances /\ i.path = "dir" /\ i.holds # 0)
  /\ bin' = (bin \ {i}) \cup (IF whole THEN {} ELSE {[i EXCEPT !.holds = 0]})
  /\ asked' = [asked EXCEPT !.calm = FALSE]
  /\ IF whole THEN Noticed ELSE UNCHANGED events
  /\ UNCHANGED <<disk, archives, sources, clock, job, daemon, window>>

\* set_config, as far as store_config tells the Trash of it.
Stores(places) ==
  /\ Happens /\ places # sources
  /\ sources' = places
  /\ rescan' = TRUE
  /\ asked' = [asked EXCEPT !.calm = FALSE]
  /\ UNCHANGED <<disk, bin, archives, clock, job, watch, listed, events, window>>
-----------------------------------------------------------------------------
\* Jobs, and what the end of one brings about.

files == <<disk, bin, sources>>
Counted == left.backups > 0 /\ left' = [left EXCEPT !.backups = @ - 1]
Backed(tree) == Restrict(tree, {q \in DOMAIN tree : InSources(q, sources)})

\* A backup: its row, dated by when it began, and what it read of the files.
BacksUp ==
  \E ts \in {clock + 1} \cup (IF "during" \in Circumstances THEN {clock} ELSE {}) :
    /\ Counted /\ AtRest /\ job = "none"
    /\ \A s \in DOMAIN archives : archives[s].ts < ts
    /\ archives' = Append(archives, [ts |-> ts, tree |-> Backed(disk), catalogued |-> FALSE])
    /\ clock' = Max({clock, ts})
    /\ job' = "reading"
    /\ UNCHANGED <<files, daemon, events, window, asked>>

\* Its listing is read in; or not, and is by a later job.
Catalogues ==
  /\ job = "reading"
  /\ job' = "ending"
  /\ archives' \in {archives, [s \in DOMAIN archives |-> [archives[s] EXCEPT !.catalogued = TRUE]]}
  /\ UNCHANGED <<files, clock, daemon, events, window, asked, left>>

\* Pruned, or evicted from the spool.  Or, where they go all at once,
\* rebuild_catalogue, whose probe finds the destination, which is gone when
\* reconcile_catalogue asks: no job follows.
Prunes(gone) ==
  /\ Counted /\ job = "none" /\ gone # {}
  /\ (Cardinality(gone) = 1 /\ Len(archives) \notin gone) \/
     ("rebuild" \in Circumstances /\ gone = DOMAIN archives)
  /\ LET stay == SetToSortSeq(DOMAIN archives \ gone, <)
     IN archives' = [s \in DOMAIN stay |-> archives[stay[s]]]
  /\ Overlaps(bin, archives')
  /\ job' = IF gone = DOMAIN archives THEN "none" ELSE "ending"
  /\ asked' = [asked EXCEPT !.calm = FALSE]
  /\ UNCHANGED <<files, clock, daemon, events, window>>

\* fan_out_signals: another look at the Trash, and then JobFinished, at which
\* the window loads the backups again.
IsHeard ==
  /\ job = "ending"
  /\ job' = "none"
  /\ rescan' = TRUE
  /\ window' = [window EXCEPT !.stale = TRUE]
  /\ UNCHANGED <<files, archives, clock, watch, events, listed, asked, left>>

-----------------------------------------------------------------------------
\* The listing.

\* counts: against the last backup before it was deleted.
Counts(item) ==
  LET before == BaseFor(archives, item.at)
      file   == IF item.path = "dir" THEN "in" ELSE item.path
  IN IF before = 0 THEN TRUE
     ELSE item.holds # 0 /\ (file \in DOMAIN archives[before].tree =>
                               archives[before].tree[file] # item.holds)

\* scan, of what was found in the Trash.
Scan(found) ==
  LET sorted == SetToSortSeq(found, LAMBDA i, j : i.at < j.at)
  IN [n \in DOMAIN sorted |->
        [path |-> sorted[n].path, name |-> sorted[n].name, at |-> sorted[n].at,
         holds |-> IF sorted[n].path = "dir" THEN 0 ELSE sorted[n].holds,
         counts |-> Counts(sorted[n])]]

InBackups == {i \in bin : i.there /\ InSources(i.path, sources)}

\* watch: what is in the Trash, by the settings of this moment.
Looks ==
  /\ watch.at = "look"
  /\ watch.on \/ trashing = {} \/ "unwatched" \in Circumstances
  /\ watch' = [watch EXCEPT !.at = "publish", !.found = InBackups]
  /\ UNCHANGED <<files, archives, clock, job, events, rescan, listed, window, asked, left>>

\* Measured against the catalogue, the folders watched, the listing replaced,
\* and the window told of it (announce_trash).
Publishes ==
  /\ watch.at = "publish"
  /\ watch' = [at |-> "wait", on |-> TRUE, found |-> {}]
  /\ listed' = Scan(watch.found)
  /\ window' = [window EXCEPT !.told = @ \/ listed' # listed]
  /\ UNCHANGED <<files, archives, clock, job, events, rescan, asked, left>>

\* Mutant: looked at before it has settled, and what came meanwhile is dropped after.
SettlesAfterwards ==
  /\ \/ watch.at = "wait" /\ events /\ watch' = [watch EXCEPT !.at = "look"]
     \/ watch.at = "publish" /\ watch' = watch
  /\ events' = FALSE
  /\ UNCHANGED <<files, archives, clock, job, rescan, listed, window, asked, left>>

\* A change is left to settle, and what came meanwhile is part of it.
Settles ==
  /\ \/ watch.at = "wait" /\ events /\ watch' = [watch EXCEPT !.at = "settle"]
     \/ watch.at = "settle" /\ watch' = [watch EXCEPT !.at = "look"]
  /\ events' = FALSE
  /\ UNCHANGED <<files, archives, clock, job, rescan, listed, window, asked, left>>

Rescans ==
  /\ watch.at = "wait" /\ rescan
  /\ rescan' = FALSE
  /\ watch' = [watch EXCEPT !.at = "look"]
  /\ UNCHANGED <<files, archives, clock, job, events, listed, window, asked, left>>

-----------------------------------------------------------------------------
\* The window.

\* load_trash, at first and whenever it is told.
Hears ==
  /\ window.told
  /\ window' = [window EXCEPT !.told = FALSE, !.items = listed]
  /\ UNCHANGED <<files, archives, clock, job, daemon, events, asked, left>>

LoadsBackups ==
  /\ window.stale
  /\ window' = [window EXCEPT !.stale = FALSE, !.archives = archives]
  /\ UNCHANGED <<files, archives, clock, job, daemon, events, asked, left>>

\* in_gap, of the entry after backup `base'.
InGap(base) == SelectSeq(window.items, LAMBDA i : BaseFor(window.archives, i.at) = base)

\* entries_for, of the folders these places are in.
Entries(places) ==
  {BaseFor(window.archives, window.items[n].at) : n \in
     {m \in DOMAIN window.items : window.items[m].counts /\ InSources(window.items[m].path, places)}}
BaseTree(base) == IF base = 0 THEN None ELSE window.archives[base].tree

\* overlay, of the top and of the folder.
RowsOfTop(base) ==
  FoldLeft(LAMBDA rows, i : IF i.path = "in" THEN rows @@ ("dir" :> Folder)
                                              ELSE (i.path :> i.holds) @@ rows,
           Restrict(BaseTree(base), DOMAIN BaseTree(base) \ {"in"}), InGap(base))

Overlaid(base) ==
  FoldLeft(LAMBDA rows, i : IF i.path = "in" THEN ("in" :> i.holds) @@ rows ELSE rows,
           Without(BaseTree(base), "top"), InGap(base))

\* The things in the Trash under a name, which the daemon finds only if it lists it.
Copies(name) == {i \in bin : i.there /\ i.name = name}
Find(name) == SelectSeq(listed, LAMBDA i : i.name = name)
CopyOf(i, path) == IF path = "dir" THEN ("dir" :> Folder) @@ (IF i.holds = 0 THEN None
                                                                  ELSE "in" :> i.holds)
                   ELSE IF i.holds = 0 THEN None ELSE path :> i.holds
Contents(name, path) == IF Copies(name) = {} THEN None
                        ELSE CopyOf(CHOOSE i \in Copies(name) : TRUE, path)

\* trashed_folder: inside a folder that went to the Trash whole, its copy there.
RowsOfFolder(base) ==
  LET whole == SelectSeq(InGap(base), LAMBDA i : i.path = "dir")
  IN IF whole = <<>> THEN Restrict(Overlaid(base), DOMAIN Overlaid(base) \ {"dir"})
     ELSE IF Find(whole[1].name) = <<>> THEN None
     ELSE Contents(whole[1].name, "in")

\* list_trashed_folder answers.
CanBeRead(base) ==
  \A n \in DOMAIN InGap(base) : InGap(base)[n].path = "dir" =>
    Find(InGap(base)[n].name) # <<>> /\ Copies(InGap(base)[n].name) # {}

\* What is shown of a place at the entry: in the pane of the top, or the folder's.
Seen(base, target) ==
  LET top == RowsOfTop(base)
  IN IF target = "top" THEN Restrict(top, DOMAIN top \cap {"top"})
     ELSE IF "dir" \notin DOMAIN top THEN None
     ELSE RowsOfFolder(base) @@ (IF target = "dir" THEN "dir" :> Folder ELSE None)

-----------------------------------------------------------------------------
\* Restoring from an entry.

\* Nothing is on its way to the listing or to the window.
Quiet ==
  /\ trashing = {} /\ job = "none" /\ watch.at = "wait" /\ ~events /\ ~rescan
  /\ ~window.told /\ ~window.stale

IsCurrent == window.items = listed /\ listed = Scan(InBackups) /\ window.archives = archives

\* Restores::run with View::restoring.
Restores(base, target) ==
  LET taking == SelectSeq(InGap(base), LAMBDA i : Within(i.path, target) \/ Within(target, i.path))
      whole  == \E n \in DOMAIN taking : Within(target, taking[n].path)
  IN /\ asked.at = "nothing"
     /\ base \in Entries(IF target = "in" THEN {"dir"} ELSE {"top", "dir"})
     /\ target \in DOMAIN Seen(base, target) /\ (target # "top" => CanBeRead(base))
     /\ asked' = [Unasked EXCEPT !.at = "called", !.target = target, !.seen = Seen(base, target),
                    !.archive = IF whole \/ base = 0 THEN 0 ELSE window.archives[base].ts,
                    !.trashed = [n \in DOMAIN taking |-> taking[n].name],
                    !.calm = Quiet]
     /\ UNCHANGED <<files, archives, clock, job, daemon, events, window, left>>

Refused == [asked EXCEPT !.at = "over"]

\* from_trash.
FromTrash(found, target) ==
  LET taken == SelectSeq(found, LAMBDA i : Within(i.path, target) \/ Within(target, i.path))
  IN [n \in DOMAIN taken |->
        [name |-> taken[n].name,
         path |-> IF Within(taken[n].path, target) THEN taken[n].path ELSE target]]

\* restore_preflight, and the part of the backup that is fetched.
Prepares ==
  LET found   == FlattenSeq([n \in DOMAIN asked.trashed |-> Find(asked.trashed[n])])
      took    == FromTrash(found, asked.target)
      fetches == asked.archive # 0 /\ \A n \in DOMAIN took : ~Within(asked.target, took[n].path)
      its     == {s \in DOMAIN archives : archives[s].ts = asked.archive}
  IN /\ asked.at = "called"
     /\ asked' = IF \/ Len(found) < Len(asked.trashed)
                    \/ ~fetches /\ took = <<>>
                    \/ fetches /\ its = {}
                 THEN Refused
                 ELSE [asked EXCEPT !.at = "found", !.took = took,
                         !.from = IF fetches THEN At(archives[Max(its)].tree, asked.target)
                                             ELSE None]
     /\ UNCHANGED <<files, archives, clock, job, daemon, events, window, left>>

\* plan.rs's overlay: shallowest first, each in place of all that was there.
Planned(from, took) ==
  FoldLeft(LAMBDA found, t :
             IF DOMAIN Contents(t.name, t.path) = {} THEN Without(found, t.path)
             ELSE Contents(t.name, t.path) @@ Without(found, t.path) @@
                  (IF t.path = "in" THEN "dir" :> Folder ELSE None),
           from, SelectSeq(took, LAMBDA t : t.path # "in") \o
                 SelectSeq(took, LAMBDA t : t.path = "in"))

\* plan_with_trash.
Plans ==
  /\ asked.at = "found"
  /\ asked' = [asked EXCEPT !.at = "over", !.got = At(Planned(asked.from, asked.took), asked.target)]
  /\ UNCHANGED <<files, archives, clock, job, daemon, events, window, left>>

-----------------------------------------------------------------------------
Next ==
  \/ \E f \in Files : Writes(f)
  \/ \E p \in Paths : WritesInfo(p)
  \/ \E i \in bin : Moves(i)
  \/ \E i \in bin, whole \in BOOLEAN : Empties(i, whole)
  \/ \E places \in {{"top", "dir"}, {"dir"}} : Stores(places)
  \/ BacksUp \/ Catalogues \/ IsHeard
  \/ \E gone \in SUBSET DOMAIN archives : Prunes(gone)
  \/ Looks \/ Publishes \/ Settles \/ Rescans \/ Hears \/ LoadsBackups
  \/ \E base \in 0 .. Len(window.archives), target \in Paths : Restores(base, target)
  \/ Prepares \/ Plans

Spec == Init /\ [][Next]_vars

-----------------------------------------------------------------------------
\* Once nothing is on its way, the window's listing is what a look at the Trash
\* and the catalogue would give: no change of either, or of the settings, is
\* missed between the look, the watch and the signals (daemon trash.rs:138-193,
\* "Keep `shared`'s listing of the Trash current").
ListingIsCurrent == Quiet => IsCurrent

Place(i) == IF i.path = "dir" THEN "in" ELSE i.path

\* What is in the Trash and in no backup is shown at some entry of the timeline
\* (core trash.rs:4-8: "While it is still in the Trash, it can be shown and
\* restored").
OffersWhatNoBackupHas ==
  Quiet => \A i \in InBackups :
    \/ i.holds = 0
    \/ \E s \in DOMAIN archives : /\ archives[s].catalogued /\ Place(i) \in DOMAIN archives[s].tree
                                 /\ archives[s].tree[Place(i)] = i.holds
    \/ \E base \in Entries({"top", "dir"}) :
         Place(i) \in DOMAIN Seen(base, Place(i)) /\ Seen(base, Place(i))[Place(i)] = i.holds

\* A restore from an entry brings back what the entry shows, all of it when the
\* Trash was as shown and stayed so, and never anything else in its place
\* (plan.rs:367-371: "reported missing rather than replaced by the backup's
\* version, which is not what was shown").
ShownIsRestored ==
  asked.at = "over" =>
    /\ \A p \in DOMAIN asked.got : p \in DOMAIN asked.seen /\ asked.got[p] = asked.seen[p]
    /\ asked.calm => asked.got = asked.seen

\* search_files and place: where Restore Latest goes for a file.
Hit(f) ==
  LET have    == {s \in DOMAIN archives : archives[s].catalogued /\ f \in DOMAIN archives[s].tree}
      trashed == SelectSeq(listed, LAMBDA i : i.path = f /\ i.counts)
  IN [found |-> have # {} \/ trashed # <<>>,
      holds |-> IF trashed # <<>> /\ (have = {} \/ Last(trashed).at >= archives[Max(have)].ts)
                THEN Last(trashed).holds
                ELSE IF have = {} THEN 0 ELSE archives[Max(have)].tree[f]]

\* What search offers as the latest of a file is the newest of those the backups
\* and the Trash have (model/search.rs:42-47, service/mod.rs:3267).
LatestIsNewest ==
  Quiet => \A f \in Files : Hit(f).found =>
    /\ \A i \in InBackups : i.path = f => i.holds <= Hit(f).holds
    /\ \A s \in DOMAIN archives : archives[s].catalogued /\ f \in DOMAIN archives[s].tree =>
         archives[s].tree[f] <= Hit(f).holds

\* The Trash is listed as it is, shown where it belongs, restored as shown and
\* found as the latest (trash.rs of the daemon and the core, plan.rs, search).
TrashSafety ==
  TypeOK /\ ListingIsCurrent /\ OffersWhatNoBackupHas /\ ShownIsRestored /\ LatestIsNewest
=============================================================================
