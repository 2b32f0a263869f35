------------------------------- MODULE Window -------------------------------
(***************************************************************************)
(* The window: which folder and which backup it looks at (AppState), the   *)
(* backups it lists for the folder, the file pane, the preview, and the    *)
(* catalogue, which the daemon goes on changing and renumbering meanwhile  *)
(* (backtrack-gtk: state.rs, window.rs, index.rs, ui/files.rs,             *)
(* ui/preview.rs).                                                         *)
(*                                                                         *)
(* A backup is a number, its place in the catalogue (seq), and a name.     *)
(* Queries go to one worker and are answered in their order, or fail; what *)
(* the daemon is asked is answered in any.  A query is a few statements,   *)
(* each of which reads the catalogue as it then is.  The Trash is empty,   *)
(* and a folder is one file in a version: 0 where it has none.             *)
(***************************************************************************)
EXTENDS Integers, Sequences, FiniteSets, SequencesExt, FiniteSetsExt

CONSTANTS
  Folders,
  Start,        \* the folder the window opens on
  Histories,    \* what each backup may hold of each folder
  MaxArchives,  \* bound: the backups there ever are
  Moves,        \* bound: what the person does, and the queries that fail
  Changes,      \* bound: changes of the catalogue
  Circumstances \* which of these may happen: see Possible

Possible ==
  {"early",    \* the catalogue changes before the window follows it
   "untold",   \* backups are taken out with nothing said (start_fresh)
   "emptied"}  \* all that are catalogued are taken out

ASSUME WindowAssumption ==
  /\ Start \in Folders /\ MaxArchives \in Nat \ {0, 1}
  /\ Moves \in Nat /\ Changes \in Nat
  /\ Histories \subseteq [Folders -> [1 .. MaxArchives -> Nat]]
  /\ Circumstances \subseteq Possible

VARIABLES
  holds,     \* the version of a folder's file in a backup
  catalogue, \* the backups, oldest first, and whether their files are listed yet
  made,      \* the names given so far
  news,      \* changes the daemon has announced and the window not heard of
  following, \* the window is connected
  view,      \* View
  listings,  \* AppState's: what is listed for the folders seen since the last load
  asked, answered, \* of the worker, in order
  overview,  \* the catalogue as each statement of the query the worker is on found it
  failed,    \* history: the queries that failed since the catalogue was last loaded
  painting,  \* what the pane has read and awaits the disk for
  pane,      \* Files
  preview,   \* Preview: the backup and the folder of what it reads and shows
  left

daemon == <<holds, catalogue, made, news>>
window == <<following, view, listings, asked, answered, overview, failed, painting, pane, preview>>
vars == <<daemon, window, left>>

Seqs == 1 .. MaxArchives
Archive == [name: Seqs, catalogued: BOOLEAN]
Kinds == {"load", "listing", "folder", "change"}
NoFile == [folder |-> "none", held |-> 0]
Nothing == [folder |-> "none", seq |-> 0, held |-> 0]
Unreadable == [folder |-> "unreadable", seq |-> 0, held |-> 0]
Error == [error |-> TRUE]
NoListing == [folder |-> "none", generation |-> 0, seqs |-> {}]
Blank == [name |-> 0, folder |-> "none"]
Unknown == {0}
Places == Folders \cup {"none", "unreadable"}
Shown == [folder: Places, seq: 0 .. MaxArchives, held: Nat]

TypeOK ==
  /\ holds \in Histories
  /\ catalogue \in Seq(Archive) /\ made \in Seqs /\ Len(catalogue) <= made
  /\ news \in 0 .. Changes /\ following \in BOOLEAN
  /\ view.archives \in Seq(Archive) /\ view.generation \in Nat /\ view.showAll \in BOOLEAN
  /\ view.seq \in 0 .. MaxArchives /\ view.folder \in Folders
  /\ view.listing \in [folder: Places, generation: Nat, seqs: SUBSET Seqs]
  /\ view.selected \in [folder: Places, held: Nat]
  /\ listings \in [Folders -> SUBSET (0 .. MaxArchives)]
  /\ \A i \in DOMAIN asked : asked[i].kind \in Kinds
  /\ overview \in Seq(Seq(Archive)) /\ Len(overview) <= 2
  /\ \A q \in failed : q.kind \in Kinds
  /\ \A p \in painting : p.wanted \in 1 .. pane.wanted /\ p.shows \in Shown
  /\ pane.wanted \in Nat /\ pane.picked \in BOOLEAN /\ pane.shows \in Shown
  /\ preview \in [name: 0 .. MaxArchives, folder: Places]
  /\ left \in [moves : 0 .. Moves, changes : 0 .. Changes]

-----------------------------------------------------------------------------
\* IndexReader.

Held(archive, folder) == IF archive.catalogued THEN holds[folder][archive.name] ELSE 0

\* folder_at
FolderAt(folder, seq) == IF seq \in DOMAIN catalogue THEN Held(catalogue[seq], folder) ELSE 0

Catalogued(archives) == {s \in DOMAIN archives : archives[s].catalogued}

\* listed_for: where a version ends, and the newest, which was asked for first.
ListedSince(found, folder) ==
  LET newest == Max(Catalogued(found))
      ends(s) == FolderAt(folder, s) # 0 /\ FolderAt(folder, s + 1) # FolderAt(folder, s)
  IN IF Catalogued(found) = {} THEN {}
     ELSE {newest} \cup {s \in 1 .. newest - 1 : ends(s)}
ListedFor(folder) == ListedSince(catalogue, folder)

\* Mutant: the next backup, whether there is one or not.
NextBackup(folder, seq, newer) == IF newer THEN seq + 1 ELSE seq - 1
\* next_change: the place next to the version there is, or the next there is one.
NextChange(folder, seq, newer) ==
  LET past(s) == IF newer THEN s > seq ELSE s < seq
      between(s) == IF newer THEN seq .. s ELSE s .. seq
      differs(s) == \E t \in between(s) : FolderAt(folder, t) # FolderAt(folder, seq)
      found == {s \in DOMAIN catalogue : past(s)
                  /\ IF FolderAt(folder, seq) # 0 THEN differs(s) ELSE FolderAt(folder, s) # 0}
  IN IF found = {} THEN 0 ELSE IF newer THEN Min(found) ELSE Max(found)

-----------------------------------------------------------------------------
\* View.

\* listing_is_current
ListingIsCurrent(v) == v.listing.folder = v.folder /\ v.listing.generation = v.generation

\* landing
Landing(v, seq) ==
  LET listed == v.listing.seqs \cap Catalogued(v.archives)
      newer  == {s \in listed : s > seq}
  IN IF v.showAll \/ ~ListingIsCurrent(v) \/ seq \in v.listing.seqs THEN seq
     ELSE IF newer # {} THEN Min(newer)
     ELSE IF listed # {} THEN Max(listed) ELSE seq

\* settle
Settle(v) == IF v.seq = 0 THEN v ELSE [v EXCEPT !.seq = Landing(v, v.seq)]

\* adopt
Adopt(v, seqs) ==
  Settle([v EXCEPT !.listing = [folder |-> v.folder, generation |-> v.generation, seqs |-> seqs]])

\* relist
Listed(v) ==
  IF v.showAll \/ v.listing = NoListing THEN DOMAIN v.archives
  ELSE {s \in DOMAIN v.archives :
          ~v.archives[s].catalogued \/ s \in v.listing.seqs \/ s = v.seq}

\* reading_archive: the name of the backup viewed, 0 for none.
Reading(v) == IF v.seq \in DOMAIN v.archives THEN v.archives[v.seq].name ELSE 0

Init ==
  /\ holds \in Histories
  /\ made = MaxArchives - 1 /\ catalogue = [i \in 1 .. made |-> [name |-> i, catalogued |-> TRUE]]
  /\ news = 0 /\ following = FALSE
  /\ view = [archives |-> <<>>, generation |-> 0, listing |-> NoListing, showAll |-> FALSE,
             seq |-> 0, folder |-> Start, selected |-> NoFile]
  /\ asked = <<[kind |-> "load", folder |-> Start]>>
  /\ listings = [f \in Folders |-> Unknown]
  /\ answered = <<>> /\ overview = <<>> /\ failed = {} /\ painting = {} /\ preview = Blank
  /\ pane = [wanted |-> 0, picked |-> FALSE, shows |-> Nothing]
  /\ left = [moves |-> Moves, changes |-> Changes]

-----------------------------------------------------------------------------
\* Changes, and the panes that hear of them.

\* Selection, Seq or Folder.
PreviewFollows(v) ==
  v.selected # view.selected \/ v.seq # view.seq \/ v.folder # view.folder

\* Preview::refresh
PreviewRefreshes(v) ==
  preview' = IF v.selected = NoFile \/ Reading(v) = 0 THEN Blank
             ELSE [name |-> Reading(v), folder |-> v.selected.folder]

PreviewHears(v) == IF PreviewFollows(v) THEN PreviewRefreshes(v) ELSE UNCHANGED preview

\* Files::reload, after which more is asked: with no backup there is nothing to show.
Reloads(v, more) ==
  IF v.seq = 0
  THEN /\ pane' = [pane EXCEPT !.shows = Nothing, !.picked = FALSE]
       /\ view' = IF pane.picked THEN [v EXCEPT !.selected = NoFile] ELSE v
       /\ asked' = asked \o more
  ELSE /\ pane' = [pane EXCEPT !.wanted = @ + 1] /\ view' = v
       /\ asked' = asked \o <<[kind |-> "folder", folder |-> v.folder, seq |-> v.seq,
                               wanted |-> pane.wanted + 1]>> \o more

\* watch_listing
AsksListing(v) == ~ListingIsCurrent(v)
Listing(v) ==
  IF AsksListing(v)
  THEN <<[kind |-> "listing", folder |-> v.folder, generation |-> v.generation]>> ELSE <<>>

\* Another time, and nothing else.
Lands(v) ==
  /\ IF v.seq # view.seq THEN Reloads(v, <<>>)
     ELSE view' = v /\ UNCHANGED <<pane, asked>>
  /\ PreviewHears(v)

-----------------------------------------------------------------------------
\* What is asked is answered, or fails.

Does == left.moves > 0 /\ left' = [left EXCEPT !.moves = @ - 1]

\* Statements before the last: archives_overview of a load, and the newest of its
\* list or another.
Before(q) == CASE q.kind = "load" -> 2 [] q.kind = "listing" -> 1 [] OTHER -> 0

Begins ==
  /\ asked # <<>> /\ Len(overview) < Before(Head(asked))
  /\ overview' = Append(overview, catalogue)
  /\ UNCHANGED <<daemon, following, view, listings, asked, answered, failed, painting, pane,
                 preview, left>>

Answers(answer) ==
  /\ asked # <<>> /\ asked' = Tail(asked) /\ overview' = <<>>
  /\ answered' = Append(answered, [q |-> Head(asked), answer |-> answer])
  /\ UNCHANGED <<daemon, following, view, listings, failed, painting, pane, preview>>

\* The worker reads the rest of the catalogue, whatever it is by then.
Reads ==
  LET q == Head(asked)
  IN /\ asked # <<>> /\ Len(overview) = Before(q)
     /\ UNCHANGED left
     /\ Answers(
          CASE q.kind = "load"    -> [archives |-> overview[1], seqs |-> ListedSince(overview[2], q.folder)]
            [] q.kind = "listing" -> [seqs |-> ListedSince(overview[1], q.folder)]
            [] q.kind = "folder"  -> [held |-> FolderAt(q.folder, q.seq)]
            [] q.kind = "change"  -> [seq |-> NextChange(q.folder, q.seq, q.newer)])

\* A statement fails, or the catalogue could not be opened.
Fails == Does /\ Answers(Error)

Gets(kind) ==
  /\ answered # <<>> /\ answered' = Tail(answered)
  /\ Head(answered).q.kind = kind /\ Head(answered).answer # Error

\* set_catalogue: the number being viewed is kept, if there is one.
GetsCatalogue ==
  LET q  == Head(answered).q
      a  == Head(answered).answer
      newest == IF Catalogued(a.archives) = {} THEN 0 ELSE Max(Catalogued(a.archives))
      v  == Settle([view EXCEPT !.archives = a.archives, !.generation = @ + 1,
                      !.listing = [folder |-> q.folder, generation |-> view.generation + 1,
                                   seqs |-> a.seqs],
                      !.seq = IF @ \in DOMAIN a.archives THEN @ ELSE newest])
  IN /\ Gets("load")
     /\ listings' = [f \in Folders |-> IF f = q.folder THEN a.seqs ELSE Unknown]
     /\ failed' = {}
     /\ Reloads(v, Listing(v)) /\ PreviewHears(v)
     /\ UNCHANGED <<daemon, following, overview, painting, left>>

\* set_listing's check.
AnswersNow(q) == view.folder = q.folder /\ view.generation = q.generation

\* set_listing
GetsListing ==
  LET q == Head(answered).q
      seqs == Head(answered).answer.seqs
  IN /\ Gets("listing")
     /\ IF AnswersNow(q)
        THEN listings' = [listings EXCEPT ![q.folder] = seqs] /\ Lands(Adopt(view, seqs))
        ELSE UNCHANGED <<listings, view, asked, pane, preview>>
     /\ UNCHANGED <<daemon, following, overview, failed, painting, left>>

\* Mutant: whatever arrives is shown.
WantedAny(wanted) == TRUE
\* Superseded or not.
Wanted(wanted) == wanted = pane.wanted

\* The rest of reload: an empty folder is shown as such, and for any other the
\* disk is asked first.
GetsFolder ==
  LET q == Head(answered).q
      held == Head(answered).answer.held
  IN /\ Gets("folder")
     /\ painting' = IF Wanted(q.wanted)
                    THEN painting \cup {[wanted |-> q.wanted,
                           shows |-> [folder |-> q.folder, seq |-> q.seq, held |-> held]]}
                    ELSE painting
     /\ UNCHANGED <<daemon, following, view, listings, asked, overview, failed, pane, preview, left>>

\* step_to_change's answer.
GetsChange ==
  LET seq == Head(answered).answer.seq
  IN /\ Gets("change")
     /\ IF seq = 0 THEN UNCHANGED <<view, pane, asked, preview>>
        ELSE Lands([view EXCEPT !.seq = Landing(view, seq)])
     /\ UNCHANGED <<daemon, following, listings, overview, failed, painting, left>>

\* An error is told and no more is done, but for a folder's: the pane says that
\* it could not be read.
GetsError ==
  LET q == Head(answered).q
      v == IF pane.picked THEN [view EXCEPT !.selected = NoFile] ELSE view
  IN /\ answered # <<>> /\ Head(answered).answer = Error /\ answered' = Tail(answered)
     /\ failed' = failed \cup {q}
     /\ IF q.kind = "folder" /\ Wanted(q.wanted)
        THEN /\ pane' = [pane EXCEPT !.shows = Unreadable, !.picked = FALSE]
             /\ view' = v /\ PreviewHears(v)
        ELSE UNCHANGED <<view, pane, preview>>
     /\ UNCHANGED <<daemon, following, listings, asked, overview, painting, left>>

\* show, or show_why: the file that was selected still is, if it is there.
Paints(p) ==
  LET there == p.shows.held # 0
      keeps == there /\ view.selected # NoFile
      v == [view EXCEPT !.selected =
              IF keeps THEN [folder |-> view.folder, held |-> p.shows.held]
              ELSE IF there \/ pane.picked THEN NoFile ELSE @]
  IN /\ p \in painting /\ painting' = painting \ {p}
     /\ IF ~Wanted(p.wanted) THEN UNCHANGED <<view, pane, preview>>
        ELSE /\ pane' = [pane EXCEPT !.shows = p.shows, !.picked = keeps]
             /\ view' = v /\ PreviewHears(v)
     /\ UNCHANGED <<daemon, following, listings, asked, answered, overview, failed, left>>

\* connect_daemon
Connects ==
  /\ ~following /\ following' = TRUE
  /\ Reloads(view, <<>>) /\ PreviewRefreshes(view)
  /\ UNCHANGED <<daemon, listings, answered, overview, failed, painting, left>>

\* follow_catalogue
HearsOfBackups ==
  /\ news > 0 /\ news' = news - 1
  /\ asked' = Append(asked, [kind |-> "load", folder |-> view.folder])
  /\ UNCHANGED <<holds, catalogue, made, following, view, listings, answered, overview, failed,
                 painting, pane, preview, left>>

-----------------------------------------------------------------------------
\* The person.

\* set_folder
Opens(folder) ==
  LET known == listings[folder] # Unknown
      there == [view EXCEPT !.folder = folder, !.selected = NoFile]
      v     == IF known THEN Adopt(there, listings[folder]) ELSE Settle(there)
  IN /\ folder # view.folder /\ Does
     /\ Reloads(v, Listing(v)) /\ PreviewRefreshes(v)
     /\ UNCHANGED <<daemon, following, listings, answered, overview, failed, painting>>

\* step, the sidebar, the strip and the calendar: set_seq of one that is listed.
Views(seq) ==
  /\ seq \in Listed(view) /\ Landing(view, seq) # view.seq /\ Does
  /\ Lands([view EXCEPT !.seq = Landing(view, seq)])
  /\ UNCHANGED <<daemon, following, listings, answered, overview, failed, painting>>

\* set_show_all
ShowsAll ==
  /\ Does
  /\ Lands(Settle([view EXCEPT !.showAll = ~@]))
  /\ UNCHANGED <<daemon, following, listings, answered, overview, failed, painting>>

\* A row is selected: what is shown, in the folder that is viewed.
Picks ==
  LET v == [view EXCEPT !.selected = [folder |-> view.folder, held |-> pane.shows.held]]
  IN /\ pane.shows.held # 0 /\ ~pane.picked /\ Does
     /\ pane' = [pane EXCEPT !.picked = TRUE]
     /\ view' = v /\ PreviewHears(v)
     /\ UNCHANGED <<daemon, following, listings, asked, answered, overview, failed, painting>>

\* go_to_hit: the folder first, and then the time, which is read where it arrives.
GoesToHit(folder, seq) ==
  LET there == [view EXCEPT !.folder = folder]
      moved == IF folder = view.folder THEN view
               ELSE IF listings[folder] # Unknown THEN Adopt(there, listings[folder]) ELSE Settle(there)
      v == [moved EXCEPT !.seq = Landing(moved, seq),
                         !.selected = [folder |-> folder, held |-> holds[folder][view.archives[seq].name]]]
  IN /\ seq \in DOMAIN view.archives /\ Held(view.archives[seq], folder) # 0
     /\ v # view /\ Does
     /\ IF folder # view.folder THEN Reloads(v, Listing(v)) /\ PreviewRefreshes(v) ELSE Lands(v)
     /\ UNCHANGED <<daemon, following, listings, answered, overview, failed, painting>>

\* step_to_change
AsksForChange(newer) ==
  /\ view.seq # 0 /\ Does
  /\ asked' = Append(asked, [kind |-> "change", folder |-> view.folder, seq |-> view.seq,
                             newer |-> newer])
  /\ UNCHANGED <<daemon, following, view, listings, answered, overview, failed, painting, pane,
                 preview>>

-----------------------------------------------------------------------------
\* The daemon, which changes the catalogue and says that a job has ended.

Changed(to, told) ==
  /\ following \/ "early" \in Circumstances
  /\ left.changes > 0 /\ left' = [left EXCEPT !.changes = @ - 1]
  /\ catalogue' = to
  /\ news' = IF told /\ following THEN news + 1 ELSE news
  /\ UNCHANGED <<holds, window>>

\* A backup ends, or a snapshot of Snapper's takes its place among them.
Arrives(at, catalogued) ==
  /\ made + 1 \in Seqs /\ made' = made + 1
  /\ at \in 1 .. Len(catalogue) + 1
  /\ catalogued \/ at = Len(catalogue) + 1
  /\ Changed(InsertAt(catalogue, at, [name |-> made + 1, catalogued |-> catalogued]), TRUE)

\* A job of the catalogue's has read the files of a backup.
IsCatalogued(seq) ==
  /\ seq \in DOMAIN catalogue /\ ~catalogue[seq].catalogued
  /\ Changed([catalogue EXCEPT ![seq].catalogued = TRUE], TRUE) /\ UNCHANGED made

\* remove_archives, in a job or not.
Removes(seq, told) ==
  /\ seq \in DOMAIN catalogue /\ (told \/ "untold" \in Circumstances)
  /\ Catalogued(RemoveAt(catalogue, seq)) # {} \/ "emptied" \in Circumstances
  /\ Changed(RemoveAt(catalogue, seq), told) /\ UNCHANGED made

Next ==
  \/ Begins \/ Reads \/ Fails
  \/ GetsCatalogue \/ GetsListing \/ GetsFolder \/ GetsChange \/ GetsError
  \/ (\E p \in painting : Paints(p))
  \/ Connects \/ HearsOfBackups
  \/ \E folder \in Folders : Opens(folder) \/ \E seq \in Seqs : GoesToHit(folder, seq)
  \/ \E seq \in Seqs : Views(seq) \/ IsCatalogued(seq)
  \/ ShowsAll \/ Picks \/ (\E newer \in BOOLEAN : AsksForChange(newer))
  \/ \E at \in Seqs, yes \in BOOLEAN : Arrives(at, yes) \/ Removes(at, yes)

Spec == Init /\ [][Next]_vars

-----------------------------------------------------------------------------
\* Properties.

\* Everything asked has been answered and everything announced has been heard.
Quiet ==
  /\ following /\ news = 0 /\ asked = <<>> /\ answered = <<>> /\ painting = {}

\* The list of backups could not be read when it was last asked for, and a toast
\* said so: the backups are numbered as they were (load_archives).
Unloaded == \E q \in failed : q.kind = "load"

\* What the person sees in the pane is what restoring takes: the folder viewed, as
\* the backup of the name viewed holds it, whatever was renumbered and however
\* answers crossed.  Or else the pane says that it could not be read, and it could
\* not (reload, set_catalogue, reading_archive).
PaneIsTheBackup ==
  Quiet /\ ~Unloaded => IF view.seq = 0 THEN pane.shows = Nothing ELSE
    /\ Reading(view) # 0 /\ catalogue[view.seq].name = Reading(view)
    /\ \/ /\ pane.shows.folder = view.folder /\ pane.shows.seq = view.seq
          /\ pane.shows.held = FolderAt(view.folder, view.seq)
       \/ /\ pane.shows = Unreadable
          /\ \E q \in failed : q.kind = "folder" /\ q.wanted = pane.wanted

\* The backups listed are those of the folder viewed, as they are numbered now; if
\* they could not be read, no backup is taken for another (watch_listing,
\* set_listing, listing_is_current).
ListIsTheFolders ==
  Quiet /\ ~Unloaded =>
    IF ListingIsCurrent(view) THEN view.listing.seqs = ListedFor(view.folder)
    ELSE \E q \in failed : /\ q.kind = "listing" /\ q.folder = view.folder
                           /\ q.generation = view.generation

\* A backup that is left out of the list lands where all it holds is held (landing,
\* listed_for).
LandingHoldsIt ==
  Quiet /\ ~Unloaded => \A s \in Catalogued(catalogue) :
             LET held == FolderAt(view.folder, s)
             IN held # 0 => FolderAt(view.folder, Landing(view, s)) = held

\* The preview is of the file selected, as the backup viewed holds it (refresh, show).
PreviewIsTheFile ==
  Quiet /\ view.selected # NoFile /\ pane.picked =>
    /\ preview.name # 0 /\ preview.folder = view.folder
    /\ holds[view.folder][preview.name] = FolderAt(view.folder, view.seq)

\* Loading the catalogue again leaves the backup viewed, while there is one of its
\* name and it is listed (load).
KeepsTheBackup ==
  [][view'.generation # view.generation /\ view.seq # 0
       => \A s \in DOMAIN view'.archives :
            view'.archives[s].name = Reading(view) => Landing(view', s) = view'.seq]_vars

\* The backups listed with those loaded are among them (load's comment).
OneReading ==
  view.generation # 0 /\ view.listing.generation = view.generation
    => view.listing.seqs \subseteq DOMAIN view.archives

\* A backup whose files are not read yet, and which shows nothing, is not viewed
\* (landing, next_change).
SeesCatalogued ==
  Quiet /\ view.seq # 0 => catalogue[view.seq].catalogued

\* Once it is quiet, the window shows what the backup viewed holds, lists what
\* the folder has, and lands where it says (window.rs, state.rs).
WindowSafety == TypeOK /\ PaneIsTheBackup /\ ListIsTheFolders /\ LandingHoldsIt
=============================================================================
