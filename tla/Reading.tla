------------------------------ MODULE Reading -------------------------------
(***************************************************************************)
(* What the catalogue answers: crates/backtrack-core/src/index/reader.rs   *)
(* (IndexReader), over the tables Catalogue writes.                        *)
(*                                                                         *)
(* Every query is asked of intervals.  `holds' is what each archive shows, *)
(* which the queries never see and their answers are held against.         *)
(*                                                                         *)
(* Abstracted: a path is a node of a tree, and one the catalogue never saw *)
(* one without versions, for which every query answers the same; the walk  *)
(* of the tree by recursive queries is a set of nodes; full-text matching, *)
(* the tolerance of times, and an archive's own columns.                   *)
(***************************************************************************)
EXTENDS Catalogue

CONSTANTS
  Parent,        \* of each path: another, or Root
  Root,
  Dirs,          \* the contents that say a path is a folder
  Size,          \* of each content, in bytes
  Listings,      \* what a backup may find
  Archives,      \* bound: archives ever made
  Circumstances  \* what is allowed to happen, of those below
     \* "unread"   archives that are not read yet, and older ones read later
     \* "again"    a file is once more what it was

VARIABLES
  cat,     \* the catalogue
  holds    \* for each row, what the archive shows

vars == <<cat, holds>>

Rows == DOMAIN cat.rows
Browsed == {s \in Rows : ~ cat.rows[s].pending}
Unread == Rows \ Browsed

TypeOK ==
  /\ cat.rows \in Seq(Row) /\ cat.versions \subseteq [path : Path, first : Rows, last : Rows, content : Content]
  /\ Len(holds) = Len(cat.rows) /\ \A s \in Rows : holds[s] \in Listing

Init == cat = Empty /\ holds = <<>>
-----------------------------------------------------------------------------
(* The tree. *)

\* full_path, resolve_path and the walks upwards: a path, and what it is in.
AtOrAbove[p \in Path] == {p} \cup (IF Parent[p] = Root THEN {} ELSE AtOrAbove[Parent[p]])

Inside(folder) == {p \in Path : Parent[p] = folder}

\* The walks downwards: a path, and what is in it.
Below(folder) == IF folder = Root THEN Path ELSE {p \in Path : folder \in AtOrAbove[p]}

IsFile(content) == content \notin Dirs
-----------------------------------------------------------------------------
(* The queries. *)

ValidAt(s) == {v \in cat.versions : v.first <= s /\ s <= v.last}
Holds(s, p) == \E v \in ValidAt(s) : v.path = p

\* latest_catalogued_seq.
Newest == LatestCatalogued(cat)

\* changed_inside: upwards from the files that ended before the newest.
ChangedInside(folder, s) ==
  {p \in Inside(folder) :
     \E v \in ValidAt(s) : IsFile(v.content) /\ v.last < Newest /\ p \in AtOrAbove[v.path]}

\* folder_at, with its two badges.
FolderAt(folder, s) ==
  LET Gone(p) == ~ Holds(Newest, p)
      Later(p) == \E v \in cat.versions : v.path = p /\ v.first > s
      Entry(v) == [path |-> v.path, content |-> v.content, gone |-> Gone(v.path),
                   changed |-> IF IsFile(v.content) THEN Later(v.path)
                               ELSE ~ Gone(v.path) /\ v.path \in ChangedInside(folder, s)]
  IN {Entry(v) : v \in {w \in ValidAt(s) : Parent[w.path] = folder}}

\* file_history.
History(p) == {v \in cat.versions : v.path = p}

\* backed_up_roots.
BackedUpRoots(s) == {v.path : v \in {w \in ValidAt(s) : ~ Holds(s, Parent[w.path])}}

Nearest(seqs, newer) == IF seqs = {} THEN 0 ELSE IF newer THEN Min(seqs) ELSE Max(seqs)

\* next_change, or 0: past the interval it is in, or to the nearest one.
NextChange(p, s, newer) ==
  LET current == {v \in History(p) : v.first <= s /\ s <= v.last}
      past == {t \in Rows : \A v \in current : IF newer THEN t > v.last ELSE t < v.first}
      ends == {IF newer THEN v.first ELSE v.last : v \in History(p)}
  IN Nearest(IF current # {} THEN past
             ELSE {t \in ends : IF newer THEN t > s ELSE t < s}, newer)

\* changed_since: what a walk finds new or otherwise than s has it.
ChangedSince(s, live) ==
  {p \in DOMAIN live : ~ \E v \in ValidAt(s) : v.path = p /\ v.content = live[p]}

\* each_member, and the files that size_of and sizes_inside add up.
Members(folder, s) == {v \in ValidAt(s) : v.path \in Below(folder)}

SizeOfAll(versions) == MapThenSumSet(LAMBDA v : Size[v.content], versions)

\* size_of, of files only.
SizeOf(folder, s) == SizeOfAll({v \in Members(folder, s) : IsFile(v.content)})

\* sizes_inside.  What has nothing of its own there is a folder asked into.
SizesInside(folder, s) ==
  {[path |-> p, bytes |-> SizeOf(p, s),
    folder |-> \A v \in ValidAt(s) : v.path = p => ~ IsFile(v.content)] :
     p \in {q \in Inside(folder) : Members(q, s) # {}}}

\* Mutant: the folders' records count.
ListedForRecords(folder) ==
  IF Newest = 0 THEN {} ELSE IF folder = Root THEN Browsed
  ELSE {Newest} \cup {v.last : v \in {w \in cat.versions :
                        w.path \in Below(folder) /\ w.last < Newest}}

\* listed_for: where a version ends that is of a file in the folder.
ListedFor(folder) ==
  IF Newest = 0 THEN {} ELSE IF folder = Root THEN Browsed
  ELSE {Newest} \cup {v.last : v \in {w \in cat.versions :
                        w.path \in Below(folder) /\ IsFile(w.content) /\ w.last < Newest}}

NextBackup(s) == {t \in Browsed : t > s /\ cat.rows[t].repo = "primary"}

\* holds_intermediate: something here ended before the next backup.
HoldsIntermediate(s) ==
  \/ NextBackup(s) = {}
  \/ \E v \in ValidAt(s) : IsFile(v.content) /\ v.last < Min(NextBackup(s))

\* search: a path's whole history, and whether it is in the newest archive.
Hit(p) ==
  LET last == Max({v.last : v \in History(p)})
      newest == CHOOSE v \in History(p) : v.last = last
  IN [first |-> Min({v.first : v \in History(p)}), last |-> last,
      content |-> newest.content, today |-> last = Len(cat.rows)]
-----------------------------------------------------------------------------
(* The archives that come and go. *)

May(what) == what \in Circumstances
Shows(s, p) == p \in DOMAIN holds[s]

\* A file is what it last was, or what it has not been.
IsNew(listing) ==
  \A p \in DOMAIN listing : IsFile(listing[p]) =>
    \A s \in Rows : Shows(s, p) /\ holds[s][p] = listing[p] =>
       \A t \in s .. Len(holds) : Shows(t, p) /\ holds[t][p] = listing[p]

Arrives(listing) ==
  /\ Len(cat.rows) < Archives
  /\ Unread # {} => May("unread")
  /\ ~ IsNew(listing) => May("again")

\* A backup has been made, and is not read yet.
Backs(listing) ==
  /\ Arrives(listing)
  /\ cat' = Appended(cat, NewRow(1, 1, "primary"))
  /\ holds' = Append(holds, listing)

\* Its listing is read.
Reads(s) ==
  /\ s \in Unread
  /\ cat' = Ingested(cat, s, holds[s]) /\ UNCHANGED holds

\* The local safety net takes what has changed, and shows the rest as before.
Spools(live) ==
  /\ Arrives(live) /\ Newest = Len(cat.rows)
  /\ LET delta == [p \in ChangedSince(Newest, live) |-> live[p]]
         before == IF Newest = 0 THEN [p \in {} |-> p] ELSE holds[Newest]
         row == Appended(cat, NewRow(1, 1, "spool"))
     IN /\ DOMAIN delta # {}
        /\ cat' = DeltaIngested(row, Len(row.rows), delta)
        /\ holds' = Append(holds, [p \in DOMAIN delta \cup DOMAIN before |->
                                     IF p \in DOMAIN delta THEN delta[p] ELSE before[p]])

\* One is removed.
Goes(s) ==
  /\ cat' = Removed(cat, {s}) /\ holds' = RemoveAt(holds, s)

Next ==
  \/ \E listing \in Listings : Backs(listing) \/ Spools(listing)
  \/ \E s \in Rows : Reads(s) \/ Goes(s)

Spec == Init /\ [][Next]_vars
-----------------------------------------------------------------------------
(* The answers, held against what the archives show. *)

Same(p, s, t) == Shows(s, p) = Shows(t, p) /\ (Shows(s, p) => holds[s][p] = holds[t][p])
Files(s, folder) == {p \in DOMAIN holds[s] \cap Below(folder) : IsFile(holds[s][p])}
Places == {Root} \cup {p \in Path : Inside(p) # {}}

\* Each entry of a folder is what the archive shows there, and its badges say
\* that it is not in the newest archive, that the file is another afterwards,
\* or that something in the folder is (reader.rs:26-32).
BadgesAreTrue ==
  \A folder \in Places, s \in Browsed :
    FolderAt(folder, s) =
      {[path |-> p, content |-> holds[s][p], gone |-> ~ Shows(Newest, p),
        changed |-> IF IsFile(holds[s][p])
                    THEN \E t \in Browsed : t > s /\ Shows(t, p) /\
                           \E u \in Browsed : u > s /\ u <= t /\ ~ Same(p, s, u)
                    ELSE Shows(Newest, p) /\ \E q \in Files(s, p) : ~ Same(q, s, Newest)] :
         p \in {q \in DOMAIN holds[s] : Parent[q] = folder}}

\* An archive that is not listed for a folder hides nothing: each file in it
\* is the same in the next one that is (reader.rs:705-707).
HidesNothing ==
  \A folder \in Places, s \in Browsed :
    \/ s \in ListedFor(folder)
    \/ \E t \in ListedFor(folder) :
         t > s /\ \A p \in Files(s, folder) : Same(p, s, t)

\* And one that is listed has something that the next does not
\* (reader.rs:695-697).
ListsTheChanges ==
  \A folder \in Places \ {Root} : \A s \in ListedFor(folder) \ {Newest} :
    LET later == {t \in Browsed : t > s}
    IN later # {} /\ \E p \in Files(s, folder) : ~ Same(p, s, Min(later))

\* A step leads to the nearest archive in which the file is not as it is
\* here (reader.rs:477-483), once all have been read.
StepsToTheChange ==
  \A p \in Path, s \in Browsed, newer \in BOOLEAN :
    Unread = {} => NextChange(p, s, newer) =
      Nearest({t \in Browsed : (IF newer THEN t > s ELSE t < s) /\ ~ Same(p, s, t)}, newer)

\* Where a step leads can be looked at.
StepsToWhatIsRead ==
  \A p \in Path, s \in Browsed, newer \in BOOLEAN : NextChange(p, s, newer) \in {0} \cup Browsed

\* What is counted, restored or offered as a place to start is what the
\* archive shows, and a folder's total is that of what is in it
\* (reader.rs:387, 570, 650).
TotalsAreTheArchives ==
  \A s \in Browsed :
    LET Bytes(paths) == MapThenSumSet(LAMBDA p : Size[holds[s][p]], paths)
    IN /\ BackedUpRoots(s) = {p \in DOMAIN holds[s] : ~ Shows(s, Parent[p])}
       /\ \A folder \in Places :
            /\ {v.path : v \in Members(folder, s)} = DOMAIN holds[s] \cap Below(folder)
            /\ SizeOf(folder, s) = Bytes(Files(s, folder))
            /\ SizesInside(folder, s) =
                 {[path |-> p, bytes |-> Bytes(Files(s, p)),
                   folder |-> Shows(s, p) => ~ IsFile(holds[s][p])] :
                    p \in {q \in Inside(folder) : DOMAIN holds[s] \cap Below(q) # {}}}

\* A local snapshot holds something of its own when the next backup does not
\* have it (reader.rs:113-118).
HoldsItsOwn ==
  \A s \in Browsed :
    cat.rows[s].repo = "spool" /\ NextBackup(s) # {} =>
      (HoldsIntermediate(s) <=>
         \E p \in Files(s, Root) : ~ Same(p, s, Min(NextBackup(s))))

\* What is found lived from the first archive that shows it to the last
\* (reader.rs:82).
FoundForItsLife ==
  \A p \in {v.path : v \in cat.versions} :
    LET shown == {s \in Browsed : Shows(s, p)}
    IN /\ Hit(p).first = Min(shown) /\ Hit(p).last = Max(shown)
       /\ Hit(p).content = holds[Max(shown)][p]

\* And exists today when the newest archive that can be looked at shows it
\* (reader.rs:89).
ExistsToday ==
  \A p \in {v.path : v \in cat.versions} : Hit(p).today <=> Shows(Newest, p)

\* Every answer the catalogue gives to the window is what the archives it has
\* read show (reader.rs).
QuerySafety ==
  /\ TypeOK
  /\ BadgesAreTrue /\ HidesNothing /\ ListsTheChanges /\ StepsToTheChange
  /\ TotalsAreTheArchives /\ HoldsItsOwn /\ FoundForItsLife
=============================================================================
