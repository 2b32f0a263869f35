----------------------------- MODULE Catalogue -----------------------------
(***************************************************************************)
(* The catalogue database as its only writer changes it:                   *)
(* crates/backtrack-core/src/index/writer.rs (IndexWriter).                *)
(*                                                                         *)
(* A catalogue is a record of its two tables.  `rows' is the archives      *)
(* table: the primary key seq is the position, since every operation       *)
(* numbers the rows 1..k.  `versions' is the versions table: one record    *)
(* per interval of archives over which a path's content did not change.    *)
(*                                                                         *)
(* Every method of the writer is one transaction, so each is an operator   *)
(* from a catalogue to a catalogue; Cataloguing says who calls them, and   *)
(* between which awaits.                                                   *)
(*                                                                         *)
(* Abstracted: the paths and FTS tables (a path is a value), a version's   *)
(* kind, size, mtime and hash (one content), borg_id, and the statistics.  *)
(* Two identical versions rows are one element of the set.                 *)
(***************************************************************************)
EXTENDS Integers, Sequences, FiniteSets, SequencesExt

CONSTANTS Path, Content

Repos == {"primary", "spool", "fs-snapshot", "snapper"}
LocalRepos == {"spool", "fs-snapshot"}

\* expirable_at when it is NULL.
NoMark == 0

Row == [name: Nat, ts: Nat, repo: Repos, pending: BOOLEAN, expirable: Nat]
Version == [path: Path, first: Nat, last: Nat, content: Content]

\* What an archive lists: the paths in it, each with its content.
Listing == UNION {[S -> Content] : S \in SUBSET Path}

Empty == [rows |-> <<>>, versions |-> {}]

-----------------------------------------------------------------------------
\* Reading.

Names(c) == {c.rows[s].name : s \in DOMAIN c.rows}

\* What the catalogue shows at s.
Shown(c, s) ==
  LET alive == {v \in c.versions : v.first <= s /\ s <= v.last}
  IN [p \in {v.path : v \in alive} |-> (CHOOSE v \in alive : v.path = p).content]

In(c, repo) == {s \in DOMAIN c.rows : c.rows[s].repo = repo}

LatestCatalogued(c) ==
  Max({0} \cup {s \in DOMAIN c.rows : ~c.rows[s].pending})

SeqNamed(c, repo, name) == {s \in In(c, repo) : c.rows[s].name = name}

\* The elements of a finite set in the order given, which is total on it.
Ordered(S, Before(_, _)) ==
  [i \in 1 .. Cardinality(S) |->
     CHOOSE x \in S : Cardinality({y \in S : Before(y, x)}) = i - 1]

NewestFirst(seqs) == Ordered(seqs, LAMBDA a, b : a > b)

\* The pending rows a backfill reads, newest first, each as [seq, name].
Pending(c) ==
  LET seqs == NewestFirst({s \in DOMAIN c.rows :
                             c.rows[s].pending /\ c.rows[s].repo # "snapper"})
  IN [i \in DOMAIN seqs |-> [seq |-> seqs[i], name |-> c.rows[seqs[i]].name]]

PendingIn(c, repo) == {s \in In(c, repo) : c.rows[s].pending}

-----------------------------------------------------------------------------
\* Writing.

NewRow(name, ts, repo) ==
  [name |-> name, ts |-> ts, repo |-> repo, pending |-> TRUE, expirable |-> NoMark]

Appended(c, row) == [c EXCEPT !.rows = Append(@, row)]

SameFile(v, w) == v.path = w.path /\ v.content = w.content

\* Mutant: the version that starts just after s is left as it is.
FoldedLeftOnly(versions, s, listing) ==
  LET Left(p)  == {v \in versions : /\ v.path = p /\ v.content = listing[p]
                                    /\ v.last = s - 1}
      Whole(p) == [path |-> p, content |-> listing[p], last |-> s,
                   first |-> Min({s} \cup {v.first : v \in Left(p)})]
  IN (versions \ UNION {Left(p) : p \in DOMAIN listing})
       \cup {Whole(p) : p \in DOMAIN listing}

\* The items of a listing, each against the version that ends just before s
\* and the one that starts just after: what matches is one interval with s.
Folded(versions, s, listing) ==
  LET Matching(p) == {v \in versions : v.path = p /\ v.content = listing[p]}
      Left(p)  == {v \in Matching(p) : v.last = s - 1}
      Right(p) == {v \in Matching(p) : v.first = s + 1}
      Whole(p) == [path |-> p, content |-> listing[p],
                   first |-> Min({s} \cup {v.first : v \in Left(p)}),
                   last  |-> Max({s} \cup {v.last : v \in Right(p)})]
  IN (versions \ UNION {Left(p) \cup Right(p) : p \in DOMAIN listing})
       \cup {Whole(p) : p \in DOMAIN listing}

\* Mutant: a version that ended anywhere before s reaches over it.
CarriedFromAnywhere(versions, s, paths) ==
  {IF v.path \in paths /\ v.last < s THEN [v EXCEPT !.last = s] ELSE v :
     v \in versions}

\* Of these paths, the versions that ended just before s reach over it.
Carried(versions, s, paths) ==
  {IF v.path \in paths /\ v.last = s - 1 THEN [v EXCEPT !.last = s] ELSE v :
     v \in versions}

\* Of these paths, what is the same on both sides of s is one interval.
Rejoined(versions, s, paths) ==
  LET Meets(l, r) == /\ l.path \in paths /\ SameFile(l, r)
                     /\ l.last = s - 1 /\ r.first = s + 1
      pairs == {q \in versions \X versions : Meets(q[1], q[2])}
  IN (versions \ UNION {{q[1], q[2]} : q \in pairs})
       \cup {[q[1] EXCEPT !.last = q[2].last] : q \in pairs}

\* status = NULL for s, if there is such a row, with these versions.
Browsable(c, s, versions) ==
  [rows |-> [i \in DOMAIN c.rows |->
               IF i = s THEN [c.rows[i] EXCEPT !.pending = FALSE] ELSE c.rows[i]],
   versions |-> versions]

Ingested(c, s, listing) == Browsable(c, s, Folded(c.versions, s, listing))

DeltaIngested(c, s, listing) ==
  Browsable(c, s,
    Carried(Folded(c.versions, s, listing), s, Path \ DOMAIN listing))

ScopedIngested(c, s, listing, scope) ==
  LET outside == Path \ scope
  IN Browsable(c, s,
       Carried(Rejoined(Folded(c.versions, s, listing), s, outside), s, outside))

\* Intervals of one file that meet become one, along each chain of them.
Coalesced(versions) ==
  LET CoveredBy(v, s) ==
        \E w \in versions : SameFile(v, w) /\ w.first <= s /\ s <= w.last
      Chain(v) == {u \in versions : /\ SameFile(u, v) /\ u.first >= v.first
                                    /\ \A s \in v.first .. u.last : CoveredBy(v, s)}
      heads == {v \in versions :
                  ~\E u \in versions : SameFile(u, v) /\ u.last + 1 = v.first}
  IN {[v EXCEPT !.last = Max({u.last : u \in Chain(v)})] : v \in heads}

\* Mutant: the intervals keep the numbers the rows had before.
RemovedUnrenumbered(c, gone) ==
  LET kept == DOMAIN c.rows \ gone
      left == Ordered(kept, LAMBDA a, b : a < b)
  IN IF gone = {} THEN c
     ELSE [rows |-> [i \in DOMAIN left |-> c.rows[left[i]]],
           versions |-> {v \in c.versions : kept \cap (v.first .. v.last) # {}}]

\* Without the archives at `gone': the rest are numbered densely, intervals
\* shrink to them, and what lived only in `gone' disappears.
Removed(c, gone) ==
  LET kept == DOMAIN c.rows \ gone
      NewSeq(s) == Cardinality({k \in kept : k <= s})
      left == Ordered(kept, LAMBDA a, b : a < b)
      Within(v) == {NewSeq(k) : k \in kept \cap (v.first .. v.last)}
      clamped == {[v EXCEPT !.first = Min(Within(v)), !.last = Max(Within(v))] :
                    v \in {w \in c.versions : Within(w) # {}}}
  IN IF gone = {} THEN c
     ELSE [rows |-> [i \in DOMAIN left |-> c.rows[left[i]]],
           versions |-> Coalesced(clamped)]

\* An interval that spans s becomes the parts either side of it.
SplitAround(versions, s) ==
  LET spanning == {v \in versions : v.first < s /\ s < v.last}
  IN (versions \ spanning)
       \cup {[v EXCEPT !.last = s - 1] : v \in spanning}
       \cup {[v EXCEPT !.first = s + 1] : v \in spanning}

\* The order sync_archives numbers rows in: time, name, then as they were.  A slot is an
\* existing row (its old seq) or a newcomer (old = 0).
SlotBefore(a, b) ==
  \/ a.ts < b.ts
  \/ a.ts = b.ts /\ a.name < b.name
  \/ a.ts = b.ts /\ a.name = b.name /\ a.old # 0 /\ (b.old = 0 \/ a.old < b.old)

\* The newcomers slotted in by time among the rows there are, pending, with
\* the intervals that would span one split.  The rows are copied without
\* their expirable_at.
SlottedIn(c, repo, newcomers) ==
  LET slots == {[ts |-> c.rows[s].ts, name |-> c.rows[s].name, old |-> s] :
                  s \in DOMAIN c.rows}
               \cup {[ts |-> e.ts, name |-> e.name, old |-> 0] : e \in newcomers}
      order == Ordered(slots, SlotBefore)
      NewSeq(s) == CHOOSE i \in DOMAIN order : order[i].old = s
      moved == {[v EXCEPT !.first = NewSeq(v.first), !.last = NewSeq(v.last)] :
                  v \in c.versions}
      inserted == Ordered({i \in DOMAIN order : order[i].old = 0}, LAMBDA a, b : a < b)
  IN [rows |-> [i \in DOMAIN order |->
                  IF order[i].old = 0
                  THEN NewRow(order[i].name, order[i].ts, repo)
                  ELSE [c.rows[order[i].old] EXCEPT !.expirable = NoMark]],
      versions |-> FoldLeft(SplitAround, moved, inserted)]

\* Every interval starts and ends at a row.  One that does not has no new seq
\* to move to, which the table's NOT NULL refuses.
Anchored(c) == \A v \in c.versions : {v.first, v.last} \subseteq DOMAIN c.rows

\* Mutant: what the store does not list is removed whichever repo it is of.
SyncedAnyRepo(c, repo, entries) ==
  LET names == {e.name : e \in entries}
      tidy  == Removed(c, {s \in DOMAIN c.rows : c.rows[s].name \notin names})
      newcomers == {e \in entries : e.name \notin Names(tidy)}
  IN IF newcomers = {} \/ ~Anchored(tidy) THEN tidy ELSE SlottedIn(tidy, repo, newcomers)

\* The rows of `repo' made to match the archives it has.  The removals are a
\* transaction of their own, and stand if slotting in the newcomers fails.
Synced(c, repo, entries) ==
  LET names == {e.name : e \in entries}
      tidy  == Removed(c, {s \in In(c, repo) : c.rows[s].name \notin names})
      known == {tidy.rows[s].name : s \in In(tidy, repo)}
      newcomers == {e \in entries : e.name \notin known}
  IN IF newcomers = {} \/ ~Anchored(tidy) THEN tidy ELSE SlottedIn(tidy, repo, newcomers)

\* Mutant: a mark that is there already is set again.
MarkedExpirableAgain(c, at) ==
  [c EXCEPT !.rows = [s \in DOMAIN c.rows |->
     IF c.rows[s].repo \in LocalRepos
     THEN [c.rows[s] EXCEPT !.expirable = at] ELSE c.rows[s]]]

\* Local rows that have no mark yet get this one.
MarkedExpirable(c, at) ==
  [c EXCEPT !.rows = [s \in DOMAIN c.rows |->
     IF c.rows[s].repo \in LocalRepos /\ c.rows[s].expirable = NoMark
     THEN [c.rows[s] EXCEPT !.expirable = at] ELSE c.rows[s]]]

-----------------------------------------------------------------------------
\* The reference definition: the versions a from-scratch chronological ingest
\* of the catalogued archives gives, when the archive called n shows what[n].
\* Each is a maximal run of catalogued archives that show the same content.
Reference(rows, what) ==
  LET Has(s, p, k) == /\ s \in DOMAIN rows /\ ~rows[s].pending
                      /\ p \in DOMAIN what[rows[s].name]
                      /\ what[rows[s].name][p] = k
  IN {v \in [path: Path, first: DOMAIN rows, last: DOMAIN rows, content: Content] :
        /\ v.first <= v.last
        /\ \A s \in v.first .. v.last : Has(s, v.path, v.content)
        /\ ~Has(v.first - 1, v.path, v.content)
        /\ ~Has(v.last + 1, v.path, v.content)}
=============================================================================
