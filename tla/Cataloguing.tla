---------------------------- MODULE Cataloguing ----------------------------
(***************************************************************************)
(* Who writes the catalogue: the jobs of crates/backtrackd/src/pipeline.rs *)
(* and the catch-up bookkeeping of crates/backtrackd/src/service/mod.rs,   *)
(* over the operations of Catalogue.                                       *)
(*                                                                         *)
(* A job awaits Borg or a walk between the places where it holds the       *)
(* writer's lock, so an action is one lock region (or one thing done in a  *)
(* store), and what a job carries from one to the next -- a seq, a list of *)
(* seqs -- may be out of date when it is used.                             *)
(*                                                                         *)
(* `job' is the one exclusive job that may run; `index' the cataloguing    *)
(* jobs, which share the repository; `catchUp' the fan-out loop's own      *)
(* bookkeeping after a backup, which is not a job and takes no lock on the *)
(* repository.                                                             *)
(*                                                                         *)
(* An archive's name is the order it was made in.  What an archive lists   *)
(* is chosen when it is made, which stands for every change to the files   *)
(* since the one before.                                                   *)
(***************************************************************************)
EXTENDS Catalogue

CONSTANTS
  MaxArchives,    \* bound: archives and snapshots ever made
  Indexer,        \* cataloguing jobs that may run side by side
  Kinds,          \* which of Backup, Index, Offline, Snapshot, Snapper exist
  Circumstances,  \* what else may happen: see Possible
  Newcomers,      \* bound: archives that exist and are in no row
  SnapperScope    \* the paths in the subvolume Snapper copies

\* What a run may allow besides the jobs going well one after another.
Possible ==
  {"crash",           \* the daemon is killed and started again
   "stops",           \* a job is cancelled
   "listing fails",   \* Borg does not finish a listing
   "clock steps back",
   "catch-up overlaps", \* jobs start while the catch-up bookkeeping runs
   "spool full",      \* the spool's cap makes it evict
   "removal fails",   \* a filesystem snapshot cannot be deleted
   "prunes"}          \* the retention policy removes backups

ASSUME CataloguingAssumption ==
  /\ MaxArchives \in Nat \ {0}
  /\ Newcomers \in Nat
  /\ Kinds \subseteq {"Backup", "Index", "Offline", "Snapshot", "Snapper"}
  /\ Circumstances \subseteq Possible
  /\ SnapperScope \subseteq Path

VARIABLES
  cat,        \* the catalogue
  made,       \* every archive ever made, by name
  present,    \* the names of those that still exist in their store
  completed,  \* the backups that ended well
  job, index, catchUp

vars == <<cat, made, present, completed, job, index, catchUp>>

Nothing == [p \in {} |-> p]

\* What an archive lists, and what the catalogue should show for it.
Archive == [repo: Repos, ts: Nat, listing: Listing, shows: Listing]

NoJob == [kind |-> "none", step |-> "none", name |-> 0, seq |-> 0, gone |-> {},
          listing |-> Nothing, shows |-> Nothing]
Resting == [step |-> "none", todo |-> <<>>]
NotCatchingUp == [owed |-> 0, step |-> "none", at |-> 0, snapshots |-> {},
                  spooled |-> {}, names |-> {}]

\* The job that has the repository to itself, a cataloguing job, and the
\* bookkeeping after a backup.
Job ==
  [kind: {"none", "Backup", "Offline", "Snapshot", "Snapper"},
   step: {"none", "room", "evict", "create", "append", "ingest", "prune", "reconcile",
          "walk", "expire", "remove"},
   name: 0 .. MaxArchives, seq: Nat, gone: SUBSET Nat, listing: Listing, shows: Listing]
IndexJob == [step: {"none", "read", "ingest"}, todo: Seq([seq: Nat, name: Nat])]
CatchUp ==
  [owed: Nat, step: {"none", "read", "snapshots", "delete", "spooled"}, at: Nat,
   snapshots: SUBSET Nat, spooled: SUBSET Nat, names: SUBSET Nat]

TypeOK ==
  /\ cat \in [rows: Seq(Row), versions: SUBSET Version]
  /\ made \in Seq(Archive) /\ Len(made) <= MaxArchives
  /\ present \subseteq DOMAIN made /\ completed \subseteq DOMAIN made
  /\ job \in Job
  /\ index \in [Indexer -> IndexJob]
  /\ catchUp \in CatchUp

Init ==
  /\ cat = Empty
  /\ made = <<>> /\ present = {} /\ completed = {}
  /\ job = NoJob
  /\ index = [i \in Indexer |-> Resting]
  /\ catchUp = NotCatchingUp

-----------------------------------------------------------------------------
May(what) == what \in Circumstances

Indexing == \E i \in Indexer : index[i].step # "none"
CatchingUp == catchUp.owed > 0 \/ catchUp.step # "none"

\* What RepoGuard admits, and when the catch-up bookkeeping lets it.
MayStart(kind) ==
  /\ kind \in Kinds
  /\ job = NoJob
  /\ CatchingUp => May("catch-up overlaps")
MayStartAlone(kind) == MayStart(kind) /\ ~Indexing

NextName == Len(made) + 1

\* Archives that exist and that no row stands for.
Unlisted == present \ Names(cat)

Timestamps == IF May("clock steps back") THEN 1 .. NextName ELSE {NextName}

Makes(repo, ts, listing, shows) ==
  /\ NextName <= MaxArchives
  /\ made' = Append(made, [repo |-> repo, ts |-> ts, listing |-> listing, shows |-> shows])
  /\ present' = present \cup {NextName}

\* The archives of a store, as it lists them.
Entries(repo) ==
  {[name |-> n, ts |-> made[n].ts] : n \in {m \in present : made[m].repo = repo}}

JobDoes(kind, step) == job.kind = kind /\ job.step = step
JobEnds == job' = NoJob
RowFor(n) == NewRow(n, made[n].ts, made[n].repo)

\* A store asked to remove these removes them, or only warns of some.
Stuck(names) == IF May("removal fails") THEN SUBSET names ELSE {{}}
NamesAt(seqs) == {cat.rows[s].name : s \in seqs}

-----------------------------------------------------------------------------
\* A backup: run and catalogue_archive.

\* Borg writes the archive of these files.
BackupCreates(files, ts) ==
  /\ MayStartAlone("Backup")
  /\ Makes("primary", ts, files, files)
  /\ job' = [NoJob EXCEPT !.kind = "Backup", !.step = "append", !.name = NextName]
  /\ UNCHANGED <<cat, completed, index, catchUp>>

\* Its row is recorded, pending.  The lock is given up with the seq in hand.
JobAppends ==
  /\ job.step = "append"
  /\ cat' = Appended(cat, RowFor(job.name))
  /\ job' = [job EXCEPT !.step = "ingest", !.seq = Len(cat.rows) + 1]
  /\ UNCHANGED <<made, present, completed, index, catchUp>>

BackupIngests ==
  /\ JobDoes("Backup", "ingest")
  /\ cat' = Ingested(cat, job.seq, made[job.name].listing)
  /\ job' = [job EXCEPT !.step = "prune"]
  /\ UNCHANGED <<made, present, completed, index, catchUp>>

\* The listing does not finish: the row stays pending, and the job goes on.
ListingFails ==
  /\ May("listing fails")
  /\ job.step = "ingest"
  /\ IF job.kind = "Backup" THEN job' = [job EXCEPT !.step = "prune"] ELSE JobEnds
  /\ UNCHANGED <<cat, made, present, completed, index, catchUp>>

\* The retention policy takes an older backup.
BackupPrunes(n) ==
  /\ May("prunes")
  /\ JobDoes("Backup", "prune")
  /\ n \in present /\ made[n].repo = "primary" /\ n # job.name
  /\ present' = present \ {n}
  /\ job' = [job EXCEPT !.step = "reconcile"]
  /\ UNCHANGED <<cat, made, completed, index, catchUp>>

BackupFinishes ==
  /\ JobEnds
  /\ completed' = completed \cup {job.name}
  /\ catchUp' = [catchUp EXCEPT !.owed = @ + 1]
  /\ UNCHANGED <<made, present, index>>

BackupReconciles ==
  /\ job.kind = "Backup" /\ job.step \in {"prune", "reconcile"}
  /\ cat' = Synced(cat, "primary", Entries("primary"))
  /\ BackupFinishes

\* There is no retention policy, or the prune or the reconciling failed.
BackupSkipsReconcile ==
  /\ job.kind = "Backup" /\ job.step \in {"prune", "reconcile"}
  /\ BackupFinishes
  /\ UNCHANGED cat

\* A cancelled job stops where it looks, leaving what it has done, as does a
\* backup whose prune fails in a way somebody has to act on.
JobStops ==
  /\ May("stops")
  /\ job.step \in {"append", "ingest", "prune"}
  /\ Cardinality(Unlisted) <= Newcomers
  /\ JobEnds
  /\ UNCHANGED <<cat, made, present, completed, index, catchUp>>

-----------------------------------------------------------------------------
\* Reconciling: catch_up, a job that shares the repository.

IndexSyncs(i) ==
  /\ MayStart("Index") /\ index[i].step = "none"
  /\ cat' = Synced(cat, "primary", Entries("primary"))
  /\ index' = [index EXCEPT ![i].step = "read"]
  /\ UNCHANGED <<made, present, completed, job, catchUp>>

\* Mutant: only the newest pending archive is read.
IndexReadsOne(i) ==
  /\ index[i].step = "read"
  /\ index' = [index EXCEPT ![i] = [step |-> "ingest",
                                    todo |-> IF Pending(cat) = <<>> THEN <<>>
                                             ELSE <<Head(Pending(cat))>>]]
  /\ UNCHANGED <<cat, made, present, completed, job, catchUp>>

IndexReads(i) ==
  /\ index[i].step = "read"
  /\ index' = [index EXCEPT ![i] = [step |-> "ingest", todo |-> Pending(cat)]]
  /\ UNCHANGED <<cat, made, present, completed, job, catchUp>>

\* The destination has the archive that is next, and lists it whole.
Listable(n) == n \in present /\ made[n].repo = "primary"

IndexIngests(i) ==
  /\ index[i].step = "ingest" /\ index[i].todo # <<>>
  /\ LET next == Head(index[i].todo)
     IN /\ Listable(next.name)
        /\ cat' = Ingested(cat, next.seq, made[next.name].listing)
  /\ index' = [index EXCEPT ![i].todo = Tail(@)]
  /\ UNCHANGED <<made, present, completed, job, catchUp>>

\* An archive that cannot be read stays pending and does not stop the rest.
IndexPassesOver(i) ==
  /\ index[i].step = "ingest" /\ index[i].todo # <<>>
  /\ ~Listable(Head(index[i].todo).name) \/ May("listing fails")
  /\ index' = [index EXCEPT ![i].todo = Tail(@)]
  /\ UNCHANGED <<cat, made, present, completed, job, catchUp>>

\* It has read everything, or it was cancelled between two archives.
IndexEnds(i) ==
  /\ index[i].step = "ingest"
  /\ index[i].todo = <<>> \/ May("stops")
  /\ index' = [index EXCEPT ![i] = Resting]
  /\ UNCHANGED <<cat, made, present, completed, job, catchUp>>

-----------------------------------------------------------------------------
\* Local protection in the spool: run_offline.

\* These files are walked and compared with the newest catalogued archive.
\* `changed' is what the spool takes, `then' the files as the catalogue
\* should show them: those, and everything else as it was.
OfflineDiffs(files) ==
  LET was     == Shown(cat, LatestCatalogued(cat))
      Same(p) == p \in DOMAIN was /\ was[p] = files[p]
      paths   == {p \in DOMAIN files : ~Same(p)}
      changed == [p \in paths |-> files[p]]
      then    == [p \in paths \cup DOMAIN was |->
                    IF p \in paths THEN files[p] ELSE was[p]]
  IN /\ MayStartAlone("Offline")
     /\ NextName <= MaxArchives
     /\ paths # {}
     /\ job' = [NoJob EXCEPT !.kind = "Offline", !.step = "room",
                             !.listing = changed, !.shows = then]
     /\ UNCHANGED <<cat, made, present, completed, index, catchUp>>

\* plan_cap: the oldest `k' of what the spool holds make room.  One that does
\* not fit whatever is evicted is not taken.
OfflinePlans(k) ==
  LET spool  == In(cat, "spool")
      oldest == {s \in spool : Cardinality({r \in spool : r <= s}) <= k}
  IN /\ JobDoes("Offline", "room")
     /\ k \in 0 .. Cardinality(spool)
     /\ k > 0 => May("spool full")
     /\ job' = [job EXCEPT !.gone = oldest, !.step = IF k = 0 THEN "create" ELSE "evict"]
     /\ UNCHANGED <<cat, made, present, completed, index, catchUp>>

OfflineHolds ==
  /\ May("spool full")
  /\ JobDoes("Offline", "room") /\ In(cat, "spool") # {}
  /\ JobEnds
  /\ UNCHANGED <<cat, made, present, completed, index, catchUp>>

\* The oldest leave the spool, and then the catalogue, at the seqs read before.
OfflineEvicts ==
  /\ JobDoes("Offline", "evict")
  /\ present' = present \ NamesAt(job.gone)
  /\ job' = [job EXCEPT !.step = "remove"]
  /\ UNCHANGED <<cat, made, completed, index, catchUp>>

OfflineRemoves ==
  /\ JobDoes("Offline", "remove")
  /\ cat' = Removed(cat, job.gone)
  /\ job' = [job EXCEPT !.step = "create", !.gone = {}]
  /\ UNCHANGED <<made, present, completed, index, catchUp>>

OfflineCreates(ts) ==
  /\ JobDoes("Offline", "create")
  /\ Makes("spool", ts, job.listing, job.shows)
  /\ job' = [NoJob EXCEPT !.kind = "Offline", !.step = "append", !.name = NextName]
  /\ UNCHANGED <<cat, completed, index, catchUp>>

OfflineIngests ==
  /\ JobDoes("Offline", "ingest")
  /\ cat' = DeltaIngested(cat, job.seq, made[job.name].listing)
  /\ JobEnds
  /\ UNCHANGED <<made, present, completed, index, catchUp>>

-----------------------------------------------------------------------------
\* Local protection by filesystem snapshots: run_snapshot.

SnapshotTakes(files, ts) ==
  /\ MayStartAlone("Snapshot")
  /\ Makes("fs-snapshot", ts, files, files)
  /\ job' = [NoJob EXCEPT !.kind = "Snapshot", !.step = "walk", !.name = NextName]
  /\ UNCHANGED <<cat, completed, index, catchUp>>

SnapshotIngests ==
  /\ JobDoes("Snapshot", "walk")
  /\ LET appended == Appended(cat, RowFor(job.name))
     IN cat' = Ingested(appended, Len(appended.rows), made[job.name].listing)
  /\ job' = [job EXCEPT !.step = "expire"]
  /\ UNCHANGED <<made, present, completed, index, catchUp>>

\* Those old enough are removed, first from the disk.  Any but the
\* one just taken may be.
SnapshotExpires(n) ==
  LET old == {s \in In(cat, "fs-snapshot") : cat.rows[s].ts <= n}
  IN /\ JobDoes("Snapshot", "expire") /\ n < made[job.name].ts
     /\ job' = [job EXCEPT !.step = "remove", !.gone = old]
     /\ \E stuck \in Stuck(NamesAt(old)) : present' = present \ (NamesAt(old) \ stuck)
     /\ UNCHANGED <<cat, made, completed, index, catchUp>>

SnapshotRemoves ==
  /\ JobDoes("Snapshot", "remove")
  /\ cat' = Removed(cat, job.gone)
  /\ JobEnds
  /\ UNCHANGED <<made, present, completed, index, catchUp>>

-----------------------------------------------------------------------------
\* Snapper's snapshots: taken and removed by Snapper, read by run_snapper.

SnapperTakes(files, ts) ==
  /\ "Snapper" \in Kinds
  /\ Cardinality(Unlisted) < Newcomers
  /\ DOMAIN files \subseteq SnapperScope
  /\ Makes("snapper", ts, files, files)
  /\ UNCHANGED <<cat, completed, job, index, catchUp>>

SnapperDeletes(n) ==
  /\ n \in present /\ made[n].repo = "snapper"
  /\ present' = present \ {n}
  /\ UNCHANGED <<cat, made, completed, job, index, catchUp>>

\* The rows are made to match, and the newest not read yet is picked.
SnapperSyncs ==
  /\ MayStartAlone("Snapper")
  /\ cat' = Synced(cat, "snapper", Entries("snapper"))
  /\ LET unread == PendingIn(cat', "snapper")
     IN job' = IF unread = {} THEN NoJob
               ELSE [NoJob EXCEPT !.kind = "Snapper", !.step = "walk",
                       !.name = cat'.rows[Max(unread)].name]
  /\ UNCHANGED <<made, present, completed, index, catchUp>>

\* Read in where its name is now.  Outside its subvolume it should show what
\* the archive before it shows.
SnapperReads ==
  LET at == SeqNamed(cat, "snapper", job.name)
  IN /\ JobDoes("Snapper", "walk")
     /\ JobEnds
     /\ IF at = {} THEN UNCHANGED <<cat, made>>
        ELSE LET s       == Max(at)
                 inside  == made[job.name].listing
                 before  == Shown(cat, s - 1)
                 shows   == [p \in DOMAIN inside \cup (DOMAIN before \ SnapperScope) |->
                               IF p \in SnapperScope THEN inside[p] ELSE before[p]]
             IN /\ cat' = ScopedIngested(cat, s, inside, SnapperScope)
                /\ made' = [made EXCEPT ![job.name].shows = shows]
     /\ UNCHANGED <<present, completed, index, catchUp>>

-----------------------------------------------------------------------------
\* After a backup to the destination: after_catch_up, in the fan-out loop.

Now == Len(made)

CatchUpMarks ==
  /\ catchUp.step = "none" /\ catchUp.owed > 0
  /\ cat' = MarkedExpirable(cat, Now)
  /\ catchUp' = [catchUp EXCEPT !.step = "read", !.owed = @ - 1, !.at = Now]
  /\ UNCHANGED <<made, present, completed, job, index>>

\* What has expired is read: a spool archive a month after its mark, so never
\* one this catch-up marked, a filesystem snapshot a day after it was taken.
\* `month' and `day' are those times ago.  The snapshots leave the disk.
CatchUpReads(month, day) ==
  LET marked == {s \in DOMAIN cat.rows : cat.rows[s].expirable # NoMark}
      snapshots == {s \in marked \cap In(cat, "fs-snapshot") : cat.rows[s].ts <= day}
      spooled == {s \in marked \cap In(cat, "spool") : cat.rows[s].expirable <= month}
  IN /\ catchUp.step = "read" /\ month < catchUp.at
     /\ catchUp' = [catchUp EXCEPT !.snapshots = snapshots, !.spooled = spooled,
                      !.names = NamesAt(spooled), !.at = 0, !.step = "snapshots"]
     /\ \E stuck \in Stuck(NamesAt(snapshots)) :
          present' = present \ (NamesAt(snapshots) \ stuck)
     /\ UNCHANGED <<cat, made, completed, job, index>>

\* The snapshots leave the catalogue, at the seqs read before.
CatchUpRemovesSnapshots ==
  /\ catchUp.step = "snapshots"
  /\ cat' = Removed(cat, catchUp.snapshots)
  /\ catchUp' = [catchUp EXCEPT !.snapshots = {},
                   !.step = IF catchUp.spooled = {} THEN "none" ELSE "delete"]
  /\ UNCHANGED <<made, present, completed, job, index>>

\* Then Borg deletes the spool archives, by name.
CatchUpDeletes ==
  /\ catchUp.step = "delete"
  /\ present' = present \ catchUp.names
  /\ catchUp' = [catchUp EXCEPT !.names = {}, !.step = "spooled"]
  /\ UNCHANGED <<cat, made, completed, job, index>>

\* And they leave the catalogue, at the seqs read before the snapshots left.
CatchUpRemovesSpooled ==
  /\ catchUp.step = "spooled"
  /\ cat' = Removed(cat, catchUp.spooled)
  /\ catchUp' = [catchUp EXCEPT !.spooled = {}, !.step = "none"]
  /\ UNCHANGED <<made, present, completed, job, index>>

-----------------------------------------------------------------------------
\* The daemon is killed and comes back: the catalogue and the stores are on
\* disk, the jobs and what they held are not.
Killed ==
  /\ May("crash")
  /\ JobEnds
  /\ index' = [i \in Indexer |-> Resting]
  /\ catchUp' = NotCatchingUp
  /\ UNCHANGED <<made, present, completed>>

Crash ==
  /\ Cardinality(Unlisted) <= Newcomers
  /\ job # NoJob \/ Indexing \/ CatchingUp
  /\ Killed
  /\ UNCHANGED cat

\* Between the two transactions a snapshot's row and its listing go in by.
CrashInSnapshot ==
  /\ JobDoes("Snapshot", "walk")
  /\ Killed
  /\ cat' = Appended(cat, RowFor(job.name))

BackupSteps ==
  \/ \E files \in Listing, ts \in Timestamps : BackupCreates(files, ts)
  \/ JobAppends \/ BackupIngests \/ ListingFails
  \/ \E n \in DOMAIN made : BackupPrunes(n)
  \/ BackupReconciles \/ BackupSkipsReconcile \/ JobStops

IndexSteps ==
  \E i \in Indexer : IndexSyncs(i) \/ IndexReads(i) \/ IndexIngests(i)
                     \/ IndexPassesOver(i) \/ IndexEnds(i)

OfflineSteps ==
  \/ \E files \in Listing : OfflineDiffs(files)
  \/ \E ts \in Timestamps : OfflineCreates(ts)
  \/ \E k \in 0 .. Len(cat.rows) : OfflinePlans(k)
  \/ OfflineHolds \/ OfflineEvicts \/ OfflineRemoves \/ OfflineIngests

SnapshotSteps ==
  \/ \E files \in Listing, ts \in Timestamps : SnapshotTakes(files, ts)
  \/ SnapshotIngests \/ SnapshotRemoves
  \/ \E n \in 0 .. Len(made) : SnapshotExpires(n)

SnapperSteps ==
  \/ \E files \in Listing, ts \in Timestamps : SnapperTakes(files, ts)
  \/ \E n \in DOMAIN made : SnapperDeletes(n)
  \/ SnapperSyncs \/ SnapperReads

CatchUpSteps ==
  \/ CatchUpMarks \/ CatchUpRemovesSnapshots \/ CatchUpDeletes \/ CatchUpRemovesSpooled
  \/ \E month, day \in 0 .. Now : month <= day /\ CatchUpReads(month, day)

Next ==
  \/ BackupSteps \/ IndexSteps \/ OfflineSteps \/ SnapshotSteps
  \/ SnapperSteps \/ CatchUpSteps \/ Crash \/ CrashInSnapshot

Spec == Init /\ [][Next]_vars

-----------------------------------------------------------------------------
\* Properties.

What == [n \in DOMAIN made |-> made[n].shows]

\* The catalogue is exactly what a from-scratch chronological ingest of the
\* archives catalogued so far would give, whatever order they were read in
\* and whatever was slotted in, split, rejoined, removed and merged since
\* (writer.rs: ingest_pending, sync_archives, remove_archives).
CatalogueIsReference == cat.versions = Reference(cat.rows, What)

\* No interval covers an archive whose listing nobody has read: the timeline
\* never claims to know what such an archive holds (split_versions_around).
NothingKnownOfUnread ==
  \A v \in cat.versions, s \in DOMAIN cat.rows :
    cat.rows[s].pending => ~(v.first <= s /\ s <= v.last)

\* A row leaves the catalogue only when its archive has left its store: an
\* eviction, an expiry or a prune never takes another archive's row by acting
\* on a position that has moved.
DropsOnlyWhatIsGone ==
  [][\A n \in Names(cat) \ Names(cat)' : n \notin present']_vars

\* Cataloguing job i comes to its end with everything it found read.
IndexCompletes(i) ==
  /\ index[i].step = "ingest" /\ index[i].todo = <<>>
  /\ index'[i] = Resting /\ cat' = cat

\* When a cataloguing job comes to its end, no archive the destination has is
\* left waiting to be read, whatever was cut short before (catch_up).
IndexLeavesNothing ==
  [][\A i \in Indexer : IndexCompletes(i) =>
       \A k \in DOMAIN Pending(cat) : ~Listable(Pending(cat)[k].name)]_vars

\* A local snapshot is marked as discardable only if a backup made after it
\* has reached the destination: until then it may be the only copy.
MarkedOnceCaughtUp ==
  \A s \in DOMAIN cat.rows :
    cat.rows[s].expirable # NoMark => \E b \in completed : b > cat.rows[s].name

\* A local snapshot's clock, once started, is never stopped or started again
\* for as long as it is in the catalogue.
ClockStartsOnce ==
  [][\A s \in DOMAIN cat.rows : cat.rows[s].expirable # NoMark
       => \A t \in DOMAIN cat'.rows : cat'.rows[t].name = cat.rows[s].name
            => cat'.rows[t].expirable = cat.rows[s].expirable]_vars

\* Every version the catalogue shows can be had from an archive it shows it
\* in: some archive of the interval lists that file with that content.
EveryVersionHeld ==
  \A v \in cat.versions : \E s \in v.first .. v.last :
    /\ s \in DOMAIN cat.rows
    /\ LET listing == made[cat.rows[s].name].listing
       IN v.path \in DOMAIN listing /\ listing[v.path] = v.content

\* Whatever was read in, folded in, slotted in and taken out, in any order, the
\* catalogue is what reading every archive in order gives (writer.rs).
CatalogueSafety == TypeOK /\ CatalogueIsReference

\* An archive of changes only: the spool's, which lists what differs from the
\* newest archive catalogued before it.
HasDeltas == \E n \in DOMAIN made : made[n].repo = "spool"

\* The same, for as long as the spool has taken nothing: an archive of changes that
\* goes in behind one nobody has read does not meet what it builds on.
OrderSafety == ~HasDeltas => CatalogueSafety

\* With backups that only this computer has, nothing is marked as discardable too
\* early, and no version is shown that cannot be had (mark_caught_up, pipeline.rs).
LocalSafety == CatalogueSafety /\ MarkedOnceCaughtUp /\ EveryVersionHeld
=============================================================================
