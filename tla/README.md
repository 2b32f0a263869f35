# A TLA+ model of BackTrack

BackTrack is a Time-Machine-like backup program for Linux desktops, built on
Borg.  A daemon (`crates/backtrackd`) runs the backups, keeps a catalogue of
what each archive holds, restores files and decides when to do what; a GTK
application, a command line and file-manager plug-ins talk to it over D-Bus;
`crates/backtrack-core` holds the engine adapter, the catalogue, the restore
algorithms and the stores of secrets.  This directory models the daemon's and
the core's own logic, and the desktop's side of every conversation that takes
several steps.

Every definition is translated from the source, and `PROJECT.json` ("map") says
from which lines.  This file says what the parts are, how they are modelled,
what the checks and the proofs show, and what is left.

## 1. The system's parts

Paths are under `src/crates/`; `daemon` is `backtrackd/src`, `core` is
`backtrack-core/src`, `gtk` is `backtrack-gtk/src`.

| Component | State it keeps | Operations | Hard behaviour | What makes it correct |
|---|---|---|---|---|
| **Job registry** `daemon/jobs/` | jobs and their states, the queue, a cancellation token per start | submit, submit_paused, submit_local, cancel, pause, resume, pump, run, settle | each method takes the mutex several times, from many threads; runs are spawned tasks | jobs that exclude each other do not overlap; nothing waits for a free repository; a run settles its own job once; a cancel is not lost |
| **Catalogue writer** `core/index/writer.rs` | `archives` in order (a row's seq is its position), `versions`: intervals of seqs in which a path had one content | append, ingest (full, delta, scoped), remove, sync, mark as expirable | rows are read in any order; a seq moves when rows come and go | the intervals are what a chronological reading would give; none claims an archive nobody read |
| **Catalogue reader** `core/index/reader.rs` | — (queries) | entries and badges, archives listed for a folder, next change, totals, what an archive holds alone, search | every answer is made of interval ends | the answers are true of the archives |
| **Backup pipeline** `daemon/pipeline.rs`, `offline.rs`, `snapshot.rs`, `snapper.rs` | what a job carries between its awaits | backup, prune, compact, reconcile, catalogue pending, offline backup with a capped spool, filesystem snapshots, Snapper | Borg runs for hours between a row and its listing; crashes, cancels and failures in between | a row goes only with its archive; what is left pending is read later; the spool keeps its limit |
| **Catch-up bookkeeping** `daemon/service/mod.rs` | — (runs in the fan-out loop) | mark local snapshots as caught up, expire them | is no job, so no admission control covers it | nothing is discardable before it reached the destination |
| **Walk and patterns** `core/walk.rs`, `core/pattern.rs`, `core/engine/folder.rs` | — | match a path, list a tree without Borg, copy out of a snapshot | has to agree with Borg's own matching and walking | what is walked is what a backup would hold |
| **Scheduler, preflight, reachability** `daemon/schedule.rs`, `preflight.rs`, `reachability.rs` | next sleep, deferred flag, what is believed of the destination; persisted attempt times | tick, maintenance, decide, gates, probe | input read at the start of a tick, used after several awaits; two writers of one flag | one scheduled run at a time, an interval apart; protected for ever |
| **Restore engine** `core/restore/`, `daemon/restore.rs` | the stash and its journal | classify, plan, stash, place, undo, put back, expire | one rename of many failing; a crash between two | nothing is lost that was there; an undo puts it back |
| **Trash index** `daemon/trash.rs`, `core/trash.rs` | what is in the desktop's Trash and in no backup | watch, scan, overlay on the window's folders, restore from it | the Trash changes by itself | what is shown is what comes back |
| **Disaster recovery** `daemon/recovery.rs`, `core/recovery.rs` | a manifest of steps saved after each, the log of what was added | begin, run, pause, resume, cancel, discard, hand over | crash between a file and its record; a pause against a start | each step done once; the person's own files survive a discard |
| **Health and escalation** `daemon/service/health.rs`, `escalation.rs`, `notify.rs` | health, the latched failure, what was told | evaluate, latch, notify, pause | precedence; told once; ends that get lost | stale protection is never shown as healthy |
| **Signal fan-out** `daemon/service/mod.rs` | a broadcast receiver | forward updates, react to ends of jobs | lag, order of publication | no end of a job is missed |
| **Secrets** `core/secret/`, `daemon/service/mod.rs` | the passphrase in the keyring, in memory, in the keys of two repositories | set up, import, change, unlock, remember, reset | three places, one change | the passphrase kept opens both repositories |
| **Preview cache** `daemon/service/preview.rs` | a directory of limited size | extract, rename, touch, evict, clear | callers side by side | what is handed over is whole and stays until it is |
| **Engine adapter** `core/engine/borg/` | a child process | create, list, extract, prune, compact, check | the child outlives the cancel by its grace | the repository is free when it is said to be |
| **Start-up and supervision** `daemon/daemon.rs`, `supervise.rs`, `background.rs` | the bus name, staging directories, the login link | claim, sweep, notice, restart, leave when idle | two daemons | one daemon at a time, there when it is needed |
| **D-Bus interface** `daemon/service/` | pauses, configuration, caches | about seventy methods | check-then-act over several awaits | see the components they delegate to |
| **Desktop: browsing** `gtk/window.rs`, `state.rs`, `ui/files.rs`, … | the folder and the backup looked at, what was loaded | navigate, step, load, paint, preview | answers come after the person moved on; backups are renumbered | what the pane shows is what a restore takes |
| **Desktop: dialogs over work** `gtk/ui/restore.rs`, `ui/everything.rs`, `ui/fix/repair.rs` | what is asked, waited for and offered | prepare, ask, run, undo; watch, pause, stop, review; check, repair, begin anew | jobs end, fail and restart under an open question | what is said is done, and the other way round |
| **Desktop: wizard, preferences** `gtk/ui/wizard/`, `ui/prefs.rs` | the choices; a copy of the settings | set up, import; change a setting | settings written whole from an old copy; several writes of which one fails | nothing half done; the last word holds |
| **Command line, plug-ins, packaging** | — | — | — | — |

How they interact.  A client's call, the loop or the reachability watch submits
a job to the **registry**; the **pump** starts it when the **guard** admits its
access; its run drives the **engine** and writes the **catalogue**; the
registry's updates go to the **fan-out** loop, which at the end of a job does
the catch-up bookkeeping, evaluates health, sends D-Bus signals and wakes the
**scheduler**.  A **recovery** is one pausable job of the registry whose
manifest holds the schedule off while folders are left.  The **desktop** reads
the catalogue itself (a database beside the daemon's), asks the daemon for
everything that changes something, and follows its signals.

`PROJECT.json` lists the components with their status, and under "hazards" what
in this code is hard to test, each at its line with the property that would
catch it.

## 2. The modules

| Module | Models | Checked in |
|---|---|---|
| `Jobs` | kinds, access modes, states, the transition table and `RepoGuard::admits` (`jobs/mod.rs`, `jobs/guard.rs`) | |
| `RepoLock` | abstract: a readers-writer lock | `registry_races` |
| `JobRegistry` | `jobs/registry.rs`, implements `RepoLock`; proofs in `DaemonProofs` | `registry_races`, `registry_live` |
| `Catalogue` | the operations of `IndexWriter` on archives and versions, and `Reference`, what they should give | `catalogue_safe` |
| `Cataloguing` | the jobs and the bookkeeping that write the catalogue; uses `Catalogue`; proofs in `CataloguingProofs` | `catalogue_safe` |
| `SpoolCap` | `plan_cap`, what the spool's limit allows (`offline.rs`) | `catalogue_safe` |
| `Scheduler` | the loop, the watch, the gates and the submissions; proofs in `SchedulerProofs` | `schedule_safe`, `schedule_live` |
| `Restore` | plan, execution, stash, undo, put-back; proofs in `RestoreProofs` | `restore_safe` |
| `Recovery` | the manifest, the run, the calls; proofs in `RecoveryProofs` | `recovery_safe` |
| `Health` | the latch, the channel, the notices, the pause; proofs in `HealthProofs` | `health_safe` |
| `Passphrases` | where the passphrase is, and every call that moves it; proofs in `PassphraseProofs` | `stores_safe` |
| `PreviewCache` | `PreviewCache` and its callers | `stores_safe` |
| `TrashIndex` | the watch of the Trash, its overlay, a restore from it | `stores_safe` |
| `Patterns` | `glob_match` against what a Borg pattern means | `stores_safe` |
| `Walking` | the walk of a snapshot and the copy out of it | `stores_safe` |
| `Reading` | the queries of `IndexReader` | `window_safe` |
| `Window` | the main window against a catalogue that changes; proofs in `WindowProofs` | `window_safe` |
| `Instances` | processes: claim, sweep, lose the bus, leave, be restarted; proofs in `DaemonProofs` | `registry_live` |
| `BorgStreams` | a Borg process, the tasks that read it, and the ends they report; proofs in `DaemonProofs` | `registry_live`, `listing_cut` |
| `Daemon` | `JobRegistry`, with `Instances` (`D`) and `BorgStreams` (`B`) beside it | `registry_live` |
| `Asking` | the restore conversation of the window | `desktop_safe` |
| `Following` | the window over a restore of everything | `desktop_safe` |
| `Wizard` | the welcome wizard | `desktop_safe` |
| `Preferences` | the preferences and `set_config` | `desktop_safe` |
| `Repairing` | the guided repair | `desktop_safe` |
| `MCJobRegistry`, `MCScheduler` | constants for TLC | |
| `MCCataloguing`, `MCRestore`, `MCStores`, `MCBrowsing`, `MCDaemon`, `MCDesktop` | several modules, or several instances of one, side by side | |

The modules of the last row are unions: the parts share no state, so a behaviour
is about one of them (`about`), the others stay as they began, and the run's
invariant is the conjunction of the parts' own.  The states of a union are the
sum of the parts', not their product.

### The registry (`JobRegistry`)

The registry is one `Mutex<Inner>`.  An action is one lock region, so a method
is a sequence of actions of one client (`call[c].pc` says where it is), and what
it read in one region it uses in the next: `cancel` reads the state
(`CancelBegin`), transitions (`CancelApply`), trips the token (`CancelTrip`),
leaves the queue (`CancelDequeue`) and pumps.  `PumpStart` is one turn of the
pump's loop: the first entry the guard admits becomes Running, *whatever state
it was in*, as in the code.  `tasks` are the spawned runs, from the check of the
token to the settlement; each start makes a new token, named by the run number.
`borg` is the engine work of a run, which outlives the stream by its grace.
Pump, settle and the rest are shared by clients and runs.

### The catalogue (`Catalogue`, `Cataloguing`, `SpoolCap`, `Reading`)

`Catalogue` has state `[rows, versions]`; a row's position is its seq, so that
removing and slotting in renumber as in the code (`Removed`, `SlottedIn`).
`Folded` is the ingest of a listing between its neighbours, `DeltaIngested` and
`ScopedIngested` carry over what a partial listing does not speak of,
`SplitAround` keeps intervals off newcomers.  The `directories` table repeats
`versions` for folders, and is left out with checksums and the search index.

`Reference(rows, what)` is the definition the intervals are checked against: for
every catalogued row the listing it should show, adjacent equal ones joined.

`Cataloguing` has the jobs.  `job` is the one exclusive job (a backup, an
offline run, a snapshot, Snapper's), `index` the cataloguing jobs, which share
the repository, and `catchUp` the fan-out loop's bookkeeping, which takes no
lock on it.  A job awaits Borg between the places where it holds the writer;
each such place is an action.  `made` has each archive's true contents;
`present` says which still exist; an archive's listing is chosen when it is
made, which stands for every change to the files since.

`SpoolCap` has `plan_cap` as a function of the numbers it is given, with the
saturating sums of its integers, and looks at every spool of up to three
archives of up to two bytes whenever an offline backup makes room.

`Reading` puts a catalogue together by any appends, insertions, ingests and
removals, keeps beside it what each archive truly holds (`holds`), and asks
every query of every folder, path and archive in every state.

### When a backup starts (`Scheduler`)

The unit of time is a minute: `MAX_SLEEP`, `POLL_INTERVAL` and
`MIN_TRANSITION_GAP` are one each.  Persisted times are ages, kept as far as the
code tells them apart.  A tick reads its input (`Ticks`), considers and starts
maintenance (`LoopConsiders`, `LoopMaintains`), decides (`LoopDecides`) and, if
it starts a backup, goes through the steps of `start_scheduled_backup`
(`ReadsFacts`, `Probes`, `Protects`, `ReadsNames`, `Submits`), as the watch does
on a reconnection and a client's call does from the second step; each is an
action because another task can come in between.  The jobs are the registry's,
reduced to their order: a recovery's runs beside none of the others.
`SecondPasses` exists for the archive names, which have a second's resolution.

### Restoring (`Restore`, `Recovery`, `TrashIndex`)

In `Restore` a file is a number: what the person wrote counts up, what a backup
holds is negative, 0 is no file.  Preparing reads the disk and makes a plan; an
execution goes over its paths, and each rename and each removal is an action,
since a crash, a failure or another task can come between any two.  The journal
in the stash is what an undo goes by.  A second stands for an hour where the
code says an hour (`EVICTION_GRACE`) and for thirty days where it says thirty
days (`KEEP_DAYS`): only their order matters.

In `Recovery` the manifest, the files and the recovery's folder outlive the
daemon; `work` is the copy of the manifest a run holds, saved by it after each
step.  Runs take turns (`turn`), as the mutex makes them.  Of the registry there
are the states of the recovery's jobs.  `DaemonStops` loses what is in memory.

`TrashIndex` has the Trash as the desktop changes it, the daemon's watch with
events that are still under way, the rescan, what the window laid over a folder,
and a restore that lays it again minutes later.

### What is said (`Health`)

The fan-out loop is one task: it takes one update off a channel of `Buffer`
places that drops its oldest when full, or notices that facts changed, or looks
by itself.  Facts (destination, keyring, engine, pause, ages) move between.
Notices are shown by the desktop in a time of their own (`telling`).

### What is kept beside the catalogue (`Passphrases`, `PreviewCache`)

Each call that moves a passphrase is a task: every Borg command and every use of
the keyring in it is a step that may fail.  The cache's callers share nothing
but the directory, so each look at it and each change of it is a step.

### What a backup holds, without Borg (`Patterns`, `Walking`)

`Patterns` runs `glob_match` a step at a time over a pattern of every style and a
text, and compares the verdict with a declarative reading of what the pattern
means.  `Walking` walks a tree with a mounted disk and Backtrack's own folder in
it, as a delta, a snapshot's cataloguing and a restore's copy do.

### Processes (`Instances`)

A process starts, claims the name, sweeps what an earlier one left, serves, may
lose its bus and notice later, fails, finds itself idle and leaves; the unit
that started it starts it again.  What the login link says is written in two
steps, as `background.rs` does.

### A Borg and its readers (`BorgStreams`)

One invocation, of one of five uses: a job with progress, a check, a file, a
listing, a short command.  Borg itself is external: it takes its lock, writes,
fails with a cause and says so in lines, stops when told, gives its lock up.
Between it and the daemon are two pipes that hold so much and then make it wait.
Ours are the task that reads the messages (`forward_line`, the select of
`spawn`, the task of `spawn_stdout`), the channel of events, the one who wants
the result, and `Stopping`, which tells a Borg that is let go of and kills it
when its grace is over.

### The windows (`Window`, `Asking`, `Following`, `Wizard`, `Preferences`, `Repairing`)

Each has the person's moves, the calls on their way, the answers on theirs, and
as much of the daemon as the answers depend on.  An await in the code is a step
boundary in the model: what was read before it is kept in a variable of the
window, and other things happen meanwhile.

## 3. What is checked

Every property is explained where it is defined.  Each passing run's properties
are guarded by mutants (`PROJECT.json`): a plausible bug in the code each of
them catches.  A property named ...Safety is a conjunction; its parts are in the
right column.

### Passing runs

| Run | Bounds | Properties, and the parts of those that are conjunctions |
|---|---|---|
| `registry_races` | 2 clients, 4 calls of every method, 2 jobs of a writer, a reader, local work and a pausable recovery | exclusion, no lost wakeup, no orphaned run, nothing started twice, no lost cancel, in every interleaving of lock regions; the registry implements `RepoLock` |
| `registry_live` | the registry: 2 jobs, 3 calls of submit, pause, resume. Processes: 2, of which one is the unit's, 2 jobs, 3 starts, 2 events. A Borg of every use, 3 units of output, pipes of 2 lines, a channel of 1. Fairness | a running job ends, a queued one moves; `ProcessSafety`: `ActsAlone`, `PreparedIsWhole`, `NothingIsLeftBehind`, `LeavesNothing`, `LoginFollows`, and of a Borg `CleanEndIsWhole`, `CommittedIsWhole`, `FailureIsNamed`, `StopsByItself`, `LetGoIsTold`; a failed daemon comes back and who listens to a Borg hears its end (`EndsAreHeard`) |
| `schedule_safe` | interval 2, both maintenance jobs every 3, 2 disturbances of all ten kinds | `ScheduleSafety` (the loop never has two runs of its own: `LoopNeverQueuesBehindItself`); its runs are an interval apart |
| `schedule_live` | interval 2, 2 disturbances of destination, calls, suspend, gates; fairness | once nothing holds backups back they are attempted for ever and reach a destination that is there (`ProtectsForever`, `BacksUpForever`); maintenance gets its turn |
| `catalogue_safe` | 4 archives, 2 paths; four instances: cancellations, prunes and Snapper; an archive found later; spool deltas and catch-up, 2 contents; a full spool of 3 archives with failing listings and crashes | the catalogue is the chronological one (`OrderSafety`, until the spool takes an archive, in all four instances); what is marked as discardable reached the destination (`MarkedOnceCaughtUp`), and what is shown can be had (`EveryVersionHeld`); nothing is known of what nobody read (`NothingKnownOfUnread`) and the limit is kept (`CapIsKept`); a cataloguing job leaves nothing unread; marks stay; a row goes only with its archive |
| `restore_safe` | 1 path, 2 seconds, 1 event, and either 2 restores or restores of the Trash with 3 tasks, or one restore undone, put back and undone again; the stash holds one file for one second | nothing of the person's is lost (`NothingLost`); answers are carried out and an undo puts back what was there (`AnswersAreCarriedOut`, `UndoPutsBack`); the stash does not evict what a restore still running put there |
| `recovery_safe` | 2 folders of one file, 1 caller, 3 calls, 3 runs, 2 events; fairness | `EveryStepIsBack`, `TheirsIsSafe`, `PausedIsWrittenDown`; `DiscardTakesAway`, `ForgottenWhenOver`; `ComesToItsEnd`: a recovery under way is paused, failed, called off or handed over |
| `health_safe` | 2 failures, 2 ended jobs, a channel of 1, 4 units of time, 2 events; fairness | `LatchIsTrue`, `ScreenHasNothingFixed`, `PauseIsKept`; `BrokenAtMostDaily`, `RiskCadence`; every client hears of a change |
| `stores_safe` | passphrases: 2 repositories, 2 passphrases, 5 calls, 3 events. Previews: 2 callers, 3 files, room for 2 bytes, 3 calls, 1 restart. Trash: 2 events, 1 backup. Patterns: 2 letters, 3 pieces, 4 characters. Walks: a tree of 8 entries, 3 sets of sources, 3 of exclusions, 2 removals | `SpoolOpens`, `StoredOpens`, `FlagIsSetting`, `KeyringForgets`, and a change of passphrase moves all there is; `ServedIsWhole`, `GoneIfCrowdedOut`, `QuietCacheFits`; `ListingIsCurrent`, `OffersWhatNoBackupHas`, `ShownIsRestored`, `LatestIsNewest`; `LeavesOutNoMore`, `SaysWhatIsMeant`; `WalkIsTheBackup`, `BringsWhatIsShown` |
| `window_safe` | the window: 2 folders, 3 archives, 2 moves of the person or failed queries, 1 change of the catalogue. Queries: a tree of 4 paths, 7 listings, 3 archives | `PaneIsTheBackup`, `ListIsTheFolders`, `LandingHoldsIt`; `BadgesAreTrue`, `HidesNothing`, `ListsTheChanges`, `StepsToTheChange`, `TotalsAreTheArchives`, `HoldsItsOwn`, `FoundForItsLife` |
| `desktop_safe` | asking: 2 paths, 5 plans, 2 restores, 1 restart. Following: 2 requests, 5 turns. Wizard: 3 places, 2 passphrases, 4 turns. Preferences: 3 folders, 2 exclusions, 3 changes, 2 by others. Repair: 2 dialogs, 7 acts. Fairness | `DoesWhatItSaid`, `TypesChangeByHand`, `UndoesItsOwn`, `OfferHolds`, `SaysOnlyWhatIsDone`, `LeavesNothingPrepared`; `SaysHowItIs`, `SaysWhenOver`; `StartsWhereItSays`, `NothingHalfDone`, `PassphraseIsTheRepositorys`, `OthersSettingsStay`; `ShownIsHeld`, `LastWordHolds`; `SaysWhatWasFound`, `OnlyTheHopeless`, `StillUnderWay`; what is stopped is what runs; no window waits for ever |

Why the bounds are enough to be of interest.  *Registry*: the races are between
two methods and a run of one job, or about what one job's end does to another
that waits; two jobs, two clients and four calls (three where fairness is assumed and
liveness checked) give every pair of methods on both.  A queue whose blocked head is overtaken takes three jobs: that the scan
forgets nobody then is proved (`Wakeup`), as are the other safety properties for
any number of jobs, clients and calls.  *Catalogue*: the rules treat each path
on its own, and an ingest looks at one neighbour on each side, so four archives
give a newcomer with both neighbours, read and unread, and something beyond; a
second path is there where a listing must exist that does not mention the
first.  *Scheduler*: the loop compares ages with one and two intervals; two
minutes tell "due", "missed" and "not due" apart.  *Restore*: paths of a plan do
not affect each other except by the crash that stops between them (an instance
with two paths passes too); what affects a path is the order of tasks, and three
give restore, undo and another of either.  *Recovery*: two steps give one that
is done beside one that is not; one of two files passes as well.  *Health*: two
failures are what it takes for one to hide another; a channel of one is full as
soon as anything is said before the loop looks.  *Passphrases*: two places give the
one left and the one moved to.  *Windows*: an answer that is late needs one
move after its question, and a second to tell the two answers apart; a query that
fails takes the place of a move.

Symmetry is used for clients in `registry_races` only.

Deadlock is not checked where the model may stop, when the calls, archives,
events or turns of the bounds are used up.  The scheduler never stops, and there
it is checked.

### Fairness

*Registry*: the runtime polls a spawned task that can go on and a method that
was entered; Borg's child exits (it is killed after its grace).  Weak fairness
for each; nobody has to call anything, and a factory or an engine may fail.
*Processes*: a process that was started goes on, and the unit starts a failed
one again (`Restart=on-failure`).
*Scheduler*: weak fairness of the loop's, the watch's and each starter's steps
(Tokio tasks and timers), of the end of a job, and of time.  Three timing
assumptions are written in the model: time passes only while the loop sleeps or
starts a backup, and not when its timer has fired (`TimePasses`; the circumstance
"delays" lifts the second, for safety); maintenance is over a minute before it is
due again (`UpkeepIsQuick`: it is due after a day or a month); and only so many
disturbances happen.  The liveness properties all assume that what holds
backups back is over for good.
*Recovery*: the daemon goes on with something it can do, a run, a call, the
hand-over or carrying on after a restart (one weak fairness of them all, so no
step is favoured).
*A Borg*: unless it hangs it goes on; the runtime polls each reader and its
timers, and whoever wants the result takes what arrives.
*Health*: the loop goes on, and the desktop shows what it was told.
*Desktop*: a call is answered, a job ends, and the windows handle what arrives;
a question put over work that is under way is answered.  The person has to do
nothing else.  A part that a behaviour is not about begins in a state where
nothing that is fair of it is enabled.

### Where the code and its comments differ

`listing_cut` is a run of one property that TLC finds violated: when the output
of `borg list` ends, `list_archive` waits for Borg and does not look at how it
exited (`core/engine/borg/mod.rs:339`), so that a listing cut short by a failing
Borg ends like a complete one, and what was read of it is committed as the
archive's catalogue.  The channel it goes through was made so that it would not
be (`daemon/pipeline.rs:244-248`).

Modelling met more of the kind.  The passing runs leave out the circumstances
that break their properties, so that they show what does hold, and these tables
list what they leave out.  To see a row, put the circumstance named in its
second column into `Circumstances`, in the run's cfg or in the `INSTANCE` of the
union, and check the part named in the third (some parts hold in no run: they
are defined for their row only).  "—" is a row that needs no circumstance.
Each takes TLC seconds.  They are races and rare combinations, and most cost a
delay, a wrong entry or a wrong word, not a backup.

| `JobRegistry` | Circumstance | Part | What happens |
|---|---|---|---|
| stopped | — | `CancelledIsStopped` | a cancel that read Queued marks a job Cancelled that the pump has started; its engine goes on (`registry.rs:241`) |
| cancelling | — | `CancellingResolves` | a factory fails while its job is Cancelling; Failed is refused and the job stays, holding the repository (`registry.rs:383`) |
| terminal | — | `TerminalIsFinal` | the pump starts a job between a cancel's transition and its removal from the queue; Done goes back to Running (`registry.rs:329`) |
| oldrun | — | `SettlesOwnRun` | an earlier run passes `settle_run`'s check and settles the job after a pause, a resume and a new start (`registry.rs:497`) |
| engine | — | `EngineExclusion` | the next writer is admitted while the cancelled Borg is still exiting (`registry.rs:399`) |

| `Cataloguing` | Circumstance | Part | What happens |
|---|---|---|---|
| newcomers | "spool full" with `Newcomers = 2` and Snapper | `NothingKnownOfUnread` | two adjacent newcomers in one sync leave an interval over the second, though "an interval never claims a file was unchanged across an archive nobody has read" (`writer.rs:689`, 365-367) |
| behind | "listing fails" | `CatalogueIsReference` | a delta behind a pending archive drops every file it does not mention, though "the catalogue has to read the rest … as still being there" (`writer.rs:550`, 398-400) |
| overlap | "catch-up overlaps" | `DropsOnlyWhatIsGone` | a Snapper job renumbers rows while the bookkeeping awaits Borg (`mod.rs:1095`, `jobs/mod.rs:84-85`) |
| mixed | all kinds of local snapshot | `DropsOnlyWhatIsGone` | seqs read before a renumbering remove another archive's row (`mod.rs:1095`, `writer.rs:741-742`) |
| clock | "clock steps back" | `CatalogueIsReference` | a clock that stepped back makes a sync reorder existing rows (`writer.rs:631`, 645-647) |
| marks | Snapper with `Newcomers = 1` | `ClockStartsOnce` | slotting an archive in clears every `expirable_at` (`writer.rs:664`, 808-809) |
| race | "catch-up overlaps" | `MarkedOnceCaughtUp` | a local backup that starts before the marking is marked too (`mod.rs:4255`, 4252-4253) |
| evicted | "spool full" | `EveryVersionHeld` | the timeline shows versions only an evicted archive held (`pipeline.rs:619`) |
| twice | "crash" with two indexers | `CatalogueIsReference` | two cataloguing jobs read the same archive in (`mod.rs:1754`, `writer.rs:362-363`) |
| orphan | "removal fails" | `DropsOnlyWhatIsGone` | a snapshot that could not be deleted loses its row (`pipeline.rs:928`, `mod.rs:1063-1064`) |
| sizes | — | `CapIsKeptAnyway` | archives of different sizes: an even share is reckoned to go, and the limit is exceeded, though "being wrong only changes how many snapshots are dropped in one go, never whether the cap is respected" (`offline.rs:98`, 82-84) |

| `Scheduler` | Circumstance | Part | What happens |
|---|---|---|---|
| recovery | "recovery" | `BackupsAwaitRecovery` | a backup is submitted while a recovery has folders left |
| first | — | `MaintenanceComesFirst` | a tick that starts maintenance starts a backup too: the busy flag was read before (`schedule.rs:280`) |
| names | "calls", "seconds" | `NamesAreFree` | two backups of one second get one name (`mod.rs:1384`) |
| loss | "destination" | `LossIsCovered` | the loss of the destination wakes a loop that has nothing due (`mod.rs:1001`) |
| return | "destination" | `ReturnIsNoticed` | a probe's answer bypasses the tracker, and the return is not noticed (`mod.rs:1303`) |

| `Restore` | Circumstance | Part | What happens |
|---|---|---|---|
| order | "out of order" | `NothingLost` | an undo after something else moved the same file, or a second undo, removes what is there (`execute.rs:374`) |
| meanwhile | "meanwhile" | `NothingLost` | what is written between the plan and the rename is overwritten (`execute.rs:302`) |
| second | "same second" | `NothingLost` | two restores of one second share a directory of the stash (`execute.rs:137`) |
| instant | — | `EveryPathIsHeld` | a crash between the two renames leaves nothing at the path, though "every path holds either the old file or the new one at every instant" (`execute.rs:275`, 6-7) |
| failed | — | `EveryMoveIsWrittenDown` | a rename that fails ends the run before the journal has the moves made (`execute.rs:275`) |
| long | "long" | `GraceCoversTheRestore` | a restore that takes longer than the grace has its own stash evicted (`stash.rs:186`) |

| `Recovery` | Circumstance | Part | What happens |
|---|---|---|---|
| pause | "quick" | `PausedIsWrittenDown` | a pause lands before the run it is for has its turn; the flag is cleared (`recovery.rs:538`; a second pause while one winds down does the same, `mod.rs:3468`) |
| late | "late" | `ComesToItsEnd` | a recovery that finishes while it is being paused is over and nothing is handed over (`mod.rs:895`) |
| crash | "in between" | `DiscardTakesAway` | a file that was placed and not yet recorded is counted as the person's own (`recovery.rs:1185`) |
| discard | "in between" | `EveryStepIsBack` | a crash between discarding and forgetting leaves steps done that are gone (`recovery.rs:1260`) |
| twice | "side by side" | `ForgottenWhenOver` | two calls begin a recovery, the second over the first's manifest (`mod.rs:616`) |
| meanwhile | "meanwhile" | `TheirsIsSafe` | what the person writes while a folder is put in place is overwritten (`recovery.rs:752`) |

| `Health` | Circumstance | Part | What happens |
|---|---|---|---|
| lag | "lag" | `LatchIsTrue` | the end of a failed backup is among what the channel dropped, though a lagging subscriber never misses "the state changes it needs to stay correct" (`registry.rs:29-30`, `mod.rs:4180`) |
| restart | "forgotten" | `LatchIsTrue` | the latch is in memory only, though "only a successful backup clears it" (`mod.rs:4334-4339`) |
| fix | "side by side" | `LatchIsTrue` | the passphrase is given while a backup with the old one ends; its failure is latched after the fix (`mod.rs:3801`) |
| pauses | "side by side", two callers | `PauseIsKept` | memory and disk are written in two steps, and end up with different pauses (`mod.rs:2725`) |
| turns | "in turns", three ends | `BrokenAtMostDaily` | two failures alternate, and each is told as new (`escalation.rs:104-110`) |
| slow | "slow" | `ScreenHasNothingFixed`; with three ends `OneNotice` | a notice is withdrawn before the desktop has given it an id, and stays (`notify.rs:339`) |
| late | "long" | `RiskCadence` | a backup is dated to its start, so one that ends late is at risk at once |

| `Passphrases` | Circumstance | Part | What happens |
|---|---|---|---|
| undo | "refuses" | `SpoolOpens` | storing fails after both keys were changed, and only one is undone, though "the two never disagree" (`mod.rs:3671`, 3640-3641) |
| crash | "crash" | `SpoolOpens` | the daemon stops between the two changes (`mod.rs:3643`) |
| typo | "same place" | `StoredOpens` | an import of the destination in use stores before it verified (`mod.rs:3943`, 3927-3928) |
| refused | "refuses" | `FlagIsSetting` | the store's flag is set before the keyring refused (`session.rs:49`, `mod.rs:3509-3510`) |
| locked | "locked" | `KeyringForgets` | what is in a locked keyring stays there when remembering is switched off |
| again, beside, reset, oldkey, hand | "same place", "side by side", "reset", "old key", "by hand" | `SpoolOpens` | the local safety net keeps the passphrase of a destination that was replaced, reset, restored from an old key or set by hand (`mod.rs:1507`) |

| `PreviewCache` | Circumstance | Part | What happens |
|---|---|---|---|
| together | "together" | `GoneIfCrowdedOut` | two evictions measure the cache side by side and take away a fresh file (`preview.rs:130-141`) |
| late, kill | "late", "kill" | `QuietCacheFits` | an extraction that failed late, or was killed, leaves the cache over its size (`mod.rs:4114`) |
| large | a file larger than the cache | `ExtractedIsShown` | it is evicted by its own arrival (`preview.rs:109-111`) |

| `TrashIndex` | Circumstance | Part | What happens |
|---|---|---|---|
| unwatched | "unwatched" | `ListingIsCurrent` | what goes to the Trash between the first look and the watch is not seen (`trash.rs:163-176`) |
| inside, rebuild | "inside", "rebuild" | `ListingIsCurrent` | a folder in the Trash is not watched; clearing the catalogue does not ask for a new look (`mod.rs:3713`) |
| overlap | "overlap", four events | `ShownIsRestored`, `OffersWhatNoBackupHas` | two things in the Trash that came from one place hide each other |
| reused | "reused" | `ShownIsRestored` | a name the desktop used again is restored for the other (`plan.rs:384-388`) |
| during | "during" | `LatestIsNewest` | a backup is dated to its start, and what it saw to later |

| `Patterns`, `Walking` | Circumstance | Part | What happens |
|---|---|---|---|
| spanning | "spanning" | `LeavesOutNoMore`, `SaysWhatIsMeant` | in the shell style `**/` takes single characters where it is documented to span whole directories: `sh:**/a` leaves out a file `ba` (`pattern.rs:296`, 25, 35-37) |
| settings | "settings" | `BringsWhatIsShown` | a restore from a snapshot applies the exclusions of today (`mod.rs:2029`) |
| source | "source" | `WalkIsTheBackup` | a backed-up folder that is itself excluded is walked, and left out by Borg |

| `Window`, `Reading` | Circumstance | Part | What happens |
|---|---|---|---|
| early, untold, emptied | the same | `PaneIsTheBackup` | the catalogue changes before the window follows it, with nothing said, or to nothing: the pane keeps showing what it had (`state.rs:433`, `files.rs:290`) |
| unloaded | in the run: `Unloaded`, which the three parts except | `PaneIsTheBackup`, `ListIsTheFolders`, `LandingHoldsIt` | a backup is taken out, and the load it is followed by fails: a toast says so, nothing asks again, and until the next change the window goes by the old numbers while each page it reads is of the new ones (`window.rs:1238-1241`) |
| amid | in the run | `OneReading` | the daemon commits between `archives_overview` and `listed_for`, two statements without a transaction: the list loaded with the backups names others, though the comment has it that "a prune in between cannot leave the two naming different backups" (`window.rs:1217-1219`, 1227). The change is announced, the next load mends it, and `WindowSafety` holds |
| preview | — | `PreviewIsTheFile` | the preview keeps an archive by number while backups are renumbered |
| pending | — | `SeesCatalogued` | a backup is seen before its files are read |
| renumbered | — | `KeepsTheBackup` | the backup being viewed is another after a removal |
| ahead | — | `StepsToWhatIsRead` | a step leads to an archive that is not read (`reader.rs:505`) |
| today | — | `ExistsToday` | what exists "now" is measured against a newest archive nobody read (`reader.rs:784`, 89) |
| unread, split | "unread" | `BadgesAreTrue`, `ListsTheChanges` | archives read in late |
| again, own | "again" | `BadgesAreTrue`, `HoldsItsOwn` | a file that is once more what it was (`reader.rs:29-32`, 113-118) |

| `Instances` | Circumstance | Part | What happens |
|---|---|---|---|
| second | "second" | `PreparedIsWhole` | a second process sweeps staging before it finds the name taken (`daemon.rs:179`, 173-178) |
| snapper | "snapper" | `ActsAlone` | it starts tasks as well (`daemon.rs:226`, 255-260) |
| bus | "bus" | `ActsAlone` | one claims the name before the other noticed it lost its bus |
| late | "late" | `LeavesNothing` | a call arrives at a daemon that has decided to leave (`background.rs:401`, 365-366) |
| beside | "beside" | `LoginFollows` | the setting changes while a change is carried out |

| `BorgStreams` | Circumstance | Part | What happens |
|---|---|---|---|
| cut | "cut" | `CommittedIsWhole` | the run `listing_cut` |
| crowded | "crowded" | `StopsByItself` | after a job is called off nobody reads what Borg says: with its pipe full it cannot say that it stops, and is killed (`invoke.rs:200-222`) |
| shutdown | "shutdown" | `StopsByItself` | the daemon ends and `kill_on_drop` kills the Borg of its job, though one "killed while taking or giving up the lock" leaves it behind (`invoke.rs:183`, 99-102) |
| garbled | "garbled" | `FailureIsNamed`, `LetGoIsTold` | a line that is not UTF-8 ends the reading loop; the rest is read without heed of a cancel, or not at all (`invoke.rs:207`, 284) |

| `Asking`, `Following` | Circumstance | Part | What happens |
|---|---|---|---|
| soon | "soon" | `UndoesItsOwn`, `OfferHolds` | Undo in the toast of the last restore undoes the next (`restore.rs:336`) |
| restart | "restart" | `SaysOnlyWhatIsDone`, `WaitingEnds` | job numbers begin again with the daemon; what is waited for never comes, or is another's end (`run_job`) |
| cancel | "cancel" | `LeavesNothingPrepared` | what was prepared by a cancelled job is not released |
| elsewhere | "elsewhere" | `SaysHowItIs` | the restore watched is called off elsewhere |
| outlasted | "outlasted" | `StopsWhatRuns` | the question whether to stop is answered after the end; `cancel_recovery` does not look at the stage (`mod.rs:746`) |
| at once | "at once" | `SaysWhenOver` | the end is handed over before the window has asked (`everything.rs:271`) |
| restart | "restart" | `FollowsToTheEnd` | as above |

| `Wizard` | Circumstance | Part | What happens |
|---|---|---|---|
| leaves | "leaves" | `StartsWhereItSays` | Back, or closing, while a button's work is under way (`protect.rs:282-343`) |
| swaps | "swaps", five turns | `NothingHalfDone` | another place is chosen while one is inspected (`destination.rs:422-446`) |
| returns | "returns" | `StartsWhereItSays` | the old place is chosen again after the new one was set up, or other backups were adopted there (`destination.rs:426-429`, `import.rs:216-238`) |
| typing | "typing" | `PassphraseIsTheRepositorys` | the passphrase is edited while the repository is created (`model/wizard.rs:498-500`) |
| refused, wrong, partial | the same | `NothingHalfDone` | one of several writes is refused; the others stand, though "nothing is written until the person commits" (`wizard/mod.rs:6-10`) |
| beside | "beside" | `OthersSettingsStay` | settings changed elsewhere are written over (`model/wizard.rs:119-126`) |
| restart | "restart" | `WizardEnds` | the first backup is waited for for ever |

| `Preferences` | Circumstance | Part | What happens |
|---|---|---|---|
| quick | "quick" | `LastWordHolds` | a list is computed from a copy read before the last change was (`prefs.rs:931-943`) |
| prompt | "prompt" | `LastWordHolds` | `set_config` reads, awaits the keyring and stores the whole (`mod.rs:3500-3521`) |
| absent | "absent" | `LastWordHolds` | a key the document lacks is refused, so the limit on uploads, None at first, cannot be set from None once absent (`config.rs:274-278`) |
| outside, restart | the same | `ShownIsHeld` | nothing tells the window of a change; it reads again when it is come back to (`prefs.rs:319-328`) |
| page | "page" | `ShownIsHeld` | the Home folder's page is not painted again after a refusal (`prefs.rs:957-974`, 505-506) |

| `Repairing` | Circumstance | Part | What happens |
|---|---|---|---|
| stopped | "stopped" | `SaysWhatWasFound`, `OnlyTheHopeless` | a check that did not complete is taken for damage (`fix/mod.rs:104`, `repair.rs:251`) |
| refused | "refused" | `StillUnderWay` | a check of the repair that cannot begin leaves a page with no way on (`repair.rs:297-309`) |
| over | "over" | `SaysWhatWasFound` | a second dialog over the first |
| catalogue | "catalogue" | `OnlyTheHopeless` | `start_fresh` renames the repository and cannot write the catalogue; trying again finds nothing to rename (`mod.rs:3861`) |
| restart | "restart" | `StillUnderWay` | the end of a job is waited for for ever |

## 4. What is proved

### The registry

For every number of jobs, calls and clients and every workload that meets
`RegistryAssumption` (which only says that the bounds are natural numbers and
that a job has its kind's access or is local):

| Theorem | Module | Says |
|---|---|---|
| `TypeCorrect` | `DaemonProofs` | `Spec => []TypeOK` |
| `Exclusion` | | `Spec => []RepoExclusion` |
| `Wakeup` | | `Spec => []NoLostWakeup` |
| `Once` | | `Spec => []StartedOnce` |
| `NeverOrphaned` | | `Spec => []RunningHasRun` |
| `CancelReaches` | | `Spec => []CancelReachesRun` |
| `PausedIsRecovery` | | `Spec => []OnlyPausablePaused` (proved only: no run repeats it) |
| `Refinement` | | `Spec => LockSpec`: the registry implements `RepoLock` |

None of these invariants is inductive alone.  `IInv` adds what the lock regions
leave behind for each other:

- `Bookkeeping`: ids from `nextId` on are absent and unstarted, what waits in
  the queue and what a client or a run holds is a submitted job, and what a
  client is about to apply is a transition its method chose;
- `WaitsOnce`: a job that cannot be paused is in the queue at most once, and
  only before its first start;
- `StartedHolders`, `StartedOnce`: only a started job holds the repository, so
  an old Queued reading cannot bring one back to it beside others;
- `CancelToken`: a client between a cancel's transition and its trip holds the
  token of the job's own run.

Exclusion needs `StartedHolders` because a stale transition moves a job that the
pump did not admit; the wake-up needs that every action that frees the
repository leaves somebody on the way to the pump.  The refinement is for jobs
that cannot be paused: a cancel that read Running before a pause moves a paused
recovery to Cancelling, which takes the lock without admission, and `RepoExclusion`
names the same exception.

Each action has a lemma per part of `IInv` it can disturb; the step lemmas are
combined by PTL.  Facts on `RemoveAt`, `Append` and removing from the queue are
lemmas for any set of elements.

### The scheduler

Unconditionally but for `SchedulerAssumption` (bounds, lengths of time and the
kinds of circumstances): for every interval and stagger, every maintenance, and
whatever the clients, the watch, the machine and restarts do.

| Theorem | Module | Says |
|---|---|---|
| `LoopIsSafe` | `SchedulerProofs` | `Spec => []ScheduleSafety`: types, and never two runs of the loop's own queued or running |
| `LoopKeepsTime` | | `Spec => LoopKeepsItsInterval`: what the loop submits comes an interval after what it submitted last |

The inductive invariant has three parts.  `BehindNone`: while the loop looks, and
found nothing under way, and while it starts a run, no run of its own is queued or
under way.  `ClocksAgree`: the loop's own last submission is the last attempt or
was before it, so an attempt an interval old is an own run an interval old, from the
reading of the age until the submission. `TypesOK` has, with the types, that the names
the catalogue knows are finitely many: `next_free_name` counts seconds up until
one is free, and `SecondIsFree` proves that one is (a pigeonhole over the seconds
`0 .. n`, the least of them by well-foundedness of `<`); without it the name of a
submission need not exist.

### Health

| Theorem | Module | Says |
|---|---|---|
| `TypeCorrect` | `HealthProofs` | `Spec => []TypeOK`, in every circumstance |
| `HealthIsSafe` | | `Spec => []HealthSafety` under `Undisturbed` |
| `NoticesAreRare` | | `Spec => NoticesKeepTheirDistance` under `OneAtATime`, whichever of the intervals is the longer: with a weekly schedule `AtRiskAfter` is 14 days and `AtRiskSecond` 72 hours (`health.rs:181`), and the first notice comes when the second's mark has passed |

`Undisturbed` excludes the four circumstances that are known to break it: the
channel drops events (*lag*), two calls overlap, the desktop is slow with a notice,
and a restart forgets the latch; the configuration of the run allows the others
(a destination that moves, attention, the keyring, restarts).  Each property has its own invariant.
`LatchCatchesUp`: there is a sequence of latches, one per event in the channel,
that leads from the latch now to what the last job said; a witness function takes
the place of the recursion over the channel, so that hearing the first event and
appending a last one are one step each.  `ScreenFollows`: a notice on the screen or
on its way is of a health that alarms.  `PauseFollows`: the pause in memory, the
pause on disk outside of calls, and the pause a call carries are the one asked for,
up to what has run out.

`OneAtATime` excludes the circumstances that section 3 shows to break it: a channel that
drops events (*lag*), two failures that alternate (*in turns*), and a backup dated to when it
began (*long*).  Failures are told of at their distance by `WarnInv`: the endings on their
way are of one failure at most (`OneComes`), the one that is held back if one is
(`HeldAlone`); the daemon remembers the failure it told of last, and nothing of the ones
before (`WarnedLast`); and of a failure told of lately, either nothing is in the facts and
in the channel or it is the one remembered (`ToldIfPending`, `NoneBehind`).  Those
of a stretch without protection keep theirs by `RiskInv`: the catalogue and the file
agree on when protection ended (`Dated`), the notices of a stretch come in order
(`ToldInOrder`), and what the daemon takes for the beginning of a stretch, once nothing
is left to hear, is when it ended (`RiskIs`).

### Borg's streams

`BorgStreams` is the instance `B` of `Daemon`, its circumstances the constant `Troubles`.

| Theorem | Module | Says |
|---|---|---|
| `EndsAreWhole` | `DaemonProofs` | `B!Spec => [](B!CleanEndIsWhole /\ B!CommittedIsWhole)` for all but a listing that fails (*cut*) |
| `BorgIsSafe` | | `B!Spec => []B!BorgSafety` with `Troubles = {}` |

Both assume `Sizes`: a pipe and a channel that hold at least one unit each.  The
circumstance *cut* is the one the run `listing_cut` shows to break the
first.  `BorgSafety` also says that a failure is called by its name and that a Borg that is let go of
is stopped; it is proved where no circumstance comes between.  The invariant counts: `Counted` (what Borg wrote is in
the pipe, in the channel or taken), `NothingIsLost` (each kind of line Borg has for
its cause is still to be said, on its way or kept), `ReadToTheEnd` and
`RoomIsLeft` (a reader stops at the end, or leaves room for the rest), with
`Phases`, `ReaderFits`, `ToldByLettingGo` and `EndsAreSo` for who is where.

### The daemons

`Instances` is the instance `D` of `Daemon`, its circumstances the constant `Happenings`.

| Theorem | Module | Says |
|---|---|---|
| `DaemonsAreSafe` | `DaemonProofs` | `D!Spec => []D!ProcessSafety`, for any processes, starts, jobs and events |
| `ProcessesAreSafe` | | `D!Spec /\ B!Spec => []ProcessSafety`: the two side by side, as the run has them |

Under `Placed`: the bounds are numbers, and none of the `Happenings`, each of which
breaks a part of it (nor does the run allow any).  `ProcessInv` has that one process has the duties of
the name (`OneServes`: who holds the name serves, and who serves without holding it has
lost its bus), that what the staging directories hold is what the jobs of the one that serves hold (`StagedAsHeld`), that
one that left has left nothing (`LeavesNothing`), and that the login link is made to follow one change at a time, each to what is set (`LoginIs`).

### The recovery

For any number of folders, files, callers, runs, calls, crashes and failures that meet
`RecoveryAssumption` (finite, and at least one folder and one file).  Each theorem
excludes only the `Circumstances` that break what it says:

| Theorem | Module | Says | Without |
|---|---|---|---|
| `TypeCorrect` | `RecoveryProofs` | `Spec => []TypeOK` | |
| `NothingOfTheirsIsLost` | | `Spec => []TheirsIsSafe` | meanwhile |
| `ForgottenOnlyWhenOver` | | `Spec => ForgottenWhenOver` | side by side |
| `StepsAreBack` | | `Spec => []EveryStepIsBack` | side by side, in between |
| `CancelledAsAsked` | | `Spec => OverAsAsked` | side by side, in between |
| `PausedIsFound` | | `Spec => []PausedIsWrittenDown` | side by side, quick, late |
| `RecoveryIsSafe` | | `Spec => []RecoverySafety` | all five |

The inductive invariant is built in layers, and each theorem rests on those it needs:

- `Counted`: the jobs that were submitted are the first ones, and each was counted as
  a call, or is the one of a call that is still reading the catalogue, so `NextJob` exists;
- `OnlyAdds`: what a run has to place is what was missing, and none of it is theirs;
- `InTurns`: one call at a time; the copy a run works on is the record but for the
  pause and newer failures; the hand-over's and the cancel's copies are of the record;
  at most one job is alive, and it is `job`; and the steps are taken in order;
- `BackOrAdded`: a fetch has all of its files or still has them to fetch; a plan's are
  whole; a step being placed has each of its files whole in the staging folder or in place;
  nothing at any place is of a number that is still to be given, and what is of this
  recovery's number is written down, but for the one file that was just moved;
- `PausesWait`: a run that waits for the lock is awaited by its job (so only the lock's
  holder can have a job that was paused); a pause in progress is for the run that has
  the lock; and once it has landed nothing else runs, and that run has a look left at
  which it stops and writes the pause down, or has.

### The passphrases

For any number of destinations, passphrases, callers, calls and failures that meet
`PassphrasesAssumption`.  The theorems divide the circumstances more finely than the
run, which allows only what breaks no part of the conjunction:

| Theorem | Module | Says | Without |
|---|---|---|---|
| `TypeCorrect` | `PassphraseProofs` | `Spec => []TypeOK` | |
| `MovedIsRead` | | `Spec => MovesWhole` | crash |
| `StoreFollowsSetting` | | `Spec => []FlagIsSetting` | side by side, refuses |
| `ForgottenIsGone` | | `Spec => []KeyringForgets` | side by side, refuses, crash, by hand, locked |
| `SafetyNetOpens` | | `Spec => []SpoolOpens` | all but locked |
| `DestinationOpens` | | `Spec => []StoredOpens` | all but locked |
| `PassphraseIsSafe` | | `Spec => []PassphraseSafety` | all |

- `Followed`: the flag of the store is the setting, but for a call that is between the
  two; only that call can put them back together, so one call at a time;
- `Forgotten`: a keyring that is not to remember has nothing for the destination that is
  set, but while a call that switches remembering on or adopts another is between its
  steps, and then that call says what it still has to take away;
- `Keyed`: between calls the store has, for the destination that is set, the passphrase of
  its key and of the local safety net, or none (`Agrees`); the net is that destination's
  (`Net`); and `Midway` says at each step of each call which of the keys it has changed,
  and what it goes back to.

### The restores

For any paths, restores, tasks, seconds, crashes, failures and writes that meet
`RestoreAssumption` (finite where the code counts: paths and tasks; at least one path;
a grace of at least one second):

| Theorem | Module | Says | Without |
|---|---|---|---|
| `TypeCorrect` | `RestoreProofs` | `Spec => []TypeOK` | |
| `GraceSpares` | | `Spec => StashOutlastsTheRestore`: a restore younger than the grace and the days the stash is kept loses nothing of its stash | side by side |
| `GraceCovers` | | `Spec => GraceCoversTheRestore`, where no restore reaches that age | side by side |
| `NothingIsLost` | | `Spec => []RestoreSafety` | all but long and trash |

`NothingIsLost` leaves out every circumstance in which section 3 shows a file lost, and
with them "again" and "side by side".  The inductive invariant is in layers:

- `Typed`: the types, and in them that a log names a path once, that what a move says was
  in its way is somewhere, and a count: no more names beside a path are taken than tasks
  have been there, so one is free (`NamesAreLeft`);
- `Turns`: one task runs; it is of a plan that is held, and works from that plan's
  entries, or log; and while it runs no other restore waits for its answers;
- `Empty`: a path the plan found without a file, and the execution has not come to, has
  none; and a path in the middle of a move has none;
- `SlotsAreFree`: at the second of a task, the stash has nothing of the paths it may still
  put there;
- `Stacks`: the restores that moved a path's file lie one on another (`live`): each has put
  aside what the one below it, or the person, had there, no two in the same place, and
  what is on top, or was put aside by the next, is none of the person's if undoing the one
  it came from removes it;
- `StillItsOwn`: the moves that an undoing has still to undo are of the restore that moved
  those paths last.

With `Empty` and `SlotsAreFree` no rename lands on a file.  What is left is the removal
at the start of an undoing, which takes whatever is there: `StillItsOwn` says that the
restore's pile is on top, `Stacks` that what lies there is the restore's.  A daemon
that is started again counts its jobs from the beginning and has no logs, so every pile
ends there.

### The catalogue

For any sets of paths and contents and any number of archives
(`CataloguingAssumption`):

| Theorem | Module | Says |
|---|---|---|
| `CatalogueInOrder` | `CataloguingProofs` | `Spec => []OrderSafety` under `Orderly`: until the spool takes an archive, the catalogue is what reading the archives in order gives |
| `IngestedSound`, `ScopedSound` | | reading a pending archive, whatever is catalogued around it, gives what reading in order gives |
| `RemovedSound`, `CoalescedIsTimeline` | | so does taking any rows out, renumbering the rest and merging what meets |
| `SyncedSound` | | so does making a store's rows match its archives, with one newcomer slotted in |
| `RowsGoWithTheirArchives` | | `Spec => DropsOnlyWhatIsGone` under `Orderly`, without a spool and removals that fail |
| `NothingLeftToRead` | | `Spec => IndexLeavesNothing` under `Orderly`, without a spool and listings that fail |
| `ClockIsKept` | | `Spec => ClockStartsOnce` under `Orderly`, without a spool and newcomers |

The reference is a *timeline*: a *spread* says of each path and content at which rows
it is held, and its timeline is the maximal runs of those.  Each operation of the
writer is shown to take the timeline of a spread to the timeline of the spread it
stands for: `Folded` and `Carried` those of one listing at one place, `Coalesced` any
cover of a spread by intervals, so that `Removed` needs only that clamped and
renumbered intervals cover what is left; `MovedIs` that moving intervals and splitting
them around a newcomer opens a place that holds nothing.  That the seqs kept and the
slots are numbered in order is by ranks (`AscendingIs`, `OrderOfSlots`): the i-th is the
one that i - 1 are below, and only one numbering agrees with the order.

The inductive invariant of the jobs is `OrderInv`: as long as the spool has taken
nothing (`~HasDeltas`), `Orders`, whose parts are that the catalogue is `Sound`; that
what a job, a cataloguing job's list and the bookkeeping carry across their awaits is
still so (`JobFits`, `IndexFits`, `CatchFits`: a seq is still its archive's); that the
three do not run together (`OneAtATime`); and that one archive at most is in no row
(`FewLeft`).  Without the last a sync has two newcomers, and `Orderly` asks for
`Newcomers <= 1`, one cataloguing job at most, a clock that does not step back and
bookkeeping that jobs wait for.  Each of these, and the spool, has its row in section
3's table (*newcomers*, *twice*, *clock*, *overlap*, *behind*) with what goes wrong
without it; all other circumstances are allowed: cancellations, listings that fail,
prunes, snapshots that are not removed and crashes.

The last three are of steps, and each adds to `Orders` and to the absence of offline runs
(`Steady`) what its own jobs know.  `GoneIsGone` (in `RowsInv`): the seqs an expiry, or the
bookkeeping, is about to take out are of archives that have left their store.
`AllToRead` (in `ReadInv`): of a cataloguing job's list, nothing that waits is missing,
whatever came in behind it.  `NoneLeft` (in `ClockInv`): every archive of a store has its
row, but for the one whose job is about to write it, so no row is taken out and put in again
with a clock that has not begun.

### The window

| Theorem | Module | Says |
|---|---|---|
| `WindowShowsTheBackup` | `WindowProofs` | `Spec => []WindowSafety` with `Circumstances = {}` |

For any folders, archives, calls, answers, failed queries and number of changes.  What the
window shows is behind the catalogue for as long as something is on its way to it, and the
question is what is on its way.  `WindowInv` answers it: either the catalogue will come once more
(`Coming`: a change is unheard, a reading was asked after the last change, or the last reading failed,
which is `Unloaded`), or every answer under way is what would be answered now (`AnswersStand`,
`ListComes`), and the one asked last is of what the window has open (`LastFits`, `Begun`); and what
each pane shows is of the archive and folder the window has open or still waits for, or could not be
read (`PaneInv`), out of what it was told of the catalogue (`KnownInv`, `Browsable`).  Of a query that is
half read, `OverviewStands`: what its first statements found is what the catalogue is, or another
load comes after it.  Which queries failed is kept in `failed`, a history of the window's errors that
the code has only as a toast, a log line or a page.

## 5. What is only model-checked

Liveness (`RunningEnds`, `QueuedMoves`, `ComesBack`, `KeepsProtecting`,
`MaintainsForever`, `ComesToItsEnd`, `ClientsHear`, `WaitingIsOver`), since the
prover does not handle ENABLED.

The invariants `PreviewSafety`, `TrashSafety`, `SelectionSafety` (`stores_safe`),
`QuerySafety` (`window_safe`) and `DesktopSafety` (`desktop_safe`), and the action
property `StopsWhatRuns`: of the modules without proofs.

Of the modules with proofs: `DoneAndUndone` of `Restore`; `WaitingSafety` and `CapSafety`
of the spool's deltas (`catalogue_safe`); and the circumstances a theorem excludes (so
also what `restore_safe` checks of one restore carried out again).  What `Patterns`'
matcher and the folds of `SpoolCap` compute for every input is induction over data,
and stays with TLC.

## 6. What is not modelled, and why

- *Wording, layout, parsing*: widgets, command lines of Borg, log lines, the
  command line client's rendering.
- *One call and a toast*: the other fixes of the desktop, the tray, the
  file-manager plug-ins.
- In `Scheduler`: changes of configuration, a schedule of manual runs only, a
  wall clock that steps back, the pause on disk (`Health` has it).
- In `Cataloguing`: `catalogue_newest`, the list of Snapper snapshots that
  failed to read.  A local snapshot whose cataloguing was cut short is asked of
  the destination's engine by `catch_up` (`pipeline.rs:151`) and so stays unread;
  no property says that it should not.
- In `Recovery`: cancelling its job by its number, failures to set the files of
  a clash aside, the removal of folders by a discard.
- In `Health`: a schedule of manual runs and one that is changed while the daemon runs, the
  kinds of attention, the history.
- In `TrashIndex`: exclusions, the Trash folders of other drives, dates and time
  zones, an inotify that fails, two things of one second.
- In `Walking`: nested sources, a file as a source, unreadable folders.
- In `Window`: the strip, the calendar and the sidebar, leading-down folders, the
  time a preview takes to fetch; `holds_intermediate`, for which a load reads once more
  for each snapshot.  A folder's page, a step to the next change and a folder's list
  after the newest are each read as one statement; what the pane asks beside its page
  (roots, coverage, the disk) falls back to a default when it fails
  (`files.rs:508-517`, 627-631), which no property tells apart.
- In `Asking`: that `busy` is set at the first poll of the spawned task rather than by
  the press itself (`ui/restore.rs:72-80`): two presses that the main loop delivers before
  it polls the first one's task would begin two restores side by side.
- In `Instances`: an init system that does not answer, the Flatpak portal, what a
  second process opens before it finds the name taken.
- In `Wizard`: the page that restores everything after an import, addresses of
  servers and mounting, measuring the selection.
- In `Preferences`: the jobs started from there, changing the passphrase, the
  set-up of Snapper and of the file managers.
- A catalogue that is rebuilt is modelled by what forgetting it does to the
  listing of the Trash, the window and the guided repair.

## 7. Plan

1. *Done*: the modules of section 2; the proofs of the registry, the scheduler,
health and its notices, Borg's streams, the daemons, the recovery, the passphrases,
the restores, the catalogue and the window.
2. `NothingIsLost` for a restore that is carried out again, and `DoneAndUndone`: an
undoing puts back what each pile has put aside.
3. `OrderSafety` with a spool whose deltas go in behind nothing that is pending;
`PreviewCache` (`ServedIsWhole`) and the dialogs of the desktop.
