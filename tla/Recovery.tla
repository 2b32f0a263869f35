------------------------------ MODULE Recovery ------------------------------
(***************************************************************************)
(* The guided disaster recovery: the manifest it is carried by across      *)
(* pauses and restarts, the run that works through its steps, and the      *)
(* calls that begin, pause, resume and cancel it (backtrackd/src/          *)
(* recovery.rs, service/mod.rs).                                           *)
(*                                                                         *)
(* A run holds the recovery's lock from its first look at the manifest to  *)
(* its end and works on a copy of it (`work'), which it saves; the calls   *)
(* and the hand-over take no lock.  The manifest, the files and everything *)
(* in the recovery's folder outlive the daemon.  Of the registry there are *)
(* the states of the recovery's jobs (JobRegistry has the rest): a paused  *)
(* or cancelled job's run is left to wind down by itself, and its outcome  *)
(* is not heard.                                                           *)
(***************************************************************************)
EXTENDS Integers, FiniteSets, FiniteSetsExt

CONSTANTS
  Steps,    \* 1 .. n: the folders, restored in this order
  PerStep,  \* the files of each
  Callers,  \* who may begin a recovery
  Runs,     \* bound: the runs there can be at one time
  Calls,    \* bound: calls that are made
  Events,   \* bound: crashes, failures, and files the person writes
  Policies, \* the answers to a clash a caller may give
  Circumstances \* which of these may happen: see Possible

Possible ==
  {"side by side", \* calls overlap with each other and with the hand-over
   "quick",        \* a pause or a cancel lands before the run it is for has its
                   \* turn, or a second one before the run has wound down
   "late",         \* a pause lands after the run's last look at it, or the run
                   \* fails after it
   "in between",   \* a crash comes between a move and its record, or between
                   \* discarding and forgetting
   "meanwhile"}    \* the person writes while files are put in place

ASSUME RecoveryAssumption ==
  /\ Steps \subseteq Nat \ {0} /\ Runs \subseteq Nat \ {0} /\ PerStep \subseteq Nat
  /\ IsFiniteSet(Steps) /\ IsFiniteSet(PerStep) /\ Steps # {} /\ PerStep # {}
  /\ Calls \in Nat /\ Events \in Nat
  /\ Policies \subseteq {"ask", "skip", "replace"} /\ Circumstances \subseteq Possible

VARIABLES
  \* What outlives the daemon.
  manifest,
  disk,     \* what is at each file's place
  stash,    \* the person's files that are in the stash
  staging,  \* what is extracted of each file
  held,     \* the clashing files whose copy waits for an answer
  added,    \* the files written down for Discard
  \* What does not.
  job,      \* Recovery::job
  pausing,  \* Recovery::pausing
  jobs,     \* the state of each job, and the run it is waiting for
  runs,     \* the Drivers
  turn,     \* who has one_at_a_time: a run, `TheCancel', or 0
  work,     \* what the run that has it is doing
  cancel,   \* the job cancel_recovery left
  calls,    \* what each caller is in the middle of, with the job a pause is for
            \* or the number a new recovery gets
  handing,  \* after_recovery
  \* Bounds, and what the properties remember.
  made,     \* of Calls
  left,     \* of Events
  said,     \* what the person last asked for: "go" or "pause"
  dear      \* the files whose place the person wrote something at

durable == <<disk, stash, staging, held, added>>
daemon == <<job, pausing, jobs, runs, turn, work, cancel, calls, handing>>
vars == <<manifest, durable, daemon, made, left, said, dear>>

-----------------------------------------------------------------------------
Files == Steps \X PerStep
FilesOf(s) == {f \in Files : f[1] = s}

Status == {"not asked", "pending", "fetching", "placing", "done"}
Stage == {"restoring", "review", "finished"}

Manifest == [no: Nat, stage: Stage, paused: BOOLEAN, handed: BOOLEAN,
             policy: {"ask", "skip", "replace"}, steps: [Steps -> Status], failed: SUBSET Files]
None == [no |-> 0, stage |-> "finished", paused |-> FALSE, handed |-> FALSE, policy |-> "ask",
         steps |-> [s \in Steps |-> "not asked"], failed |-> {}]
There(m) == m.no # 0

\* What is at a file's place: nothing, what the person wrote, half of the
\* backup's copy, the copy put there in answer to a clash, or the copy that
\* recovery n added, which is n.
Missing == 0
Theirs == -1
Half == -2
Answered == -3

Jobs == 1 .. Calls + 1
JobState == {"absent", "queued", "running", "paused", "cancelling",
             "completed", "cancelled", "failed"}
Ended == {"absent", "completed", "cancelled", "failed"}

TheCancel == -1

Work == [at: {"idle", "steps", "fetching", "placing", "moved", "finishing"},
         m: Manifest, fetch: SUBSET Files, adds: SUBSET Files, clashes: SUBSET Files, moved: Files]
AnyFile == CHOOSE f \in Files : TRUE
Idle == [at |-> "idle", m |-> None, fetch |-> {}, adds |-> {}, clashes |-> {}, moved |-> AnyFile]
NoRun == [job |-> 0, stop |-> FALSE]
NoCancel == [on |-> FALSE, discard |-> FALSE, done |-> FALSE, no |-> 0]
NoCall == [at |-> "idle", of |-> 0]
NotHanding == [due |-> FALSE, on |-> FALSE, m |-> None]

TypeOK ==
  /\ manifest \in Manifest
  /\ disk \in [Files -> Int] /\ stash \subseteq Files
  /\ staging \in [Files -> {"none", "part", "whole"}]
  /\ held \subseteq Files /\ added \subseteq Files
  /\ job \in Jobs \cup {0} /\ pausing \in BOOLEAN
  /\ jobs \in [Jobs -> [state: JobState, run: Runs \cup {0}]]
  /\ runs \in [Runs -> [job: Jobs \cup {0}, stop: BOOLEAN]]
  /\ turn \in Runs \cup {0, TheCancel}
  /\ work \in Work
  /\ turn \in Runs <=> work.at # "idle"
  /\ work.adds \cap work.clashes = {}
  /\ cancel \in [on: BOOLEAN, discard: BOOLEAN, done: BOOLEAN, no: Nat]
  /\ calls \in [Callers -> [at: {"idle", "reading", "pausing"}, of: Jobs \cup {0}]]
  /\ handing \in [due: BOOLEAN, on: BOOLEAN, m: Manifest]
  /\ made \in Nat /\ left \in Nat /\ said \in {"go", "pause"} /\ dear \subseteq Files

Init ==
  /\ manifest = None
  /\ dear \in SUBSET Files
  /\ disk = [f \in Files |-> IF f \in dear THEN Theirs ELSE Missing]
  /\ stash = {} /\ staging = [f \in Files |-> "none"] /\ held = {} /\ added = {}
  /\ job = 0 /\ pausing = FALSE
  /\ jobs = [j \in Jobs |-> [state |-> "absent", run |-> 0]]
  /\ runs = [r \in Runs |-> NoRun]
  /\ turn = 0 /\ work = Idle
  /\ cancel = NoCancel /\ calls = [c \in Callers |-> NoCall] /\ handing = NotHanding
  /\ made = 0 /\ left = Events /\ said = "go"

-----------------------------------------------------------------------------
\* The registry.

Happens == left > 0 /\ left' = left - 1
NextJob == Min({j \in Jobs : jobs[j].state = "absent"})
Waiting(r) == runs[r].job # 0 /\ turn # r

\* A job that is not over comes to its turn: pump, run, and start.
JobStarts(j) ==
  LET free == {r \in Runs : runs[r].job = 0}
      r    == Min(free)
  IN /\ jobs[j].state = "queued" /\ free # {}
     /\ jobs' = [jobs EXCEPT ![j] = [state |-> "running", run |-> r]]
     /\ runs' = [runs EXCEPT ![r] = [job |-> j, stop |-> FALSE]]
     /\ UNCHANGED <<manifest, durable, job, pausing, turn, work, cancel, calls, handing,
                    made, left, said, dear>>

Resting == turn = 0 /\ \A r \in Runs : runs[r].job = 0

Heard(r) == jobs[runs[r].job] = [state |-> "running", run |-> r]

\* The registry lets go of the stream of a run whose job has moved on.
StreamDrops(r) ==
  /\ runs[r].job # 0 /\ ~runs[r].stop /\ ~Heard(r)
  /\ runs' = [runs EXCEPT ![r].stop = TRUE]
  /\ UNCHANGED <<manifest, durable, job, pausing, jobs, turn, work, cancel, calls, handing,
                 made, left, said, dear>>

JobSettles(j) ==
  /\ jobs[j].state = "cancelling"
  /\ jobs' = [jobs EXCEPT ![j].state = "cancelled"]
  /\ UNCHANGED <<manifest, durable, job, pausing, runs, turn, work, cancel, calls, handing,
                 made, left, said, dear>>

\* A run is over.  Only the end of a run its job still waits for is heard, and
\* only a completed one is handed over.
RunIsOver(r, outcome) ==
  /\ turn' = 0 /\ work' = Idle
  /\ runs' = [runs EXCEPT ![r] = NoRun]
  /\ jobs' = IF Heard(r) THEN [jobs EXCEPT ![runs[r].job].state = outcome] ELSE jobs
  /\ handing' = [handing EXCEPT !.due = @ \/ (Heard(r) /\ outcome = "completed")]

-----------------------------------------------------------------------------
\* The run.

Undone(m) == {s \in Steps : m.steps[s] \notin {"done", "not asked"}}
StepOf(m) == Min(Undone(m))

\* What a run begins with: the record says it is not paused.
RunTakesTurn(r) ==
  LET m == [manifest EXCEPT !.paused = FALSE]
  IN /\ runs[r].job # 0 /\ turn = 0
     /\ IF There(manifest) /\ manifest.stage = "restoring"
        THEN /\ turn' = r /\ pausing' = FALSE
             /\ manifest' = m /\ work' = [Idle EXCEPT !.at = "steps", !.m = m]
             /\ UNCHANGED <<jobs, runs, handing>>
        ELSE /\ RunIsOver(r, "completed")
             /\ UNCHANGED <<manifest, pausing>>
     /\ UNCHANGED <<durable, job, cancel, calls, made, left, said, dear>>

Works(r, at) == turn = r /\ work.at = at

\* Saving the copy, having changed it.
Saves(m, at) == manifest' = m /\ work' = [work EXCEPT !.m = m, !.at = at]

Whole(f) == staging[f] = "whole"

\* fetch, to the extraction: what is whole is kept, or all of it is fetched
\* afresh.  An earlier run's fetch cannot always be told.
RunFetches(r) ==
  LET s == StepOf(work.m)
      m == [work.m EXCEPT !.steps[s] = "fetching"]
  IN /\ Works(r, "steps") /\ ~runs[r].stop
     /\ Undone(work.m) # {} /\ work.m.steps[s] \in {"pending", "fetching"}
     /\ manifest' = m
     /\ \/ /\ \E f \in Files : staging[f] # "none"
           /\ work' = [work EXCEPT !.m = m, !.at = "fetching",
                                   !.fetch = {f \in FilesOf(s) : ~Whole(f)}]
           /\ UNCHANGED staging
        \/ /\ staging' = [f \in Files |-> "none"]
           /\ work' = [work EXCEPT !.m = m, !.at = "fetching", !.fetch = FilesOf(s)]
     /\ UNCHANGED <<disk, stash, held, added, job, pausing, jobs, runs, turn, cancel, calls,
                    handing, made, left, said, dear>>

\* In path order.
First(fs) == CHOOSE f \in fs : \A g \in fs : f[2] <= g[2]

\* Borg writes a file, in two writes.
BorgWrites(r) ==
  LET f == First(work.fetch)
  IN /\ Works(r, "fetching") /\ work.fetch # {}
     /\ staging' = [staging EXCEPT ![f] = IF @ = "none" THEN "part" ELSE "whole"]
     /\ work' = [work EXCEPT !.fetch = IF staging[f] = "none" THEN @ ELSE @ \ {f}]
     /\ UNCHANGED <<manifest, disk, stash, held, added, job, pausing, jobs, runs, turn, cancel,
                    calls, handing, made, left, said, dear>>

RunFetched(r) ==
  /\ Works(r, "fetching") /\ work.fetch = {}
  /\ Saves([work.m EXCEPT !.steps[StepOf(work.m)] = "placing"], "steps")
  /\ UNCHANGED <<durable, job, pausing, jobs, runs, turn, cancel, calls, handing,
                 made, left, said, dear>>

\* No room, no Borg, or no answer from it.
RunFails(r) ==
  /\ turn = r /\ work.at \in {"steps", "fetching"} /\ Happens
  /\ "late" \in Circumstances \/ ~runs[r].stop
  /\ RunIsOver(r, "failed")
  /\ UNCHANGED <<manifest, durable, job, pausing, cancel, calls, made, said, dear>>

\* classify: what is not here is added, what differs is a clash.
Added(f) == disk[f] = Missing
Clashes(f) == disk[f] \in {Theirs, Half}

\* place, to the plan.
RunPlans(r) ==
  LET there == {f \in FilesOf(StepOf(work.m)) : staging[f] # "none"}
  IN /\ Works(r, "steps") /\ Undone(work.m) # {}
     /\ work.m.steps[StepOf(work.m)] = "placing"
     /\ work' = [work EXCEPT !.at = "placing",
                             !.adds = {f \in there : Added(f)},
                             !.clashes = {f \in there : Clashes(f)}]
     /\ UNCHANGED <<manifest, durable, job, pausing, jobs, runs, turn, cancel, calls, handing,
                    made, left, said, dear>>

\* execute_watched: a rename, or one that fails.
RunMoves(r) ==
  LET f == First(work.adds)
  IN /\ Works(r, "placing") /\ work.adds # {} /\ ~runs[r].stop
     /\ \/ /\ disk' = [disk EXCEPT ![f] = IF staging[f] = "whole" THEN work.m.no ELSE Half]
           /\ staging' = [staging EXCEPT ![f] = "none"]
           /\ work' = [work EXCEPT !.at = "moved", !.adds = @ \ {f}, !.moved = f]
           /\ UNCHANGED left
        \/ /\ Happens
           /\ work' = [work EXCEPT !.adds = @ \ {f}, !.m.failed = @ \cup {f}]
           /\ UNCHANGED <<disk, staging>>
     /\ UNCHANGED <<manifest, stash, held, added, job, pausing, jobs, runs, turn, cancel, calls,
                    handing, made, said, dear>>

\* Mutant: every run's log begins afresh.
WithOnly(f) == {f}
\* AddedLog::open appends.
With(f) == added \cup {f}

\* AddedLog::record.
RunWritesDown(r) ==
  /\ Works(r, "moved")
  /\ added' = With(work.moved)
  /\ work' = [work EXCEPT !.at = "placing", !.moved = AnyFile]
  /\ UNCHANGED <<manifest, disk, stash, staging, held, job, pausing, jobs, runs, turn, cancel,
                 calls, handing, made, left, said, dear>>

\* Through every entry of the plan.
Placed(r) == Works(r, "placing") /\ work.adds = {}

\* set_aside, and the step is done; the next one begins with an empty folder.
RunEndsStep(r) ==
  LET m == [work.m EXCEPT !.steps[StepOf(work.m)] = "done"]
  IN /\ Placed(r)
     /\ held' = held \cup work.clashes
     /\ staging' = [f \in Files |-> "none"]
     /\ manifest' = m
     /\ work' = [Idle EXCEPT !.at = "steps", !.m = m]
     /\ UNCHANGED <<disk, stash, added, job, pausing, jobs, runs, turn, cancel, calls, handing,
                    made, left, said, dear>>

\* What a stopped run writes down of why.
WasAPause == pausing

\* The run stops: between two steps, in a fetch, between two files.
RunStops(r) ==
  /\ turn = r /\ runs[r].stop
  /\ \/ work.at = "steps" /\ Undone(work.m) # {}
     \/ work.at = "fetching" /\ work.fetch # {}
     \/ work.at = "placing" /\ (work.adds # {} \/ work.clashes # {})
  /\ manifest' = [work.m EXCEPT !.paused = WasAPause, !.failed = manifest.failed]
  /\ RunIsOver(r, "cancelled")
  /\ UNCHANGED <<durable, job, pausing, cancel, calls, made, left, said, dear>>

\* finish: the clashes are answered or left for the summary.
RunFinishes(r) ==
  LET answers == work.m.policy # "ask"
      waits   == held # {} /\ ~answers
  IN /\ Works(r, "steps") /\ Undone(work.m) = {}
     /\ manifest' = [work.m EXCEPT !.stage = IF waits THEN "review" ELSE "finished"]
     /\ IF answers /\ work.m.policy = "replace"
        THEN /\ stash' = stash \cup {f \in held : disk[f] = Theirs}
             /\ disk' = [f \in Files |-> IF f \in held THEN Answered ELSE disk[f]]
        ELSE UNCHANGED <<disk, stash>>
     /\ held' = IF answers THEN {} ELSE held
     /\ staging' = [f \in Files |-> "none"]
     /\ RunIsOver(r, "completed")
     /\ UNCHANGED <<added, job, pausing, cancel, calls, made, left, said, dear>>

-----------------------------------------------------------------------------
\* The end of a recovery: after_recovery, in the fan-out loop or at a start.

HandOverBegins ==
  /\ handing.due /\ ~handing.on
  /\ handing' = IF There(manifest) /\ manifest.stage # "restoring"
                THEN [due |-> FALSE, on |-> TRUE, m |-> manifest] ELSE NotHanding
  /\ UNCHANGED <<manifest, durable, job, pausing, jobs, runs, turn, work, cancel, calls,
                 made, left, said, dear>>

\* clear; the folder goes with the manifest.
Clears ==
  /\ manifest' = None /\ job' = 0
  /\ held' = {} /\ added' = {} /\ staging' = [f \in Files |-> "none"]

\* tidy: a recovery whose summary was answered is over.
NothingWaits(m) == m.stage = "finished" \/ held = {}

\* What was to be told and started has been, and is recorded; then clear, or
\* keep_only_what_waits.
HandOverEnds ==
  LET m == [handing.m EXCEPT !.handed = TRUE]
  IN /\ handing.on
     /\ handing' = [handing EXCEPT !.on = FALSE, !.m = None]
     /\ IF NothingWaits(m)
        THEN Clears
        ELSE /\ manifest' = m
             /\ added' = {} /\ staging' = [f \in Files |-> "none"]
             /\ UNCHANGED <<job, held>>
     /\ UNCHANGED <<disk, stash, pausing, jobs, runs, turn, work, cancel, calls,
                    made, left, said, dear>>

\* The summary is answered, a restore of what is held: each clash is replaced
\* or not, and the copies go.
SummaryIsAnswered(replaced) ==
  /\ There(manifest) /\ manifest.stage = "review" /\ manifest.handed /\ held # {}
  /\ "side by side" \in Circumstances \/ (~cancel.on /\ ~handing.on)
  /\ replaced \subseteq held
  /\ stash' = stash \cup {f \in replaced : disk[f] = Theirs}
  /\ disk' = [f \in Files |-> IF f \in replaced THEN Answered ELSE disk[f]]
  /\ Clears
  /\ UNCHANGED <<pausing, jobs, runs, turn, work, cancel, calls, handing,
                 made, left, said, dear>>

-----------------------------------------------------------------------------
\* The calls.

Called == made < Calls /\ made' = made + 1

\* Nothing else is in the middle of a call or of its hand-over.
InTurn ==
  \/ "side by side" \in Circumstances
  \/ /\ ~cancel.on /\ ~handing.on /\ ~handing.due
     /\ \A c \in Callers : calls[c] = NoCall

\* begin_recovery: no recovery is recorded, and the catalogue is awaited.
BeginChecks(c) ==
  /\ calls[c] = NoCall /\ InTurn /\ Called
  /\ ~There(manifest)
  /\ calls' = [calls EXCEPT ![c] = [at |-> "reading", of |-> made + 1]]
  /\ UNCHANGED <<manifest, durable, job, pausing, jobs, runs, turn, work, cancel, handing,
                 left, said, dear>>

\* Mutant: the recovery's job is known before it is queued, and then is not.
SubmitsNothing(state) == job' = NextJob /\ UNCHANGED jobs

Submits(state) ==
  /\ jobs' = [jobs EXCEPT ![NextJob].state = state]
  /\ job' = NextJob

BeginSaves(c, asked, policy) ==
  /\ calls[c].at = "reading"
  /\ calls' = [calls EXCEPT ![c] = NoCall]
  /\ manifest' = [None EXCEPT !.no = calls[c].of, !.stage = "restoring", !.policy = policy,
                    !.steps = [s \in Steps |-> IF s \in asked THEN "pending" ELSE "not asked"]]
  /\ held' = {} /\ added' = {} /\ staging' = [f \in Files |-> "none"]
  /\ Submits("queued")
  /\ said' = "go"
  /\ UNCHANGED <<disk, stash, pausing, runs, turn, work, cancel, handing, made, left, dear>>

\* resume_recovery.
Resumes(c) ==
  /\ calls[c] = NoCall /\ InTurn /\ Called
  /\ There(manifest) /\ manifest.stage = "restoring"
  /\ LET state == IF job = 0 THEN "absent" ELSE jobs[job].state
     IN CASE state = "paused" -> /\ pausing' = FALSE
                                 /\ jobs' = [jobs EXCEPT ![job].state = "queued"]
                                 /\ UNCHANGED job
          [] state \in Ended -> Submits("queued") /\ UNCHANGED pausing
          [] OTHER -> UNCHANGED <<jobs, job, pausing>>
  /\ said' = "go"
  /\ UNCHANGED <<manifest, durable, runs, turn, work, cancel, calls, handing, left, dear>>

\* resume_job.
ResumesJob(c, j) ==
  /\ calls[c] = NoCall /\ InTurn /\ Called
  /\ jobs[j].state = "paused"
  /\ jobs' = [jobs EXCEPT ![j].state = "queued"]
  /\ pausing' = IF j = job THEN FALSE ELSE pausing
  /\ said' = "go"
  /\ UNCHANGED <<manifest, durable, job, runs, turn, work, cancel, calls, handing, left, dear>>

\* The run that holds the lock will look at a stop again: before a step, or
\* before a file.
LooksAgain ==
  \/ \E s \in Undone(work.m) : s # StepOf(work.m)
  \/ work.at = "steps" /\ \E s \in Undone(work.m) : work.m.steps[s] # "placing"
  \/ work.adds # {}

\* The pause is for a run that has begun and has not passed its last look.
InTime(j) ==
  /\ "quick" \in Circumstances \/ jobs[j].state # "running" \/ turn = jobs[j].run
  /\ "late" \in Circumstances \/ jobs[j].state # "running" \/ turn # jobs[j].run \/ LooksAgain

\* pause_job, which says so before it asks the registry.
PauseIsSaid(c, j) ==
  /\ calls[c] = NoCall /\ InTurn /\ Called
  /\ jobs[j].state # "absent" /\ InTime(j)
  /\ \/ "quick" \in Circumstances
     \/ jobs[j].state # "queued" /\ (jobs[j].state = "paused" => Resting)
  /\ pausing' = (pausing \/ j = job)
  /\ calls' = [calls EXCEPT ![c] = [at |-> "pausing", of |-> j]]
  /\ UNCHANGED <<manifest, durable, job, jobs, runs, turn, work, cancel, handing, left, said, dear>>

PauseLands(c) ==
  LET j == calls[c].of
  IN /\ calls[c].at = "pausing" /\ InTime(j)
     /\ calls' = [calls EXCEPT ![c] = NoCall]
     /\ IF jobs[j].state = "running"
        THEN /\ jobs' = [jobs EXCEPT ![j].state = "paused"]
             /\ runs' = IF "late" \in Circumstances THEN runs
                        ELSE [runs EXCEPT ![jobs[j].run].stop = TRUE]
             /\ said' = IF j = job THEN "pause" ELSE said
             /\ UNCHANGED pausing
        ELSE /\ pausing' = (pausing /\ j # job)
             /\ UNCHANGED <<jobs, runs, said>>
     /\ UNCHANGED <<manifest, durable, job, turn, work, cancel, handing, made, left, dear>>

\* cancel_recovery: the job is cancelled, and another one puts things away.
Cancels(c, discard) ==
  /\ calls[c] = NoCall /\ InTurn /\ Called
  /\ There(manifest) /\ ~cancel.on
  /\ "quick" \in Circumstances \/ \A r \in Runs : ~Waiting(r)
  /\ jobs' = IF job = 0 \/ jobs[job].state \in Ended THEN jobs
             ELSE [jobs EXCEPT ![job].state = IF @ \in {"running", "cancelling"} THEN "cancelling"
                                              ELSE "cancelled"]
  /\ cancel' = [on |-> TRUE, discard |-> discard, done |-> FALSE, no |-> manifest.no]
  /\ UNCHANGED <<manifest, durable, job, pausing, runs, turn, work, calls, handing,
                 left, said, dear>>

\* Mutant: a file is taken away whoever has changed it.
AsItWas(f) == disk[f] # Missing
\* discard: a file that is as it arrived.
AsItArrived(f) == disk[f] > 0

\* Once no run has the folder.
CancelDiscards ==
  /\ cancel.on /\ ~cancel.done /\ turn = 0
  /\ turn' = TheCancel
  /\ cancel' = [cancel EXCEPT !.done = TRUE]
  /\ disk' = IF cancel.discard
             THEN [f \in Files |-> IF f \in added /\ AsItArrived(f) THEN Missing ELSE disk[f]]
             ELSE disk
  /\ UNCHANGED <<manifest, stash, staging, held, added, job, pausing, jobs, runs, work, calls,
                 handing, made, left, said, dear>>

CancelClears ==
  /\ turn = TheCancel
  /\ Clears
  /\ turn' = 0 /\ cancel' = NoCancel
  /\ UNCHANGED <<disk, stash, pausing, jobs, runs, work, calls, handing, made, left, said, dear>>

-----------------------------------------------------------------------------
\* The person and the machine.

PersonWrites(f) ==
  /\ Happens
  /\ "meanwhile" \in Circumstances \/ work.at \notin {"placing", "moved"}
  /\ disk' = [disk EXCEPT ![f] = Theirs]
  /\ dear' = dear \cup {f}
  /\ UNCHANGED <<manifest, stash, staging, held, added, daemon, made, said>>

\* recovery_at_start: one that has ended may have to be handed over.
EndedBefore == There(manifest) /\ manifest.stage # "restoring"

\* The daemon is killed, and another starts: recovery_at_start.
Crash ==
  /\ Happens
  /\ "in between" \in Circumstances \/ (work.at # "moved" /\ turn # TheCancel)
  /\ pausing' = FALSE
  /\ runs' = [r \in Runs |-> NoRun] /\ turn' = 0 /\ work' = Idle
  /\ cancel' = NoCancel /\ calls' = [c \in Callers |-> NoCall]
  /\ LET restoring == There(manifest) /\ manifest.stage = "restoring"
     IN /\ job' = IF restoring THEN 1 ELSE 0
        /\ jobs' = [j \in Jobs |->
             [run |-> 0, state |-> IF ~restoring \/ j # 1 THEN "absent"
                                   ELSE IF manifest.paused THEN "paused" ELSE "queued"]]
        /\ handing' = [NotHanding EXCEPT !.due = EndedBefore]
  /\ said' = IF Resting THEN said ELSE "go"   \* nothing had written it down yet
  /\ UNCHANGED <<manifest, durable, made, dear>>

RunStep(r) ==
  \/ RunTakesTurn(r) \/ RunFetches(r) \/ BorgWrites(r) \/ RunFetched(r) \/ RunPlans(r)
  \/ RunMoves(r) \/ RunWritesDown(r) \/ RunEndsStep(r) \/ RunStops(r) \/ RunFinishes(r)

Call(c) ==
  \/ BeginChecks(c)
  \/ \E asked \in (SUBSET Steps) \ {{}}, policy \in Policies : BeginSaves(c, asked, policy)
  \/ Resumes(c)
  \/ \E j \in Jobs : ResumesJob(c, j) \/ PauseIsSaid(c, j)
  \/ PauseLands(c)
  \/ \E discard \in BOOLEAN : Cancels(c, discard)

Next ==
  \/ \E j \in Jobs : JobStarts(j) \/ JobSettles(j)
  \/ \E r \in Runs : StreamDrops(r) \/ RunStep(r) \/ RunFails(r)
  \/ HandOverBegins \/ HandOverEnds
  \/ \E replaced \in SUBSET Files : SummaryIsAnswered(replaced)
  \/ \E c \in Callers : Call(c)
  \/ CancelDiscards \/ CancelClears
  \/ \E f \in Files : PersonWrites(f)
  \/ Crash

Spec == Init /\ [][Next]_vars

\* Something of the registry, the runs and the fan-out loop goes on while anything
\* can, and a call that is awaited is answered.  A failure, a crash and the person do not have
\* to happen.
Fairness == WF_vars(
  \/ \E j \in Jobs : JobStarts(j) \/ JobSettles(j)
  \/ \E r \in Runs : StreamDrops(r) \/ RunStep(r)
  \/ HandOverBegins \/ HandOverEnds \/ CancelDiscards \/ CancelClears)

FairSpec == Spec /\ Fairness

-----------------------------------------------------------------------------
\* Every file of a step that is done is back, whole, or something of the
\* person's is in its place, or its failure is on record, until Discard takes
\* it away: whatever pauses, failures and restarts the step went through.
EveryStepIsBack ==
  \A s \in Steps : There(manifest) /\ turn # TheCancel /\ manifest.steps[s] = "done" =>
    \A f \in FilesOf(s) : disk[f] \notin {Missing, Half} \/ f \in manifest.failed

\* What the person has or writes is where they put it, or in the stash: a
\* recovery never replaces it unasked, and Discard never takes it away.
TheirsIsSafe == \A f \in dear : disk[f] = Theirs \/ f \in stash

\* Once Discard has run, nothing the recovery added is left that nobody
\* changed ("so Discard can take exactly that away again", recovery.rs:1142).
\* It is offered until the recovery is handed over.
DiscardTakesAway ==
  [][cancel'.done /\ ~cancel.done /\ cancel.discard /\ ~manifest.handed =>
       \A f \in Files : disk'[f] # cancel.no]_vars

\* A recovery is only forgotten when it is cancelled, or over with nothing
\* left to ask.
ForgottenWhenOver ==
  [][There(manifest) /\ manifest'.no # manifest.no =>
       \/ cancel.done /\ cancel.no = manifest.no
       \/ /\ manifest.stage # "restoring"
          /\ manifest.handed \/ (handing.on /\ held = {})]_vars

\* Once the run that was paused has wound down, the record says so, and a
\* restart finds it paused ("so the run that stops writes down that it was
\* asked to", service/mod.rs:3462).
PausedIsWrittenDown ==
  said = "pause" /\ Resting /\ There(manifest) /\ manifest.stage = "restoring" => manifest.paused

\* What a recovery says is back is back, what is the person's is theirs, and what
\* was paused is found paused, through every pause, failure and restart
\* (run_step, place, load_recovery).
RecoverySafety == TypeOK /\ EveryStepIsBack /\ TheirsIsSafe /\ PausedIsWrittenDown

\* A recovery is over when it is done and told of or was called off, and calling
\* it off leaves nothing of it (cancel_recovery, discard).
OverAsAsked == DiscardTakesAway /\ ForgottenWhenOver

\* A recovery with steps left ends, is paused, or stops with an error; and its end
\* is handed over: what to back up, the schedule, and telling the person
\* (run_recovery, finish_recovery, service/mod.rs:844).
Pending ==
  /\ There(manifest)
  /\ IF manifest.stage = "restoring"
     THEN job # 0 => jobs[job].state \notin {"paused", "failed"}
     ELSE ~manifest.handed
ComesToItsEnd == Pending ~> ~Pending
=============================================================================
