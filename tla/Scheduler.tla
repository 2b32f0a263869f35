----------------------------- MODULE Scheduler -----------------------------
(***************************************************************************)
(* When a backup starts: the scheduling loop of                            *)
(* crates/backtrackd/src/schedule.rs, the reachability watch of            *)
(* reachability.rs, the gates of preflight.rs and the submissions of       *)
(* service/mod.rs, which three tasks go through side by side: the loop,    *)
(* the watch and a client's call.                                          *)
(*                                                                         *)
(* The unit of time is a minute, which is MAX_SLEEP, POLL_INTERVAL and     *)
(* MIN_TRANSITION_GAP.  A persisted time is kept as an age, as far as the  *)
(* code tells ages apart; an action is what a task does between two awaits *)
(* or two locks where another task can come between.                       *)
(*                                                                         *)
(* The jobs are the registry's, reduced to the order they run in: all but  *)
(* the recovery's take the repository alone, and it shares it with none of *)
(* them.                                                                   *)
(***************************************************************************)
EXTENDS Integers, Sequences, FiniteSets

CONSTANTS
  Interval,       \* the minutes between scheduled backups
  Maintenance,    \* which of Compact and Check the schedule does
  Every,          \* how often: [Maintenance -> minutes]
  CatchUpWindow,  \* CATCH_UP_WINDOW, in minutes
  UnexplainedBeforeCheck,  \* so many unexplained failures bring a check forward
  Disturbances,   \* bound: what users, the network and the machine do
  Circumstances   \* which of those things happen: see Possible

Possible ==
  {"destination",  \* the destination goes away and comes back
   "gates",        \* the machine runs on battery, or the disk fills up
   "pause",        \* the user pauses and resumes backups
   "calls",        \* the user asks for a backup
   "recovery",     \* a disaster recovery is begun, paused and carried on
   "suspend",      \* the machine sleeps through two intervals
   "restart",      \* the daemon is killed and started again
   "failures",     \* jobs fail, and backups cannot be started
   "seconds",      \* archive names of one second can meet
   "delays"}       \* the loop is woken minutes late

ASSUME SchedulerAssumption ==
  /\ Interval \in Nat \ {0}
  /\ Maintenance \subseteq {"Compact", "Check"}
  /\ Every \in [Maintenance -> Nat \ {0}]
  /\ CatchUpWindow \in Nat
  /\ UnexplainedBeforeCheck \in Nat \ {0}
  /\ Disturbances \in Nat
  /\ Circumstances \subseteq Possible

VARIABLES
  since,       \* how long ago a run was attempted and maintenance was started
  unexplained, \* backups failed in a row for reasons nobody has classified
  pause,       \* the minutes left of the user's pause
  gate,        \* what the machine's state would hold a backup back for
  up,          \* the destination is there
  known,       \* destination_reachable: whether the daemon says so
  jobs,        \* the jobs that run or wait, in order
  restoring,   \* a recovery has folders left to bring back
  parked,      \* its job is paused
  loop, watch,
  starts,      \* how far each task is with starting a backup
  permit,      \* the stored wake-up of the loop's Notify
  taken,       \* the names the catalogue has, by the second they are dated to
  unprotected, \* the loss of the destination was announced and nothing done yet
  left         \* of Disturbances

machine == <<pause, gate, up>>
recovery == <<restoring, parked>>
vars == <<since, unexplained, pause, gate, up, known, jobs, restoring, parked,
          loop, watch, starts, permit, taken, unprotected, left>>

-----------------------------------------------------------------------------
Starters == {"loop", "watch", "call"}
Never == -1

\* Ages are told apart up to here.  `own' is the loop's last submission, which
\* nothing in the code records.
Clocks == {"attempt", "own"} \cup Maintenance
Oldest == [c \in Clocks |-> IF c = "attempt" THEN 2 * Interval
                            ELSE IF c = "own" THEN Interval ELSE Every[c]]

\* The second an archive's name is dated to, from the present one on.
Past == -1
Job == [kind: {"Backup", "Offline", "Recovery"} \cup Maintenance,
        by: Starters \cup {"upkeep"}, dated: Int]

Idle == [step |-> "none", paused |-> FALSE, held |-> FALSE, taken |-> {}]

TypeOK ==
  /\ since \in [Clocks -> Int]
  /\ \A c \in Clocks : since[c] \in Never .. Oldest[c]
  /\ unexplained \in Nat /\ pause \in Nat /\ gate \in {"open", "power", "disk"}
  /\ up \in BOOLEAN /\ known \in BOOLEAN /\ restoring \in BOOLEAN /\ parked \in BOOLEAN
  /\ jobs \in Seq(Job)
  /\ loop \in [at: {"asleep", "decide", "starting"} \cup Maintenance,
               submits: BOOLEAN, sleep: Nat, deferred: BOOLEAN, configured: BOOLEAN,
               paused: BOOLEAN, busy: BOOLEAN, age: Int, away: BOOLEAN]
  /\ watch \in [at: {"asleep", "reconnecting"}, sleep: Nat, quiet: Nat,
                believes: BOOLEAN, saw: {"nothing", "yes", "no", "unknown"}]
  /\ starts \in [Starters -> [step: {"none", "facts", "probe", "protect", "names", "submit"},
                              paused: BOOLEAN, held: BOOLEAN, taken: SUBSET Nat]]
  /\ permit \in BOOLEAN /\ taken \in SUBSET Nat /\ unprotected \in BOOLEAN
  /\ left \in Nat

Asleep == [at |-> "asleep", submits |-> FALSE, sleep |-> 0, deferred |-> FALSE,
           configured |-> FALSE, paused |-> FALSE, busy |-> FALSE, age |-> Never,
           away |-> FALSE]
Watching == [at |-> "asleep", sleep |-> 0, quiet |-> 0, believes |-> TRUE,
             saw |-> "nothing"]

Init ==
  /\ since = [c \in Clocks |-> Never]
  /\ unexplained = 0 /\ pause = 0 /\ gate = "open"
  /\ up = TRUE /\ known = TRUE
  /\ jobs = <<>> /\ restoring = FALSE /\ parked = FALSE
  /\ loop = Asleep /\ watch = Watching
  /\ starts = [s \in Starters |-> Idle]
  /\ permit = FALSE /\ taken = {} /\ unprotected = FALSE
  /\ left = Disturbances

\* Whether any job runs or waits, a paused one too.
Busy == jobs # <<>> \/ parked

Lesser(a, b) == IF a < b THEN a ELSE b
SetAge(c, age) == since' = [since EXCEPT ![c] = age]

-----------------------------------------------------------------------------
\* The scheduling loop.

\* Mutant: maintenance is looked at only when no backup is due.
TicksBackupFirst ==
  loop' = [loop EXCEPT
    !.at = IF restoring \/ Maintenance = {} \/ since["attempt"] \notin 0 .. Interval - 1
           THEN "decide"
           ELSE IF "Compact" \in Maintenance THEN "Compact" ELSE "Check",
    !.configured = ~restoring, !.paused = pause > 0, !.busy = Busy,
    !.age = since["attempt"], !.away = unprotected]

\* A tick begins: schedule_input.
Ticks ==
  loop' = [loop EXCEPT
    !.at = IF restoring \/ Maintenance = {} THEN "decide"
           ELSE IF "Compact" \in Maintenance THEN "Compact" ELSE "Check",
    !.configured = ~restoring, !.paused = pause > 0, !.busy = Busy,
    !.age = since["attempt"], !.away = unprotected]

LoopSleepsOut ==
  /\ loop.at = "asleep" /\ loop.sleep = 0
  /\ Ticks
  /\ UNCHANGED <<since, unexplained, machine, known, jobs, recovery, watch, starts,
                 permit, taken, unprotected, left>>

LoopNotified ==
  /\ loop.at = "asleep" /\ permit
  /\ Ticks /\ permit' = FALSE
  /\ UNCHANGED <<since, unexplained, machine, known, jobs, recovery, watch, starts,
                 taken, unprotected, left>>

After(m) == IF m = "Compact" /\ "Check" \in Maintenance THEN "Check" ELSE "decide"
Hurried(m) == m = "Check" /\ unexplained >= UnexplainedBeforeCheck

Due(m) ==
  /\ ~Busy
  /\ since[m] >= Every[m] \/ Hurried(m)
  /\ m = "Check" => known

\* maybe_compact and maybe_check: the first look starts the clock.
LoopConsiders(m) ==
  /\ loop.at = m /\ ~loop.submits
  /\ IF since[m] = Never /\ ~Hurried(m)
     THEN /\ SetAge(m, 0) /\ loop' = [loop EXCEPT !.at = After(m)]
     ELSE /\ UNCHANGED since
          /\ loop' = IF Due(m) THEN [loop EXCEPT !.submits = TRUE]
                               ELSE [loop EXCEPT !.at = After(m)]
  /\ UNCHANGED <<unexplained, machine, known, jobs, recovery, watch, starts, permit,
                 taken, unprotected, left>>

LoopMaintains(m) ==
  /\ loop.at = m /\ loop.submits
  /\ SetAge(m, 0)
  /\ unexplained' = IF m = "Check" THEN 0 ELSE unexplained
  /\ jobs' = Append(jobs, [kind |-> m, by |-> "upkeep", dated |-> Past])
  /\ loop' = [loop EXCEPT !.at = After(m), !.submits = FALSE]
  /\ UNCHANGED <<machine, known, recovery, watch, starts, permit, taken, unprotected, left>>

\* Mutant: the loop does not remember that it put the run off.
MissedForever == loop.age >= 2 * Interval

\* A run late by more than a whole period, put off once.
Missed == loop.age >= 2 * Interval /\ ~loop.deferred

\* Mutant: a job under way holds nothing back.
WaitsNot == ~loop.configured \/ loop.paused \/ loop.age \in 0 .. Interval - 1

Waits == ~loop.configured \/ loop.paused \/ loop.busy \/ loop.age \in 0 .. Interval - 1

\* decide, on what the tick began with.
LoopDecides ==
  /\ loop.at = "decide"
  /\ \/ /\ Waits
        /\ loop' = [Asleep EXCEPT !.sleep = 1]
        /\ UNCHANGED starts
     \/ /\ ~Waits /\ Missed
        /\ \E jitter \in 0 .. CatchUpWindow :
             loop' = [Asleep EXCEPT !.sleep = jitter, !.deferred = TRUE]
        /\ UNCHANGED starts
     \/ /\ ~Waits /\ ~Missed
        /\ loop' = [Asleep EXCEPT !.at = "starting"]
        /\ starts' = [starts EXCEPT !["loop"].step = "facts"]
  /\ UNCHANGED <<since, unexplained, machine, known, jobs, recovery, watch, permit,
                 taken, unprotected, left>>

LoopReturns ==
  /\ loop.at = "starting" /\ starts["loop"].step = "none"
  /\ loop' = [Asleep EXCEPT !.sleep = 1]
  /\ UNCHANGED <<since, unexplained, machine, known, jobs, recovery, watch, starts,
                 permit, taken, unprotected, left>>

-----------------------------------------------------------------------------
\* start_scheduled_backup and submit_backup, on behalf of task s.

Answers == {IF up THEN "yes" ELSE "no", "unknown"}

\* The machine and the pause are read, and then the destination is asked.
ReadsFacts(s) ==
  /\ starts[s].step = "facts"
  /\ starts' = [starts EXCEPT ![s].step = "probe", ![s].paused = pause > 0,
                              ![s].held = (gate = "power")]
  /\ UNCHANGED <<since, unexplained, machine, known, jobs, recovery, loop, watch, permit,
                 taken, unprotected, left>>

\* evaluate, in the order it asks.
Verdict(s, answer) ==
  IF starts[s].paused \/ starts[s].held THEN "none"
  ELSE IF answer = "no" THEN "protect"
  ELSE IF gate = "disk" THEN "none" ELSE "names"

Probes(s, answer) ==
  /\ starts[s].step = "probe" /\ answer \in Answers
  /\ known' = IF answer = "unknown" THEN known ELSE answer = "yes"
  /\ starts' = [starts EXCEPT ![s] = [Idle EXCEPT !.step = Verdict(s, answer)]]
  /\ UNCHANGED <<since, unexplained, machine, jobs, recovery, loop, watch, permit, taken,
                 unprotected, left>>

ReadsNames(s) ==
  /\ starts[s].step = "names"
  /\ starts' = [starts EXCEPT ![s].step = "submit", ![s].taken = taken]
  /\ UNCHANGED <<since, unexplained, machine, known, jobs, recovery, loop, watch, permit,
                 taken, unprotected, left>>

\* Mutant: the attempt clock moves on success alone, and this one fails.
AttemptsUncounted(s) ==
  since' = [since EXCEPT !["own"] = IF s = "loop" THEN 0 ELSE @]

\* The attempt counts from here.
Attempts(s) ==
  since' = [since EXCEPT !["attempt"] = 0, !["own"] = IF s = "loop" THEN 0 ELSE @]

\* next_free_name: the present second, or the first after it that is free.
FreeSecond(names) == CHOOSE d \in 0 .. Cardinality(names) :
                       d \notin names /\ \A e \in 0 .. d - 1 : e \in names

Submits(s) ==
  /\ starts[s].step = "submit"
  /\ Attempts(s)
  /\ jobs' = Append(jobs, [kind |-> "Backup", by |-> s,
                           dated |-> FreeSecond(starts[s].taken)])
  /\ starts' = [starts EXCEPT ![s] = Idle]
  /\ unprotected' = FALSE
  /\ UNCHANGED <<unexplained, machine, known, recovery, loop, watch, permit, taken, left>>

Protects(s) ==
  /\ starts[s].step = "protect"
  /\ Attempts(s)
  /\ jobs' = Append(jobs, [kind |-> "Offline", by |-> s, dated |-> Past])
  /\ starts' = [starts EXCEPT ![s] = Idle]
  /\ unprotected' = FALSE
  /\ UNCHANGED <<unexplained, machine, known, recovery, loop, watch, permit, taken, left>>

-----------------------------------------------------------------------------
\* The reachability watch.

\* One look, folded in: observe and destination_changed.
WatchLooks(answer) ==
  LET definite == answer # "unknown"
      differs  == definite /\ (answer = "yes") # watch.believes
  IN /\ watch.at = "asleep" /\ answer \in Answers
     /\ watch.sleep = 0 \/ up # watch.believes
     /\ \/ /\ differs /\ watch.quiet = 0 /\ answer = "yes"
           /\ watch' = [at |-> "reconnecting", sleep |-> 0, quiet |-> 1,
                        believes |-> TRUE, saw |-> answer]
           /\ known' = TRUE
           /\ starts' = [starts EXCEPT !["watch"].step = "facts"]
           /\ unprotected' = FALSE
           /\ UNCHANGED permit
        \/ /\ differs /\ watch.quiet = 0 /\ answer = "no"
           /\ watch' = [at |-> "asleep", sleep |-> 1, quiet |-> 1,
                        believes |-> FALSE, saw |-> answer]
           /\ known' = FALSE
           /\ permit' = TRUE
           /\ unprotected' = TRUE
           /\ UNCHANGED starts
        \/ /\ ~differs \/ watch.quiet > 0
           /\ watch' = [watch EXCEPT !.sleep = 1, !.saw = answer]
           /\ UNCHANGED <<known, starts, permit, unprotected>>
     /\ UNCHANGED <<since, unexplained, machine, jobs, recovery, loop, taken, left>>

\* on_reconnected ends by waking the loop.
WatchReturns ==
  /\ watch.at = "reconnecting" /\ starts["watch"].step = "none"
  /\ watch' = [watch EXCEPT !.at = "asleep", !.sleep = 1]
  /\ permit' = TRUE
  /\ UNCHANGED <<since, unexplained, machine, known, jobs, recovery, loop, starts, taken,
                 unprotected, left>>

-----------------------------------------------------------------------------
\* The jobs, as far as the schedule sees them.

\* A backup's archive is in the catalogue.
JobRecords ==
  /\ jobs # <<>> /\ Head(jobs).dated >= 0
  /\ Head(jobs).dated \notin taken
  /\ taken' = taken \cup {Head(jobs).dated}
  /\ UNCHANGED <<since, unexplained, machine, known, jobs, recovery, loop, watch, starts,
                 permit, unprotected, left>>

\* A job ends, and the fan-out wakes the loop.  A recovery that ends well
\* hands over, which forgets the last attempt.
JobEnds ==
  /\ jobs # <<>>
  /\ jobs' = Tail(jobs)
  /\ permit' = TRUE
  /\ IF Head(jobs).kind = "Recovery"
     THEN /\ restoring' = FALSE
          /\ since' = [since EXCEPT !["attempt"] = Never, !["own"] = Never]
     ELSE UNCHANGED <<restoring, since>>
  /\ unexplained' = IF Head(jobs).kind = "Backup" THEN 0 ELSE unexplained
  /\ UNCHANGED <<machine, known, parked, loop, watch, starts, taken, unprotected, left>>

-----------------------------------------------------------------------------
\* What happens to the daemon.

Happens(what) == what \in Circumstances /\ left > 0 /\ left' = left - 1

JobFails ==
  /\ Happens("failures")
  /\ jobs # <<>>
  /\ jobs' = Tail(jobs)
  /\ permit' = TRUE
  /\ \/ Head(jobs).kind = "Backup" /\ unexplained' = unexplained + 1
     \/ UNCHANGED unexplained
  /\ UNCHANGED <<since, machine, known, recovery, loop, watch, starts, taken, unprotected>>

\* The spool or the engine cannot be opened.
StartFails(s) ==
  /\ Happens("failures")
  /\ starts[s].step \in {"names", "protect"}
  /\ starts' = [starts EXCEPT ![s] = Idle]
  /\ UNCHANGED <<since, unexplained, machine, known, jobs, recovery, loop, watch, permit,
                 taken, unprotected>>

\* backup_now, which refuses while a recovery is under way, and
\* unlock_backups, which does not ask.
Calls(unlocks) ==
  /\ Happens("calls")
  /\ starts["call"].step = "none"
  /\ restoring => unlocks
  /\ starts' = [starts EXCEPT !["call"].step = "names"]
  /\ UNCHANGED <<since, unexplained, machine, known, jobs, recovery, loop, watch, permit,
                 taken, unprotected>>

Pauses(minutes) ==
  /\ Happens("pause")
  /\ pause' = minutes /\ permit' = TRUE
  /\ UNCHANGED <<since, unexplained, gate, up, known, jobs, recovery, loop, watch, starts,
                 taken, unprotected>>

MachineChanges ==
  /\ \/ /\ Happens("gates") /\ gate' \in {"open", "power", "disk"} \ {gate}
        /\ UNCHANGED up
     \/ /\ Happens("destination") /\ up' = ~up
        /\ UNCHANGED gate
  /\ UNCHANGED <<since, unexplained, pause, known, jobs, recovery, loop, watch, starts,
                 permit, taken, unprotected>>

Recovery == [kind |-> "Recovery", by |-> "call", dated |-> Past]
Recovers == \E i \in DOMAIN jobs : jobs[i].kind = "Recovery"

\* begin_recovery, resume_recovery and a pause of its job.
RecoveryChanges ==
  /\ Happens("recovery")
  /\ \/ /\ ~Recovers /\ jobs' = Append(jobs, Recovery)
        /\ restoring' = TRUE /\ parked' = FALSE
     \/ /\ jobs # <<>> /\ Head(jobs).kind = "Recovery" /\ jobs' = Tail(jobs)
        /\ parked' = TRUE /\ UNCHANGED restoring
  /\ UNCHANGED <<since, unexplained, machine, known, loop, watch, starts, permit, taken,
                 unprotected>>

\* Ages grow, up to where they are no longer told apart.
Aged(c, minutes) ==
  IF since[c] = Never THEN Never ELSE Lesser(since[c] + minutes, Oldest[c])

\* Asleep: the wall clock moves and the loop's timers do not.
Suspends ==
  /\ Happens("suspend")
  /\ since' = [c \in Clocks |-> Aged(c, 2 * Interval)]
  /\ pause' = 0 /\ watch' = [watch EXCEPT !.quiet = 0, !.saw = "nothing"]
  /\ taken' = {}
  /\ jobs' = [i \in DOMAIN jobs |-> [jobs[i] EXCEPT !.dated = Past]]
  /\ UNCHANGED <<unexplained, gate, up, known, recovery, loop, starts, permit, unprotected>>

\* Killed and started again.  The ages, the pause and the recovery are on disk.
Restarts ==
  /\ Happens("restart")
  /\ unexplained' = 0 /\ known' = TRUE
  /\ jobs' = IF restoring /\ ~parked THEN <<Recovery>> ELSE <<>>
  /\ loop' = Asleep /\ watch' = Watching
  /\ starts' = [s \in Starters |-> Idle]
  /\ permit' = FALSE /\ unprotected' = FALSE
  /\ UNCHANGED <<since, machine, recovery, taken>>

Sooner(n) == IF n > 0 THEN n - 1 ELSE 0

\* Assumed of Borg: maintenance is over before it is due again, a day or a
\* month later.
UpkeepIsQuick ==
  \A i \in DOMAIN jobs : jobs[i].by = "upkeep" =>
    LET m == jobs[i].kind IN since[m] < Every[m] - 1

\* A minute.  Time that passes while the loop computes is not told apart.
TimePasses ==
  /\ loop.at \in {"asleep", "starting"}
  /\ loop.at = "asleep" /\ (loop.sleep = 0 \/ permit) => "delays" \in Circumstances
  /\ UpkeepIsQuick
  /\ since' = [c \in Clocks |-> Aged(c, 1)]
  /\ pause' = Sooner(pause)
  /\ loop' = [loop EXCEPT !.sleep = Sooner(@)]
  /\ watch' = [watch EXCEPT !.sleep = Sooner(@), !.quiet = Sooner(@), !.saw = "nothing"]
  /\ taken' = {}
  /\ jobs' = [i \in DOMAIN jobs |-> [jobs[i] EXCEPT !.dated = Past]]
  /\ starts' = [s \in Starters |-> [starts[s] EXCEPT !.taken = {}]]
  /\ UNCHANGED <<unexplained, gate, up, known, recovery, permit, unprotected, left>>

\* A second: what was dated ahead comes nearer.
SecondPasses ==
  LET Nearer(names) == {d - 1 : d \in names \ {0}}
  IN /\ "seconds" \in Circumstances
     /\ taken' = Nearer(taken)
     /\ jobs' = [i \in DOMAIN jobs |->
                   [jobs[i] EXCEPT !.dated = IF @ = Past THEN Past ELSE @ - 1]]
     /\ starts' = [s \in Starters |-> [starts[s] EXCEPT !.taken = Nearer(@)]]
     /\ UNCHANGED <<since, unexplained, machine, known, recovery, loop, watch, permit,
                    unprotected, left>>

-----------------------------------------------------------------------------
LoopSteps ==
  \/ LoopSleepsOut \/ LoopNotified \/ LoopDecides \/ LoopReturns
  \/ \E m \in Maintenance : LoopConsiders(m) \/ LoopMaintains(m)
StartSteps(s) ==
  \/ ReadsFacts(s) \/ ReadsNames(s) \/ Submits(s) \/ Protects(s)
  \/ \E answer \in {"yes", "no", "unknown"} : Probes(s, answer)
WatchSteps ==
  \/ \E answer \in {"yes", "no", "unknown"} : WatchLooks(answer)
  \/ WatchReturns

Next ==
  \/ LoopSteps \/ WatchSteps
  \/ \E s \in Starters : StartSteps(s) \/ StartFails(s)
  \/ JobRecords \/ JobEnds \/ JobFails
  \/ \E unlocks \in BOOLEAN : Calls(unlocks)
  \/ \E minutes \in 0 .. 2 : Pauses(minutes)
  \/ MachineChanges \/ RecoveryChanges \/ Suspends \/ Restarts
  \/ TimePasses \/ SecondPasses

Spec == Init /\ [][Next]_vars

\* Tasks are scheduled, timers fire, jobs end and time passes.
Fair ==
  /\ WF_vars(LoopSteps) /\ WF_vars(WatchSteps) /\ WF_vars(JobEnds) /\ WF_vars(TimePasses)
  /\ \A s \in Starters : WF_vars(StartSteps(s))
FairSpec == Spec /\ Fair

-----------------------------------------------------------------------------
\* Properties.

ByLoop == {i \in DOMAIN jobs : jobs[i].by = "loop"}

\* The loop never has two runs of its own under way or waiting: it asks
\* whether the daemon is busy after everything it submitted before.
LoopNeverQueuesBehindItself == Cardinality(ByLoop) <= 1

\* The clocks and jobs are what they should be, and the loop never stands behind
\* itself: of tick, submit and maintain in every order with the other tasks.
ScheduleSafety == TypeOK /\ LoopNeverQueuesBehindItself

\* What a step adds to the jobs.
Submitted == IF Len(jobs') > Len(jobs) THEN {jobs'[Len(jobs')]} ELSE {}

\* Two runs the loop submits are an interval apart, whatever the other tasks
\* submit between and however the earlier run ended: the destination that is
\* away costs an attempt an interval, not one a tick (ScheduleInput).
LoopKeepsItsInterval ==
  [][\A new \in Submitted : new.by = "loop" => since["own"] \notin 0 .. Interval - 1]_vars

\* Nothing of the user's or the machine's holds backups back.
Clear == gate = "open" /\ pause = 0 /\ ~restoring

\* Once nothing holds backups back, runs go on being attempted, on this
\* computer if the destination is away, whatever was missed in a suspend.
ProtectsForever == <>[]Clear => []<>(since["attempt"] = 0)

\* And with the destination there for good, they are backups to it.
BacksUpForever ==
  <>[](Clear /\ up) => []<>(\E i \in DOMAIN jobs : jobs[i].kind = "Backup")

\* Backups never stop for good: the destination's where it is, this computer's
\* where it is not (tick, Scheduler::run).
KeepsProtecting == ProtectsForever /\ BacksUpForever

\* Maintenance is not put off for ever by backups that take up all the time
\* there is between two ticks (tick).
MaintainsForever ==
  <>[](Clear /\ up) => \A m \in Maintenance : []<>(since[m] = 0)

\* A tick that starts maintenance starts no backup.
MaintenanceComesFirst ==
  [][loop.at = "decide" /\ loop'.at = "starting"
       => \A i \in DOMAIN jobs : jobs[i].by # "upkeep"]_vars

\* No two backups under way are called the same.
NamesAreFree ==
  \A i, j \in DOMAIN jobs : jobs[i].dated = jobs[j].dated /\ jobs[i].dated # Past => i = j

\* New backups start only once a recovery has finished.
BackupsAwaitRecovery ==
  [][restoring => \A new \in Submitted : new.kind # "Backup"]_vars

\* The tick after the destination is announced lost starts local protection,
\* unless something else holds it back.
LossIsCovered ==
  [][loop.at = "decide" /\ loop'.at = "asleep" /\ loop.away
       => loop.paused \/ loop.busy \/ ~loop.configured]_vars

\* When the watch sees the destination there, and its last change is old
\* enough, the daemon comes to say so.
ReturnIsNoticed ==
  [][watch.saw # "yes" /\ watch'.saw = "yes" /\ watch.quiet = 0 => known']_vars
=============================================================================
