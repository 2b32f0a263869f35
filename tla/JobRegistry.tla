---------------------------- MODULE JobRegistry ----------------------------
(***************************************************************************)
(* The live job registry: crates/backtrackd/src/jobs/registry.rs.          *)
(*                                                                         *)
(* The registry is one Mutex<Inner> used from many threads: the D-Bus      *)
(* methods (clients) and one spawned task per start of a job (runs).  A    *)
(* method takes the lock several times, so the unit of atomicity here is   *)
(* one lock region: a method is a sequence of actions, and what it read in *)
(* one region may be stale in the next.                                    *)
(*                                                                         *)
(* Abstracted: the JobUpdate broadcast, progress and log events (they      *)
(* change no registry state), the error a job failed with, and calls that  *)
(* are refused in their first lock region (they change nothing).           *)
(***************************************************************************)
EXTENDS Jobs, Integers, Sequences, SequencesExt

CONSTANTS
  MaxJobs,    \* bound: how many jobs are ever submitted
  MaxCalls,   \* bound: how many registry methods clients call altogether
  Client,     \* the threads that call registry methods
  Calls,      \* which methods they call
  Workload    \* the <<kind, access>> pairs they submit

ASSUME RegistryAssumption ==
  /\ MaxJobs \in Nat /\ MaxCalls \in Nat
  /\ Calls \subseteq {"submit", "submit_paused", "cancel", "pause", "resume"}
  /\ \A w \in Workload :
        w[1] \in JobKind /\ w[2] \in {AccessOf(w[1]), "Local"}

Job == 1..MaxJobs

VARIABLES
  nextId,     \* Inner.next_id
  kind,       \* Job.kind ("None" before submission)
  access,     \* Job.access
  state,      \* Job.state ("Absent" before submission)
  run,        \* Job.run: how often the job was started
  queue,      \* Inner.queue
  tripped,    \* <<job, run>>: the cancellation tokens that were tripped;
              \* each start makes a new token, so the run number names it
  call,       \* where each client is in its method, and what it has read
  tasks,      \* the spawned run tasks
  borg,       \* <<job, run>>: engine work that may hold Borg's own lock
  calls       \* how many calls were made (for MaxCalls)

jobVars == <<nextId, kind, access>>
vars == <<nextId, kind, access, state, run, queue, tripped, call, tasks,
          borg, calls>>

(* A client inside a method: where it is, and what it read there (the job, *)
(* the state to move it to, the run whose token it cloned).                *)
At(pc, j, next, n) == [pc |-> pc, job |-> j, next |-> next, run |-> n]
Idle == At("idle", 0, Cancelled, 0)
Pumping == At("pump", 0, Cancelled, 0)

CallPc == {"idle", "pump", "cancel.apply", "cancel.trip", "cancel.dequeue",
           "pause.apply", "pause.trip", "resume.apply", "resume.push"}
TaskPc == {"spawned", "factory", "opened", "reading", "stopping", "failing",
           "settle", "apply", "pump"}

CallRec == {r \in [pc : CallPc, job : 0..MaxJobs, next : JobState, run : Nat] :
              r.pc \in {"idle", "pump"} \/ r.job \in Job}
TaskRec == [job : Job, run : Nat, pc : TaskPc, outcome : Terminal]

TypeOK ==
  /\ nextId \in 1..(MaxJobs + 1)
  /\ kind \in [Job -> JobKind \cup {"None"}]
  /\ access \in [Job -> RepoAccess]
  /\ state \in [Job -> JobState \cup {"Absent"}]
  /\ run \in [Job -> Nat]
  /\ queue \in Seq(Job)
  /\ tripped \in SUBSET (Job \X Nat)
  /\ call \in [Client -> CallRec]
  /\ tasks \in SUBSET TaskRec
  /\ borg \in SUBSET (Job \X Nat)
  /\ calls \in Nat

Init ==
  /\ nextId = 1
  /\ kind = [j \in Job |-> "None"]
  /\ access = [j \in Job |-> "Local"]
  /\ state = [j \in Job |-> "Absent"]
  /\ run = [j \in Job |-> 0]
  /\ queue = <<>>
  /\ tripped = {}
  /\ call = [c \in Client |-> Idle]
  /\ tasks = {}
  /\ borg = {}
  /\ calls = 0

-----------------------------------------------------------------------------
(* JobRegistry::pump.  One turn of its loop is one lock region.            *)

HeldModes == {access[j] : j \in {k \in Job : HoldsRepo(state[k])}}
Admissible(i) == Admits(HeldModes, access[queue[i]])
NothingAdmissible == \A i \in DOMAIN queue : ~Admissible(i)

(* What is left of the queue once its entry i was taken out.  (Mutant: the *)
(* entry is looked at and not taken.)                                      *)
PeekedQueue(i) == queue
Dequeued(i) == RemoveAt(queue, i)

(* The queue is scanned: the first entry the guard admits is started, even *)
(* past others that wait.  It becomes Running whatever state it was in.    *)
PumpStart ==
  \E i \in DOMAIN queue :
    LET j == queue[i] IN
    /\ Admissible(i)
    /\ \A k \in 1..(i - 1) : ~Admissible(k)
    /\ queue' = Dequeued(i)
    /\ state' = [state EXCEPT ![j] = "Running"]
    /\ run' = [run EXCEPT ![j] = @ + 1]
    /\ tasks' = tasks \cup {[job |-> j, run |-> run[j] + 1,
                             pc |-> "spawned", outcome |-> Cancelled]}
    /\ UNCHANGED <<jobVars, tripped, call, borg, calls>>

ClientPumps(c) == call[c].pc = "pump" /\ PumpStart

ClientPumpEnds(c) ==
  /\ call[c].pc = "pump"
  /\ NothingAdmissible
  /\ call' = [call EXCEPT ![c] = Idle]
  /\ UNCHANGED <<jobVars, state, run, queue, tripped, tasks, borg, calls>>

-----------------------------------------------------------------------------
(* The methods.  Begin is what every call has in common.                   *)

Begin(c, method) ==
  /\ method \in Calls
  /\ call[c].pc = "idle"
  /\ calls < MaxCalls
  /\ calls' = calls + 1

(* The id a submission gets.  (Mutant: read after the increment.) *)
IdAfterIncrement == nextId + 1
SubmittedId == nextId

(* submit and submit_local: insert, enqueue, then pump. *)
Submit(c) ==
  /\ Begin(c, "submit")
  /\ nextId \in Job
  /\ \E w \in Workload :
       /\ kind' = [kind EXCEPT ![SubmittedId] = w[1]]
       /\ access' = [access EXCEPT ![SubmittedId] = w[2]]
  /\ state' = [state EXCEPT ![SubmittedId] = "Queued"]
  /\ queue' = Append(queue, SubmittedId)
  /\ nextId' = nextId + 1
  /\ call' = [call EXCEPT ![c] = Pumping]
  /\ UNCHANGED <<run, tripped, tasks, borg>>

(* submit_paused: a recovery found paused on disk; not queued, no pump. *)
SubmitPaused(c) ==
  /\ Begin(c, "submit_paused")
  /\ nextId \in Job
  /\ \E k \in {k \in JobKind : IsPausable(k)} :
       /\ kind' = [kind EXCEPT ![nextId] = k]
       /\ access' = [access EXCEPT ![nextId] = AccessOf(k)]
  /\ state' = [state EXCEPT ![nextId] = "Paused"]
  /\ nextId' = nextId + 1
  /\ UNCHANGED <<run, queue, tripped, call, tasks, borg>>

Present(j) == state[j] # "Absent"

(* cancel, first region: what the job is decides what it will be moved to, *)
(* and the token of the run there is now is cloned.                        *)
CancelBegin(c, j) ==
  /\ Begin(c, "cancel")
  /\ Present(j)
  /\ state[j] \notin Terminal
  /\ call' = [call EXCEPT ![c] =
       At("cancel.apply", j,
          IF state[j] \in {"Queued", "Paused"} THEN Cancelled ELSE "Cancelling",
          run[j])]
  /\ UNCHANGED <<jobVars, state, run, queue, tripped, tasks, borg>>

(* transition, as a method calls it: one region that checks the table and  *)
(* moves the job.  Refused, the method returns the error.                  *)
ClientTransition(c, then) ==
  LET j == call[c].job
      next == call[c].next IN
  \/ /\ CanTransition(state[j], next)
     /\ state' = [state EXCEPT ![j] = next]
     /\ call' = [call EXCEPT ![c] = At(then, j, next, call[c].run)]
  \/ /\ ~CanTransition(state[j], next)
     /\ call' = [call EXCEPT ![c] = Idle]
     /\ UNCHANGED state

(* cancel, second region. *)
CancelApply(c) ==
  /\ call[c].pc = "cancel.apply"
  /\ ClientTransition(c, IF call[c].next = Cancelled
                         THEN "cancel.dequeue" ELSE "cancel.trip")
  /\ UNCHANGED <<jobVars, run, queue, tripped, tasks, borg, calls>>

(* token.cancel().  (Mutant: the token is forgotten.) *)
CancelForgetsToken(c) ==
  /\ call[c].pc = "cancel.trip"
  /\ call' = [call EXCEPT ![c] = Idle]
  /\ UNCHANGED <<jobVars, state, run, queue, tripped, tasks, borg, calls>>

CancelTrip(c) ==
  /\ call[c].pc = "cancel.trip"
  /\ tripped' = tripped \cup {<<call[c].job, call[c].run>>}
  /\ call' = [call EXCEPT ![c] = Idle]
  /\ UNCHANGED <<jobVars, state, run, queue, tasks, borg, calls>>

(* remove_from_queue, then pump. *)
CancelDequeue(c) ==
  /\ call[c].pc = "cancel.dequeue"
  /\ queue' = RemoveFirst(queue, call[c].job)
  /\ call' = [call EXCEPT ![c] = Pumping]
  /\ UNCHANGED <<jobVars, state, run, tripped, tasks, borg, calls>>

(* pause, first region: refused unless the kind is pausable. *)
PauseBegin(c, j) ==
  /\ Begin(c, "pause")
  /\ Present(j)
  /\ IsPausable(kind[j])
  /\ state[j] \notin Terminal
  /\ call' = [call EXCEPT ![c] = At("pause.apply", j, "Paused", run[j])]
  /\ UNCHANGED <<jobVars, state, run, queue, tripped, tasks, borg>>

PauseApply(c) ==
  /\ call[c].pc = "pause.apply"
  /\ ClientTransition(c, "pause.trip")
  /\ UNCHANGED <<jobVars, run, queue, tripped, tasks, borg, calls>>

PauseTrip(c) ==
  /\ call[c].pc = "pause.trip"
  /\ tripped' = tripped \cup {<<call[c].job, call[c].run>>}
  /\ call' = [call EXCEPT ![c] = Pumping]
  /\ UNCHANGED <<jobVars, state, run, queue, tasks, borg, calls>>

(* resume: check, transition to Queued, push, pump: four lock regions. *)
ResumeBegin(c, j) ==
  /\ Begin(c, "resume")
  /\ Present(j)
  /\ state[j] = "Paused"
  /\ call' = [call EXCEPT ![c] = At("resume.apply", j, "Queued", 0)]
  /\ UNCHANGED <<jobVars, state, run, queue, tripped, tasks, borg>>

ResumeApply(c) ==
  /\ call[c].pc = "resume.apply"
  /\ ClientTransition(c, "resume.push")
  /\ UNCHANGED <<jobVars, run, queue, tripped, tasks, borg, calls>>

(* The push, and the pump after it.  (Mutant: nobody pumps.) *)
ResumePushNoPump(c) ==
  /\ call[c].pc = "resume.push"
  /\ queue' = Append(queue, call[c].job)
  /\ call' = [call EXCEPT ![c] = Idle]
  /\ UNCHANGED <<jobVars, state, run, tripped, tasks, borg, calls>>

ResumePush(c) ==
  /\ call[c].pc = "resume.push"
  /\ queue' = Append(queue, call[c].job)
  /\ call' = [call EXCEPT ![c] = Pumping]
  /\ UNCHANGED <<jobVars, state, run, tripped, tasks, borg, calls>>

-----------------------------------------------------------------------------
(* JobRegistry::run: one spawned task per start.  Its two selects are      *)
(* biased: a poll looks at the token first and only then at the factory or *)
(* the stream, so "spawned" and "opened" are the top of a poll, "factory"  *)
(* and "reading" the state after the token was found untripped.            *)

Token(t) == <<t.job, t.run>>
Step(t, pc) == tasks' = (tasks \ {t}) \cup {[t EXCEPT !.pc = pc]}
StepTo(t, pc, outcome) ==
  tasks' = (tasks \ {t}) \cup {[t EXCEPT !.pc = pc, !.outcome = outcome]}

RunCancelledBeforeStart(t) ==
  /\ t.pc \in {"spawned", "factory"}
  /\ Token(t) \in tripped
  /\ StepTo(t, "settle", Cancelled)
  /\ UNCHANGED <<jobVars, state, run, queue, tripped, call, borg, calls>>

RunCallsFactory(t) ==
  /\ t.pc = "spawned"
  /\ Token(t) \notin tripped
  /\ Step(t, "factory")
  /\ UNCHANGED <<jobVars, state, run, queue, tripped, call, borg, calls>>

(* The factory answered with a stream: engine work is under way.  Work on  *)
(* this computer alone never opens the repository.                         *)
RunOpens(t) ==
  /\ t.pc = "factory"
  /\ Step(t, "opened")
  /\ borg' = IF access[t.job] = "Local" THEN borg ELSE borg \cup {Token(t)}
  /\ UNCHANGED <<jobVars, state, run, queue, tripped, call, calls>>

(* The factory failed: settled as Failed without asking failure_outcome. *)
RunFactoryFails(t) ==
  /\ t.pc = "factory"
  /\ StepTo(t, "settle", Failed)
  /\ UNCHANGED <<jobVars, state, run, queue, tripped, call, borg, calls>>

RunReads(t) ==
  /\ t.pc = "opened"
  /\ Token(t) \notin tripped
  /\ Step(t, "reading")
  /\ UNCHANGED <<jobVars, state, run, queue, tripped, call, borg, calls>>

(* The token tripped: the stream is dropped, which asks Borg to stop and   *)
(* does not wait for it.                                                   *)
RunStops(t) ==
  /\ t.pc \in {"opened", "reading"}
  /\ Token(t) \in tripped
  /\ Step(t, "stopping")
  /\ UNCHANGED <<jobVars, state, run, queue, tripped, call, borg, calls>>

(* A terminal event, sent once the engine's work is over. *)
RunFinishes(t) ==
  /\ t.pc = "reading"
  /\ Token(t) \notin borg
  /\ \/ \E outcome \in {Completed, Cancelled} : StepTo(t, "settle", outcome)
     \/ Step(t, "failing")
  /\ UNCHANGED <<jobVars, state, run, queue, tripped, call, borg, calls>>

(* cancellation_outcome and failure_outcome: a lock region of their own. *)
RunCancellationOutcome(t) ==
  /\ t.pc = "stopping"
  /\ StepTo(t, "settle",
            IF state[t.job] \in Terminal THEN state[t.job] ELSE Cancelled)
  /\ UNCHANGED <<jobVars, state, run, queue, tripped, call, borg, calls>>

RunFailureOutcome(t) ==
  /\ t.pc = "failing"
  /\ StepTo(t, "settle",
            IF state[t.job] = "Cancelling" THEN Cancelled ELSE Failed)
  /\ UNCHANGED <<jobVars, state, run, queue, tripped, call, borg, calls>>

(* settle_run: is the job still this run's to settle?  One lock region, *)
(* released before the transition.                                      *)
StillItsJob(t) == run[t.job] = t.run /\ state[t.job] # "Paused"

RunSettleCheck(t) ==
  /\ t.pc = "settle"
  /\ Step(t, IF StillItsJob(t) THEN "apply" ELSE "pump")
  /\ UNCHANGED <<jobVars, state, run, queue, tripped, call, borg, calls>>

(* settle: a transition the table refuses is logged and nothing more. *)
RunSettleApply(t) ==
  /\ t.pc = "apply"
  /\ state' = IF CanTransition(state[t.job], t.outcome)
              THEN [state EXCEPT ![t.job] = t.outcome]
              ELSE state
  /\ Step(t, "pump")
  /\ UNCHANGED <<jobVars, run, queue, tripped, call, borg, calls>>

RunPumps(t) == t.pc = "pump" /\ PumpStart

(* The end of a run's pump, and so of its task.  (Mutant: it does not look *)
(* whether anything can start.)                                            *)
RunEndsUnpumped(t) ==
  /\ t.pc = "pump"
  /\ tasks' = tasks \ {t}
  /\ UNCHANGED <<jobVars, state, run, queue, tripped, call, borg, calls>>

RunEnds(t) ==
  /\ t.pc = "pump"
  /\ NothingAdmissible
  /\ tasks' = tasks \ {t}
  /\ UNCHANGED <<jobVars, state, run, queue, tripped, call, borg, calls>>

(* The engine: Borg exits, on its own or because it was asked to. *)
BorgExits(b) ==
  /\ b \in borg
  /\ borg' = borg \ {b}
  /\ UNCHANGED <<jobVars, state, run, queue, tripped, call, tasks, calls>>

-----------------------------------------------------------------------------
ClientCalls(c) ==
  \/ Submit(c)
  \/ SubmitPaused(c)
  \/ \E j \in Job : CancelBegin(c, j) \/ PauseBegin(c, j) \/ ResumeBegin(c, j)

ClientContinues(c) ==
  \/ ClientPumps(c) \/ ClientPumpEnds(c)
  \/ CancelApply(c) \/ CancelTrip(c) \/ CancelDequeue(c)
  \/ PauseApply(c) \/ PauseTrip(c)
  \/ ResumeApply(c) \/ ResumePush(c)

RunContinues(t) ==
  \/ RunCancelledBeforeStart(t) \/ RunCallsFactory(t)
  \/ RunOpens(t) \/ RunFactoryFails(t)
  \/ RunReads(t) \/ RunStops(t) \/ RunFinishes(t)
  \/ RunCancellationOutcome(t) \/ RunFailureOutcome(t)
  \/ RunSettleCheck(t) \/ RunSettleApply(t)
  \/ RunPumps(t) \/ RunEnds(t)

Next ==
  \/ \E c \in Client : ClientCalls(c) \/ ClientContinues(c)
  \/ \E t \in tasks : RunContinues(t)
  \/ \E b \in borg : BorgExits(b)

Spec == Init /\ [][Next]_vars

(* The runtime is a multi-threaded Tokio: a method that was entered goes   *)
(* on, a spawned task is polled whenever it can make progress, and Borg    *)
(* exits in the end.  Nobody has to make a call.                           *)
Fairness ==
  /\ \A c \in Client : WF_vars(ClientContinues(c))
  /\ \A j \in Job, n \in 1..MaxCalls :
       /\ WF_vars(\E t \in tasks : Token(t) = <<j, n>> /\ RunContinues(t))
       /\ WF_vars(BorgExits(<<j, n>>))

FairSpec == Spec /\ Fairness

-----------------------------------------------------------------------------
(* Properties.                                                             *)

(* Holding the repository, and kinds that cannot be paused: as the comments *)
(* of mod.rs have it, whatever holds_repo and is_pausable answer.           *)
Holds(j) == state[j] \in {"Running", "Cancelling"}
Steady(j) == kind[j] # "RestoreEverything"

(* A client or a run that will look at the queue before it is done. *)
WillPump(c) == call[c].pc \in {"pump", "cancel.dequeue", "pause.trip"}
SomebodyPumps ==
  \/ \E c \in Client : WillPump(c)
  \/ \E t \in tasks : t.pc = "pump"

(* Two jobs that hold the repository are compatible: a writer has it to    *)
(* itself (guard.rs: "Rewrites the repository; nothing else may run").     *)
(* The one exception the code allows is a recovery in Cancelling: a cancel *)
(* that read Running before a pause moves it there without admission.      *)
RepoExclusion ==
  \A i, j \in Job :
    i # j /\ Holds(i) /\ Holds(j) =>
      \/ Compatible(access[i], access[j])
      \/ \E k \in {i, j} : ~Steady(k) /\ state[k] = "Cancelling"

(* Whenever an entry of the queue could be started, some thread is on its  *)
(* way to the pump: no submission, settling, cancel or pause frees the     *)
(* repository and leaves the jobs behind it waiting for ever.              *)
NoLostWakeup == NothingAdmissible \/ SomebodyPumps

(* A Running job is never orphaned: the run that was started last is alive *)
(* and has yet to settle it, however pauses, resumes and the ends of       *)
(* earlier runs interleave (settle_run's check of the run number).         *)
RunningHasRun ==
  \A j \in Job : state[j] = "Running" =>
    \E t \in tasks : t.job = j /\ t.run = run[j] /\ t.pc # "pump"

(* Work that cannot be paused is started at most once, and never waits in  *)
(* the queue again: nobody is backed up, pruned or restored twice.         *)
StartedOnce ==
  \A j \in Job : Present(j) /\ Steady(j) =>
    run[j] <= 1 /\ (run[j] = 1 => \A i \in DOMAIN queue : queue[i] # j)

(* Only a pausable kind is ever Paused (JobState::Paused's comment), so a  *)
(* writer never gives the repository up in the middle of its work.         *)
OnlyPausablePaused ==
  \A j \in Job : state[j] = "Paused" => ~Steady(j)

(* A cancel is not lost: a job that cannot be paused and is Cancelling has *)
(* had the token of its own run tripped, or the client is about to.        *)
CancelReachesRun ==
  \A j \in Job : state[j] = "Cancelling" /\ Steady(j) =>
    \/ <<j, run[j]>> \in tripped
    \/ \E c \in Client : /\ call[c].pc = "cancel.trip"
                         /\ call[c].job = j /\ call[c].run = run[j]

(* No id waits in the queue twice, however resumes and cancels race.       *)
QueueDistinct ==
  \A i, k \in DOMAIN queue : queue[i] = queue[k] => i = k

(* The registry implements a readers-writer lock, for the jobs that cannot *)
(* be paused.                                                              *)
Lock == INSTANCE RepoLock WITH
  held <- {<<j, access[j]>> : j \in {k \in Job : Holds(k) /\ Steady(k)}}
LockSpec == Lock!Spec

(* A job that is running does not run for ever, and a job that is queued   *)
(* is started or cancelled (pump: "it cannot be starved indefinitely").    *)
RunningEnds == \A j \in Job : state[j] = "Running" ~> state[j] # "Running"
QueuedMoves == \A j \in Job : state[j] = "Queued" ~> state[j] # "Queued"

(* What the code's comments say and the interleavings break (see README).  *)

(* mod.rs: a terminal state "admits no further transitions".               *)
TerminalIsFinal ==
  [][\A j \in Job : state[j] \in Terminal => state'[j] = state[j]]_state

(* mod.rs: Cancelling is "transient, and always resolves to Done".         *)
CancellingResolves ==
  \A j \in Job : state[j] = "Cancelling" ~> state[j] \in {Completed, Cancelled}

(* registry.rs: "the repository is actually free by the time the next job  *)
(* is admitted": the engine work of two jobs is compatible.                *)
EngineExclusion ==
  \A a, b \in borg : a[1] # b[1] => Compatible(access[a[1]], access[b[1]])

(* settle_run: a run may not "settle a later run's job".                   *)
SettlesOwnRun ==
  [][\A t \in tasks :
       t.pc = "apply" /\ t \notin tasks' /\ state'[t.job] # state[t.job]
         => t.run = run[t.job]]_vars

(* cancel: "a running one enters Cancelling while the engine is torn       *)
(* down": no job is Cancelled while its run goes on and nothing stops it.  *)
CancelledIsStopped ==
  \A j \in Job : state[j] = Cancelled =>
    \A t \in tasks :
      t.job = j /\ t.run = run[j] /\ t.pc \in {"factory", "opened", "reading"} =>
        \/ Token(t) \in tripped
        \/ \E c \in Client : /\ call[c].pc \in {"cancel.trip", "pause.trip"}
                             /\ call[c].job = j /\ call[c].run = t.run
=============================================================================
