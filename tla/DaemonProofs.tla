---------------------------- MODULE DaemonProofs ----------------------------
(***************************************************************************)
(* Proofs about the daemon's parts.  The registry, for every number of     *)
(* jobs, clients and calls and every workload: type correctness, the       *)
(* inductive invariant, the invariants that follow from it, and the        *)
(* refinement of RepoLock.  A Borg with its readers, for pipes and streams *)
(* of every size and for as much as Borg may have to tell.  The processes, *)
(* however many are started, are stopped, fail or lose their bus.          *)
(***************************************************************************)
EXTENDS Daemon, WellFoundedInduction, TLAPS

-----------------------------------------------------------------------------
(* Taking entry i out of a queue leaves the other entries, each once. *)
LEMMA RemoveAtEntries ==
  ASSUME NEW S, NEW q \in Seq(S), NEW i \in DOMAIN q
  PROVE  /\ Len(RemoveAt(q, i)) = Len(q) - 1
         /\ \A k \in DOMAIN RemoveAt(q, i) :
              RemoveAt(q, i)[k] = IF k < i THEN q[k] ELSE q[k + 1]
<1> DEFINE l == SubSeq(q, 1, i - 1)
           r == SubSeq(q, i + 1, Len(q))
<1>1. i \in 1..Len(q) /\ Len(q) \in Nat
  OBVIOUS
<1>2. /\ l \in Seq(S) /\ Len(l) = i - 1
      /\ \A k \in 1..(i - 1) : l[k] = q[k]
  BY <1>1
<1>3. /\ r \in Seq(S) /\ Len(r) = Len(q) - i
      /\ \A k \in 1..(Len(q) - i) : r[k] = q[k + i]
  BY <1>1
<1>4. RemoveAt(q, i) = l \o r
  BY DEF RemoveAt
<1> HIDE DEF l, r
<1>5. Len(l \o r) = Len(q) - 1 /\ DOMAIN (l \o r) = 1..(Len(q) - 1)
  BY <1>1, <1>2, <1>3
<1>6. ASSUME NEW k \in 1..(Len(q) - 1)
      PROVE  (l \o r)[k] = IF k < i THEN q[k] ELSE q[k + 1]
  <2>1. CASE k < i
    <3>1. k \in 1..(i - 1) /\ k \in 1..(Len(l) + Len(r))
      BY <1>1, <1>2, <1>3, <2>1
    <3>2. (l \o r)[k] = l[k]
      BY <1>2, <1>3, <3>1
    <3> QED
      BY <1>2, <2>1, <3>1, <3>2
  <2>2. CASE k >= i
    <3>1. (l \o r)[k] = r[k - (i - 1)]
      BY SMTT(30), <1>1, <1>2, <1>3, <2>2
    <3>2. k - (i - 1) \in 1..(Len(q) - i) /\ k - (i - 1) + i = k + 1
      BY <1>1, <2>2
    <3> QED
      BY SMTT(30), <1>1, <1>3, <2>2, <3>1, <3>2
  <2>3. k < i \/ k >= i
    BY <1>1
  <2> QED
    BY <2>1, <2>2, <2>3
<1> QED
  BY <1>4, <1>5, <1>6

(* What is left of a queue was in it, and in it once if it was. *)
LEMMA RemoveAtKeeps ==
  ASSUME NEW S, NEW q \in Seq(S), NEW i \in DOMAIN q, NEW r, r = RemoveAt(q, i)
  PROVE  /\ \A k \in DOMAIN r : \E m \in DOMAIN q : m # i /\ r[k] = q[m]
         /\ (\A k, m \in DOMAIN q : q[k] = q[m] => k = m)
              => \A k, m \in DOMAIN r : r[k] = r[m] => k = m
<1>1. r \in Seq(S) /\ Len(r) = Len(q) - 1
  BY SMTT(30), RemoveAtEntries DEF RemoveAt
<1>2. \A k \in DOMAIN r : r[k] = IF k < i THEN q[k] ELSE q[k + 1]
  BY RemoveAtEntries
<1>3. DOMAIN r = 1..(Len(q) - 1) /\ DOMAIN q = 1..Len(q) /\ Len(q) \in Nat
  BY <1>1
<1>4. i \in Int
  BY <1>3
<1> QED
  BY SMTT(30), <1>2, <1>3, <1>4

-----------------------------------------------------------------------------
(* The states and modes the definitions of Jobs speak of, in one place. *)
USE RegistryAssumption DEF Job, JobState, Terminal, Completed, Cancelled,
    Failed, RepoAccess

-----------------------------------------------------------------------------
(* Facts about the operators the registry is built from.                   *)

(* The table leads from job states to job states. *)
LEMMA TransitionStates ==
  ASSUME NEW s, NEW n, CanTransition(s, n)
  PROVE  n \in JobState
BY DEF CanTransition, Transitions

(* Only Paused and Running lead to the states that hold the repository, and *)
(* Running is entered only from Queued: never by a settling or a cancel.    *)
LEMMA TransitionsToHolding ==
  ASSUME NEW s, NEW n, CanTransition(s, n), n \in {"Running", "Cancelling"}
  PROVE  \/ n = "Running" /\ s = "Queued"
         \/ n = "Cancelling" /\ s \in {"Running", "Paused"}
BY DEF CanTransition, Transitions

(* Taking an entry out of a queue of jobs leaves a queue of jobs. *)
LEMMA RemoveAtType ==
  ASSUME NEW q \in Seq(Job), NEW i \in DOMAIN q
  PROVE  RemoveAt(q, i) \in Seq(Job)
BY SMTT(60) DEF RemoveAt

(* A non-empty set of naturals has its least element. *)
LEMMA MinInSet ==
  ASSUME NEW S, S \subseteq Nat, S # {}
  PROVE  Min(S) \in S
<1>1. PICK x \in S : \A y \in S : ~(<<y, x>> \in OpToRel(<, Nat))
  BY NatLessThanWellFounded, WFMin
<1>2. \A y \in S : ~(y < x)
  BY <1>1 DEF OpToRel
<1>3. \A y \in S : x =< y
  BY <1>2
<1> QED
  BY <1>3 DEF Min

(* remove_from_queue takes one entry out, or leaves the queue as it is. *)
LEMMA RemoveFirstKeeps ==
  ASSUME NEW q \in Seq(Job), NEW j \in Job
  PROVE  \/ RemoveFirst(q, j) = q
         \/ \E i \in DOMAIN q : RemoveFirst(q, j) = RemoveAt(q, i)
<1>1. CASE ~\E i \in 1..Len(q) : q[i] = j
  BY <1>1 DEF RemoveFirst
<1>2. CASE \E i \in 1..Len(q) : q[i] = j
  <2> DEFINE I == {i \in 1..Len(q) : q[i] = j}
  <2>1. Min(I) \in I
    <3>1. I # {} /\ I \subseteq Nat
      BY <1>2
    <3> HIDE DEF I
    <3> QED
      BY <3>1, MinInSet
  <2>2. RemoveFirst(q, j) = RemoveAt(q, Min(I))
    BY <1>2 DEF RemoveFirst, SelectInSeq
  <2>3. Min(I) \in DOMAIN q
    BY <2>1
  <2> HIDE DEF I
  <2> QED
    BY <2>2, <2>3
<1> QED
  BY <1>1, <1>2

-----------------------------------------------------------------------------
(* Type correctness.                                                       *)

(* A step of a run moves one of the tasks and keeps the set of tasks typed. *)
LEMMA StepType ==
  ASSUME TypeOK, NEW t \in tasks, NEW pc \in TaskPc, NEW o \in Terminal
  PROVE  /\ Step(t, pc) => tasks' \in SUBSET TaskRec
         /\ StepTo(t, pc, o) => tasks' \in SUBSET TaskRec
BY ZenonT(60) DEF TypeOK, Step, StepTo, TaskRec

(* What the pump does to the registry is typed. *)
LEMMA PumpStartType ==
  ASSUME TypeOK, PumpStart
  PROVE  TypeOK'
<1>1. PICK i \in DOMAIN queue :
        /\ queue' = RemoveAt(queue, i)
        /\ state' = [state EXCEPT ![queue[i]] = "Running"]
        /\ run' = [run EXCEPT ![queue[i]] = @ + 1]
        /\ tasks' = tasks \cup {[job |-> queue[i], run |-> run[queue[i]] + 1,
                                 pc |-> "spawned", outcome |-> Cancelled]}
        /\ UNCHANGED <<jobVars, tripped, call, borg, calls>>
  BY DEF PumpStart, Dequeued
<1>2. queue[i] \in Job
  BY DEF TypeOK
<1>3. queue' \in Seq(Job)
  BY <1>1, RemoveAtType DEF TypeOK
<1>4. tasks' \in SUBSET TaskRec
  BY <1>1, <1>2 DEF TypeOK, TaskPc, TaskRec
<1>5. run' \in [Job -> Nat] /\ state' \in [Job -> JobState \cup {"Absent"}]
  BY SMTT(30), <1>1, <1>2 DEF TypeOK
<1> QED
  BY <1>1, <1>3, <1>4, <1>5 DEF TypeOK, jobVars

(* A client's record stays typed when it moves to a typed place. *)
LEMMA CallType ==
  ASSUME TypeOK, NEW c \in Client, NEW r \in CallRec,
         call' = [call EXCEPT ![c] = r]
  PROVE  call' \in [Client -> CallRec]
BY DEF TypeOK

LEMMA AtType ==
  ASSUME NEW pc \in CallPc, NEW j \in Job, NEW s \in JobState, NEW n \in Nat
  PROVE  At(pc, j, s, n) \in CallRec
BY DEF At, CallRec

LEMMA IdleType == Idle \in CallRec /\ Pumping \in CallRec
BY DEF At, CallRec, Idle, Pumping, CallPc

(* transition, called by a method, keeps the state and the caller typed. *)
LEMMA ClientTransitionType ==
  ASSUME TypeOK, NEW c \in Client, NEW pc \in CallPc,
         call[c].pc \notin {"idle", "pump"}, ClientTransition(c, pc)
  PROVE  /\ state' \in [Job -> JobState \cup {"Absent"}]
         /\ call' \in [Client -> CallRec]
<1>1. call[c].job \in Job /\ call[c].next \in JobState /\ call[c].run \in Nat
  BY DEF TypeOK, CallRec
<1>2. At(pc, call[c].job, call[c].next, call[c].run) \in CallRec
  BY <1>1, AtType
<1>3. call' \in [Client -> CallRec]
  BY <1>2, IdleType, CallType DEF ClientTransition
<1> QED
  BY <1>1, <1>3 DEF ClientTransition, TypeOK

(* The first region of every method is typed. *)
LEMMA ClientCallsType ==
  ASSUME TypeOK, NEW c \in Client, ClientCalls(c)
  PROVE  TypeOK'
<1> USE DEF Begin, jobVars
<1>1. CASE Submit(c)
  <2>1. call' \in [Client -> CallRec]
    BY <1>1, IdleType, CallType DEF Submit
  <2>2. PICK w \in Workload :
          /\ kind' = [kind EXCEPT ![nextId] = w[1]]
          /\ access' = [access EXCEPT ![nextId] = w[2]]
    BY <1>1 DEF Submit, SubmittedId
  <2>3. w[1] \in JobKind /\ w[2] \in RepoAccess
    BY DEF AccessOf
  <2>4. queue' \in Seq(Job)
    BY <1>1 DEF Submit, SubmittedId, TypeOK
  <2> QED
    BY SMTT(30), <1>1, <2>1, <2>2, <2>3, <2>4 DEF Submit, SubmittedId, TypeOK
<1>2. CASE SubmitPaused(c)
  BY <1>2 DEF SubmitPaused, AccessOf, TypeOK
<1>3. ASSUME NEW j \in Job, CancelBegin(c, j)
      PROVE  TypeOK'
  <2>1. call' \in [Client -> CallRec]
    BY <1>3, AtType, CallType DEF CancelBegin, CallPc, TypeOK
  <2> QED
    BY <1>3, <2>1 DEF CancelBegin, TypeOK
<1>4. ASSUME NEW j \in Job, PauseBegin(c, j)
      PROVE  TypeOK'
  <2>1. call' \in [Client -> CallRec]
    BY <1>4, AtType, CallType DEF PauseBegin, CallPc, TypeOK
  <2> QED
    BY <1>4, <2>1 DEF PauseBegin, TypeOK
<1>5. ASSUME NEW j \in Job, ResumeBegin(c, j)
      PROVE  TypeOK'
  <2>1. call' \in [Client -> CallRec]
    BY <1>5, AtType, CallType DEF ResumeBegin, CallPc, TypeOK
  <2> QED
    BY <1>5, <2>1 DEF ResumeBegin, TypeOK
<1> QED
  BY <1>1, <1>2, <1>3, <1>4, <1>5 DEF ClientCalls

(* So are its later regions. *)
LEMMA ClientContinuesType ==
  ASSUME TypeOK, NEW c \in Client, ClientContinues(c)
  PROVE  TypeOK'
<1> USE DEF jobVars
<1>1. CASE ClientPumps(c)
  BY <1>1, PumpStartType DEF ClientPumps
<1>2. CASE ClientPumpEnds(c)
  <2>1. call' \in [Client -> CallRec]
    BY <1>2, IdleType, CallType DEF ClientPumpEnds
  <2> QED
    BY <1>2, <2>1 DEF ClientPumpEnds, TypeOK
<1>3. CASE CancelApply(c)
  BY <1>3, ClientTransitionType DEF CancelApply, CallPc, TypeOK
<1>4. CASE PauseApply(c)
  BY <1>4, ClientTransitionType DEF PauseApply, CallPc, TypeOK
<1>5. CASE ResumeApply(c)
  BY <1>5, ClientTransitionType DEF ResumeApply, CallPc, TypeOK
<1>6. ASSUME call[c].pc \in {"cancel.trip", "cancel.dequeue", "pause.trip",
                             "resume.push"}
      PROVE  call[c].job \in Job /\ call[c].run \in Nat
  BY <1>6 DEF TypeOK, CallRec
<1>7. CASE CancelTrip(c) \/ PauseTrip(c)
  <2>1. call' \in [Client -> CallRec]
    BY <1>7, IdleType, CallType DEF CancelTrip, PauseTrip
  <2>2. tripped' \in SUBSET (Job \X Nat)
    BY <1>6, <1>7 DEF CancelTrip, PauseTrip, TypeOK
  <2> QED
    BY <1>7, <2>1, <2>2 DEF CancelTrip, PauseTrip, TypeOK
<1>8. CASE CancelDequeue(c)
  <2>1. call' \in [Client -> CallRec]
    BY <1>8, IdleType, CallType DEF CancelDequeue
  <2>2. queue' \in Seq(Job)
    BY <1>6, <1>8, RemoveFirstKeeps, RemoveAtType, SMTT(60) DEF CancelDequeue, TypeOK
  <2> QED
    BY <1>8, <2>1, <2>2 DEF CancelDequeue, TypeOK
<1>9. CASE ResumePush(c)
  <2>1. call' \in [Client -> CallRec]
    BY <1>9, IdleType, CallType DEF ResumePush
  <2>2. call[c].job \in Job
    BY <1>6, <1>9 DEF ResumePush
  <2>3. queue' = Append(queue, call[c].job)
    BY <1>9 DEF ResumePush
  <2>4. queue' \in Seq(Job)
    BY <2>2, <2>3 DEF TypeOK
  <2> QED
    BY <1>9, <2>1, <2>4 DEF ResumePush, TypeOK
<1> QED
  BY <1>1, <1>2, <1>3, <1>4, <1>5, <1>7, <1>8, <1>9 DEF ClientContinues

(* And every step of a run task. *)
LEMMA RunContinuesType ==
  ASSUME TypeOK, NEW t \in tasks, RunContinues(t)
  PROVE  TypeOK'
<1> USE DEF TypeOK, jobVars, TaskPc
<1>1. CASE RunCancelledBeforeStart(t)
  BY <1>1, StepType DEF RunCancelledBeforeStart
<1>2. CASE RunCallsFactory(t)
  BY <1>2, StepType DEF RunCallsFactory
<1>3. CASE RunOpens(t)
  <2>1. Token(t) \in Job \X Nat
    BY DEF Token, TaskRec
  <2> QED
    BY <1>3, <2>1, StepType DEF RunOpens
<1>4. CASE RunFactoryFails(t)
  BY <1>4, StepType DEF RunFactoryFails
<1>5. CASE RunReads(t)
  BY <1>5, StepType DEF RunReads
<1>6. CASE RunStops(t)
  BY <1>6, StepType DEF RunStops
<1>7. CASE RunFinishes(t)
  <2>1. tasks' \in SUBSET TaskRec
    BY <1>7, StepType, SMTT(60) DEF RunFinishes
  <2> QED
    BY <1>7, <2>1 DEF RunFinishes
<1>8. CASE RunCancellationOutcome(t)
  BY <1>8, StepType, SMTT(60) DEF RunCancellationOutcome
<1>9. CASE RunFailureOutcome(t)
  BY <1>9, StepType DEF RunFailureOutcome
<1>10. CASE RunSettleCheck(t)
  BY <1>10, StepType DEF RunSettleCheck
<1>11. CASE RunSettleApply(t)
  <2>1. t.job \in Job /\ t.outcome \in JobState
    BY DEF TaskRec
  <2>2. state' \in [Job -> JobState \cup {"Absent"}]
    BY <1>11, <2>1 DEF RunSettleApply
  <2>3. tasks' \in SUBSET TaskRec
    BY <1>11, StepType DEF RunSettleApply
  <2> QED
    BY <1>11, <2>2, <2>3 DEF RunSettleApply
<1>12. CASE RunPumps(t)
  BY <1>12, PumpStartType DEF RunPumps
<1>13. CASE RunEnds(t)
  BY <1>13 DEF RunEnds
<1> QED
  BY <1>1, <1>2, <1>3, <1>4, <1>5, <1>6, <1>7, <1>8, <1>9, <1>10, <1>11,
     <1>12, <1>13 DEF RunContinues

(* Every step of the registry keeps its types. *)
LEMMA TypeStep == TypeOK /\ [Next]_vars => TypeOK'
<1> SUFFICES ASSUME TypeOK, [Next]_vars
             PROVE  TypeOK'
  OBVIOUS
<1>1. ASSUME NEW b \in borg, BorgExits(b)
      PROVE  TypeOK'
  BY <1>1 DEF BorgExits, TypeOK, jobVars
<1>2. CASE UNCHANGED vars
  BY <1>2 DEF vars, TypeOK
<1> QED
  BY <1>1, <1>2, ClientCallsType, ClientContinuesType, RunContinuesType DEF Next

LEMMA InitType == Init => TypeOK
BY IdleType DEF Init, TypeOK

(* The registry's state is always well typed: in particular every entry of *)
(* the queue and every spawned task is a job that exists.                  *)
THEOREM TypeCorrect == Spec => []TypeOK
BY InitType, TypeStep, PTL DEF Spec

-----------------------------------------------------------------------------

(* The strengthening.  Ids that were not given out name no job, and the    *)
(* queue and the callers speak only of jobs that were submitted.           *)
Fresh == \A j \in Job : j >= nextId => state[j] = "Absent"
QueueKnown == \A i \in DOMAIN queue : queue[i] < nextId
CallsKnown == \A c \in Client :
                call[c].pc \notin {"idle", "pump"} => call[c].job < nextId

(* What a method is about to move its job to; only a recovery is paused or *)
(* resumed.                                                                *)
CallsNext == \A c \in Client :
  /\ call[c].pc = "cancel.apply" => call[c].next \in {Cancelled, "Cancelling"}
  /\ call[c].pc = "pause.apply" =>
       call[c].next = "Paused" /\ ~Steady(call[c].job)
  /\ call[c].pc = "resume.apply" => call[c].next = "Queued"
  /\ call[c].pc = "resume.push" => ~Steady(call[c].job)

(* A job waits at most once: in the queue, or with the one client that is  *)
(* about to push it there, and never while it is started or paused.        *)
WaitsOnce ==
  /\ QueueDistinct
  /\ \A i \in DOMAIN queue : state[queue[i]] \in {"Queued"} \cup Terminal
  /\ \A c \in Client : call[c].pc = "resume.push" =>
       /\ state[call[c].job] \in {"Queued"} \cup Terminal
       /\ \A i \in DOMAIN queue : queue[i] # call[c].job
       /\ \A d \in Client : call[d].pc = "resume.push"
                            /\ call[d].job = call[c].job => d = c

(* A steady job that holds the repository was started, a job not submitted *)
(* was not, and whoever cancels a steady job has the token of its start.   *)
StartedHolders == \A j \in Job :
  /\ state[j] = "Absent" => run[j] = 0
  /\ Holds(j) /\ Steady(j) => run[j] >= 1
CancelToken == \A c \in Client :
  /\ call[c].pc \in {"cancel.apply", "cancel.trip"}
  /\ call[c].next = "Cancelling"
  /\ Steady(call[c].job)
  => call[c].run = run[call[c].job] /\ run[call[c].job] >= 1

Bookkeeping ==
  Fresh /\ QueueKnown /\ CallsKnown /\ CallsNext /\ OnlyPausablePaused

IInv ==
  /\ TypeOK /\ Bookkeeping /\ WaitsOnce
  /\ StartedHolders /\ CancelToken /\ StartedOnce
  /\ RepoExclusion /\ NoLostWakeup
  /\ RunningHasRun /\ CancelReachesRun

-----------------------------------------------------------------------------
(* What the steps do, as far as the invariants can tell.                   *)

(* What one turn of the pump does. *)
LEMMA PumpEffect ==
  ASSUME TypeOK, PumpStart
  PROVE  \E i \in DOMAIN queue :
           /\ queue[i] \in Job
           /\ Admissible(i)
           /\ queue' = RemoveAt(queue, i)
           /\ state' = [state EXCEPT ![queue[i]] = "Running"]
           /\ run' = [run EXCEPT ![queue[i]] = @ + 1]
           /\ tasks' = tasks \cup {[job |-> queue[i], run |-> run[queue[i]] + 1,
                                    pc |-> "spawned", outcome |-> Cancelled]}
           /\ UNCHANGED <<nextId, kind, access, tripped, call, borg, calls>>
<1>1. \A i \in DOMAIN queue : queue[i] \in Job
  BY DEF TypeOK
<1> QED
  BY <1>1 DEF PumpStart, Dequeued, jobVars

(* Moved(t, pc): the task is replaced by itself at pc. *)
Moved(t, pc) == \E u \in TaskRec :
  /\ tasks' = (tasks \ {t}) \cup {u}
  /\ u.job = t.job /\ u.run = t.run /\ u.pc = pc

LEMMA StepMoves ==
  ASSUME NEW t \in TaskRec, NEW pc \in TaskPc, Step(t, pc)
  PROVE  Moved(t, pc)
<1> DEFINE u == [t EXCEPT !.pc = pc]
<1>1. u \in TaskRec /\ u.job = t.job /\ u.run = t.run /\ u.pc = pc
  BY DEF TaskRec
<1>2. tasks' = (tasks \ {t}) \cup {u}
  BY DEF Step
<1> HIDE DEF u
<1> QED
  BY <1>1, <1>2 DEF Moved

LEMMA StepToMoves ==
  ASSUME NEW t \in TaskRec, NEW pc \in TaskPc, NEW o \in Terminal,
         StepTo(t, pc, o)
  PROVE  Moved(t, pc)
<1> DEFINE u == [t EXCEPT !.pc = pc, !.outcome = o]
<1>1. u \in TaskRec /\ u.job = t.job /\ u.run = t.run /\ u.pc = pc
  BY DEF TaskRec
<1>2. tasks' = (tasks \ {t}) \cup {u}
  BY DEF StepTo
<1> HIDE DEF u
<1> QED
  BY <1>1, <1>2 DEF Moved

(* Goes(c, r): the client goes on at r and the others stay where they are. *)
Goes(c, r) == call'[c] = r /\ \A d \in Client : d # c => call'[d] = call[d]

(* Only job j changes its state, to s. *)
Becomes(j, s) == state'[j] = s /\ \A k \in Job : k # j => state'[k] = state[k]

LEMMA UpdateGoes ==
  ASSUME TypeOK, NEW c \in Client, NEW r, call' = [call EXCEPT ![c] = r]
  PROVE  Goes(c, r)
BY DEF Goes, TypeOK

LEMMA UpdateBecomes ==
  ASSUME TypeOK, NEW j \in Job, NEW s, state' = [state EXCEPT ![j] = s]
  PROVE  Becomes(j, s)
BY DEF Becomes, TypeOK

(* What a client has read is typed. *)
LEMMA CallFields ==
  ASSUME TypeOK, NEW c \in Client
  PROVE  /\ call[c].next \in JobState /\ call[c].run \in Nat
         /\ call[c].pc \notin {"idle", "pump"} => call[c].job \in Job
BY DEF TypeOK, CallRec

(* A transition a client asks for is made, or it is refused and nothing    *)
(* but the client's place changes.                                         *)
LEMMA ClientTransitionEffect ==
  ASSUME TypeOK, NEW c \in Client, NEW pc, ClientTransition(c, pc),
         call[c].job \in Job
  PROVE  \/ /\ CanTransition(state[call[c].job], call[c].next)
            /\ Becomes(call[c].job, call[c].next)
            /\ Goes(c, At(pc, call[c].job, call[c].next, call[c].run))
         \/ UNCHANGED state /\ Goes(c, Idle)
BY UpdateGoes, UpdateBecomes DEF ClientTransition

(* A run's step is a turn of the pump, a settling, the end of its task, or *)
(* it only moves the task; the task gives up only a job that is not its.   *)
LEMMA RunEffect ==
  ASSUME TypeOK, NEW t \in tasks, RunContinues(t)
  PROVE  \/ PumpStart /\ t.pc = "pump"
         \/ RunSettleApply(t)
         \/ RunEnds(t)
         \/ /\ UNCHANGED <<nextId, kind, access, state, run, queue, tripped, call>>
            /\ t.pc # "pump"
            /\ \E pc \in TaskPc :
                 Moved(t, pc) /\ (pc = "pump" => ~StillItsJob(t))
<1> USE DEF jobVars
<1>1. t \in TaskRec
  BY DEF TypeOK
<1>2. \A pc \in TaskPc : Step(t, pc) => Moved(t, pc)
  BY <1>1, StepMoves
<1>3. \A o \in Terminal : StepTo(t, "settle", o) => Moved(t, "settle")
  <2>1. "settle" \in TaskPc
    BY DEF TaskPc
  <2> QED
    BY <1>1, <2>1, StepToMoves
<1>4. CASE RunCallsFactory(t) \/ RunReads(t) \/ RunStops(t)
  BY <1>2, <1>4 DEF RunCallsFactory, RunReads, RunStops, TaskPc
<1>5. CASE RunOpens(t)
  BY <1>2, <1>5 DEF RunOpens, TaskPc
<1>6. CASE RunCancelledBeforeStart(t) \/ RunFactoryFails(t)
  <2>1. Moved(t, "settle")
    BY <1>3, <1>6 DEF RunCancelledBeforeStart, RunFactoryFails, TaskPc
  <2> QED
    BY <1>6, <2>1 DEF RunCancelledBeforeStart, RunFactoryFails, TaskPc
<1>7. CASE RunFinishes(t)
  <2>1. Moved(t, "settle") \/ Moved(t, "failing")
    BY <1>2, <1>3, <1>7 DEF RunFinishes, TaskPc
  <2> QED
    BY <1>7, <2>1 DEF RunFinishes, TaskPc
<1>8. CASE RunCancellationOutcome(t) \/ RunFailureOutcome(t)
  <2>1. Moved(t, "settle")
    BY <1>3, <1>8 DEF RunCancellationOutcome, RunFailureOutcome, TaskPc
  <2> QED
    BY <1>8, <2>1 DEF RunCancellationOutcome, RunFailureOutcome, TaskPc
<1>9. CASE RunSettleCheck(t)
  <2>1. CASE StillItsJob(t)
    <3>1. Moved(t, "apply")
      BY <1>2, <1>9, <2>1 DEF RunSettleCheck, TaskPc
    <3> QED
      BY <1>9, <3>1 DEF RunSettleCheck, TaskPc
  <2>2. CASE ~StillItsJob(t)
    <3>1. Moved(t, "pump")
      BY <1>2, <1>9, <2>2 DEF RunSettleCheck, TaskPc
    <3> QED
      BY <1>9, <2>2, <3>1 DEF RunSettleCheck, TaskPc
  <2> QED
    BY <2>1, <2>2
<1> QED
  BY <1>4, <1>5, <1>6, <1>7, <1>8, <1>9 DEF RunContinues, RunPumps

-----------------------------------------------------------------------------
(* Bookkeeping is kept by every step.                                      *)

LEMMA BookkeepingPump ==
  ASSUME TypeOK, Bookkeeping, PumpStart
  PROVE  Bookkeeping'
<1> USE DEF Bookkeeping
<1>1. PICK i \in DOMAIN queue :
        /\ queue[i] \in Job
        /\ queue' = RemoveAt(queue, i)
        /\ state' = [state EXCEPT ![queue[i]] = "Running"]
        /\ UNCHANGED <<nextId, kind, access, call>>
  BY PumpEffect
<1>2. Fresh'
  BY SMTT(30), <1>1 DEF Fresh, QueueKnown, TypeOK
<1>3. QueueKnown'
  BY <1>1, RemoveAtKeeps DEF QueueKnown, TypeOK
<1>4. CallsKnown' /\ CallsNext' /\ OnlyPausablePaused'
  BY <1>1 DEF CallsKnown, CallsNext, OnlyPausablePaused, TypeOK, Steady
<1> QED
  BY <1>2, <1>3, <1>4

LEMMA BookkeepingCalls ==
  ASSUME TypeOK, Bookkeeping, NEW c \in Client, ClientCalls(c)
  PROVE  Bookkeeping'
<1> USE DEF Bookkeeping, Begin, jobVars, Fresh, QueueKnown, CallsKnown,
            CallsNext, OnlyPausablePaused, TypeOK, Steady, At, Present
<1>1. CASE Submit(c)
  <2>1. /\ nextId \in Job /\ nextId' = nextId + 1
        /\ Becomes(nextId, "Queued") /\ Goes(c, Pumping)
        /\ queue' = Append(queue, nextId)
        /\ \A j \in Job : j # nextId => kind'[j] = kind[j]
    BY <1>1, UpdateGoes, UpdateBecomes, ZenonT(60) DEF Submit, SubmittedId
  <2>2. CallsKnown' /\ CallsNext'
    <3>1. \A d \in Client :
            call[d].pc \notin {"idle", "pump"} =>
              call[d].job \in Job /\ call[d].job < nextId /\ call[d].job # nextId
      BY SMTT(30), <2>1, CallFields DEF CallsKnown
    <3>2. call'[c].pc = "pump" /\ \A d \in Client : d # c => call'[d] = call[d]
      BY <2>1 DEF Goes, Pumping
    <3> HIDE DEF TypeOK
    <3>3. CallsKnown'
      BY <2>1, <3>1, <3>2
    <3>4. CallsNext'
      BY <2>1, <3>1, <3>2
    <3> QED
      BY <3>3, <3>4
  <2>3. Fresh' /\ OnlyPausablePaused'
    BY SMTT(30), <2>1 DEF Becomes
  <2>4. QueueKnown'
    BY SMTT(30), <2>1
  <2> QED
    BY <2>2, <2>3, <2>4
<1>2. CASE SubmitPaused(c)
  <2>1. /\ nextId \in Job /\ nextId' = nextId + 1
        /\ Becomes(nextId, "Paused") /\ UNCHANGED <<queue, call>>
        /\ \A j \in Job : j # nextId => kind'[j] = kind[j]
        /\ kind'[nextId] = "RestoreEverything"
    BY <1>2, UpdateBecomes, ZenonT(60) DEF SubmitPaused, IsPausable
  <2>2. CallsKnown' /\ CallsNext'
    <3>1. \A d \in Client :
            call[d].pc \notin {"idle", "pump"} =>
              call[d].job \in Job /\ call[d].job < nextId /\ call[d].job # nextId
      BY <2>1, CallFields DEF CallsKnown
    <3> HIDE DEF TypeOK
    <3> QED
      BY <2>1, <3>1
  <2>3. Fresh' /\ OnlyPausablePaused'
    BY <2>1 DEF Becomes
  <2>4. QueueKnown'
    BY <2>1
  <2> QED
    BY <2>2, <2>3, <2>4
<1>3. ASSUME NEW j \in Job, CancelBegin(c, j)
      PROVE  Bookkeeping'
  BY <1>3 DEF CancelBegin
<1>4. ASSUME NEW j \in Job, PauseBegin(c, j)
      PROVE  Bookkeeping'
  BY <1>4 DEF PauseBegin, IsPausable
<1>5. ASSUME NEW j \in Job, ResumeBegin(c, j)
      PROVE  Bookkeeping'
  BY <1>5 DEF ResumeBegin
<1> QED
  BY <1>1, <1>2, <1>3, <1>4, <1>5 DEF ClientCalls

LEMMA BookkeepingContinues ==
  ASSUME TypeOK, Bookkeeping, NEW c \in Client, ClientContinues(c)
  PROVE  Bookkeeping'
<1> USE DEF jobVars
<1>1. CASE ClientPumps(c)
  BY <1>1, BookkeepingPump DEF ClientPumps
<1>2. CASE ClientPumpEnds(c) \/ CancelTrip(c) \/ PauseTrip(c)
  <2>1. Goes(c, Idle) \/ Goes(c, Pumping)
    BY <1>2, UpdateGoes DEF ClientPumpEnds, CancelTrip, PauseTrip
  <2>2. CallsKnown' /\ CallsNext'
    BY <1>2, <2>1 DEF ClientPumpEnds, CancelTrip, PauseTrip, Bookkeeping,
       CallsKnown, CallsNext, Goes, Idle, Pumping, At, Steady
  <2> QED
    BY <1>2, <2>2 DEF ClientPumpEnds, CancelTrip, PauseTrip, Bookkeeping,
       Fresh, QueueKnown, OnlyPausablePaused, Steady
<1>3. CASE CancelApply(c) \/ PauseApply(c) \/ ResumeApply(c)
  <2> DEFINE j == call[c].job
             s == call[c].next
  <2>1. /\ j \in Job
        /\ UNCHANGED <<nextId, kind, access, queue>>
    BY <1>3, CallFields DEF CancelApply, PauseApply, ResumeApply
  <2>2. PICK pc \in {"cancel.dequeue", "cancel.trip", "pause.trip", "resume.push"} :
          /\ ClientTransition(c, pc)
          /\ pc = "resume.push" => s = "Queued"
    BY <1>3 DEF CancelApply, PauseApply, ResumeApply, Bookkeeping, CallsNext
  <2>3. CASE /\ CanTransition(state[j], s)
             /\ Becomes(j, s)
             /\ Goes(c, At(pc, j, s, call[c].run))
    <3>1. state[j] # "Absent" /\ (s = "Queued" => state[j] = "Paused")
      BY <2>3 DEF CanTransition, Transitions
    <3>2. j < nextId /\ Fresh'
      BY <2>1, <2>3, <3>1 DEF Bookkeeping, Fresh, Becomes, TypeOK
    <3>3. CallsKnown'
      BY <2>1, <2>3, <3>2 DEF Bookkeeping, CallsKnown, Goes, At
    <3>4. s = "Queued" => ~Steady(j)
      BY <2>1, <3>1 DEF Bookkeeping, OnlyPausablePaused
    <3>5. CallsNext'
      BY <2>1, <2>2, <2>3, <3>4 DEF Bookkeeping, CallsNext, Goes, At, Steady
    <3>6. s = "Paused" => ~Steady(j)
      BY <1>3, <2>1 DEF Bookkeeping, CallsNext, CancelApply, PauseApply,
         ResumeApply
    <3>7. OnlyPausablePaused'
      BY <2>1, <2>3, <3>6 DEF Bookkeeping, OnlyPausablePaused, Becomes, Steady
    <3> QED
      BY <2>1, <3>2, <3>3, <3>5, <3>7 DEF Bookkeeping, QueueKnown
  <2>4. CASE UNCHANGED state /\ Goes(c, Idle)
    BY <2>1, <2>4 DEF Bookkeeping, Fresh, QueueKnown, CallsKnown, CallsNext,
       OnlyPausablePaused, Goes, Idle, At, Steady
  <2> QED
    BY <2>1, <2>2, <2>3, <2>4, ClientTransitionEffect
<1>4. CASE CancelDequeue(c) \/ ResumePush(c)
  <2>1. /\ UNCHANGED <<nextId, kind, access, state>>
        /\ call[c].job \in Job /\ call[c].job < nextId
    BY <1>4, CallFields DEF CancelDequeue, ResumePush, Bookkeeping, CallsKnown
  <2>2. Goes(c, Pumping)
    BY <1>4, UpdateGoes DEF CancelDequeue, ResumePush
  <2>3. CallsKnown' /\ CallsNext'
    BY <2>1, <2>2 DEF Bookkeeping, CallsKnown, CallsNext, Goes, Pumping, At,
       Steady
  <2>4. QueueKnown'
    <3>1. CASE CancelDequeue(c)
      BY <1>4, <2>1, <3>1, RemoveFirstKeeps, RemoveAtKeeps
         DEF CancelDequeue, Bookkeeping, QueueKnown, TypeOK
    <3>2. CASE ResumePush(c)
      BY SMTT(30), <2>1, <3>2 DEF ResumePush, Bookkeeping, QueueKnown, TypeOK
    <3> QED
      BY <1>4, <3>1, <3>2
  <2> QED
    BY <2>1, <2>3, <2>4 DEF Bookkeeping, Fresh, OnlyPausablePaused, Steady
<1> QED
  BY <1>1, <1>2, <1>3, <1>4 DEF ClientContinues

LEMMA BookkeepingRuns ==
  ASSUME TypeOK, Bookkeeping, NEW t \in tasks, RunContinues(t)
  PROVE  Bookkeeping'
<1>1. CASE RunSettleApply(t)
  <2>1. t.job \in Job /\ t.outcome \in Terminal
    BY DEF TypeOK, TaskRec
  <2>2. UNCHANGED <<nextId, kind, access, queue, call>>
    BY <1>1 DEF RunSettleApply, jobVars
  <2>3. UNCHANGED state \/ (/\ CanTransition(state[t.job], t.outcome)
                            /\ Becomes(t.job, t.outcome))
    BY <1>1, <2>1, UpdateBecomes DEF RunSettleApply
  <2>4. CASE UNCHANGED state
    BY <2>2, <2>4 DEF Bookkeeping, Fresh, QueueKnown, CallsKnown, CallsNext,
       OnlyPausablePaused, Steady
  <2>5. CASE CanTransition(state[t.job], t.outcome) /\ Becomes(t.job, t.outcome)
    <3>1. state[t.job] # "Absent"
      BY <2>5 DEF CanTransition, Transitions
    <3>2. Fresh'
      BY <2>1, <2>2, <2>5, <3>1 DEF Bookkeeping, Fresh, Becomes
    <3>3. OnlyPausablePaused'
      BY <2>1, <2>2, <2>5 DEF Bookkeeping, OnlyPausablePaused, Becomes, Steady
    <3> QED
      BY <2>2, <3>2, <3>3 DEF Bookkeeping, QueueKnown, CallsKnown, CallsNext,
         Steady
  <2> QED
    BY <2>3, <2>4, <2>5
<1>2. CASE UNCHANGED <<nextId, kind, access, state, queue, call>>
  BY <1>2 DEF Bookkeeping, Fresh, QueueKnown, CallsKnown, CallsNext,
     OnlyPausablePaused, Steady
<1>3. CASE RunEnds(t)
  BY <1>2, <1>3 DEF RunEnds, jobVars
<1> QED
  BY <1>1, <1>2, <1>3, BookkeepingPump, RunEffect

LEMMA BookkeepingStep == TypeOK /\ Bookkeeping /\ [Next]_vars => Bookkeeping'
<1> SUFFICES ASSUME TypeOK, Bookkeeping, [Next]_vars
             PROVE  Bookkeeping'
  OBVIOUS
<1>1. CASE UNCHANGED <<nextId, kind, access, state, queue, call>>
  BY <1>1 DEF Bookkeeping, Fresh, QueueKnown, CallsKnown, CallsNext,
     OnlyPausablePaused, Steady
<1>2. ASSUME NEW b \in borg, BorgExits(b)
      PROVE  Bookkeeping'
  BY <1>1, <1>2 DEF BorgExits, jobVars
<1>3. CASE UNCHANGED vars
  BY <1>1, <1>3 DEF vars
<1> QED
  BY <1>2, <1>3, BookkeepingCalls, BookkeepingContinues, BookkeepingRuns DEF Next

-----------------------------------------------------------------------------
(* What a step can do to the state of the jobs.                            *)

(* A job is submitted: not started, and not yet known to anybody. *)
Submitted ==
  /\ nextId \in Job
  /\ state[nextId] = "Absent"
  /\ \/ Becomes(nextId, "Queued")
     \/ Becomes(nextId, "Paused") /\ kind'[nextId] = "RestoreEverything"
  /\ \A j \in Job : j # nextId => kind'[j] = kind[j] /\ access'[j] = access[j]
  /\ UNCHANGED <<run, tripped, tasks>>

(* A job makes a legal transition, and not to Running. *)
Transitioned(j) ==
  /\ \E s \in JobState \ {"Running"} :
        CanTransition(state[j], s) /\ Becomes(j, s)
  /\ UNCHANGED <<kind, access, run, queue, tripped>>

LEMMA StateEffect ==
  ASSUME TypeOK, Bookkeeping, [Next]_vars
  PROVE  \/ PumpStart
         \/ UNCHANGED <<kind, access, state, run>>
         \/ Submitted
         \/ \E j \in Job : Transitioned(j)
<1> USE DEF jobVars
<1>1. ASSUME NEW c \in Client, Submit(c)
      PROVE  Submitted
  <2>1. nextId \in Job /\ state[nextId] = "Absent"
    BY <1>1 DEF Submit, Bookkeeping, Fresh
  <2>2. \A j \in Job : j # nextId => kind'[j] = kind[j] /\ access'[j] = access[j]
    BY <1>1 DEF Submit, SubmittedId, TypeOK
  <2>3. Becomes(nextId, "Queued")
    BY <1>1, <2>1, UpdateBecomes DEF Submit, SubmittedId
  <2> QED
    BY <1>1, <2>1, <2>2, <2>3 DEF Submit, Submitted
<1>2. ASSUME NEW c \in Client, SubmitPaused(c)
      PROVE  Submitted
  <2>1. nextId \in Job /\ state[nextId] = "Absent"
    BY <1>2 DEF SubmitPaused, Bookkeeping, Fresh
  <2>2. \A j \in Job : j # nextId => kind'[j] = kind[j] /\ access'[j] = access[j]
    BY <1>2 DEF SubmitPaused, TypeOK
  <2>3. Becomes(nextId, "Paused")
    BY <1>2, <2>1, UpdateBecomes DEF SubmitPaused
  <2>4. kind'[nextId] = "RestoreEverything"
    BY <1>2, <2>1 DEF SubmitPaused, IsPausable, TypeOK
  <2> QED
    BY <1>2, <2>1, <2>2, <2>3, <2>4 DEF SubmitPaused, Submitted
<1>3. ASSUME NEW c \in Client, CancelApply(c) \/ PauseApply(c) \/ ResumeApply(c)
      PROVE  UNCHANGED <<kind, access, state, run>> \/ Transitioned(call[c].job)
  <2>1. /\ call[c].job \in Job
        /\ UNCHANGED <<kind, access, run, queue, tripped>>
    BY <1>3, CallFields DEF CancelApply, PauseApply, ResumeApply
  <2>2. \E pc : ClientTransition(c, pc)
    BY <1>3 DEF CancelApply, PauseApply, ResumeApply
  <2>3. call[c].next \in JobState \ {"Running"}
    BY <1>3 DEF CancelApply, PauseApply, ResumeApply, Bookkeeping, CallsNext
  <2> QED
    BY <2>1, <2>2, <2>3, ClientTransitionEffect DEF Transitioned
<1>4. ASSUME NEW c \in Client, ClientCalls(c) \/ ClientContinues(c)
      PROVE  \/ PumpStart
             \/ UNCHANGED <<kind, access, state, run>>
             \/ Submitted
             \/ \E j \in Job : Transitioned(j)
  <2>1. CASE ClientCalls(c)
    BY <1>1, <1>2, <2>1 DEF ClientCalls, CancelBegin, PauseBegin, ResumeBegin
  <2>2. CASE CancelApply(c) \/ PauseApply(c) \/ ResumeApply(c)
    BY <1>3, <2>2, CallFields DEF CancelApply, PauseApply, ResumeApply
  <2>3. CASE ClientContinues(c) /\ ~(CancelApply(c) \/ PauseApply(c) \/ ResumeApply(c))
    BY <2>3 DEF ClientContinues, ClientPumps, ClientPumpEnds, CancelTrip,
       CancelDequeue, PauseTrip, ResumePush
  <2> QED
    BY <1>4, <2>1, <2>2, <2>3
<1>5. ASSUME NEW t \in tasks, RunContinues(t)
      PROVE  \/ PumpStart
             \/ UNCHANGED <<kind, access, state, run>>
             \/ \E j \in Job : Transitioned(j)
  <2>1. CASE RunSettleApply(t)
    <3>1. t.job \in Job /\ t.outcome \in Terminal
      BY DEF TypeOK, TaskRec
    <3>2. UNCHANGED state \/ (/\ CanTransition(state[t.job], t.outcome)
                              /\ Becomes(t.job, t.outcome))
      BY <2>1, <3>1, UpdateBecomes DEF RunSettleApply
    <3> QED
      BY <2>1, <3>1, <3>2 DEF RunSettleApply, Transitioned
  <2> QED
    BY <1>5, <2>1, RunEffect DEF RunEnds
<1>6. ASSUME NEW b \in borg, BorgExits(b)
      PROVE  UNCHANGED <<kind, access, state, run>>
  BY <1>6 DEF BorgExits
<1> QED
  BY <1>4, <1>5, <1>6 DEF Next, vars

-----------------------------------------------------------------------------
(* A job that the pump admits is compatible with every holder. *)
LEMMA AdmittedIsCompatible ==
  ASSUME TypeOK, NEW i \in DOMAIN queue, queue[i] \in Job, Admissible(i),
         NEW k \in Job, Holds(k)
  PROVE  Compatible(access[k], access[queue[i]])
<1>1. access[k] \in HeldModes
  BY DEF HeldModes, Holds, HoldsRepo
<1>2. access[k] \in RepoAccess /\ access[queue[i]] \in RepoAccess
  BY DEF TypeOK
<1> QED
  BY <1>1, <1>2 DEF Admissible, Admits, Compatible

(* Exclusion is kept: the pump admits only what is compatible, and nothing *)
(* but the pump makes a steady job a holder.                               *)
LEMMA ExclusionStep ==
  ASSUME TypeOK, Bookkeeping, RepoExclusion, [Next]_vars
  PROVE  RepoExclusion'
<1> USE DEF RepoExclusion, Holds
<1>1. CASE PumpStart
  <2>1. PICK i \in DOMAIN queue :
          /\ queue[i] \in Job
          /\ Admissible(i)
          /\ Becomes(queue[i], "Running")
          /\ UNCHANGED <<kind, access>>
    BY <1>1, PumpEffect, UpdateBecomes
  <2>2. \A k \in Job : Holds(k) => /\ Compatible(access[k], access[queue[i]])
                                   /\ Compatible(access[queue[i]], access[k])
    BY <2>1, AdmittedIsCompatible DEF Compatible
  <2> QED
    BY <2>1, <2>2 DEF Becomes, Steady
<1>2. CASE UNCHANGED <<kind, access, state, run>>
  BY <1>2 DEF Steady
<1>3. CASE Submitted
  BY <1>3 DEF Submitted, Becomes, Steady
<1>4. ASSUME NEW j \in Job, Transitioned(j)
      PROVE  RepoExclusion'
  <2>1. PICK s \in JobState \ {"Running"} :
          CanTransition(state[j], s) /\ Becomes(j, s)
    BY <1>4 DEF Transitioned
  <2>2. UNCHANGED <<kind, access>>
    BY <1>4 DEF Transitioned
  <2>3. CASE s # "Cancelling"
    BY <2>1, <2>2, <2>3 DEF Becomes, Steady
  <2>4. CASE s = "Cancelling"
    <3>1. state[j] = "Running" \/ (state[j] = "Paused" /\ ~Steady(j))
      BY <2>1, <2>4, TransitionsToHolding DEF Bookkeeping, OnlyPausablePaused
    <3> QED
      BY <2>1, <2>2, <2>4, <3>1 DEF Becomes, Steady
  <2> QED
    BY <2>3, <2>4
<1> QED
  BY <1>1, <1>2, <1>3, <1>4, StateEffect

-----------------------------------------------------------------------------
(* A job waits at most once.                                               *)

LEMMA WaitsPump ==
  ASSUME TypeOK, WaitsOnce, PumpStart
  PROVE  WaitsOnce'
<1>1. PICK i \in DOMAIN queue :
        /\ queue[i] \in Job
        /\ queue' = RemoveAt(queue, i)
        /\ Becomes(queue[i], "Running")
        /\ UNCHANGED call
  BY PumpEffect, UpdateBecomes
<1>2. /\ \A k \in DOMAIN queue' : \E m \in DOMAIN queue : m # i /\ queue'[k] = queue[m]
      /\ QueueDistinct'
  <2>1. queue \in Seq(Job) /\ \A k, m \in DOMAIN queue : queue[k] = queue[m] => k = m
    BY DEF WaitsOnce, QueueDistinct, TypeOK
  <2> QED
    BY <1>1, <2>1, RemoveAtKeeps DEF QueueDistinct
<1>3. \A m \in DOMAIN queue : queue[m] \in Job /\ (m # i => queue[m] # queue[i])
  BY SMTT(30), <1>1 DEF WaitsOnce, QueueDistinct, TypeOK
<1>4. \A k \in DOMAIN queue' : state'[queue'[k]] \in {"Queued"} \cup Terminal
  BY <1>1, <1>2, <1>3 DEF WaitsOnce, Becomes
<1>5. \A c \in Client : call[c].pc = "resume.push" =>
        /\ call[c].job \in Job
        /\ call[c].job # queue[i]
  BY <1>1, CallFields DEF WaitsOnce
<1> QED
  BY <1>1, <1>2, <1>4, <1>5 DEF WaitsOnce, Becomes

(* A transition of a job that waits ends it, and leaves the rest alone. *)
LEMMA WaitsTransitioned ==
  ASSUME TypeOK, WaitsOnce, NEW j \in Job, Transitioned(j),
         NEW k \in Job, state[k] \in {"Queued"} \cup Terminal
  PROVE  state'[k] \in {"Queued"} \cup Terminal
BY DEF Transitioned, Becomes, CanTransition, Transitions

LEMMA WaitsCalls ==
  ASSUME TypeOK, Bookkeeping, WaitsOnce, NEW c \in Client, ClientCalls(c)
  PROVE  WaitsOnce'
<1> USE DEF Begin
<1>1. \A i \in DOMAIN queue : queue[i] \in Job /\ queue[i] # nextId
  BY DEF Bookkeeping, QueueKnown, TypeOK
<1>2. \A d \in Client : call[d].pc = "resume.push" =>
        call[d].job \in Job /\ call[d].job # nextId
  <2>1. nextId \in Nat
    BY DEF TypeOK
  <2>2. \A d \in Client : call[d].pc = "resume.push" =>
          call[d].job \in Job /\ call[d].job < nextId
    BY CallFields DEF Bookkeeping, CallsKnown
  <2> QED
    BY <2>1, <2>2
<1>3. CASE Submit(c)
  <2>1. /\ nextId \in Job
        /\ Becomes(nextId, "Queued") /\ Goes(c, Pumping)
        /\ queue' = Append(queue, nextId)
    BY <1>3, UpdateGoes, UpdateBecomes, ZenonT(60) DEF Submit, SubmittedId
  <2>2. \A i \in DOMAIN queue' : queue'[i] = nextId
                                 \/ \E k \in DOMAIN queue : queue'[i] = queue[k]
    BY SMTT(30), <2>1 DEF TypeOK
  <2>3. QueueDistinct'
    BY <1>1, <2>1, SMTT(60) DEF WaitsOnce, QueueDistinct, TypeOK
  <2>4. \A i \in DOMAIN queue' : state'[queue'[i]] \in {"Queued"} \cup Terminal
    BY <1>1, <2>1, <2>2 DEF WaitsOnce, Becomes
  <2>5. \A d \in Client : call'[d].pc = "resume.push" =>
          /\ call[d].pc = "resume.push" /\ call'[d] = call[d]
    BY <2>1 DEF Goes, Pumping, At
  <2>6. \A d \in Client : call'[d].pc = "resume.push" =>
          /\ state'[call'[d].job] \in {"Queued"} \cup Terminal
          /\ \A i \in DOMAIN queue' : queue'[i] # call'[d].job
    BY <1>2, <2>1, <2>5, <2>2 DEF WaitsOnce, Becomes
  <2> QED
    BY <2>3, <2>4, <2>5, <2>6 DEF WaitsOnce
<1>4. CASE SubmitPaused(c)
  <2>1. /\ nextId \in Job /\ Becomes(nextId, "Paused")
        /\ UNCHANGED <<queue, call>>
    BY <1>4, UpdateBecomes DEF SubmitPaused
  <2> QED
    BY <1>1, <1>2, <2>1 DEF WaitsOnce, QueueDistinct, Becomes
<1>5. ASSUME NEW j \in Job, CancelBegin(c, j) \/ PauseBegin(c, j) \/ ResumeBegin(c, j)
      PROVE  WaitsOnce'
  <2>1. PICK r : Goes(c, r) /\ r.pc # "resume.push"
    BY <1>5, UpdateGoes DEF CancelBegin, PauseBegin, ResumeBegin, At
  <2>2. UNCHANGED <<state, queue>>
    BY <1>5 DEF CancelBegin, PauseBegin, ResumeBegin
  <2> QED
    BY <2>1, <2>2 DEF WaitsOnce, QueueDistinct, Goes
<1> QED
  BY <1>3, <1>4, <1>5 DEF ClientCalls

LEMMA WaitsContinues ==
  ASSUME TypeOK, Bookkeeping, WaitsOnce, NEW c \in Client, ClientContinues(c)
  PROVE  WaitsOnce'
<1>1. CASE ClientPumps(c)
  BY <1>1, WaitsPump DEF ClientPumps
<1>2. CASE ClientPumpEnds(c) \/ CancelTrip(c) \/ PauseTrip(c)
  <2>1. Goes(c, Idle) \/ Goes(c, Pumping)
    BY <1>2, UpdateGoes DEF ClientPumpEnds, CancelTrip, PauseTrip
  <2>2. UNCHANGED <<state, queue>>
    BY <1>2 DEF ClientPumpEnds, CancelTrip, PauseTrip
  <2> QED
    BY <2>1, <2>2 DEF WaitsOnce, QueueDistinct, Goes, Idle, Pumping, At
<1>3. CASE CancelApply(c) \/ PauseApply(c) \/ ResumeApply(c)
  <2> DEFINE j == call[c].job
             s == call[c].next
  <2>1. j \in Job /\ UNCHANGED <<kind, access, run, queue, tripped>>
    BY <1>3, CallFields DEF CancelApply, PauseApply, ResumeApply, jobVars
  <2>2. PICK pc \in {"cancel.dequeue", "cancel.trip", "pause.trip", "resume.push"} :
          /\ ClientTransition(c, pc)
          /\ pc = "resume.push" => s = "Queued"
    BY <1>3 DEF CancelApply, PauseApply, ResumeApply, Bookkeeping, CallsNext
  <2>3. s \in JobState \ {"Running"}
    BY <1>3 DEF CancelApply, PauseApply, ResumeApply, Bookkeeping, CallsNext
  <2>4. \A i \in DOMAIN queue : queue[i] \in Job
    BY DEF TypeOK
  <2>5. \A d \in Client : call[d].pc = "resume.push" => call[d].job \in Job
    BY CallFields
  <2>6. CASE /\ CanTransition(state[j], s)
             /\ Becomes(j, s)
             /\ Goes(c, At(pc, j, s, call[c].run))
    <3>1. Transitioned(j)
      BY <2>1, <2>3, <2>6 DEF Transitioned
    <3>2. \A k \in Job : state[k] \in {"Queued"} \cup Terminal =>
                           state'[k] \in {"Queued"} \cup Terminal
      BY <2>1, <3>1, WaitsTransitioned
    <3>3. QueueDistinct' /\ \A i \in DOMAIN queue' :
                              state'[queue'[i]] \in {"Queued"} \cup Terminal
      BY <2>1, <2>4, <3>2 DEF WaitsOnce, QueueDistinct
    <3>4. CASE pc = "resume.push"
      <4>1. state[j] = "Paused" /\ state'[j] = "Queued"
        BY <2>2, <2>6, <3>4 DEF CanTransition, Transitions, Becomes
      <4>2. /\ \A i \in DOMAIN queue : queue[i] # j
            /\ \A d \in Client : call[d].pc = "resume.push" => call[d].job # j
        BY <4>1 DEF WaitsOnce
      <4> HIDE DEF j, s
      <4> QED
        BY <2>1, <2>5, <2>6, <3>2, <3>3, <4>1, <4>2 DEF WaitsOnce, Goes, At
    <3>5. CASE pc # "resume.push"
      <4> HIDE DEF j, s
      <4> QED
        BY <2>1, <2>5, <2>6, <3>2, <3>3, <3>5 DEF WaitsOnce, Goes, At
    <3> QED
      BY <3>4, <3>5
  <2>7. CASE UNCHANGED state /\ Goes(c, Idle)
    BY <2>1, <2>7 DEF WaitsOnce, QueueDistinct, Goes, Idle, At
  <2> QED
    BY <2>1, <2>2, <2>6, <2>7, ClientTransitionEffect
<1>4. CASE CancelDequeue(c)
  <2>1. Goes(c, Pumping) /\ UNCHANGED state /\ queue' = RemoveFirst(queue, call[c].job)
    BY <1>4, UpdateGoes DEF CancelDequeue
  <2>2. /\ \A k \in DOMAIN queue' : \E m \in DOMAIN queue : queue'[k] = queue[m]
        /\ QueueDistinct'
    <3>1. queue \in Seq(Job) /\ \A k, m \in DOMAIN queue : queue[k] = queue[m] => k = m
      BY DEF WaitsOnce, QueueDistinct, TypeOK
    <3>2. call[c].job \in Job
      BY <1>4, CallFields DEF CancelDequeue
    <3>3. queue' = queue \/ \E i \in DOMAIN queue : queue' = RemoveAt(queue, i)
      BY <2>1, <3>1, <3>2, RemoveFirstKeeps
    <3> QED
      BY <3>1, <3>3, RemoveAtKeeps DEF QueueDistinct
  <2> QED
    BY <2>1, <2>2 DEF WaitsOnce, Goes, Pumping, At
<1>5. CASE ResumePush(c)
  <2> DEFINE j == call[c].job
  <2>1. Goes(c, Pumping) /\ UNCHANGED state /\ queue' = Append(queue, j)
    BY <1>5, UpdateGoes DEF ResumePush
  <2>2. /\ j \in Job /\ state[j] \in {"Queued"} \cup Terminal
        /\ \A i \in DOMAIN queue : queue[i] # j
        /\ \A d \in Client : call[d].pc = "resume.push" /\ d # c => call[d].job # j
    BY <1>5, CallFields DEF ResumePush, WaitsOnce
  <2> HIDE DEF j
  <2>3. QueueDistinct'
    BY <2>1, <2>2, SMTT(60) DEF WaitsOnce, QueueDistinct, TypeOK
  <2>4. \A i \in DOMAIN queue' : queue'[i] = j
                                 \/ \E k \in DOMAIN queue : queue'[i] = queue[k]
    BY <2>1, <2>2 DEF TypeOK
  <2>5. \A d \in Client : call'[d].pc = "resume.push" =>
          d # c /\ call[d].pc = "resume.push" /\ call'[d] = call[d]
    BY <2>1 DEF Goes, Pumping, At
  <2> QED
    BY <2>1, <2>2, <2>3, <2>4, <2>5 DEF WaitsOnce
<1> QED
  BY <1>1, <1>2, <1>3, <1>4, <1>5 DEF ClientContinues

LEMMA WaitsStep ==
  TypeOK /\ Bookkeeping /\ WaitsOnce /\ [Next]_vars => WaitsOnce'
<1> SUFFICES ASSUME TypeOK, Bookkeeping, WaitsOnce, [Next]_vars
             PROVE  WaitsOnce'
  OBVIOUS
<1>1. CASE UNCHANGED <<state, queue, call>>
  BY <1>1 DEF WaitsOnce, QueueDistinct
<1>2. ASSUME NEW t \in tasks, RunSettleApply(t)
      PROVE  WaitsOnce'
  <2>1. t.job \in Job /\ t.outcome \in Terminal
    BY DEF TypeOK, TaskRec
  <2>2. UNCHANGED <<queue, call>>
    BY <1>2 DEF RunSettleApply
  <2>3. UNCHANGED state \/ Becomes(t.job, t.outcome)
    BY <1>2, <2>1, UpdateBecomes DEF RunSettleApply
  <2>4. \A k \in Job : state[k] \in {"Queued"} \cup Terminal =>
                         state'[k] \in {"Queued"} \cup Terminal
    BY <2>1, <2>3 DEF Becomes
  <2>5. \A i \in DOMAIN queue : queue[i] \in Job
    BY DEF TypeOK
  <2>6. \A d \in Client : call[d].pc = "resume.push" => call[d].job \in Job
    BY CallFields
  <2> QED
    BY <2>2, <2>4, <2>5, <2>6 DEF WaitsOnce, QueueDistinct
<1>3. ASSUME NEW t \in tasks, RunContinues(t)
      PROVE  WaitsOnce'
  BY <1>1, <1>2, <1>3, WaitsPump, RunEffect DEF RunEnds
<1>4. ASSUME NEW b \in borg, BorgExits(b)
      PROVE  WaitsOnce'
  BY <1>1, <1>4 DEF BorgExits
<1> QED
  BY <1>1, <1>3, <1>4, WaitsCalls, WaitsContinues DEF Next, vars

-----------------------------------------------------------------------------
(* A steady job is started once.                                           *)

LEMMA StartedHoldersStep ==
  ASSUME TypeOK, Bookkeeping, StartedHolders, [Next]_vars
  PROVE  StartedHolders'
<1> USE DEF StartedHolders, Holds, Steady
<1>1. CASE PumpStart
  <2>1. PICK i \in DOMAIN queue :
          /\ queue[i] \in Job
          /\ Becomes(queue[i], "Running")
          /\ run' = [run EXCEPT ![queue[i]] = @ + 1]
          /\ UNCHANGED <<kind, access>>
    BY <1>1, PumpEffect, UpdateBecomes
  <2>2. run \in [Job -> Nat]
    BY DEF TypeOK
  <2> QED
    BY <2>1, <2>2, SMTT(60) DEF Becomes
<1>2. CASE UNCHANGED <<kind, access, state, run>>
  BY <1>2
<1>3. CASE Submitted
  BY <1>3 DEF Submitted, Becomes
<1>4. ASSUME NEW j \in Job, Transitioned(j)
      PROVE  StartedHolders'
  <2>1. PICK s \in JobState \ {"Running"} :
          CanTransition(state[j], s) /\ Becomes(j, s)
    BY <1>4 DEF Transitioned
  <2>2. s = "Cancelling" => \/ state[j] = "Running"
                            \/ state[j] = "Paused" /\ kind[j] = "RestoreEverything"
    BY <2>1, TransitionsToHolding DEF Bookkeeping, OnlyPausablePaused
  <2> QED
    BY <1>4, <2>1, <2>2 DEF Transitioned, Becomes
<1> QED
  BY <1>1, <1>2, <1>3, <1>4, StateEffect

(* Who enters the queue, when the pump does not run: the job just          *)
(* submitted, or a job that can be paused.                                 *)
LEMMA QueueEffect ==
  ASSUME TypeOK, Bookkeeping, [Next]_vars, ~PumpStart, NEW k \in DOMAIN queue'
  PROVE  \/ \E m \in DOMAIN queue : queue'[k] = queue[m]
         \/ queue'[k] = nextId /\ nextId \in Job
         \/ queue'[k] \in Job /\ queue'[k] < nextId /\ ~Steady(queue'[k])
<1>1. queue \in Seq(Job)
  BY DEF TypeOK
<1>2. CASE UNCHANGED queue
  BY <1>2
<1>3. ASSUME NEW c \in Client, Submit(c)
      PROVE  queue' = Append(queue, nextId) /\ nextId \in Job
  BY <1>3 DEF Submit, SubmittedId
<1>4. ASSUME NEW c \in Client, ResumePush(c)
      PROVE  /\ queue' = Append(queue, call[c].job)
             /\ call[c].job \in Job /\ call[c].job < nextId
             /\ ~Steady(call[c].job)
  BY <1>4, CallFields DEF ResumePush, Bookkeeping, CallsKnown, CallsNext
<1>5. ASSUME NEW c \in Client, CancelDequeue(c)
      PROVE  \E m \in DOMAIN queue : queue'[k] = queue[m]
  <2>1. queue' = RemoveFirst(queue, call[c].job) /\ call[c].job \in Job
    BY <1>5, CallFields DEF CancelDequeue
  <2>2. queue' = queue \/ \E i \in DOMAIN queue : queue' = RemoveAt(queue, i)
    BY <1>1, <2>1, RemoveFirstKeeps
  <2> QED
    BY <1>1, <2>2, RemoveAtKeeps
<1>6. ASSUME NEW c \in Client, ClientCalls(c) \/ ClientContinues(c)
      PROVE  UNCHANGED queue \/ Submit(c) \/ ResumePush(c) \/ CancelDequeue(c)
  BY <1>6 DEF ClientCalls, SubmitPaused, CancelBegin, PauseBegin, ResumeBegin,
     ClientContinues, ClientPumps, ClientPumpEnds, CancelApply, CancelTrip,
     PauseApply, PauseTrip, ResumeApply
<1>7. ASSUME NEW t \in tasks, RunContinues(t)
      PROVE  UNCHANGED queue
  BY <1>7, RunEffect DEF RunSettleApply, RunEnds
<1>8. ASSUME NEW b \in borg, BorgExits(b)
      PROVE  UNCHANGED queue
  BY <1>8 DEF BorgExits
<1>9. \/ UNCHANGED queue
      \/ \E c \in Client : Submit(c) \/ ResumePush(c) \/ CancelDequeue(c)
  BY <1>6, <1>7, <1>8 DEF Next, vars
<1>10. ASSUME NEW j \in Job, queue' = Append(queue, j)
       PROVE  queue'[k] = j \/ \E m \in DOMAIN queue : queue'[k] = queue[m]
  BY <1>1, <1>10
<1> QED
  BY <1>2, <1>3, <1>4, <1>5, <1>9, <1>10

LEMMA StartedOnceStep ==
  ASSUME TypeOK, Bookkeeping, WaitsOnce, StartedHolders, StartedOnce, [Next]_vars
  PROVE  StartedOnce'
<1> USE DEF Present, Steady
<1>1. CASE PumpStart
  <2>1. PICK i \in DOMAIN queue :
          /\ queue[i] \in Job
          /\ queue' = RemoveAt(queue, i)
          /\ Becomes(queue[i], "Running")
          /\ run' = [run EXCEPT ![queue[i]] = @ + 1]
          /\ UNCHANGED <<kind, access>>
    BY <1>1, PumpEffect, UpdateBecomes
  <2>2. run \in [Job -> Nat] /\ queue \in Seq(Job)
    BY DEF TypeOK
  <2>3. state[queue[i]] # "Absent"
    BY <2>1 DEF WaitsOnce
  <2>4. kind[queue[i]] # "RestoreEverything" => run[queue[i]] = 0
    <3> DEFINE j == queue[i]
    <3>1. /\ j \in Job /\ state[j] # "Absent" /\ run[j] \in Nat
          /\ \E k \in DOMAIN queue : queue[k] = j
      BY <2>1, <2>2, <2>3
    <3> HIDE DEF j
    <3>2. kind[j] # "RestoreEverything" => run[j] <= 1 /\ run[j] # 1
      BY <3>1 DEF StartedOnce
    <3>3. kind[j] # "RestoreEverything" => run[j] = 0
      BY <3>1, <3>2
    <3> QED
      BY <3>3 DEF j
  <2>5. \A m \in DOMAIN queue' :
          /\ \E n \in DOMAIN queue : queue'[m] = queue[n]
          /\ queue'[m] # queue[i]
    BY <2>1, <2>2, RemoveAtKeeps DEF WaitsOnce, QueueDistinct
  <2>6. ASSUME NEW j \in Job, j # queue[i], state'[j] # "Absent",
               kind'[j] # "RestoreEverything"
        PROVE  run'[j] <= 1 /\ (run'[j] = 1 => \A m \in DOMAIN queue' : queue'[m] # j)
    <3>1. run'[j] = run[j] /\ state'[j] = state[j] /\ kind'[j] = kind[j]
      BY <2>1, <2>2, <2>6 DEF Becomes
    <3> QED
      BY <2>5, <2>6, <3>1 DEF StartedOnce
  <2>7. kind'[queue[i]] # "RestoreEverything" => run'[queue[i]] = 1
    BY <2>1, <2>2, <2>4
  <2> QED
    BY <2>5, <2>6, <2>7 DEF StartedOnce
<1>2. CASE ~PumpStart
  <2>1. /\ UNCHANGED run
        /\ \A j \in Job : state[j] # "Absent" => kind'[j] = kind[j]
        /\ \A j \in Job : state[j] = "Absent" => run[j] = 0
    BY <1>2, StateEffect DEF Submitted, Transitioned, StartedHolders
  <2>2. nextId \in Job => state[nextId] = "Absent"
    BY DEF Bookkeeping, Fresh
  <2>3. ASSUME NEW j \in Job, state[j] # "Absent", kind[j] # "RestoreEverything",
               run[j] = 1, NEW k \in DOMAIN queue'
        PROVE  queue'[k] # j
    BY <1>2, <2>2, <2>3, QueueEffect DEF StartedOnce
  <2>4. ASSUME NEW j \in Job, kind'[j] # "RestoreEverything"
        PROVE  run[j] <= 1 /\ (run[j] = 1 => state[j] # "Absent")
    BY <2>1, <2>4 DEF StartedOnce
  <2> QED
    BY <2>1, <2>3, <2>4 DEF StartedOnce
<1> QED
  BY <1>1, <1>2

-----------------------------------------------------------------------------
(* A cancel reaches the run it is for.                                     *)

LEMMA CancelTokenStep ==
  ASSUME TypeOK, Bookkeeping, WaitsOnce, StartedHolders, StartedOnce,
         CancelToken, [Next]_vars
  PROVE  CancelToken'
<1> USE DEF jobVars
<1>1. CASE UNCHANGED <<kind, run, call>>
  BY <1>1 DEF CancelToken, Steady
<1>2. CASE PumpStart
  <2>1. PICK i \in DOMAIN queue :
          /\ queue[i] \in Job
          /\ run' = [run EXCEPT ![queue[i]] = @ + 1]
          /\ UNCHANGED <<kind, call>>
    BY <1>2, PumpEffect
  <2>2. run \in [Job -> Nat] /\ state[queue[i]] # "Absent"
    BY <2>1 DEF TypeOK, WaitsOnce
  <2>3. Steady(queue[i]) => run[queue[i]] = 0
    BY <2>1, <2>2 DEF StartedOnce, Present
  <2>4. \A c \in Client : call[c].pc \notin {"idle", "pump"} => call[c].job \in Job
    BY CallFields
  <2> QED
    BY <2>1, <2>2, <2>3, <2>4 DEF CancelToken, Steady
<1>3. ASSUME NEW c \in Client, Submit(c) \/ SubmitPaused(c)
      PROVE  CancelToken'
  <2>1. /\ nextId \in Job /\ UNCHANGED run
        /\ \A j \in Job : j # nextId => kind'[j] = kind[j]
    BY <1>3 DEF Submit, SubmitPaused, SubmittedId, TypeOK
  <2>2. UNCHANGED call \/ Goes(c, Pumping)
    BY <1>3, UpdateGoes DEF Submit, SubmitPaused
  <2>3. \A d \in Client : call[d].pc \notin {"idle", "pump"} =>
          call[d].job \in Job /\ call[d].job # nextId
    BY <2>1, CallFields DEF Bookkeeping, CallsKnown
  <2> QED
    BY <2>1, <2>2, <2>3 DEF CancelToken, Steady, Goes, Pumping, At
<1>4. ASSUME NEW c \in Client, NEW j \in Job, CancelBegin(c, j)
      PROVE  CancelToken'
  <2>1. /\ UNCHANGED <<kind, run>>
        /\ Goes(c, At("cancel.apply", j,
                      IF state[j] \in {"Queued", "Paused"} THEN Cancelled
                                                           ELSE "Cancelling",
                      run[j]))
    BY <1>4, UpdateGoes DEF CancelBegin
  <2>2. state[j] \notin {"Queued", "Paused"} /\ Steady(j) => run[j] >= 1
    BY <1>4 DEF CancelBegin, Present, TypeOK, StartedHolders, Holds
  <2> QED
    BY <2>1, <2>2 DEF CancelToken, Goes, At, Steady
<1>5. ASSUME NEW c \in Client, CancelApply(c) \/ PauseApply(c) \/ ResumeApply(c)
      PROVE  CancelToken'
  <2>1. UNCHANGED <<kind, run>> /\ call[c].job \in Job
    BY <1>5, CallFields DEF CancelApply, PauseApply, ResumeApply
  <2>2. PICK pc : /\ ClientTransition(c, pc)
                  /\ pc = "cancel.trip" => call[c].pc = "cancel.apply"
                  /\ pc # "cancel.apply"
    BY <1>5 DEF CancelApply, PauseApply, ResumeApply
  <2>3. \/ Goes(c, At(pc, call[c].job, call[c].next, call[c].run))
        \/ Goes(c, Idle)
    BY <2>1, <2>2, ClientTransitionEffect
  <2> QED
    BY <2>1, <2>2, <2>3 DEF CancelToken, Goes, At, Idle, Steady
<1>6. ASSUME NEW c \in Client, NEW r, UNCHANGED <<kind, run>>,
             call' = [call EXCEPT ![c] = r],
             r.pc \notin {"cancel.apply", "cancel.trip"}
      PROVE  CancelToken'
  <2>1. Goes(c, r)
    BY <1>6, UpdateGoes
  <2> QED
    BY <1>6, <2>1 DEF CancelToken, Goes, Steady
<1>7. ASSUME NEW c \in Client, ClientCalls(c)
      PROVE  CancelToken'
  <2>1. ASSUME NEW j \in Job, PauseBegin(c, j) \/ ResumeBegin(c, j)
        PROVE  CancelToken'
    BY <1>6, <2>1 DEF PauseBegin, ResumeBegin, At
  <2> QED
    BY <1>3, <1>4, <1>7, <2>1 DEF ClientCalls
<1>8. ASSUME NEW c \in Client, ClientContinues(c)
      PROVE  CancelToken'
  <2>1. CASE ClientPumpEnds(c) \/ CancelTrip(c) \/ PauseTrip(c)
             \/ CancelDequeue(c) \/ ResumePush(c)
    BY <1>6, <2>1 DEF ClientPumpEnds, CancelTrip, PauseTrip, CancelDequeue,
       ResumePush, Idle, Pumping, At
  <2> QED
    BY <1>2, <1>5, <1>8, <2>1 DEF ClientContinues, ClientPumps
<1>9. ASSUME NEW t \in tasks, RunContinues(t)
      PROVE  CancelToken'
  BY <1>1, <1>2, <1>9, RunEffect DEF RunSettleApply, RunEnds
<1>10. ASSUME NEW b \in borg, BorgExits(b)
       PROVE  CancelToken'
  BY <1>1, <1>10 DEF BorgExits
<1> QED
  BY <1>1, <1>7, <1>8, <1>9, <1>10 DEF Next, vars

LEMMA CancelReachesRunStep ==
  ASSUME TypeOK, Bookkeeping, CancelToken, CancelReachesRun, [Next]_vars
  PROVE  CancelReachesRun'
<1> USE DEF jobVars
<1>1. CASE UNCHANGED <<kind, state, run, tripped, call>>
  BY <1>1 DEF CancelReachesRun, Steady
<1>2. CASE PumpStart
  <2>1. PICK i \in DOMAIN queue :
          /\ Becomes(queue[i], "Running") /\ queue[i] \in Job
          /\ run' = [run EXCEPT ![queue[i]] = @ + 1]
          /\ UNCHANGED <<kind, tripped, call>>
    BY <1>2, PumpEffect, UpdateBecomes
  <2>2. \A j \in Job : j # queue[i] => state'[j] = state[j] /\ run'[j] = run[j]
    BY <2>1 DEF Becomes, TypeOK
  <2> QED
    BY <2>1, <2>2 DEF CancelReachesRun, Becomes, Steady
<1>3. ASSUME NEW c \in Client, Submit(c) \/ SubmitPaused(c)
      PROVE  CancelReachesRun'
  <2>1. /\ nextId \in Job /\ UNCHANGED <<run, tripped>>
        /\ \A j \in Job : j # nextId => kind'[j] = kind[j]
        /\ Becomes(nextId, "Queued") \/ Becomes(nextId, "Paused")
    BY <1>3, UpdateBecomes DEF Submit, SubmitPaused, SubmittedId, TypeOK
  <2>2. UNCHANGED call \/ (Goes(c, Pumping) /\ call[c].pc = "idle")
    BY <1>3, UpdateGoes DEF Submit, SubmitPaused, Begin
  <2>3. \A j \in Job : state'[j] = "Cancelling" =>
          j # nextId /\ state[j] = "Cancelling" /\ kind'[j] = kind[j]
    BY <2>1 DEF Becomes
  <2>4. \A d \in Client : call[d].pc = "cancel.trip" => call'[d] = call[d]
    BY <2>2 DEF Goes
  <2> QED
    BY <2>1, <2>3, <2>4 DEF CancelReachesRun, Steady
<1>4. ASSUME NEW c \in Client, CancelApply(c) \/ PauseApply(c) \/ ResumeApply(c)
      PROVE  CancelReachesRun'
  <2> DEFINE j == call[c].job
             s == call[c].next
  <2>1. /\ UNCHANGED <<kind, run, tripped>> /\ j \in Job
        /\ call[c].pc # "cancel.trip"
    BY <1>4, CallFields DEF CancelApply, PauseApply, ResumeApply
  <2>2. PICK pc : /\ ClientTransition(c, pc)
                  /\ s = "Cancelling" =>
                       pc = "cancel.trip" /\ call[c].pc = "cancel.apply"
    BY <1>4 DEF CancelApply, PauseApply, ResumeApply, Bookkeeping, CallsNext
  <2>3. CASE Becomes(j, s) /\ Goes(c, At(pc, j, s, call[c].run))
    <3>1. \A d \in Client : call[d].pc = "cancel.trip" => call'[d] = call[d]
      BY <2>1, <2>3 DEF Goes
    <3>2. s = "Cancelling" /\ Steady(j) =>
            /\ call'[c].pc = "cancel.trip"
            /\ call'[c].job = j /\ call'[c].run = run[j]
      BY <2>2, <2>3 DEF CancelToken, Goes, At
    <3> HIDE DEF j, s
    <3> QED
      BY <2>1, <2>3, <3>1, <3>2 DEF CancelReachesRun, Becomes, Steady
  <2>4. CASE UNCHANGED state /\ Goes(c, Idle)
    <3>1. \A d \in Client : call[d].pc = "cancel.trip" => call'[d] = call[d]
      BY <2>1, <2>4 DEF Goes
    <3> QED
      BY <2>1, <2>4, <3>1 DEF CancelReachesRun, Steady
  <2> QED
    BY <2>1, <2>2, <2>3, <2>4, ClientTransitionEffect
<1>5. ASSUME NEW c \in Client, CancelTrip(c)
      PROVE  CancelReachesRun'
  <2>1. /\ UNCHANGED <<kind, run, state>> /\ Goes(c, Idle)
        /\ tripped' = tripped \cup {<<call[c].job, call[c].run>>}
    BY <1>5, UpdateGoes DEF CancelTrip
  <2> QED
    BY <2>1 DEF CancelReachesRun, Goes, Steady
<1>6. ASSUME NEW c \in Client, NEW r, UNCHANGED <<kind, run, state>>,
             tripped \subseteq tripped',
             call[c].pc # "cancel.trip", call' = [call EXCEPT ![c] = r]
      PROVE  CancelReachesRun'
  <2>1. Goes(c, r)
    BY <1>6, UpdateGoes
  <2>2. \A d \in Client : call[d].pc = "cancel.trip" => call'[d] = call[d]
    BY <1>6, <2>1 DEF Goes
  <2> QED
    BY <1>6, <2>2 DEF CancelReachesRun, Steady
<1>7. ASSUME NEW c \in Client, ClientCalls(c)
      PROVE  CancelReachesRun'
  <2>1. ASSUME NEW j \in Job, CancelBegin(c, j) \/ PauseBegin(c, j) \/ ResumeBegin(c, j)
        PROVE  CancelReachesRun'
    BY <1>6, <2>1 DEF CancelBegin, PauseBegin, ResumeBegin, Begin
  <2> QED
    BY <1>3, <1>7, <2>1 DEF ClientCalls
<1>8. ASSUME NEW c \in Client, ClientContinues(c)
      PROVE  CancelReachesRun'
  <2>1. CASE ClientPumpEnds(c) \/ PauseTrip(c) \/ CancelDequeue(c) \/ ResumePush(c)
    BY <1>6, <2>1 DEF ClientPumpEnds, PauseTrip, CancelDequeue, ResumePush
  <2> QED
    BY <1>2, <1>4, <1>5, <1>8, <2>1 DEF ClientContinues, ClientPumps
<1>9. ASSUME NEW t \in tasks, RunSettleApply(t)
      PROVE  CancelReachesRun'
  <2>1. t.job \in Job /\ t.outcome \in Terminal
    BY DEF TypeOK, TaskRec
  <2>2. UNCHANGED <<kind, run, tripped, call>>
    BY <1>9 DEF RunSettleApply
  <2>3. UNCHANGED state \/ Becomes(t.job, t.outcome)
    BY <1>9, <2>1, UpdateBecomes DEF RunSettleApply
  <2> QED
    BY <2>1, <2>2, <2>3 DEF CancelReachesRun, Becomes, Steady
<1>10. ASSUME NEW t \in tasks, RunContinues(t)
       PROVE  CancelReachesRun'
  BY <1>1, <1>2, <1>9, <1>10, RunEffect DEF RunEnds
<1>11. ASSUME NEW b \in borg, BorgExits(b)
       PROVE  CancelReachesRun'
  BY <1>1, <1>11 DEF BorgExits
<1> QED
  BY <1>1, <1>7, <1>8, <1>10, <1>11 DEF Next, vars

-----------------------------------------------------------------------------
(* A Running job has its run.                                              *)

LEMMA ClientsLeaveTasks ==
  ASSUME NEW c \in Client, ClientCalls(c) \/ ClientContinues(c), ~PumpStart
  PROVE  UNCHANGED tasks
BY DEF ClientCalls, Submit, SubmitPaused, CancelBegin, PauseBegin, ResumeBegin,
   ClientContinues, ClientPumps, ClientPumpEnds, CancelApply, CancelTrip,
   CancelDequeue, PauseApply, PauseTrip, ResumeApply, ResumePush

LEMMA RunningHasRunStep ==
  ASSUME TypeOK, Bookkeeping, RunningHasRun, [Next]_vars
  PROVE  RunningHasRun'
<1>1. CASE PumpStart
  <2>1. PICK i \in DOMAIN queue :
          /\ queue[i] \in Job
          /\ Becomes(queue[i], "Running")
          /\ run' = [run EXCEPT ![queue[i]] = @ + 1]
          /\ tasks' = tasks \cup {[job |-> queue[i], run |-> run[queue[i]] + 1,
                                   pc |-> "spawned", outcome |-> Cancelled]}
    BY <1>1, PumpEffect, UpdateBecomes
  <2>2. \A j \in Job : j # queue[i] => run'[j] = run[j] /\ state'[j] = state[j]
    BY <2>1 DEF Becomes, TypeOK
  <2>3. run'[queue[i]] = run[queue[i]] + 1
    BY <2>1 DEF TypeOK
  <2> DEFINE new == [job |-> queue[i], run |-> run[queue[i]] + 1,
                     pc |-> "spawned", outcome |-> Cancelled]
  <2>4. \E t \in tasks' : t.job = queue[i] /\ t.run = run'[queue[i]] /\ t.pc # "pump"
    <3>1. new.job = queue[i] /\ new.run = run'[queue[i]] /\ new.pc # "pump"
      BY <2>3
    <3>2. new \in tasks'
      BY <2>1
    <3> HIDE DEF new
    <3> QED
      BY <3>1, <3>2
  <2>5. ASSUME NEW j \in Job, j # queue[i], state'[j] = "Running"
        PROVE  \E t \in tasks' : t.job = j /\ t.run = run'[j] /\ t.pc # "pump"
    BY <2>1, <2>2, <2>5 DEF RunningHasRun
  <2> QED
    BY <2>4, <2>5 DEF RunningHasRun
(* When the pump does not run, no job becomes Running. *)
<1>2. CASE ~PumpStart
  <2>1. /\ \A j \in Job : state'[j] = "Running" => state[j] = "Running"
        /\ UNCHANGED run
    BY <1>2, StateEffect DEF Submitted, Transitioned, Becomes
  <2>2. CASE UNCHANGED tasks
    BY <2>1, <2>2 DEF RunningHasRun
  <2>3. ASSUME NEW t \in tasks, NEW pc \in TaskPc, Moved(t, pc),
               pc = "pump" =>
                 state'[t.job] # "Running" \/ run[t.job] # t.run \/ t.pc = "pump"
        PROVE  RunningHasRun'
    BY <2>1, <2>3 DEF RunningHasRun, Moved
  <2>4. ASSUME NEW t \in tasks, RunSettleApply(t)
        PROVE  RunningHasRun'
    <3>1. t \in TaskRec /\ "pump" \in TaskPc
      BY DEF TypeOK, TaskPc
    <3>2. t.job \in Job /\ t.outcome \in Terminal
      BY <3>1 DEF TaskRec
    <3>3. Moved(t, "pump")
      BY <2>4, <3>1, StepMoves DEF RunSettleApply
    <3>4. state'[t.job] # "Running"
      BY <2>4, <3>2, UpdateBecomes
         DEF RunSettleApply, CanTransition, Transitions, Becomes
    <3> QED
      BY <2>3, <3>1, <3>3, <3>4
  <2>5. ASSUME NEW t \in tasks, RunEnds(t)
        PROVE  RunningHasRun'
    BY <2>1, <2>5 DEF RunEnds, RunningHasRun
  <2>6. ASSUME NEW t \in tasks, RunContinues(t)
        PROVE  RunningHasRun'
    <3>1. CASE /\ UNCHANGED state
               /\ \E pc \in TaskPc :
                    Moved(t, pc) /\ (pc = "pump" => ~StillItsJob(t))
      BY <2>3, <3>1 DEF StillItsJob
    <3> QED
      BY <1>2, <2>4, <2>5, <2>6, <3>1, RunEffect
  <2>7. ASSUME NEW b \in borg, BorgExits(b)
        PROVE  RunningHasRun'
    BY <2>2, <2>7 DEF BorgExits
  <2> QED
    BY <1>2, <2>2, <2>6, <2>7, ClientsLeaveTasks DEF Next, vars
<1> QED
  BY <1>1, <1>2

-----------------------------------------------------------------------------
(* No wakeup is lost.                                                      *)

(* Nothing becomes admissible when no job gives the repository back and    *)
(* nobody enters the queue.                                                *)
LEMMA StillNothingAdmissible ==
  ASSUME TypeOK, NothingAdmissible, UNCHANGED queue,
         \A j \in Job : HoldsRepo(state[j]) =>
           HoldsRepo(state'[j]) /\ access'[j] = access[j],
         \A i \in DOMAIN queue : access'[queue[i]] = access[queue[i]]
  PROVE  NothingAdmissible'
<1>1. HeldModes \subseteq HeldModes'
  BY DEF HeldModes
<1>2. \A i \in DOMAIN queue : access[queue[i]] \in RepoAccess
  BY DEF TypeOK
<1>3. ASSUME NEW i \in DOMAIN queue', Admissible(i)'
      PROVE  Admissible(i)
  BY <1>1, <1>2, <1>3 DEF Admissible, Admits
<1> QED
  BY <1>3 DEF NothingAdmissible

LEMMA NoLostWakeupStep ==
  ASSUME TypeOK, Bookkeeping, NoLostWakeup, [Next]_vars
  PROVE  NoLostWakeup'
<1> USE DEF jobVars
<1>1. NoLostWakeup <=> NothingAdmissible \/ SomebodyPumps
  BY DEF NoLostWakeup
<1>2. NoLostWakeup' <=> NothingAdmissible' \/ SomebodyPumps'
  BY DEF NoLostWakeup
<1>3. ASSUME NEW c \in Client, call[c].pc = "pump", PumpStart
      PROVE  SomebodyPumps'
  BY <1>3, PumpEffect DEF SomebodyPumps, WillPump
<1>4. ASSUME NEW t \in tasks, t.pc = "pump", PumpStart
      PROVE  SomebodyPumps'
  BY <1>4, PumpEffect DEF SomebodyPumps
<1>5. ASSUME NothingAdmissible, UNCHANGED <<access, state, queue>>
      PROVE  NothingAdmissible'
  BY <1>5 DEF NothingAdmissible, Admissible, HeldModes
(* A client that goes on towards the pump. *)
<1>6. ASSUME NEW c \in Client, NEW r, Goes(c, r),
             r.pc \in {"pump", "cancel.dequeue", "pause.trip"}
      PROVE  SomebodyPumps'
  BY <1>6 DEF SomebodyPumps, WillPump, Goes
(* A client elsewhere goes on elsewhere and frees nothing. *)
<1>7. ASSUME NEW c \in Client, NEW r, Goes(c, r) \/ UNCHANGED call, UNCHANGED tasks,
             call[c].pc \notin {"pump", "cancel.dequeue", "pause.trip"},
             NothingAdmissible => NothingAdmissible'
      PROVE  NothingAdmissible' \/ SomebodyPumps'
  BY <1>1, <1>7 DEF SomebodyPumps, WillPump, Goes
<1>8. ASSUME NEW c \in Client, ClientCalls(c)
      PROVE  NothingAdmissible' \/ SomebodyPumps'
  <2>1. CASE Submit(c)
    BY <1>6, <2>1, UpdateGoes DEF Submit, Pumping, At
  <2>2. CASE SubmitPaused(c)
    <3>1. /\ nextId \in Job /\ Becomes(nextId, "Paused")
          /\ state[nextId] = "Absent"
          /\ \A j \in Job : j # nextId => access'[j] = access[j]
          /\ UNCHANGED <<queue, call, tasks>>
      <4>1. nextId \in Job /\ UNCHANGED <<queue, call, tasks>>
        BY <2>2 DEF SubmitPaused
      <4>2. Becomes(nextId, "Paused")
        BY <2>2, <4>1, UpdateBecomes DEF SubmitPaused
      <4>3. \A j \in Job : j # nextId => access'[j] = access[j]
        BY <2>2 DEF SubmitPaused, TypeOK
      <4>4. state[nextId] = "Absent"
        BY <4>1 DEF Bookkeeping, Fresh
      <4> QED
        BY <4>1, <4>2, <4>3, <4>4
    <3>2. \A i \in DOMAIN queue : queue[i] \in Job /\ queue[i] # nextId
      BY DEF Bookkeeping, QueueKnown, TypeOK
    <3>3. \A j \in Job : HoldsRepo(state[j]) =>
            HoldsRepo(state'[j]) /\ access'[j] = access[j]
      BY <3>1 DEF HoldsRepo, Becomes
    <3>4. NothingAdmissible => NothingAdmissible'
      BY <3>1, <3>2, <3>3, StillNothingAdmissible
    <3> QED
      BY <1>1, <3>1, <3>4 DEF SomebodyPumps, WillPump
  <2>3. ASSUME NEW j \in Job, CancelBegin(c, j) \/ PauseBegin(c, j) \/ ResumeBegin(c, j)
        PROVE  NothingAdmissible' \/ SomebodyPumps'
    <3>1. PICK r : Goes(c, r)
      BY <2>3, UpdateGoes DEF CancelBegin, PauseBegin, ResumeBegin
    <3>2. UNCHANGED <<access, state, queue, tasks>> /\ call[c].pc = "idle"
      BY <2>3 DEF CancelBegin, PauseBegin, ResumeBegin, Begin
    <3> QED
      BY <1>5, <1>7, <3>1, <3>2
  <2> QED
    BY <1>8, <2>1, <2>2, <2>3 DEF ClientCalls
<1>9. ASSUME NEW c \in Client, CancelApply(c) \/ PauseApply(c) \/ ResumeApply(c)
      PROVE  NothingAdmissible' \/ SomebodyPumps'
  <2> DEFINE j == call[c].job
             s == call[c].next
  <2>1. /\ UNCHANGED <<access, queue, tasks>> /\ j \in Job
        /\ call[c].pc \notin {"pump", "cancel.dequeue", "pause.trip"}
    BY <1>9, CallFields DEF CancelApply, PauseApply, ResumeApply
  <2>2. PICK pc : /\ ClientTransition(c, pc)
                  /\ \/ pc \in {"cancel.dequeue", "pause.trip"}
                     \/ s = "Cancelling" \/ s = "Queued"
    BY <1>9 DEF CancelApply, PauseApply, ResumeApply, Bookkeeping, CallsNext
  <2>3. CASE /\ CanTransition(state[j], s) /\ Becomes(j, s)
             /\ Goes(c, At(pc, j, s, call[c].run))
    <3>1. CASE pc \in {"cancel.dequeue", "pause.trip"}
      BY <1>6, <2>3, <3>1 DEF At
    <3>2. CASE s = "Cancelling" \/ s = "Queued"
      <4>1. \A k \in Job : HoldsRepo(state[k]) => HoldsRepo(state'[k])
        BY <2>1, <2>3, <3>2 DEF HoldsRepo, Becomes, CanTransition, Transitions
      <4>2. NothingAdmissible => NothingAdmissible'
        BY <2>1, <4>1, StillNothingAdmissible
      <4> QED
        BY <1>7, <2>1, <2>3, <4>2
    <3> QED
      BY <2>2, <3>1, <3>2
  <2>4. CASE UNCHANGED state /\ Goes(c, Idle)
    BY <1>5, <1>7, <2>1, <2>4
  <2> QED
    BY <2>1, <2>2, <2>3, <2>4, ClientTransitionEffect
<1>10. ASSUME NEW c \in Client, ClientContinues(c)
       PROVE  NothingAdmissible' \/ SomebodyPumps'
  <2>1. CASE ClientPumps(c)
    BY <1>3, <2>1 DEF ClientPumps
  <2>2. CASE ClientPumpEnds(c)
    BY <1>5, <2>2 DEF ClientPumpEnds
  <2>3. CASE CancelTrip(c)
    <3>1. UNCHANGED <<access, state, queue, tasks>> /\ Goes(c, Idle)
          /\ call[c].pc = "cancel.trip"
      BY <2>3, UpdateGoes DEF CancelTrip
    <3> QED
      BY <1>5, <1>7, <3>1
  <2>4. CASE CancelDequeue(c) \/ PauseTrip(c) \/ ResumePush(c)
    BY <1>6, <2>4, UpdateGoes DEF CancelDequeue, PauseTrip, ResumePush, Pumping, At
  <2> QED
    BY <1>9, <1>10, <2>1, <2>2, <2>3, <2>4 DEF ClientContinues
<1>11. ASSUME NEW t \in tasks, RunContinues(t)
       PROVE  NothingAdmissible' \/ SomebodyPumps'
  <2>1. CASE RunSettleApply(t)
    <3>1. t \in TaskRec /\ "pump" \in TaskPc
      BY DEF TypeOK, TaskPc
    <3>2. Moved(t, "pump")
      BY <2>1, <3>1, StepMoves DEF RunSettleApply
    <3> QED
      BY <3>2 DEF Moved, SomebodyPumps
  <2>2. CASE RunEnds(t)
    BY <1>5, <2>2 DEF RunEnds
  <2>3. CASE /\ UNCHANGED <<access, state, queue, call>>
             /\ t.pc # "pump"
             /\ \E pc \in TaskPc : Moved(t, pc)
    BY <1>1, <1>5, <2>3 DEF SomebodyPumps, WillPump, Moved
  <2> QED
    BY <1>4, <1>11, <2>1, <2>2, <2>3, RunEffect
<1>12. ASSUME UNCHANGED <<access, state, queue, call, tasks>>
       PROVE  NothingAdmissible' \/ SomebodyPumps'
  BY <1>1, <1>5, <1>12 DEF SomebodyPumps, WillPump
<1>13. ASSUME NEW b \in borg, BorgExits(b)
       PROVE  NothingAdmissible' \/ SomebodyPumps'
  BY <1>12, <1>13 DEF BorgExits
<1> QED
  BY <1>2, <1>8, <1>10, <1>11, <1>12, <1>13 DEF Next, vars

-----------------------------------------------------------------------------
(* The inductive invariant, and what follows from it.                      *)

LEMMA IInvInit == Init => IInv
<1> SUFFICES ASSUME Init
             PROVE  IInv
  OBVIOUS
<1>1. TypeOK
  BY InitType
<1>2. Bookkeeping /\ WaitsOnce /\ StartedHolders /\ CancelToken
  BY DEF Init, Bookkeeping, Fresh, QueueKnown, CallsKnown, CallsNext,
     OnlyPausablePaused, WaitsOnce, QueueDistinct, StartedHolders, Holds,
     CancelToken, Idle, At
<1>3. StartedOnce /\ RepoExclusion /\ RunningHasRun /\ CancelReachesRun
  BY DEF Init, StartedOnce, Present, RepoExclusion, Holds, RunningHasRun,
     CancelReachesRun
<1>4. NoLostWakeup
  BY DEF Init, NoLostWakeup, NothingAdmissible
<1> QED
  BY <1>1, <1>2, <1>3, <1>4 DEF IInv

LEMMA IInvStep == IInv /\ [Next]_vars => IInv'
BY TypeStep, BookkeepingStep, WaitsStep, StartedHoldersStep, StartedOnceStep,
   CancelTokenStep, CancelReachesRunStep, ExclusionStep, RunningHasRunStep,
   NoLostWakeupStep DEF IInv

LEMMA IInvAlways == Spec => []IInv
BY IInvInit, IInvStep, PTL DEF Spec

(* However calls, runs and their ends interleave, admission control keeps  *)
(* what guard.rs promises: a writer holds the repository alone.            *)
THEOREM Exclusion == Spec => []RepoExclusion
<1>1. IInv => RepoExclusion
  BY DEF IInv
<1> QED
  BY <1>1, IInvAlways, PTL

(* No entry of the queue that could be started is forgotten. *)
THEOREM Wakeup == Spec => []NoLostWakeup
<1>1. IInv => NoLostWakeup
  BY DEF IInv
<1> QED
  BY <1>1, IInvAlways, PTL

(* Work that cannot be paused is started at most once, and nothing waits   *)
(* in the queue twice.                                                     *)
THEOREM Once == Spec => [](StartedOnce /\ QueueDistinct)
<1>1. IInv => StartedOnce /\ QueueDistinct
  BY DEF IInv, WaitsOnce
<1> QED
  BY <1>1, IInvAlways, PTL

(* A Running job has a live run that will settle it. *)
THEOREM NeverOrphaned == Spec => []RunningHasRun
<1>1. IInv => RunningHasRun
  BY DEF IInv
<1> QED
  BY <1>1, IInvAlways, PTL

(* The cancel of a steady job reaches the run it is for. *)
THEOREM CancelReaches == Spec => []CancelReachesRun
<1>1. IInv => CancelReachesRun
  BY DEF IInv
<1> QED
  BY <1>1, IInvAlways, PTL

(* Only a recovery is ever Paused. *)
THEOREM PausedIsRecovery == Spec => []OnlyPausablePaused
<1>1. IInv => OnlyPausablePaused
  BY DEF IInv, Bookkeeping
<1> QED
  BY <1>1, IInvAlways, PTL

-----------------------------------------------------------------------------
(* The registry implements the readers-writer lock.                        *)

LockHeld == {<<j, access[j]>> : j \in {k \in Job : Holds(k) /\ Steady(k)}}

(* A step that changes no holder, no mode and no kind is a stutter. *)
LEMMA SameHolders ==
  ASSUME TypeOK,
         \A j \in Job : Holds(j)' /\ kind'[j] # "RestoreEverything"
                          <=> Holds(j) /\ Steady(j),
         \A j \in Job : Holds(j) => access'[j] = access[j]
  PROVE  LockHeld' = LockHeld
BY DEF LockHeld, Steady

LEMMA LockStep == IInv /\ [Next]_vars => [Lock!Next]_LockHeld
<1> SUFFICES ASSUME IInv, [Next]_vars
             PROVE  Lock!Next \/ LockHeld' = LockHeld
  BY DEF LockHeld, Lock!Next, Lock!Acquire, Lock!Release
<1> USE DEF Holds
<1>1. TypeOK /\ Bookkeeping /\ WaitsOnce
  BY DEF IInv
<1>2. CASE PumpStart
  <2>1. PICK i \in DOMAIN queue :
          /\ queue[i] \in Job
          /\ Admissible(i)
          /\ Becomes(queue[i], "Running")
          /\ UNCHANGED <<kind, access>>
    BY <1>1, <1>2, PumpEffect, UpdateBecomes
  <2>2. ~Holds(queue[i])
    BY <1>1, <2>1 DEF WaitsOnce
  <2>3. CASE ~Steady(queue[i])
    BY <1>1, <2>1, <2>2, <2>3, SameHolders DEF Becomes, Steady
  <2>4. CASE Steady(queue[i])
    <3>1. LockHeld' = LockHeld \cup {<<queue[i], access[queue[i]]>>}
      BY <2>1, <2>2, <2>4 DEF LockHeld, Becomes, Steady
    <3>2. \A h \in LockHeld : h[1] # queue[i] /\ Compatible(h[2], access[queue[i]])
      BY <1>1, <2>1, <2>2, AdmittedIsCompatible DEF LockHeld
    <3>3. access[queue[i]] \in RepoAccess
      BY <1>1, <2>1 DEF TypeOK
    <3> QED
      BY <2>1, <3>1, <3>2, <3>3 DEF LockHeld, Lock!Next, Lock!Acquire,
         Lock!Compatible, Compatible, Lock!RepoAccess
  <2> QED
    BY <2>3, <2>4
<1>3. CASE UNCHANGED <<kind, access, state, run>>
  BY <1>3 DEF LockHeld, Steady
<1>4. CASE Submitted
  BY <1>1, <1>4, SameHolders DEF Submitted, Becomes, Steady
<1>5. ASSUME NEW j \in Job, Transitioned(j)
      PROVE  Lock!Next \/ LockHeld' = LockHeld
  <2>1. PICK s \in JobState \ {"Running"} :
          CanTransition(state[j], s) /\ Becomes(j, s)
    BY <1>5 DEF Transitioned
  <2>2. UNCHANGED <<kind, access>>
    BY <1>5 DEF Transitioned
  <2>3. s = "Cancelling" => state[j] = "Running" \/ ~Steady(j)
    BY <1>1, <2>1, TransitionsToHolding DEF Bookkeeping, OnlyPausablePaused
  <2>4. CASE s = "Cancelling" \/ ~Holds(j) \/ ~Steady(j)
    BY <1>1, <2>1, <2>2, <2>3, <2>4, SameHolders DEF Becomes, Steady
  <2>5. CASE s # "Cancelling" /\ Holds(j) /\ Steady(j)
    <3>1. <<j, access[j]>> \in LockHeld
      BY <2>5 DEF LockHeld
    <3>2. LockHeld' = LockHeld \ {<<j, access[j]>>}
      BY <2>1, <2>2, <2>5 DEF LockHeld, Becomes, Steady
    <3> QED
      BY <3>1, <3>2 DEF LockHeld, Lock!Next, Lock!Release
  <2> QED
    BY <2>4, <2>5
<1> QED
  BY <1>1, <1>2, <1>3, <1>4, <1>5, StateEffect

(* Every behaviour of the registry is one of a readers-writer lock: a job  *)
(* that cannot be paused acquires the repository once, beside compatible   *)
(* holders only, keeps its mode, and releases it.                          *)
THEOREM Refinement == Spec => LockSpec
<1>1. Init => Lock!Init
  BY DEF Init, Lock!Init, Holds
<1>2. IInv /\ [Next]_vars => [Lock!Next]_LockHeld
  BY LockStep
<1> QED
  BY <1>1, <1>2, IInvAlways, PTL DEF Spec, LockSpec, Lock!Spec, LockHeld
-----------------------------------------------------------------------------
(* A Borg and its readers. *)
\* A pipe and a stream hold something.
Sizes == Units \in Nat /\ Pipe \in Nat \ {0} /\ Channel \in Nat \ {0}

(* What a sequence is made of. *)

LEMMA RangeOfNone == B!ToSet(<<>>) = {}
BY DEF B!ToSet

LEMMA RangeOfAppend ==
  ASSUME NEW S, NEW s \in Seq(S), NEW e \in S
  PROVE  /\ B!ToSet(Append(s, e)) = B!ToSet(s) \cup {e}
         /\ Append(s, e) \in Seq(S) /\ Len(Append(s, e)) = Len(s) + 1
<1>1. /\ Append(s, e) \in Seq(S) /\ Len(Append(s, e)) = Len(s) + 1 /\ Len(s) \in Nat
      /\ DOMAIN s = 1 .. Len(s) /\ DOMAIN Append(s, e) = 1 .. Len(s) + 1
      /\ \A i \in 1 .. Len(s) : Append(s, e)[i] = s[i]
      /\ Append(s, e)[Len(s) + 1] = e
  OBVIOUS
<1>2. ASSUME NEW x \in B!ToSet(Append(s, e)) PROVE x \in B!ToSet(s) \cup {e}
  <2>1. PICK i \in 1 .. Len(s) + 1 : x = Append(s, e)[i]
    BY <1>1, <1>2 DEF B!ToSet
  <2>2. CASE i = Len(s) + 1
    BY <1>1, <2>1, <2>2
  <2>3. CASE i \in 1 .. Len(s)
    BY <1>1, <2>1, <2>3 DEF B!ToSet
  <2> QED
    BY <1>1, <2>2, <2>3
<1>3. ASSUME NEW x \in B!ToSet(s) \cup {e} PROVE x \in B!ToSet(Append(s, e))
  <2>1. CASE x = e
    <3>1. Len(s) + 1 \in DOMAIN Append(s, e)
      BY <1>1
    <3> QED
      BY <1>1, <2>1, <3>1 DEF B!ToSet
  <2>2. CASE x \in B!ToSet(s)
    <3>1. PICK i \in 1 .. Len(s) : x = s[i]
      BY <1>1, <2>2 DEF B!ToSet
    <3>2. i \in DOMAIN Append(s, e) /\ Append(s, e)[i] = x
      BY <1>1, <3>1
    <3> QED
      BY <3>2 DEF B!ToSet
  <2> QED
    BY <1>3, <2>1, <2>2
<1> QED
  BY <1>1, <1>2, <1>3

LEMMA RangeOfTail ==
  ASSUME NEW S, NEW s \in Seq(S), s # <<>>
  PROVE  /\ B!ToSet(s) = {Head(s)} \cup B!ToSet(Tail(s))
         /\ Head(s) \in S /\ Tail(s) \in Seq(S) /\ Len(Tail(s)) = Len(s) - 1
<1>1. /\ Head(s) \in S /\ Tail(s) \in Seq(S) /\ Len(Tail(s)) = Len(s) - 1
      /\ Len(s) \in Nat \ {0} /\ Head(s) = s[1]
      /\ DOMAIN s = 1 .. Len(s) /\ DOMAIN Tail(s) = 1 .. Len(s) - 1
      /\ \A i \in 1 .. Len(s) - 1 : Tail(s)[i] = s[i + 1]
  OBVIOUS
<1>2. ASSUME NEW x \in B!ToSet(s) PROVE x \in {Head(s)} \cup B!ToSet(Tail(s))
  <2>1. PICK i \in 1 .. Len(s) : x = s[i]
    BY <1>1, <1>2 DEF B!ToSet
  <2>2. CASE i = 1
    BY <1>1, <2>1, <2>2
  <2>3. CASE i # 1
    <3>1. i - 1 \in 1 .. Len(s) - 1 /\ Tail(s)[i - 1] = x
      BY <1>1, <2>1, <2>3
    <3> QED
      BY <1>1, <3>1 DEF B!ToSet
  <2> QED
    BY <2>2, <2>3
<1>3. ASSUME NEW x \in {Head(s)} \cup B!ToSet(Tail(s)) PROVE x \in B!ToSet(s)
  <2>1. CASE x = Head(s)
    BY <1>1, <2>1 DEF B!ToSet
  <2>2. CASE x \in B!ToSet(Tail(s))
    <3>1. PICK i \in 1 .. Len(s) - 1 : x = Tail(s)[i]
      BY <1>1, <2>2 DEF B!ToSet
    <3>2. i + 1 \in 1 .. Len(s) /\ s[i + 1] = x
      BY <1>1, <3>1
    <3> QED
      BY <1>1, <3>2 DEF B!ToSet
  <2> QED
    BY <1>3, <2>1, <2>2
<1> QED
  BY <1>1, <1>2, <1>3

-----------------------------------------------------------------------------
(* What is said, and what it is taken for. *)

LEMMA CausesAre ==
  B!Causes = {"PassphraseWrong", "AuthFailed", "DestinationUnwritable", "RepoUnreachable",
            "LockedByOther", "RepoCorrupt", "BorgFailed"}
BY DEF B!Causes, B!Says

LEMMA RangeOfOne == ASSUME NEW x PROVE B!ToSet(<<x>>) = {x}
BY DEF B!ToSet

LEMMA RangeOfTwo == ASSUME NEW x, NEW y PROVE B!ToSet(<<x, y>>) = {x, y}
BY DEF B!ToSet

LEMMA SaysAre ==
  /\ B!Says["PassphraseWrong"] = <<"passphrase">> /\ B!Says["AuthFailed"] = <<"denied", "closed">>
  /\ B!Says["DestinationUnwritable"] = <<"no lock for want of permission">>
  /\ B!Says["RepoUnreachable"] = <<"closed">> /\ B!Says["LockedByOther"] = <<"no lock">>
  /\ B!Says["RepoCorrupt"] = <<"inconsistent">> /\ B!Says["BorgFailed"] = <<"other">>
BY DEF B!Says

LEMMA SaysSets ==
  /\ B!ToSet(B!Says["PassphraseWrong"]) = {"passphrase"}
  /\ B!ToSet(B!Says["AuthFailed"]) = {"denied", "closed"}
  /\ B!ToSet(B!Says["DestinationUnwritable"]) = {"no lock for want of permission"}
  /\ B!ToSet(B!Says["RepoUnreachable"]) = {"closed"}
  /\ B!ToSet(B!Says["LockedByOther"]) = {"no lock"}
  /\ B!ToSet(B!Says["RepoCorrupt"]) = {"inconsistent"}
  /\ B!ToSet(B!Says["BorgFailed"]) = {"other"}
BY SaysAre, RangeOfOne, RangeOfTwo

(* The first of six. *)
LEMMA FirstOfSix ==
  ASSUME NEW F \in SUBSET (1 .. 6), NEW n \in F, \A m \in F : n <= m
  PROVE  B!Min(F) = n
<1>1. B!Min(F) \in F /\ \A m \in F : B!Min(F) <= m
  BY DEF B!Min
<1>2. B!Min(F) <= n /\ n <= B!Min(F) /\ B!Min(F) \in 1 .. 6 /\ n \in 1 .. 6
  BY <1>1
<1> QED
  BY <1>2

LEMMA OrderIs ==
  /\ DOMAIN B!Order = {1, 2, 3, 4, 5, 6}
  /\ B!Order[1] = "PassphraseWrong" /\ B!Order[2] = "AuthFailed"
  /\ B!Order[3] = "DestinationUnwritable" /\ B!Order[4] = "RepoUnreachable"
  /\ B!Order[5] = "LockedByOther" /\ B!Order[6] = "RepoCorrupt"
BY DEF B!Order

LEMMA FitsAre ==
  /\ B!Fits["PassphraseWrong"] = {"passphrase"} /\ B!Fits["AuthFailed"] = {"denied"}
  /\ B!Fits["DestinationUnwritable"] = {"no lock for want of permission"}
  /\ B!Fits["RepoUnreachable"] = {"closed"}
  /\ B!Fits["LockedByOther"] = {"no lock", "no lock for want of permission"}
  /\ B!Fits["RepoCorrupt"] = {"inconsistent"}
BY DEF B!Fits

(* The kinds are looked for one after another. *)
LEMMA ClassifiedIs ==
  ASSUME NEW lines
  PROVE  B!Classified(lines) =
           IF "passphrase" \in lines THEN "PassphraseWrong"
           ELSE IF "denied" \in lines THEN "AuthFailed"
           ELSE IF "no lock for want of permission" \in lines THEN "DestinationUnwritable"
           ELSE IF "closed" \in lines THEN "RepoUnreachable"
           ELSE IF "no lock" \in lines THEN "LockedByOther"
           ELSE IF "inconsistent" \in lines THEN "RepoCorrupt" ELSE "BorgFailed"
<1> DEFINE found == {i \in {1, 2, 3, 4, 5, 6} : B!Fits[B!Order[i]] \cap lines # {}}
<1>1. B!Classified(lines) = IF found = {} THEN "BorgFailed" ELSE B!Order[B!Min(found)]
  BY OrderIs DEF B!Classified
<1>2. found \in SUBSET (1 .. 6) /\ found \subseteq {1, 2, 3, 4, 5, 6}
  OBVIOUS
<1>3. \A i \in {1, 2, 3, 4, 5, 6} : i \in found <=> B!Fits[B!Order[i]] \cap lines # {}
  OBVIOUS
<1> HIDE DEF found
<1>4. /\ 1 \in found <=> {"passphrase"} \cap lines # {}
      /\ 2 \in found <=> {"denied"} \cap lines # {}
      /\ 3 \in found <=> {"no lock for want of permission"} \cap lines # {}
      /\ 4 \in found <=> {"closed"} \cap lines # {}
      /\ 5 \in found <=> {"no lock", "no lock for want of permission"} \cap lines # {}
      /\ 6 \in found <=> {"inconsistent"} \cap lines # {}
  BY ZenonT(60), <1>3, OrderIs, FitsAre
<1>5. \A x, y : ({x} \cap lines # {} <=> x \in lines)
               /\ ({x, y} \cap lines # {} <=> x \in lines \/ y \in lines)
  OBVIOUS
<1>6. /\ 1 \in found <=> "passphrase" \in lines
      /\ 2 \in found <=> "denied" \in lines
      /\ 3 \in found <=> "no lock for want of permission" \in lines
      /\ 4 \in found <=> "closed" \in lines
      /\ 5 \in found <=> "no lock" \in lines \/ "no lock for want of permission" \in lines
      /\ 6 \in found <=> "inconsistent" \in lines
  BY <1>4, <1>5
<1>7. ASSUME NEW n \in {1, 2, 3, 4, 5, 6}, n \in found,
             \A m \in {1, 2, 3, 4, 5, 6} : m < n => m \notin found
      PROVE  B!Classified(lines) = B!Order[n]
  <2>1. \A m \in found : n <= m
    BY <1>2, <1>7
  <2>2. B!Min(found) = n
    BY <1>2, <1>7, <2>1, FirstOfSix
  <2> QED
    BY <1>1, <1>7, <2>2
<1>8. CASE found = {}
  BY <1>1, <1>6, <1>8
<1>9. ASSUME found # {}
      PROVE  1 \in found \/ 2 \in found \/ 3 \in found \/ 4 \in found \/ 5 \in found \/ 6 \in found
  BY <1>2, <1>9
<1>10. /\ 1 \in found => B!Classified(lines) = "PassphraseWrong"
       /\ 1 \notin found /\ 2 \in found => B!Classified(lines) = "AuthFailed"
       /\ 1 \notin found /\ 2 \notin found /\ 3 \in found => B!Classified(lines) = "DestinationUnwritable"
  BY <1>7, OrderIs
<1>11. ASSUME 1 \notin found, 2 \notin found, 3 \notin found
       PROVE  /\ 4 \in found => B!Classified(lines) = "RepoUnreachable"
              /\ 4 \notin found /\ 5 \in found => B!Classified(lines) = "LockedByOther"
              /\ 4 \notin found /\ 5 \notin found /\ 6 \in found => B!Classified(lines) = "RepoCorrupt"
  BY <1>7, <1>11, OrderIs
<1> QED
  BY <1>6, <1>8, <1>9, <1>10, <1>11

LEMMA ClassifiedType == \A lines : B!Classified(lines) \in B!Causes
BY Zenon, ClassifiedIs, CausesAre

(* Each cause is known by the lines that Borg and ssh have for it. *)
LEMMA ClassifiedNames == \A c \in B!Causes : B!Classified(B!ToSet(B!Says[c])) = c
<1>1. /\ B!Classified({"passphrase"}) = "PassphraseWrong"
      /\ B!Classified({"denied", "closed"}) = "AuthFailed"
      /\ B!Classified({"no lock for want of permission"}) = "DestinationUnwritable"
  BY ClassifiedIs
<1>2. /\ B!Classified({"closed"}) = "RepoUnreachable" /\ B!Classified({"no lock"}) = "LockedByOther"
  BY ClassifiedIs
<1>3. /\ B!Classified({"inconsistent"}) = "RepoCorrupt" /\ B!Classified({"other"}) = "BorgFailed"
  BY ClassifiedIs
<1> QED
  BY ZenonT(60), <1>1, <1>2, <1>3, SaysSets, CausesAre

LEMMA VerdictType ==
  ASSUME NEW code, NEW lines
  PROVE  /\ B!Verdict(code, lines) \in B!Causes \cup {"ok"}
         /\ B!Verdict(code, lines) = "ok" => code = "success" \/ (code = "warning" /\ use # "check")
<1>1. B!Classified(lines) \in B!Causes /\ "ok" \notin B!Causes /\ "RepoCorrupt" \in B!Causes
  BY ClassifiedType, CausesAre
<1> QED
  BY <1>1 DEF B!Verdict

Lines == {"item", "passphrase", "denied", "closed", "no lock for want of permission", "no lock",
          "inconsistent", "other"}
Verdicts == B!Causes \cup {"ok"}
BorgStates ==
  [at: {"taking", "working", "failing", "giving up", "exited"}, wrote: Nat,
   code: {"none", "success", "warning", "error", "killed"}, cause: B!Causes \cup {"none", "told"},
   saying: Seq(Lines), told: BOOLEAN, hung: BOOLEAN]
Readers ==
  [at: {"none", "reading", "draining", "stopping", "reporting", "done"}, line: Lines \cup {"none"}]

-----------------------------------------------------------------------------
(* The type invariant, of the whole of the state and with the sequences.   *)
ProcessOK == use \in B!Uses /\ child \in BorgStates /\ out \in Nat /\ out <= Pipe
PipesOK == err \in Seq(Lines) /\ Len(err) <= Pipe /\ heard \subseteq Lines
ReaderOK ==
  /\ reader \in Readers
  /\ stream \in Seq(Verdicts \cup {"event"}) /\ Len(stream) <= Channel /\ grace \in BOOLEAN
OwnerOK ==
  /\ listener \in {"waits", "lets go", "done"} /\ got \in Nat
  /\ outcome \in Verdicts \cup {"none"} /\ catalogued \in {"no", "rolled back", "committed"}

-----------------------------------------------------------------------------
(* The inductive invariant.                                                *)

(* How far Borg is, and what it has said of it.                            *)
Phases ==
  /\ child.code = "none" <=> child.at \in {"taking", "working"}
  /\ child.code = "none" => child.cause = "none"
  /\ child.code \in {"success", "warning"} => child.wrote = Units
  /\ child.at = "failing" => child.code = "error"
  /\ child.saying # <<>> => child.at = "failing" \/ child.code = "killed"
  /\ child.code = "killed" => child.at = "exited"

(* What Borg wrote is on its way or arrived.                               *)
Counted ==
  /\ got + out <= child.wrote /\ child.wrote <= Units
  /\ B!ToOutput /\ listener # "lets go" => got + out = child.wrote

(* Only what writes to its output has any there.                           *)
Piped == ~B!ToOutput => out = 0

(* Who has a reader.                                                       *)
ReaderFits ==
  /\ B!Streamed => reader.at \in {"reading", "draining", "stopping", "reporting", "done"}
  /\ use = "file" => reader.at \in {"reading", "done"}
  /\ use \in {"listing", "command"} => reader.at = "none"
  /\ reader.at = "reporting" => ~B!Runs

(* Borg is told to stop by those who have let go of it, and by no other.   *)
ToldByLettingGo ==
  listener # "lets go" =>
    ~child.told /\ ~grace /\ reader.at # "stopping" /\ child.code # "killed" /\ child.cause # "told"

(* Nothing is said of the end before it has come.                          *)
EndsAreSo ==
  /\ \A last \in B!ToSet(stream) \ {"event"} :
       ~B!Runs /\ B!Streamed /\ reader.at = "done" /\ last = B!Verdict(child.code, heard)
  /\ listener # "done" => outcome = "none" /\ catalogued # "committed"
  /\ listener = "done" =>
       /\ ~B!Runs /\ out = 0
       /\ B!HasReader => reader.at = "done"
       /\ use = "command" => err = <<>>
       /\ IF use = "listing" THEN outcome = "ok"
          ELSE outcome = B!Verdict(child.code, heard) /\ catalogued # "committed"

(* A listing does not end in an error.                                     *)
ListingsEnd ==
  use = "listing" /\ listener # "lets go" =>
    child.code \in {"none", "success", "warning"} /\ child.cause = "none"

(* Each line of Borg's is still to be said, on its way or kept.            *)
Evidence == IF child.cause \in B!Causes THEN B!ToSet(B!Says[child.cause]) ELSE {}
NothingIsLost ==
  listener # "lets go" /\ use # "listing" =>
    /\ heard \cup B!ToSet(err) \cup B!ToSet(child.saying) \cup {"item"} = {"item"} \cup Evidence
    /\ "item" \notin heard

(* A reader stops at the end of what is said, unless the result is not     *)
(* wanted any more.                                                        *)
ReadToTheEnd ==
  listener # "lets go" /\ reader.at \in {"reporting", "done"} => err = <<>> /\ ~B!Runs

(* Who stops reading leaves room for what Borg has to say yet.             *)
LastLines ==
  IF child.at = "failing" THEN Len(child.saying)
  ELSE IF child.at \in {"taking", "working"} THEN 1 ELSE 0
RoomIsLeft ==
  /\ reader.at # "draining"
  /\ reader.at = "stopping" /\ B!Runs => child.told /\ Len(err) + LastLines <= Pipe

LEMMA SaysType ==
  ASSUME NEW c \in B!Causes
  PROVE  B!Says[c] \in Seq(Lines) /\ B!ToSet(B!Says[c]) \subseteq Lines \ {"item"}
<1>1. B!ToSet(B!Says[c]) \subseteq Lines \ {"item"}
  BY SaysSets, CausesAre DEF Lines
<1>2. B!Says[c] \in Seq(Lines)
  <2>1. \A x \in Lines : <<x>> \in Seq(Lines)
    OBVIOUS
  <2>2. \A x, y \in Lines : <<x, y>> \in Seq(Lines)
    OBVIOUS
  <2>3. \/ B!Says[c] = <<"denied", "closed">>
        \/ \E x \in {"passphrase", "no lock for want of permission", "closed", "no lock",
                     "inconsistent", "other"} : B!Says[c] = <<x>>
    BY Zenon, SaysAre, CausesAre
  <2> QED
    BY <2>1, <2>2, <2>3 DEF Lines
<1> QED
  BY <1>1, <1>2

LEMMA EvidenceIs == \A line \in Lines : B!IsEvidence(line) <=> line # "item"
<1>1. UNION {B!ToSet(B!Says[c]) : c \in B!Causes} = Lines \ {"item"}
  <2>1. \A x \in Lines \ {"item"} : \E c \in B!Causes : x \in B!ToSet(B!Says[c])
    BY SaysSets, CausesAre DEF Lines
  <2>2. \A c \in B!Causes : B!ToSet(B!Says[c]) \subseteq Lines \ {"item"}
    BY SaysType
  <2> QED
    BY <2>1, <2>2
<1> QED
  BY <1>1 DEF B!IsEvidence, B!FromSsh, Lines

-----------------------------------------------------------------------------
(* Each part is kept by every step. *)
TypeInv == ProcessOK /\ PipesOK /\ ReaderOK /\ OwnerOK

LEMMA ProcessStep ==
  ASSUME Sizes, TypeInv, [B!Next]_(B!vars)
  PROVE  ProcessOK'
<1>1. CASE B!Writes
  <2>1. child \in BorgStates /\ use' = use /\ use \in B!Uses /\ out \in Nat /\ out <= Pipe
    BY <1>1 DEF B!Writes, B!ours, TypeInv, ProcessOK
  <2>2. \/ child' = [child EXCEPT !.at = "giving up", !.code = "error", !.cause = "BorgFailed"]
        \/ child' = [child EXCEPT !.wrote = child.wrote + 1]
    BY <1>1 DEF B!Writes
  <2>3. child' \in BorgStates
    <3>1. child.wrote + 1 \in Nat
      <4>1. child.wrote \in Nat
        BY <2>1 DEF BorgStates
      <4> QED
        BY <4>1
    <3>2. "BorgFailed" \in B!Causes
      BY CausesAre
    <3> QED
      BY <2>1, <2>2, <3>1, <3>2 DEF BorgStates
  <2>4. out' \in Nat /\ out' <= Pipe
    <3>1. out' = out \/ (out' = out + 1 /\ out < Pipe)
      BY <1>1 DEF B!Writes
    <3> QED
      BY <2>1, <3>1 DEF Sizes
  <2> QED
    BY <2>1, <2>3, <2>4 DEF ProcessOK
<1>2. ASSUME NEW cause \in B!Causes, B!Fails(cause) PROVE ProcessOK'
  <2>1. /\ child \in BorgStates /\ UNCHANGED <<use, out>>
        /\ child' = [child EXCEPT !.at = "failing", !.code = "error", !.cause = cause,
                                !.saying = B!Says[cause]]
    BY <1>2 DEF B!Fails, B!ours, TypeInv, ProcessOK
  <2>2. child' \in BorgStates
    BY <2>1, SaysType DEF BorgStates
  <2> QED
    BY <2>1, <2>2 DEF TypeInv, ProcessOK
<1>3. CASE B!SaysWhy
  <2>1. child \in BorgStates /\ UNCHANGED <<use, out>>
    BY <1>3 DEF B!SaysWhy, B!ours, TypeInv, ProcessOK
  <2>2. \/ child' = [child EXCEPT !.at = "giving up"]
        \/ child.saying # <<>> /\ child' = [child EXCEPT !.saying = Tail(child.saying)]
    BY <1>3 DEF B!SaysWhy
  <2>3. child.saying # <<>> => Tail(child.saying) \in Seq(Lines)
    BY <2>1, RangeOfTail DEF BorgStates
  <2>4. child' \in BorgStates
    BY <2>1, <2>2, <2>3 DEF BorgStates
  <2> QED
    BY <2>1, <2>4 DEF TypeInv, ProcessOK
<1>4. CASE B!TakesOutput
  <2>1. out \in Nat /\ out <= Pipe /\ out > 0 /\ out' = out - 1
    BY <1>4 DEF B!TakesOutput, TypeInv, ProcessOK
  <2>2. out' \in Nat /\ out' <= Pipe
    BY <2>1 DEF Sizes
  <2> QED
    BY <1>4, <2>2 DEF B!TakesOutput, B!world, TypeInv, ProcessOK
<1>5. ASSUME NEW shutdown \in BOOLEAN, B!LetsGo(shutdown) PROVE ProcessOK'
  <2>1. child \in BorgStates /\ use' = use /\ out' \in {0, out}
    BY <1>5 DEF B!LetsGo, B!world, TypeInv, ProcessOK
  <2>2. child' = B!Kill(child) \/ child' = child \/ child' = [child EXCEPT !.told = B!Runs]
    BY <1>5 DEF B!LetsGo
  <2>3. child' \in BorgStates
    BY <2>1, <2>2 DEF BorgStates, B!Kill, B!Runs
  <2> QED
    BY <2>1, <2>3 DEF TypeInv, ProcessOK, Sizes
<1>6. ASSUME \/ B!TakesLock
             \/ (\E code \in {"success", "warning"} : B!Finishes(code)) \/ B!Stops
             \/ B!GivesUpLock \/ B!Hangs \/ (\E text \in BOOLEAN : B!TakesLine(text))
             \/ B!PassesOn \/ B!SeesCancel \/ B!SeesEnd \/ B!SeesItStopped \/ B!Reports
             \/ B!GraceIsOver \/ B!TakesEvent \/ B!Collects \/ B!HearsVerdict
             \/ B!ListingEnds \/ UNCHANGED B!vars
      PROVE  ProcessOK'
  BY ZenonT(60), <1>6 DEF B!TakesLock, B!Finishes, B!Stops, B!GivesUpLock,
      B!Hangs, B!TakesLine, B!PassesOn,
       B!SeesCancel, B!SeesEnd, B!SeesItStopped, B!Reports, B!GraceIsOver,
       B!TakesEvent,
       B!Collects, B!HearsVerdict, B!ListingEnds, B!vars, ProcessOK, BorgStates,
       TypeInv, B!ours,
       B!process, B!world, B!Runs, B!Streamed, B!ToOutput, B!HasReader,
       B!Kill
<1> QED
  BY <1>1, <1>2, <1>3, <1>4, <1>5, <1>6 DEF B!Next, B!Borg, B!Reader, B!Owner

LEMMA PipesStep ==
  ASSUME Sizes, TypeInv, [B!Next]_(B!vars)
  PROVE  PipesOK'
<1>1. CASE B!Writes
  <2>1. err \in Seq(Lines) /\ heard' = heard /\ "item" \in Lines
    BY <1>1 DEF B!Writes, B!ours, TypeInv, PipesOK, Lines
  <2>2. err' = err \/ (err' = Append(err, "item") /\ Len(err) < Pipe)
    BY <1>1 DEF B!Writes
  <2> QED
    BY <2>1, <2>2, RangeOfAppend DEF PipesOK, TypeInv, Sizes
<1>2. CASE B!SaysWhy
  <2>1. err \in Seq(Lines) /\ heard' = heard /\ child.saying \in Seq(Lines)
    BY <1>2 DEF B!SaysWhy, B!ours, TypeInv, PipesOK, ProcessOK, BorgStates
  <2>2. \/ err' = err
        \/ child.saying # <<>> /\ err' = Append(err, Head(child.saying)) /\ Len(err) < Pipe
    BY <1>2 DEF B!SaysWhy, B!Said, B!RoomToSay
  <2>3. child.saying # <<>> => Head(child.saying) \in Lines
    BY <2>1, RangeOfTail
  <2> QED
    BY <2>1, <2>2, <2>3, RangeOfAppend DEF PipesOK, TypeInv, Sizes
<1>3. CASE B!Stops
  <2>1. err \in Seq(Lines) /\ heard' = heard /\ "item" \in Lines
    BY <1>3 DEF B!Stops, B!ours, TypeInv, PipesOK, Lines
  <2>2. err' = err \/ (err' = Append(err, "item") /\ Len(err) < Pipe)
    BY <1>3 DEF B!Stops, B!Said, B!RoomToSay
  <2> QED
    BY <2>1, <2>2, RangeOfAppend DEF PipesOK, TypeInv, Sizes
<1>4. ASSUME NEW text \in BOOLEAN, B!TakesLine(text) PROVE PipesOK'
  <2>1. err \in Seq(Lines) /\ err # <<>> /\ err' = Tail(err) /\ heard' \subseteq heard \cup {Head(err)}
    BY <1>4 DEF B!TakesLine, TypeInv, PipesOK
  <2>2. Head(err) \in Lines /\ Tail(err) \in Seq(Lines) /\ Len(Tail(err)) <= Pipe
    BY <2>1, RangeOfTail DEF TypeInv, PipesOK, Sizes
  <2> QED
    BY <2>1, <2>2 DEF TypeInv, PipesOK
<1>5. CASE B!Collects
  <2>1. err \in Seq(Lines) /\ err # <<>> /\ err' = Tail(err) /\ heard' \subseteq heard \cup {Head(err)}
    BY <1>5 DEF B!Collects, TypeInv, PipesOK
  <2>2. Head(err) \in Lines /\ Tail(err) \in Seq(Lines) /\ Len(Tail(err)) <= Pipe
    BY <2>1, RangeOfTail DEF TypeInv, PipesOK, Sizes
  <2> QED
    BY <2>1, <2>2 DEF TypeInv, PipesOK
<1>6. ASSUME \/ B!TakesLock
             \/ (\E code \in {"success", "warning"} : B!Finishes(code))
             \/ (\E cause \in B!Causes : B!Fails(cause)) \/ B!GivesUpLock \/ B!Hangs
             \/ B!PassesOn \/ B!SeesCancel \/ B!SeesEnd \/ B!SeesItStopped \/ B!Reports
             \/ B!GraceIsOver \/ B!TakesEvent \/ B!TakesOutput \/ B!HearsVerdict
             \/ B!ListingEnds \/ (\E shutdown \in BOOLEAN : B!LetsGo(shutdown))
             \/ UNCHANGED B!vars
      PROVE  PipesOK'
  BY <1>6 DEF B!TakesLock, B!Finishes, B!Fails, B!GivesUpLock, B!Hangs,
      B!PassesOn, B!SeesCancel,
       B!SeesEnd, B!SeesItStopped, B!Reports, B!GraceIsOver, B!TakesEvent,
       B!TakesOutput,
       B!HearsVerdict, B!ListingEnds, B!LetsGo, B!vars, PipesOK, TypeInv,
       B!ours, B!process,
       B!world, B!Runs, B!Streamed, B!ToOutput, B!HasReader, B!Kill
<1> QED
  BY <1>1, <1>2, <1>3, <1>4, <1>5, <1>6 DEF B!Next, B!Borg, B!Reader, B!Owner

LEMMA ReaderStep ==
  ASSUME Sizes, TypeInv, [B!Next]_(B!vars)
  PROVE  ReaderOK'
<1>1. ASSUME NEW text \in BOOLEAN, B!TakesLine(text) PROVE ReaderOK'
  <2>1. err \in Seq(Lines) /\ err # <<>> /\ reader \in Readers /\ UNCHANGED <<stream, grace>>
    BY <1>1 DEF B!TakesLine, TypeInv, PipesOK, ReaderOK
  <2>2. Head(err) \in Lines
    BY <2>1, RangeOfTail
  <2>3. \/ reader' = reader \/ reader' = [reader EXCEPT !.line = Head(err)]
        \/ reader' = [reader EXCEPT !.at = "draining"] \/ reader' = [reader EXCEPT !.at = "done"]
    BY <1>1 DEF B!TakesLine
  <2>4. reader' \in Readers
    BY <2>1, <2>2, <2>3 DEF Readers
  <2> QED
    BY <2>1, <2>4 DEF TypeInv, ReaderOK
<1>2. CASE B!PassesOn
  <2>1. /\ stream \in Seq(Verdicts \cup {"event"}) /\ reader \in Readers /\ grace' = grace
    BY <1>2 DEF B!PassesOn, TypeInv, ReaderOK
  <2>2. reader' \in Readers
    BY <1>2, <2>1 DEF B!PassesOn, Readers
  <2>3. "event" \in Verdicts \cup {"event"}
    BY VerdictType DEF Verdicts
  <2>4. \/ stream' = stream
        \/ (stream' = Append(stream, "event") /\ Len(stream) < Channel)
    BY <1>2 DEF B!PassesOn
  <2>5. stream' \in Seq(Verdicts \cup {"event"}) /\ Len(stream') <= Channel
    BY <2>1, <2>3, <2>4, RangeOfAppend DEF Sizes, TypeInv, ReaderOK
  <2> QED
    BY <2>1, <2>2, <2>5 DEF TypeInv, ReaderOK
<1>3. CASE B!Reports
  <2>1. /\ stream \in Seq(Verdicts \cup {"event"}) /\ reader \in Readers /\ grace' = grace
    BY <1>3 DEF B!Reports, TypeInv, ReaderOK
  <2>2. reader' \in Readers
    BY <1>3, <2>1 DEF B!Reports, Readers
  <2>3. B!Verdict(child.code, heard) \in Verdicts \cup {"event"}
    BY VerdictType DEF Verdicts
  <2>4. \/ stream' = stream
        \/ (stream' = Append(stream, B!Verdict(child.code, heard)) /\ Len(stream) < Channel)
    BY <1>3 DEF B!Reports
  <2>5. stream' \in Seq(Verdicts \cup {"event"}) /\ Len(stream') <= Channel
    BY <2>1, <2>3, <2>4, RangeOfAppend DEF Sizes, TypeInv, ReaderOK
  <2> QED
    BY <2>1, <2>2, <2>5 DEF TypeInv, ReaderOK
<1>4. CASE B!TakesEvent
  <2>1. stream # <<>> /\ stream' = Tail(stream) /\ UNCHANGED <<reader, grace>>
    BY <1>4 DEF B!TakesEvent
  <2> QED
    BY <2>1, RangeOfTail DEF TypeInv, ReaderOK, Sizes
<1>5. ASSUME NEW shutdown \in BOOLEAN, B!LetsGo(shutdown) PROVE ReaderOK'
  <2>0. <<>> \in Seq(Verdicts \cup {"event"}) /\ Len(<<>>) = 0
    OBVIOUS
  <2>1. stream' = <<>>
    BY <1>5 DEF B!LetsGo
  <2>2. grace' \in BOOLEAN /\ reader' \in Readers
    BY <1>5 DEF B!LetsGo, Readers, TypeInv, ReaderOK, B!Runs
  <2> QED
    BY <2>0, <2>1, <2>2 DEF ReaderOK, Sizes
<1>6. ASSUME \/ B!TakesLock \/ B!Writes
             \/ (\E code \in {"success", "warning"} : B!Finishes(code))
             \/ (\E cause \in B!Causes : B!Fails(cause)) \/ B!SaysWhy \/ B!Stops
             \/ B!GivesUpLock \/ B!Hangs \/ B!SeesCancel \/ B!SeesEnd \/ B!SeesItStopped
             \/ B!GraceIsOver \/ B!TakesOutput \/ B!Collects \/ B!HearsVerdict
             \/ B!ListingEnds \/ UNCHANGED B!vars
      PROVE  ReaderOK'
  BY <1>6 DEF B!TakesLock, B!Writes, B!Finishes, B!Fails, B!SaysWhy,
      B!Stops, B!GivesUpLock,
       B!Hangs, B!SeesCancel, B!SeesEnd, B!SeesItStopped, B!GraceIsOver,
       B!TakesOutput,
       B!Collects, B!HearsVerdict, B!ListingEnds, B!vars, ReaderOK, Readers,
       TypeInv,
       ProcessOK, BorgStates, B!ours, B!process, B!world, B!Runs, B!Streamed,
       B!ToOutput, B!HasReader,
       B!Kill
<1> QED
  BY <1>1, <1>2, <1>3, <1>4, <1>5, <1>6 DEF B!Next, B!Borg, B!Reader, B!Owner

LEMMA OwnerStep ==
  ASSUME Sizes, TypeInv, [B!Next]_(B!vars)
  PROVE  OwnerOK'
<1>1. CASE B!TakesEvent
  <2>1. stream \in Seq(Verdicts \cup {"event"}) /\ stream # <<>>
    BY <1>1 DEF B!TakesEvent, TypeInv, ReaderOK
  <2>2. Head(stream) \in Verdicts \cup {"event"}
    BY <2>1, RangeOfTail
  <2> QED
    BY <1>1, <2>2 DEF B!TakesEvent, TypeInv, OwnerOK
<1>2. CASE B!TakesOutput
  <2>1. got' = got + 1 /\ got \in Nat
    BY <1>2 DEF B!TakesOutput, TypeInv, OwnerOK
  <2>2. got' \in Nat
    BY <2>1
  <2> QED
    BY <1>2, <2>2 DEF B!TakesOutput, TypeInv, OwnerOK
<1>3. CASE B!HearsVerdict
  BY <1>3, VerdictType DEF B!HearsVerdict, TypeInv, OwnerOK, Verdicts
<1>4. ASSUME \/ B!TakesLock \/ B!Writes
             \/ (\E code \in {"success", "warning"} : B!Finishes(code))
             \/ (\E cause \in B!Causes : B!Fails(cause)) \/ B!SaysWhy \/ B!Stops
             \/ B!GivesUpLock \/ B!Hangs \/ (\E text \in BOOLEAN : B!TakesLine(text))
             \/ B!PassesOn \/ B!SeesCancel \/ B!SeesEnd \/ B!SeesItStopped \/ B!Reports
             \/ B!GraceIsOver \/ B!Collects \/ B!ListingEnds
             \/ (\E shutdown \in BOOLEAN : B!LetsGo(shutdown)) \/ UNCHANGED B!vars
      PROVE  OwnerOK'
  BY <1>4 DEF B!TakesLock, B!Writes, B!Finishes, B!Fails, B!SaysWhy,
      B!Stops, B!GivesUpLock,
       B!Hangs, B!TakesLine, B!PassesOn, B!SeesCancel, B!SeesEnd,
       B!SeesItStopped, B!Reports,
       B!GraceIsOver, B!Collects, B!ListingEnds, B!LetsGo, B!vars, OwnerOK,
       Verdicts, TypeInv,
       B!ours, B!process, B!world, B!Runs, B!Streamed, B!ToOutput,
       B!HasReader, B!Kill
<1> QED
  BY <1>1, <1>2, <1>3, <1>4 DEF B!Next, B!Borg, B!Reader, B!Owner

LEMMA StreamsInit == Sizes /\ B!Init => TypeInv
<1> SUFFICES ASSUME Sizes, B!Init PROVE TypeInv
  OBVIOUS
<1>1. <<>> \in Seq(Lines) /\ <<>> \in Seq(Verdicts \cup {"event"}) /\ Len(<<>>) = 0
  OBVIOUS
<1>2. child \in BorgStates
  BY <1>1 DEF B!Init, BorgStates
<1>3. ProcessOK
  BY <1>2 DEF B!Init, ProcessOK, Sizes
<1>4. PipesOK
  BY <1>1 DEF B!Init, PipesOK, Sizes
<1>5. ReaderOK
  <2>1. reader \in Readers /\ grace \in BOOLEAN /\ stream = <<>>
    BY DEF B!Init, Readers
  <2> QED
    BY <1>1, <2>1 DEF ReaderOK, Sizes
<1>6. OwnerOK
  BY DEF B!Init, OwnerOK
<1> QED
  BY <1>3, <1>4, <1>5, <1>6 DEF TypeInv

LEMMA StreamsStep == Sizes /\ TypeInv /\ [B!Next]_(B!vars) => TypeInv'
BY ProcessStep, PipesStep, ReaderStep, OwnerStep DEF TypeInv

LEMMA SequencesAre ==
  TypeInv => /\ child.saying \in Seq(Lines) /\ Len(child.saying) \in Nat
             /\ err \in Seq(Lines) /\ Len(err) \in Nat
<1>1. TypeInv => child.saying \in Seq(Lines) /\ err \in Seq(Lines)
  BY DEF TypeInv, ProcessOK, PipesOK, BorgStates
<1> QED
  BY <1>1

LEMMA PhasesStep ==
  ASSUME TypeInv, Phases, Counted, [B!Next]_(B!vars)
  PROVE  Phases'
<1>1. ASSUME \/ B!TakesLock \/ B!Writes
             \/ (\E code \in {"success", "warning"} : B!Finishes(code))
             \/ (\E cause \in B!Causes : B!Fails(cause)) \/ B!SaysWhy \/ B!Stops
             \/ B!GivesUpLock \/ B!Hangs \/ (\E text \in BOOLEAN : B!TakesLine(text))
             \/ B!PassesOn \/ B!SeesCancel \/ B!SeesEnd \/ B!SeesItStopped \/ B!Reports
             \/ B!GraceIsOver \/ B!TakesEvent \/ B!TakesOutput \/ B!Collects
             \/ B!HearsVerdict \/ B!ListingEnds
             \/ (\E shutdown \in BOOLEAN : B!LetsGo(shutdown)) \/ UNCHANGED B!vars
      PROVE  Phases'
  BY ZenonT(60), <1>1 DEF B!TakesLock, B!Writes, B!Finishes, B!Fails,
      B!SaysWhy, B!Stops, B!GivesUpLock,
       B!Hangs, B!TakesLine, B!PassesOn, B!SeesCancel, B!SeesEnd,
       B!SeesItStopped, B!Reports,
       B!GraceIsOver, B!TakesEvent, B!TakesOutput, B!Collects, B!HearsVerdict,
       B!ListingEnds,
       B!LetsGo, B!vars, Phases, TypeInv, ProcessOK, BorgStates, Phases, Counted,
       B!ours,
       B!process, B!world, B!Runs, B!Streamed, B!ToOutput, B!HasReader,
       B!Kill
<1> QED
  BY <1>1 DEF B!Next, B!Borg, B!Reader, B!Owner

LEMMA CountedStep ==
  ASSUME Sizes, TypeInv, Counted, [B!Next]_(B!vars)
  PROVE  Counted'
<1>1. CASE B!Writes
  <2>1. /\ out \in Nat /\ got \in Nat /\ child \in BorgStates /\ child.wrote \in Nat
        /\ UNCHANGED <<use, listener, got>>
    BY <1>1 DEF B!Writes, B!ours, TypeInv, ProcessOK, OwnerOK, BorgStates
  <2>2. \/ child'.wrote = child.wrote /\ out' = out
        \/ child.wrote < Units /\ child'.wrote = child.wrote + 1 /\ out' = out + 1
        \/ child.wrote < Units /\ child'.wrote = child.wrote + 1 /\ out' = out /\ ~B!ToOutput
    BY <1>1, <2>1 DEF B!Writes, BorgStates
  <2>3. B!ToOutput' = B!ToOutput
    BY <2>1 DEF B!ToOutput
  <2>4. got + out <= child.wrote /\ child.wrote <= Units /\ Units \in Nat /\ got' = got
    BY <2>1 DEF Counted, Sizes
  <2>5. got' + out' <= child'.wrote /\ child'.wrote <= Units
    BY <2>1, <2>2, <2>4
  <2>6. ASSUME B!ToOutput, listener # "lets go" PROVE got' + out' = child'.wrote
    <3>1. got + out = child.wrote
      BY <2>6 DEF Counted
    <3>2. \/ child'.wrote = child.wrote /\ out' = out
          \/ child'.wrote = child.wrote + 1 /\ out' = out + 1
      BY <2>2, <2>6
    <3> QED
      BY <2>1, <2>4, <3>1, <3>2
  <2> QED
    BY <2>1, <2>3, <2>5, <2>6 DEF Counted
<1>2. CASE B!TakesOutput
  <2>1. out \in Nat /\ got \in Nat /\ child.wrote \in Nat
    BY DEF TypeInv, ProcessOK, OwnerOK, BorgStates
  <2>2. out' = out - 1 /\ got' = got + 1 /\ UNCHANGED <<use, listener, child>>
    BY <1>2 DEF B!TakesOutput, B!world
  <2>3. B!ToOutput' = B!ToOutput
    BY <2>2 DEF B!ToOutput
  <2>4. got' + out' = got + out
    BY <2>1, <2>2
  <2> QED
    BY <2>2, <2>3, <2>4 DEF Counted
<1>3. ASSUME NEW shutdown \in BOOLEAN, B!LetsGo(shutdown) PROVE Counted'
  <2>1. out \in Nat /\ got \in Nat /\ child.wrote \in Nat
    BY DEF TypeInv, ProcessOK, OwnerOK, BorgStates
  <2>2. out' \in {0, out} /\ got' = got /\ listener' = "lets go" /\ child'.wrote = child.wrote
    BY <1>3 DEF B!LetsGo, B!Kill, TypeInv, ProcessOK, BorgStates
  <2>3. got' + out' <= child'.wrote
    <3>1. got + out <= child.wrote
      BY DEF Counted
    <3>2. CASE out' = out
      BY <2>2, <3>1, <3>2
    <3>3. CASE out' = 0
      <4>1. got <= child.wrote
        BY <2>1, <3>1
      <4>2. got' = got
        BY <2>2
      <4>3. got' + out' = got
        BY <2>1, <3>3, <4>2
      <4>4. child'.wrote = child.wrote
        BY <2>2
      <4> QED
        BY <4>1, <4>3, <4>4
    <3> QED
      BY <2>2, <3>2, <3>3
  <2> QED
    BY <2>2, <2>3 DEF Counted
<1>4. ASSUME \/ B!TakesLock
             \/ (\E code \in {"success", "warning"} : B!Finishes(code))
             \/ (\E cause \in B!Causes : B!Fails(cause)) \/ B!SaysWhy \/ B!Stops
             \/ B!GivesUpLock \/ B!Hangs \/ (\E text \in BOOLEAN : B!TakesLine(text))
             \/ B!PassesOn \/ B!SeesCancel \/ B!SeesEnd \/ B!SeesItStopped \/ B!Reports
             \/ B!GraceIsOver \/ B!TakesEvent \/ B!Collects \/ B!HearsVerdict
             \/ B!ListingEnds \/ UNCHANGED B!vars
      PROVE  Counted'
  BY ZenonT(60), <1>4 DEF B!TakesLock, B!Finishes, B!Fails, B!SaysWhy,
      B!Stops, B!GivesUpLock, B!Hangs,
       B!TakesLine, B!PassesOn, B!SeesCancel, B!SeesEnd, B!SeesItStopped,
       B!Reports,
       B!GraceIsOver, B!TakesEvent, B!Collects, B!HearsVerdict, B!ListingEnds,
       B!vars, Counted,
       TypeInv, ProcessOK, BorgStates, OwnerOK, Sizes, B!ours, B!process, B!world,
       B!Runs,
       B!Streamed, B!ToOutput, B!HasReader, B!Kill
<1> QED
  BY <1>1, <1>2, <1>3, <1>4 DEF B!Next, B!Borg, B!Reader, B!Owner

LEMMA PipedStep ==
  ASSUME TypeInv, Piped, [B!Next]_(B!vars)
  PROVE  Piped'
<1>1. ASSUME B!Borg \/ B!Hangs \/ (\E cause \in B!Causes : B!Fails(cause)) PROVE Piped'
  BY <1>1 DEF B!Borg, B!TakesLock, B!Writes, B!Finishes, B!Fails,
      B!SaysWhy, B!Stops, B!GivesUpLock, B!Hangs,
       B!ours, Piped, B!ToOutput
<1>2. ASSUME B!Reader PROVE Piped'
  BY <1>2 DEF B!Reader, B!TakesLine, B!PassesOn, B!SeesCancel, B!SeesEnd,
      B!SeesItStopped, B!Reports,
       B!GraceIsOver, B!process, Piped, B!ToOutput
<1>3. CASE B!TakesOutput
  <2>1. out > 0 /\ use' = use
    BY <1>3 DEF B!TakesOutput, B!world
  <2> QED
    BY <2>1 DEF Piped, B!ToOutput
<1>4. ASSUME B!TakesEvent \/ B!Collects \/ B!HearsVerdict \/ B!ListingEnds \/ UNCHANGED B!vars
             \/ \E shutdown \in BOOLEAN : B!LetsGo(shutdown)
      PROVE  Piped'
  BY <1>4 DEF B!TakesEvent, B!Collects, B!HearsVerdict, B!ListingEnds,
      B!LetsGo, B!world, B!vars, Piped,
       B!ToOutput
<1> QED
  BY <1>1, <1>2, <1>3, <1>4 DEF B!Next, B!Owner

LEMMA ReaderFitsStep ==
  ASSUME TypeInv, ReaderFits, [B!Next]_(B!vars)
  PROVE  ReaderFits'
<1>1. ASSUME \/ B!TakesLock \/ B!Writes
             \/ (\E code \in {"success", "warning"} : B!Finishes(code))
             \/ (\E cause \in B!Causes : B!Fails(cause)) \/ B!SaysWhy \/ B!Stops
             \/ B!GivesUpLock \/ B!Hangs
      PROVE  ReaderFits'
  BY <1>1 DEF B!TakesLock, B!Writes, B!Finishes, B!Fails, B!SaysWhy,
      B!Stops, B!GivesUpLock,
       B!Hangs, ReaderFits, TypeInv, ProcessOK, ReaderOK, Readers, B!Uses, BorgStates,
       B!ours,
       B!process, B!world, B!Runs, B!Streamed, B!ToOutput, B!HasReader,
       B!Kill
<1>2. ASSUME \/ (\E text \in BOOLEAN : B!TakesLine(text)) \/ B!PassesOn \/ B!SeesCancel
             \/ B!SeesEnd \/ B!SeesItStopped \/ B!Reports \/ B!GraceIsOver
      PROVE  ReaderFits'
  BY ZenonT(60), <1>2 DEF B!TakesLine, B!PassesOn, B!SeesCancel, B!SeesEnd,
      B!SeesItStopped, B!Reports,
       B!GraceIsOver, ReaderFits, TypeInv, ProcessOK, ReaderOK, Readers, B!Uses,
       BorgStates,
       B!ours, B!process, B!world, B!Runs, B!Streamed, B!ToOutput,
       B!HasReader, B!Kill
<1>3. ASSUME \/ B!TakesEvent \/ B!TakesOutput \/ B!Collects \/ B!HearsVerdict
             \/ B!ListingEnds \/ UNCHANGED B!vars
      PROVE  ReaderFits'
  BY <1>3 DEF B!TakesEvent, B!TakesOutput, B!Collects, B!HearsVerdict,
      B!ListingEnds, B!vars, ReaderFits,
       B!world, B!Runs, B!Streamed
<1>4. ASSUME NEW shutdown \in BOOLEAN, B!LetsGo(shutdown) PROVE ReaderFits'
  <2>1. use' = use /\ (B!Streamed => out' = out)
    BY <1>4 DEF B!LetsGo, B!world
  <2>2. \/ reader' = reader
        \/ B!Streamed /\ reader' = [at |-> "done", line |-> "none"]
    BY <1>4 DEF B!LetsGo
  <2>3. child.at = "exited" => child'.at = "exited"
    BY <1>4 DEF B!LetsGo, B!Kill, TypeInv, ProcessOK, BorgStates
  <2> QED
    BY <2>1, <2>2, <2>3 DEF ReaderFits, B!Streamed, B!Runs
<1> QED
  BY <1>1, <1>2, <1>3, <1>4 DEF B!Next, B!Borg, B!Reader, B!Owner

LEMMA ToldStep ==
  ASSUME TypeInv, ToldByLettingGo, Phases, [B!Next]_(B!vars)
  PROVE  ToldByLettingGo'
<1>1. ASSUME NEW cause \in B!Causes, B!Fails(cause) PROVE ToldByLettingGo'
  <2>1. cause # "told"
    BY CausesAre
  <2> QED
    BY <1>1, <2>1 DEF B!Fails, B!ours, ToldByLettingGo, Phases, TypeInv, ProcessOK,
        BorgStates
<1>2. ASSUME \/ B!TakesLock \/ B!Writes
             \/ (\E code \in {"success", "warning"} : B!Finishes(code)) \/ B!SaysWhy
             \/ B!Stops \/ B!GivesUpLock \/ B!Hangs
             \/ (\E text \in BOOLEAN : B!TakesLine(text)) \/ B!PassesOn \/ B!SeesCancel
             \/ B!SeesEnd \/ B!SeesItStopped \/ B!Reports \/ B!GraceIsOver \/ B!TakesEvent
             \/ B!TakesOutput \/ B!Collects \/ B!HearsVerdict \/ B!ListingEnds
             \/ (\E shutdown \in BOOLEAN : B!LetsGo(shutdown)) \/ UNCHANGED B!vars
      PROVE  ToldByLettingGo'
  BY ZenonT(60), <1>2 DEF B!TakesLock, B!Writes, B!Finishes, B!SaysWhy,
      B!Stops, B!GivesUpLock, B!Hangs,
       B!TakesLine, B!PassesOn, B!SeesCancel, B!SeesEnd, B!SeesItStopped,
       B!Reports,
       B!GraceIsOver, B!TakesEvent, B!TakesOutput, B!Collects, B!HearsVerdict,
       B!ListingEnds,
       B!LetsGo, B!vars, ToldByLettingGo, Phases, TypeInv, ProcessOK, BorgStates,
       ReaderOK,
       Readers, B!ours, B!process, B!world, B!Runs, B!Streamed,
       B!ToOutput, B!HasReader, B!Kill
<1> QED
  BY <1>1, <1>2 DEF B!Next, B!Borg, B!Reader, B!Owner

LEMMA ListingsStep ==
  ASSUME "cut" \notin Troubles, TypeInv, Phases, ToldByLettingGo, ListingsEnd, [B!Next]_(B!vars)
  PROVE  ListingsEnd'
<1>1. ASSUME \/ B!TakesLock \/ B!Writes
             \/ (\E code \in {"success", "warning"} : B!Finishes(code))
             \/ (\E cause \in B!Causes : B!Fails(cause)) \/ B!SaysWhy \/ B!Stops
             \/ B!GivesUpLock \/ B!Hangs \/ (\E text \in BOOLEAN : B!TakesLine(text))
             \/ B!PassesOn \/ B!SeesCancel \/ B!SeesEnd \/ B!SeesItStopped \/ B!Reports
             \/ B!GraceIsOver \/ B!TakesEvent \/ B!TakesOutput \/ B!Collects
             \/ B!HearsVerdict \/ B!ListingEnds
             \/ (\E shutdown \in BOOLEAN : B!LetsGo(shutdown)) \/ UNCHANGED B!vars
      PROVE  ListingsEnd'
  BY <1>1 DEF B!TakesLock, B!Writes, B!Finishes, B!Fails, B!SaysWhy,
      B!Stops, B!GivesUpLock,
       B!Hangs, B!TakesLine, B!PassesOn, B!SeesCancel, B!SeesEnd,
       B!SeesItStopped, B!Reports,
       B!GraceIsOver, B!TakesEvent, B!TakesOutput, B!Collects, B!HearsVerdict,
       B!ListingEnds,
       B!LetsGo, B!vars, ListingsEnd, Phases, ToldByLettingGo, TypeInv, ProcessOK,
       BorgStates, B!ours, B!process, B!world, B!Runs, B!Streamed,
       B!ToOutput, B!HasReader, B!Kill
<1> QED
  BY SMTT(30), <1>1 DEF B!Next, B!Borg, B!Reader, B!Owner

LEMMA StreamGrows ==
  ASSUME TypeInv, NEW v \in Verdicts \cup {"event"}, NEW s, s = stream \/ s = Append(stream, v)
  PROVE  B!ToSet(s) \subseteq B!ToSet(stream) \cup {v}
<1> DEFINE S == Verdicts \cup {"event"}
<1>1. stream \in Seq(S) /\ v \in S
  BY DEF TypeInv, ReaderOK
<1> HIDE DEF S
<1>2. B!ToSet(Append(stream, v)) = B!ToSet(stream) \cup {v}
  BY <1>1, RangeOfAppend
<1> QED
  BY <1>2

LEMMA EndsStep ==
  ASSUME TypeInv, Piped, ToldByLettingGo, ReaderFits, EndsAreSo, [B!Next]_(B!vars)
  PROVE  EndsAreSo'
<1> USE DEF B!Runs, B!Streamed, B!HasReader, B!Verdict, ToldByLettingGo, ReaderFits, EndsAreSo
<1>0. /\ stream \in Seq(Verdicts \cup {"event"}) /\ child \in BorgStates /\ use \in B!Uses
      /\ reader \in Readers
  BY DEF TypeInv, ProcessOK, ReaderOK
<1>1. ASSUME B!TakesLock \/ B!Writes \/ (\E code \in {"success", "warning"} : B!Finishes(code))
             \/ (\E cause \in B!Causes : B!Fails(cause)) \/ B!SaysWhy \/ B!Stops \/ B!GivesUpLock
             \/ B!Hangs \/ (\E text \in BOOLEAN : B!TakesLine(text)) \/ B!SeesCancel \/ B!SeesEnd
             \/ B!SeesItStopped \/ B!GraceIsOver
      PROVE  EndsAreSo'
  <2>1. CASE B!TakesLock \/ B!Writes \/ (\E code \in {"success", "warning"} : B!Finishes(code))
             \/ (\E cause \in B!Causes : B!Fails(cause)) \/ B!SaysWhy \/ B!Stops \/ B!GivesUpLock
             \/ B!Hangs
    BY <1>0, <2>1 DEF B!TakesLock, B!Writes, B!Finishes, B!Fails, B!SaysWhy,
        B!Stops, B!GivesUpLock, B!Hangs, B!ours, BorgStates
  <2>2. CASE (\E text \in BOOLEAN : B!TakesLine(text)) \/ B!SeesCancel \/ B!SeesEnd
             \/ B!SeesItStopped \/ B!GraceIsOver
    BY <1>0, <2>2 DEF B!TakesLine, B!SeesCancel, B!SeesEnd, B!SeesItStopped,
        B!GraceIsOver, B!process,
         BorgStates, Readers, B!Kill, B!Uses
  <2> QED
    BY <1>1, <2>1, <2>2
<1>2. CASE B!PassesOn
  <2>1. /\ UNCHANGED <<use, child, out, listener, outcome, catalogued, err, heard>>
        /\ reader'.at = reader.at
        /\ stream' = stream \/ stream' = Append(stream, "event")
    BY <1>0, <1>2 DEF B!PassesOn, B!process, Readers
  <2>2. B!ToSet(stream') \subseteq B!ToSet(stream) \cup {"event"}
    BY <2>1, StreamGrows
  <2> QED
    BY <2>1, <2>2
<1>3. CASE B!Reports
  <2>1. /\ UNCHANGED <<use, child, out, listener, outcome, catalogued, err, heard>>
        /\ reader.at = "reporting" /\ reader'.at = "done"
        /\ stream' = stream \/ stream' = Append(stream, B!Verdict(child.code, heard))
    BY <1>0, <1>3 DEF B!Reports, B!process, Readers
  <2>2. B!ToSet(stream') \subseteq B!ToSet(stream) \cup {B!Verdict(child.code, heard)}
    <3>1. B!Verdict(child.code, heard) \in Verdicts \cup {"event"}
      BY VerdictType DEF Verdicts
    <3> QED
      BY <2>1, <3>1, StreamGrows
  <2>3. B!Streamed /\ ~B!Runs
    BY <1>0, <2>1 DEF B!Uses
  <2> QED
    BY <2>1, <2>2, <2>3
<1>4. CASE B!TakesEvent
  <2>1. /\ UNCHANGED <<use, child, out, reader, err, heard, catalogued>> /\ B!Streamed
        /\ listener = "waits" /\ stream # <<>> /\ stream' = Tail(stream)
        /\ IF Head(stream) = "event" THEN UNCHANGED <<listener, outcome>>
           ELSE listener' = "done" /\ outcome' = Head(stream)
    BY <1>4 DEF B!TakesEvent, B!world
  <2>2. B!ToSet(stream) = {Head(stream)} \cup B!ToSet(stream')
    BY <1>0, <2>1, RangeOfTail
  <2>3. CASE Head(stream) = "event"
    BY <2>1, <2>2, <2>3
  <2>4. CASE Head(stream) # "event"
    <3>1. ~B!Runs /\ reader.at = "done" /\ Head(stream) = B!Verdict(child.code, heard)
      BY <2>2, <2>4
    <3>2. out = 0
      BY <2>1 DEF Piped, B!ToOutput
    <3> QED
      BY <2>1, <2>2, <2>4, <3>1, <3>2
  <2> QED
    BY <2>3, <2>4
<1>5. CASE B!TakesOutput \/ B!Collects
  BY <1>0, <1>5 DEF B!TakesOutput, B!Collects, B!world
<1>6. CASE B!HearsVerdict
  BY <1>0, <1>6 DEF B!HearsVerdict, B!world
<1>7. CASE B!ListingEnds
  BY <1>0, <1>7 DEF B!ListingEnds, B!world
<1>8. ASSUME NEW shutdown \in BOOLEAN, B!LetsGo(shutdown) PROVE EndsAreSo'
  <2>1. /\ stream' = <<>> /\ listener = "waits" /\ listener' = "lets go" /\ outcome' = outcome
        /\ catalogued' \in {catalogued, "rolled back"}
    BY <1>8 DEF B!LetsGo
  <2> QED
    BY <2>1, RangeOfNone
<1>9. CASE UNCHANGED B!vars
  BY <1>9 DEF B!vars
<1> QED
  BY <1>1, <1>2, <1>3, <1>4, <1>5, <1>6, <1>7, <1>8, <1>9 DEF B!Next, B!Borg,
      B!Reader, B!Owner

LEMMA ReadStep ==
  ASSUME Troubles = {}, TypeInv, ReaderFits, ToldByLettingGo, ReadToTheEnd, [B!Next]_(B!vars)
  PROVE  ReadToTheEnd'
<1>1. ASSUME \/ B!TakesLock \/ B!Writes
             \/ (\E code \in {"success", "warning"} : B!Finishes(code))
             \/ (\E cause \in B!Causes : B!Fails(cause)) \/ B!SaysWhy \/ B!Stops
             \/ B!GivesUpLock \/ B!Hangs \/ (\E text \in BOOLEAN : B!TakesLine(text))
             \/ B!PassesOn \/ B!SeesCancel \/ B!SeesEnd \/ B!SeesItStopped \/ B!Reports
             \/ B!GraceIsOver \/ B!TakesEvent \/ B!TakesOutput \/ B!Collects
             \/ B!HearsVerdict \/ B!ListingEnds
             \/ (\E shutdown \in BOOLEAN : B!LetsGo(shutdown)) \/ UNCHANGED B!vars
      PROVE  ReadToTheEnd'
  BY ZenonT(60), <1>1 DEF B!TakesLock, B!Writes, B!Finishes, B!Fails,
      B!SaysWhy, B!Stops, B!GivesUpLock,
       B!Hangs, B!TakesLine, B!PassesOn, B!SeesCancel, B!SeesEnd,
       B!SeesItStopped, B!Reports,
       B!GraceIsOver, B!TakesEvent, B!TakesOutput, B!Collects, B!HearsVerdict,
       B!ListingEnds,
       B!LetsGo, B!vars, ReadToTheEnd, TypeInv, ProcessOK, BorgStates, ReaderOK, Readers,
       ReaderFits, ToldByLettingGo, B!ours, B!process, B!world, B!Runs,
       B!Streamed, B!ToOutput,
       B!HasReader, B!Kill
<1> QED
  BY <1>1 DEF B!Next, B!Borg, B!Reader, B!Owner

LEMMA RoomStep ==
  ASSUME Sizes, Troubles = {}, TypeInv, Phases, ReaderFits, RoomIsLeft, [B!Next]_(B!vars)
  PROVE  RoomIsLeft'
<1> USE DEF B!Runs, B!Streamed, Phases, ReaderFits, RoomIsLeft, LastLines
<1>0. /\ err \in Seq(Lines) /\ Len(err) \in Nat /\ child \in BorgStates /\ reader \in Readers
      /\ child.saying \in Seq(Lines) /\ Len(child.saying) \in Nat /\ use \in B!Uses
  BY SequencesAre DEF TypeInv, ProcessOK, PipesOK, ReaderOK
<1>1. ASSUME B!TakesLock \/ B!Writes \/ (\E code \in {"success", "warning"} : B!Finishes(code))
             \/ (\E cause \in B!Causes : B!Fails(cause)) \/ B!GivesUpLock \/ B!Hangs
      PROVE  RoomIsLeft'
  BY <1>0, <1>1 DEF B!TakesLock, B!Writes, B!Finishes, B!Fails, B!GivesUpLock,
      B!Hangs, B!ours, BorgStates
<1>2. CASE B!SaysWhy
  <2>1. /\ child.at = "failing" /\ UNCHANGED <<use, reader>>
        /\ \/ child' = [child EXCEPT !.at = "giving up"] /\ err' = err
           \/ /\ child.saying # <<>> /\ child' = [child EXCEPT !.saying = Tail(child.saying)]
              /\ use # "listing" => err' = Append(err, Head(child.saying))
    BY <1>2 DEF B!SaysWhy, B!ours, B!Said
  <2>2. CASE child' = [child EXCEPT !.at = "giving up"] /\ err' = err
    <3>1. child'.at = "giving up" /\ child'.told = child.told /\ child'.saying = child.saying
      BY <1>0, <2>2 DEF BorgStates
    <3>2. reader.at = "stopping" => Len(err) + 0 <= Pipe /\ child.told
      <4>1. reader.at = "stopping" => Len(err) + Len(child.saying) <= Pipe /\ child.told
        BY <1>0, <2>1
      <4>2. Pipe \in Nat
        BY DEF Sizes
      <4> QED
        BY <1>0, <4>1, <4>2
    <3> QED
      BY <2>1, <2>2, <3>1, <3>2
  <2>3. CASE child.saying # <<>> /\ child' = [child EXCEPT !.saying = Tail(child.saying)]
    <3>1. /\ child'.at = "failing" /\ child'.told = child.told /\ child'.saying = Tail(child.saying)
      BY <1>0, <2>1, <2>3 DEF BorgStates
    <3>2. Len(child'.saying) = Len(child.saying) - 1 /\ Head(child.saying) \in Lines
      BY <1>0, <2>3, <3>1, RangeOfTail
    <3>3. reader.at = "stopping" => Len(err') = Len(err) + 1
      <4>1. Len(Append(err, Head(child.saying))) = Len(err) + 1
        BY <1>0, <3>2, RangeOfAppend
      <4>2. reader.at = "stopping" => use # "listing"
        OBVIOUS
      <4>3. err' = Append(err, Head(child.saying)) \/ use = "listing"
        BY <1>2, <2>3 DEF B!SaysWhy, B!Said
      <4> QED
        BY <4>1, <4>2, <4>3
    <3>4. reader.at = "stopping" => Len(err) + Len(child.saying) <= Pipe /\ child.told
      BY <2>1
    <3>5. reader.at = "stopping" => Len(err') + Len(child'.saying) = Len(err) + Len(child.saying)
      BY SMTT(30), <1>0, <3>2, <3>3
    <3> QED
      BY <2>1, <3>1, <3>4, <3>5
  <2> QED
    BY <2>1, <2>2, <2>3
<1>3. CASE B!Stops
  <2>1. /\ child.at \in {"taking", "working"} /\ child.told /\ UNCHANGED <<use, reader>>
        /\ child'.at = "giving up" /\ child'.told = child.told
        /\ use # "listing" => err' = Append(err, "item")
    BY <1>0, <1>3 DEF B!Stops, B!ours, B!Said, BorgStates
  <2>2. use # "listing" => Len(err') = Len(err) + 1
    <3>1. "item" \in Lines
      BY DEF Lines
    <3>2. Len(Append(err, "item")) = Len(err) + 1
      BY <1>0, <3>1, RangeOfAppend
    <3> QED
      BY <2>1, <3>2
  <2>3. reader.at = "stopping" => Len(err) + 1 <= Pipe /\ use # "listing"
    BY <2>1
  <2>4. reader.at = "stopping" => Len(err') + 0 <= Pipe
    BY <1>0, <2>2, <2>3
  <2> QED
    BY <2>1, <2>4
<1>4. CASE B!SeesCancel
  <2>1. /\ err' = err /\ reader'.at = "stopping" /\ child' = [child EXCEPT !.told = B!Runs]
        /\ B!Runs => Len(err) + B!LastWords <= Pipe
    BY <1>0, <1>4 DEF B!SeesCancel, Readers
  <2>2. child'.at = child.at /\ child'.told = B!Runs /\ child'.saying = child.saying
    BY <1>0, <2>1 DEF BorgStates
  <2>3. B!Runs => Len(err) + LastLines <= Pipe
    <3>1. LastLines <= B!LastWords /\ B!LastWords \in Nat /\ LastLines \in Nat
      BY <1>0 DEF B!LastWords
    <3> HIDE DEF LastLines
    <3> QED
      BY <1>0, <2>1, <3>1 DEF Sizes
  <2> QED
    BY <2>1, <2>2, <2>3
<1>5. ASSUME NEW text \in BOOLEAN, B!TakesLine(text) PROVE RoomIsLeft'
  BY <1>0, <1>5 DEF B!TakesLine, B!process, Readers
<1>6. CASE B!PassesOn \/ B!SeesEnd \/ B!SeesItStopped \/ B!Reports \/ B!GraceIsOver
  BY <1>0, <1>6 DEF B!PassesOn, B!SeesEnd, B!SeesItStopped, B!Reports,
      B!GraceIsOver, B!Kill, B!process,
       Readers, BorgStates
<1>7. CASE B!TakesEvent \/ B!TakesOutput \/ B!HearsVerdict \/ B!ListingEnds \/ UNCHANGED B!vars
  BY <1>7 DEF B!TakesEvent, B!TakesOutput, B!HearsVerdict, B!ListingEnds,
      B!world, B!vars
<1>8. CASE B!Collects
  <2>1. UNCHANGED <<use, child, reader>> /\ use = "command"
    BY <1>8 DEF B!Collects
  <2> QED
    BY <1>0, <2>1
<1>9. ASSUME NEW shutdown \in BOOLEAN, B!LetsGo(shutdown) PROVE RoomIsLeft'
  <2>1. /\ UNCHANGED <<use, err, reader>> /\ ~shutdown
        /\ child' = child \/ (~B!Streamed /\ child' = [child EXCEPT !.told = B!Runs])
    BY <1>9 DEF B!LetsGo, B!world
  <2> QED
    BY <1>0, <2>1 DEF BorgStates, TypeInv, ProcessOK, B!Uses
<1> QED
  BY <1>1, <1>2, <1>3, <1>4, <1>5, <1>6, <1>7, <1>8, <1>9 DEF B!Next, B!Borg,
      B!Reader, B!Owner

LEMMA NothingStep ==
  ASSUME TypeInv, Troubles = {}, Phases, ToldByLettingGo, NothingIsLost, [B!Next]_(B!vars)
  PROVE  NothingIsLost'
<1>0. /\ err \in Seq(Lines) /\ child \in BorgStates /\ child.saying \in Seq(Lines) /\ heard \subseteq Lines
      /\ "item" \in Lines
  BY DEF TypeInv, ProcessOK, PipesOK, BorgStates, Lines
<1>s. ASSUME UNCHANGED <<use, heard, err>>, child'.saying = child.saying, child'.cause = child.cause,
             listener' # "lets go" => listener # "lets go"
      PROVE  NothingIsLost'
  BY <1>s DEF NothingIsLost, Evidence
<1>l. ASSUME listener' = "lets go" PROVE NothingIsLost'
  BY <1>l DEF NothingIsLost
<1>1. CASE \/ B!TakesLock \/ (\E code \in {"success", "warning"} : B!Finishes(code))
           \/ B!GivesUpLock \/ B!Hangs
  <2>1. /\ UNCHANGED <<use, heard, err, listener>>
        /\ child'.saying = child.saying /\ child'.cause = child.cause
    BY <1>0, <1>1 DEF B!TakesLock, B!Finishes, B!GivesUpLock, B!Hangs, B!ours,
        BorgStates
  <2> QED
    BY <1>s, <2>1
<1>2. CASE B!Writes
  <2>1. UNCHANGED <<use, heard, listener>>
    BY <1>2 DEF B!Writes, B!ours
  <2>2. \/ listener = "lets go"
        \/ /\ child'.saying = child.saying /\ child'.cause = child.cause
           /\ err' = err \/ err' = Append(err, "item")
    BY <1>0, <1>2 DEF B!Writes, BorgStates
  <2>3. CASE listener = "lets go"
    BY <1>l, <2>1, <2>3
  <2>4. CASE child'.saying = child.saying /\ child'.cause = child.cause
             /\ (err' = err \/ err' = Append(err, "item"))
    <3>1. B!ToSet(err') \cup {"item"} = B!ToSet(err) \cup {"item"}
      <4>1. B!ToSet(Append(err, "item")) = B!ToSet(err) \cup {"item"}
        BY <1>0, RangeOfAppend
      <4> QED
        BY <2>4, <4>1
    <3>2. Evidence' = Evidence
      BY <2>4 DEF Evidence
    <3> QED
      BY <2>1, <2>4, <3>1, <3>2 DEF NothingIsLost
  <2> QED
    BY <2>2, <2>3, <2>4
<1>3. ASSUME NEW cause \in B!Causes, B!Fails(cause) PROVE NothingIsLost'
  <2>1. /\ UNCHANGED <<use, heard, err, listener>> /\ child.at \in {"taking", "working"}
        /\ child'.saying = B!Says[cause] /\ child'.cause = cause
    BY <1>0, <1>3 DEF B!Fails, B!ours, BorgStates
  <2>2. child.saying = <<>> /\ child.cause = "none"
    BY <2>1 DEF Phases
  <2>3. B!ToSet(child.saying) = {} /\ Evidence = {} /\ Evidence' = B!ToSet(B!Says[cause])
    BY <2>1, <2>2, RangeOfNone, CausesAre DEF Evidence
  <2> QED
    BY <2>1, <2>3 DEF NothingIsLost
<1>4. CASE B!SaysWhy
  <2>1. /\ UNCHANGED <<use, heard, listener>> /\ child'.cause = child.cause
        /\ \/ child'.saying = child.saying /\ err' = err
           \/ /\ child.saying # <<>> /\ child'.saying = Tail(child.saying)
              /\ use # "listing" => err' = Append(err, Head(child.saying))
    BY <1>0, <1>4 DEF B!SaysWhy, B!ours, B!Said, BorgStates
  <2>2. CASE child'.saying = child.saying /\ err' = err
    BY <1>s, <2>1, <2>2
  <2>3. CASE child.saying # <<>> /\ child'.saying = Tail(child.saying)
             /\ (use # "listing" => err' = Append(err, Head(child.saying)))
    <3>1. /\ B!ToSet(child.saying) = {Head(child.saying)} \cup B!ToSet(child'.saying)
          /\ Head(child.saying) \in Lines
      BY <1>0, <2>3, RangeOfTail
    <3>2. use # "listing" => B!ToSet(err') = B!ToSet(err) \cup {Head(child.saying)}
      <4>1. B!ToSet(Append(err, Head(child.saying))) = B!ToSet(err) \cup {Head(child.saying)}
        BY <1>0, <3>1, RangeOfAppend
      <4> QED
        BY <2>3, <4>1
    <3>3. Evidence' = Evidence
      BY <2>1 DEF Evidence
    <3> QED
      BY <2>1, <3>1, <3>2, <3>3 DEF NothingIsLost
  <2> QED
    BY <2>1, <2>2, <2>3
<1>5. CASE B!Stops
  <2>1. listener' = listener /\ child.told
    BY <1>5 DEF B!Stops, B!ours
  <2> QED
    BY <1>l, <2>1 DEF ToldByLettingGo
<1>6. CASE (\E text \in BOOLEAN : B!TakesLine(text)) \/ B!Collects
  <2>1. /\ UNCHANGED <<use, listener, child>> /\ err # <<>> /\ err' = Tail(err)
        /\ heard' = IF B!IsEvidence(Head(err)) THEN heard \cup {Head(err)} ELSE heard
    BY <1>6 DEF B!TakesLine, B!Collects, B!process
  <2>2. B!ToSet(err) = {Head(err)} \cup B!ToSet(err') /\ Head(err) \in Lines
    BY <1>0, <2>1, RangeOfTail
  <2>3. heard' = IF Head(err) # "item" THEN heard \cup {Head(err)} ELSE heard
    BY <2>1, <2>2, EvidenceIs
  <2>4. Evidence' = Evidence /\ child'.saying = child.saying
    BY <2>1 DEF Evidence
  <2>5. CASE Head(err) = "item"
    BY <2>1, <2>2, <2>3, <2>4, <2>5 DEF NothingIsLost
  <2>6. CASE Head(err) # "item"
    BY <2>1, <2>2, <2>3, <2>4, <2>6 DEF NothingIsLost
  <2> QED
    BY <2>5, <2>6
<1>7. CASE B!PassesOn \/ B!SeesEnd \/ B!SeesItStopped \/ B!Reports \/ B!TakesEvent \/ B!TakesOutput
           \/ B!HearsVerdict \/ B!ListingEnds \/ UNCHANGED B!vars
  <2>1. UNCHANGED <<use, heard, err, child>> /\ (listener' # "lets go" => listener # "lets go")
    BY <1>7 DEF B!PassesOn, B!SeesEnd, B!SeesItStopped, B!Reports,
        B!TakesEvent, B!TakesOutput,
         B!HearsVerdict, B!ListingEnds, B!vars, B!process, B!world
  <2> QED
    BY <1>s, <2>1
<1>8. CASE B!SeesCancel
  BY <1>8, <1>l DEF B!SeesCancel
<1>9. CASE B!GraceIsOver
  <2>1. listener' = listener /\ grace
    BY <1>9 DEF B!GraceIsOver
  <2> QED
    BY <1>l, <2>1 DEF ToldByLettingGo
<1>10. ASSUME NEW shutdown \in BOOLEAN, B!LetsGo(shutdown) PROVE NothingIsLost'
  BY <1>10, <1>l DEF B!LetsGo
<1> QED
  BY <1>1, <1>2, <1>3, <1>4, <1>5, <1>6, <1>7, <1>8, <1>9, <1>10 DEF B!Next, B!Borg,
      B!Reader, B!Owner

LEMMA StopsStep ==
  ASSUME Sizes, TypeInv, Troubles = {}, Phases, ReaderFits, RoomIsLeft, B!StopsByItself,
         [B!Next]_(B!vars)
  PROVE  B!StopsByItself'
<1>0. /\ child \in BorgStates /\ use \in B!Uses /\ Len(err) \in Nat /\ Len(child.saying) \in Nat
      /\ child.saying \in Seq(Lines)
  BY SequencesAre DEF TypeInv, ProcessOK
<1>1. CASE B!GraceIsOver
  <2>1. child.hung \/ B!WaitsForThePipe
    BY <1>1 DEF B!GraceIsOver
  <2>2. B!Runs /\ child' = B!Kill(child)
    BY <1>1 DEF B!GraceIsOver
  <2>3. ~B!WaitsForThePipe
    <3> SUFFICES ASSUME B!WaitsForThePipe PROVE FALSE
      OBVIOUS
    <3>1. /\ reader.at = "stopping" /\ ~(Len(err) < Pipe)
          /\ child.at \in {"taking", "working"} \/ child.saying # <<>>
      BY DEF B!WaitsForThePipe, B!RoomToSay
    <3>2. Len(err) + LastLines <= Pipe
      BY <2>2, <3>1 DEF RoomIsLeft
    <3>3. CASE child.at \in {"taking", "working"}
      BY <1>0, <3>1, <3>2, <3>3 DEF LastLines, Sizes
    <3>4. CASE child.saying # <<>>
      <4>1. child.at = "failing"
        BY <2>2, <3>4 DEF Phases, B!Runs
      <4>2. Len(child.saying) > 0
        BY <1>0, <3>4
      <4> QED
        <5>1. Len(err) + Len(child.saying) <= Pipe
          BY <3>2, <4>1 DEF LastLines
        <5>2. Pipe \in Nat
          BY DEF Sizes
        <5> QED
          BY <1>0, <3>1, <4>2, <5>1, <5>2
    <3> QED
      BY <3>1, <3>3, <3>4
  <2> QED
    BY <1>0, <2>1, <2>2, <2>3 DEF B!StopsByItself, B!Kill, BorgStates
<1>2. ASSUME NEW shutdown \in BOOLEAN, B!LetsGo(shutdown) PROVE B!StopsByItself'
  <2>1. child' = child \/ child' = [child EXCEPT !.told = B!Runs]
    BY <1>2 DEF B!LetsGo
  <2> QED
    BY <1>0, <2>1 DEF B!StopsByItself, BorgStates
<1>3. CASE B!TakesLock \/ B!Writes \/ (\E code \in {"success", "warning"} : B!Finishes(code))
           \/ (\E cause \in B!Causes : B!Fails(cause)) \/ B!SaysWhy \/ B!Stops \/ B!GivesUpLock \/ B!Hangs
           \/ B!SeesCancel
  BY <1>0, <1>3 DEF B!TakesLock, B!Writes, B!Finishes, B!Fails, B!SaysWhy,
      B!Stops, B!GivesUpLock, B!Hangs,
       B!SeesCancel, B!StopsByItself, BorgStates
<1>4. CASE (\E text \in BOOLEAN : B!TakesLine(text)) \/ B!PassesOn \/ B!SeesEnd \/ B!SeesItStopped
           \/ B!Reports \/ B!Owner \/ UNCHANGED B!vars
  BY <1>4 DEF B!TakesLine, B!PassesOn, B!SeesEnd, B!SeesItStopped, B!Reports,
      B!Owner, B!TakesEvent,
       B!TakesOutput, B!Collects, B!HearsVerdict, B!ListingEnds,
       B!StopsByItself, B!process, B!world, B!vars
<1> QED
  BY <1>1, <1>2, <1>3, <1>4 DEF B!Next, B!Borg, B!Reader

LEMMA LetGoStep ==
  ASSUME TypeInv, Troubles = {}, Phases, ReaderFits, ToldByLettingGo, RoomIsLeft,
         ReadToTheEnd, B!LetGoIsTold, [B!Next]_(B!vars)
  PROVE  B!LetGoIsTold'
<1>0. child \in BorgStates /\ use \in B!Uses /\ reader \in Readers
  BY DEF TypeInv, ProcessOK, ReaderOK
<1> USE DEF B!LetGoIsTold, B!Runs, B!Streamed
<1>1. CASE B!TakesLock \/ B!Writes \/ (\E code \in {"success", "warning"} : B!Finishes(code))
           \/ (\E cause \in B!Causes : B!Fails(cause)) \/ B!SaysWhy \/ B!Stops \/ B!GivesUpLock \/ B!Hangs
  BY <1>0, <1>1 DEF B!TakesLock, B!Writes, B!Finishes, B!Fails, B!SaysWhy,
      B!Stops, B!GivesUpLock, B!Hangs,
       B!ours, BorgStates
<1>2. CASE (\E text \in BOOLEAN : B!TakesLine(text)) \/ B!PassesOn \/ B!SeesCancel \/ B!SeesEnd
           \/ B!SeesItStopped \/ B!Reports \/ B!GraceIsOver
  BY <1>0, <1>2 DEF B!TakesLine, B!PassesOn, B!SeesCancel, B!SeesEnd,
      B!SeesItStopped, B!Reports,
       B!GraceIsOver, B!Kill, B!process, Readers, BorgStates
<1>3. CASE \/ B!TakesEvent \/ B!TakesOutput \/ B!Collects \/ B!HearsVerdict
           \/ B!ListingEnds \/ UNCHANGED B!vars
  BY <1>3 DEF B!TakesEvent, B!TakesOutput, B!Collects, B!HearsVerdict,
      B!ListingEnds, B!world, B!vars
<1>4. ASSUME NEW shutdown \in BOOLEAN, B!LetsGo(shutdown) PROVE B!LetGoIsTold'
  <2>1. /\ UNCHANGED <<use, reader>> /\ listener = "waits"
        /\ child' = IF B!Streamed THEN child ELSE [child EXCEPT !.told = B!Runs]
    BY <1>4 DEF B!LetsGo, B!world
  <2>2. B!Streamed /\ B!Runs => reader.at = "reading"
    BY <1>0, <2>1 DEF ReaderFits, ToldByLettingGo, ReadToTheEnd, RoomIsLeft
  <2> QED
    BY <1>0, <2>1, <2>2 DEF BorgStates
<1> QED
  BY <1>1, <1>2, <1>3, <1>4 DEF B!Next, B!Borg, B!Reader, B!Owner

-----------------------------------------------------------------------------
EndInv ==
  /\ TypeInv /\ Phases /\ Counted /\ Piped /\ ReaderFits /\ ToldByLettingGo /\ EndsAreSo
  /\ ListingsEnd

LEMMA EndInit == Sizes /\ B!Init => EndInv
<1> SUFFICES ASSUME Sizes, B!Init PROVE EndInv
  OBVIOUS
<1>1. TypeInv
  BY StreamsInit
<1>2. Phases /\ Counted /\ Piped /\ ReaderFits /\ ToldByLettingGo /\ ListingsEnd
  BY CausesAre DEF B!Init, Phases, Counted, Piped, ReaderFits, ToldByLettingGo, ListingsEnd,
      Sizes, B!Runs,
       B!Streamed, B!HasReader
<1>3. EndsAreSo
  BY RangeOfNone DEF B!Init, EndsAreSo
<1> QED
  BY <1>1, <1>2, <1>3 DEF EndInv

LEMMA EndStep ==
  Sizes /\ "cut" \notin Troubles /\ EndInv /\ [B!Next]_(B!vars) => EndInv'
BY StreamsStep, PhasesStep, CountedStep, PipedStep, ReaderFitsStep, ToldStep, EndsStep,
    ListingsStep DEF EndInv

(* An end that is called a good one is Borg's, and all that Borg had to    *)
(* tell has arrived.                                                       *)
LEMMA GoodEnds == Sizes /\ EndInv => B!CleanEndIsWhole /\ B!CommittedIsWhole
<1> SUFFICES ASSUME Sizes, EndInv PROVE B!CleanEndIsWhole /\ B!CommittedIsWhole
  OBVIOUS
<1>1. outcome = "ok" => listener = "done"
  BY DEF EndInv, EndsAreSo
<1>2. ASSUME listener = "done", outcome = "ok"
      PROVE  child.code = "success" \/ (child.code = "warning" /\ use # "check")
  <2>1. CASE use = "listing"
    <3>1. child.code \in {"none", "success", "warning"} /\ child.at = "exited"
      BY <1>2, <2>1 DEF EndInv, ListingsEnd, EndsAreSo, B!Runs
    <3> QED
      BY <2>1, <3>1 DEF EndInv, Phases
  <2>2. CASE use # "listing"
    BY <1>2, <2>2, VerdictType DEF EndInv, EndsAreSo
  <2> QED
    BY <2>1, <2>2
<1>3. ASSUME listener = "done", child.code \in {"success", "warning"}, B!ToOutput PROVE got = Units
  <2>1. child.wrote = Units /\ out = 0 /\ got + out = child.wrote /\ got \in Nat
    BY <1>3 DEF EndInv, Phases, EndsAreSo, Counted, TypeInv, OwnerOK
  <2> QED
    BY <2>1
<1>4. catalogued = "committed" => listener = "done" /\ use = "listing" /\ outcome = "ok"
  BY DEF EndInv, EndsAreSo
<1> QED
  BY <1>1, <1>2, <1>3, <1>4 DEF B!CleanEndIsWhole, B!CommittedIsWhole, B!ToOutput

(* A success is Borg's, and whole, unless a listing fails: a file, a       *)
(* command, a check and a job may fail, be let go of and say what is not   *)
(* text at any moment.                                                     *)
THEOREM EndsAreWhole ==
  ASSUME Sizes, "cut" \notin Troubles
  PROVE  B!Spec => [](B!CleanEndIsWhole /\ B!CommittedIsWhole)
<1>1. B!Init => EndInv
  BY EndInit
<1>2. EndInv /\ [B!Next]_(B!vars) => EndInv'
  BY EndStep
<1>3. EndInv => B!CleanEndIsWhole /\ B!CommittedIsWhole
  BY GoodEnds
<1> QED
  BY <1>1, <1>2, <1>3, PTL DEF B!Spec

(* Where nothing of the four comes between, a failure is named for what it *)
(* was, and a Borg that is not wanted any more is told so and ends by      *)
(* itself.                                                                 *)
THEOREM BorgIsSafe ==
  ASSUME Sizes, Troubles = {}
  PROVE  B!Spec => []B!BorgSafety
<1> DEFINE BorgInv == /\ EndInv /\ NothingIsLost /\ ReadToTheEnd /\ RoomIsLeft
                      /\ B!StopsByItself /\ B!LetGoIsTold
<1>1. B!Init => BorgInv
  <2> SUFFICES ASSUME B!Init PROVE BorgInv
    OBVIOUS
  <2>1. NothingIsLost
    BY RangeOfNone, CausesAre DEF B!Init, NothingIsLost, Evidence
  <2>2. ReadToTheEnd /\ RoomIsLeft /\ B!StopsByItself /\ B!LetGoIsTold
    BY DEF B!Init, ReadToTheEnd, RoomIsLeft, B!StopsByItself, B!LetGoIsTold
  <2> QED
    BY <2>1, <2>2, EndInit
<1>2. BorgInv /\ [B!Next]_(B!vars) => BorgInv'
  <2> SUFFICES ASSUME BorgInv, [B!Next]_(B!vars) PROVE BorgInv'
    OBVIOUS
  <2>1. EndInv'
    BY EndStep
  <2>2. TypeInv /\ Phases /\ ReaderFits /\ ToldByLettingGo
    BY DEF EndInv
  <2>3. NothingIsLost' /\ ReadToTheEnd' /\ RoomIsLeft'
    BY <2>2, NothingStep, ReadStep, RoomStep
  <2>4. B!StopsByItself' /\ B!LetGoIsTold'
    BY <2>2, StopsStep, LetGoStep
  <2> QED
    BY <2>1, <2>3, <2>4
<1>3. BorgInv => B!BorgSafety
  <2> SUFFICES ASSUME BorgInv PROVE B!BorgSafety
    OBVIOUS
  <2>1. B!TypeOK
    <3>1. got \in 0 .. Units
      <4>1. got \in Nat /\ out \in Nat /\ child.wrote \in Nat /\ got + out <= child.wrote
            /\ child.wrote <= Units /\ Units \in Nat
        BY DEF EndInv, TypeInv, OwnerOK, ProcessOK, BorgStates, Counted, Sizes
      <4> QED
        BY <4>1
    <3>2. out \in 0 .. Pipe
      BY DEF EndInv, TypeInv, ProcessOK, Sizes
    <3>3. outcome \in B!Causes \cup {"none", "ok"}
      BY DEF EndInv, TypeInv, OwnerOK, Verdicts
    <3> QED
      BY <3>1, <3>2, <3>3 DEF B!TypeOK, EndInv, TypeInv, ProcessOK, PipesOK, ReaderOK,
          OwnerOK,
           BorgStates, Readers
  <2>2. B!FailureIsNamed
    <3> SUFFICES ASSUME listener = "done", child.code = "error", child.cause \in B!Causes
                 PROVE  outcome = child.cause
      BY DEF B!FailureIsNamed
    <3>1. use # "listing" /\ outcome = B!Verdict(child.code, heard) /\ ~B!Runs
      BY CausesAre DEF EndInv, ListingsEnd, EndsAreSo
    <3>2. err = <<>> /\ child.saying = <<>>
      <4>1. child.saying = <<>>
        BY <3>1 DEF EndInv, Phases, B!Runs
      <4>2. B!HasReader \/ use = "command"
        BY <3>1 DEF EndInv, TypeInv, ProcessOK, B!Uses, B!HasReader, B!Streamed
      <4>3. err = <<>>
        BY <4>2 DEF EndInv, EndsAreSo, ReadToTheEnd
      <4> QED
        BY <4>1, <4>3
    <3>3. heard \cup {"item"} = {"item"} \cup B!ToSet(B!Says[child.cause]) /\ "item" \notin heard
      BY <3>1, <3>2, RangeOfNone DEF NothingIsLost, Evidence
    <3>4. "item" \notin B!ToSet(B!Says[child.cause])
      BY SaysType
    <3>5. heard = B!ToSet(B!Says[child.cause])
      BY <3>3, <3>4
    <3> QED
      BY <3>1, <3>5, ClassifiedNames DEF B!Verdict
  <2> QED
    BY <2>1, <2>2, GoodEnds DEF B!BorgSafety
<1> QED
  BY <1>1, <1>2, <1>3, PTL DEF B!Spec
-----------------------------------------------------------------------------
(* The daemons. *)

\* No process is called by the name of none, and nothing is allowed that goes wrong.
Placed ==
  /\ D!None \notin Procs /\ Jobs \in Nat /\ Starts \in Nat /\ Events \in Nat
  /\ Happenings = {}

Held(p, n) == proc[p].jobs[n] \in {"extracting", "prepared"}

\* One process has the name's duties: it owns the name, unless its bus went.
OneServes ==
  /\ \A p, q \in Procs : D!Serves(p) /\ D!Serves(q) => p = q
  /\ \A p \in Procs : owner = p => D!Serves(p)
  /\ \A p \in Procs : D!Serves(p) => owner = p \/ proc[p].lost
  /\ \A p \in Procs : proc[p].lost => owner = D!None /\ (D!Is(p, "claiming") \/ D!Serves(p))
  /\ \A p \in Procs : proc[p].writes => D!Serves(p)
  /\ \A p \in Procs, n \in D!Job : proc[p].jobs[n] # "none" => D!Serves(p)

\* What is staged is what the one that serves holds, and one that may still come to
\* the name has cleared up.
StagedAsHeld ==
  /\ \A p \in Procs, n \in D!Job :
       /\ proc[p].jobs[n] = "prepared" => staging[n] = [of |-> proc[p].number, whole |-> TRUE]
       /\ proc[p].jobs[n] = "extracting" => staging[n].of = proc[p].number
       /\ owner = p /\ staging[n].of # 0 => staging[n].of = proc[p].number /\ Held(p, n)
  /\ \A p \in Procs, n \in D!Job :
       D!Is(p, "claiming") /\ ~proc[p].lost /\ owner = D!None => staging[n].of = 0

\* The unit is made to follow one change at a time, and each is to what is set.
LoginIs ==
  /\ \A c \in applying : c.wanted = background
  /\ \A c, d \in applying : c = d
  /\ D!LoginFollows

Staged == [of : 0 .. Starts, whole : BOOLEAN]
JobSteps == {"none", "extracting", "prepared", "over"}

\* One that does not run, or begins to, has nothing in memory.
Blank(r) ==
  /\ r \in D!Process /\ r.at \in {"down", "failed", "loading"}
  /\ ~r.lost /\ ~r.writes /\ r.idle = 0 /\ \A n \in D!Job : r.jobs[n] = "none"

ServesAt == {"claimed", "up", "leaving"}

\* The second look that finds nothing is the last.
Awake(r) == r.at # "leaving" => r.idle \in {0, 1}
ProcessTypes == D!TypeOK /\ \A p \in Procs : Awake(proc[p])

Moves(p, r) == r \in D!Process /\ Awake(r) /\ proc' = [proc EXCEPT ![p] = r]

(* What is in memory. *)

LEMMA NoneIs == Placed => D!NoRestore \in Staged /\ D!NoRestore.of = 0
BY DEF Placed, D!NoRestore, Staged

LEMMA DownIs == Placed => Blank(D!Down) /\ D!Down.at = "down"
<1> SUFFICES ASSUME Placed PROVE Blank(D!Down) /\ D!Down.at = "down"
  OBVIOUS
<1>1. 0 \in 0 .. Starts
  BY DEF Placed
<1> QED
  BY <1>1 DEF Blank, D!Down, D!Process, D!At

LEMMA EndedIs ==
  ASSUME Placed, NEW at \in {"down", "failed"}
  PROVE  Blank([D!Down EXCEPT !.at = at]) /\ [D!Down EXCEPT !.at = at].at = at
<1>1. PICK d : d = D!Down
  OBVIOUS
<1>2. Blank(d)
  BY <1>1, DownIs
<1>3. Blank([d EXCEPT !.at = at]) /\ [d EXCEPT !.at = at].at = at
  BY <1>2 DEF Blank, D!Process, D!At
<1> QED
  BY <1>1, <1>3

LEMMA BegunIs ==
  ASSUME Placed, NEW k \in 0 .. Starts
  PROVE  /\ Blank([D!Down EXCEPT !.at = "loading", !.number = k])
         /\ [D!Down EXCEPT !.at = "loading", !.number = k].at = "loading"
<1>1. PICK d : d = D!Down
  OBVIOUS
<1>2. Blank(d)
  BY <1>1, DownIs
<1>3. LET r == [d EXCEPT !.at = "loading", !.number = k] IN Blank(r) /\ r.at = "loading"
  BY <1>2 DEF Blank, D!Process, D!At
<1> QED
  BY <1>1, <1>3

LEMMA OneMoves ==
  ASSUME ProcessTypes, NEW p \in Procs, NEW r, Moves(p, r)
  PROVE  /\ proc' \in [Procs -> D!Process] /\ proc'[p] = r
         /\ \A q \in Procs : q # p => proc'[q] = proc[q]
BY DEF ProcessTypes, D!TypeOK, Moves

\* Where it is, changes.
LEMMA AtMoves ==
  ASSUME NEW r \in D!Process, NEW at \in D!At
  PROVE  LET s == [r EXCEPT !.at = at] IN
         /\ s \in D!Process /\ s.at = at /\ s.number = r.number /\ s.jobs = r.jobs
         /\ s.idle = r.idle /\ s.lost = r.lost /\ s.writes = r.writes
BY DEF D!Process

LEMMA WritesMove ==
  ASSUME NEW r \in D!Process, NEW w \in BOOLEAN
  PROVE  LET s == [r EXCEPT !.writes = w] IN
         /\ s \in D!Process /\ s.at = r.at /\ s.number = r.number /\ s.jobs = r.jobs
         /\ s.idle = r.idle /\ s.lost = r.lost /\ s.writes = w
BY DEF D!Process

LEMMA JobMoves ==
  ASSUME NEW r \in D!Process, NEW n \in D!Job, NEW j \in JobSteps
  PROVE  LET s == [r EXCEPT !.jobs[n] = j] IN
         /\ s \in D!Process /\ s.at = r.at /\ s.number = r.number
         /\ s.jobs[n] = j /\ \A m \in D!Job : m # n => s.jobs[m] = r.jobs[m]
         /\ s.idle = r.idle /\ s.lost = r.lost /\ s.writes = r.writes
BY DEF D!Process, JobSteps

-----------------------------------------------------------------------------
(* What each action makes of the one it is of. *)

LEMMA LoadsMoves ==
  ASSUME ProcessTypes, NEW p \in Procs, D!Loads(p)
  PROVE  \E r : /\ Moves(p, r) /\ r.at = "clearing" /\ r.lost = proc[p].lost
                /\ r.number = proc[p].number /\ r.jobs = proc[p].jobs /\ r.writes = proc[p].writes
<1>1. PICK r : r = proc[p]
  OBVIOUS
<1>2. r \in D!Process /\ "clearing" \in D!At
  BY <1>1 DEF ProcessTypes, D!TypeOK, D!At
<1>3. PICK s : s = [r EXCEPT !.at = "clearing"]
  OBVIOUS
<1>4. /\ s \in D!Process /\ s.at = "clearing" /\ s.number = r.number /\ s.jobs = r.jobs
      /\ s.idle = r.idle /\ s.lost = r.lost /\ s.writes = r.writes
  BY <1>2, <1>3, AtMoves
<1>5. proc' = [proc EXCEPT ![p] = s]
  BY <1>1, <1>3 DEF D!Loads, D!Goes, ProcessTypes, D!TypeOK
<1>6. r.idle \in {0, 1}
  BY <1>1 DEF D!Loads, D!Is, ProcessTypes, Awake
<1> QED
  BY <1>1, <1>4, <1>5, <1>6 DEF Moves, Awake

LEMMA ClearsMoves ==
  ASSUME ProcessTypes, NEW p \in Procs, D!Clears(p)
  PROVE  \E r : /\ Moves(p, r) /\ r.at = "claiming" /\ r.lost = proc[p].lost
                /\ r.number = proc[p].number /\ r.jobs = proc[p].jobs /\ r.writes = proc[p].writes
<1>1. PICK r : r = proc[p]
  OBVIOUS
<1>2. r \in D!Process /\ "claiming" \in D!At
  BY <1>1 DEF ProcessTypes, D!TypeOK, D!At
<1>3. PICK s : s = [r EXCEPT !.at = "claiming"]
  OBVIOUS
<1>4. /\ s \in D!Process /\ s.at = "claiming" /\ s.number = r.number /\ s.jobs = r.jobs
      /\ s.idle = r.idle /\ s.lost = r.lost /\ s.writes = r.writes
  BY <1>2, <1>3, AtMoves
<1>5. proc' = [proc EXCEPT ![p] = s]
  BY <1>1, <1>3 DEF D!Clears, D!Goes, ProcessTypes, D!TypeOK
<1>6. r.idle \in {0, 1}
  BY <1>1 DEF D!Clears, D!Is, ProcessTypes, Awake
<1> QED
  BY <1>1, <1>4, <1>5, <1>6 DEF Moves, Awake

LEMMA BeginsMoves ==
  ASSUME Placed, ProcessTypes, NEW p \in Procs, D!Begins(p)
  PROVE  \E r : Moves(p, r) /\ Blank(r) /\ r.at = "loading"
<1>1. started + 1 \in 0 .. Starts
  BY DEF ProcessTypes, D!TypeOK, D!Begins, Placed
<1>2. PICK k : k = started + 1
  OBVIOUS
<1>3. PICK r : r = [D!Down EXCEPT !.at = "loading", !.number = k]
  OBVIOUS
<1>4. Blank(r) /\ r.at = "loading"
  BY <1>1, <1>2, <1>3, BegunIs
<1>5. proc' = [proc EXCEPT ![p] = r]
  BY <1>2, <1>3 DEF D!Begins
<1> QED
  BY <1>4, <1>5 DEF Moves, Blank, Awake

LEMMA EndsMoves ==
  ASSUME Placed, NEW p \in Procs, NEW at \in {"down", "failed"}, D!Ends(p, at)
  PROVE  \E r : Moves(p, r) /\ Blank(r) /\ r.at = at
<1>1. PICK r : r = [D!Down EXCEPT !.at = at]
  OBVIOUS
<1>2. Blank(r) /\ r.at = at
  BY <1>1, EndedIs
<1>3. proc' = [proc EXCEPT ![p] = r]
  BY <1>1 DEF D!Ends
<1> QED
  BY <1>2, <1>3 DEF Moves, Blank, Awake

LEMMA SnapperMoves ==
  ASSUME ProcessTypes, NEW p \in Procs, D!LooksAtSnapper(p)
  PROVE  \E r : /\ Moves(p, r) /\ r.at = proc[p].at /\ r.lost = proc[p].lost
                /\ r.number = proc[p].number /\ r.jobs = proc[p].jobs /\ r.writes
<1>1. PICK r : r = proc[p]
  OBVIOUS
<1>2. r \in D!Process
  BY <1>1 DEF ProcessTypes, D!TypeOK
<1>3. PICK s : s = [r EXCEPT !.writes = TRUE]
  OBVIOUS
<1>4. /\ s \in D!Process /\ s.at = r.at /\ s.number = r.number /\ s.jobs = r.jobs
      /\ s.idle = r.idle /\ s.lost = r.lost /\ s.writes
  BY <1>2, <1>3, WritesMove
<1>5. proc' = [proc EXCEPT ![p] = s]
  BY <1>1, <1>3 DEF D!LooksAtSnapper, ProcessTypes, D!TypeOK
<1>6. Awake(r)
  BY <1>1 DEF ProcessTypes
<1> QED
  BY <1>1, <1>4, <1>5, <1>6 DEF Moves, Awake

LEMMA ActsMoves ==
  ASSUME ProcessTypes, NEW p \in Procs, D!Acts(p)
  PROVE  \E r : /\ Moves(p, r) /\ r.at = "up" /\ r.lost = proc[p].lost
                /\ r.number = proc[p].number /\ r.jobs = proc[p].jobs /\ r.writes
<1>1. PICK r : r = proc[p]
  OBVIOUS
<1>2. r \in D!Process /\ "up" \in D!At
  BY <1>1 DEF ProcessTypes, D!TypeOK, D!At
<1>3. PICK s : s = [r EXCEPT !.at = "up", !.writes = TRUE]
  OBVIOUS
<1>4. /\ s \in D!Process /\ s.at = "up" /\ s.lost = r.lost /\ s.number = r.number
      /\ s.jobs = r.jobs /\ s.writes /\ s.idle = r.idle
  BY <1>2, <1>3 DEF D!Process
<1>6. r.idle \in {0, 1}
  BY <1>1 DEF D!Acts, D!Is, ProcessTypes, Awake
<1>5. proc' = [proc EXCEPT ![p] = s]
  BY <1>1, <1>3 DEF D!Acts, ProcessTypes, D!TypeOK
<1> QED
  BY <1>1, <1>4, <1>5, <1>6 DEF Moves, Awake

LEMMA JobSet ==
  ASSUME ProcessTypes, NEW p \in Procs, NEW n \in D!Job, NEW j \in JobSteps,
         proc' = [proc EXCEPT ![p].jobs[n] = j]
  PROVE  \E r : /\ Moves(p, r) /\ r.at = proc[p].at /\ r.lost = proc[p].lost
                /\ r.number = proc[p].number /\ r.writes = proc[p].writes
                /\ r.jobs[n] = j /\ \A m \in D!Job : m # n => r.jobs[m] = proc[p].jobs[m]
<1>1. PICK r : r = proc[p]
  OBVIOUS
<1>2. r \in D!Process
  BY <1>1 DEF ProcessTypes, D!TypeOK
<1>3. PICK s : s = [r EXCEPT !.jobs[n] = j]
  OBVIOUS
<1>4. /\ s \in D!Process /\ s.at = r.at /\ s.number = r.number
      /\ s.jobs[n] = j /\ \A m \in D!Job : m # n => s.jobs[m] = r.jobs[m]
      /\ s.idle = r.idle /\ s.lost = r.lost /\ s.writes = r.writes
  BY <1>2, <1>3, JobMoves
<1>5. proc' = [proc EXCEPT ![p] = s]
  BY <1>1, <1>3 DEF ProcessTypes, D!TypeOK
<1>6. Awake(r)
  BY <1>1 DEF ProcessTypes
<1>7. Moves(p, s)
  BY <1>4, <1>5, <1>6 DEF Moves, Awake
<1> QED
  BY <1>1, <1>4, <1>7, Zenon

LEMMA IdleMoves ==
  ASSUME ProcessTypes, NEW p \in Procs, D!LooksIdle(p)
  PROVE  \E r : /\ Moves(p, r) /\ r.at \in {"up", "leaving"} /\ r.lost = proc[p].lost
                /\ r.number = proc[p].number /\ r.jobs = proc[p].jobs /\ r.writes = proc[p].writes
                /\ r.at = "leaving" => ~D!Needed(p)
<1>1. PICK r : r = proc[p]
  OBVIOUS
<1>2. r \in D!Process /\ r.at = "up" /\ "leaving" \in D!At
  BY <1>1 DEF ProcessTypes, D!TypeOK, D!At, D!LooksIdle, D!Is
<1>3. CASE D!Needed(p)
  <2>1. proc' = [proc EXCEPT ![p] = [r EXCEPT !.idle = 0]]
    BY <1>1, <1>3 DEF D!LooksIdle, ProcessTypes, D!TypeOK
  <2>2. LET s == [r EXCEPT !.idle = 0] IN
        /\ s \in D!Process /\ s.at = r.at /\ s.number = r.number /\ s.jobs = r.jobs
        /\ s.lost = r.lost /\ s.writes = r.writes /\ s.idle = 0
    BY <1>2 DEF D!Process
  <2> QED
    BY ZenonT(60), <1>1, <1>2, <2>1, <2>2 DEF Moves, Awake
<1>4. CASE ~D!Needed(p)
  <2>1. PICK at : at = IF r.idle > 0 THEN "leaving" ELSE "up"
    OBVIOUS
  <2>2. PICK k : k = r.idle + 1
    OBVIOUS
  <2>3. r.idle \in {0, 1}
    BY <1>1, <1>2 DEF ProcessTypes, Awake
  <2>4. at \in {"up", "leaving"} /\ k \in {1, 2} /\ (at # "leaving" => k = 1)
    BY <2>1, <2>2, <2>3
  <2>5. PICK s : s = [r EXCEPT !.idle = k, !.at = at]
    OBVIOUS
  <2>6. proc' = [proc EXCEPT ![p] = s]
    BY <1>1, <1>2, <1>4, <2>1, <2>2, <2>5 DEF D!LooksIdle, ProcessTypes, D!TypeOK
  <2>7. /\ s \in D!Process /\ s.at = at /\ s.number = r.number /\ s.jobs = r.jobs
        /\ s.lost = r.lost /\ s.writes = r.writes /\ s.idle = k
    <3>1. at \in D!At /\ k \in 0 .. 2
      BY <2>4 DEF D!At
    <3> QED
      BY <1>2, <2>5, <3>1 DEF D!Process
  <2>8. Moves(p, s)
    BY <2>4, <2>6, <2>7 DEF Moves, Awake
  <2> QED
    BY <1>1, <1>4, <2>4, <2>7, <2>8
<1> QED
  BY <1>3, <1>4

-----------------------------------------------------------------------------
(* Who serves. *)

\* An action of one that serves as before.
LEMMA ServesOn ==
  ASSUME Placed, ProcessTypes, OneServes, NEW p \in Procs, NEW r, Moves(p, r), owner' = owner,
         r.at \in ServesAt <=> D!Serves(p), r.lost = proc[p].lost,
         r.lost => r.at = "claiming" \/ r.at \in ServesAt, r.writes => D!Serves(p),
         \A n \in D!Job : r.jobs[n] # "none" => D!Serves(p)
  PROVE  OneServes'
<1>1. /\ proc' \in [Procs -> D!Process] /\ proc'[p] = r
      /\ \A q \in Procs : q # p => proc'[q] = proc[q]
  BY OneMoves
<1>2. \A q \in Procs : D!Serves(q)' <=> D!Serves(q)
  BY <1>1 DEF D!Serves, ServesAt
<1>3. \A q \in Procs : proc'[q].lost = proc[q].lost
  BY <1>1
<1>4. \A q \in Procs : proc'[q].lost => owner' = D!None /\ (D!Is(q, "claiming")' \/ D!Serves(q)')
  BY <1>1, <1>2 DEF OneServes, D!Is, D!Serves, ServesAt
<1>5. \A q \in Procs : proc'[q].writes => D!Serves(q)'
  BY <1>1, <1>2 DEF OneServes
<1>6. \A q \in Procs, n \in D!Job : proc'[q].jobs[n] # "none" => D!Serves(q)'
  BY <1>1, <1>2 DEF OneServes
<1> QED
  BY <1>2, <1>3, <1>4, <1>5, <1>6 DEF OneServes

\* One that has ended, or begins again.
LEMMA ServesNot ==
  ASSUME Placed, ProcessTypes, OneServes, NEW p \in Procs, NEW r, Moves(p, r), Blank(r),
         owner' = IF owner = p THEN D!None ELSE owner
  PROVE  OneServes'
<1>1. /\ proc' \in [Procs -> D!Process] /\ proc'[p] = r
      /\ \A q \in Procs : q # p => proc'[q] = proc[q]
  BY OneMoves
<1>2. \A q \in Procs : D!Serves(q)' => D!Serves(q) /\ q # p
  BY <1>1 DEF D!Serves, Blank
<1>3. \A q \in Procs : q # p => D!Serves(q)' = D!Serves(q)
  BY <1>1 DEF D!Serves
<1>4. \A q \in Procs : owner' = q => D!Serves(q)'
  BY <1>3 DEF OneServes, Placed
<1>5. \A q \in Procs : D!Serves(q)' => owner' = q \/ proc'[q].lost
  BY <1>1, <1>2 DEF OneServes
<1>6. \A q \in Procs : proc'[q].lost => owner' = D!None /\ (D!Is(q, "claiming")' \/ D!Serves(q)')
  BY <1>1, <1>3 DEF OneServes, Blank, D!Is
<1>7. \A q \in Procs : proc'[q].writes => D!Serves(q)'
  BY <1>1, <1>3 DEF OneServes, Blank
<1>8. \A q \in Procs, n \in D!Job : proc'[q].jobs[n] # "none" => D!Serves(q)'
  BY <1>1, <1>3 DEF OneServes, Blank
<1>9. \A q, t \in Procs : D!Serves(q)' /\ D!Serves(t)' => q = t
  BY <1>2 DEF OneServes
<1> QED
  BY <1>4, <1>5, <1>6, <1>7, <1>8, <1>9 DEF OneServes

LEMMA ClaimsMoves ==
  ASSUME ProcessTypes, NEW p \in Procs, D!Claims(p), owner = D!None
  PROVE  \E r : /\ Moves(p, r) /\ r.at = "claimed" /\ ~r.lost
                /\ r.number = proc[p].number /\ r.jobs = proc[p].jobs /\ r.writes = proc[p].writes
<1>1. PICK r : r = proc[p]
  OBVIOUS
<1>2. r \in D!Process /\ "claimed" \in D!At /\ ~r.lost
  BY <1>1 DEF ProcessTypes, D!TypeOK, D!At, D!Claims
<1>3. PICK s : s = [r EXCEPT !.at = "claimed"]
  OBVIOUS
<1>4. /\ s \in D!Process /\ s.at = "claimed" /\ s.number = r.number /\ s.jobs = r.jobs
      /\ s.idle = r.idle /\ s.lost = r.lost /\ s.writes = r.writes
  BY <1>2, <1>3, AtMoves
<1>5. proc' = [proc EXCEPT ![p] = s]
  BY <1>1, <1>3 DEF D!Claims, D!Goes, ProcessTypes, D!TypeOK
<1>6. r.idle \in {0, 1}
  BY <1>1 DEF D!Claims, D!Is, ProcessTypes, Awake
<1> QED
  BY <1>1, <1>2, <1>4, <1>5, <1>6 DEF Moves, Awake

\* The name is there for the taking: nobody serves.
LEMMA ClaimedServes ==
  ASSUME Placed, ProcessTypes, OneServes, NEW p \in Procs, D!Claims(p), owner = D!None
  PROVE  OneServes' /\ owner' = p
<1>1. PICK r : /\ Moves(p, r) /\ r.at = "claimed" /\ ~r.lost
               /\ r.number = proc[p].number /\ r.jobs = proc[p].jobs /\ r.writes = proc[p].writes
  BY ClaimsMoves
<1>2. /\ proc' \in [Procs -> D!Process] /\ proc'[p] = r
      /\ \A q \in Procs : q # p => proc'[q] = proc[q]
  BY <1>1, OneMoves
<1>3. owner' = p
  BY DEF D!Claims
<1>4. \A q \in Procs : ~proc[q].lost
  BY DEF D!Claims, D!May, Placed
<1>5. \A q \in Procs : ~D!Serves(q)
  BY <1>4 DEF OneServes, Placed
<1>6. \A q \in Procs : D!Serves(q)' <=> q = p
  BY <1>1, <1>2, <1>5 DEF D!Serves
<1>7. \A q \in Procs : ~proc'[q].lost
  BY <1>1, <1>2, <1>4
<1>8. \A q \in Procs : ~proc[q].writes /\ \A n \in D!Job : proc[q].jobs[n] = "none"
  BY <1>5 DEF OneServes
<1>9. \A q \in Procs : ~proc'[q].writes /\ \A n \in D!Job : proc'[q].jobs[n] = "none"
  BY <1>1, <1>2, <1>8
<1> QED
  BY <1>3, <1>6, <1>7, <1>9 DEF OneServes

LEMMA LosesBus ==
  ASSUME Placed, ProcessTypes, OneServes, D!BusGoes
  PROVE  /\ OneServes' /\ proc' \in [Procs -> D!Process]
         /\ \A q \in Procs : /\ proc'[q].at = proc[q].at /\ proc'[q].jobs = proc[q].jobs
                             /\ proc'[q].number = proc[q].number /\ Awake(proc'[q])
                             /\ D!Is(q, "claiming") => proc'[q].lost
<1>1. proc' = [q \in Procs |-> IF D!Is(q, "claiming") \/ D!Serves(q)
                               THEN [proc[q] EXCEPT !.lost = TRUE] ELSE proc[q]]
  BY DEF D!BusGoes
<1>2. ASSUME NEW q \in Procs
      PROVE  /\ proc'[q] \in D!Process
             /\ proc'[q].at = proc[q].at /\ proc'[q].jobs = proc[q].jobs
             /\ proc'[q].number = proc[q].number /\ proc'[q].idle = proc[q].idle
             /\ proc'[q].writes = proc[q].writes
             /\ D!Is(q, "claiming") \/ D!Serves(q) => proc'[q].lost
             /\ ~(D!Is(q, "claiming") \/ D!Serves(q)) => proc'[q].lost = proc[q].lost
  <2>1. PICK r : r = proc[q] /\ r \in D!Process
    BY DEF ProcessTypes, D!TypeOK
  <2>2. CASE D!Is(q, "claiming") \/ D!Serves(q)
    <3>1. proc'[q] = [r EXCEPT !.lost = TRUE]
      BY <1>1, <2>1, <2>2
    <3> QED
      BY <2>1, <2>2, <3>1 DEF D!Process
  <2>3. CASE ~(D!Is(q, "claiming") \/ D!Serves(q))
    <3>1. proc'[q] = r
      BY <1>1, <2>1, <2>3
    <3> QED
      BY <2>1, <2>3, <3>1
  <2> QED
    BY <2>2, <2>3
<1>3. proc' \in [Procs -> D!Process]
  BY <1>1, <1>2
<1>4. \A q \in Procs : (D!Serves(q)' <=> D!Serves(q)) /\ (D!Is(q, "claiming")' <=> D!Is(q, "claiming"))
  BY <1>2 DEF D!Serves, D!Is
<1>5. owner' = D!None
  BY DEF D!BusGoes
<1>6. \A q \in Procs : proc'[q].lost => D!Is(q, "claiming")' \/ D!Serves(q)'
  BY <1>2, <1>4 DEF OneServes
<1>7. \A q \in Procs : D!Serves(q)' => proc'[q].lost
  BY <1>2, <1>4
<1>8. \A q \in Procs : proc'[q].writes => D!Serves(q)'
  BY <1>2, <1>4 DEF OneServes
<1>9. \A q \in Procs, n \in D!Job : proc'[q].jobs[n] # "none" => D!Serves(q)'
  BY <1>2, <1>4 DEF OneServes
<1>10. \A q, t \in Procs : D!Serves(q)' /\ D!Serves(t)' => q = t
  BY <1>4 DEF OneServes
<1>11. \A q \in Procs : owner' # q
  BY <1>5 DEF Placed
<1>12. OneServes'
  BY <1>5, <1>6, <1>7, <1>8, <1>9, <1>10, <1>11 DEF OneServes
<1> QED
  BY <1>2, <1>3, <1>12 DEF ProcessTypes, Awake

-----------------------------------------------------------------------------
(* An action of one process, of the bus, or of the person. *)

Ending(p) ==
  D!IsStopped(p) \/ D!Fails(p) \/ D!NoticesBus(p) \/ D!Leaves(p)
ByTheWay == D!WindowMoves \/ D!Sets \/ D!UnitByHand \/ \E change \in D!Change : D!Reconciles(change)

LEMMA EndingIs ==
  ASSUME Placed, NEW p \in Procs, Ending(p)
  PROVE  /\ \E at \in {"down", "failed"} : D!Ends(p, at)
         /\ UNCHANGED <<staging, background, unit, byHand, window, started>>
         /\ events' = events \/ D!Happens
BY DEF Ending, D!IsStopped, D!Fails, D!NoticesBus, D!Leaves

LEMMA ActionsAre ==
  ASSUME D!Next
  PROVE  \/ \E p \in Procs :
              \/ D!Starting(p) \/ D!Restarts(p) \/ D!Loads(p) \/ D!Clears(p) \/ D!LooksAtSnapper(p)
              \/ D!Claims(p) \/ D!Acts(p) \/ D!Prepares(p) \/ D!IsPrepared(p) \/ D!IsOver(p)
              \/ Ending(p) \/ D!LooksIdle(p)
         \/ D!BusGoes \/ ByTheWay
BY DEF D!Next, Ending, ByTheWay

\* One that ends, or begins.
LEMMA LaidDown ==
  ASSUME Placed, ProcessTypes, OneServes, NEW p \in Procs,
         Ending(p) \/ D!Starting(p) \/ D!Restarts(p) \/ (D!Claims(p) /\ owner # D!None)
  PROVE  /\ \E r : Moves(p, r) /\ Blank(r)
         /\ owner' = IF owner = p THEN D!None ELSE owner
         /\ UNCHANGED <<staging, background, unit, byHand, window>>
         /\ owner # p => UNCHANGED applying
         /\ owner = p => applying' = {} /\ (D!Holds(p) => ~\E q \in Procs : D!Is(q, "claiming"))
<1>1. CASE Ending(p)
  <2>1. PICK at \in {"down", "failed"} : D!Ends(p, at)
    BY <1>1, EndingIs
  <2>2. \E r : Moves(p, r) /\ Blank(r)
    BY <2>1, EndsMoves
  <2> QED
    BY <1>1, <2>1, <2>2, EndingIs DEF D!Ends, D!May, Placed
<1>2. CASE D!Starting(p) \/ D!Restarts(p)
  <2>1. /\ D!Begins(p) /\ UNCHANGED <<owner, staging, D!Settings, window>>
        /\ (D!Is(p, "down") \/ D!Is(p, "failed"))
    BY <1>2 DEF D!Starting, D!Restarts
  <2>2. \E r : Moves(p, r) /\ Blank(r)
    BY <2>1, BeginsMoves
  <2>3. owner # p
    BY <2>1 DEF OneServes, D!Is, D!Serves
  <2> QED
    BY <2>1, <2>2, <2>3 DEF D!Settings
<1>3. CASE D!Claims(p) /\ owner # D!None
  <2>1. proc' = [proc EXCEPT ![p] = D!Down] /\ UNCHANGED owner
    BY <1>3 DEF D!Claims
  <2>2. PICK d : d = D!Down
    OBVIOUS
  <2>3. Blank(d)
    BY <2>2, DownIs
  <2>4. \E r : Moves(p, r) /\ Blank(r)
    <3>1. d \in D!Process /\ Awake(d)
      BY <2>3 DEF Blank, Awake
    <3>2. Moves(p, d) /\ Blank(d)
      BY <2>1, <2>2, <2>3, <3>1 DEF Moves
    <3> QED
      BY Zenon, <3>2
  <2>5. owner # p
    BY <1>3 DEF OneServes, D!Is, D!Serves, D!Claims
  <2> QED
    BY <1>3, <2>1, <2>4, <2>5 DEF D!Claims, D!Settings
<1> QED
  BY <1>1, <1>2, <1>3

\* One that goes on.
LEMMA GoesOn ==
  ASSUME Placed, ProcessTypes, OneServes, NEW p \in Procs,
         D!Loads(p) \/ D!LooksAtSnapper(p) \/ D!Acts(p) \/ D!LooksIdle(p)
  PROVE  /\ \E r : /\ Moves(p, r) /\ (r.at \in ServesAt <=> D!Serves(p))
                   /\ r.lost = proc[p].lost /\ r.number = proc[p].number
                   /\ r.jobs = proc[p].jobs /\ (r.writes => D!Serves(p))
                   /\ r.lost => r.at = "claiming" \/ r.at \in ServesAt
                   /\ r.at = "claiming" <=> D!Is(p, "claiming")
                   /\ r.at = "leaving" => D!Is(p, "leaving") \/ ~D!Needed(p)
                   /\ ~D!Acts(p) => (r.at = "up" => D!Is(p, "up"))
         /\ UNCHANGED <<owner, staging, background, unit, byHand, window>>
         /\ ~D!Acts(p) => UNCHANGED applying
<1>1. proc[p].writes => D!Serves(p)
  BY DEF OneServes
<1>2. proc[p].lost => D!Is(p, "claiming") \/ D!Serves(p)
  BY DEF OneServes
<1>3. CASE D!Loads(p)
  <2>1. PICK r : /\ Moves(p, r) /\ r.at = "clearing" /\ r.lost = proc[p].lost
                 /\ r.number = proc[p].number /\ r.jobs = proc[p].jobs /\ r.writes = proc[p].writes
    BY <1>3, LoadsMoves
  <2>2. ~D!Serves(p) /\ ~D!Is(p, "claiming")
    BY <1>3 DEF D!Loads, D!Is, D!Serves
  <2>3. r.at \notin ServesAt
    BY <2>1 DEF ServesAt
  <2> QED
    BY <1>1, <1>2, <1>3, <2>1, <2>2, <2>3 DEF D!Loads, D!Settings
<1>4. CASE D!LooksAtSnapper(p)
  <2>1. PICK r : /\ Moves(p, r) /\ r.at = proc[p].at /\ r.lost = proc[p].lost
                 /\ r.number = proc[p].number /\ r.jobs = proc[p].jobs /\ r.writes
    BY <1>4, SnapperMoves
  <2>2. proc[p].at = "claimed"
    BY <1>4 DEF D!LooksAtSnapper, D!Is, D!May, Placed
  <2> QED
    BY <1>4, <2>1, <2>2 DEF D!LooksAtSnapper, D!Settings, D!Serves, ServesAt,
        D!Is
<1>5. CASE D!Acts(p)
  <2>1. PICK r : /\ Moves(p, r) /\ r.at = "up" /\ r.lost = proc[p].lost
                 /\ r.number = proc[p].number /\ r.jobs = proc[p].jobs /\ r.writes
    BY <1>5, ActsMoves
  <2>2. proc[p].at = "claimed"
    BY <1>5 DEF D!Acts, D!Is
  <2> QED
    BY <1>5, <2>1, <2>2 DEF D!Acts, D!Serves, ServesAt, D!Is
<1>6. CASE D!LooksIdle(p)
  <2>1. PICK r : /\ Moves(p, r) /\ r.at \in {"up", "leaving"} /\ r.lost = proc[p].lost
                 /\ r.number = proc[p].number /\ r.jobs = proc[p].jobs /\ r.writes = proc[p].writes
                 /\ r.at = "leaving" => ~D!Needed(p)
    BY <1>6, IdleMoves
  <2>2. proc[p].at = "up"
    BY <1>6 DEF D!LooksIdle, D!Is
  <2> QED
    BY <1>1, <1>6, <2>1, <2>2 DEF D!LooksIdle, D!Settings, D!Serves, ServesAt,
        D!Is
<1> QED
  BY <1>3, <1>4, <1>5, <1>6

\* What becomes of a restore.
LEMMA JobGoes ==
  ASSUME Placed, ProcessTypes, OneServes, NEW p \in Procs,
         D!Prepares(p) \/ D!IsPrepared(p) \/ D!IsOver(p)
  PROVE  /\ UNCHANGED <<owner, background, unit, byHand, applying, window>>
         /\ D!Serves(p)
         /\ \E n \in D!Job : \E r :
              /\ Moves(p, r) /\ r.at = proc[p].at /\ r.lost = proc[p].lost
              /\ r.number = proc[p].number /\ r.writes = proc[p].writes
              /\ \A m \in D!Job : m # n => r.jobs[m] = proc[p].jobs[m]
              /\ \/ /\ D!Answers(p) /\ proc[p].jobs[n] = "none" /\ r.jobs[n] = "extracting"
                    /\ staging' = [staging EXCEPT ![n] = [of |-> proc[p].number, whole |-> FALSE]]
                 \/ /\ proc[p].jobs[n] = "extracting" /\ r.jobs[n] = "prepared"
                    /\ staging' = IF staging[n].of = proc[p].number
                                  THEN [staging EXCEPT ![n].whole = TRUE] ELSE staging
                 \/ /\ Held(p, n) /\ r.jobs[n] = "over"
                    /\ staging' = [staging EXCEPT ![n] = D!NoRestore]
<1>1. JobSteps = {"none", "extracting", "prepared", "over"}
  BY DEF JobSteps
<1>2. CASE D!Prepares(p)
  <2>1. PICK n \in D!Job :
          /\ proc[p].jobs[n] = "none"
          /\ proc' = [proc EXCEPT ![p].jobs[n] = "extracting"]
          /\ staging' = [staging EXCEPT ![n] = [of |-> proc[p].number, whole |-> FALSE]]
    BY <1>2 DEF D!Prepares
  <2>2. PICK r : /\ Moves(p, r) /\ r.at = proc[p].at /\ r.lost = proc[p].lost
                 /\ r.number = proc[p].number /\ r.writes = proc[p].writes
                 /\ r.jobs[n] = "extracting" /\ \A m \in D!Job : m # n => r.jobs[m] = proc[p].jobs[m]
    BY ZenonT(60), <1>1, <2>1, JobSet
  <2>3. D!Answers(p) /\ D!Serves(p) /\ UNCHANGED <<owner, D!Settings, window>>
    BY <1>2 DEF D!Prepares, D!Answers
  <2> QED
    BY <2>1, <2>2, <2>3, Zenon DEF D!Settings
<1>3. CASE D!IsPrepared(p)
  <2>1. PICK n \in D!Job :
          /\ proc[p].jobs[n] = "extracting"
          /\ proc' = [proc EXCEPT ![p].jobs[n] = "prepared"]
          /\ staging' = IF staging[n].of = proc[p].number
                        THEN [staging EXCEPT ![n].whole = TRUE] ELSE staging
          /\ UNCHANGED <<owner, D!Settings, window, started, events>>
    BY <1>3 DEF D!IsPrepared
  <2>2. PICK r : /\ Moves(p, r) /\ r.at = proc[p].at /\ r.lost = proc[p].lost
                 /\ r.number = proc[p].number /\ r.writes = proc[p].writes
                 /\ r.jobs[n] = "prepared" /\ \A m \in D!Job : m # n => r.jobs[m] = proc[p].jobs[m]
    BY ZenonT(60), <1>1, <2>1, JobSet
  <2>3. D!Serves(p)
    BY <2>1 DEF OneServes
  <2> QED
    BY <2>1, <2>2, <2>3, Zenon DEF D!Settings
<1>4. CASE D!IsOver(p)
  <2>1. PICK n \in D!Job :
          /\ Held(p, n)
          /\ proc' = [proc EXCEPT ![p].jobs[n] = "over"]
          /\ staging' = [staging EXCEPT ![n] = D!NoRestore]
          /\ UNCHANGED <<owner, D!Settings, window, started, events>>
    BY <1>4 DEF D!IsOver, Held
  <2>2. PICK r : /\ Moves(p, r) /\ r.at = proc[p].at /\ r.lost = proc[p].lost
                 /\ r.number = proc[p].number /\ r.writes = proc[p].writes
                 /\ r.jobs[n] = "over" /\ \A m \in D!Job : m # n => r.jobs[m] = proc[p].jobs[m]
    BY ZenonT(60), <1>1, <2>1, JobSet
  <2>3. D!Serves(p)
    BY <2>1 DEF OneServes, Held
  <2> QED
    BY <2>1, <2>2, <2>3, Zenon DEF D!Settings
<1> QED
  BY <1>2, <1>3, <1>4

-----------------------------------------------------------------------------
(* What every step keeps. *)

LEMMA OneServesKept ==
  ASSUME Placed, ProcessTypes, OneServes, D!Next
  PROVE  OneServes'
<1>1. ASSUME NEW p \in Procs,
             Ending(p) \/ D!Starting(p) \/ D!Restarts(p) \/ (D!Claims(p) /\ owner # D!None)
      PROVE  OneServes'
  BY <1>1, LaidDown, ServesNot
<1>2. ASSUME NEW p \in Procs, D!Loads(p) \/ D!LooksAtSnapper(p) \/ D!Acts(p) \/ D!LooksIdle(p)
      PROVE  OneServes'
  <2>1. PICK r : /\ Moves(p, r) /\ (r.at \in ServesAt <=> D!Serves(p))
                 /\ r.lost = proc[p].lost /\ r.jobs = proc[p].jobs /\ (r.writes => D!Serves(p))
                 /\ r.lost => r.at = "claiming" \/ r.at \in ServesAt
    BY <1>2, GoesOn, Zenon
  <2>2. owner' = owner
    BY <1>2, GoesOn
  <2>3. \A n \in D!Job : r.jobs[n] # "none" => D!Serves(p)
    BY <2>1 DEF OneServes
  <2> QED
    BY <2>1, <2>2, <2>3, ServesOn
<1>3. ASSUME NEW p \in Procs, D!Clears(p) PROVE OneServes'
  <2>1. PICK r : /\ Moves(p, r) /\ r.at = "claiming" /\ r.lost = proc[p].lost
                 /\ r.number = proc[p].number /\ r.jobs = proc[p].jobs /\ r.writes = proc[p].writes
    BY <1>3, ClearsMoves
  <2>2. ~D!Serves(p) /\ owner' = owner
    BY <1>3 DEF D!Clears, D!Is, D!Serves
  <2>3. r.at \notin ServesAt
    BY <2>1 DEF ServesAt
  <2>4. ~proc[p].writes /\ \A n \in D!Job : proc[p].jobs[n] = "none"
    BY <2>2 DEF OneServes
  <2> QED
    BY <2>1, <2>2, <2>3, <2>4, ServesOn
<1>4. ASSUME NEW p \in Procs, D!Prepares(p) \/ D!IsPrepared(p) \/ D!IsOver(p) PROVE OneServes'
  <2>1. D!Serves(p) /\ owner' = owner
    BY <1>4, JobGoes
  <2>2. PICK r : /\ Moves(p, r) /\ r.at = proc[p].at /\ r.lost = proc[p].lost
                 /\ r.number = proc[p].number /\ r.writes = proc[p].writes
    BY <1>4, JobGoes, Zenon
  <2>3. r.at \in ServesAt
    BY <2>1, <2>2 DEF D!Serves, ServesAt
  <2>4. \A n \in D!Job : r.jobs[n] # "none" => D!Serves(p)
    BY <2>1
  <2>5. r.lost => r.at = "claiming" \/ r.at \in ServesAt
    BY <2>3
  <2>6. (r.writes => D!Serves(p)) /\ (r.at \in ServesAt <=> D!Serves(p)) /\ r.lost = proc[p].lost
    BY <2>1, <2>2, <2>3
  <2> QED
    BY <2>1, <2>2, <2>4, <2>5, <2>6, ServesOn
<1>5. ASSUME NEW p \in Procs, D!Claims(p), owner = D!None PROVE OneServes'
  BY <1>5, ClaimedServes
<1>6. CASE D!BusGoes
  BY <1>6, LosesBus
<1>7. CASE ByTheWay
  <2>1. UNCHANGED <<proc, owner>>
    BY <1>7 DEF ByTheWay, D!WindowMoves, D!Sets, D!UnitByHand,
        D!Reconciles
  <2> QED
    BY <2>1 DEF OneServes, D!Serves, D!Is
<1> QED
  BY <1>1, <1>2, <1>3, <1>4, <1>5, <1>6, <1>7, ActionsAre

LEMMA ReconcilesTypes ==
  ASSUME ProcessTypes, NEW change \in D!Change, D!Reconciles(change)
  PROVE  applying' \subseteq D!Change /\ unit' \in D!UnitState /\ byHand' \in BOOLEAN
<1>1. CASE change.step = "ask"
  <2>1. [change EXCEPT !.step = "set"] \in D!Change
    BY DEF D!Change
  <2> QED
    BY <1>1, <2>1 DEF D!Reconciles, ProcessTypes, D!TypeOK
<1>2. CASE change.step = "set"
  BY <1>2 DEF D!Reconciles, ProcessTypes, D!TypeOK, D!UnitState
<1> QED
  BY <1>1, <1>2 DEF D!Change

LEMMA TypesKept ==
  ASSUME Placed, ProcessTypes, OneServes, D!Next
  PROVE  ProcessTypes'
<1>1. /\ applying \subseteq D!Change /\ background \in BOOLEAN /\ unit \in D!UnitState
      /\ byHand \in BOOLEAN /\ window \in BOOLEAN /\ owner \in Procs \cup {D!None}
      /\ started \in 0 .. Starts /\ events \in 0 .. Events /\ staging \in [D!Job -> Staged]
      /\ proc \in [Procs -> D!Process] /\ \A p \in Procs : Awake(proc[p])
  BY DEF ProcessTypes, D!TypeOK, Staged
<1>2. proc' \in [Procs -> D!Process] /\ \A p \in Procs : Awake(proc'[p])
  <2>1. ASSUME NEW p \in Procs, NEW r, Moves(p, r)
        PROVE  proc' \in [Procs -> D!Process] /\ \A q \in Procs : Awake(proc'[q])
    <3>1. /\ proc' \in [Procs -> D!Process] /\ proc'[p] = r
          /\ \A q \in Procs : q # p => proc'[q] = proc[q]
      BY <2>1, OneMoves
    <3>2. Awake(r)
      BY <2>1 DEF Moves
    <3>3. ASSUME NEW q \in Procs PROVE Awake(proc'[q])
      <4>1. CASE q = p
        BY <3>1, <3>2, <4>1
      <4>2. CASE q # p
        BY <1>1, <3>1, <4>2
      <4> QED
        BY <4>1, <4>2
    <3> QED
      BY <3>1, <3>3
  <2>2. ASSUME NEW p \in Procs,
               \/ Ending(p) \/ D!Starting(p) \/ D!Restarts(p) \/ D!Claims(p)
               \/ D!Loads(p) \/ D!LooksAtSnapper(p) \/ D!Acts(p) \/ D!LooksIdle(p) \/ D!Clears(p)
               \/ D!Prepares(p) \/ D!IsPrepared(p) \/ D!IsOver(p)
        PROVE  \E r : Moves(p, r)
    <3>1. CASE Ending(p) \/ D!Starting(p) \/ D!Restarts(p) \/ (D!Claims(p) /\ owner # D!None)
      BY <3>1, LaidDown
    <3>2. CASE D!Loads(p) \/ D!LooksAtSnapper(p) \/ D!Acts(p) \/ D!LooksIdle(p)
      <4>1. PICK r : Moves(p, r) /\ r.lost = proc[p].lost
        BY <3>2, GoesOn, Zenon
      <4> QED
        BY <4>1
    <3>3. CASE D!Clears(p)
      BY <3>3, ClearsMoves
    <3>4. CASE D!Prepares(p) \/ D!IsPrepared(p) \/ D!IsOver(p)
      BY <3>4, JobGoes, Zenon
    <3>5. CASE D!Claims(p) /\ owner = D!None
      BY <3>5, ClaimsMoves
    <3> QED
      BY <2>2, <3>1, <3>2, <3>3, <3>4, <3>5
  <2>3. CASE D!BusGoes
    BY <2>3, LosesBus
  <2>4. CASE ByTheWay
    <3>1. UNCHANGED proc
      BY <2>4 DEF ByTheWay, D!WindowMoves, D!Sets, D!UnitByHand,
          D!Reconciles
    <3> QED
      BY <1>1, <3>1
  <2> QED
    BY <2>1, <2>2, <2>3, <2>4, ActionsAre
<1>3. owner' \in Procs \cup {D!None}
  <2>1. CASE D!BusGoes \/ ByTheWay
    BY <1>1, <2>1 DEF D!BusGoes, ByTheWay, D!WindowMoves, D!Sets,
        D!UnitByHand, D!Reconciles
  <2>2. ASSUME NEW p \in Procs, D!Claims(p) PROVE owner' \in Procs \cup {D!None}
    BY <1>1, <2>2 DEF D!Claims
  <2>3. ASSUME NEW p \in Procs, Ending(p) \/ D!Starting(p) \/ D!Restarts(p)
        PROVE  owner' \in Procs \cup {D!None}
    BY <1>1, <2>3, LaidDown
  <2>4. ASSUME NEW p \in Procs, \/ D!Loads(p) \/ D!LooksAtSnapper(p) \/ D!Acts(p) \/ D!LooksIdle(p)
                                \/ D!Prepares(p) \/ D!IsPrepared(p) \/ D!IsOver(p) \/ D!Clears(p)
        PROVE  owner' = owner
    <3>1. CASE D!Clears(p)
      BY <3>1 DEF D!Clears
    <3>2. CASE D!Prepares(p) \/ D!IsPrepared(p) \/ D!IsOver(p)
      BY <3>2, JobGoes
    <3> QED
      BY <2>4, <3>1, <3>2, GoesOn
  <2> QED
    BY <1>1, <2>1, <2>2, <2>3, <2>4, ActionsAre
<1>4. started' \in 0 .. Starts
  <2>1. started' = started \/ (started < Starts /\ started' = started + 1)
    BY DEF D!Next, D!Starting, D!Restarts, D!Begins, D!Loads,
        D!Clears, D!LooksAtSnapper, D!Claims, D!Acts, D!Prepares,
           D!IsPrepared, D!IsOver, D!IsStopped, D!Fails,
           D!NoticesBus, D!LooksIdle, D!Leaves, D!Reconciles,
           D!BusGoes, D!WindowMoves, D!Sets, D!UnitByHand
  <2> QED
    BY <1>1, <2>1 DEF Placed
<1>5. events' \in 0 .. Events
  <2>1. events' = events \/ D!Happens
    BY DEF D!Next, D!Starting, D!Restarts, D!Loads, D!Clears,
        D!LooksAtSnapper, D!Claims, D!Acts, D!Prepares,
           D!IsPrepared, D!IsOver, D!IsStopped, D!Fails,
           D!NoticesBus, D!LooksIdle, D!Leaves, D!Reconciles,
           D!BusGoes, D!WindowMoves, D!Sets, D!UnitByHand
  <2> QED
    BY <1>1, <2>1 DEF Placed, D!Happens
<1>6. staging' \in [D!Job -> Staged]
  <2>1. ASSUME NEW p \in Procs,
         D!Prepares(p) \/ D!IsPrepared(p) \/ D!IsOver(p)
        PROVE  staging' \in [D!Job -> Staged]
    <3>1. PICK n \in D!Job :
            \/ staging' = [staging EXCEPT ![n] = [of |-> proc[p].number, whole |-> FALSE]]
            \/ staging' = [staging EXCEPT ![n].whole = TRUE] \/ staging' = staging
            \/ staging' = [staging EXCEPT ![n] = D!NoRestore]
      BY <2>1, JobGoes
    <3>2. proc[p].number \in 0 .. Starts
      BY <1>1 DEF D!Process
    <3>3. CASE staging' = [staging EXCEPT ![n] = [of |-> proc[p].number, whole |-> FALSE]]
      BY <1>1, <3>2, <3>3 DEF Staged
    <3>4. CASE staging' = [staging EXCEPT ![n].whole = TRUE]
      BY <1>1, <3>4 DEF Staged
    <3>5. CASE staging' = [staging EXCEPT ![n] = D!NoRestore]
      BY <1>1, <3>5, NoneIs
    <3> QED
      BY <1>1, <3>1, <3>3, <3>4, <3>5
  <2>2. ASSUME NEW p \in Procs, D!Clears(p) PROVE staging' \in [D!Job -> Staged]
    BY <2>2, NoneIs DEF D!Clears
  <2>3. ASSUME NEW p \in Procs, Ending(p) \/ D!Starting(p) \/ D!Restarts(p) PROVE staging' = staging
    BY <2>3, LaidDown
  <2>4. ASSUME NEW p \in Procs, D!Loads(p) \/ D!LooksAtSnapper(p) \/ D!Acts(p) \/ D!LooksIdle(p) \/ D!Claims(p)
        PROVE  staging' = staging
    BY <2>4 DEF D!Loads, D!LooksAtSnapper, D!Acts, D!LooksIdle,
        D!Claims
  <2>5. D!BusGoes \/ ByTheWay => staging' = staging
    BY DEF D!BusGoes, ByTheWay, D!WindowMoves, D!Sets, D!UnitByHand,
        D!Reconciles
  <2> QED
    BY <1>1, <2>1, <2>2, <2>3, <2>4, <2>5, ActionsAre
<1>7. /\ applying' \subseteq D!Change /\ background' \in BOOLEAN /\ unit' \in D!UnitState
      /\ byHand' \in BOOLEAN /\ window' \in BOOLEAN
  <2>1. ASSUME NEW w \in BOOLEAN PROVE [wanted |-> w, step |-> "ask"] \in D!Change
    BY DEF D!Change
  <2>2. ASSUME NEW p \in Procs, Ending(p) \/ D!Starting(p) \/ D!Restarts(p)
        PROVE  UNCHANGED <<background, unit, byHand, window>> /\ applying' \subseteq applying
    BY <2>2, LaidDown
  <2>3. ASSUME NEW p \in Procs,
               \/ D!Loads(p) \/ D!LooksAtSnapper(p) \/ D!LooksIdle(p) \/ D!Claims(p) \/ D!Clears(p)
               \/ D!Prepares(p) \/ D!IsPrepared(p) \/ D!IsOver(p)
        PROVE  UNCHANGED <<background, unit, byHand, window, applying>>
    BY <2>3 DEF D!Loads, D!LooksAtSnapper, D!LooksIdle, D!Claims,
        D!Clears, D!Prepares, D!IsPrepared, D!IsOver, D!Settings
  <2>4. ASSUME NEW p \in Procs, D!Acts(p)
        PROVE  UNCHANGED <<background, unit, byHand, window>> /\ applying' \subseteq D!Change
    BY <1>1, <2>1, <2>4 DEF D!Acts
  <2>5. CASE D!BusGoes
    BY <1>1, <2>5 DEF D!BusGoes
  <2>6. CASE ByTheWay
    <3>1. CASE D!WindowMoves
      BY <1>1, <3>1 DEF D!WindowMoves, D!Settings
    <3>2. CASE D!Sets
      BY <1>1, <2>1, <3>2 DEF D!Sets
    <3>3. CASE D!UnitByHand
      BY <1>1, <3>3 DEF D!UnitByHand
    <3>4. ASSUME NEW c \in D!Change, D!Reconciles(c)
          PROVE  /\ applying' \subseteq D!Change /\ unit' \in D!UnitState /\ byHand' \in BOOLEAN
                 /\ UNCHANGED <<background, window>>
      BY <3>4, ReconcilesTypes DEF D!Reconciles
    <3> QED
      BY <1>1, <2>6, <3>1, <3>2, <3>3, <3>4 DEF ByTheWay
  <2> QED
    BY <1>1, <2>2, <2>3, <2>4, <2>5, <2>6, ActionsAre
<1> QED
  BY <1>2, <1>3, <1>4, <1>5, <1>6, <1>7 DEF ProcessTypes, D!TypeOK, Staged

LEMMA StagedKept ==
  ASSUME Placed, ProcessTypes, OneServes, StagedAsHeld, D!Next
  PROVE  StagedAsHeld'
<1> USE DEF Held
<1>1. ASSUME NEW p \in Procs,
             Ending(p) \/ D!Starting(p) \/ D!Restarts(p) \/ (D!Claims(p) /\ owner # D!None)
      PROVE  StagedAsHeld'
  <2>1. PICK r : Moves(p, r) /\ Blank(r)
    BY <1>1, LaidDown
  <2>2. /\ owner' = IF owner = p THEN D!None ELSE owner
        /\ staging' = staging
        /\ owner = p => (D!Holds(p) => ~\E q \in Procs : D!Is(q, "claiming"))
    BY <1>1, LaidDown
  <2>3. proc'[p] = r /\ \A q \in Procs : q # p => proc'[q] = proc[q]
    BY <2>1, OneMoves
  <2>4. ASSUME NEW q \in Procs, NEW n \in D!Job
        PROVE  /\ proc'[q].jobs[n] = "prepared" => staging'[n] = [of |-> proc'[q].number, whole |-> TRUE]
               /\ proc'[q].jobs[n] = "extracting" => staging'[n].of = proc'[q].number
               /\ owner' = q /\ staging'[n].of # 0 => staging'[n].of = proc'[q].number /\ Held(q, n)'
    <3>1. CASE q = p
      BY <2>1, <2>2, <2>3, <3>1 DEF Blank, Placed
    <3>2. CASE q # p
      BY <2>2, <2>3, <3>2 DEF StagedAsHeld, Placed
    <3> QED
      BY <3>1, <3>2
  <2>5. ASSUME NEW q \in Procs, NEW n \in D!Job, D!Is(q, "claiming")', ~proc'[q].lost, owner' = D!None
        PROVE  staging'[n].of = 0
    <3>1. q # p /\ D!Is(q, "claiming") /\ ~proc[q].lost
      BY <2>1, <2>3, <2>5 DEF Blank, D!Is
    <3>2. CASE owner = D!None
      BY <2>2, <3>1, <3>2 DEF StagedAsHeld
    <3>3. CASE owner # D!None
      BY <2>2, <2>5, <3>1, <3>3 DEF StagedAsHeld, D!Holds
    <3> QED
      BY <3>2, <3>3
  <2> QED
    BY <2>4, <2>5 DEF StagedAsHeld
<1>2. ASSUME NEW p \in Procs, D!Loads(p) \/ D!LooksAtSnapper(p) \/ D!Acts(p) \/ D!LooksIdle(p)
      PROVE  StagedAsHeld'
  <2>1. PICK r : /\ Moves(p, r) /\ r.lost = proc[p].lost /\ r.number = proc[p].number
                 /\ r.jobs = proc[p].jobs /\ (r.at = "claiming" <=> D!Is(p, "claiming"))
    BY <1>2, GoesOn, Zenon
  <2>2. owner' = owner /\ staging' = staging
    BY <1>2 DEF D!Loads, D!LooksAtSnapper, D!Acts, D!LooksIdle
  <2>3. proc'[p] = r /\ \A q \in Procs : q # p => proc'[q] = proc[q]
    BY <2>1, OneMoves
  <2>4. \A q \in Procs : /\ proc'[q].number = proc[q].number /\ proc'[q].jobs = proc[q].jobs
                         /\ proc'[q].lost = proc[q].lost
                         /\ D!Is(q, "claiming")' <=> D!Is(q, "claiming")
    BY <2>1, <2>3 DEF D!Is
  <2> QED
    BY <2>2, <2>4 DEF StagedAsHeld
<1>3. ASSUME NEW p \in Procs, D!Clears(p) PROVE StagedAsHeld'
  <2>1. PICK r : /\ Moves(p, r) /\ r.at = "claiming" /\ r.lost = proc[p].lost
                 /\ r.number = proc[p].number /\ r.jobs = proc[p].jobs /\ r.writes = proc[p].writes
    BY <1>3, ClearsMoves
  <2>2. proc'[p] = r /\ \A q \in Procs : q # p => proc'[q] = proc[q]
    BY <2>1, OneMoves
  <2>3. \A q \in Procs, n \in D!Job : ~Held(q, n)
    BY <1>3 DEF D!Clears, D!Holds, D!May, Placed
  <2>4. \A q \in Procs, n \in D!Job : ~Held(q, n)'
    BY <2>1, <2>2, <2>3
  <2>5. \A n \in D!Job : staging'[n].of = 0
    BY <1>3, NoneIs DEF D!Clears
  <2> QED
    BY <2>4, <2>5 DEF StagedAsHeld
<1>4. ASSUME NEW p \in Procs, D!Prepares(p) \/ D!IsPrepared(p) \/ D!IsOver(p) PROVE StagedAsHeld'
  <2>1. owner' = owner /\ D!Serves(p)
    BY <1>4, JobGoes
  <2>2. PICK n \in D!Job : \E r :
              /\ Moves(p, r) /\ r.at = proc[p].at /\ r.lost = proc[p].lost
              /\ r.number = proc[p].number /\ r.writes = proc[p].writes
              /\ \A m \in D!Job : m # n => r.jobs[m] = proc[p].jobs[m]
              /\ \/ /\ D!Answers(p) /\ proc[p].jobs[n] = "none" /\ r.jobs[n] = "extracting"
                    /\ staging' = [staging EXCEPT ![n] = [of |-> proc[p].number, whole |-> FALSE]]
                 \/ /\ proc[p].jobs[n] = "extracting" /\ r.jobs[n] = "prepared"
                    /\ staging' = IF staging[n].of = proc[p].number
                                  THEN [staging EXCEPT ![n].whole = TRUE] ELSE staging
                 \/ /\ Held(p, n) /\ r.jobs[n] = "over"
                    /\ staging' = [staging EXCEPT ![n] = D!NoRestore]
    BY <1>4, JobGoes, Zenon
  <2>3. PICK r :
              /\ Moves(p, r) /\ r.at = proc[p].at /\ r.lost = proc[p].lost
              /\ r.number = proc[p].number /\ r.writes = proc[p].writes
              /\ \A m \in D!Job : m # n => r.jobs[m] = proc[p].jobs[m]
              /\ \/ /\ D!Answers(p) /\ proc[p].jobs[n] = "none" /\ r.jobs[n] = "extracting"
                    /\ staging' = [staging EXCEPT ![n] = [of |-> proc[p].number, whole |-> FALSE]]
                 \/ /\ proc[p].jobs[n] = "extracting" /\ r.jobs[n] = "prepared"
                    /\ staging' = IF staging[n].of = proc[p].number
                                  THEN [staging EXCEPT ![n].whole = TRUE] ELSE staging
                 \/ /\ Held(p, n) /\ r.jobs[n] = "over"
                    /\ staging' = [staging EXCEPT ![n] = D!NoRestore]
    BY <2>2
  <2>4. proc'[p] = r /\ \A q \in Procs : q # p => proc'[q] = proc[q]
    BY <2>3, OneMoves
  <2>5. \A q \in Procs, m \in D!Job : Held(q, m) => q = p
    BY <2>1 DEF OneServes
  <2>6. \A q \in Procs : /\ proc'[q].number = proc[q].number /\ proc'[q].lost = proc[q].lost
                         /\ D!Is(q, "claiming")' <=> D!Is(q, "claiming")
    BY <2>3, <2>4 DEF D!Is
  <2>7. staging \in [D!Job -> Staged]
    BY DEF ProcessTypes, D!TypeOK, Staged
  <2>8. \A m \in D!Job :
          m # n => staging'[m] = staging[m] /\ \A q \in Procs : proc'[q].jobs[m] = proc[q].jobs[m]
    <3>1. \A m \in D!Job : m # n => staging'[m] = staging[m]
      BY <2>3, <2>7
    <3>2. \A m \in D!Job, q \in Procs : m # n => proc'[q].jobs[m] = proc[q].jobs[m]
      BY <2>3, <2>4
    <3> QED
      BY <3>1, <3>2
  <2>9. /\ proc'[p].jobs[n] = "prepared" => staging'[n] = [of |-> proc[p].number, whole |-> TRUE]
        /\ proc'[p].jobs[n] = "extracting" => staging'[n].of = proc[p].number
        /\ owner = p /\ staging'[n].of # 0 => staging'[n].of = proc[p].number /\ Held(p, n)'
        /\ owner = D!None /\ staging[n].of = 0 => staging'[n].of = 0
    <3>1. CASE /\ D!Answers(p) /\ r.jobs[n] = "extracting"
               /\ staging' = [staging EXCEPT ![n] = [of |-> proc[p].number, whole |-> FALSE]]
      <4>1. staging'[n] = [of |-> proc[p].number, whole |-> FALSE]
        BY <2>7, <3>1
      <4>2. owner = p /\ owner # D!None
        BY <3>1 DEF D!Answers, Placed
      <4> QED
        BY <2>4, <3>1, <4>1, <4>2
    <3>2. CASE /\ proc[p].jobs[n] = "extracting" /\ r.jobs[n] = "prepared"
               /\ staging' = IF staging[n].of = proc[p].number
                             THEN [staging EXCEPT ![n].whole = TRUE] ELSE staging
      <4>1. staging[n].of = proc[p].number
        BY <3>2 DEF StagedAsHeld
      <4>2. PICK d : d = staging[n] /\ d \in Staged
        BY <2>7
      <4>3. staging'[n] = [d EXCEPT !.whole = TRUE]
        BY <2>7, <3>2, <4>1, <4>2
      <4>4. staging'[n] = [of |-> proc[p].number, whole |-> TRUE]
        BY <4>1, <4>2, <4>3 DEF Staged
      <4>5. staging'[n].of = proc[p].number
        BY <4>4
      <4> QED
        BY <2>4, <3>2, <4>1, <4>4, <4>5
    <3>3. CASE r.jobs[n] = "over" /\ staging' = [staging EXCEPT ![n] = D!NoRestore]
      BY <2>4, <2>7, <3>3, NoneIs
    <3> QED
      BY <2>3, <3>1, <3>2, <3>3
  <2>10. \A q \in Procs : q # p => ~Held(q, n)' /\ owner # q
    BY <2>1, <2>4, <2>5 DEF OneServes
  <2>11. ASSUME NEW q \in Procs, NEW m \in D!Job
         PROVE  /\ proc'[q].jobs[m] = "prepared" => staging'[m] = [of |-> proc'[q].number, whole |-> TRUE]
                /\ proc'[q].jobs[m] = "extracting" => staging'[m].of = proc'[q].number
                /\ owner' = q /\ staging'[m].of # 0 => staging'[m].of = proc'[q].number /\ Held(q, m)'
    <3>1. CASE m # n
      BY <2>1, <2>6, <2>8, <3>1 DEF StagedAsHeld
    <3>2. CASE m = n /\ q = p
      BY <2>1, <2>6, <2>9, <3>2
    <3>3. CASE m = n /\ q # p
      BY <2>1, <2>10, <3>3
    <3> QED
      BY <3>1, <3>2, <3>3
  <2>12. ASSUME NEW q \in Procs, NEW m \in D!Job, D!Is(q, "claiming")', ~proc'[q].lost, owner' = D!None
         PROVE  staging'[m].of = 0
    <3>1. staging[m].of = 0 /\ owner = D!None
      BY <2>1, <2>6, <2>12 DEF StagedAsHeld
    <3> QED
      BY <2>8, <2>9, <3>1
  <2> QED
    BY <2>11, <2>12 DEF StagedAsHeld
<1>5. ASSUME NEW p \in Procs, D!Claims(p), owner = D!None PROVE StagedAsHeld'
  <2>1. PICK r : /\ Moves(p, r) /\ r.at = "claimed" /\ ~r.lost
                 /\ r.number = proc[p].number /\ r.jobs = proc[p].jobs /\ r.writes = proc[p].writes
    BY <1>5, ClaimsMoves
  <2>2. proc'[p] = r /\ \A q \in Procs : q # p => proc'[q] = proc[q]
    BY <2>1, OneMoves
  <2>3. staging' = staging /\ \A n \in D!Job : staging[n].of = 0
    BY <1>5 DEF D!Claims, StagedAsHeld
  <2>4. \A q \in Procs, n \in D!Job : ~Held(q, n)
    <3>1. \A q \in Procs : ~D!Serves(q)
      BY <1>5 DEF OneServes, D!Claims, D!May, Placed
    <3> QED
      BY <3>1 DEF OneServes
  <2>5. \A q \in Procs, n \in D!Job : ~Held(q, n)'
    BY <2>1, <2>2, <2>4
  <2> QED
    BY <2>3, <2>5 DEF StagedAsHeld
<1>6. CASE D!BusGoes
  <2>1. \A q \in Procs : /\ proc'[q].jobs = proc[q].jobs /\ proc'[q].number = proc[q].number
                         /\ D!Is(q, "claiming")' => proc'[q].lost
    BY <1>6, LosesBus DEF D!Is
  <2>2. staging' = staging /\ owner' = D!None
    BY <1>6 DEF D!BusGoes
  <2> QED
    BY <2>1, <2>2 DEF StagedAsHeld, Placed
<1>7. CASE ByTheWay
  <2>1. UNCHANGED <<proc, owner, staging>>
    BY <1>7 DEF ByTheWay, D!WindowMoves, D!Sets, D!UnitByHand,
        D!Reconciles
  <2> QED
    BY <2>1 DEF StagedAsHeld, D!Is
<1> QED
  BY <1>1, <1>2, <1>3, <1>4, <1>5, <1>6, <1>7, ActionsAre

LEMMA LeavesKept ==
  ASSUME Placed, ProcessTypes, OneServes, D!LeavesNothing, D!Next
  PROVE  D!LeavesNothing'
<1>1. ASSUME NEW p \in Procs, NEW r, Moves(p, r), window' = window,
             r.at = "leaving" => ~D!Needed(p) \/ D!Is(p, "leaving"),
             \A n \in D!Job : r.jobs[n] = "extracting" => proc[p].jobs[n] = "extracting" \/ ~D!Is(p, "leaving"),
             r.jobs = proc[p].jobs \/ r.at = proc[p].at
      PROVE  D!LeavesNothing'
  <2>1. proc'[p] = r /\ \A q \in Procs : q # p => proc'[q] = proc[q]
    BY <1>1, OneMoves
  <2>2. ASSUME NEW q \in Procs, D!Is(q, "leaving")' PROVE ~D!Busy(q)' /\ ~window'
    <3>1. CASE q # p
      BY <1>1, <2>1, <2>2, <3>1 DEF D!LeavesNothing, D!Is, D!Busy
    <3>2. CASE q = p /\ D!Is(p, "leaving")
      BY <1>1, <2>1, <3>2 DEF D!LeavesNothing, D!Busy
    <3>3. CASE q = p /\ ~D!Is(p, "leaving")
      <4>1. r.at = "leaving" /\ proc[p].at # "leaving"
        BY <2>1, <2>2, <3>3 DEF D!Is
      <4>2. ~D!Needed(p) /\ r.jobs = proc[p].jobs
        BY <1>1, <3>3, <4>1
      <4> QED
        BY <1>1, <2>1, <3>3, <4>2 DEF D!Needed, D!Busy
    <3> QED
      BY <3>1, <3>2, <3>3
  <2> QED
    BY <2>2 DEF D!LeavesNothing
<1>2. ASSUME NEW p \in Procs,
             Ending(p) \/ D!Starting(p) \/ D!Restarts(p) \/ (D!Claims(p) /\ owner # D!None)
      PROVE  D!LeavesNothing'
  <2>1. PICK r : Moves(p, r) /\ Blank(r)
    BY <1>2, LaidDown
  <2>2. window' = window
    BY <1>2, LaidDown
  <2>3. proc'[p] = r /\ \A q \in Procs : q # p => proc'[q] = proc[q]
    BY <2>1, OneMoves
  <2> QED
    BY <2>1, <2>2, <2>3 DEF D!LeavesNothing, D!Is, D!Busy, Blank
<1>3. ASSUME NEW p \in Procs, D!Loads(p) \/ D!LooksAtSnapper(p) \/ D!Acts(p) \/ D!LooksIdle(p)
      PROVE  D!LeavesNothing'
  <2>1. PICK r : /\ Moves(p, r) /\ r.jobs = proc[p].jobs
                 /\ (r.at = "leaving" => D!Is(p, "leaving") \/ ~D!Needed(p))
    BY <1>3, GoesOn, Zenon
  <2>2. window' = window
    BY <1>3, GoesOn
  <2> QED
    BY <1>1, <2>1, <2>2
<1>4. ASSUME NEW p \in Procs, D!Clears(p) PROVE D!LeavesNothing'
  <2>1. PICK r : /\ Moves(p, r) /\ r.at = "claiming" /\ r.jobs = proc[p].jobs
    BY <1>4, ClearsMoves
  <2>2. window' = window
    BY <1>4 DEF D!Clears
  <2> QED
    BY <1>1, <2>1, <2>2
<1>5. ASSUME NEW p \in Procs, D!Prepares(p) \/ D!IsPrepared(p) \/ D!IsOver(p) PROVE D!LeavesNothing'
  <2>1. window' = window
    BY <1>5, JobGoes
  <2>2. PICK n \in D!Job : \E r :
          /\ Moves(p, r) /\ r.at = proc[p].at
          /\ \A m \in D!Job : m # n => r.jobs[m] = proc[p].jobs[m]
          /\ D!Answers(p) \/ r.jobs[n] \in {"prepared", "over"}
    BY <1>5, JobGoes
  <2>3. PICK r :
          /\ Moves(p, r) /\ r.at = proc[p].at
          /\ \A m \in D!Job : m # n => r.jobs[m] = proc[p].jobs[m]
          /\ D!Answers(p) \/ r.jobs[n] \in {"prepared", "over"}
    BY <2>2
  <2>4. D!Answers(p) => ~D!Is(p, "leaving")
    BY DEF D!Answers, D!May, Placed
  <2>5. r.at = "leaving" => D!Is(p, "leaving")
    BY <2>3 DEF D!Is
  <2>6. \A m \in D!Job : r.jobs[m] = "extracting" => proc[p].jobs[m] = "extracting" \/ ~D!Is(p, "leaving")
    BY <2>3, <2>4
  <2> QED
    BY <1>1, <2>1, <2>3, <2>5, <2>6
<1>6. ASSUME NEW p \in Procs, D!Claims(p), owner = D!None PROVE D!LeavesNothing'
  <2>1. PICK r : /\ Moves(p, r) /\ r.at = "claimed" /\ r.jobs = proc[p].jobs
    BY <1>6, ClaimsMoves
  <2>2. window' = window
    BY <1>6 DEF D!Claims
  <2> QED
    BY <1>1, <2>1, <2>2
<1>7. CASE D!BusGoes
  <2>1. \A q \in Procs : proc'[q].at = proc[q].at /\ proc'[q].jobs = proc[q].jobs
    BY <1>7, LosesBus
  <2>2. window' = window
    BY <1>7 DEF D!BusGoes
  <2> QED
    BY <2>1, <2>2 DEF D!LeavesNothing, D!Is, D!Busy
<1>8. CASE ByTheWay
  <2>1. UNCHANGED proc
    BY <1>8 DEF ByTheWay, D!WindowMoves, D!Sets, D!UnitByHand,
        D!Reconciles
  <2>2. window' = window \/ ~\E p \in Procs : D!Is(p, "leaving")
    BY <1>8 DEF ByTheWay, D!WindowMoves, D!Sets, D!UnitByHand,
        D!Reconciles, D!May, Placed
  <2> QED
    BY <2>1, <2>2 DEF D!LeavesNothing, D!Is, D!Busy
<1> QED
  BY <1>2, <1>3, <1>4, <1>5, <1>6, <1>7, <1>8, ActionsAre

\* What is told to the unit is what is set.
LEMMA ReconcilesLogin ==
  ASSUME ProcessTypes, LoginIs, NEW change \in D!Change, D!Reconciles(change)
  PROVE  LoginIs'
<1>1. /\ change \in applying /\ change.wanted = background /\ applying \subseteq {change}
      /\ background' = background /\ background \in BOOLEAN
  BY DEF LoginIs, D!Reconciles, ProcessTypes, D!TypeOK
<1>2. CASE change.step = "ask"
  <2>1. [change EXCEPT !.step = "set"].wanted = background
    BY <1>1 DEF D!Change
  <2>2. PICK next : next = [change EXCEPT !.step = "set"]
    OBVIOUS
  <2>3. /\ applying' = (applying \ {change}) \cup
             (IF D!AsWanted(unit, change.wanted) THEN {} ELSE {next})
        /\ unit' = unit
    BY <1>2, <2>2 DEF D!Reconciles
  <2>4. CASE D!AsWanted(unit, change.wanted)
    <3>1. applying' = {}
      BY <1>1, <2>3, <2>4
    <3>2. unit = "masked" \/ (unit = "enabled") = background
      BY <1>1, <2>4 DEF D!AsWanted, ProcessTypes, D!TypeOK, D!UnitState
    <3> QED
      BY <1>1, <2>3, <3>1, <3>2 DEF LoginIs, D!LoginFollows
  <2>5. CASE ~D!AsWanted(unit, change.wanted)
    <3>1. applying' = {next}
      BY <1>1, <2>3, <2>5
    <3> QED
      BY <1>1, <2>1, <2>2, <3>1 DEF LoginIs, D!LoginFollows
  <2> QED
    BY <2>4, <2>5
<1>3. CASE change.step = "set"
  <2>1. applying' = {}
    BY <1>1, <1>3 DEF D!Reconciles
  <2>2. unit' = IF background THEN "enabled" ELSE "disabled"
    BY <1>1, <1>3 DEF D!Reconciles
  <2>3. (unit' = "enabled") = background'
    BY <1>1, <2>2
  <2> QED
    BY <1>1, <2>1, <2>3 DEF LoginIs, D!LoginFollows
<1> QED
  BY <1>2, <1>3 DEF D!Change

LEMMA LoginKept ==
  ASSUME Placed, ProcessTypes, OneServes, LoginIs, D!Next
  PROVE  LoginIs'
<1>1. ASSUME UNCHANGED <<background, unit, byHand, applying>>,
             \A q \in Procs : owner' = q /\ D!Is(q, "up")' => owner = q /\ D!Is(q, "up")
      PROVE  LoginIs'
  BY <1>1 DEF LoginIs, D!LoginFollows
<1>2. ASSUME NEW p \in Procs,
             Ending(p) \/ D!Starting(p) \/ D!Restarts(p) \/ (D!Claims(p) /\ owner # D!None)
      PROVE  LoginIs'
  <2>1. PICK r : Moves(p, r) /\ Blank(r)
    BY <1>2, LaidDown
  <2>2. /\ owner' = IF owner = p THEN D!None ELSE owner
        /\ UNCHANGED <<background, unit, byHand>>
        /\ owner # p => UNCHANGED applying
        /\ owner = p => applying' = {}
    BY <1>2, LaidDown
  <2>3. proc'[p] = r /\ \A q \in Procs : q # p => proc'[q] = proc[q]
    BY <2>1, OneMoves
  <2>4. CASE owner = p
    BY <2>2, <2>4 DEF LoginIs, D!LoginFollows, Placed
  <2>5. CASE owner # p
    BY <1>1, <2>2, <2>3, <2>5 DEF D!Is
  <2> QED
    BY <2>4, <2>5
<1>3. ASSUME NEW p \in Procs, D!Loads(p) \/ D!LooksAtSnapper(p) \/ D!LooksIdle(p), ~D!Acts(p)
      PROVE  LoginIs'
  <2>1. PICK r : Moves(p, r) /\ (r.at = "up" => D!Is(p, "up"))
    BY <1>3, GoesOn, Zenon
  <2>2. UNCHANGED <<owner, background, unit, byHand, applying>>
    BY <1>3, GoesOn
  <2>3. proc'[p] = r /\ \A q \in Procs : q # p => proc'[q] = proc[q]
    BY <2>1, OneMoves
  <2>4. \A q \in Procs : D!Is(q, "up")' => D!Is(q, "up")
    BY <2>1, <2>3 DEF D!Is
  <2> QED
    BY <1>1, <2>2, <2>4
<1>4. ASSUME NEW p \in Procs, D!Acts(p) PROVE LoginIs'
  <2>1. PICK new : new = [wanted |-> background, step |-> "ask"]
    OBVIOUS
  <2>2. /\ UNCHANGED <<owner, background, unit, byHand>>
        /\ applying = {}
        /\ applying' = IF proc[p].lost THEN {} ELSE {new}
    BY <1>4, <2>1 DEF D!Acts, D!May, Placed
  <2>3. proc[p].lost => owner = D!None
    BY DEF OneServes
  <2>4. new.wanted = background
    BY <2>1
  <2> QED
    BY <2>2, <2>3, <2>4 DEF LoginIs, D!LoginFollows, Placed
<1>5. ASSUME NEW p \in Procs, D!Clears(p) PROVE LoginIs'
  <2>1. PICK r : Moves(p, r) /\ r.at = "claiming"
    BY <1>5, ClearsMoves
  <2>2. UNCHANGED <<owner, background, unit, byHand, applying>>
    BY <1>5 DEF D!Clears, D!Settings
  <2>3. proc'[p] = r /\ \A q \in Procs : q # p => proc'[q] = proc[q]
    BY <2>1, OneMoves
  <2>4. \A q \in Procs : D!Is(q, "up")' => D!Is(q, "up")
    BY <2>1, <2>3 DEF D!Is
  <2> QED
    BY <1>1, <2>2, <2>4
<1>6. ASSUME NEW p \in Procs, D!Prepares(p) \/ D!IsPrepared(p) \/ D!IsOver(p) PROVE LoginIs'
  <2>1. UNCHANGED <<owner, background, unit, byHand, applying>>
    BY <1>6, JobGoes
  <2>2. PICK r : Moves(p, r) /\ r.at = proc[p].at
    BY <1>6, JobGoes, Zenon
  <2>3. proc'[p] = r /\ \A q \in Procs : q # p => proc'[q] = proc[q]
    BY <2>2, OneMoves
  <2>4. \A q \in Procs : D!Is(q, "up")' => D!Is(q, "up")
    BY <2>2, <2>3 DEF D!Is
  <2> QED
    BY <1>1, <2>1, <2>4
<1>7. ASSUME NEW p \in Procs, D!Claims(p), owner = D!None PROVE LoginIs'
  <2>1. PICK r : Moves(p, r) /\ r.at = "claimed"
    BY <1>7, ClaimsMoves
  <2>2. owner' = p /\ UNCHANGED <<background, unit, byHand, applying>>
    BY <1>7 DEF D!Claims, D!Settings
  <2>3. ~D!Is(p, "up")'
    BY <2>1, OneMoves DEF D!Is
  <2> QED
    BY <1>1, <2>2, <2>3
<1>8. CASE D!BusGoes
  BY <1>8 DEF D!BusGoes, LoginIs, D!LoginFollows, Placed
<1>9. CASE ByTheWay
  <2>1. UNCHANGED <<proc, owner>>
    BY <1>9 DEF ByTheWay, D!WindowMoves, D!Sets, D!UnitByHand,
        D!Reconciles
  <2>2. CASE D!WindowMoves
    BY <1>1, <2>1, <2>2 DEF D!WindowMoves, D!Settings, D!Is
  <2>3. CASE D!Sets
    <3>1. PICK new : new = [wanted |-> background', step |-> "ask"]
      OBVIOUS
    <3>2. applying' = {new}
      BY <2>3, <3>1 DEF D!Sets, D!May, Placed
    <3>3. new.wanted = background'
      BY <3>1
    <3> QED
      BY <3>2, <3>3 DEF LoginIs, D!LoginFollows
  <2>4. CASE D!UnitByHand
    BY <2>4 DEF D!UnitByHand, LoginIs, D!LoginFollows
  <2> QED
    BY <1>9, <2>2, <2>3, <2>4, ReconcilesLogin DEF ByTheWay
<1> QED
  <2>1. \A p \in Procs : ~D!Acts(p) \/ D!Acts(p)
    OBVIOUS
  <2> QED
    BY <2>1, <1>2, <1>3, <1>4, <1>5, <1>6, <1>7, <1>8, <1>9, ActionsAre

-----------------------------------------------------------------------------
ProcessInv == ProcessTypes /\ OneServes /\ StagedAsHeld /\ D!LeavesNothing /\ LoginIs

\* One daemon acts at a time, on staging directories that are its own; it leaves
\* nothing undone, and starts at login as the person wants (daemon.rs,
\* background.rs).
THEOREM DaemonsAreSafe ==
  ASSUME Placed
  PROVE  D!Spec => []D!ProcessSafety
<1>1. D!Init => ProcessInv
  <2> SUFFICES ASSUME D!Init PROVE ProcessInv
    OBVIOUS
  <2>1. PICK d : d = D!Down
    OBVIOUS
  <2>2. Blank(d) /\ d.at = "down"
    BY <2>1, DownIs
  <2>3. proc = [p \in Procs |-> d] /\ \A p \in Procs : proc[p] = d
    BY <2>1 DEF D!Init
  <2>4. ProcessTypes
    <3>1. proc \in [Procs -> D!Process] /\ \A p \in Procs : Awake(proc[p])
      BY <2>2, <2>3 DEF Blank, Awake
    <3>2. staging \in [D!Job -> Staged]
      BY NoneIs DEF D!Init
    <3>3. owner \in Procs \cup {D!None} /\ started \in 0 .. Starts /\ events \in 0 .. Events
      BY DEF D!Init, Placed
    <3>4. /\ background \in BOOLEAN /\ unit \in D!UnitState /\ byHand \in BOOLEAN
          /\ applying \subseteq D!Change /\ window \in BOOLEAN
      BY DEF D!Init, D!UnitState
    <3> QED
      BY <3>1, <3>2, <3>3, <3>4 DEF ProcessTypes, D!TypeOK, Staged
  <2>5. owner = D!None /\ \A n \in D!Job : staging[n].of = 0
    BY NoneIs DEF D!Init
  <2>6. OneServes
    BY <2>2, <2>3, <2>5 DEF OneServes, D!Serves, D!Is, Blank, Placed
  <2>7. StagedAsHeld
    BY <2>2, <2>3, <2>5 DEF StagedAsHeld, Held, D!Is, Blank
  <2>8. D!LeavesNothing
    BY <2>2, <2>3 DEF D!LeavesNothing, D!Is
  <2>9. LoginIs
    BY <2>5 DEF LoginIs, D!LoginFollows, D!Init, Placed
  <2> QED
    BY <2>4, <2>6, <2>7, <2>8, <2>9 DEF ProcessInv
<1>2. ProcessInv /\ [D!Next]_(D!vars) => ProcessInv'
  <2> SUFFICES ASSUME ProcessInv, [D!Next]_(D!vars) PROVE ProcessInv'
    OBVIOUS
  <2>1. CASE D!Next
    BY <2>1, TypesKept, OneServesKept, StagedKept, LeavesKept, LoginKept DEF ProcessInv
  <2>2. CASE UNCHANGED D!vars
    <3>1. /\ UNCHANGED <<proc, owner, staging>> /\ UNCHANGED <<background, unit, byHand, applying>>
          /\ UNCHANGED <<window, started, events>>
      BY <2>2 DEF D!vars
    <3>2. ProcessTypes'
      BY <3>1 DEF ProcessInv, ProcessTypes, D!TypeOK
    <3>3. OneServes'
      BY <3>1 DEF ProcessInv, OneServes, D!Serves, D!Is
    <3>4. StagedAsHeld'
      BY <3>1 DEF ProcessInv, StagedAsHeld, Held, D!Is
    <3>5. D!LeavesNothing' /\ LoginIs'
      BY <3>1 DEF ProcessInv, D!LeavesNothing, LoginIs, D!LoginFollows, D!Is,
          D!Busy
    <3> QED
      BY <3>2, <3>3, <3>4, <3>5 DEF ProcessInv
  <2> QED
    BY <2>1, <2>2
<1>3. ProcessInv => D!ProcessSafety
  <2> SUFFICES ASSUME ProcessInv PROVE D!ProcessSafety
    OBVIOUS
  <2>1. D!TypeOK /\ D!LeavesNothing /\ D!LoginFollows
    BY DEF ProcessInv, ProcessTypes, LoginIs
  <2>2. D!ActsAlone
    BY DEF ProcessInv, OneServes, D!ActsAlone
  <2>3. D!PreparedIsWhole
    BY DEF ProcessInv, StagedAsHeld, D!PreparedIsWhole
  <2>4. D!NothingIsLeftBehind
    BY DEF ProcessInv, StagedAsHeld, D!NothingIsLeftBehind
  <2> QED
    BY <2>1, <2>2, <2>3, <2>4 DEF D!ProcessSafety
<1> QED
  BY <1>1, <1>2, <1>3, PTL DEF D!Spec

-----------------------------------------------------------------------------
\* Both at once: one daemon acts at a time, on what is its own, and what its Borg did
\* is what is made of it (daemon.rs, background.rs, invoke.rs).
THEOREM ProcessesAreSafe ==
  ASSUME Placed, Sizes, Troubles = {}
  PROVE  D!Spec /\ B!Spec => []ProcessSafety
<1>1. D!Spec => []D!ProcessSafety
  BY DaemonsAreSafe
<1>2. B!Spec => []B!BorgSafety
  BY BorgIsSafe
<1> QED
  BY <1>1, <1>2, PTL DEF ProcessSafety
=============================================================================
