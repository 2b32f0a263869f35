--------------------------- MODULE RecoveryProofs ---------------------------
(***************************************************************************)
(* A recovery gives back what it says it does and takes nothing of the     *)
(* person's: proved for any number of folders, files, callers, runs and    *)
(* calls, with as many failures and crashes as there may be.               *)
(***************************************************************************)
EXTENDS Recovery, FiniteSetTheorems, WellFoundedInduction, TLAPS

USE RecoveryAssumption DEF RecoveryAssumption, Missing, Theirs, Half, Answered, TheCancel

-----------------------------------------------------------------------------
(* The least of some numbers, the first of some files. *)

LEMMA LeastOfSome ==
  ASSUME NEW S \in SUBSET Nat, S # {}
  PROVE  Min(S) \in S /\ \A n \in S : Min(S) <= n
<1>1. PICK l \in S : \A m \in S : ~(<<m, l>> \in OpToRel(<, Nat))
  BY NatLessThanWellFounded, WFMin
<1>2. ASSUME NEW m \in S PROVE l <= m
  <2>1. ~(m < l)
    BY <1>1 DEF OpToRel
  <2> QED
    BY <2>1
<1> QED
  BY <1>2 DEF Min

LEMMA FirstOfSome ==
  ASSUME NEW fs \in SUBSET Files, fs # {}
  PROVE  First(fs) \in fs
<1> DEFINE S == {f[2] : f \in fs}
<1>1. \A f \in fs : f[2] \in Nat
  BY DEF Files
<1>2. S \in SUBSET Nat /\ S # {}
  BY <1>1
<1>3. Min(S) \in S /\ \A n \in S : Min(S) <= n
  <2> HIDE DEF S
  <2> QED
    BY <1>2, LeastOfSome
<1>4. PICK f \in fs : f[2] = Min(S)
  BY <1>3
<1>5. \A g \in fs : f[2] <= g[2]
  BY <1>3, <1>4
<1> QED
  BY <1>5 DEF First

LEMMA StepIsUndone ==
  ASSUME NEW m \in Manifest, Undone(m) # {}
  PROVE  /\ StepOf(m) \in Undone(m) /\ StepOf(m) \in Steps
         /\ \A s \in Undone(m) : StepOf(m) <= s
<1>1. Undone(m) \in SUBSET Nat
  BY DEF Undone
<1> QED
  BY <1>1, LeastOfSome DEF StepOf, Undone

-----------------------------------------------------------------------------
(* The records, as they are changed. *)

JobForm == [state: JobState, run: Runs \cup {0}]
RunForm == [job: Jobs \cup {0}, stop: BOOLEAN]
CallForm == [at: {"idle", "reading", "pausing"}, of: Jobs \cup {0}]
CancelForm == [on: BOOLEAN, discard: BOOLEAN, done: BOOLEAN, no: Nat]
HandForm == [due: BOOLEAN, on: BOOLEAN, m: Manifest]

LEMMA Forms ==
  /\ None \in Manifest /\ NoRun \in RunForm /\ NoCall \in CallForm /\ NoCancel \in CancelForm
  /\ NotHanding \in HandForm
<1>1. None \in Manifest
  BY DEF None, Manifest, Status, Stage
<1> QED
  BY <1>1 DEF NoRun, RunForm, NoCall, CallForm, NoCancel, CancelForm, NotHanding, HandForm

LEMMA IdleForm == Idle \in Work /\ AnyFile \in Files
<1>1. AnyFile \in Files
  <2>1. \E f \in Files : TRUE
    <3>1. PICK s \in Steps, p \in PerStep : TRUE
      OBVIOUS
    <3>2. <<s, p>> \in Files
      BY DEF Files
    <3> QED
      BY <3>2
  <2> QED
    BY <2>1 DEF AnyFile
<1> QED
  BY <1>1, Forms DEF Idle, Work

LEMMA JobsAre == 1 \in Jobs /\ \A j \in Jobs : j \in Nat /\ j > 0
BY DEF Jobs

LEMMA StepIsSet ==
  ASSUME NEW m \in Manifest, NEW s \in Steps, NEW st \in Status
  PROVE  /\ [m EXCEPT !.steps[s] = st] \in Manifest
         /\ [m EXCEPT !.steps[s] = st].no = m.no
         /\ [m EXCEPT !.steps[s] = st].stage = m.stage
         /\ [m EXCEPT !.steps[s] = st].paused = m.paused
         /\ [m EXCEPT !.steps[s] = st].handed = m.handed
         /\ [m EXCEPT !.steps[s] = st].policy = m.policy
         /\ [m EXCEPT !.steps[s] = st].failed = m.failed
         /\ [m EXCEPT !.steps[s] = st].steps[s] = st
         /\ \A t \in Steps \ {s} : [m EXCEPT !.steps[s] = st].steps[t] = m.steps[t]
BY DEF Manifest

-----------------------------------------------------------------------------
(* The type invariant, part by part. *)

RecordOK == manifest \in Manifest
FilesOK ==
  /\ disk \in [Files -> Int] /\ stash \subseteq Files
  /\ staging \in [Files -> {"none", "part", "whole"}]
  /\ held \subseteq Files /\ added \subseteq Files /\ dear \subseteq Files
JobsOK == job \in Jobs \cup {0} /\ pausing \in BOOLEAN /\ jobs \in [Jobs -> JobForm]
RunsOK == runs \in [Runs -> RunForm]
WorkOK ==
  /\ turn \in Runs \cup {0, TheCancel} /\ work \in Work
  /\ turn \in Runs <=> work.at # "idle"
  /\ work.adds \cap work.clashes = {}
CallsOK ==
  /\ cancel \in CancelForm /\ calls \in [Callers -> CallForm] /\ handing \in HandForm
  /\ made \in Nat /\ left \in Nat /\ said \in {"go", "pause"}

LEMMA TypeParts == TypeOK <=> RecordOK /\ FilesOK /\ JobsOK /\ RunsOK /\ WorkOK /\ CallsOK
BY DEF TypeOK, RecordOK, FilesOK, JobsOK, RunsOK, WorkOK, CallsOK, JobForm, RunForm, CallForm,
       CancelForm, HandForm

LEMMA TypeInit == Init => TypeOK
<1> SUFFICES ASSUME Init PROVE TypeOK
  OBVIOUS
<1>1. RecordOK /\ WorkOK
  BY Forms, IdleForm DEF Init, RecordOK, WorkOK, Idle
<1>2. FilesOK
  BY DEF Init, FilesOK
<1>3. JobsOK /\ RunsOK
  BY Forms DEF Init, JobsOK, RunsOK, JobForm, JobState
<1>4. CallsOK
  BY Forms DEF Init, CallsOK
<1> QED
  BY <1>1, <1>2, <1>3, <1>4, TypeParts

(* No call is lost count of: the jobs that were submitted are the first,   *)
(* and every one was counted as a call, but for the one a start begins.    *)
Readers == {c \in Callers : calls[c].at = "reading"}
Submitted(n) == \A j \in Jobs : jobs[j].state = "absent" <=> j > n
Counted ==
  /\ made <= Calls /\ IsFiniteSet(Readers)
  /\ \E n \in 0 .. Calls + 1 : Submitted(n) /\ n + Cardinality(Readers) <= made + 1

LEMMA JobIsNext ==
  ASSUME TypeOK, NEW n \in 0 .. Calls, Submitted(n)
  PROVE  NextJob \in Jobs /\ NextJob = n + 1 /\ jobs[NextJob].state = "absent"
<1> DEFINE S == {j \in Jobs : jobs[j].state = "absent"}
<1>1. n + 1 \in Jobs /\ \A j \in Jobs : j \in S <=> j > n
  BY DEF Submitted, Jobs
<1>2. S \in SUBSET Nat /\ S # {} /\ n + 1 \in S /\ \A j \in S : j >= n + 1
  <2>1. S \in SUBSET Nat /\ n + 1 \in S
    BY <1>1, JobsAre
  <2>2. ASSUME NEW j \in S PROVE j >= n + 1
    <3>1. j \in Nat /\ j > n
      BY <1>1, JobsAre
    <3> QED
      BY <3>1
  <2> QED
    BY <2>1, <2>2
<1>3. Min(S) \in S /\ Min(S) <= n + 1
  <2> HIDE DEF S
  <2> QED
    BY <1>2, LeastOfSome
<1>4. Min(S) = n + 1
  BY <1>2, <1>3
<1> QED
  BY <1>3, <1>4 DEF NextJob

(* Who has made a call, or is in the middle of one, finds a number for the *)
(* job.                                                                    *)
LEMMA JobIsLeft ==
  ASSUME TypeOK, Counted, made < Calls \/ Readers # {}
  PROVE  \E n \in 0 .. Calls :
           Submitted(n) /\ n + Cardinality(Readers) <= made + 1
<1>1. Cardinality(Readers) \in Nat
  BY FS_CardinalityType DEF Counted
<1>2. Readers # {} => Cardinality(Readers) # 0
  BY FS_EmptySet DEF Counted
<1>3. PICK n \in 0 .. Calls + 1 : Submitted(n) /\ n + Cardinality(Readers) <= made + 1
  BY DEF Counted
<1>4. n <= Calls
  BY <1>1, <1>2, <1>3 DEF Counted, TypeOK
<1> QED
  BY <1>3, <1>4

LEMMA NextIsLeft ==
  ASSUME TypeOK, Counted, made < Calls \/ Readers # {}
  PROVE  NextJob \in Jobs /\ jobs[NextJob].state = "absent"
BY JobIsLeft, JobIsNext

(* A run that is over leaves the rest as it should be. *)
LEMMA OverForm ==
  ASSUME TypeOK, NEW r \in Runs, NEW outcome \in {"completed", "cancelled", "failed"},
         RunIsOver(r, outcome)
  PROVE  /\ jobs' \in [Jobs -> JobForm] /\ RunsOK' /\ WorkOK' /\ handing' \in HandForm
         /\ \A j \in Jobs : jobs'[j].state = "absent" <=> jobs[j].state = "absent"
<1>0. JobsOK /\ RunsOK /\ CallsOK
  BY TypeParts
<1>1. jobs' \in [Jobs -> JobForm]
  BY ZenonT(60), <1>0 DEF RunIsOver, JobsOK, JobForm, JobState
<1>2. RunsOK'
  BY <1>0, Forms DEF RunIsOver, RunsOK
<1>3. WorkOK'
  <2>1. turn' = 0 /\ work' = Idle
    BY DEF RunIsOver
  <2>2. Idle.at = "idle" /\ Idle.adds = {} /\ 0 \notin Runs
    BY DEF Idle
  <2> QED
    BY <2>1, <2>2, IdleForm DEF WorkOK
<1>4. handing' \in HandForm
  BY <1>0 DEF RunIsOver, CallsOK, HandForm
<1>5. ASSUME NEW j \in Jobs PROVE jobs'[j].state = "absent" <=> jobs[j].state = "absent"
  BY <1>0 DEF RunIsOver, Heard, JobsOK, JobForm
<1> QED
  BY <1>1, <1>2, <1>3, <1>4, <1>5

LEMMA RecordStep ==
  ASSUME TypeOK, [Next]_vars
  PROVE  RecordOK'
<1>0. RecordOK /\ WorkOK /\ CallsOK /\ JobsOK
  BY TypeParts
<1>w. work.m \in Manifest /\ manifest \in Manifest /\ handing.m \in Manifest
  BY <1>0 DEF RecordOK, WorkOK, CallsOK, Work, HandForm
<1>1. ASSUME NEW r \in Runs, RunTakesTurn(r) PROVE RecordOK'
  <2>1. manifest' = manifest \/ manifest' = [manifest EXCEPT !.paused = FALSE]
    BY <1>1 DEF RunTakesTurn
  <2>2. [manifest EXCEPT !.paused = FALSE] \in Manifest
    BY <1>w DEF Manifest
  <2> QED
    BY <1>w, <2>1, <2>2 DEF RecordOK
<1>2. ASSUME NEW r \in Runs, RunFetches(r) PROVE RecordOK'
  <2>1. StepOf(work.m) \in Steps
    BY <1>2, <1>w, StepIsUndone DEF RunFetches
  <2>2. manifest' = [work.m EXCEPT !.steps[StepOf(work.m)] = "fetching"]
    BY <1>2 DEF RunFetches
  <2> QED
    BY <1>w, <2>1, <2>2, StepIsSet DEF RecordOK, Status
<1>3. ASSUME NEW r \in Runs, RunFetched(r) PROVE RecordOK'
  BY <1>3, <1>w DEF RunFetched, Saves, RecordOK, Manifest, Status
<1>4. ASSUME NEW r \in Runs, RunEndsStep(r) PROVE RecordOK'
  BY <1>4, <1>w DEF RunEndsStep, RecordOK, Manifest, Status
<1>5. ASSUME NEW r \in Runs, RunStops(r) PROVE RecordOK'
  BY <1>5, <1>w, <1>0 DEF RunStops, RecordOK, Manifest, JobsOK, WasAPause
<1>6. ASSUME NEW r \in Runs, RunFinishes(r) PROVE RecordOK'
  BY <1>6, <1>w DEF RunFinishes, RecordOK, Manifest, Stage
<1>7. ASSUME HandOverEnds PROVE RecordOK'
  <2>1. manifest' = None \/ manifest' = [handing.m EXCEPT !.handed = TRUE]
    BY <1>7 DEF HandOverEnds, Clears
  <2>2. [handing.m EXCEPT !.handed = TRUE] \in Manifest
    BY <1>w DEF Manifest
  <2> QED
    BY <2>1, <2>2, Forms DEF RecordOK
<1>8. ASSUME NEW c \in Callers, NEW asked \in (SUBSET Steps) \ {{}}, NEW policy \in Policies,
             BeginSaves(c, asked, policy)
      PROVE  RecordOK'
  <2>1. calls[c].of \in Nat
    <3>1. calls[c].of \in Jobs \cup {0}
      BY <1>0 DEF CallsOK, CallForm
    <3> QED
      BY <3>1, JobsAre
  <2>2. [s \in Steps |-> IF s \in asked THEN "pending" ELSE "not asked"] \in [Steps -> Status]
    BY DEF Status
  <2> QED
    BY <1>8, <2>1, <2>2, Forms DEF BeginSaves, RecordOK, Manifest, Stage
<1>9. ASSUME CancelClears \/ \E replaced \in SUBSET Files : SummaryIsAnswered(replaced)
      PROVE  RecordOK'
  BY <1>9, Forms DEF CancelClears, SummaryIsAnswered, Clears, RecordOK
<1>10. ASSUME \/ \E j \in Jobs : JobStarts(j) \/ JobSettles(j)
              \/ \E r \in Runs : \/ StreamDrops(r) \/ BorgWrites(r) \/ RunPlans(r) \/ RunMoves(r)
                                 \/ RunWritesDown(r) \/ RunFails(r)
              \/ HandOverBegins
              \/ \E c \in Callers : \/ BeginChecks(c) \/ Resumes(c) \/ PauseLands(c)
                                    \/ \E j \in Jobs : ResumesJob(c, j) \/ PauseIsSaid(c, j)
                                    \/ \E discard \in BOOLEAN : Cancels(c, discard)
              \/ CancelDiscards \/ \E f \in Files : PersonWrites(f)
              \/ Crash \/ UNCHANGED vars
       PROVE  RecordOK'
  <2>1. manifest' = manifest
    BY <1>10 DEF JobStarts, JobSettles, StreamDrops, BorgWrites, RunPlans, RunMoves, RunWritesDown,
         RunFails, HandOverBegins, BeginChecks, Resumes, PauseLands, ResumesJob, PauseIsSaid,
         Cancels, CancelDiscards, PersonWrites, Crash, vars
  <2> QED
    BY <1>0, <2>1 DEF RecordOK
<1> QED
  BY <1>1, <1>2, <1>3, <1>4, <1>5, <1>6, <1>7, <1>8, <1>9, <1>10 DEF Next, RunStep, Call

LEMMA FilesStep ==
  ASSUME TypeOK, [Next]_vars
  PROVE  FilesOK'
<1>0. FilesOK /\ RecordOK /\ WorkOK
  BY TypeParts
<1> USE DEF FilesOK, durable
<1>1. ASSUME NEW r \in Runs, RunFetches(r) PROVE FilesOK'
  BY <1>0, <1>1 DEF RunFetches
<1>2. ASSUME NEW r \in Runs, BorgWrites(r) PROVE FilesOK'
  BY <1>0, <1>2 DEF BorgWrites
<1>3. ASSUME NEW r \in Runs, RunMoves(r) PROVE FilesOK'
  <2>1. work.m.no \in Int
    BY <1>0 DEF WorkOK, Work, Manifest
  <2> QED
    BY <1>0, <1>3, <2>1 DEF RunMoves
<1>4. ASSUME NEW r \in Runs, RunWritesDown(r) PROVE FilesOK'
  BY <1>0, <1>4 DEF RunWritesDown, With, WorkOK, Work
<1>5. ASSUME NEW r \in Runs, RunEndsStep(r) PROVE FilesOK'
  BY <1>0, <1>5 DEF RunEndsStep, WorkOK, Work
<1>6. ASSUME NEW r \in Runs, RunFinishes(r) PROVE FilesOK'
  BY <1>0, <1>6 DEF RunFinishes
<1>7. ASSUME NEW replaced \in SUBSET Files, SummaryIsAnswered(replaced) PROVE FilesOK'
  <2>1. stash' \subseteq Files
    BY <1>0, <1>7 DEF SummaryIsAnswered
  <2>2. disk' \in [Files -> Int]
    <3>1. disk' = [f \in Files |-> IF f \in replaced THEN Answered ELSE disk[f]]
      BY <1>7 DEF SummaryIsAnswered
    <3> QED
      BY <1>0, <3>1
  <2>3. /\ held' = {} /\ added' = {} /\ staging' = [f \in Files |-> "none"] /\ dear' = dear
    BY <1>7 DEF SummaryIsAnswered, Clears
  <2> QED
    BY <1>0, <2>1, <2>2, <2>3
<1>8. ASSUME HandOverEnds \/ CancelClears PROVE FilesOK'
  BY <1>0, <1>8 DEF HandOverEnds, CancelClears, Clears
<1>9. ASSUME NEW c \in Callers, NEW asked \in (SUBSET Steps) \ {{}}, NEW policy \in Policies,
             BeginSaves(c, asked, policy)
      PROVE  FilesOK'
  BY <1>0, <1>9 DEF BeginSaves
<1>10. ASSUME CancelDiscards PROVE FilesOK'
  BY <1>0, <1>10 DEF CancelDiscards
<1>11. ASSUME NEW f \in Files, PersonWrites(f) PROVE FilesOK'
  BY <1>0, <1>11 DEF PersonWrites
<1>12. ASSUME \/ \E j \in Jobs : JobStarts(j) \/ JobSettles(j)
              \/ \E r \in Runs : \/ StreamDrops(r) \/ RunTakesTurn(r) \/ RunFetched(r) \/ RunPlans(r)
                                 \/ RunStops(r) \/ RunFails(r)
              \/ HandOverBegins
              \/ \E c \in Callers : \/ BeginChecks(c) \/ Resumes(c) \/ PauseLands(c)
                                    \/ \E j \in Jobs : ResumesJob(c, j) \/ PauseIsSaid(c, j)
                                    \/ \E discard \in BOOLEAN : Cancels(c, discard)
              \/ Crash \/ UNCHANGED vars
       PROVE  FilesOK'
  <2>1. UNCHANGED <<disk, stash, staging, held, added, dear>>
    BY <1>12 DEF JobStarts, JobSettles, StreamDrops, RunTakesTurn, RunFetched, RunPlans, RunStops,
         RunFails, HandOverBegins, BeginChecks, Resumes, PauseLands, ResumesJob, PauseIsSaid,
         Cancels, Crash, vars
  <2> QED
    BY <1>0, <2>1
<1> QED
  BY <1>1, <1>2, <1>3, <1>4, <1>5, <1>6, <1>7, <1>8, <1>9, <1>10, <1>11, <1>12
  DEF Next, RunStep, Call

LEMMA WorkStep ==
  ASSUME TypeOK, [Next]_vars
  PROVE  WorkOK'
<1>0. RecordOK /\ FilesOK /\ WorkOK
  BY TypeParts
<1>w. work.m \in Manifest /\ manifest \in Manifest
  BY <1>0 DEF RecordOK, WorkOK, Work
<1>i. Idle.at = "idle" /\ Idle.adds = {} /\ 0 \notin Runs /\ TheCancel \notin Runs
  BY DEF Idle
<1>1. ASSUME NEW r \in Runs, RunTakesTurn(r) PROVE WorkOK'
  <2>1. CASE There(manifest) /\ manifest.stage = "restoring"
    <3>1. [manifest EXCEPT !.paused = FALSE] \in Manifest
      BY <1>w DEF Manifest
    <3>2. turn' = r /\ work' = [Idle EXCEPT !.at = "steps", !.m = [manifest EXCEPT !.paused = FALSE]]
      BY <1>1, <2>1 DEF RunTakesTurn
    <3>3. work' \in Work /\ work'.at = "steps" /\ work'.adds = {}
      BY <3>1, <3>2, IdleForm, <1>i DEF Work
    <3> QED
      BY <3>2, <3>3 DEF WorkOK
  <2>2. CASE ~(There(manifest) /\ manifest.stage = "restoring")
    BY <1>1, <2>2, OverForm DEF RunTakesTurn
  <2> QED
    BY <2>1, <2>2
<1>2. ASSUME NEW r \in Runs, RunFetches(r) PROVE WorkOK'
  <2>1. StepOf(work.m) \in Steps
    BY <1>2, <1>w, StepIsUndone DEF RunFetches
  <2>2. [work.m EXCEPT !.steps[StepOf(work.m)] = "fetching"] \in Manifest
    BY <1>w, <2>1, StepIsSet DEF Status
  <2>3. PICK fetch \in SUBSET Files :
          work' = [work EXCEPT !.m = [work.m EXCEPT !.steps[StepOf(work.m)] = "fetching"],
                               !.at = "fetching", !.fetch = fetch]
    BY <1>2 DEF RunFetches, FilesOf
  <2>4. work' \in Work /\ work'.at = "fetching" /\ work'.adds = work.adds /\ work'.clashes = work.clashes
    BY <1>0, <2>2, <2>3 DEF WorkOK, Work
  <2>5. turn' = turn /\ turn = r
    BY <1>2 DEF RunFetches, Works
  <2> QED
    BY <1>0, <2>4, <2>5 DEF WorkOK
<1>3. ASSUME NEW r \in Runs, BorgWrites(r) PROVE WorkOK'
  BY <1>0, <1>3 DEF BorgWrites, Works, WorkOK, Work
<1>4. ASSUME NEW r \in Runs, RunFetched(r) PROVE WorkOK'
  <2>2. [work.m EXCEPT !.steps[StepOf(work.m)] = "placing"] \in Manifest
    BY <1>w DEF Manifest, Status
  <2>3. work' = [work EXCEPT !.m = [work.m EXCEPT !.steps[StepOf(work.m)] = "placing"], !.at = "steps"]
    BY <1>4 DEF RunFetched, Saves
  <2>4. work' \in Work /\ work'.at = "steps" /\ work'.adds = work.adds /\ work'.clashes = work.clashes
    BY <1>0, <2>2, <2>3 DEF WorkOK, Work
  <2>5. turn' = turn /\ turn = r
    BY <1>4 DEF RunFetched, Works
  <2> QED
    BY <1>0, <2>4, <2>5 DEF WorkOK
<1>5. ASSUME NEW r \in Runs, RunPlans(r) PROVE WorkOK'
  <2> DEFINE there == {f \in FilesOf(StepOf(work.m)) : staging[f] # "none"}
             adds == {f \in there : Added(f)}
             clashes == {f \in there : Clashes(f)}
  <2>1. /\ work' = [work EXCEPT !.at = "placing", !.adds = adds, !.clashes = clashes]
        /\ adds \in SUBSET Files /\ clashes \in SUBSET Files /\ adds \cap clashes = {}
    BY <1>5 DEF RunPlans, FilesOf, Added, Clashes
  <2> HIDE DEF there, adds, clashes
  <2>2. work' \in Work /\ work'.at = "placing" /\ work'.adds = adds /\ work'.clashes = clashes
    BY <1>0, <2>1 DEF WorkOK, Work
  <2>3. turn' = turn /\ turn = r
    BY <1>5 DEF RunPlans, Works
  <2> QED
    BY <1>0, <2>1, <2>2, <2>3 DEF WorkOK
<1>6. ASSUME NEW r \in Runs, RunMoves(r) PROVE WorkOK'
  <2>1. First(work.adds) \in Files /\ work.adds \subseteq Files
    BY <1>0, <1>6, FirstOfSome DEF RunMoves, WorkOK, Work
  <2>2. turn' = turn /\ turn = r /\ work.at = "placing"
    BY <1>6 DEF RunMoves, Works
  <2>3. CASE work' = [work EXCEPT !.at = "moved", !.adds = @ \ {First(work.adds)},
                                  !.moved = First(work.adds)]
    <3>1. work' \in Work /\ work'.at = "moved" /\ work'.adds \subseteq work.adds /\ work'.clashes = work.clashes
      BY <1>0, <2>1, <2>3 DEF WorkOK, Work
    <3> QED
      BY <1>0, <2>2, <3>1 DEF WorkOK
  <2>4. CASE work' = [work EXCEPT !.adds = @ \ {First(work.adds)},
                                  !.m.failed = @ \cup {First(work.adds)}]
    <3>1. work' \in Work /\ work'.at = work.at /\ work'.adds \subseteq work.adds /\ work'.clashes = work.clashes
      BY ZenonT(60), <1>0, <2>1, <2>4 DEF WorkOK, Work, Manifest
    <3> QED
      BY <1>0, <2>2, <3>1 DEF WorkOK
  <2> QED
    BY <1>6, <2>3, <2>4 DEF RunMoves
<1>7. ASSUME NEW r \in Runs, RunWritesDown(r) PROVE WorkOK'
  BY <1>0, <1>7, IdleForm DEF RunWritesDown, Works, WorkOK, Work
<1>8. ASSUME NEW r \in Runs, RunEndsStep(r) PROVE WorkOK'
  <2>1. [work.m EXCEPT !.steps[StepOf(work.m)] = "done"] \in Manifest
    BY <1>w DEF Manifest, Status
  <2>2. work' = [Idle EXCEPT !.at = "steps", !.m = [work.m EXCEPT !.steps[StepOf(work.m)] = "done"]]
    BY <1>8 DEF RunEndsStep
  <2>3. work' \in Work /\ work'.at = "steps" /\ work'.adds = {}
    BY <2>1, <2>2, IdleForm, <1>i DEF Work
  <2>4. turn' = turn /\ turn = r
    BY <1>8 DEF RunEndsStep, Placed, Works
  <2> QED
    BY <2>3, <2>4 DEF WorkOK
<1>9. ASSUME NEW r \in Runs, RunStops(r) \/ RunFinishes(r) \/ RunFails(r) PROVE WorkOK'
  BY <1>9, OverForm DEF RunStops, RunFinishes, RunFails
<1>10. ASSUME CancelDiscards \/ CancelClears PROVE WorkOK'
  BY <1>0, <1>10, <1>i DEF CancelDiscards, CancelClears, WorkOK
<1>11. ASSUME Crash PROVE WorkOK'
  BY <1>11, <1>i, IdleForm DEF Crash, WorkOK
<1>12. ASSUME \/ \E j \in Jobs : JobStarts(j) \/ JobSettles(j)
              \/ \E r \in Runs : StreamDrops(r)
              \/ HandOverBegins \/ HandOverEnds
              \/ \E replaced \in SUBSET Files : SummaryIsAnswered(replaced)
              \/ \E c \in Callers : \/ BeginChecks(c) \/ Resumes(c) \/ PauseLands(c)
                                    \/ \E asked \in (SUBSET Steps) \ {{}}, policy \in Policies :
                                         BeginSaves(c, asked, policy)
                                    \/ \E j \in Jobs : ResumesJob(c, j) \/ PauseIsSaid(c, j)
                                    \/ \E discard \in BOOLEAN : Cancels(c, discard)
              \/ \E f \in Files : PersonWrites(f)
              \/ UNCHANGED vars
       PROVE  WorkOK'
  <2>1. UNCHANGED <<turn, work>>
    BY <1>12 DEF JobStarts, JobSettles, StreamDrops, HandOverBegins, HandOverEnds, SummaryIsAnswered,
         BeginChecks, Resumes, PauseLands, BeginSaves, ResumesJob, PauseIsSaid,
         Cancels, PersonWrites, vars, daemon
  <2> QED
    BY <1>0, <2>1 DEF WorkOK
<1> QED
  BY <1>1, <1>2, <1>3, <1>4, <1>5, <1>6, <1>7, <1>8, <1>9, <1>10, <1>11, <1>12
  DEF Next, RunStep, Call

LEMMA JobsStep ==
  ASSUME TypeOK, Counted, [Next]_vars
  PROVE  JobsOK' /\ RunsOK'
<1>0. JobsOK /\ RunsOK /\ CallsOK
  BY TypeParts
<1>r. Runs \in SUBSET Nat
  OBVIOUS
<1> USE DEF JobsOK, RunsOK
<1>1. ASSUME NEW j \in Jobs, JobStarts(j) PROVE JobsOK' /\ RunsOK'
  <2> DEFINE free == {r \in Runs : runs[r].job = 0}
  <2>1. free \in SUBSET Nat /\ free # {}
    BY <1>1 DEF JobStarts
  <2>2. Min(free) \in Runs
    <3>1. Min(free) \in free
      <4> HIDE DEF free
      <4> QED
        BY <2>1, LeastOfSome
    <3> QED
      BY <3>1
  <2>3. /\ jobs' = [jobs EXCEPT ![j] = [state |-> "running", run |-> Min(free)]]
        /\ runs' = [runs EXCEPT ![Min(free)] = [job |-> j, stop |-> FALSE]]
        /\ UNCHANGED <<job, pausing>>
    BY <1>1 DEF JobStarts
  <2> HIDE DEF free
  <2> QED
    BY <1>0, <2>2, <2>3 DEF JobForm, RunForm, JobState
<1>2. ASSUME NEW j \in Jobs, JobSettles(j) PROVE JobsOK' /\ RunsOK'
  BY <1>0, <1>2 DEF JobSettles, JobForm, JobState
<1>3. ASSUME NEW r \in Runs, StreamDrops(r) PROVE JobsOK' /\ RunsOK'
  BY <1>0, <1>3 DEF StreamDrops, RunForm
<1>4. ASSUME NEW r \in Runs, RunTakesTurn(r) PROVE JobsOK' /\ RunsOK'
  BY <1>0, <1>4, OverForm DEF RunTakesTurn
<1>5. ASSUME NEW r \in Runs, RunStops(r) \/ RunFinishes(r) \/ RunFails(r) PROVE JobsOK' /\ RunsOK'
  BY <1>0, <1>5, OverForm DEF RunStops, RunFinishes, RunFails
<1>6. ASSUME HandOverEnds \/ CancelClears \/ \E replaced \in SUBSET Files : SummaryIsAnswered(replaced)
      PROVE  JobsOK' /\ RunsOK'
  BY <1>0, <1>6 DEF HandOverEnds, CancelClears, SummaryIsAnswered, Clears
<1>7. ASSUME NEW c \in Callers, NEW asked \in (SUBSET Steps) \ {{}}, NEW policy \in Policies,
             BeginSaves(c, asked, policy)
      PROVE  JobsOK' /\ RunsOK'
  <2>1. NextJob \in Jobs
    BY <1>7, NextIsLeft DEF BeginSaves, Readers
  <2> QED
    BY <1>0, <1>7, <2>1 DEF BeginSaves, Submits, JobForm, JobState
<1>8. ASSUME NEW c \in Callers, Resumes(c) PROVE JobsOK' /\ RunsOK'
  <2>1. NextJob \in Jobs
    BY <1>8, NextIsLeft DEF Resumes, Called
  <2>2. CASE jobs' = [jobs EXCEPT ![job].state = "queued"] /\ pausing' = FALSE /\ UNCHANGED <<job, runs>>
    BY ZenonT(60), <1>0, <2>2 DEF JobForm, JobState
  <2>3. CASE Submits("queued") /\ UNCHANGED <<pausing, runs>>
    BY <1>0, <2>1, <2>3 DEF Submits, JobForm, JobState
  <2>4. CASE UNCHANGED <<jobs, job, pausing, runs>>
    BY <1>0, <2>4
  <2> QED
    BY <1>8, <2>2, <2>3, <2>4 DEF Resumes
<1>9. ASSUME NEW c \in Callers, NEW j \in Jobs, ResumesJob(c, j) \/ PauseIsSaid(c, j)
      PROVE  JobsOK' /\ RunsOK'
  <2>1. jobs' = [jobs EXCEPT ![j].state = "queued"] \/ jobs' = jobs
    BY <1>9 DEF ResumesJob, PauseIsSaid
  <2>2. /\ pausing' \in {FALSE, pausing, (pausing \/ j = job)}
        /\ UNCHANGED <<job, runs>>
    BY <1>9 DEF ResumesJob, PauseIsSaid
  <2>3. jobs' \in [Jobs -> JobForm]
    BY <1>0, <2>1 DEF JobForm, JobState
  <2>4. pausing' \in BOOLEAN /\ RunsOK'
    BY <1>0, <2>2 DEF RunsOK
  <2> QED
    BY <1>0, <2>2, <2>3, <2>4 DEF JobsOK
<1>10. ASSUME NEW c \in Callers, PauseLands(c) PROVE JobsOK' /\ RunsOK'
  <2> DEFINE j == calls[c].of
  <2>1. JobsOK'
    <3>1. jobs' = [jobs EXCEPT ![j].state = "paused"] \/ jobs' = jobs
      BY <1>10 DEF PauseLands
    <3>2. pausing' = pausing \/ pausing' = (pausing /\ j # job)
      BY <1>10 DEF PauseLands
    <3>3. pausing' \in BOOLEAN
      BY <1>0, <3>2
    <3>4. jobs' \in [Jobs -> JobForm]
      BY SMTT(30), <1>0, <3>1 DEF JobForm, JobState
    <3> QED
      BY <1>0, <1>10, <3>3, <3>4 DEF PauseLands
  <2>2. RunsOK'
    <3>1. runs' = [runs EXCEPT ![jobs[j].run].stop = TRUE] \/ runs' = runs
      BY <1>10 DEF PauseLands
    <3>2. [runs EXCEPT ![jobs[j].run].stop = TRUE] \in [Runs -> RunForm]
      <4> DEFINE k == jobs[j].run
      <4> HIDE DEF k
      <4>1. [runs EXCEPT ![k].stop = TRUE] \in [Runs -> RunForm]
        BY <1>0 DEF RunForm
      <4> QED
        BY <4>1 DEF k
    <3> QED
      BY <1>0, <3>1, <3>2
  <2> QED
    BY <2>1, <2>2
<1>11. ASSUME NEW c \in Callers, NEW discard \in BOOLEAN, Cancels(c, discard)
       PROVE  JobsOK' /\ RunsOK'
  BY <1>0, <1>11 DEF Cancels, JobForm, JobState
<1>12. ASSUME Crash PROVE JobsOK' /\ RunsOK'
  <2>1. RunsOK'
    BY <1>12, Forms DEF Crash
  <2>2. job' \in Jobs \cup {0} /\ pausing' = FALSE
    BY <1>12, JobsAre DEF Crash
  <2>3. jobs' \in [Jobs -> JobForm]
    BY <1>12 DEF Crash, JobForm, JobState
  <2> QED
    BY <2>1, <2>2, <2>3
<1>13. ASSUME \/ \E r \in Runs : \/ RunFetches(r) \/ BorgWrites(r) \/ RunFetched(r) \/ RunPlans(r)
                                 \/ RunMoves(r) \/ RunWritesDown(r) \/ RunEndsStep(r)
              \/ HandOverBegins \/ CancelDiscards
              \/ \E c \in Callers : BeginChecks(c)
              \/ \E f \in Files : PersonWrites(f)
              \/ UNCHANGED vars
       PROVE  JobsOK' /\ RunsOK'
  <2>1. UNCHANGED <<job, pausing, jobs, runs>>
    BY <1>13 DEF RunFetches, BorgWrites, RunFetched, RunPlans, RunMoves, RunWritesDown, RunEndsStep,
         HandOverBegins, CancelDiscards, BeginChecks, PersonWrites, vars, daemon
  <2> QED
    BY <1>0, <2>1
<1> QED
  BY <1>1, <1>2, <1>3, <1>4, <1>5, <1>6, <1>7, <1>8, <1>9, <1>10, <1>11, <1>12, <1>13
  DEF Next, RunStep, Call

LEMMA CallsStep ==
  ASSUME TypeOK, Counted, [Next]_vars
  PROVE  CallsOK'
<1>0. CallsOK /\ RecordOK /\ JobsOK
  BY TypeParts
<1> USE DEF CallsOK
<1>1. ASSUME NEW r \in Runs, RunTakesTurn(r) PROVE CallsOK'
  BY <1>0, <1>1, OverForm DEF RunTakesTurn
<1>2. ASSUME NEW r \in Runs, RunStops(r) \/ RunFinishes(r) PROVE CallsOK'
  BY <1>0, <1>2, OverForm DEF RunStops, RunFinishes
<1>3. ASSUME NEW r \in Runs, RunFails(r) PROVE CallsOK'
  <2>1. handing' \in HandForm
    BY <1>3, OverForm DEF RunFails
  <2>2. left' \in Nat /\ UNCHANGED <<cancel, calls, made, said>>
    BY <1>0, <1>3 DEF RunFails, Happens
  <2> QED
    BY <1>0, <2>1, <2>2
<1>4. ASSUME NEW r \in Runs, RunMoves(r) PROVE CallsOK'
  <2>1. left' \in Nat /\ UNCHANGED <<cancel, calls, made, said, handing>>
    BY <1>0, <1>4 DEF RunMoves, Happens
  <2> QED
    BY <1>0, <2>1
<1>5. ASSUME HandOverBegins PROVE CallsOK'
  BY <1>0, <1>5, Forms DEF HandOverBegins, HandForm, RecordOK
<1>6. ASSUME HandOverEnds PROVE CallsOK'
  BY <1>0, <1>6, Forms DEF HandOverEnds, HandForm
<1>7. ASSUME NEW c \in Callers, BeginChecks(c) PROVE CallsOK'
  <2>1. made + 1 \in Jobs
    BY <1>0, <1>7 DEF BeginChecks, Called, Jobs
  <2>2. calls' \in [Callers -> CallForm]
    BY <1>0, <1>7, <2>1 DEF BeginChecks, CallForm
  <2> QED
    BY <1>0, <1>7, <2>2 DEF BeginChecks, Called
<1>8. ASSUME NEW c \in Callers, NEW asked \in (SUBSET Steps) \ {{}}, NEW policy \in Policies,
             BeginSaves(c, asked, policy)
      PROVE  CallsOK'
  <2>1. calls' \in [Callers -> CallForm]
    BY <1>0, <1>8, Forms DEF BeginSaves
  <2> QED
    BY <1>0, <1>8, <2>1 DEF BeginSaves
<1>9. ASSUME NEW c \in Callers, Resumes(c) \/ \E j \in Jobs : ResumesJob(c, j) PROVE CallsOK'
  <2>1. UNCHANGED <<cancel, calls, handing, left>> /\ made' = made + 1 /\ said' = "go"
    BY <1>9 DEF Resumes, ResumesJob, Called
  <2> QED
    BY <1>0, <2>1
<1>10. ASSUME NEW c \in Callers, NEW j \in Jobs, PauseIsSaid(c, j) PROVE CallsOK'
  <2>1. calls' \in [Callers -> CallForm]
    BY <1>0, <1>10 DEF PauseIsSaid, CallForm
  <2> QED
    BY <1>0, <1>10, <2>1 DEF PauseIsSaid, Called
<1>11. ASSUME NEW c \in Callers, PauseLands(c) PROVE CallsOK'
  <2>1. calls' \in [Callers -> CallForm]
    BY <1>0, <1>11, Forms DEF PauseLands
  <2> QED
    BY <1>0, <1>11, <2>1 DEF PauseLands
<1>12. ASSUME NEW c \in Callers, NEW discard \in BOOLEAN, Cancels(c, discard) PROVE CallsOK'
  <2>1. cancel' \in CancelForm
    BY <1>0, <1>12 DEF Cancels, CancelForm, RecordOK, Manifest
  <2> QED
    BY <1>0, <1>12, <2>1 DEF Cancels, Called
<1>13. ASSUME CancelDiscards PROVE CallsOK'
  BY <1>0, <1>13 DEF CancelDiscards, CancelForm
<1>14. ASSUME CancelClears PROVE CallsOK'
  BY <1>0, <1>14, Forms DEF CancelClears
<1>15. ASSUME NEW f \in Files, PersonWrites(f) PROVE CallsOK'
  BY <1>0, <1>15 DEF PersonWrites, Happens, daemon
<1>16. ASSUME Crash PROVE CallsOK'
  <2>1. calls' \in [Callers -> CallForm] /\ cancel' \in CancelForm
    BY <1>16, Forms DEF Crash
  <2>2. handing' \in HandForm
    BY <1>16, Forms DEF Crash, HandForm, NotHanding, EndedBefore
  <2>3. left' = left - 1 /\ left > 0 /\ made' = made
    BY <1>16 DEF Crash, Happens
  <2>4. said' \in {said, "go"}
    BY <1>16 DEF Crash
  <2> QED
    BY <1>0, <2>1, <2>2, <2>3, <2>4
<1>17. ASSUME \/ \E j \in Jobs : JobStarts(j) \/ JobSettles(j)
              \/ \E r \in Runs : \/ StreamDrops(r) \/ RunFetches(r) \/ BorgWrites(r) \/ RunFetched(r)
                                 \/ RunPlans(r) \/ RunWritesDown(r) \/ RunEndsStep(r)
              \/ \E replaced \in SUBSET Files : SummaryIsAnswered(replaced)
              \/ UNCHANGED vars
       PROVE  CallsOK'
  <2>1. UNCHANGED <<cancel, calls, handing, made, left, said>>
    BY <1>17 DEF JobStarts, JobSettles, StreamDrops, RunFetches, BorgWrites, RunFetched, RunPlans,
         RunWritesDown, RunEndsStep, SummaryIsAnswered, vars, daemon
  <2> QED
    BY <1>0, <2>1
<1> QED
  BY <1>1, <1>2, <1>3, <1>4, <1>5, <1>6, <1>7, <1>8, <1>9, <1>10, <1>11, <1>12, <1>13, <1>14,
     <1>15, <1>16, <1>17
  DEF Next, RunStep, Call

(* The count goes on as long as a job is only added by a call. *)
LEMMA CountGoesOn ==
  ASSUME TypeOK, Counted, made' \in Nat, made <= made', made' <= Calls,
         Readers' = Readers,
         \A j \in Jobs : jobs'[j].state = "absent" <=> jobs[j].state = "absent"
  PROVE  Counted'
<1>1. PICK n \in 0 .. Calls + 1 : Submitted(n) /\ n + Cardinality(Readers) <= made + 1
  BY DEF Counted
<1>2. Submitted(n)'
  BY <1>1 DEF Submitted
<1>3. Cardinality(Readers) \in Nat /\ made \in Nat
  BY FS_CardinalityType, TypeParts DEF Counted, CallsOK
<1>4. n + Cardinality(Readers) <= made' + 1
  BY <1>1, <1>3
<1>5. IsFiniteSet(Readers')
  BY DEF Counted
<1>6. n + Cardinality(Readers') <= made' + 1
  BY <1>4
<1> QED
  BY <1>2, <1>5, <1>6 DEF Counted

LEMMA CountedInit == Init => Counted
<1> SUFFICES ASSUME Init PROVE Counted
  OBVIOUS
<1>1. Readers = {} /\ made = 0
  BY DEF Init, Readers, NoCall
<1>2. IsFiniteSet(Readers) /\ Cardinality(Readers) = 0
  BY <1>1, FS_EmptySet
<1>3. Submitted(0)
  BY JobsAre DEF Init, Submitted
<1>4. 0 + Cardinality(Readers) <= made + 1
  BY <1>1, <1>2
<1> QED
  BY <1>1, <1>2, <1>3, <1>4 DEF Counted

LEMMA CountedStep ==
  ASSUME TypeOK, Counted, [Next]_vars
  PROVE  Counted'
<1>0. JobsOK /\ CallsOK /\ made \in Nat /\ made <= Calls
  BY TypeParts DEF CallsOK, Counted
<1>c. IsFiniteSet(Readers) /\ Cardinality(Readers) \in Nat
  BY FS_CardinalityType DEF Counted
<1> DEFINE Same0 == \A j \in Jobs : jobs'[j].state = "absent" <=> jobs[j].state = "absent"
<1>1. ASSUME NEW r \in Runs, RunTakesTurn(r) PROVE Counted'
  <2>1. Same0
    BY <1>1, OverForm DEF RunTakesTurn
  <2>2. UNCHANGED <<calls, made>>
    BY <1>1 DEF RunTakesTurn
  <2> QED
    BY <1>0, <2>1, <2>2, CountGoesOn DEF Readers
<1>2. ASSUME NEW r \in Runs, RunStops(r) \/ RunFinishes(r) \/ RunFails(r) PROVE Counted'
  <2>1. Same0
    BY <1>2, OverForm DEF RunStops, RunFinishes, RunFails
  <2>2. UNCHANGED <<calls, made>>
    BY <1>2 DEF RunStops, RunFinishes, RunFails
  <2> QED
    BY <1>0, <2>1, <2>2, CountGoesOn DEF Readers
<1>3. ASSUME NEW j \in Jobs, JobStarts(j) \/ JobSettles(j) PROVE Counted'
  <2>1. Same0
    BY <1>0, <1>3 DEF JobStarts, JobSettles, JobsOK, JobForm
  <2>2. UNCHANGED <<calls, made>>
    BY <1>3 DEF JobStarts, JobSettles
  <2> QED
    BY <1>0, <2>1, <2>2, CountGoesOn DEF Readers
<1>4. ASSUME NEW c \in Callers, BeginChecks(c) PROVE Counted'
  <2>1. Readers' = Readers \cup {c} /\ c \notin Readers
    BY <1>0, <1>4 DEF BeginChecks, Readers, NoCall, CallsOK, CallForm
  <2>2. IsFiniteSet(Readers') /\ Cardinality(Readers') = Cardinality(Readers) + 1
    BY <1>c, <2>1, FS_AddElement
  <2>3. PICK n \in 0 .. Calls + 1 : Submitted(n) /\ n + Cardinality(Readers) <= made + 1
    BY DEF Counted
  <2>4. made' = made + 1 /\ made' <= Calls /\ jobs' = jobs
    BY <1>0, <1>4 DEF BeginChecks, Called
  <2>5. n + Cardinality(Readers') <= made' + 1
    BY <1>0, <1>c, <2>2, <2>3, <2>4
  <2>6. Submitted(n)'
    BY <2>3, <2>4 DEF Submitted
  <2> QED
    BY <2>2, <2>4, <2>5, <2>6 DEF Counted
<1>5. ASSUME NEW c \in Callers, NEW asked \in (SUBSET Steps) \ {{}}, NEW policy \in Policies,
             BeginSaves(c, asked, policy)
      PROVE  Counted'
  <2>1. Readers' = Readers \ {c} /\ c \in Readers
    BY <1>0, <1>5 DEF BeginSaves, Readers, NoCall, CallsOK, CallForm
  <2>2. IsFiniteSet(Readers') /\ Cardinality(Readers') = Cardinality(Readers) - 1
    BY <1>c, <2>1, FS_RemoveElement
  <2>3. PICK n \in 0 .. Calls : Submitted(n) /\ n + Cardinality(Readers) <= made + 1
    BY <2>1, JobIsLeft
  <2>4. made' = made /\ jobs' = [jobs EXCEPT ![NextJob].state = "queued"]
    BY <1>5 DEF BeginSaves, Submits
  <2>5. NextJob = n + 1 /\ NextJob \in Jobs
    BY <2>3, JobIsNext
  <2>6. n + 1 \in 0 .. Calls + 1 /\ n + 1 + Cardinality(Readers') <= made' + 1
    BY <1>0, <1>c, <2>2, <2>3, <2>4
  <2>7. Submitted(n + 1)'
    BY SMTT(30), <1>0, <2>3, <2>4, <2>5, JobsAre DEF Submitted, JobsOK, JobForm
  <2> QED
    BY <1>0, <2>2, <2>4, <2>6, <2>7 DEF Counted
<1>6. ASSUME NEW c \in Callers, Resumes(c) PROVE Counted'
  <2>1. made' = made + 1 /\ made < Calls /\ Readers' = Readers /\ made' <= Calls
    BY <1>0, <1>6 DEF Resumes, Called, Readers
  <2>2. CASE Submits("queued")
    <3>1. PICK n \in 0 .. Calls : Submitted(n) /\ n + Cardinality(Readers) <= made + 1
      BY <2>1, JobIsLeft
    <3>2. jobs' = [jobs EXCEPT ![NextJob].state = "queued"]
      BY <2>2 DEF Submits
    <3>3. NextJob = n + 1 /\ NextJob \in Jobs
      BY <3>1, JobIsNext
    <3>4. n + 1 \in 0 .. Calls + 1 /\ n + 1 + Cardinality(Readers') <= made' + 1
      BY <1>0, <1>c, <2>1, <3>1
    <3>5. Submitted(n + 1)'
      BY SMTT(30), <1>0, <3>1, <3>2, <3>3, JobsAre DEF Submitted, JobsOK, JobForm
    <3> QED
      BY <1>c, <2>1, <3>4, <3>5 DEF Counted
  <2>3. CASE ~Submits("queued")
    <3>1. Same0
      BY <1>0, <1>6, <2>3 DEF Resumes, JobsOK, JobForm
    <3> QED
      BY <1>0, <2>1, <3>1, CountGoesOn
  <2> QED
    BY <2>2, <2>3
<1>7. ASSUME NEW c \in Callers, NEW j \in Jobs, ResumesJob(c, j) PROVE Counted'
  <2>1. Same0
    BY <1>0, <1>7 DEF ResumesJob, JobsOK, JobForm
  <2>2. made' = made + 1 /\ made < Calls /\ Readers' = Readers
    BY <1>7 DEF ResumesJob, Called, Readers
  <2> QED
    BY <1>0, <2>1, <2>2, CountGoesOn
<1>8. ASSUME NEW c \in Callers, NEW j \in Jobs, PauseIsSaid(c, j) PROVE Counted'
  <2>1. Same0 /\ made' = made + 1 /\ made < Calls
    BY <1>8 DEF PauseIsSaid, Called
  <2>2. Readers' = Readers
    BY <1>0, <1>8 DEF PauseIsSaid, Readers, NoCall, CallsOK, CallForm
  <2> QED
    BY <1>0, <2>1, <2>2, CountGoesOn
<1>9. ASSUME NEW c \in Callers, PauseLands(c) PROVE Counted'
  <2>1. Same0
    BY <1>0, <1>9 DEF PauseLands, JobsOK, JobForm
  <2>2. Readers' = Readers
    BY <1>0, <1>9 DEF PauseLands, Readers, NoCall, CallsOK, CallForm
  <2>3. made' = made
    BY <1>9 DEF PauseLands
  <2> QED
    BY <1>0, <2>1, <2>2, <2>3, CountGoesOn
<1>10. ASSUME NEW c \in Callers, NEW discard \in BOOLEAN, Cancels(c, discard) PROVE Counted'
  <2>1. Same0
    BY <1>0, <1>10 DEF Cancels, JobsOK, JobForm, Ended
  <2>2. made' = made + 1 /\ made < Calls /\ Readers' = Readers
    BY <1>10 DEF Cancels, Called, Readers
  <2> QED
    BY <1>0, <2>1, <2>2, CountGoesOn
<1>11. ASSUME Crash PROVE Counted'
  <2>1. Readers' = {} /\ made' = made
    BY <1>11 DEF Crash, Readers, NoCall
  <2>2. IsFiniteSet(Readers') /\ Cardinality(Readers') = 0
    BY <2>1, FS_EmptySet
  <2>3. Submitted(1)' \/ Submitted(0)'
    <3>1. ASSUME There(manifest) /\ manifest.stage = "restoring"
          PROVE  \A j \in Jobs : jobs'[j].state = "absent" <=> j # 1
      BY <1>11, <3>1 DEF Crash
    <3>2. ASSUME ~(There(manifest) /\ manifest.stage = "restoring")
          PROVE  \A j \in Jobs : jobs'[j].state = "absent"
      BY <1>11, <3>2 DEF Crash
    <3>3. \A j \in Jobs : (j # 1 <=> j > 1) /\ j > 0
      BY JobsAre
    <3> QED
      BY <3>1, <3>2, <3>3 DEF Submitted
  <2>4. \A n \in {0, 1} : n \in 0 .. Calls + 1 /\ n + Cardinality(Readers') <= made' + 1
    BY <1>0, <2>1, <2>2
  <2> QED
    BY <1>0, <2>1, <2>2, <2>3, <2>4 DEF Counted
<1>12. ASSUME \/ \E r \in Runs : \/ StreamDrops(r) \/ RunFetches(r) \/ BorgWrites(r) \/ RunFetched(r)
                                 \/ RunPlans(r) \/ RunMoves(r) \/ RunWritesDown(r) \/ RunEndsStep(r)
              \/ HandOverBegins \/ HandOverEnds
              \/ \E replaced \in SUBSET Files : SummaryIsAnswered(replaced)
              \/ CancelDiscards \/ CancelClears \/ \E f \in Files : PersonWrites(f)
              \/ UNCHANGED vars
       PROVE  Counted'
  <2>1. UNCHANGED <<jobs, calls, made>>
    BY <1>12 DEF StreamDrops, RunFetches, BorgWrites, RunFetched, RunPlans, RunMoves, RunWritesDown,
         RunEndsStep, HandOverBegins, HandOverEnds, SummaryIsAnswered, CancelDiscards, CancelClears,
         PersonWrites, vars, daemon
  <2> QED
    BY <1>0, <2>1, CountGoesOn DEF Readers
<1> QED
  BY <1>1, <1>2, <1>3, <1>4, <1>5, <1>6, <1>7, <1>8, <1>9, <1>10, <1>11, <1>12
  DEF Next, RunStep, Call

TypeInv == TypeOK /\ Counted

LEMMA TypeInvHolds == Spec => []TypeInv
<1>1. Init => TypeInv
  BY TypeInit, CountedInit DEF TypeInv
<1>2. TypeInv /\ [Next]_vars => TypeInv'
  <2> SUFFICES ASSUME TypeInv, [Next]_vars PROVE TypeInv'
    OBVIOUS
  <2>1. RecordOK' /\ FilesOK' /\ WorkOK' /\ JobsOK' /\ RunsOK' /\ CallsOK'
    BY RecordStep, FilesStep, WorkStep, JobsStep, CallsStep DEF TypeInv
  <2>2. TypeOK'
    BY <2>1 DEF TypeOK, RecordOK, FilesOK, JobsOK, RunsOK, WorkOK, CallsOK, JobForm, RunForm,
       CallForm, CancelForm, HandForm
  <2> QED
    BY <2>2, CountedStep DEF TypeInv
<1> QED
  BY <1>1, <1>2, PTL DEF Spec

(* Of every state: the state has its types, and a job that is submitted    *)
(* finds a number.                                                         *)
THEOREM TypeCorrect == Spec => []TypeOK
BY TypeInvHolds, PTL DEF TypeInv

-----------------------------------------------------------------------------
(* What is the person's.                                                   *)

(* What a run has to place is what was not there, and no file of theirs.   *)
Placing == work.at \in {"placing", "moved"}
OnlyAdds == (work.adds # {} => Placing) /\ \A f \in work.adds : disk[f] # Theirs

LEMMA OnlyAddsStep ==
  ASSUME TypeOK, OnlyAdds, "meanwhile" \notin Circumstances, [Next]_vars
  PROVE  OnlyAdds'
<1>0. FilesOK /\ WorkOK
  BY TypeParts
<1> USE DEF OnlyAdds, Placing
<1>1. ASSUME NEW r \in Runs,
             \/ RunTakesTurn(r) \/ RunEndsStep(r) \/ RunStops(r) \/ RunFinishes(r) \/ RunFails(r)
      PROVE  OnlyAdds'
  <2>1. RunIsOver(r, "completed") \/ RunIsOver(r, "cancelled") \/ RunIsOver(r, "failed")
          => work'.adds = {}
    BY DEF RunIsOver, Idle
  <2>2. RunTakesTurn(r) \/ RunEndsStep(r) => work'.adds = {}
    BY <2>1 DEF RunTakesTurn, RunEndsStep, Idle
  <2> QED
    BY <1>1, <2>1, <2>2 DEF RunStops, RunFinishes, RunFails
<1>2. ASSUME NEW r \in Runs, RunFetches(r) \/ BorgWrites(r) \/ RunFetched(r) PROVE OnlyAdds'
  <2>1. work.adds = {}
    BY <1>2 DEF RunFetches, BorgWrites, RunFetched, Works
  <2>2. work'.adds = work.adds
    BY <1>0, <1>2 DEF RunFetches, BorgWrites, RunFetched, Saves, WorkOK, Work
  <2> QED
    BY <2>1, <2>2
<1>3. ASSUME NEW r \in Runs, RunPlans(r) PROVE OnlyAdds'
  <2>1. work'.at = "placing" /\ \A f \in work'.adds : disk[f] = Missing
    BY <1>0, <1>3 DEF RunPlans, Added, WorkOK, Work
  <2>2. disk' = disk
    BY <1>3 DEF RunPlans, durable
  <2> QED
    BY <2>1, <2>2
<1>4. ASSUME NEW r \in Runs, RunMoves(r) PROVE OnlyAdds'
  <2>1. /\ work'.adds = work.adds \ {First(work.adds)} /\ work'.at \in {"placing", "moved"}
    BY <1>0, <1>4 DEF RunMoves, Works, WorkOK, Work
  <2>2. \A f \in work.adds \ {First(work.adds)} : disk'[f] = disk[f]
    BY <1>0, <1>4 DEF RunMoves, FilesOK, WorkOK, Work
  <2> QED
    BY <2>1, <2>2
<1>5. ASSUME NEW r \in Runs, RunWritesDown(r) PROVE OnlyAdds'
  BY <1>0, <1>5 DEF RunWritesDown, WorkOK, Work
<1>6. ASSUME NEW replaced \in SUBSET Files, SummaryIsAnswered(replaced) PROVE OnlyAdds'
  <2>1. UNCHANGED work
    BY <1>6 DEF SummaryIsAnswered
  <2>2. \A f \in Files : disk'[f] \in {disk[f], Answered}
    BY <1>6 DEF SummaryIsAnswered
  <2> QED
    BY <1>0, <2>1, <2>2 DEF WorkOK, Work
<1>7. ASSUME CancelDiscards PROVE OnlyAdds'
  <2>1. UNCHANGED work
    BY <1>7 DEF CancelDiscards
  <2>2. \A f \in Files : disk'[f] \in {disk[f], Missing}
    BY <1>7 DEF CancelDiscards
  <2> QED
    BY <1>0, <2>1, <2>2 DEF WorkOK, Work
<1>8. ASSUME NEW f \in Files, PersonWrites(f) PROVE OnlyAdds'
  BY <1>8 DEF PersonWrites, daemon
<1>9. ASSUME Crash PROVE OnlyAdds'
  BY <1>9 DEF Crash, Idle
<1>10. ASSUME \/ \E j \in Jobs : JobStarts(j) \/ JobSettles(j)
              \/ \E r \in Runs : StreamDrops(r)
              \/ HandOverBegins \/ HandOverEnds
              \/ \E c \in Callers : Call(c)
              \/ CancelClears \/ UNCHANGED vars
       PROVE  OnlyAdds'
  <2>1. UNCHANGED <<work, disk>>
    BY <1>10 DEF JobStarts, JobSettles, StreamDrops, HandOverBegins, HandOverEnds, Call, BeginChecks,
         Resumes, PauseLands, BeginSaves, ResumesJob, PauseIsSaid, Cancels, CancelClears, vars,
         daemon, durable
  <2> QED
    BY <2>1
<1> QED
  BY <1>1, <1>2, <1>3, <1>4, <1>5, <1>6, <1>7, <1>8, <1>9, <1>10 DEF Next, RunStep

LEMMA TheirsStep ==
  ASSUME TypeOK, OnlyAdds, TheirsIsSafe, [Next]_vars
  PROVE  TheirsIsSafe'
<1>0. FilesOK /\ WorkOK
  BY TypeParts
<1> USE DEF TheirsIsSafe, FilesOK
<1>1. ASSUME NEW r \in Runs, RunMoves(r) PROVE TheirsIsSafe'
  <2>1. First(work.adds) \in work.adds
    BY <1>0, <1>1, FirstOfSome DEF RunMoves, WorkOK, Work
  <2>2. UNCHANGED <<stash, dear>> /\ \A f \in Files \ work.adds : disk'[f] = disk[f]
    BY <1>0, <1>1, <2>1 DEF RunMoves
  <2>3. \A f \in work.adds : f \in dear => f \in stash
    BY DEF OnlyAdds
  <2> QED
    BY <1>0, <2>2, <2>3
<1>2. ASSUME NEW r \in Runs, RunFinishes(r) PROVE TheirsIsSafe'
  <2>1. dear' = dear /\ stash \subseteq stash'
    BY <1>2 DEF RunFinishes
  <2>2. \A f \in Files : disk[f] = Theirs => disk'[f] = Theirs \/ f \in stash'
    BY <1>0, <1>2 DEF RunFinishes
  <2> QED
    BY <1>0, <2>1, <2>2
<1>3. ASSUME NEW replaced \in SUBSET Files, SummaryIsAnswered(replaced) PROVE TheirsIsSafe'
  <2>1. dear' = dear /\ stash \subseteq stash'
    BY <1>3 DEF SummaryIsAnswered
  <2>2. \A f \in Files : disk[f] = Theirs => disk'[f] = Theirs \/ f \in stash'
    BY <1>3 DEF SummaryIsAnswered
  <2> QED
    BY <1>0, <2>1, <2>2
<1>4. ASSUME CancelDiscards PROVE TheirsIsSafe'
  <2>1. UNCHANGED <<dear, stash>>
    BY <1>4 DEF CancelDiscards
  <2>2. \A f \in Files : disk[f] = Theirs => disk'[f] = Theirs
    BY <1>0, <1>4 DEF CancelDiscards, AsItArrived
  <2> QED
    BY <1>0, <2>1, <2>2
<1>5. ASSUME NEW f \in Files, PersonWrites(f) PROVE TheirsIsSafe'
  BY <1>0, <1>5 DEF PersonWrites
<1>6. ASSUME \/ \E j \in Jobs : JobStarts(j) \/ JobSettles(j)
             \/ \E r \in Runs : \/ StreamDrops(r) \/ RunTakesTurn(r) \/ RunFetches(r) \/ BorgWrites(r)
                                \/ RunFetched(r) \/ RunPlans(r) \/ RunWritesDown(r) \/ RunEndsStep(r)
                                \/ RunStops(r) \/ RunFails(r)
             \/ HandOverBegins \/ HandOverEnds
             \/ \E c \in Callers : Call(c)
             \/ CancelClears \/ Crash \/ UNCHANGED vars
      PROVE  TheirsIsSafe'
  <2>1. UNCHANGED <<disk, stash, dear>>
    BY <1>6 DEF JobStarts, JobSettles, StreamDrops, RunTakesTurn, RunFetches, BorgWrites, RunFetched,
         RunPlans, RunWritesDown, RunEndsStep, RunStops, RunFails, HandOverBegins, HandOverEnds, Call,
         BeginChecks, Resumes, PauseLands, BeginSaves, ResumesJob, PauseIsSaid, Cancels,
         CancelClears, Crash, vars, durable
  <2> QED
    BY <2>1
<1> QED
  BY <1>1, <1>2, <1>3, <1>4, <1>5, <1>6 DEF Next, RunStep

(* Of every state: while the person writes nothing between a step's plan   *)
(* and its end, what they have is where they put it or in the stash: the   *)
(* steps, the answers to clashes and Discard take none of it, whatever     *)
(* calls overlap and wherever the daemon crashes.                          *)
THEOREM NothingOfTheirsIsLost ==
  ASSUME "meanwhile" \notin Circumstances
  PROVE  Spec => []TheirsIsSafe
<1> DEFINE IInv == TypeInv /\ OnlyAdds /\ TheirsIsSafe
<1>1. Init => OnlyAdds /\ TheirsIsSafe
  BY DEF Init, OnlyAdds, TheirsIsSafe, Idle
<1>2. TypeInv /\ OnlyAdds /\ TheirsIsSafe /\ [Next]_vars => (OnlyAdds /\ TheirsIsSafe)'
  BY OnlyAddsStep, TheirsStep DEF TypeInv
<1> QED
  BY <1>1, <1>2, TypeInvHolds, PTL DEF Spec

-----------------------------------------------------------------------------
(* With the calls and the hand-over one after another.                     *)

Live(j) == jobs[j].state \in {"queued", "running", "paused"}

(* What a copy of the record has to agree with it on: not on the pause,    *)
(* and it may know of more failures.                                       *)
Same(m, n) ==
  m.no = n.no /\ m.stage = n.stage /\ m.handed = n.handed /\ m.policy = n.policy
  /\ m.steps = n.steps /\ n.failed \subseteq m.failed

OneCall == \A c, d \in Callers : calls[c] # NoCall /\ calls[d] # NoCall => c = d
ReadsAlone ==
  \A c \in Readers :
    calls[c].of # 0 /\ ~There(manifest) /\ ~handing.due /\ ~handing.on /\ ~cancel.on
RunIsOfRecord ==
  turn \in Runs =>
    /\ runs[turn].job # 0
    /\ There(manifest) /\ manifest.stage = "restoring" /\ Same(work.m, manifest)
    /\ work.at # "steps" => Undone(work.m) # {}
HandsOverRecord ==
  handing.on => There(manifest) /\ manifest = handing.m /\ manifest.stage # "restoring"
CancelsRecord ==
  /\ cancel.done <=> turn = TheCancel
  /\ cancel.done => cancel.on
  /\ cancel.on => ~handing.due /\ ~handing.on /\ There(manifest) /\ cancel.no = manifest.no
StagesAgree ==
  /\ manifest.stage = "finished" => held = {}
  /\ manifest.handed => manifest.stage # "restoring"
OneJob ==
  /\ \A j \in Jobs : Live(j) => j = job
  /\ cancel.on \/ handing.due \/ handing.on \/ ~There(manifest) \/ manifest.handed
       => \A j \in Jobs : ~Live(j)
InOrder(m) ==
  \A s \in Undone(m) : m.steps[s] # "pending" => \A t \in Undone(m) : s <= t
InTurns ==
  /\ OneCall /\ ReadsAlone /\ RunIsOfRecord /\ HandsOverRecord /\ CancelsRecord
  /\ StagesAgree /\ OneJob /\ InOrder(manifest)
InvTurns == TypeInv /\ InTurns

OneByOne == "side by side" \notin Circumstances

LEMMA InTurnsInit == Init => InTurns
<1> SUFFICES ASSUME Init PROVE InTurns
  OBVIOUS
<1>1. manifest.no = 0 /\ manifest.stage = "finished" /\ ~manifest.handed /\ Undone(manifest) = {}
  BY DEF Init, None, Undone
<1>2. OneCall /\ ReadsAlone /\ HandsOverRecord
  BY DEF Init, OneCall, ReadsAlone, Readers, NoCall, HandsOverRecord, NotHanding
<1>3. RunIsOfRecord /\ CancelsRecord
  BY DEF Init, RunIsOfRecord, CancelsRecord, NoCancel
<1>4. StagesAgree /\ OneJob /\ InOrder(manifest)
  BY <1>1 DEF Init, StagesAgree, OneJob, Live, InOrder
<1> QED
  BY <1>2, <1>3, <1>4 DEF InTurns

(* A run that writes a step down writes the least that is not done. *)
LEMMA StepIsWritten ==
  ASSUME TypeOK, RunIsOfRecord, NEW r \in Runs, RunFetches(r) \/ RunFetched(r) \/ RunEndsStep(r)
  PROVE  /\ turn = r /\ manifest' = work'.m /\ work'.m.failed = work.m.failed
         /\ manifest'.no = manifest.no /\ manifest'.stage = manifest.stage
         /\ manifest'.handed = manifest.handed /\ manifest'.policy = manifest.policy
         /\ StepOf(work.m) \in Undone(manifest) /\ StepOf(work.m) \in Steps
         /\ \A t \in Undone(manifest) : StepOf(work.m) <= t
         /\ manifest'.steps[StepOf(work.m)] =
              IF RunFetches(r) THEN "fetching" ELSE IF RunFetched(r) THEN "placing" ELSE "done"
         /\ \A t \in Steps \ {StepOf(work.m)} : manifest'.steps[t] = manifest.steps[t]
         /\ work'.at \in {"steps", "fetching"} /\ (work'.at = "fetching" => RunFetches(r))
         /\ UNCHANGED <<disk, stash, added, job, pausing, jobs, runs, turn, cancel, calls, handing>>
<1> DEFINE s == StepOf(work.m)
<1>0. work.m \in Manifest /\ work \in Work
  BY DEF TypeOK, Work
<1>1. turn = r /\ Same(work.m, manifest) /\ Undone(work.m) # {}
  BY DEF RunFetches, RunFetched, RunEndsStep, Placed, Works, RunIsOfRecord
<1>2. Undone(work.m) = Undone(manifest)
  BY <1>1 DEF Same, Undone
<1>3. s \in Undone(work.m) /\ s \in Steps /\ \A t \in Undone(work.m) : s <= t
  BY <1>0, <1>1, StepIsUndone
<1>4. UNCHANGED <<disk, stash, added, job, pausing, jobs, runs, turn, cancel, calls, handing>>
  BY DEF RunFetches, RunFetched, RunEndsStep, durable
<1>5. /\ RunFetches(r) => work.m.steps[s] # "placing" /\ work.at = "steps"
      /\ RunFetched(r) => work.at = "fetching"
      /\ RunEndsStep(r) => work.at = "placing"
  BY DEF RunFetches, RunFetched, RunEndsStep, Placed, Works
<1>6. PICK st \in {"fetching", "placing", "done"} :
        /\ manifest' = [work.m EXCEPT !.steps[s] = st]
        /\ st = IF RunFetches(r) THEN "fetching" ELSE IF RunFetched(r) THEN "placing" ELSE "done"
        /\ work'.m = [work.m EXCEPT !.steps[s] = st]
        /\ work'.at \in {"steps", "fetching"} /\ (work'.at = "fetching" => RunFetches(r))
  <2>1. CASE RunFetches(r)
    <3>1. manifest' = [work.m EXCEPT !.steps[s] = "fetching"]
      BY <2>1 DEF RunFetches
    <3>2. work'.m = [work.m EXCEPT !.steps[s] = "fetching"] /\ work'.at = "fetching"
      BY <1>0, <2>1 DEF RunFetches, Work
    <3> QED
      BY <2>1, <3>1, <3>2
  <2>2. CASE RunFetched(r) /\ ~RunFetches(r)
    <3>1. manifest' = [work.m EXCEPT !.steps[s] = "placing"]
      BY <2>2 DEF RunFetched, Saves
    <3>2. work'.m = [work.m EXCEPT !.steps[s] = "placing"] /\ work'.at = "steps"
      BY <1>0, <2>2 DEF RunFetched, Saves, Work
    <3> QED
      BY <2>2, <3>1, <3>2
  <2>3. CASE RunEndsStep(r) /\ ~RunFetches(r) /\ ~RunFetched(r)
    <3>1. manifest' = [work.m EXCEPT !.steps[s] = "done"]
      BY <2>3 DEF RunEndsStep
    <3>2. work'.m = [work.m EXCEPT !.steps[s] = "done"] /\ work'.at = "steps"
      BY <2>3 DEF RunEndsStep, Idle
    <3> QED
      BY <2>3, <3>1, <3>2
  <2> QED
    BY <2>1, <2>2, <2>3
<1> HIDE DEF s
<1>7. st \in Status
  BY DEF Status
<1>8. /\ manifest'.no = work.m.no /\ manifest'.stage = work.m.stage
      /\ manifest'.handed = work.m.handed /\ manifest'.policy = work.m.policy
      /\ manifest'.failed = work.m.failed /\ manifest'.steps[s] = st
      /\ \A t \in Steps \ {s} : manifest'.steps[t] = work.m.steps[t]
  BY <1>0, <1>3, <1>6, <1>7, StepIsSet
<1>9. /\ work.m.no = manifest.no /\ work.m.stage = manifest.stage
      /\ work.m.handed = manifest.handed /\ work.m.policy = manifest.policy
      /\ work.m.steps = manifest.steps
  BY <1>1 DEF Same
<1> QED
  BY <1>1, <1>2, <1>3, <1>4, <1>6, <1>8, <1>9 DEF s

(* A run that begins or stops leaves the record of what is done. *)
LEMMA RecordIsKept ==
  ASSUME TypeOK, RunIsOfRecord, NEW r \in Runs, RunTakesTurn(r) \/ RunStops(r) \/ RunFails(r)
  PROVE  /\ manifest'.no = manifest.no /\ manifest'.stage = manifest.stage
         /\ manifest'.handed = manifest.handed /\ manifest'.policy = manifest.policy
         /\ manifest'.steps = manifest.steps /\ manifest'.failed = manifest.failed
         /\ UNCHANGED <<disk, stash, staging, held, added, job, cancel, calls>>
<1>0. work.m \in Manifest /\ manifest \in Manifest
  BY DEF TypeOK, Work
<1>1. CASE RunTakesTurn(r)
  <2>1. manifest' = manifest \/ manifest' = [manifest EXCEPT !.paused = FALSE]
    BY <1>1 DEF RunTakesTurn
  <2> QED
    BY <1>0, <1>1, <2>1 DEF RunTakesTurn, Manifest, durable
<1>2. CASE RunStops(r)
  <2>1. turn = r /\ manifest' = [work.m EXCEPT !.paused = WasAPause, !.failed = manifest.failed]
    BY <1>2 DEF RunStops
  <2>2. Same(work.m, manifest)
    BY <2>1 DEF RunIsOfRecord
  <2> QED
    BY <1>0, <1>2, <2>1, <2>2 DEF RunStops, Manifest, durable, Same
<1>3. CASE RunFails(r)
  BY <1>3 DEF RunFails, durable
<1> QED
  BY <1>1, <1>2, <1>3

LEMMA RecordIsFinished ==
  ASSUME TypeOK, RunIsOfRecord, NEW r \in Runs, RunFinishes(r)
  PROVE  /\ turn = r /\ There(manifest) /\ manifest.stage = "restoring"
         /\ manifest'.no = manifest.no /\ manifest'.handed = manifest.handed
         /\ manifest'.steps = manifest.steps /\ manifest.failed \subseteq manifest'.failed
         /\ manifest'.stage \in {"review", "finished"}
         /\ manifest'.stage = "finished" => held' = {}
         /\ UNCHANGED <<added, job, cancel, calls>>
<1>0. work.m \in Manifest /\ manifest \in Manifest
  BY DEF TypeOK, Work
<1>1. turn = r
  BY DEF RunFinishes, Works
<1>2. There(manifest) /\ manifest.stage = "restoring" /\ Same(work.m, manifest)
  BY <1>1 DEF RunIsOfRecord
<1>3. PICK stage \in {"review", "finished"} :
        /\ manifest' = [work.m EXCEPT !.stage = stage]
        /\ stage = "finished" => held = {} \/ work.m.policy # "ask"
  BY DEF RunFinishes
<1>4. /\ manifest'.no = work.m.no /\ manifest'.handed = work.m.handed /\ manifest'.stage = stage
      /\ manifest'.steps = work.m.steps /\ manifest'.failed = work.m.failed
  BY <1>0, <1>3 DEF Manifest
<1>5. held = {} \/ work.m.policy # "ask" => held' = {}
  BY DEF RunFinishes
<1> QED
  BY <1>1, <1>2, <1>3, <1>4, <1>5 DEF Same, RunFinishes

(* A run that is over leaves its job over, and what it leaves to be handed *)
(* over has no job any more.                                               *)
LEMMA OverIsNotLive ==
  ASSUME TypeOK, OneJob, NEW r \in Runs, runs[r].job # 0,
         NEW outcome \in {"completed", "cancelled", "failed"}, RunIsOver(r, outcome)
  PROVE  /\ \A j \in Jobs : Live(j)' => Live(j)
         /\ handing'.on = handing.on /\ handing'.m = handing.m
         /\ handing'.due => \A j \in Jobs : ~Live(j)'
         /\ handing'.due = (handing.due \/ (Heard(r) /\ outcome = "completed"))
         /\ Heard(r) => ~cancel.on /\ There(manifest) /\ ~handing.on
         /\ turn' = 0 /\ work' = Idle /\ runs' = [runs EXCEPT ![r] = NoRun]
<1>0. JobsOK /\ RunsOK /\ CallsOK
  BY TypeParts
<1>1. runs[r].job \in Jobs
  BY <1>0 DEF RunsOK, RunForm
<1>2. \A j \in Jobs : jobs'[j].state = IF Heard(r) /\ j = runs[r].job THEN outcome ELSE jobs[j].state
  BY <1>0, <1>1 DEF RunIsOver, JobsOK, JobForm
<1>3. Heard(r) => Live(runs[r].job)
  BY DEF Heard, Live
<1>4. handing' = [handing EXCEPT !.due = @ \/ (Heard(r) /\ outcome = "completed")]
  BY DEF RunIsOver
<1>5. /\ handing'.on = handing.on /\ handing'.m = handing.m
      /\ handing'.due = (handing.due \/ (Heard(r) /\ outcome = "completed"))
  BY <1>0, <1>4 DEF CallsOK, HandForm
<1>6. \A j \in Jobs : Live(j)' => Live(j) /\ ~(Heard(r) /\ j = runs[r].job)
  BY <1>2 DEF Live
<1>7. Heard(r) => runs[r].job = job /\ ~cancel.on /\ ~handing.due /\ ~handing.on /\ There(manifest)
  BY <1>1, <1>3 DEF OneJob
<1>8. handing'.due => \A j \in Jobs : ~Live(j)'
  BY <1>5, <1>6, <1>7 DEF OneJob
<1> QED
  BY <1>5, <1>6, <1>7, <1>8 DEF RunIsOver

LEMMA OneCallStep ==
  ASSUME TypeOK, OneByOne, OneCall, [Next]_vars
  PROVE  OneCall'
<1>0. CallsOK
  BY TypeParts
<1> USE DEF OneCall, CallsOK
<1>1. ASSUME NEW c \in Callers, BeginChecks(c) \/ \E j \in Jobs : PauseIsSaid(c, j) PROVE OneCall'
  <2>1. \A d \in Callers : calls[d] = NoCall
    BY <1>1 DEF BeginChecks, PauseIsSaid, InTurn, OneByOne
  <2>2. \A d \in Callers \ {c} : calls'[d] = calls[d]
    BY <1>0, <1>1 DEF BeginChecks, PauseIsSaid
  <2> QED
    BY <2>1, <2>2
<1>2. ASSUME NEW c \in Callers,
             \/ PauseLands(c)
             \/ \E asked \in (SUBSET Steps) \ {{}}, policy \in Policies : BeginSaves(c, asked, policy)
      PROVE  OneCall'
  <2>1. calls' = [calls EXCEPT ![c] = NoCall]
    BY <1>2 DEF PauseLands, BeginSaves
  <2> QED
    BY <1>0, <2>1
<1>3. ASSUME Crash PROVE OneCall'
  BY <1>3 DEF Crash
<1>4. ASSUME \/ \E j \in Jobs : JobStarts(j) \/ JobSettles(j)
             \/ \E r \in Runs : StreamDrops(r) \/ RunStep(r) \/ RunFails(r)
             \/ HandOverBegins \/ HandOverEnds
             \/ \E replaced \in SUBSET Files : SummaryIsAnswered(replaced)
             \/ \E c \in Callers : \/ Resumes(c) \/ \E j \in Jobs : ResumesJob(c, j)
                                   \/ \E discard \in BOOLEAN : Cancels(c, discard)
             \/ CancelDiscards \/ CancelClears \/ \E f \in Files : PersonWrites(f)
             \/ UNCHANGED vars
      PROVE  OneCall'
  <2>1. calls' = calls
    BY <1>4 DEF JobStarts, JobSettles, StreamDrops, RunStep, RunTakesTurn, RunFetches, BorgWrites,
         RunFetched, RunPlans, RunMoves, RunWritesDown, RunEndsStep, RunStops, RunFinishes, RunFails,
         HandOverBegins, HandOverEnds, SummaryIsAnswered, Resumes, ResumesJob, Cancels,
         CancelDiscards, CancelClears, PersonWrites, vars, daemon
  <2> QED
    BY <2>1
<1> QED
  BY <1>1, <1>2, <1>3, <1>4 DEF Next, Call

LEMMA ReadsAloneStep ==
  ASSUME TypeOK, OneByOne, InTurns, [Next]_vars
  PROVE  ReadsAlone'
<1>0. CallsOK /\ OneCall /\ ReadsAlone /\ RunIsOfRecord /\ OneJob /\ CancelsRecord
  BY TypeParts DEF InTurns
<1>t. \A c \in Callers : calls[c] \in CallForm
  BY <1>0 DEF CallsOK
<1>r. \A c \in Readers : c \in Callers /\ calls[c] # NoCall
  BY DEF Readers, NoCall
<1>n. ASSUME Readers' = {} PROVE ReadsAlone'
  BY <1>n DEF ReadsAlone
<1>e. ASSUME Readers = {}, calls' = calls PROVE ReadsAlone'
  BY <1>e DEF ReadsAlone, Readers
<1>1. ASSUME NEW c \in Callers, BeginChecks(c) PROVE ReadsAlone'
  <2>1. Readers' = {c}
    <3>1. \A d \in Callers : calls[d] = NoCall
      BY <1>1 DEF BeginChecks, InTurn, OneByOne
    <3>2. calls' = [calls EXCEPT ![c] = [at |-> "reading", of |-> made + 1]]
      BY <1>1 DEF BeginChecks
    <3> QED
      BY <1>0, <3>1, <3>2 DEF Readers, NoCall, CallsOK
  <2>2. calls'[c].of = made + 1 /\ made + 1 # 0
    BY <1>0, <1>1 DEF BeginChecks, CallsOK
  <2>3. ~There(manifest) /\ ~handing.due /\ ~handing.on /\ ~cancel.on /\ UNCHANGED <<manifest, handing, cancel>>
    BY <1>1 DEF BeginChecks, InTurn, OneByOne
  <2> QED
    BY <2>1, <2>2, <2>3 DEF ReadsAlone
<1>2. ASSUME NEW c \in Callers,
             \/ PauseLands(c)
             \/ \E asked \in (SUBSET Steps) \ {{}}, policy \in Policies : BeginSaves(c, asked, policy)
      PROVE  ReadsAlone'
  <2>1. calls' = [calls EXCEPT ![c] = NoCall] /\ calls[c].at # "idle"
    BY <1>2 DEF PauseLands, BeginSaves
  <2>2. Readers \subseteq {c}
    BY <1>0, <1>r, <2>1 DEF OneCall, NoCall
  <2>3. Readers' = {}
    BY <1>0, <2>1, <2>2 DEF Readers, NoCall, CallsOK
  <2> QED
    BY <1>n, <2>3
<1>3. ASSUME NEW c \in Callers,
             \/ Resumes(c) \/ \E j \in Jobs : ResumesJob(c, j) \/ PauseIsSaid(c, j)
             \/ \E discard \in BOOLEAN : Cancels(c, discard)
      PROVE  ReadsAlone'
  <2>1. \A d \in Callers : calls[d] = NoCall
    BY <1>3 DEF Resumes, ResumesJob, PauseIsSaid, Cancels, InTurn, OneByOne
  <2>2. calls' = calls \/ \E j \in Jobs : calls' = [calls EXCEPT ![c] = [at |-> "pausing", of |-> j]]
    BY <1>3 DEF Resumes, ResumesJob, PauseIsSaid, Cancels
  <2>3. Readers' = {}
    BY <1>0, <2>1, <2>2 DEF Readers, NoCall, CallsOK
  <2> QED
    BY <1>n, <2>3
<1>4. ASSUME NEW r \in Runs, RunTakesTurn(r) PROVE ReadsAlone'
  <2>1. UNCHANGED <<calls, cancel>> /\ runs[r].job # 0
    BY <1>4 DEF RunTakesTurn
  <2>2. CASE There(manifest) /\ manifest.stage = "restoring"
    <3>1. Readers = {}
      BY <1>0, <2>2 DEF ReadsAlone
    <3> QED
      BY <1>e, <2>1, <3>1
  <2>3. CASE ~(There(manifest) /\ manifest.stage = "restoring")
    <3>1. RunIsOver(r, "completed") /\ manifest' = manifest
      BY <1>4, <2>3 DEF RunTakesTurn
    <3>2. handing'.on = handing.on /\ (handing'.due => handing.due \/ There(manifest))
      BY <1>0, <2>1, <3>1, OverIsNotLive
    <3> QED
      BY <1>0, <2>1, <3>1, <3>2 DEF ReadsAlone, Readers
  <2> QED
    BY <2>2, <2>3
<1>5. ASSUME NEW r \in Runs,
             \/ RunFetches(r) \/ BorgWrites(r) \/ RunFetched(r) \/ RunPlans(r) \/ RunMoves(r)
             \/ RunWritesDown(r) \/ RunEndsStep(r) \/ RunStops(r) \/ RunFinishes(r) \/ RunFails(r)
      PROVE  ReadsAlone'
  <2>1. turn = r /\ calls' = calls
    BY <1>5 DEF RunFetches, BorgWrites, RunFetched, RunPlans, RunMoves, RunWritesDown, RunEndsStep,
         RunStops, RunFinishes, RunFails, Works, Placed
  <2>2. Readers = {}
    BY <1>0, <2>1 DEF RunIsOfRecord, ReadsAlone
  <2> QED
    BY <1>e, <2>1, <2>2
<1>6. ASSUME \/ HandOverBegins \/ HandOverEnds \/ CancelDiscards \/ CancelClears
             \/ \E replaced \in SUBSET Files : SummaryIsAnswered(replaced)
      PROVE  ReadsAlone'
  <2>1. Readers = {}
    BY <1>0, <1>6 DEF HandOverBegins, HandOverEnds, CancelDiscards, CancelClears, SummaryIsAnswered,
         ReadsAlone, CancelsRecord
  <2>2. calls' = calls
    BY <1>6 DEF HandOverBegins, HandOverEnds, CancelDiscards, CancelClears, SummaryIsAnswered
  <2> QED
    BY <1>e, <2>1, <2>2
<1>7. ASSUME Crash PROVE ReadsAlone'
  BY <1>7, <1>n DEF Crash, Readers, NoCall
<1>8. ASSUME \/ \E j \in Jobs : JobStarts(j) \/ JobSettles(j)
             \/ \E r \in Runs : StreamDrops(r)
             \/ \E f \in Files : PersonWrites(f)
             \/ UNCHANGED vars
      PROVE  ReadsAlone'
  <2>1. UNCHANGED <<manifest, handing, cancel, calls>>
    BY <1>8 DEF JobStarts, JobSettles, StreamDrops, PersonWrites, vars, daemon
  <2> QED
    BY <1>0, <2>1 DEF ReadsAlone, Readers
<1> QED
  BY <1>1, <1>2, <1>3, <1>4, <1>5, <1>6, <1>7, <1>8 DEF Next, RunStep, Call

LEMMA RunIsOfRecordStep ==
  ASSUME TypeOK, OneByOne, InTurns, [Next]_vars
  PROVE  RunIsOfRecord'
<1>0. RunsOK /\ WorkOK /\ RecordOK /\ ReadsAlone /\ RunIsOfRecord /\ HandsOverRecord /\ StagesAgree
  BY TypeParts DEF InTurns
<1>w. work \in Work /\ work.m \in Manifest /\ manifest \in Manifest
  BY <1>0 DEF WorkOK, RecordOK, Work
<1>n. ASSUME turn' \notin Runs PROVE RunIsOfRecord'
  BY <1>n DEF RunIsOfRecord
<1>1. ASSUME NEW j \in Jobs, JobStarts(j) PROVE RunIsOfRecord'
  <2> DEFINE free == {r \in Runs : runs[r].job = 0}
  <2>1. Min(free) \in free
    <3>1. free \in SUBSET Nat /\ free # {}
      BY <1>1 DEF JobStarts
    <3> HIDE DEF free
    <3> QED
      BY <3>1, LeastOfSome
  <2>2. runs' = [runs EXCEPT ![Min(free)] = [job |-> j, stop |-> FALSE]]
    BY <1>1 DEF JobStarts
  <2>3. turn \in Runs => runs'[turn] = runs[turn]
    BY <1>0, <2>1, <2>2 DEF RunIsOfRecord, RunsOK
  <2>4. UNCHANGED <<turn, manifest, work>>
    BY <1>1 DEF JobStarts
  <2> QED
    BY <1>0, <2>3, <2>4 DEF RunIsOfRecord, Same, Undone
<1>2. ASSUME \/ \E r \in Runs : StreamDrops(r)
             \/ \E c \in Callers : PauseLands(c)
      PROVE  RunIsOfRecord'
  <2>1. \A r \in Runs : runs'[r].job = runs[r].job
    <3>1. CASE \E r \in Runs : StreamDrops(r)
      BY <1>0, <3>1 DEF StreamDrops, RunsOK, RunForm
    <3>2. ASSUME NEW c \in Callers, PauseLands(c) PROVE \A r \in Runs : runs'[r].job = runs[r].job
      <4>1. PICK k : runs' = [runs EXCEPT ![k].stop = TRUE] \/ runs' = runs
        BY <3>2 DEF PauseLands
      <4> QED
        BY <1>0, <4>1 DEF RunsOK, RunForm
    <3> QED
      BY <1>2, <3>1, <3>2
  <2>2. UNCHANGED <<turn, manifest, work>>
    BY <1>2 DEF StreamDrops, PauseLands
  <2> QED
    BY <1>0, <2>1, <2>2 DEF RunIsOfRecord
<1>3. ASSUME NEW r \in Runs, RunTakesTurn(r) PROVE RunIsOfRecord'
  <2>1. CASE There(manifest) /\ manifest.stage = "restoring"
    <3>1. /\ turn' = r /\ runs' = runs /\ runs[r].job # 0
          /\ manifest' = [manifest EXCEPT !.paused = FALSE]
          /\ work' = [Idle EXCEPT !.at = "steps", !.m = [manifest EXCEPT !.paused = FALSE]]
      BY <1>3, <2>1 DEF RunTakesTurn
    <3>2. work'.m = manifest' /\ work'.at = "steps"
      BY <3>1 DEF Idle
    <3>3. manifest'.no = manifest.no /\ manifest'.stage = manifest.stage
      BY <1>w, <3>1 DEF Manifest
    <3> QED
      BY <2>1, <3>1, <3>2, <3>3 DEF RunIsOfRecord, Same, There
  <2>2. CASE ~(There(manifest) /\ manifest.stage = "restoring")
    BY <1>3, <1>n, <2>2 DEF RunTakesTurn, RunIsOver
  <2> QED
    BY <2>1, <2>2
<1>4. ASSUME NEW r \in Runs, RunFetches(r) \/ RunFetched(r) \/ RunEndsStep(r) PROVE RunIsOfRecord'
  <2>1. /\ turn = r /\ manifest' = work'.m
        /\ manifest'.no = manifest.no /\ manifest'.stage = manifest.stage
        /\ UNCHANGED <<runs, turn>>
        /\ work'.at # "steps" => StepOf(work.m) \in Steps /\ manifest'.steps[StepOf(work.m)] = "fetching"
    BY <1>0, <1>4, StepIsWritten
  <2>2. work'.at # "steps" => Undone(work'.m) # {}
    BY <2>1 DEF Undone
  <2> QED
    BY <1>0, <2>1, <2>2 DEF RunIsOfRecord, Same, There
<1>5. ASSUME NEW r \in Runs, BorgWrites(r) \/ RunPlans(r) \/ RunMoves(r) \/ RunWritesDown(r)
      PROVE  RunIsOfRecord'
  <2>1. UNCHANGED <<turn, runs, manifest>> /\ turn = r
    BY <1>5 DEF BorgWrites, RunPlans, RunMoves, RunWritesDown, Works
  <2>2. Undone(work.m) # {}
    BY <1>0, <1>5, <2>1 DEF BorgWrites, RunPlans, RunMoves, RunWritesDown, Works, RunIsOfRecord
  <2>3. /\ work'.m.no = work.m.no /\ work'.m.stage = work.m.stage /\ work'.m.handed = work.m.handed
        /\ work'.m.policy = work.m.policy /\ work'.m.steps = work.m.steps
        /\ work.m.failed \subseteq work'.m.failed
    <3>1. \/ work'.m = work.m
          \/ work'.m = [work.m EXCEPT !.failed = @ \cup {First(work.adds)}]
      BY <1>w, <1>5 DEF BorgWrites, RunPlans, RunMoves, RunWritesDown, Work
    <3> QED
      BY <1>w, <3>1 DEF Manifest
  <2>4. Undone(work'.m) = Undone(work.m)
    BY <2>3 DEF Undone
  <2> QED
    BY <1>0, <2>1, <2>2, <2>3, <2>4 DEF RunIsOfRecord, Same
<1>6. ASSUME \/ \E r \in Runs : RunStops(r) \/ RunFinishes(r) \/ RunFails(r)
             \/ CancelDiscards \/ CancelClears \/ Crash
      PROVE  RunIsOfRecord'
  <2>1. turn' \in {0, TheCancel}
    BY <1>6 DEF RunStops, RunFinishes, RunFails, RunIsOver, CancelDiscards, CancelClears, Crash
  <2> QED
    BY <1>n, <2>1
<1>7. ASSUME \/ HandOverEnds \/ \E replaced \in SUBSET Files : SummaryIsAnswered(replaced)
             \/ \E c \in Callers, asked \in (SUBSET Steps) \ {{}}, policy \in Policies :
                  BeginSaves(c, asked, policy)
      PROVE  RunIsOfRecord'
  <2>1. turn' = turn
    BY <1>7 DEF HandOverEnds, SummaryIsAnswered, BeginSaves
  <2>2. ~There(manifest) \/ manifest.stage # "restoring"
    BY <1>0, <1>7 DEF HandOverEnds, SummaryIsAnswered, BeginSaves, HandsOverRecord, ReadsAlone, Readers
  <2> QED
    BY <1>0, <1>n, <2>1, <2>2 DEF RunIsOfRecord
<1>8. ASSUME \/ \E j \in Jobs : JobSettles(j)
             \/ HandOverBegins
             \/ \E c \in Callers : \/ BeginChecks(c) \/ Resumes(c)
                                   \/ \E j \in Jobs : ResumesJob(c, j) \/ PauseIsSaid(c, j)
                                   \/ \E discard \in BOOLEAN : Cancels(c, discard)
             \/ \E f \in Files : PersonWrites(f)
             \/ UNCHANGED vars
      PROVE  RunIsOfRecord'
  <2>1. UNCHANGED <<turn, runs, manifest, work>>
    BY <1>8 DEF JobSettles, HandOverBegins, BeginChecks, Resumes, ResumesJob, PauseIsSaid, Cancels,
         PersonWrites, vars, daemon, durable
  <2> QED
    BY <1>0, <2>1 DEF RunIsOfRecord
<1> QED
  BY <1>1, <1>2, <1>3, <1>4, <1>5, <1>6, <1>7, <1>8 DEF Next, RunStep, Call

LEMMA HandsOverRecordStep ==
  ASSUME TypeOK, OneByOne, InTurns, [Next]_vars
  PROVE  HandsOverRecord'
<1>0. CallsOK /\ ReadsAlone /\ RunIsOfRecord /\ HandsOverRecord /\ CancelsRecord /\ OneJob
  BY TypeParts DEF InTurns
<1>n. ASSUME ~handing'.on PROVE HandsOverRecord'
  BY <1>n DEF HandsOverRecord
<1>1. ASSUME NEW r \in Runs, RunTakesTurn(r) PROVE HandsOverRecord'
  <2>1. CASE There(manifest) /\ manifest.stage = "restoring"
    <3>1. handing' = handing /\ ~handing.on
      BY <1>0, <1>1, <2>1 DEF RunTakesTurn, HandsOverRecord
    <3> QED
      BY <1>n, <3>1
  <2>2. CASE ~(There(manifest) /\ manifest.stage = "restoring")
    <3>1. RunIsOver(r, "completed") /\ manifest' = manifest /\ runs[r].job # 0
      BY <1>1, <2>2 DEF RunTakesTurn
    <3>2. handing'.on = handing.on /\ handing'.m = handing.m
      BY <1>0, <3>1, OverIsNotLive
    <3> QED
      BY <1>0, <3>1, <3>2 DEF HandsOverRecord
  <2> QED
    BY <2>1, <2>2
<1>2. ASSUME NEW r \in Runs,
             \/ RunFetches(r) \/ BorgWrites(r) \/ RunFetched(r) \/ RunPlans(r) \/ RunMoves(r)
             \/ RunWritesDown(r) \/ RunEndsStep(r) \/ RunStops(r) \/ RunFinishes(r) \/ RunFails(r)
      PROVE  HandsOverRecord'
  <2>1. turn = r
    BY <1>2 DEF RunFetches, BorgWrites, RunFetched, RunPlans, RunMoves, RunWritesDown, RunEndsStep,
         RunStops, RunFinishes, RunFails, Works, Placed
  <2>2. ~handing.on
    BY <1>0, <2>1 DEF RunIsOfRecord, HandsOverRecord
  <2>3. handing'.on = handing.on
    BY <1>0, <1>2 DEF RunFetches, BorgWrites, RunFetched, RunPlans, RunMoves, RunWritesDown, RunEndsStep,
         RunStops, RunFinishes, RunFails, RunIsOver, CallsOK, HandForm
  <2> QED
    BY <1>n, <2>2, <2>3
<1>3. ASSUME HandOverBegins PROVE HandsOverRecord'
  BY <1>3 DEF HandOverBegins, HandsOverRecord, NotHanding
<1>4. ASSUME HandOverEnds PROVE HandsOverRecord'
  BY <1>0, <1>4, <1>n DEF HandOverEnds, CallsOK, HandForm
<1>5. ASSUME \/ \E replaced \in SUBSET Files : SummaryIsAnswered(replaced)
             \/ \E c \in Callers, asked \in (SUBSET Steps) \ {{}}, policy \in Policies :
                  BeginSaves(c, asked, policy)
             \/ CancelClears
      PROVE  HandsOverRecord'
  <2>1. ~handing.on /\ handing' = handing
    BY <1>0, <1>5 DEF SummaryIsAnswered, BeginSaves, CancelClears, OneByOne, ReadsAlone, Readers,
       CancelsRecord
  <2> QED
    BY <1>n, <2>1
<1>6. ASSUME Crash PROVE HandsOverRecord'
  BY <1>6, <1>n DEF Crash, NotHanding
<1>7. ASSUME \/ \E j \in Jobs : JobStarts(j) \/ JobSettles(j)
             \/ \E r \in Runs : StreamDrops(r)
             \/ \E c \in Callers : \/ BeginChecks(c) \/ Resumes(c) \/ PauseLands(c)
                                   \/ \E j \in Jobs : ResumesJob(c, j) \/ PauseIsSaid(c, j)
                                   \/ \E discard \in BOOLEAN : Cancels(c, discard)
             \/ CancelDiscards \/ \E f \in Files : PersonWrites(f)
             \/ UNCHANGED vars
      PROVE  HandsOverRecord'
  <2>1. UNCHANGED <<manifest, handing>>
    BY <1>7 DEF JobStarts, JobSettles, StreamDrops, BeginChecks, Resumes, PauseLands, ResumesJob,
         PauseIsSaid, Cancels, CancelDiscards, PersonWrites, vars, daemon
  <2> QED
    BY <1>0, <2>1 DEF HandsOverRecord
<1> QED
  BY <1>1, <1>2, <1>3, <1>4, <1>5, <1>6, <1>7 DEF Next, RunStep, Call

LEMMA CancelsRecordStep ==
  ASSUME TypeOK, OneByOne, InTurns, [Next]_vars
  PROVE  CancelsRecord'
<1>0. CallsOK /\ ReadsAlone /\ RunIsOfRecord /\ CancelsRecord /\ OneJob
  BY TypeParts DEF InTurns
<1>1. ASSUME NEW r \in Runs, RunTakesTurn(r) PROVE CancelsRecord'
  <2>1. turn = 0 /\ turn' # TheCancel /\ runs[r].job # 0
    BY <1>1 DEF RunTakesTurn, RunIsOver
  <2>2. manifest'.no = manifest.no /\ cancel' = cancel
    BY <1>0, <1>1, RecordIsKept
  <2>3. cancel.on => ~handing'.due /\ ~handing'.on
    <3>1. CASE handing' = handing
      BY <1>0, <3>1 DEF CancelsRecord
    <3>2. CASE RunIsOver(r, "completed")
      <4>1. /\ handing'.on = handing.on
            /\ handing'.due = (handing.due \/ Heard(r)) /\ (Heard(r) => ~cancel.on)
        BY <1>0, <2>1, <3>2, OverIsNotLive
      <4> QED
        BY <1>0, <4>1 DEF CancelsRecord
    <3> QED
      BY <1>1, <3>1, <3>2 DEF RunTakesTurn
  <2> QED
    BY <1>0, <2>1, <2>2, <2>3 DEF CancelsRecord, There
<1>2. ASSUME NEW r \in Runs, RunFetches(r) \/ RunFetched(r) \/ RunEndsStep(r) PROVE CancelsRecord'
  <2>1. manifest'.no = manifest.no /\ UNCHANGED <<cancel, handing, turn>>
    BY <1>0, <1>2, StepIsWritten
  <2> QED
    BY <1>0, <2>1 DEF CancelsRecord, There
<1>3. ASSUME NEW r \in Runs, RunStops(r) \/ RunFinishes(r) \/ RunFails(r) PROVE CancelsRecord'
  <2>1. turn = r /\ runs[r].job # 0
    BY <1>0, <1>3 DEF RunStops, RunFinishes, RunFails, Works, RunIsOfRecord
  <2>2. manifest'.no = manifest.no /\ cancel' = cancel
    BY <1>0, <1>3, RecordIsKept, RecordIsFinished
  <2>3. PICK outcome \in {"completed", "cancelled", "failed"} : RunIsOver(r, outcome)
    BY <1>3 DEF RunStops, RunFinishes, RunFails
  <2>4. /\ handing'.on = handing.on /\ turn' = 0
        /\ handing'.due => handing.due \/ ~cancel.on
    BY <1>0, <2>1, <2>3, OverIsNotLive
  <2> QED
    BY <1>0, <2>1, <2>2, <2>4 DEF CancelsRecord, There
<1>4. ASSUME HandOverBegins \/ HandOverEnds PROVE CancelsRecord'
  <2>1. ~cancel.on /\ UNCHANGED <<cancel, turn>>
    BY <1>0, <1>4 DEF HandOverBegins, HandOverEnds, CancelsRecord
  <2> QED
    BY <1>0, <2>1 DEF CancelsRecord
<1>5. ASSUME \/ \E replaced \in SUBSET Files : SummaryIsAnswered(replaced)
             \/ \E c \in Callers, asked \in (SUBSET Steps) \ {{}}, policy \in Policies :
                  BeginSaves(c, asked, policy)
      PROVE  CancelsRecord'
  <2>1. ~cancel.on /\ UNCHANGED <<cancel, turn>>
    BY <1>0, <1>5 DEF SummaryIsAnswered, BeginSaves, OneByOne, ReadsAlone, Readers
  <2> QED
    BY <1>0, <2>1 DEF CancelsRecord
<1>6. ASSUME NEW c \in Callers, NEW discard \in BOOLEAN, Cancels(c, discard) PROVE CancelsRecord'
  <2>1. /\ ~cancel.on /\ ~handing.due /\ ~handing.on /\ There(manifest)
        /\ UNCHANGED <<manifest, handing, turn>>
        /\ cancel' = [on |-> TRUE, discard |-> discard, done |-> FALSE, no |-> manifest.no]
    BY <1>6 DEF Cancels, InTurn, OneByOne
  <2> QED
    BY <1>0, <2>1 DEF CancelsRecord
<1>7. ASSUME CancelDiscards PROVE CancelsRecord'
  <2>1. cancel.on /\ cancel' = [cancel EXCEPT !.done = TRUE] /\ turn' = TheCancel /\ UNCHANGED <<manifest, handing>>
    BY <1>7 DEF CancelDiscards
  <2>2. cancel'.done /\ cancel'.on /\ cancel'.no = cancel.no
    BY <1>0, <2>1 DEF CallsOK, CancelForm
  <2> QED
    BY <1>0, <2>1, <2>2 DEF CancelsRecord
<1>8. ASSUME CancelClears \/ Crash PROVE CancelsRecord'
  <2>1. cancel' = NoCancel /\ turn' = 0
    BY <1>8 DEF CancelClears, Crash
  <2> QED
    BY <2>1 DEF CancelsRecord, NoCancel
<1>9. ASSUME \/ \E j \in Jobs : JobStarts(j) \/ JobSettles(j)
             \/ \E r \in Runs : \/ StreamDrops(r) \/ BorgWrites(r) \/ RunPlans(r) \/ RunMoves(r)
                                \/ RunWritesDown(r)
             \/ \E c \in Callers : \/ BeginChecks(c) \/ Resumes(c) \/ PauseLands(c)
                                   \/ \E j \in Jobs : ResumesJob(c, j) \/ PauseIsSaid(c, j)
             \/ \E f \in Files : PersonWrites(f)
             \/ UNCHANGED vars
      PROVE  CancelsRecord'
  <2>1. UNCHANGED <<manifest, handing, cancel, turn>>
    BY <1>9 DEF JobStarts, JobSettles, StreamDrops, BorgWrites, RunPlans, RunMoves, RunWritesDown,
         BeginChecks, Resumes, PauseLands, ResumesJob, PauseIsSaid, PersonWrites, vars, daemon
  <2> QED
    BY <1>0, <2>1 DEF CancelsRecord
<1> QED
  BY <1>1, <1>2, <1>3, <1>4, <1>5, <1>6, <1>7, <1>8, <1>9 DEF Next, RunStep, Call

LEMMA StagesAgreeStep ==
  ASSUME TypeOK, OneByOne, InTurns, [Next]_vars
  PROVE  StagesAgree'
<1>0. RecordOK /\ CallsOK /\ RunIsOfRecord /\ HandsOverRecord /\ StagesAgree
  BY TypeParts DEF InTurns
<1>1. ASSUME NEW r \in Runs, RunFetches(r) \/ RunFetched(r) \/ RunEndsStep(r) PROVE StagesAgree'
  <2>1. turn = r /\ manifest'.stage = manifest.stage /\ manifest'.handed = manifest.handed
    BY <1>0, <1>1, StepIsWritten
  <2> QED
    BY <1>0, <2>1 DEF StagesAgree, RunIsOfRecord
<1>2. ASSUME NEW r \in Runs, RunTakesTurn(r) \/ RunStops(r) \/ RunFails(r) PROVE StagesAgree'
  <2>1. manifest'.stage = manifest.stage /\ manifest'.handed = manifest.handed /\ held' = held
    BY <1>0, <1>2, RecordIsKept
  <2> QED
    BY <1>0, <2>1 DEF StagesAgree
<1>3. ASSUME NEW r \in Runs, RunFinishes(r) PROVE StagesAgree'
  <2>1. manifest'.stage \in {"review", "finished"} /\ (manifest'.stage = "finished" => held' = {})
    BY <1>0, <1>3, RecordIsFinished
  <2> QED
    BY <2>1 DEF StagesAgree
<1>4. ASSUME HandOverEnds PROVE StagesAgree'
  <2> DEFINE m == [handing.m EXCEPT !.handed = TRUE]
  <2>1. m.stage = manifest.stage /\ manifest.stage # "restoring"
    BY <1>0, <1>4 DEF HandOverEnds, HandsOverRecord, RecordOK, Manifest
  <2>2. CASE Clears
    BY <2>2 DEF Clears, None, StagesAgree
  <2>3. CASE manifest' = m /\ held' = held
    BY <1>0, <2>1, <2>3 DEF StagesAgree
  <2> QED
    BY <1>4, <2>2, <2>3 DEF HandOverEnds
<1>5. ASSUME CancelClears \/ \E replaced \in SUBSET Files : SummaryIsAnswered(replaced)
      PROVE  StagesAgree'
  <2>1. manifest' = None /\ held' = {}
    BY <1>5 DEF CancelClears, SummaryIsAnswered, Clears
  <2>2. ~None.handed
    BY DEF None
  <2> QED
    BY <2>1, <2>2 DEF StagesAgree
<1>6. ASSUME NEW c \in Callers, NEW asked \in (SUBSET Steps) \ {{}}, NEW policy \in Policies,
             BeginSaves(c, asked, policy)
      PROVE  StagesAgree'
  <2>1. manifest'.stage = "restoring" /\ ~manifest'.handed
    BY <1>6 DEF BeginSaves, None
  <2> QED
    BY <2>1 DEF StagesAgree
<1>7. ASSUME \/ \E j \in Jobs : JobStarts(j) \/ JobSettles(j)
             \/ \E r \in Runs : \/ StreamDrops(r) \/ BorgWrites(r) \/ RunPlans(r) \/ RunMoves(r)
                                \/ RunWritesDown(r)
             \/ HandOverBegins
             \/ \E c \in Callers : \/ BeginChecks(c) \/ Resumes(c) \/ PauseLands(c)
                                   \/ \E j \in Jobs : ResumesJob(c, j) \/ PauseIsSaid(c, j)
                                   \/ \E discard \in BOOLEAN : Cancels(c, discard)
             \/ CancelDiscards \/ \E f \in Files : PersonWrites(f)
             \/ Crash \/ UNCHANGED vars
      PROVE  StagesAgree'
  <2>1. UNCHANGED <<manifest, held>>
    BY <1>7 DEF JobStarts, JobSettles, StreamDrops, BorgWrites, RunPlans, RunMoves, RunWritesDown,
         HandOverBegins, BeginChecks, Resumes, PauseLands, ResumesJob, PauseIsSaid, Cancels,
         CancelDiscards, PersonWrites, Crash, vars, durable
  <2> QED
    BY <1>0, <2>1 DEF StagesAgree
<1> QED
  BY <1>1, <1>2, <1>3, <1>4, <1>5, <1>6, <1>7 DEF Next, RunStep, Call

LEMMA OneJobStep ==
  ASSUME TypeInv, OneByOne, InTurns, [Next]_vars
  PROVE  OneJob'
<1>0. TypeOK /\ Counted /\ RecordOK /\ JobsOK /\ CallsOK
  BY TypeParts DEF TypeInv
<1>i. ReadsAlone /\ RunIsOfRecord /\ HandsOverRecord /\ CancelsRecord /\ StagesAgree /\ OneJob
  BY DEF InTurns
<1>n. ASSUME \A j \in Jobs : ~Live(j)' PROVE OneJob'
  BY <1>n DEF OneJob
\* As long as no job comes to life and what holds them off stays away.
<1>k. ASSUME \A j \in Jobs : Live(j)' => Live(j),
             job' = job \/ \A j \in Jobs : ~Live(j),
             cancel'.on \/ handing'.due \/ handing'.on \/ ~There(manifest)' \/ manifest'.handed =>
               \/ cancel.on \/ handing.due \/ handing.on \/ ~There(manifest) \/ manifest.handed
               \/ \A j \in Jobs : ~Live(j)'
      PROVE  OneJob'
  BY <1>i, <1>k DEF OneJob
<1>1. ASSUME NEW j \in Jobs, JobStarts(j) \/ JobSettles(j) PROVE OneJob'
  <2>1. \A k \in Jobs : Live(k)' => Live(k)
    BY <1>0, <1>1 DEF JobStarts, JobSettles, Live, JobsOK, JobForm
  <2>2. UNCHANGED <<job, cancel, handing, manifest>>
    BY <1>1 DEF JobStarts, JobSettles
  <2> QED
    BY <1>k, <2>1, <2>2
<1>2. ASSUME NEW r \in Runs, RunTakesTurn(r) PROVE OneJob'
  <2>1. /\ manifest'.no = manifest.no /\ manifest'.handed = manifest.handed
        /\ UNCHANGED <<job, cancel>> /\ runs[r].job # 0
    BY <1>0, <1>i, <1>2, RecordIsKept DEF RunTakesTurn
  <2>2. CASE UNCHANGED <<jobs, handing>>
    BY <1>k, <2>1, <2>2 DEF Live, There
  <2>3. CASE RunIsOver(r, "completed")
    <3>1. /\ \A j \in Jobs : Live(j)' => Live(j)
          /\ handing'.on = handing.on /\ (handing'.due => \A j \in Jobs : ~Live(j)')
      BY <1>0, <1>i, <2>1, <2>3, OverIsNotLive
    <3> QED
      BY <1>k, <2>1, <3>1 DEF There
  <2> QED
    BY <1>2, <2>2, <2>3 DEF RunTakesTurn
<1>3. ASSUME NEW r \in Runs, RunFetches(r) \/ RunFetched(r) \/ RunEndsStep(r) PROVE OneJob'
  <2>1. /\ manifest'.no = manifest.no /\ manifest'.handed = manifest.handed
        /\ UNCHANGED <<jobs, job, cancel, handing>>
    BY <1>0, <1>i, <1>3, StepIsWritten
  <2> QED
    BY <1>k, <2>1 DEF Live, There
<1>4. ASSUME NEW r \in Runs, RunStops(r) \/ RunFinishes(r) \/ RunFails(r) PROVE OneJob'
  <2>1. turn = r /\ runs[r].job # 0
    BY <1>i, <1>4 DEF RunStops, RunFinishes, RunFails, Works, RunIsOfRecord
  <2>2. /\ manifest'.no = manifest.no /\ manifest'.handed = manifest.handed
        /\ UNCHANGED <<job, cancel>>
    BY <1>0, <1>i, <1>4, RecordIsKept, RecordIsFinished
  <2>3. PICK outcome \in {"completed", "cancelled", "failed"} : RunIsOver(r, outcome)
    BY <1>4 DEF RunStops, RunFinishes, RunFails
  <2>4. /\ \A j \in Jobs : Live(j)' => Live(j)
        /\ handing'.on = handing.on /\ (handing'.due => \A j \in Jobs : ~Live(j)')
    BY <1>0, <1>i, <2>1, <2>3, OverIsNotLive
  <2> QED
    BY <1>k, <2>2, <2>4 DEF There
<1>5. ASSUME \/ HandOverBegins \/ HandOverEnds \/ CancelClears
             \/ \E replaced \in SUBSET Files : SummaryIsAnswered(replaced)
      PROVE  OneJob'
  <2>1. \A j \in Jobs : ~Live(j)
    BY <1>i, <1>5 DEF HandOverBegins, HandOverEnds, CancelClears, SummaryIsAnswered, CancelsRecord, OneJob
  <2>2. jobs' = jobs
    BY <1>5 DEF HandOverBegins, HandOverEnds, CancelClears, SummaryIsAnswered
  <2> QED
    BY <1>n, <2>1, <2>2 DEF Live
<1>6. ASSUME NEW c \in Callers, NEW asked \in (SUBSET Steps) \ {{}}, NEW policy \in Policies,
             BeginSaves(c, asked, policy)
      PROVE  OneJob'
  <2>1. c \in Readers
    BY <1>6 DEF BeginSaves, Readers
  <2>2. calls[c].of # 0 /\ ~There(manifest) /\ ~handing.due /\ ~handing.on /\ ~cancel.on
    BY <1>i, <2>1 DEF ReadsAlone
  <2>3. There(manifest)' /\ ~manifest'.handed /\ UNCHANGED <<handing, cancel>>
    BY <1>6, <2>2 DEF BeginSaves, There, None
  <2>4. \A j \in Jobs : ~Live(j)
    BY <1>i, <2>2 DEF OneJob
  <2>5. NextJob \in Jobs /\ job' = NextJob /\ jobs' = [jobs EXCEPT ![NextJob].state = "queued"]
    BY <1>0, <1>6, <2>1, NextIsLeft DEF BeginSaves, Submits
  <2>6. \A j \in Jobs : Live(j)' => j = job'
    BY <1>0, <2>4, <2>5 DEF Live, JobsOK, JobForm
  <2> QED
    BY <2>2, <2>3, <2>6 DEF OneJob
<1>7. ASSUME NEW c \in Callers, Resumes(c) PROVE OneJob'
  <2>1. /\ ~handing.due /\ ~handing.on /\ ~cancel.on /\ There(manifest) /\ ~manifest.handed
        /\ UNCHANGED <<manifest, handing, cancel>>
    BY <1>i, <1>7 DEF Resumes, InTurn, OneByOne, StagesAgree
  <2>2. CASE job # 0 /\ jobs[job].state = "paused" /\ jobs' = [jobs EXCEPT ![job].state = "queued"] /\ job' = job
    <3>1. \A j \in Jobs : Live(j)' => Live(j)
      BY <1>0, <2>2 DEF Live, JobsOK, JobForm
    <3> QED
      BY <1>k, <2>1, <2>2, <3>1
  <2>3. CASE (job = 0 \/ jobs[job].state \in Ended) /\ Submits("queued")
    <3>1. \A j \in Jobs : ~Live(j)
      BY <1>0, <1>i, <2>3, JobsAre DEF OneJob, Live, Ended
    <3>2. NextJob \in Jobs /\ job' = NextJob /\ jobs' = [jobs EXCEPT ![NextJob].state = "queued"]
      BY <1>0, <1>7, <2>3, NextIsLeft DEF Resumes, Called, Submits
    <3>3. \A j \in Jobs : Live(j)' => j = job'
      BY <1>0, <3>1, <3>2 DEF Live, JobsOK, JobForm
    <3> QED
      BY <2>1, <3>3 DEF OneJob
  <2>4. CASE UNCHANGED <<jobs, job>>
    BY <1>k, <2>1, <2>4 DEF Live
  <2> QED
    BY <1>0, <1>7, <2>2, <2>3, <2>4 DEF Resumes, Ended
<1>8. ASSUME NEW c \in Callers, PauseLands(c) \/ \E j \in Jobs : ResumesJob(c, j) PROVE OneJob'
  <2>1. \A j \in Jobs : Live(j)' => Live(j)
    BY <1>0, <1>8 DEF PauseLands, ResumesJob, Live, JobsOK, JobForm
  <2>2. UNCHANGED <<job, cancel, handing, manifest>>
    BY <1>8 DEF PauseLands, ResumesJob
  <2> QED
    BY <1>k, <2>1, <2>2
<1>9. ASSUME NEW c \in Callers, NEW discard \in BOOLEAN, Cancels(c, discard) PROVE OneJob'
  <2>1. \A j \in Jobs : Live(j) => j = job
    BY <1>i DEF OneJob
  <2>2. \A j \in Jobs : ~Live(j)'
    <3>1. CASE job = 0 \/ jobs[job].state \in Ended
      <4>1. jobs' = jobs
        BY <1>9, <3>1 DEF Cancels
      <4> QED
        BY <2>1, <3>1, <4>1, JobsAre DEF Live, Ended
    <3>2. CASE ~(job = 0 \/ jobs[job].state \in Ended)
      <4>1. PICK state \in {"cancelling", "cancelled"} : jobs' = [jobs EXCEPT ![job].state = state]
        BY <1>9, <3>2 DEF Cancels
      <4> QED
        BY <1>0, <2>1, <4>1 DEF Live, JobsOK, JobForm
    <3> QED
      BY <3>1, <3>2
  <2> QED
    BY <1>n, <2>2
<1>10. ASSUME CancelDiscards PROVE OneJob'
  <2>1. cancel'.on = cancel.on /\ UNCHANGED <<jobs, job, handing, manifest>>
    BY <1>0, <1>10 DEF CancelDiscards, CallsOK, CancelForm
  <2> QED
    BY <1>k, <2>1 DEF Live
<1>11. ASSUME Crash PROVE OneJob'
  <2>1. CASE There(manifest) /\ manifest.stage = "restoring"
    <3>1. job' = 1 /\ \A j \in Jobs : Live(j)' => j = 1
      BY <1>11, <2>1 DEF Crash, Live
    <3>2. ~manifest.handed /\ ~EndedBefore
      BY <1>i, <2>1 DEF StagesAgree, EndedBefore
    <3>3. ~cancel'.on /\ ~handing'.due /\ ~handing'.on /\ manifest' = manifest
      BY <1>11, <3>2 DEF Crash, NoCancel, NotHanding
    <3> QED
      BY <2>1, <3>1, <3>2, <3>3 DEF OneJob
  <2>2. CASE ~(There(manifest) /\ manifest.stage = "restoring")
    BY <1>11, <1>n, <2>2 DEF Crash, Live
  <2> QED
    BY <2>1, <2>2
<1>12. ASSUME \/ \E r \in Runs : \/ StreamDrops(r) \/ BorgWrites(r) \/ RunPlans(r) \/ RunMoves(r)
                                 \/ RunWritesDown(r)
              \/ \E c \in Callers : BeginChecks(c) \/ \E j \in Jobs : PauseIsSaid(c, j)
              \/ \E f \in Files : PersonWrites(f)
              \/ UNCHANGED vars
       PROVE  OneJob'
  <2>1. UNCHANGED <<manifest, handing, cancel, jobs, job>>
    BY <1>12 DEF StreamDrops, BorgWrites, RunPlans, RunMoves, RunWritesDown, BeginChecks,
         PauseIsSaid, PersonWrites, vars, daemon
  <2> QED
    BY <1>k, <2>1 DEF Live
<1> QED
  BY <1>1, <1>2, <1>3, <1>4, <1>5, <1>6, <1>7, <1>8, <1>9, <1>10, <1>11, <1>12
  DEF Next, RunStep, Call

LEMMA InOrderStep ==
  ASSUME TypeOK, OneByOne, InTurns, [Next]_vars
  PROVE  InOrder(manifest)'
<1>0. RecordOK /\ CallsOK /\ RunIsOfRecord /\ HandsOverRecord /\ InOrder(manifest)
  BY TypeParts DEF InTurns
<1>k. ASSUME manifest'.steps = manifest.steps PROVE InOrder(manifest)'
  BY <1>0, <1>k DEF InOrder, Undone
<1>c. ASSUME manifest' = None PROVE InOrder(manifest)'
  BY <1>c DEF InOrder, Undone, None
<1>1. ASSUME NEW r \in Runs, RunFetches(r) \/ RunFetched(r) \/ RunEndsStep(r) PROVE InOrder(manifest)'
  <2> DEFINE s == StepOf(work.m)
  <2>1. /\ s \in Undone(manifest) /\ s \in Steps /\ \A t \in Undone(manifest) : s <= t
        /\ \A t \in Steps \ {s} : manifest'.steps[t] = manifest.steps[t]
    BY <1>0, <1>1, StepIsWritten
  <2> HIDE DEF s
  <2>2. \A t \in Undone(manifest)' : t \in Undone(manifest)
    BY <2>1 DEF Undone
  <2>3. ASSUME NEW t \in Undone(manifest)', manifest'.steps[t] # "pending", t # s PROVE t = s
    <3>1. t \in Steps /\ t \in Undone(manifest) /\ manifest.steps[t] # "pending"
      BY <2>1, <2>2, <2>3 DEF Undone
    <3>2. t <= s /\ s <= t
      BY <1>0, <2>1, <3>1 DEF InOrder
    <3> QED
      BY <2>1, <3>1, <3>2
  <2> QED
    BY <2>1, <2>2, <2>3 DEF InOrder
<1>2. ASSUME NEW r \in Runs, RunTakesTurn(r) \/ RunStops(r) \/ RunFails(r) PROVE InOrder(manifest)'
  BY <1>0, <1>2, <1>k, RecordIsKept
<1>3. ASSUME NEW r \in Runs, RunFinishes(r) PROVE InOrder(manifest)'
  BY <1>0, <1>3, <1>k, RecordIsFinished
<1>4. ASSUME HandOverEnds PROVE InOrder(manifest)'
  <2>1. [handing.m EXCEPT !.handed = TRUE].steps = manifest.steps
    BY <1>0, <1>4 DEF HandOverEnds, HandsOverRecord, RecordOK, Manifest
  <2> QED
    BY <1>4, <1>k, <1>c, <2>1 DEF HandOverEnds, Clears
<1>5. ASSUME CancelClears \/ \E replaced \in SUBSET Files : SummaryIsAnswered(replaced)
      PROVE  InOrder(manifest)'
  BY <1>5, <1>c DEF CancelClears, SummaryIsAnswered, Clears
<1>6. ASSUME NEW c \in Callers, NEW asked \in (SUBSET Steps) \ {{}}, NEW policy \in Policies,
             BeginSaves(c, asked, policy)
      PROVE  InOrder(manifest)'
  <2>1. manifest'.steps = [s \in Steps |-> IF s \in asked THEN "pending" ELSE "not asked"]
    BY <1>6 DEF BeginSaves, None
  <2> QED
    BY <2>1 DEF InOrder, Undone
<1>7. ASSUME \/ \E j \in Jobs : JobStarts(j) \/ JobSettles(j)
             \/ \E r \in Runs : \/ StreamDrops(r) \/ BorgWrites(r) \/ RunPlans(r) \/ RunMoves(r)
                                \/ RunWritesDown(r)
             \/ HandOverBegins
             \/ \E c \in Callers : \/ BeginChecks(c) \/ Resumes(c) \/ PauseLands(c)
                                   \/ \E j \in Jobs : ResumesJob(c, j) \/ PauseIsSaid(c, j)
                                   \/ \E discard \in BOOLEAN : Cancels(c, discard)
             \/ CancelDiscards \/ \E f \in Files : PersonWrites(f)
             \/ Crash \/ UNCHANGED vars
      PROVE  InOrder(manifest)'
  <2>1. UNCHANGED manifest
    BY <1>7 DEF JobStarts, JobSettles, StreamDrops, BorgWrites, RunPlans, RunMoves, RunWritesDown,
         HandOverBegins, BeginChecks, Resumes, PauseLands, ResumesJob, PauseIsSaid, Cancels,
         CancelDiscards, PersonWrites, Crash, vars
  <2> QED
    BY <1>k, <2>1
<1> QED
  BY <1>1, <1>2, <1>3, <1>4, <1>5, <1>6, <1>7 DEF Next, RunStep, Call

LEMMA InvTurnsHolds ==
  ASSUME OneByOne
  PROVE  Spec => []InvTurns
<1>1. Init => InTurns
  BY InTurnsInit
<1>2. TypeInv /\ InTurns /\ [Next]_vars => InTurns'
  <2> SUFFICES ASSUME TypeInv, InTurns, [Next]_vars PROVE InTurns'
    OBVIOUS
  <2>0. TypeOK /\ OneCall
    BY DEF TypeInv, InTurns
  <2>1. OneCall' /\ ReadsAlone' /\ RunIsOfRecord' /\ HandsOverRecord'
    BY <2>0, OneCallStep, ReadsAloneStep, RunIsOfRecordStep, HandsOverRecordStep
  <2>2. CancelsRecord' /\ StagesAgree' /\ OneJob' /\ InOrder(manifest)'
    BY <2>0, CancelsRecordStep, StagesAgreeStep, OneJobStep, InOrderStep
  <2> QED
    BY <2>1, <2>2 DEF InTurns
<1> QED
  BY <1>1, <1>2, TypeInvHolds, PTL DEF Spec, InvTurns

(* A record that goes was ended, or is called off. *)
LEMMA ForgetsWhenOver ==
  ASSUME TypeOK, InTurns, OneByOne, [Next]_vars, There(manifest), manifest'.no # manifest.no
  PROVE  \/ cancel.done /\ cancel.no = manifest.no
         \/ manifest.stage # "restoring" /\ (manifest.handed \/ (handing.on /\ held = {}))
<1>0. RecordOK /\ ReadsAlone /\ RunIsOfRecord /\ HandsOverRecord /\ CancelsRecord /\ StagesAgree
  BY TypeParts DEF InTurns
<1> DEFINE Over ==
      \/ cancel.done /\ cancel.no = manifest.no
      \/ manifest.stage # "restoring" /\ (manifest.handed \/ (handing.on /\ held = {}))
<1>1. ASSUME NEW r \in Runs,
             \/ RunFetches(r) \/ RunFetched(r) \/ RunEndsStep(r)
             \/ RunTakesTurn(r) \/ RunStops(r) \/ RunFails(r) \/ RunFinishes(r)
      PROVE  FALSE
  BY <1>0, <1>1, StepIsWritten, RecordIsKept, RecordIsFinished
<1>2. ASSUME HandOverEnds PROVE Over
  <2>1. handing.on /\ manifest.stage # "restoring" /\ manifest = handing.m
    BY <1>0, <1>2 DEF HandOverEnds, HandsOverRecord
  <2>2. [handing.m EXCEPT !.handed = TRUE].stage = manifest.stage /\ [handing.m EXCEPT !.handed = TRUE].no = manifest.no
    BY <1>0, <2>1 DEF RecordOK, Manifest
  <2>3. NothingWaits([handing.m EXCEPT !.handed = TRUE])
    BY <1>2, <2>2 DEF HandOverEnds
  <2> QED
    BY <1>0, <2>1, <2>2, <2>3 DEF NothingWaits, StagesAgree
<1>3. ASSUME CancelClears \/ \E replaced \in SUBSET Files : SummaryIsAnswered(replaced) PROVE Over
  BY <1>0, <1>3 DEF CancelClears, SummaryIsAnswered, CancelsRecord
<1>4. ASSUME NEW c \in Callers, NEW asked \in (SUBSET Steps) \ {{}}, NEW policy \in Policies,
             BeginSaves(c, asked, policy)
      PROVE  FALSE
  BY <1>0, <1>4 DEF BeginSaves, ReadsAlone, Readers
<1>5. ASSUME \/ \E j \in Jobs : JobStarts(j) \/ JobSettles(j)
             \/ \E r \in Runs : \/ StreamDrops(r) \/ BorgWrites(r) \/ RunPlans(r) \/ RunMoves(r)
                                \/ RunWritesDown(r)
             \/ HandOverBegins
             \/ \E c \in Callers : \/ BeginChecks(c) \/ Resumes(c) \/ PauseLands(c)
                                   \/ \E j \in Jobs : ResumesJob(c, j) \/ PauseIsSaid(c, j)
                                   \/ \E discard \in BOOLEAN : Cancels(c, discard)
             \/ CancelDiscards \/ \E f \in Files : PersonWrites(f)
             \/ Crash \/ UNCHANGED vars
      PROVE  FALSE
  BY <1>5 DEF JobStarts, JobSettles, StreamDrops, BorgWrites, RunPlans, RunMoves, RunWritesDown,
     HandOverBegins, BeginChecks, Resumes, PauseLands, ResumesJob, PauseIsSaid, Cancels,
     CancelDiscards, PersonWrites, Crash, vars
<1> QED
  BY <1>1, <1>2, <1>3, <1>4, <1>5 DEF Next, RunStep, Call

(* Of every step: with the calls one after another, a recovery's record is *)
(* given up only by a cancel of that recovery, or when it is over and      *)
(* handed over, or nothing of it waits for an answer.                      *)
THEOREM ForgottenOnlyWhenOver ==
  ASSUME "side by side" \notin Circumstances
  PROVE  Spec => ForgottenWhenOver
<1>1. Spec => []InvTurns
  BY InvTurnsHolds DEF OneByOne
<1>2. ASSUME InvTurns, [Next]_vars
      PROVE  [There(manifest) /\ manifest'.no # manifest.no =>
                \/ cancel.done /\ cancel.no = manifest.no
                \/ /\ manifest.stage # "restoring"
                   /\ manifest.handed \/ (handing.on /\ held = {})]_vars
  BY <1>2, ForgetsWhenOver DEF InvTurns, TypeInv, OneByOne
<1> QED
  BY <1>1, <1>2, PTL DEF Spec, ForgottenWhenOver

-----------------------------------------------------------------------------
(* What is there of every step, and which recovery added it: where no     *)
(* crash comes between a move and its record, nor between discarding and   *)
(* forgetting.                                                             *)

DoneIsDone == manifest.stage # "restoring" => Undone(manifest) = {}
Fetched ==
  work.at = "fetching" => \A f \in FilesOf(StepOf(work.m)) : f \in work.fetch \/ Whole(f)
Planned ==
  Placing =>
    /\ \A f \in work.adds : Whole(f)
    /\ \A f \in FilesOf(StepOf(work.m)) :
         f \in work.adds \/ disk[f] # Missing \/ f \in work.m.failed
NoHalves == \A f \in Files : disk[f] # Half
PlacedIsThere ==
  turn # TheCancel => \A s \in Steps : manifest.steps[s] = "placing" =>
    \A f \in FilesOf(s) : Whole(f) \/ disk[f] # Missing
Numbered ==
  /\ manifest.no <= made /\ \A f \in Files : disk[f] <= made
  /\ \A c \in Readers :
       calls[c].of # 0 /\ calls[c].of <= made /\ \A f \in Files : disk[f] # calls[c].of
WrittenDown ==
  There(manifest) /\ ~manifest.handed =>
    \A f \in Files : disk[f] = manifest.no =>
      f \in added \/ (work.at = "moved" /\ work.moved = f)
BackOrAdded ==
  /\ DoneIsDone /\ Fetched /\ Planned /\ NoHalves /\ PlacedIsThere /\ EveryStepIsBack
  /\ Numbered /\ WrittenDown

AtOnce == "in between" \notin Circumstances

LEMMA BackOrAddedInit == Init => BackOrAdded
<1> SUFFICES ASSUME Init PROVE BackOrAdded
  OBVIOUS
<1>1. manifest.no = 0 /\ Undone(manifest) = {} /\ \A s \in Steps : manifest.steps[s] = "not asked"
  BY DEF Init, None, Undone
<1>2. work.at = "idle"
  BY DEF Init, Idle
<1>3. \A f \in Files : disk[f] \in {Theirs, Missing}
  BY DEF Init
<1>4. Readers = {} /\ made = 0
  BY DEF Init, Readers, NoCall
<1>5. DoneIsDone /\ Fetched /\ Planned /\ NoHalves
  <2>1. DoneIsDone
    BY <1>1 DEF DoneIsDone
  <2>2. Fetched /\ Planned
    BY <1>2 DEF Fetched, Planned, Placing
  <2>3. NoHalves
    BY <1>3 DEF NoHalves
  <2> QED
    BY <2>1, <2>2, <2>3
<1>6. PlacedIsThere /\ EveryStepIsBack /\ WrittenDown
  BY <1>1 DEF PlacedIsThere, EveryStepIsBack, WrittenDown, There
<1>7. Numbered
  <2>1. \A f \in Files : disk[f] <= 0
    BY <1>3
  <2>2. manifest.no <= made
    <3>1. manifest.no = 0 /\ made = 0
      BY <1>1, <1>4
    <3> QED
      BY <3>1
  <2>3. \A f \in Files : disk[f] <= made
    <3>1. made = 0
      BY <1>4
    <3> QED
      BY <3>1, <2>1
  <2> QED
    BY <1>4, <2>2, <2>3 DEF Numbered
<1> QED
  BY <1>5, <1>6, <1>7 DEF BackOrAdded

(* A run that is at work is of a record that is not handed over. *)
LEMMA AtWork ==
  ASSUME TypeOK, RunIsOfRecord, StagesAgree, NEW r \in Runs, turn = r
  PROVE  /\ There(manifest) /\ manifest.stage = "restoring" /\ ~manifest.handed
         /\ work.m.no = manifest.no /\ work.m.steps = manifest.steps
         /\ manifest.failed \subseteq work.m.failed
         /\ Undone(work.m) = Undone(manifest) /\ manifest.no > 0
<1>1. manifest.no \in Nat
  BY DEF TypeOK, Manifest
<1>2. /\ There(manifest) /\ manifest.stage = "restoring" /\ ~manifest.handed
      /\ Same(work.m, manifest)
  BY DEF RunIsOfRecord, StagesAgree
<1>3. Undone(work.m) = Undone(manifest)
  BY <1>2 DEF Same, Undone
<1>4. manifest.no > 0
  BY <1>1, <1>2 DEF There
<1> QED
  BY <1>2, <1>3, <1>4 DEF Same

(* Nobody is at work on a record that is not being restored. *)
LEMMA NotAtWork ==
  ASSUME TypeOK, RunIsOfRecord, ~There(manifest) \/ manifest.stage # "restoring" \/ turn \notin Runs
  PROVE  work.at = "idle"
BY DEF TypeOK, RunIsOfRecord

LEMMA Idles ==
  ASSUME InTurns,
         \/ HandOverEnds \/ CancelDiscards \/ CancelClears
         \/ \E replaced \in SUBSET Files : SummaryIsAnswered(replaced)
         \/ \E c \in Callers, asked \in (SUBSET Steps) \ {{}}, policy \in Policies :
              BeginSaves(c, asked, policy)
  PROVE  ~There(manifest) \/ manifest.stage # "restoring" \/ turn \notin Runs
<1>0. ReadsAlone /\ HandsOverRecord
  BY DEF InTurns
<1>1. ASSUME HandOverEnds PROVE manifest.stage # "restoring"
  BY <1>0, <1>1 DEF HandOverEnds, HandsOverRecord
<1>2. ASSUME CancelDiscards \/ CancelClears PROVE turn \notin Runs
  <2>1. turn = 0 \/ turn = TheCancel
    BY <1>2 DEF CancelDiscards, CancelClears
  <2> QED
    BY <2>1
<1>3. ASSUME \E replaced \in SUBSET Files : SummaryIsAnswered(replaced)
      PROVE  manifest.stage # "restoring"
  BY <1>3 DEF SummaryIsAnswered
<1>4. ASSUME \E c \in Callers, asked \in (SUBSET Steps) \ {{}}, policy \in Policies :
               BeginSaves(c, asked, policy)
      PROVE  ~There(manifest)
  BY <1>0, <1>4 DEF BeginSaves, ReadsAlone, Readers
<1> QED
  BY <1>1, <1>2, <1>3, <1>4

LEMMA DoneIsDoneStep ==
  ASSUME TypeOK, InTurns, OneByOne, DoneIsDone, [Next]_vars
  PROVE  DoneIsDone'
<1>0. RecordOK /\ CallsOK /\ RunIsOfRecord /\ HandsOverRecord /\ StagesAgree
  BY TypeParts DEF InTurns
<1>c. ASSUME manifest' = None PROVE DoneIsDone'
  BY <1>c DEF DoneIsDone, Undone, None
<1>1. ASSUME NEW r \in Runs, RunFetches(r) \/ RunFetched(r) \/ RunEndsStep(r) PROVE DoneIsDone'
  BY <1>0, <1>1, StepIsWritten, AtWork DEF DoneIsDone
<1>2. ASSUME NEW r \in Runs, RunTakesTurn(r) \/ RunStops(r) \/ RunFails(r) PROVE DoneIsDone'
  <2>1. manifest'.stage = manifest.stage /\ manifest'.steps = manifest.steps
    BY <1>0, <1>2, RecordIsKept
  <2> QED
    BY <2>1 DEF DoneIsDone, Undone
<1>3. ASSUME NEW r \in Runs, RunFinishes(r) PROVE DoneIsDone'
  <2>1. manifest'.steps = manifest.steps /\ turn = r /\ Undone(work.m) = {}
    BY <1>0, <1>3, RecordIsFinished DEF RunFinishes
  <2>2. Undone(manifest) = {}
    BY <1>0, <2>1, AtWork
  <2> QED
    BY <2>1, <2>2 DEF DoneIsDone, Undone
<1>4. ASSUME HandOverEnds PROVE DoneIsDone'
  <2> DEFINE m == [handing.m EXCEPT !.handed = TRUE]
  <2>1. m.steps = manifest.steps /\ m.stage = manifest.stage
    BY <1>0, <1>4 DEF HandOverEnds, HandsOverRecord, RecordOK, Manifest
  <2>2. manifest' = None \/ manifest' = m
    BY <1>4 DEF HandOverEnds, Clears
  <2> QED
    BY <1>c, <2>1, <2>2 DEF DoneIsDone, Undone
<1>5. ASSUME CancelClears \/ \E replaced \in SUBSET Files : SummaryIsAnswered(replaced)
      PROVE  DoneIsDone'
  BY <1>5, <1>c DEF CancelClears, SummaryIsAnswered, Clears
<1>6. ASSUME NEW c \in Callers, NEW asked \in (SUBSET Steps) \ {{}}, NEW policy \in Policies,
             BeginSaves(c, asked, policy)
      PROVE  DoneIsDone'
  BY <1>6 DEF BeginSaves, None, DoneIsDone
<1>7. ASSUME \/ \E j \in Jobs : JobStarts(j) \/ JobSettles(j)
             \/ \E r \in Runs : \/ StreamDrops(r) \/ BorgWrites(r) \/ RunPlans(r) \/ RunMoves(r)
                                \/ RunWritesDown(r)
             \/ HandOverBegins
             \/ \E c \in Callers : \/ BeginChecks(c) \/ Resumes(c) \/ PauseLands(c)
                                   \/ \E j \in Jobs : ResumesJob(c, j) \/ PauseIsSaid(c, j)
                                   \/ \E discard \in BOOLEAN : Cancels(c, discard)
             \/ CancelDiscards \/ \E f \in Files : PersonWrites(f)
             \/ Crash \/ UNCHANGED vars
      PROVE  DoneIsDone'
  <2>1. UNCHANGED manifest
    BY <1>7 DEF JobStarts, JobSettles, StreamDrops, BorgWrites, RunPlans, RunMoves, RunWritesDown,
         HandOverBegins, BeginChecks, Resumes, PauseLands, ResumesJob, PauseIsSaid, Cancels,
         CancelDiscards, PersonWrites, Crash, vars
  <2> QED
    BY <2>1 DEF DoneIsDone
<1> QED
  BY <1>1, <1>2, <1>3, <1>4, <1>5, <1>6, <1>7 DEF Next, RunStep, Call

LEMMA FetchedStep ==
  ASSUME TypeOK, InTurns, OneByOne, Fetched, [Next]_vars
  PROVE  Fetched'
<1>0. WorkOK /\ FilesOK /\ ReadsAlone /\ RunIsOfRecord /\ HandsOverRecord /\ StagesAgree
  BY TypeParts DEF InTurns
<1>w. work \in Work /\ work.m \in Manifest
  BY <1>0 DEF WorkOK, Work
<1>n. ASSUME work'.at # "fetching" PROVE Fetched'
  BY <1>n DEF Fetched
<1>1. ASSUME NEW r \in Runs, RunFetches(r) PROVE Fetched'
  <2> DEFINE s == StepOf(work.m)
  <2>1. s \in Undone(manifest) /\ s \in Steps /\ turn = r
        /\ manifest'.steps[s] = "fetching" /\ manifest' = work'.m
        /\ \A t \in Steps \ {s} : manifest'.steps[t] = manifest.steps[t]
    BY <1>0, <1>1, StepIsWritten
  <2>2. Undone(work.m) = Undone(manifest)
    BY <1>0, <2>1, AtWork
  <2>3. Undone(work'.m) = Undone(work.m)
    BY <2>1, <2>2 DEF Undone
  <2>4. StepOf(work'.m) = s
    BY <2>3 DEF StepOf
  <2>5. \A f \in FilesOf(s) : f \in work'.fetch \/ (Whole(f) /\ staging' = staging)
    BY ZenonT(60), <1>w, <1>1 DEF RunFetches, Work
  <2> QED
    BY <2>4, <2>5 DEF Fetched, Whole
<1>2. ASSUME NEW r \in Runs, BorgWrites(r) PROVE Fetched'
  <2>1. work'.m = work.m /\ work.at = "fetching" /\ work'.at = "fetching"
    BY <1>w, <1>2 DEF BorgWrites, Works, Work
  <2>2. \A f \in Files : Whole(f) => Whole(f)'
    BY <1>0, <1>2 DEF BorgWrites, Whole, FilesOK
  <2>3. First(work.fetch) \in Files
    BY <1>w, <1>2, FirstOfSome DEF BorgWrites, Work
  <2>4. \A f \in work.fetch : f \in work'.fetch \/ Whole(f)'
    <3>1. CASE staging[First(work.fetch)] = "none"
      BY <1>w, <1>2, <3>1 DEF BorgWrites, Work
    <3>2. CASE staging[First(work.fetch)] # "none"
      <4>1. work'.fetch = work.fetch \ {First(work.fetch)}
        BY <1>w, <1>2, <3>2 DEF BorgWrites, Work
      <4>2. staging'[First(work.fetch)] = "whole"
        BY <1>0, <1>2, <2>3, <3>2 DEF BorgWrites, FilesOK
      <4> QED
        BY <4>1, <4>2 DEF Whole
    <3> QED
      BY <3>1, <3>2
  <2> QED
    BY <2>1, <2>2, <2>4 DEF Fetched, FilesOf
<1>3. ASSUME NEW r \in Runs,
             \/ RunTakesTurn(r) \/ RunFetched(r) \/ RunPlans(r) \/ RunMoves(r) \/ RunWritesDown(r)
             \/ RunEndsStep(r) \/ RunStops(r) \/ RunFinishes(r) \/ RunFails(r)
      PROVE  Fetched'
  <2>1. RunStops(r) \/ RunFinishes(r) \/ RunFails(r) => work' = Idle
    BY DEF RunStops, RunFinishes, RunFails, RunIsOver
  <2>2. ASSUME RunTakesTurn(r) PROVE work'.at \in {"idle", "steps"}
    <3>1. work' = Idle \/ work' = [Idle EXCEPT !.at = "steps", !.m = [manifest EXCEPT !.paused = FALSE]]
      BY <2>2 DEF RunTakesTurn, RunIsOver
    <3>2. /\ Idle.at = "idle"
          /\ [Idle EXCEPT !.at = "steps", !.m = [manifest EXCEPT !.paused = FALSE]].at = "steps"
      BY DEF Idle
    <3> QED
      BY <3>1, <3>2
  <2>3. RunFetched(r) \/ RunPlans(r) \/ RunMoves(r) \/ RunWritesDown(r) \/ RunEndsStep(r)
          => work'.at \in {"steps", "placing", "moved"}
    BY <1>w DEF RunFetched, Saves, RunPlans, RunMoves, Works, RunWritesDown, RunEndsStep, Idle, Work
  <2> QED
    BY <1>3, <1>n, <2>1, <2>2, <2>3 DEF Idle
<1>4. ASSUME \/ HandOverEnds \/ CancelClears
             \/ \E replaced \in SUBSET Files : SummaryIsAnswered(replaced)
             \/ \E c \in Callers, asked \in (SUBSET Steps) \ {{}}, policy \in Policies :
                  BeginSaves(c, asked, policy)
      PROVE  Fetched'
  <2>1. ~There(manifest) \/ manifest.stage # "restoring" \/ turn \notin Runs
    BY <1>4, Idles
  <2>2. work' = work
    BY <1>4 DEF HandOverEnds, CancelClears, SummaryIsAnswered, BeginSaves
  <2>3. work.at = "idle"
    BY <1>0, <2>1, NotAtWork
  <2> QED
    BY <1>n, <2>2, <2>3
<1>5. ASSUME Crash PROVE Fetched'
  BY <1>5, <1>n DEF Crash, Idle
<1>6. ASSUME \/ \E j \in Jobs : JobStarts(j) \/ JobSettles(j)
             \/ \E r \in Runs : StreamDrops(r)
             \/ HandOverBegins
             \/ \E c \in Callers : \/ BeginChecks(c) \/ Resumes(c) \/ PauseLands(c)
                                   \/ \E j \in Jobs : ResumesJob(c, j) \/ PauseIsSaid(c, j)
                                   \/ \E discard \in BOOLEAN : Cancels(c, discard)
             \/ CancelDiscards \/ \E f \in Files : PersonWrites(f)
             \/ UNCHANGED vars
      PROVE  Fetched'
  <2>1. UNCHANGED <<work, staging>>
    BY <1>6 DEF JobStarts, JobSettles, StreamDrops, HandOverBegins, BeginChecks, Resumes, PauseLands,
         ResumesJob, PauseIsSaid, Cancels, CancelDiscards, PersonWrites, vars, durable, daemon
  <2> QED
    BY <2>1 DEF Fetched, Whole
<1> QED
  BY <1>1, <1>2, <1>3, <1>4, <1>5, <1>6 DEF Next, RunStep, Call

LEMMA PlannedStep ==
  ASSUME TypeOK, InTurns, OneByOne, Planned, PlacedIsThere, [Next]_vars
  PROVE  Planned'
<1>0. WorkOK /\ FilesOK /\ RunIsOfRecord /\ StagesAgree
  BY TypeParts DEF InTurns
<1>w. work \in Work /\ work.m \in Manifest /\ work.adds \subseteq Files
  BY <1>0 DEF WorkOK, Work
<1>n. ASSUME work'.at \notin {"placing", "moved"} PROVE Planned'
  BY <1>n DEF Planned, Placing
<1>1. ASSUME NEW r \in Runs, RunPlans(r) PROVE Planned'
  <2> DEFINE s == StepOf(work.m)
             there == {f \in FilesOf(s) : staging[f] # "none"}
             adds == {f \in there : Added(f)}
             clashes == {f \in there : Clashes(f)}
  <2>1. /\ work' = [work EXCEPT !.at = "placing", !.adds = adds, !.clashes = clashes]
        /\ UNCHANGED <<disk, staging>> /\ turn = r /\ work.m.steps[s] = "placing" /\ Undone(work.m) # {}
    BY <1>1 DEF RunPlans, durable, Works
  <2>2. s \in Steps
    BY <1>w, <2>1, StepIsUndone
  <2>3. manifest.steps[s] = "placing" /\ turn # TheCancel
    BY <1>0, <2>1, AtWork
  <2>4. \A f \in FilesOf(s) : Whole(f) \/ disk[f] # Missing
    BY <2>2, <2>3 DEF PlacedIsThere
  <2>5. \A f \in FilesOf(s) : f \in adds \/ disk[f] # Missing
    BY <2>4 DEF Whole, Added
  <2>6. \A f \in adds : Whole(f)
    BY <2>4 DEF Added
  <2>7. work'.adds = adds /\ work'.m = work.m
    BY <1>w, <2>1 DEF Work
  <2> HIDE DEF adds, s
  <2> QED
    BY <2>1, <2>5, <2>6, <2>7 DEF Planned, Whole, s
<1>2. ASSUME NEW r \in Runs, RunMoves(r) PROVE Planned'
  <2> DEFINE f == First(work.adds)
  <2>1. f \in work.adds /\ f \in Files
    BY <1>w, <1>2, FirstOfSome DEF RunMoves
  <2>2. Placing /\ turn = r
    BY <1>2 DEF RunMoves, Works, Placing
  <2>3. work'.adds = work.adds \ {f}
    BY <1>w, <1>2 DEF RunMoves, Work
  <2>4. CASE /\ disk' = [disk EXCEPT ![f] = IF staging[f] = "whole" THEN work.m.no ELSE Half]
             /\ staging' = [staging EXCEPT ![f] = "none"]
             /\ work'.m = work.m
    <3>1. work.m.no > 0
      BY <1>0, <2>2, AtWork
    <3>2. disk'[f] # Missing
      <4>1. disk'[f] = work.m.no \/ disk'[f] = Half
        BY <1>0, <2>1, <2>4 DEF FilesOK
      <4> QED
        BY <3>1, <4>1
    <3>3. \A g \in Files \ {f} : disk'[g] = disk[g] /\ staging'[g] = staging[g]
      BY <1>0, <2>4 DEF FilesOK
    <3> HIDE DEF f
    <3> QED
      BY <1>w, <2>1, <2>2, <2>3, <2>4, <3>2, <3>3 DEF Planned, Whole, FilesOf
  <2>5. CASE UNCHANGED <<disk, staging>> /\ work'.m = [work.m EXCEPT !.failed = @ \cup {f}]
    <3>1. work'.m.failed = work.m.failed \cup {f} /\ work'.m.steps = work.m.steps
      BY <1>w, <2>5 DEF Manifest
    <3>2. StepOf(work'.m) = StepOf(work.m)
      BY <3>1 DEF StepOf, Undone
    <3> HIDE DEF f
    <3> QED
      BY <2>1, <2>2, <2>3, <2>5, <3>1, <3>2 DEF Planned, Whole
  <2> QED
    BY <1>w, <1>2, <2>4, <2>5 DEF RunMoves, Work
<1>3. ASSUME NEW r \in Runs, RunWritesDown(r) PROVE Planned'
  <2>1. /\ work.at = "moved" /\ UNCHANGED <<disk, staging>>
        /\ work'.adds = work.adds /\ work'.m = work.m
    BY <1>w, <1>3 DEF RunWritesDown, Works, Work
  <2> QED
    BY <2>1 DEF Planned, Placing, Whole
<1>4. ASSUME NEW r \in Runs,
             \/ RunTakesTurn(r) \/ RunFetches(r) \/ BorgWrites(r) \/ RunFetched(r)
             \/ RunEndsStep(r) \/ RunStops(r) \/ RunFinishes(r) \/ RunFails(r)
      PROVE  Planned'
  <2>1. RunStops(r) \/ RunFinishes(r) \/ RunFails(r) => work' = Idle
    BY DEF RunStops, RunFinishes, RunFails, RunIsOver
  <2>2. ASSUME RunTakesTurn(r) PROVE work'.at \in {"idle", "steps"}
    <3>1. work' = Idle \/ work' = [Idle EXCEPT !.at = "steps", !.m = [manifest EXCEPT !.paused = FALSE]]
      BY <2>2 DEF RunTakesTurn, RunIsOver
    <3>2. /\ Idle.at = "idle"
          /\ [Idle EXCEPT !.at = "steps", !.m = [manifest EXCEPT !.paused = FALSE]].at = "steps"
      BY DEF Idle
    <3> QED
      BY <3>1, <3>2
  <2>3. RunFetches(r) \/ RunFetched(r) \/ RunEndsStep(r) => work'.at \in {"steps", "fetching"}
    BY <1>0, StepIsWritten
  <2>4. BorgWrites(r) => work'.at = "fetching"
    BY <1>w DEF BorgWrites, Works, Work
  <2>5. Idle.at = "idle"
    BY DEF Idle
  <2> QED
    BY <1>4, <1>n, <2>1, <2>2, <2>3, <2>4, <2>5
<1>5. ASSUME \/ HandOverEnds \/ CancelDiscards \/ CancelClears
             \/ \E replaced \in SUBSET Files : SummaryIsAnswered(replaced)
             \/ \E c \in Callers, asked \in (SUBSET Steps) \ {{}}, policy \in Policies :
                  BeginSaves(c, asked, policy)
      PROVE  Planned'
  <2>1. work' = work
    BY <1>5 DEF HandOverEnds, CancelDiscards, CancelClears, SummaryIsAnswered, BeginSaves
  <2>2. work.at = "idle"
    BY <1>0, <1>5, Idles, NotAtWork
  <2> QED
    BY <1>n, <2>1, <2>2
<1>6. ASSUME NEW f \in Files, PersonWrites(f) PROVE Planned'
  <2>1. /\ UNCHANGED <<work, staging>> /\ disk' = [disk EXCEPT ![f] = Theirs]
    BY <1>6 DEF PersonWrites, daemon
  <2>2. \A g \in Files : disk'[g] = disk[g] \/ disk'[g] # Missing
    BY <1>0, <2>1 DEF FilesOK
  <2> QED
    BY <2>1, <2>2 DEF Planned, Placing, Whole, FilesOf
<1>7. ASSUME Crash PROVE Planned'
  BY <1>7, <1>n DEF Crash, Idle
<1>8. ASSUME \/ \E j \in Jobs : JobStarts(j) \/ JobSettles(j)
             \/ \E r \in Runs : StreamDrops(r)
             \/ HandOverBegins
             \/ \E c \in Callers : \/ BeginChecks(c) \/ Resumes(c) \/ PauseLands(c)
                                   \/ \E j \in Jobs : ResumesJob(c, j) \/ PauseIsSaid(c, j)
                                   \/ \E discard \in BOOLEAN : Cancels(c, discard)
             \/ UNCHANGED vars
      PROVE  Planned'
  <2>1. UNCHANGED <<work, disk, staging>>
    BY <1>8 DEF JobStarts, JobSettles, StreamDrops, HandOverBegins, BeginChecks, Resumes, PauseLands,
         ResumesJob, PauseIsSaid, Cancels, vars, durable, daemon
  <2> QED
    BY <2>1 DEF Planned, Placing, Whole
<1> QED
  BY <1>1, <1>2, <1>3, <1>4, <1>5, <1>6, <1>7, <1>8 DEF Next, RunStep, Call

(* How what is at a file's place changes. *)
LEMMA DiskStep ==
  ASSUME TypeOK, InTurns, NoHalves, Planned, [Next]_vars
  PROVE  \/ \E r \in Runs : RunMoves(r)
         \/ CancelDiscards
         \/ \A f \in Files : disk'[f] = disk[f] \/ disk'[f] \in {Theirs, Answered}
<1>0. FilesOK
  BY TypeParts
<1>1. ASSUME NEW r \in Runs, RunFinishes(r)
      PROVE  \A f \in Files : disk'[f] = disk[f] \/ disk'[f] = Answered
  BY <1>1 DEF RunFinishes
<1>2. ASSUME NEW replaced \in SUBSET Files, SummaryIsAnswered(replaced)
      PROVE  \A f \in Files : disk'[f] = disk[f] \/ disk'[f] = Answered
  BY <1>2 DEF SummaryIsAnswered
<1>3. ASSUME NEW g \in Files, PersonWrites(g)
      PROVE  \A f \in Files : disk'[f] = disk[f] \/ disk'[f] = Theirs
  BY <1>0, <1>3 DEF PersonWrites, FilesOK
<1>4. ASSUME \/ \E j \in Jobs : JobStarts(j) \/ JobSettles(j)
             \/ \E r \in Runs : \/ StreamDrops(r) \/ RunTakesTurn(r) \/ RunFetches(r) \/ BorgWrites(r)
                                \/ RunFetched(r) \/ RunPlans(r) \/ RunWritesDown(r) \/ RunEndsStep(r)
                                \/ RunStops(r) \/ RunFails(r)
             \/ HandOverBegins \/ HandOverEnds
             \/ \E c \in Callers : Call(c)
             \/ CancelClears \/ Crash \/ UNCHANGED vars
      PROVE  disk' = disk
  BY ZenonT(60), <1>4
     DEF JobStarts, JobSettles, StreamDrops, RunTakesTurn, RunFetches, BorgWrites, RunFetched, RunPlans, RunWritesDown, RunEndsStep, RunStops, RunFails, HandOverBegins, HandOverEnds, Call,
     BeginChecks, Resumes, PauseLands, BeginSaves, ResumesJob, PauseIsSaid, Cancels,
     CancelClears, Crash, vars, durable
<1> QED
  BY <1>1, <1>2, <1>3, <1>4 DEF Next, RunStep

(* What a run moves is whole. *)
LEMMA MovesWhole ==
  ASSUME TypeOK, InTurns, Planned, NEW r \in Runs, RunMoves(r)
  PROVE  /\ turn = r /\ First(work.adds) \in Files
         /\ \/ /\ disk' = [disk EXCEPT ![First(work.adds)] = manifest.no]
               /\ staging' = [staging EXCEPT ![First(work.adds)] = "none"]
               /\ work'.at = "moved" /\ work'.moved = First(work.adds)
            \/ UNCHANGED <<disk, staging>>
         /\ UNCHANGED <<manifest, added, turn, calls, made>> /\ work.at = "placing"
<1>0. WorkOK /\ RunIsOfRecord /\ StagesAgree
  BY TypeParts DEF InTurns
<1>w. work \in Work /\ work.adds \subseteq Files
  BY <1>0 DEF WorkOK, Work
<1>1. turn = r /\ work.at = "placing" /\ UNCHANGED <<manifest, added, turn, calls, made>>
  BY DEF RunMoves, Works
<1>2. First(work.adds) \in work.adds
  BY <1>w, FirstOfSome DEF RunMoves
<1>3. staging[First(work.adds)] = "whole"
  BY <1>1, <1>2 DEF Planned, Placing, Whole
<1>4. work.m.no = manifest.no
  BY <1>0, <1>1, AtWork
<1>5. \/ /\ disk' = [disk EXCEPT ![First(work.adds)] = work.m.no]
         /\ staging' = [staging EXCEPT ![First(work.adds)] = "none"]
         /\ work' = [work EXCEPT !.at = "moved", !.adds = @ \ {First(work.adds)},
                                 !.moved = First(work.adds)]
      \/ UNCHANGED <<disk, staging>>
  BY <1>3 DEF RunMoves
<1> QED
  BY <1>w, <1>1, <1>2, <1>4, <1>5 DEF Work

(* What is there stays there, but for Discard. *)
LEMMA StaysThere ==
  ASSUME TypeOK, InTurns, NoHalves, Planned, [Next]_vars
  PROVE  /\ NoHalves'
         /\ CancelDiscards \/ \A f \in Files : disk[f] # Missing => disk'[f] # Missing
<1>0. FilesOK /\ RunIsOfRecord /\ StagesAgree
  BY TypeParts DEF InTurns
<1>1. ASSUME NEW r \in Runs, RunMoves(r)
      PROVE  \A f \in Files : disk'[f] = disk[f] \/ disk'[f] > 0
  <2>1. manifest.no \in Nat /\ manifest.no > 0
    BY <1>0, <1>1, MovesWhole, AtWork DEF TypeOK, Manifest
  <2> QED
    BY <1>0, <1>1, <2>1, MovesWhole DEF FilesOK
<1>2. ASSUME CancelDiscards PROVE \A f \in Files : disk'[f] = disk[f] \/ disk'[f] = Missing
  BY <1>2 DEF CancelDiscards
<1>3. \A f \in Files : \/ disk'[f] = disk[f] \/ disk'[f] > 0 \/ disk'[f] \in {Theirs, Answered}
                       \/ CancelDiscards /\ disk'[f] = Missing
  BY <1>1, <1>2, DiskStep
<1>4. NoHalves'
  BY <1>3 DEF NoHalves
<1> QED
  BY <1>3, <1>4

(* One step is in hand at a time, the first that is not done. *)
LEMMA OthersWait ==
  ASSUME RecordOK, InOrder(manifest), NEW s \in Steps, s \in Undone(manifest),
         \A t \in Undone(manifest) : s <= t
  PROVE  \A t \in Steps \ {s} : manifest.steps[t] # "placing"
<1> SUFFICES ASSUME NEW t \in Steps \ {s}, manifest.steps[t] = "placing" PROVE FALSE
  OBVIOUS
<1>1. t \in Undone(manifest)
  BY DEF Undone
<1>2. t <= s
  BY <1>1 DEF InOrder
<1>3. s <= t
  BY <1>1
<1> QED
  BY <1>2, <1>3, RecoveryAssumption

LEMMA PlacedIsThereStep ==
  ASSUME TypeOK, InTurns, OneByOne, AtOnce, DoneIsDone, Fetched, NoHalves, Planned, PlacedIsThere,
         [Next]_vars
  PROVE  PlacedIsThere'
<1>0. RecordOK /\ WorkOK /\ FilesOK /\ RunIsOfRecord /\ HandsOverRecord /\ StagesAgree /\ InOrder(manifest)
  BY TypeParts DEF InTurns
<1>n. ASSUME \A s \in Steps : manifest'.steps[s] # "placing" PROVE PlacedIsThere'
  BY <1>n DEF PlacedIsThere
<1>o. ASSUME Undone(manifest) = {} PROVE \A s \in Steps : manifest.steps[s] # "placing"
  BY <1>o DEF Undone
<1>c. ASSUME manifest' = None PROVE PlacedIsThere'
  BY <1>c, <1>n DEF None
<1>k. ASSUME manifest'.steps = manifest.steps, turn # TheCancel,
             \A f \in Files : Whole(f) \/ disk[f] # Missing => Whole(f)' \/ disk'[f] # Missing
      PROVE  PlacedIsThere'
  BY <1>k DEF PlacedIsThere, FilesOf
<1>1. ASSUME NEW r \in Runs, RunFetches(r) \/ RunEndsStep(r) PROVE PlacedIsThere'
  <2> DEFINE s == StepOf(work.m)
  <2>1. /\ s \in Undone(manifest) /\ s \in Steps /\ \A t \in Undone(manifest) : s <= t
        /\ manifest'.steps[s] # "placing"
        /\ \A t \in Steps \ {s} : manifest'.steps[t] = manifest.steps[t]
    <3>1. RunEndsStep(r) => ~RunFetched(r)
      BY DEF RunEndsStep, Placed, RunFetched, Works
    <3> QED
      BY <1>0, <1>1, <3>1, StepIsWritten
  <2>2. \A t \in Steps \ {s} : manifest.steps[t] # "placing"
    <3> HIDE DEF s
    <3> QED
      BY <1>0, <2>1, OthersWait
  <2> HIDE DEF s
  <2> QED
    BY <2>1, <2>2, <1>n
<1>2. ASSUME NEW r \in Runs, RunFetched(r) PROVE PlacedIsThere'
  <2> DEFINE s == StepOf(work.m)
  <2>1. /\ s \in Steps /\ turn = r
        /\ \A t \in Steps \ {s} : manifest'.steps[t] = manifest.steps[t]
    BY <1>0, <1>2, StepIsWritten
  <2>2. UNCHANGED <<disk, staging>> /\ work.at = "fetching" /\ work.fetch = {}
    BY <1>2 DEF RunFetched, durable, Works
  <2>3. \A f \in FilesOf(s) : Whole(f)'
    BY <2>2 DEF Fetched, Whole
  <2>4. turn # TheCancel
    BY <2>1, RecoveryAssumption
  <2> HIDE DEF s
  <2> QED
    BY <2>1, <2>2, <2>3, <2>4 DEF PlacedIsThere, Whole
<1>3. ASSUME NEW r \in Runs, RunFinishes(r) PROVE PlacedIsThere'
  <2>1. manifest'.steps = manifest.steps /\ turn = r /\ Undone(work.m) = {}
    BY <1>0, <1>3, RecordIsFinished DEF RunFinishes
  <2>2. Undone(manifest) = {}
    BY <1>0, <2>1, AtWork
  <2> QED
    BY <2>1, <2>2, <1>o, <1>n
<1>4. ASSUME HandOverEnds PROVE PlacedIsThere'
  <2> DEFINE m == [handing.m EXCEPT !.handed = TRUE]
  <2>1. m.steps = manifest.steps /\ manifest.stage # "restoring"
    BY <1>0, <1>4 DEF HandOverEnds, HandsOverRecord, RecordOK, Manifest
  <2>2. manifest' = None \/ manifest' = m
    BY <1>4 DEF HandOverEnds, Clears
  <2>3. Undone(manifest) = {}
    BY <2>1 DEF DoneIsDone
  <2>4. manifest' = m => manifest'.steps = manifest.steps
    BY <2>1
  <2> HIDE DEF m
  <2> QED
    BY <2>2, <2>3, <2>4, <1>c, <1>n, <1>o
<1>5. ASSUME CancelClears \/ \E replaced \in SUBSET Files : SummaryIsAnswered(replaced)
      PROVE  PlacedIsThere'
  BY <1>5, <1>c DEF CancelClears, SummaryIsAnswered, Clears
<1>6. ASSUME NEW c \in Callers, NEW asked \in (SUBSET Steps) \ {{}}, NEW policy \in Policies,
             BeginSaves(c, asked, policy)
      PROVE  PlacedIsThere'
  <2>1. manifest'.steps = [s \in Steps |-> IF s \in asked THEN "pending" ELSE "not asked"]
    BY <1>6 DEF BeginSaves, None
  <2> QED
    BY <2>1, <1>n
<1>7. ASSUME CancelDiscards PROVE PlacedIsThere'
  BY <1>7 DEF CancelDiscards, PlacedIsThere
<1>8. ASSUME NEW r \in Runs, BorgWrites(r) \/ RunMoves(r) PROVE PlacedIsThere'
  <2>1. UNCHANGED manifest /\ turn = r
    BY <1>8 DEF BorgWrites, RunMoves, Works
  <2>2. BorgWrites(r) => \A f \in Files : Whole(f) => Whole(f)'
    BY <1>0 DEF BorgWrites, Whole, FilesOK
  <2>3. BorgWrites(r) => UNCHANGED disk
    BY DEF BorgWrites
  <2>4. ASSUME RunMoves(r)
        PROVE  \A f \in Files : Whole(f) \/ disk[f] # Missing => Whole(f)' \/ disk'[f] # Missing
    <3>1. manifest.no # 0
      BY <1>0, <2>1, AtWork DEF There
    <3> QED
      BY <1>0, <2>4, <3>1, MovesWhole DEF Whole, FilesOK
  <2>5. turn # TheCancel
    BY <2>1, RecoveryAssumption
  <2> QED
    BY <1>8, <1>k, <2>1, <2>2, <2>3, <2>4, <2>5
<1>9. ASSUME NEW f \in Files, PersonWrites(f) PROVE PlacedIsThere'
  <2>1. UNCHANGED <<manifest, turn, staging>> /\ disk' = [disk EXCEPT ![f] = Theirs]
    BY <1>9 DEF PersonWrites, daemon
  <2>2. \A g \in Files : disk[g] # Missing => disk'[g] # Missing
    BY <1>0, <2>1 DEF FilesOK
  <2> QED
    BY <2>1, <2>2 DEF PlacedIsThere, Whole, FilesOf
<1>10. ASSUME NEW r \in Runs, RunTakesTurn(r) \/ RunStops(r) \/ RunFails(r) PROVE PlacedIsThere'
  <2>1. manifest'.steps = manifest.steps /\ UNCHANGED <<disk, staging>>
    BY <1>0, <1>10, RecordIsKept
  <2>2. turn = 0 \/ turn = r
    BY <1>10 DEF RunTakesTurn, RunStops, RunFails
  <2>3. turn # TheCancel
    BY <2>2, RecoveryAssumption
  <2> QED
    BY <2>1, <2>3, <1>k DEF Whole
<1>11. ASSUME Crash PROVE PlacedIsThere'
  <2>1. UNCHANGED <<manifest, disk, staging>> /\ turn # TheCancel
    BY <1>11 DEF Crash, durable, AtOnce
  <2> QED
    BY <2>1, <1>k DEF Whole
<1>12. ASSUME \/ \E j \in Jobs : JobStarts(j) \/ JobSettles(j)
              \/ \E r \in Runs : StreamDrops(r) \/ RunPlans(r) \/ RunWritesDown(r)
              \/ HandOverBegins
              \/ \E c \in Callers : \/ BeginChecks(c) \/ Resumes(c) \/ PauseLands(c)
                                    \/ \E j \in Jobs : ResumesJob(c, j) \/ PauseIsSaid(c, j)
                                    \/ \E discard \in BOOLEAN : Cancels(c, discard)
              \/ UNCHANGED vars
       PROVE  PlacedIsThere'
  <2>1. UNCHANGED <<manifest, disk, staging, turn>>
    BY <1>12 DEF JobStarts, JobSettles, StreamDrops, RunPlans, RunWritesDown, HandOverBegins,
         BeginChecks, Resumes, PauseLands, ResumesJob, PauseIsSaid, Cancels, vars, durable, daemon
  <2> QED
    BY <2>1 DEF PlacedIsThere, Whole
<1> QED
  BY <1>1, <1>2, <1>3, <1>4, <1>5, <1>6, <1>7, <1>8, <1>9, <1>10, <1>11, <1>12 DEF Next, RunStep, Call

LEMMA EveryStepIsBackStep ==
  ASSUME TypeOK, InTurns, OneByOne, AtOnce, NoHalves, Planned, EveryStepIsBack, [Next]_vars
  PROVE  EveryStepIsBack'
<1>0. RecordOK /\ WorkOK /\ FilesOK /\ RunIsOfRecord /\ HandsOverRecord /\ StagesAgree
  BY TypeParts DEF InTurns
<1>h. NoHalves'
  BY StaysThere
<1>n. ASSUME ~There(manifest)' \/ \A s \in Steps : manifest'.steps[s] # "done" PROVE EveryStepIsBack'
  BY <1>n DEF EveryStepIsBack
<1>c. ASSUME manifest' = None PROVE EveryStepIsBack'
  BY <1>c, <1>n DEF None, There
<1>d. ASSUME ~CancelDiscards
      PROVE  \A f \in Files : disk[f] \notin {Missing, Half} => disk'[f] \notin {Missing, Half}
  BY <1>d, StaysThere DEF NoHalves
<1>k. ASSUME manifest'.no = manifest.no, turn # TheCancel, manifest.failed \subseteq manifest'.failed,
             ~CancelDiscards,
             NEW s \in Steps, manifest'.steps[s] = manifest.steps[s], manifest'.steps[s] = "done",
             There(manifest)', NEW f \in FilesOf(s)
      PROVE  disk'[f] \notin {Missing, Half} \/ f \in manifest'.failed
  <2>1. There(manifest) /\ manifest.steps[s] = "done"
    BY <1>k DEF There
  <2>2. disk[f] \notin {Missing, Half} \/ f \in manifest.failed
    BY <1>k, <2>1 DEF EveryStepIsBack
  <2> QED
    BY <1>d, <1>k, <2>2 DEF FilesOf
<1>s. ASSUME manifest'.no = manifest.no, turn # TheCancel, manifest.failed \subseteq manifest'.failed,
             ~CancelDiscards, manifest'.steps = manifest.steps
      PROVE  EveryStepIsBack'
  BY <1>k, <1>s DEF EveryStepIsBack
<1>f. turn # TheCancel => ~CancelDiscards \/ turn = 0
  BY DEF CancelDiscards
<1>r. \A r \in Runs : r # TheCancel /\ r # 0
  BY RecoveryAssumption
<1>1. ASSUME NEW r \in Runs, RunFetches(r) \/ RunFetched(r) \/ RunEndsStep(r) PROVE EveryStepIsBack'
  <2> DEFINE s == StepOf(work.m)
  <2>1. /\ s \in Steps /\ turn = r /\ manifest'.no = manifest.no
        /\ manifest'.failed = work.m.failed
        /\ RunEndsStep(r) \/ manifest'.steps[s] # "done"
        /\ \A t \in Steps \ {s} : manifest'.steps[t] = manifest.steps[t]
    BY <1>0, <1>1, StepIsWritten
  <2>2. manifest.failed \subseteq manifest'.failed
    BY <1>0, <2>1, AtWork
  <2>3. turn # TheCancel /\ ~CancelDiscards
    BY <1>r, <2>1 DEF CancelDiscards
  <2>4. ASSUME RunEndsStep(r), NEW f \in FilesOf(s)
        PROVE  disk'[f] \notin {Missing, Half} \/ f \in manifest'.failed
    <3>1. Placing /\ work.adds = {} /\ UNCHANGED disk
      BY <2>4 DEF RunEndsStep, Placed, Works, Placing
    <3>2. disk[f] # Missing \/ f \in work.m.failed
      BY <2>4, <3>1 DEF Planned
    <3> QED
      BY <2>1, <2>4, <3>1, <3>2 DEF NoHalves, FilesOf
  <2> HIDE DEF s
  <2>5. ASSUME There(manifest)', NEW t \in Steps, manifest'.steps[t] = "done", NEW f \in FilesOf(t)
        PROVE  disk'[f] \notin {Missing, Half} \/ f \in manifest'.failed
    <3>1. CASE t = s
      BY <2>1, <2>4, <2>5, <3>1
    <3>2. CASE t # s
      BY <1>k, <2>1, <2>2, <2>3, <2>5, <3>2
    <3> QED
      BY <3>1, <3>2
  <2> QED
    BY <2>5 DEF EveryStepIsBack
<1>2. ASSUME NEW r \in Runs, RunTakesTurn(r) \/ RunStops(r) \/ RunFails(r) \/ RunFinishes(r)
      PROVE  EveryStepIsBack'
  <2>1. /\ manifest'.no = manifest.no /\ manifest'.steps = manifest.steps
        /\ manifest.failed \subseteq manifest'.failed
    BY <1>0, <1>2, RecordIsKept, RecordIsFinished
  <2>2. turn = 0 \/ turn = r
    BY <1>2 DEF RunTakesTurn, RunStops, RunFails, RunFinishes, Works
  <2>3. ~CancelDiscards
    <3>1. turn = r \/ turn' = r \/ turn' = 0
      BY <1>2 DEF RunTakesTurn, RunStops, RunFails, RunFinishes, Works, RunIsOver
    <3> QED
      BY <1>r, <3>1 DEF CancelDiscards, TheCancel
  <2> QED
    BY <1>r, <1>s, <2>1, <2>2, <2>3 DEF TheCancel
<1>3. ASSUME HandOverEnds PROVE EveryStepIsBack'
  <2> DEFINE m == [handing.m EXCEPT !.handed = TRUE]
  <2>1. m.steps = manifest.steps /\ m.no = manifest.no /\ m.failed = manifest.failed
    BY <1>0, <1>3 DEF HandOverEnds, HandsOverRecord, RecordOK, Manifest
  <2>2. manifest' = None \/ manifest' = m
    BY <1>3 DEF HandOverEnds, Clears
  <2>3. UNCHANGED <<disk, turn>>
    BY <1>3 DEF HandOverEnds
  <2>4. manifest' = m =>
          manifest'.steps = manifest.steps /\ manifest'.no = manifest.no /\ manifest'.failed = manifest.failed
    BY <2>1
  <2> HIDE DEF m
  <2>5. CASE manifest' = m
    BY <2>3, <2>4, <2>5 DEF EveryStepIsBack, There
  <2> QED
    BY <2>2, <2>5, <1>c
<1>4. ASSUME CancelClears \/ \E replaced \in SUBSET Files : SummaryIsAnswered(replaced)
      PROVE  EveryStepIsBack'
  BY <1>4, <1>c DEF CancelClears, SummaryIsAnswered, Clears
<1>5. ASSUME NEW c \in Callers, NEW asked \in (SUBSET Steps) \ {{}}, NEW policy \in Policies,
             BeginSaves(c, asked, policy)
      PROVE  EveryStepIsBack'
  <2>1. manifest'.steps = [s \in Steps |-> IF s \in asked THEN "pending" ELSE "not asked"]
    BY <1>5 DEF BeginSaves, None
  <2> QED
    BY <2>1, <1>n
<1>6. ASSUME CancelDiscards PROVE EveryStepIsBack'
  BY <1>6 DEF CancelDiscards, EveryStepIsBack
<1>7. ASSUME NEW r \in Runs, RunMoves(r) PROVE EveryStepIsBack'
  <2>1. UNCHANGED manifest /\ turn = r /\ ~CancelDiscards
    BY <1>7, <1>r DEF RunMoves, Works, CancelDiscards
  <2>2. /\ manifest'.no = manifest.no /\ manifest'.steps = manifest.steps
        /\ manifest.failed \subseteq manifest'.failed
    BY <2>1
  <2>3. turn # TheCancel
    BY <1>r, <2>1
  <2> QED
    BY <1>s, <2>1, <2>2, <2>3
<1>8. ASSUME NEW f \in Files, PersonWrites(f) PROVE EveryStepIsBack'
  <2>1. UNCHANGED <<manifest, turn>> /\ disk' = [disk EXCEPT ![f] = Theirs]
    BY <1>8 DEF PersonWrites, daemon
  <2>2. \A g \in Files : disk'[g] = disk[g] \/ disk'[g] = Theirs
    BY <1>0, <2>1 DEF FilesOK
  <2>3. \A s \in Steps : \A g \in FilesOf(s) :
          disk[g] \notin {Missing, Half} => disk'[g] \notin {Missing, Half}
    BY <2>2 DEF FilesOf
  <2> QED
    BY <2>1, <2>3 DEF EveryStepIsBack, There
<1>9. ASSUME Crash PROVE EveryStepIsBack'
  <2>1. UNCHANGED <<manifest, disk>> /\ turn # TheCancel
    BY <1>9 DEF Crash, durable, AtOnce
  <2> QED
    BY <2>1 DEF EveryStepIsBack
<1>10. ASSUME \/ \E j \in Jobs : JobStarts(j) \/ JobSettles(j)
              \/ \E r \in Runs : StreamDrops(r) \/ BorgWrites(r) \/ RunPlans(r) \/ RunWritesDown(r)
              \/ HandOverBegins
              \/ \E c \in Callers : \/ BeginChecks(c) \/ Resumes(c) \/ PauseLands(c)
                                    \/ \E j \in Jobs : ResumesJob(c, j) \/ PauseIsSaid(c, j)
                                    \/ \E discard \in BOOLEAN : Cancels(c, discard)
              \/ UNCHANGED vars
       PROVE  EveryStepIsBack'
  <2>1. UNCHANGED <<manifest, disk, turn>>
    BY <1>10 DEF JobStarts, JobSettles, StreamDrops, BorgWrites, RunPlans, RunWritesDown, HandOverBegins,
         BeginChecks, Resumes, PauseLands, ResumesJob, PauseIsSaid, Cancels, vars, durable, daemon
  <2> QED
    BY <2>1 DEF EveryStepIsBack
<1> QED
  BY <1>1, <1>2, <1>3, <1>4, <1>5, <1>6, <1>7, <1>8, <1>9, <1>10 DEF Next, RunStep, Call

(* The number of a recovery, and of what it added, was given by then. *)
LEMMA MadeStep ==
  ASSUME TypeOK, [Next]_vars
  PROVE  made' = made \/ made' = made + 1
<1>1. ASSUME NEW c \in Callers,
             \/ BeginChecks(c) \/ Resumes(c) \/ \E j \in Jobs : ResumesJob(c, j) \/ PauseIsSaid(c, j)
             \/ \E discard \in BOOLEAN : Cancels(c, discard)
      PROVE  made' = made + 1
  BY <1>1 DEF BeginChecks, Resumes, ResumesJob, PauseIsSaid, Cancels, Called
<1>2. ASSUME \/ \E c \in Callers : \/ PauseLands(c)
                                   \/ \E asked \in (SUBSET Steps) \ {{}}, policy \in Policies :
                                        BeginSaves(c, asked, policy)
             \/ \E j \in Jobs : JobStarts(j) \/ JobSettles(j)
             \/ \E r \in Runs : StreamDrops(r) \/ RunStep(r) \/ RunFails(r)
             \/ HandOverBegins \/ HandOverEnds
             \/ \E replaced \in SUBSET Files : SummaryIsAnswered(replaced)
             \/ CancelDiscards \/ CancelClears \/ \E f \in Files : PersonWrites(f)
             \/ Crash \/ UNCHANGED vars
      PROVE  made' = made
  BY <1>2 DEF PauseLands, BeginSaves, JobStarts, JobSettles, StreamDrops, RunStep, RunTakesTurn,
     RunFetches, BorgWrites, RunFetched, RunPlans, RunMoves, RunWritesDown, RunEndsStep, RunStops,
     RunFinishes, RunFails, HandOverBegins, HandOverEnds, SummaryIsAnswered, CancelDiscards,
     CancelClears, PersonWrites, Crash, vars
<1> QED
  BY <1>1, <1>2 DEF Next, Call

LEMMA NumberStep ==
  ASSUME TypeOK, InTurns, [Next]_vars
  PROVE  \/ manifest'.no = manifest.no \/ manifest'.no = 0
         \/ \E c \in Readers : manifest'.no = calls[c].of
<1>0. RecordOK /\ RunIsOfRecord /\ HandsOverRecord
  BY TypeParts DEF InTurns
<1>1. ASSUME NEW r \in Runs, \/ RunFetches(r) \/ RunFetched(r) \/ RunEndsStep(r) \/ RunTakesTurn(r)
                             \/ RunStops(r) \/ RunFails(r) \/ RunFinishes(r)
      PROVE  manifest'.no = manifest.no
  BY <1>0, <1>1, StepIsWritten, RecordIsKept, RecordIsFinished
<1>2. ASSUME HandOverEnds PROVE manifest'.no = manifest.no \/ manifest'.no = 0
  <2> DEFINE m == [handing.m EXCEPT !.handed = TRUE]
  <2>1. m.no = manifest.no
    BY <1>0, <1>2 DEF HandOverEnds, HandsOverRecord, RecordOK, Manifest
  <2>2. manifest' = None \/ manifest' = m
    BY <1>2 DEF HandOverEnds, Clears
  <2>3. None.no = 0
    BY DEF None
  <2> HIDE DEF m
  <2> QED
    BY <2>1, <2>2, <2>3
<1>3. ASSUME CancelClears \/ \E replaced \in SUBSET Files : SummaryIsAnswered(replaced)
      PROVE  manifest'.no = 0
  <2>1. manifest' = None
    BY <1>3 DEF CancelClears, SummaryIsAnswered, Clears
  <2> QED
    BY <2>1 DEF None
<1>4. ASSUME NEW c \in Callers, NEW asked \in (SUBSET Steps) \ {{}}, NEW policy \in Policies,
             BeginSaves(c, asked, policy)
      PROVE  c \in Readers /\ manifest'.no = calls[c].of
  BY <1>4 DEF BeginSaves, None, Readers
<1>5. ASSUME \/ \E j \in Jobs : JobStarts(j) \/ JobSettles(j)
             \/ \E r \in Runs : \/ StreamDrops(r) \/ BorgWrites(r) \/ RunPlans(r) \/ RunMoves(r)
                                \/ RunWritesDown(r)
             \/ HandOverBegins
             \/ \E c \in Callers : \/ BeginChecks(c) \/ Resumes(c) \/ PauseLands(c)
                                   \/ \E j \in Jobs : ResumesJob(c, j) \/ PauseIsSaid(c, j)
                                   \/ \E discard \in BOOLEAN : Cancels(c, discard)
             \/ CancelDiscards \/ \E f \in Files : PersonWrites(f)
             \/ Crash \/ UNCHANGED vars
      PROVE  manifest' = manifest
  BY <1>5 DEF JobStarts, JobSettles, StreamDrops, BorgWrites, RunPlans, RunMoves, RunWritesDown,
     HandOverBegins, BeginChecks, Resumes, PauseLands, ResumesJob, PauseIsSaid, Cancels,
     CancelDiscards, PersonWrites, Crash, vars
<1> QED
  BY <1>1, <1>2, <1>3, <1>4, <1>5 DEF Next, RunStep, Call

LEMMA ReadersStep ==
  ASSUME TypeOK, [Next]_vars
  PROVE  \A c \in Readers' : \/ c \in Readers /\ calls'[c] = calls[c]
                             \/ calls'[c].of = made + 1 /\ made' = made + 1 /\ disk' = disk
<1>0. calls \in [Callers -> CallForm] /\ NoCall.at = "idle"
  BY TypeParts DEF CallsOK, NoCall
<1>1. ASSUME NEW c \in Callers, BeginChecks(c)
      PROVE  \A d \in Readers' : \/ d \in Readers /\ calls'[d] = calls[d]
                                 \/ calls'[d].of = made + 1 /\ made' = made + 1 /\ disk' = disk
  BY <1>0, <1>1 DEF BeginChecks, Called, durable, Readers
<1>2. ASSUME NEW c \in Callers,
             \/ PauseLands(c)
             \/ \E asked \in (SUBSET Steps) \ {{}}, policy \in Policies : BeginSaves(c, asked, policy)
             \/ \E j \in Jobs : PauseIsSaid(c, j)
      PROVE  \A d \in Readers' : d \in Readers /\ calls'[d] = calls[d]
  <2>1. \/ calls' = [calls EXCEPT ![c] = NoCall]
        \/ \E j \in Jobs : calls' = [calls EXCEPT ![c] = [at |-> "pausing", of |-> j]]
    BY <1>2 DEF PauseLands, BeginSaves, PauseIsSaid
  <2>2. calls'[c].at # "reading" /\ \A d \in Callers \ {c} : calls'[d] = calls[d]
    BY <1>0, <2>1
  <2> QED
    BY <2>2 DEF Readers
<1>3. ASSUME Crash PROVE Readers' = {}
  BY <1>0, <1>3 DEF Crash, Readers
<1>4. ASSUME \/ \E c \in Callers : \/ Resumes(c) \/ \E j \in Jobs : ResumesJob(c, j)
                                   \/ \E discard \in BOOLEAN : Cancels(c, discard)
             \/ \E j \in Jobs : JobStarts(j) \/ JobSettles(j)
             \/ \E r \in Runs : StreamDrops(r) \/ RunStep(r) \/ RunFails(r)
             \/ HandOverBegins \/ HandOverEnds
             \/ \E replaced \in SUBSET Files : SummaryIsAnswered(replaced)
             \/ CancelDiscards \/ CancelClears \/ \E f \in Files : PersonWrites(f)
             \/ UNCHANGED vars
      PROVE  calls' = calls
  BY <1>4 DEF Resumes, ResumesJob, Cancels, JobStarts, JobSettles, StreamDrops, RunStep, RunTakesTurn,
     RunFetches, BorgWrites, RunFetched, RunPlans, RunMoves, RunWritesDown, RunEndsStep, RunStops,
     RunFinishes, RunFails, HandOverBegins, HandOverEnds, SummaryIsAnswered, CancelDiscards,
     CancelClears, PersonWrites, vars, daemon
<1>5. calls' = calls => \A c \in Readers' : c \in Readers /\ calls'[c] = calls[c]
  BY DEF Readers
<1> QED
  BY <1>1, <1>2, <1>3, <1>4, <1>5 DEF Next, Call

LEMMA NumberedStep ==
  ASSUME TypeOK, InTurns, OneByOne, NoHalves, Planned, Numbered, [Next]_vars
  PROVE  Numbered'
<1>0. RecordOK /\ FilesOK /\ CallsOK /\ ReadsAlone /\ RunIsOfRecord /\ StagesAgree
  BY TypeParts DEF InTurns
<1>t. /\ manifest.no \in Nat /\ made \in Nat /\ disk \in [Files -> Int]
      /\ \A c \in Readers : calls[c].of \in Nat
  BY <1>0, JobsAre DEF RecordOK, Manifest, CallsOK, CallForm, FilesOK, Readers
<1>m. made' = made \/ made' = made + 1
  BY MadeStep
<1>d. \A f \in Files : \/ disk'[f] = disk[f] \/ disk'[f] <= 0
                       \/ There(manifest) /\ disk'[f] = manifest.no
  <2>1. ASSUME NEW r \in Runs, RunMoves(r)
        PROVE  \A f \in Files : disk'[f] = disk[f] \/ (There(manifest) /\ disk'[f] = manifest.no)
    BY <1>0, <1>t, <2>1, MovesWhole, AtWork
  <2>2. ASSUME CancelDiscards PROVE \A f \in Files : disk'[f] = disk[f] \/ disk'[f] <= 0
    BY <2>2 DEF CancelDiscards
  <2> QED
    BY <2>1, <2>2, DiskStep
<1>i. disk' \in [Files -> Int]
  BY FilesStep DEF FilesOK
<1>1. manifest'.no <= made'
  <2>1. \/ manifest'.no = manifest.no \/ manifest'.no = 0
        \/ \E c \in Readers : manifest'.no = calls[c].of
    BY NumberStep
  <2>2. \A c \in Readers : calls[c].of <= made
    BY DEF Numbered
  <2>3. manifest.no <= made
    BY DEF Numbered
  <2> QED
    BY <1>t, <1>m, <2>1, <2>2, <2>3
<1>2. \A f \in Files : disk'[f] <= made'
  <2>1. manifest.no <= made /\ \A f \in Files : disk[f] <= made
    BY DEF Numbered
  <2>2. ASSUME NEW f \in Files PROVE disk'[f] <= made'
    <3>1. disk[f] \in Int /\ disk[f] <= made /\ manifest.no <= made
      BY <1>t, <2>1
    <3>2. disk'[f] = disk[f] \/ disk'[f] <= 0 \/ disk'[f] = manifest.no
      BY <1>d
    <3>3. disk'[f] \in Int
      BY <1>i
    <3> QED
      BY <1>t, <1>m, <3>1, <3>2, <3>3
  <2> QED
    BY <2>2
<1>3. ASSUME NEW c \in Readers'
      PROVE  calls'[c].of # 0 /\ calls'[c].of <= made' /\ \A f \in Files : disk'[f] # calls'[c].of
  <2>1. CASE c \in Readers /\ calls'[c] = calls[c]
    <3>1. ~There(manifest)
      BY <1>0, <2>1 DEF ReadsAlone
    <3>2. calls[c].of # 0 /\ calls[c].of <= made /\ \A f \in Files : disk[f] # calls[c].of
      BY <2>1 DEF Numbered
    <3>3. calls[c].of \in Nat
      BY <1>t, <2>1
    <3>4. calls'[c].of <= made'
      BY <1>t, <1>m, <2>1, <3>2, <3>3
    <3>5. \A f \in Files : disk'[f] # calls[c].of
      BY <1>d, <3>1, <3>2, <3>3
    <3> QED
      BY <2>1, <3>2, <3>4, <3>5
  <2>2. CASE calls'[c].of = made + 1 /\ made' = made + 1 /\ disk' = disk
    <3>1. \A f \in Files : disk[f] <= made
      BY DEF Numbered
    <3>2. made + 1 # 0 /\ made + 1 <= made + 1 /\ \A f \in Files : disk[f] # made + 1
      BY <1>t, <3>1
    <3> QED
      BY <2>2, <3>2
  <2> QED
    BY <1>3, <2>1, <2>2, ReadersStep
<1> QED
  BY <1>1, <1>2, <1>3 DEF Numbered

LEMMA WrittenDownStep ==
  ASSUME TypeOK, InTurns, OneByOne, AtOnce, NoHalves, Planned, Numbered, WrittenDown, [Next]_vars
  PROVE  WrittenDown'
<1>0. RecordOK /\ FilesOK /\ WorkOK /\ RunIsOfRecord /\ HandsOverRecord /\ StagesAgree
  BY TypeParts DEF InTurns
<1>t. work \in Work /\ manifest.no \in Nat
  BY <1>0 DEF WorkOK, RecordOK, Manifest
<1>c. ASSUME ~There(manifest)' \/ manifest'.handed PROVE WrittenDown'
  BY <1>c DEF WrittenDown
<1>k. ASSUME manifest'.no = manifest.no, manifest'.handed = manifest.handed, added' = added,
             work.at # "moved" \/ UNCHANGED work,
             \A f \in Files : There(manifest) /\ disk'[f] = manifest.no => disk[f] = manifest.no
      PROVE  WrittenDown'
  BY <1>k DEF WrittenDown, There
<1>1. ASSUME NEW r \in Runs, RunFetches(r) \/ RunFetched(r) \/ RunEndsStep(r) PROVE WrittenDown'
  <2>1. manifest'.no = manifest.no /\ manifest'.handed = manifest.handed
    BY <1>0, <1>1, StepIsWritten
  <2>2. work.at # "moved" /\ UNCHANGED <<added, disk>>
    BY <1>1 DEF RunFetches, RunFetched, RunEndsStep, Placed, Works, durable
  <2> QED
    BY <1>k, <2>1, <2>2
<1>2. ASSUME NEW r \in Runs, RunTakesTurn(r) \/ RunStops(r) \/ RunFails(r) PROVE WrittenDown'
  <2>1. manifest'.no = manifest.no /\ manifest'.handed = manifest.handed /\ UNCHANGED <<disk, added>>
    BY <1>0, <1>2, RecordIsKept
  <2>2. turn = 0 \/ (turn = r /\ work.at \in {"steps", "fetching", "placing"})
    BY <1>2 DEF RunTakesTurn, RunStops, RunFails
  <2>3. work.at # "moved"
    BY <1>0, <2>2, NotAtWork, RecoveryAssumption DEF WorkOK
  <2> QED
    BY <1>k, <2>1, <2>3
<1>3. ASSUME NEW r \in Runs, RunFinishes(r) PROVE WrittenDown'
  <2>1. manifest'.no = manifest.no /\ manifest'.handed = manifest.handed /\ added' = added
    BY <1>0, <1>3, RecordIsFinished
  <2>2. work.at # "moved" /\ \A f \in Files : disk'[f] = disk[f] \/ disk'[f] = Answered
    BY <1>3 DEF RunFinishes, Works
  <2>3. \A f \in Files : disk'[f] = manifest.no => disk[f] = manifest.no
    BY <1>t, <2>2
  <2> QED
    BY <1>k, <2>1, <2>2, <2>3
<1>4. ASSUME NEW r \in Runs, RunMoves(r) PROVE WrittenDown'
  <2> DEFINE f == First(work.adds)
  <2>1. /\ f \in Files /\ UNCHANGED <<manifest, added>> /\ work.at = "placing"
        /\ \/ disk' = [disk EXCEPT ![f] = manifest.no] /\ work'.at = "moved" /\ work'.moved = f
           \/ UNCHANGED disk
    BY <1>4, MovesWhole
  <2> HIDE DEF f
  <2>2. \A g \in Files : disk'[g] = disk[g] \/ (work'.at = "moved" /\ work'.moved = g)
    BY <1>0, <2>1 DEF FilesOK
  <2> QED
    BY <2>1, <2>2 DEF WrittenDown, There
<1>5. ASSUME NEW r \in Runs, RunWritesDown(r) PROVE WrittenDown'
  <2>1. UNCHANGED <<manifest, disk>> /\ work.at = "moved" /\ added' = added \cup {work.moved}
    BY <1>5 DEF RunWritesDown, With, Works
  <2> QED
    BY <2>1 DEF WrittenDown, There
<1>6. ASSUME HandOverEnds PROVE WrittenDown'
  <2> DEFINE m == [handing.m EXCEPT !.handed = TRUE]
  <2>1. m.handed
    BY <1>0, <1>6 DEF HandOverEnds, HandsOverRecord, RecordOK, Manifest
  <2>2. manifest' = None \/ manifest' = m
    BY <1>6 DEF HandOverEnds, Clears
  <2>3. None.no = 0
    BY DEF None
  <2> HIDE DEF m
  <2> QED
    BY <1>c, <2>1, <2>2, <2>3 DEF There
<1>7. ASSUME CancelClears \/ \E replaced \in SUBSET Files : SummaryIsAnswered(replaced)
      PROVE  WrittenDown'
  <2>1. manifest' = None
    BY <1>7 DEF CancelClears, SummaryIsAnswered, Clears
  <2> QED
    BY <1>c, <2>1 DEF None, There
<1>8. ASSUME NEW c \in Callers, NEW asked \in (SUBSET Steps) \ {{}}, NEW policy \in Policies,
             BeginSaves(c, asked, policy)
      PROVE  WrittenDown'
  <2>1. c \in Readers /\ manifest'.no = calls[c].of /\ UNCHANGED disk
    BY <1>8 DEF BeginSaves, None, Readers
  <2>2. \A f \in Files : disk'[f] # manifest'.no
    BY <2>1 DEF Numbered
  <2> QED
    BY <2>2 DEF WrittenDown
<1>9. ASSUME CancelDiscards PROVE WrittenDown'
  <2>1. /\ UNCHANGED <<manifest, added, work>>
        /\ \A f \in Files : disk'[f] = disk[f] \/ disk'[f] = Missing
    BY <1>9 DEF CancelDiscards
  <2>2. \A f \in Files : There(manifest) /\ disk'[f] = manifest.no => disk[f] = manifest.no
    BY <2>1 DEF There
  <2> QED
    BY <1>k, <2>1, <2>2
<1>10. ASSUME NEW g \in Files, PersonWrites(g) PROVE WrittenDown'
  <2>1. UNCHANGED <<manifest, added, work>> /\ disk' = [disk EXCEPT ![g] = Theirs]
    BY <1>10 DEF PersonWrites, daemon
  <2>2. \A f \in Files : disk'[f] = disk[f] \/ disk'[f] = Theirs
    BY <1>0, <2>1 DEF FilesOK
  <2>3. \A f \in Files : disk'[f] = manifest.no => disk[f] = manifest.no
    BY <1>t, <2>2
  <2> QED
    BY <1>k, <2>1, <2>3
<1>11. ASSUME Crash PROVE WrittenDown'
  <2>1. UNCHANGED <<manifest, disk, added>> /\ work.at # "moved"
    BY <1>11 DEF Crash, durable, AtOnce
  <2> QED
    BY <1>k, <2>1
<1>12. ASSUME NEW r \in Runs, BorgWrites(r) \/ RunPlans(r) PROVE WrittenDown'
  <2>1. UNCHANGED <<manifest, disk, added>> /\ work.at # "moved"
    BY <1>12 DEF BorgWrites, RunPlans, Works, durable
  <2> QED
    BY <1>k, <2>1
<1>13. ASSUME \/ \E j \in Jobs : JobStarts(j) \/ JobSettles(j)
              \/ \E r \in Runs : StreamDrops(r)
              \/ HandOverBegins
              \/ \E c \in Callers : \/ BeginChecks(c) \/ Resumes(c) \/ PauseLands(c)
                                    \/ \E j \in Jobs : ResumesJob(c, j) \/ PauseIsSaid(c, j)
                                    \/ \E discard \in BOOLEAN : Cancels(c, discard)
              \/ UNCHANGED vars
       PROVE  WrittenDown'
  <2>1. UNCHANGED <<manifest, disk, added, work>>
    BY <1>13 DEF JobStarts, JobSettles, StreamDrops, HandOverBegins, BeginChecks, Resumes, PauseLands,
         ResumesJob, PauseIsSaid, Cancels, vars, durable, daemon
  <2> QED
    BY <1>k, <2>1
<1> QED
  BY <1>1, <1>2, <1>3, <1>4, <1>5, <1>6, <1>7, <1>8, <1>9, <1>10, <1>11, <1>12, <1>13
     DEF Next, RunStep, Call

InvBack == InvTurns /\ BackOrAdded

LEMMA InvBackHolds ==
  ASSUME OneByOne, AtOnce
  PROVE  Spec => []InvBack
<1>1. Init => BackOrAdded
  BY BackOrAddedInit
<1>2. ASSUME InvTurns, BackOrAdded, [Next]_vars PROVE BackOrAdded'
  <2>1. TypeOK /\ InTurns /\ DoneIsDone /\ Fetched /\ Planned /\ NoHalves /\ PlacedIsThere
        /\ EveryStepIsBack /\ Numbered /\ WrittenDown
    BY <1>2 DEF InvTurns, TypeInv, BackOrAdded
  <2>2. DoneIsDone' /\ Fetched' /\ Planned'
    BY <1>2, <2>1, DoneIsDoneStep, FetchedStep, PlannedStep
  <2>3. NoHalves' /\ PlacedIsThere' /\ EveryStepIsBack'
    BY <1>2, <2>1, StaysThere, PlacedIsThereStep, EveryStepIsBackStep
  <2>4. Numbered' /\ WrittenDown'
    BY <1>2, <2>1, NumberedStep, WrittenDownStep
  <2> QED
    BY <2>2, <2>3, <2>4 DEF BackOrAdded
<1>3. Spec => []InvTurns
  BY InvTurnsHolds
<1>4. InvTurns /\ BackOrAdded /\ [Next]_vars => BackOrAdded'
  BY <1>2
<1> QED
  BY <1>1, <1>3, <1>4, PTL DEF Spec, InvBack

(* Every file of a step that is done is back, or something of theirs is   *)
(* there, or its failure is on record: through every pause, failure and   *)
(* restart, but a crash between a move and its record (recovery.rs,       *)
(* run_step).                                                              *)
THEOREM StepsAreBack ==
  ASSUME "side by side" \notin Circumstances, "in between" \notin Circumstances
  PROVE  Spec => []EveryStepIsBack
<1>1. Spec => []InvBack
  BY InvBackHolds DEF OneByOne, AtOnce
<1>2. InvBack => EveryStepIsBack
  BY DEF InvBack, BackOrAdded
<1> QED
  BY <1>1, <1>2, PTL

LEMMA TakesAway ==
  ASSUME TypeOK, InTurns, WrittenDown, [Next]_vars,
         cancel'.done, ~cancel.done, cancel.discard, ~manifest.handed, NEW f \in Files
  PROVE  disk'[f] # cancel.no
<1>0. WorkOK /\ CallsOK /\ RecordOK /\ FilesOK /\ CancelsRecord /\ RunIsOfRecord
  BY TypeParts DEF InTurns
<1>1. CancelDiscards
  <2>1. ASSUME NEW c \in Callers, NEW discard \in BOOLEAN, Cancels(c, discard) PROVE ~cancel'.done
    <3>1. cancel' = [on |-> TRUE, discard |-> discard, done |-> FALSE, no |-> manifest.no]
      BY <2>1 DEF Cancels
    <3> QED
      BY <3>1
  <2>2. ASSUME CancelClears \/ Crash PROVE ~cancel'.done
    <3>1. cancel' = NoCancel
      BY <2>2 DEF CancelClears, Crash
    <3> QED
      BY <3>1 DEF NoCancel
  <2>3. ASSUME \/ \E j \in Jobs : JobStarts(j) \/ JobSettles(j)
               \/ \E r \in Runs : StreamDrops(r) \/ RunStep(r) \/ RunFails(r)
               \/ HandOverBegins \/ HandOverEnds
               \/ \E replaced \in SUBSET Files : SummaryIsAnswered(replaced)
               \/ \E c \in Callers : \/ BeginChecks(c) \/ Resumes(c) \/ PauseLands(c)
                                     \/ \E asked \in (SUBSET Steps) \ {{}}, policy \in Policies :
                                          BeginSaves(c, asked, policy)
                                     \/ \E j \in Jobs : ResumesJob(c, j) \/ PauseIsSaid(c, j)
               \/ \E g \in Files : PersonWrites(g)
               \/ UNCHANGED vars
        PROVE  cancel' = cancel
    BY <2>3 DEF JobStarts, JobSettles, StreamDrops, RunStep, RunTakesTurn, RunFetches, BorgWrites,
       RunFetched, RunPlans, RunMoves, RunWritesDown, RunEndsStep, RunStops, RunFinishes, RunFails,
       HandOverBegins, HandOverEnds, SummaryIsAnswered, BeginChecks, Resumes, PauseLands, BeginSaves,
       ResumesJob, PauseIsSaid, PersonWrites, vars, daemon
  <2> QED
    BY <2>1, <2>2, <2>3 DEF Next, Call
<1>2. turn = 0 /\ cancel.on
      /\ disk' = [g \in Files |-> IF g \in added /\ AsItArrived(g) THEN Missing ELSE disk[g]]
  BY <1>1 DEF CancelDiscards
<1>3. There(manifest) /\ cancel.no = manifest.no /\ manifest.no \in Nat /\ manifest.no > 0
  BY <1>0, <1>2 DEF CancelsRecord, RecordOK, Manifest, There
<1>4. work.at = "idle"
  BY <1>0, <1>2, NotAtWork, RecoveryAssumption
<1>5. disk[f] = manifest.no => f \in added
  BY <1>3, <1>4 DEF WrittenDown
<1>6. CASE f \in added /\ AsItArrived(f)
  BY <1>2, <1>3, <1>6
<1>7. CASE ~(f \in added /\ AsItArrived(f))
  <2>1. disk'[f] = disk[f]
    BY <1>2, <1>7
  <2>2. disk[f] # manifest.no
    BY <1>3, <1>5, <1>7 DEF AsItArrived
  <2> QED
    BY <1>3, <2>1, <2>2
<1> QED
  BY <1>6, <1>7

(* A recovery is forgotten only when it is over, and once Discard has run  *)
(* nothing of what it added is left that nobody changed: where calls do    *)
(* not overlap and no crash comes between a move and its record            *)
(* (cancel_recovery, discard, after_recovery).                             *)
THEOREM CancelledAsAsked ==
  ASSUME "side by side" \notin Circumstances, "in between" \notin Circumstances
  PROVE  Spec => OverAsAsked
<1>1. Spec => []InvBack
  BY InvBackHolds DEF OneByOne, AtOnce
<1>2. ASSUME InvBack, [Next]_vars
      PROVE  [cancel'.done /\ ~cancel.done /\ cancel.discard /\ ~manifest.handed =>
                \A f \in Files : disk'[f] # cancel.no]_vars
  BY <1>2, TakesAway DEF InvBack, InvTurns, TypeInv, BackOrAdded
<1>3. Spec => DiscardTakesAway
  BY <1>1, <1>2, PTL DEF Spec, DiscardTakesAway
<1>4. Spec => ForgottenWhenOver
  BY ForgottenOnlyWhenOver
<1> QED
  BY <1>3, <1>4, PTL DEF OverAsAsked

-----------------------------------------------------------------------------
(* What a pause comes to: where calls do not overlap, and it lands after  *)
(* the run it is for has had its turn and before its last look.           *)

AddsArePlaced == work.adds # {} => Placing
JobsAndRuns ==
  \A j \in Jobs : jobs[j].state = "running" => jobs[j].run \in Runs /\ runs[jobs[j].run].job = j
HeardWait == \A r \in Runs : Waiting(r) => Heard(r)

LEMMA AddsArePlacedStep ==
  ASSUME TypeOK, AddsArePlaced, [Next]_vars
  PROVE  AddsArePlaced'
<1>0. WorkOK
  BY TypeParts
<1> USE DEF AddsArePlaced, Placing
<1>1. ASSUME NEW r \in Runs,
             \/ RunTakesTurn(r) \/ RunEndsStep(r) \/ RunStops(r) \/ RunFinishes(r) \/ RunFails(r)
      PROVE  work'.adds = {}
  <2>1. RunIsOver(r, "completed") \/ RunIsOver(r, "cancelled") \/ RunIsOver(r, "failed")
          => work'.adds = {}
    BY DEF RunIsOver, Idle
  <2>2. RunTakesTurn(r) \/ RunEndsStep(r) => work'.adds = {}
    BY <2>1 DEF RunTakesTurn, RunEndsStep, Idle
  <2> QED
    BY <1>1, <2>1, <2>2 DEF RunStops, RunFinishes, RunFails
<1>2. ASSUME NEW r \in Runs, RunFetches(r) \/ BorgWrites(r) \/ RunFetched(r) PROVE AddsArePlaced'
  <2>1. work.adds = {}
    BY <1>2 DEF RunFetches, BorgWrites, RunFetched, Works
  <2>2. work'.adds = work.adds
    BY <1>0, <1>2 DEF RunFetches, BorgWrites, RunFetched, Saves, WorkOK, Work
  <2> QED
    BY <2>1, <2>2
<1>3. ASSUME NEW r \in Runs, RunPlans(r) \/ RunMoves(r) \/ RunWritesDown(r) PROVE AddsArePlaced'
  <2>1. work'.at \in {"placing", "moved"}
    BY <1>0, <1>3 DEF RunPlans, RunMoves, RunWritesDown, Works, WorkOK, Work
  <2> QED
    BY <2>1
<1>4. ASSUME Crash PROVE AddsArePlaced'
  BY <1>4 DEF Crash, Idle
<1>5. ASSUME \/ \E j \in Jobs : JobStarts(j) \/ JobSettles(j)
             \/ \E r \in Runs : StreamDrops(r)
             \/ HandOverBegins \/ HandOverEnds
             \/ \E replaced \in SUBSET Files : SummaryIsAnswered(replaced)
             \/ \E c \in Callers : Call(c)
             \/ CancelDiscards \/ CancelClears \/ \E f \in Files : PersonWrites(f)
             \/ UNCHANGED vars
      PROVE  work' = work
  BY <1>5 DEF JobStarts, JobSettles, StreamDrops, HandOverBegins, HandOverEnds, SummaryIsAnswered,
     Call, BeginChecks, Resumes, PauseLands, BeginSaves, ResumesJob, PauseIsSaid, Cancels,
     CancelDiscards, CancelClears, PersonWrites, vars, daemon
<1> QED
  BY <1>1, <1>2, <1>3, <1>4, <1>5 DEF Next, RunStep

LEMMA Starts ==
  ASSUME TypeOK, NEW j \in Jobs, JobStarts(j)
  PROVE  \E r \in Runs :
           /\ runs[r].job = 0 /\ jobs[j].state = "queued"
           /\ jobs'[j] = [state |-> "running", run |-> r] /\ \A k \in Jobs \ {j} : jobs'[k] = jobs[k]
           /\ runs'[r] = [job |-> j, stop |-> FALSE] /\ \A q \in Runs \ {r} : runs'[q] = runs[q]
<1>0. JobsOK /\ RunsOK
  BY TypeParts
<1> DEFINE free == {r \in Runs : runs[r].job = 0}
           r == Min(free)
<1>1. /\ jobs[j].state = "queued" /\ free # {}
      /\ jobs' = [jobs EXCEPT ![j] = [state |-> "running", run |-> r]]
      /\ runs' = [runs EXCEPT ![r] = [job |-> j, stop |-> FALSE]]
  BY DEF JobStarts
<1>2. r \in free
  <2>1. free \in SUBSET Nat
    BY RecoveryAssumption
  <2> HIDE DEF free
  <2> QED
    BY <1>1, <2>1, LeastOfSome
<1>3. r \in Runs /\ runs[r].job = 0
  BY <1>2
<1> HIDE DEF r
<1> QED
  BY <1>0, <1>1, <1>3 DEF JobsOK, RunsOK

LEMMA Over ==
  ASSUME TypeOK, NEW r \in Runs, runs[r].job # 0,
         NEW outcome \in {"completed", "cancelled", "failed"}, RunIsOver(r, outcome)
  PROVE  /\ turn' = 0 /\ runs'[r] = NoRun /\ \A q \in Runs \ {r} : runs'[q] = runs[q]
         /\ \A j \in Jobs : IF Heard(r) /\ j = runs[r].job THEN jobs'[j].state = outcome
                            ELSE jobs'[j] = jobs[j]
<1>0. JobsOK /\ RunsOK
  BY TypeParts
<1>1. runs[r].job \in Jobs
  BY <1>0 DEF RunsOK, RunForm
<1>2. turn' = 0 /\ runs' = [runs EXCEPT ![r] = NoRun]
  BY DEF RunIsOver
<1>3. jobs' = IF Heard(r) THEN [jobs EXCEPT ![runs[r].job].state = outcome] ELSE jobs
  BY DEF RunIsOver
<1>4. \A j \in Jobs : IF Heard(r) /\ j = runs[r].job THEN jobs'[j].state = outcome
                      ELSE jobs'[j] = jobs[j]
  BY <1>0, <1>1, <1>3 DEF JobsOK, JobForm
<1> QED
  BY <1>0, <1>2, <1>4 DEF RunsOK

(* A job that is submitted, settles or is taken up again was not running.  *)
LEMMA NotRunning ==
  ASSUME TypeInv, \/ \E j \in Jobs : JobSettles(j)
                  \/ \E c \in Callers : \/ Resumes(c) \/ \E j \in Jobs : ResumesJob(c, j)
                                        \/ \E asked \in (SUBSET Steps) \ {{}}, policy \in Policies :
                                             BeginSaves(c, asked, policy)
  PROVE  /\ UNCHANGED <<runs, turn>>
         /\ \A j \in Jobs : \/ jobs'[j] = jobs[j]
                            \/ jobs[j].state # "running" /\ jobs'[j].state # "running"
<1>0. TypeOK /\ Counted /\ JobsOK /\ CallsOK
  BY TypeParts DEF TypeInv
<1>1. UNCHANGED <<runs, turn>>
  BY DEF JobSettles, Resumes, ResumesJob, BeginSaves
<1>2. ASSUME NEW k \in Jobs, jobs[k].state # "running", NEW state \in {"queued", "cancelled"},
             jobs' = [jobs EXCEPT ![k].state = state]
      PROVE  \A j \in Jobs : \/ jobs'[j] = jobs[j]
                             \/ jobs[j].state # "running" /\ jobs'[j].state # "running"
  BY <1>0, <1>2 DEF JobsOK, JobForm
<1>3. ASSUME NEW j \in Jobs, JobSettles(j)
      PROVE  jobs[j].state # "running" /\ jobs' = [jobs EXCEPT ![j].state = "cancelled"]
  BY <1>3 DEF JobSettles
<1>4. ASSUME NEW c \in Callers, NEW j \in Jobs, ResumesJob(c, j)
      PROVE  jobs[j].state # "running" /\ jobs' = [jobs EXCEPT ![j].state = "queued"]
  BY <1>4 DEF ResumesJob
<1>5. ASSUME NEW c \in Callers, NEW asked \in (SUBSET Steps) \ {{}}, NEW policy \in Policies,
             BeginSaves(c, asked, policy)
      PROVE  /\ NextJob \in Jobs /\ jobs[NextJob].state # "running"
             /\ jobs' = [jobs EXCEPT ![NextJob].state = "queued"]
  <2>1. Readers # {}
    BY <1>5 DEF BeginSaves, Readers
  <2> QED
    BY <1>0, <1>5, <2>1, NextIsLeft DEF BeginSaves, Submits
<1>6. ASSUME NEW c \in Callers, Resumes(c)
      PROVE  \/ jobs' = jobs
             \/ \E k \in Jobs : jobs[k].state # "running" /\ jobs' = [jobs EXCEPT ![k].state = "queued"]
  <2>1. made < Calls
    BY <1>6 DEF Resumes, Called
  <2>2. NextJob \in Jobs /\ jobs[NextJob].state # "running"
    BY <1>0, <2>1, NextIsLeft
  <2>3. CASE job # 0 /\ jobs[job].state = "paused" /\ jobs' = [jobs EXCEPT ![job].state = "queued"]
    BY <1>0, <2>3 DEF JobsOK
  <2>4. CASE jobs' = [jobs EXCEPT ![NextJob].state = "queued"]
    BY <2>2, <2>4
  <2>5. CASE UNCHANGED jobs
    BY <2>5
  <2> QED
    BY <1>6, <2>3, <2>4, <2>5 DEF Resumes, Submits, Ended
<1> QED
  BY <1>1, <1>2, <1>3, <1>4, <1>5, <1>6

InHand == JobsAndRuns /\ HeardWait
LandsInTurn == "quick" \notin Circumstances /\ "late" \notin Circumstances

LEMMA InHandStep ==
  ASSUME TypeInv, InTurns, LandsInTurn, InHand, [Next]_vars
  PROVE  InHand'
<1>0. TypeOK /\ JobsOK /\ RunsOK /\ CallsOK
  BY TypeParts DEF TypeInv
<1>i. JobsAndRuns /\ HeardWait /\ RunIsOfRecord
  BY DEF InHand, InTurns
<1>r. \A r \in Runs : r # 0 /\ r # TheCancel
  BY RecoveryAssumption
<1>j. \A r \in Runs : runs[r].job # 0 => runs[r].job \in Jobs
  BY <1>0 DEF RunsOK, RunForm
<1>h. \A r \in Runs : Heard(r) => jobs[runs[r].job].state = "running" /\ jobs[runs[r].job].run = r
  BY DEF Heard
\* The jobs that run, the runs' jobs and whose turn it is stay as they are.
<1>k. ASSUME \A r \in Runs : runs'[r].job = runs[r].job,
             \A j \in Jobs : \/ jobs'[j] = jobs[j]
                             \/ jobs[j].state # "running" /\ jobs'[j].state # "running",
             turn' = turn \/ (turn \notin Runs /\ turn' \notin Runs)
      PROVE  InHand'
  <2>1. JobsAndRuns'
    BY <1>i, <1>k DEF JobsAndRuns
  <2>2. ASSUME NEW r \in Runs, runs'[r].job # 0, turn' # r PROVE Heard(r)'
    <3>1. Waiting(r)
      BY <1>k, <2>2 DEF Waiting
    <3>2. Heard(r) /\ runs[r].job \in Jobs
      BY <1>i, <1>j, <3>1 DEF HeardWait, Waiting
    <3> QED
      BY <1>h, <1>k, <3>2 DEF Heard
  <2> QED
    BY <2>1, <2>2 DEF InHand, HeardWait, Waiting
<1>1. ASSUME NEW j \in Jobs, JobStarts(j) PROVE InHand'
  <2>1. PICK r \in Runs :
          /\ runs[r].job = 0 /\ jobs[j].state = "queued"
          /\ jobs'[j] = [state |-> "running", run |-> r] /\ \A k \in Jobs \ {j} : jobs'[k] = jobs[k]
          /\ runs'[r] = [job |-> j, stop |-> FALSE] /\ \A q \in Runs \ {r} : runs'[q] = runs[q]
    BY <1>0, <1>1, Starts
  <2>2. turn' = turn
    BY <1>1 DEF JobStarts
  <2>3. JobsAndRuns'
    <3> SUFFICES ASSUME NEW k \in Jobs, jobs'[k].state = "running"
                 PROVE  jobs'[k].run \in Runs /\ runs'[jobs'[k].run].job = k
      BY DEF JobsAndRuns
    <3>1. CASE k = j
      BY <2>1, <3>1
    <3>2. CASE k # j
      <4>1. jobs'[k] = jobs[k] /\ jobs[k].run \in Runs /\ runs[jobs[k].run].job = k
        BY <1>i, <2>1, <3>2 DEF JobsAndRuns
      <4>2. jobs[k].run # r
        BY <2>1, <4>1, JobsAre
      <4> QED
        BY ZenonT(60), <2>1, <4>1, <4>2
    <3> QED
      BY <3>1, <3>2
  <2>4. ASSUME NEW q \in Runs, runs'[q].job # 0, turn' # q PROVE Heard(q)'
    <3>1. CASE q = r
      BY <2>1, <3>1 DEF Heard
    <3>2. CASE q # r
      <4>1. Heard(q) /\ runs[q].job \in Jobs /\ runs'[q] = runs[q]
        BY <1>i, <1>j, <2>1, <2>2, <2>4, <3>2 DEF HeardWait, Waiting
      <4>2. runs[q].job # j
        BY <1>h, <2>1, <4>1
      <4> QED
        BY <2>1, <4>1, <4>2 DEF Heard
    <3> QED
      BY <3>1, <3>2
  <2> QED
    BY <2>3, <2>4 DEF InHand, HeardWait, Waiting
<1>2. ASSUME NEW r \in Runs, runs[r].job # 0, turn = r \/ turn = 0,
             NEW outcome \in {"completed", "cancelled", "failed"}, RunIsOver(r, outcome)
      PROVE  InHand'
  <2>1. /\ turn' = 0 /\ runs'[r].job = 0 /\ \A q \in Runs \ {r} : runs'[q] = runs[q]
        /\ \A j \in Jobs : IF Heard(r) /\ j = runs[r].job THEN jobs'[j].state = outcome
                           ELSE jobs'[j] = jobs[j]
    BY <1>0, <1>2, Over DEF NoRun
  <2>2. JobsAndRuns'
    <3> SUFFICES ASSUME NEW j \in Jobs, jobs'[j].state = "running"
                 PROVE  jobs'[j].run \in Runs /\ runs'[jobs'[j].run].job = j
      BY DEF JobsAndRuns
    <3>1. jobs'[j] = jobs[j] /\ ~(Heard(r) /\ j = runs[r].job)
      BY <2>1
    <3>2. jobs[j].run \in Runs /\ runs[jobs[j].run].job = j
      BY <1>i, <3>1 DEF JobsAndRuns
    <3>3. jobs[j].run # r
      <4>1. jobs[j] = [state |-> jobs[j].state, run |-> jobs[j].run]
        BY <1>0 DEF JobsOK, JobForm
      <4> QED
        BY <3>1, <3>2, <4>1 DEF Heard
    <3> QED
      BY <2>1, <3>1, <3>2, <3>3
  <2>3. ASSUME NEW q \in Runs, runs'[q].job # 0 PROVE Heard(q)'
    <3>1. q # r /\ runs'[q] = runs[q]
      BY <2>1, <2>3
    <3>2. turn # q
      BY <1>2, <1>r, <3>1
    <3>3. Heard(q) /\ runs[q].job \in Jobs
      BY <1>i, <1>j, <2>3, <3>1, <3>2 DEF HeardWait, Waiting
    <3>4. ~(Heard(r) /\ runs[q].job = runs[r].job)
      BY <1>h, <3>1, <3>3
    <3> QED
      BY <2>1, <3>1, <3>3, <3>4 DEF Heard
  <2> QED
    BY <2>2, <2>3 DEF InHand, HeardWait, Waiting
<1>3. ASSUME NEW r \in Runs, RunStops(r) \/ RunFinishes(r) \/ RunFails(r) PROVE InHand'
  <2>1. turn = r /\ runs[r].job # 0
    BY <1>i, <1>3 DEF RunStops, RunFinishes, RunFails, Works, RunIsOfRecord
  <2>2. PICK outcome \in {"completed", "cancelled", "failed"} : RunIsOver(r, outcome)
    BY <1>3 DEF RunStops, RunFinishes, RunFails
  <2> QED
    BY <1>2, <2>1, <2>2
<1>4. ASSUME NEW r \in Runs, RunTakesTurn(r) PROVE InHand'
  <2>1. runs[r].job # 0 /\ turn = 0
    BY <1>4 DEF RunTakesTurn
  <2>2. CASE turn' = r /\ UNCHANGED <<jobs, runs>>
    BY <1>i, <1>r, <2>1, <2>2 DEF InHand, JobsAndRuns, HeardWait, Waiting, Heard
  <2> QED
    BY <1>2, <1>4, <2>1, <2>2 DEF RunTakesTurn
<1>5. ASSUME NEW r \in Runs, StreamDrops(r) PROVE InHand'
  <2>1. UNCHANGED <<jobs, turn>> /\ \A q \in Runs : runs'[q].job = runs[q].job
    BY <1>0, <1>5 DEF StreamDrops, RunsOK, RunForm
  <2> QED
    BY <1>k, <2>1
<1>6. ASSUME \/ \E j \in Jobs : JobSettles(j)
             \/ \E c \in Callers : \/ Resumes(c) \/ \E j \in Jobs : ResumesJob(c, j)
                                   \/ \E asked \in (SUBSET Steps) \ {{}}, policy \in Policies :
                                        BeginSaves(c, asked, policy)
      PROVE  InHand'
  BY <1>k, <1>6, NotRunning
<1>7. ASSUME NEW c \in Callers, PauseLands(c) PROVE InHand'
  <2> DEFINE j == calls[c].of
  <2>1. CASE UNCHANGED <<jobs, runs, turn>>
    BY <1>k, <2>1
  <2>2. CASE jobs[j].state = "running"
    <3>1. /\ jobs' = [jobs EXCEPT ![j].state = "paused"] /\ turn' = turn /\ turn = jobs[j].run
          /\ runs' = [runs EXCEPT ![jobs[j].run].stop = TRUE]
      BY <1>7, <2>2 DEF PauseLands, InTime, LandsInTurn
    <3>2. \A k \in Jobs : jobs'[k] = jobs[k] \/ (k = j /\ jobs'[k].state = "paused")
      BY <1>0, <3>1 DEF JobsOK, JobForm
    <3>3. \A q \in Runs : runs'[q].job = runs[q].job
      BY <1>0, <3>1 DEF RunsOK, RunForm
    <3>4. JobsAndRuns'
      BY ZenonT(60), <1>i, <3>2, <3>3 DEF JobsAndRuns
    <3>5. ASSUME NEW q \in Runs, runs'[q].job # 0, turn' # q PROVE Heard(q)'
      <4>1. Heard(q) /\ runs[q].job \in Jobs
        BY <1>i, <1>j, <3>1, <3>3, <3>5 DEF HeardWait, Waiting
      <4>2. runs[q].job # j
        BY <1>h, <3>1, <3>5, <4>1
      <4> QED
        BY <3>2, <3>3, <4>1, <4>2 DEF Heard
    <3> QED
      BY <3>4, <3>5 DEF InHand, HeardWait, Waiting
  <2> QED
    BY <1>7, <2>1, <2>2 DEF PauseLands
<1>8. ASSUME NEW c \in Callers, NEW discard \in BOOLEAN, Cancels(c, discard) PROVE InHand'
  <2>1. UNCHANGED <<runs, turn>> /\ \A r \in Runs : ~Waiting(r)
    BY <1>8 DEF Cancels, LandsInTurn
  <2>2. \A j \in Jobs : jobs'[j] = jobs[j] \/ jobs'[j].state # "running"
    BY <1>0, <1>8 DEF Cancels, JobsOK, JobForm
  <2> QED
    BY <1>i, <2>1, <2>2 DEF InHand, JobsAndRuns, HeardWait, Waiting
<1>9. ASSUME Crash PROVE InHand'
  <2>1. \A r \in Runs : runs'[r].job = 0
    BY <1>9 DEF Crash, NoRun
  <2>2. \A j \in Jobs : jobs'[j].state # "running"
    BY <1>9 DEF Crash
  <2> QED
    BY <2>1, <2>2 DEF InHand, JobsAndRuns, HeardWait, Waiting
<1>10. ASSUME CancelDiscards \/ CancelClears PROVE InHand'
  <2>1. UNCHANGED <<jobs, runs>> /\ turn \notin Runs /\ turn' \notin Runs
    BY <1>r, <1>10 DEF CancelDiscards, CancelClears
  <2> QED
    BY <1>k, <2>1
<1>11. ASSUME \/ \E r \in Runs : \/ RunFetches(r) \/ BorgWrites(r) \/ RunFetched(r) \/ RunPlans(r)
                                 \/ RunMoves(r) \/ RunWritesDown(r) \/ RunEndsStep(r)
              \/ HandOverBegins \/ HandOverEnds
              \/ \E replaced \in SUBSET Files : SummaryIsAnswered(replaced)
              \/ \E c \in Callers : BeginChecks(c) \/ \E j \in Jobs : PauseIsSaid(c, j)
              \/ \E f \in Files : PersonWrites(f)
              \/ UNCHANGED vars
       PROVE  InHand'
  <2>1. UNCHANGED <<jobs, runs, turn>>
    BY <1>11 DEF RunFetches, BorgWrites, RunFetched, RunPlans, RunMoves, RunWritesDown, RunEndsStep,
         HandOverBegins, HandOverEnds, SummaryIsAnswered, BeginChecks, PauseIsSaid, PersonWrites,
         vars, daemon
  <2> QED
    BY <1>k, <2>1
<1> QED
  BY <1>1, <1>3, <1>4, <1>5, <1>6, <1>7, <1>8, <1>9, <1>10, <1>11 DEF Next, RunStep, Call

(* A pause that was said is for a job that waits for no turn, and if the  *)
(* job runs, the run it waits for has the lock and will find `pausing'.   *)
PauseIsFor ==
  \A c \in Callers : calls[c].at = "pausing" =>
    /\ calls[c].of \in Jobs /\ jobs[calls[c].of].state # "queued"
    /\ jobs[calls[c].of].state = "running" => pausing /\ turn = jobs[calls[c].of].run

LEMMA PauseIsForStep ==
  ASSUME TypeInv, OneByOne, InTurns, LandsInTurn, InHand, PauseIsFor, [Next]_vars
  PROVE  PauseIsFor'
<1>0. TypeOK /\ JobsOK /\ RunsOK /\ CallsOK
  BY TypeParts DEF TypeInv
<1>i. JobsAndRuns /\ RunIsOfRecord /\ OneCall /\ OneJob
  BY DEF InHand, InTurns
<1>r. \A r \in Runs : r # 0 /\ r # TheCancel
  BY RecoveryAssumption
<1>n. NoCall.at = "idle"
  BY DEF NoCall
\* Nobody says a pause.
<1>q. ASSUME \A c \in Callers : calls'[c].at # "pausing" PROVE PauseIsFor'
  BY <1>q DEF PauseIsFor
\* A pause is for a job that does not run, or does not any more.
<1>o. ASSUME calls' = calls,
             \A j \in Jobs : \/ jobs'[j] = jobs[j] /\ jobs[j].state # "running"
                             \/ jobs'[j].state \notin {"queued", "running"}
                             \/ \A c \in Callers : calls[c].at = "pausing" => calls[c].of # j
      PROVE  PauseIsFor'
  BY <1>o DEF PauseIsFor
\* Nothing it depends on changes, but for a job that is over.
<1>k. ASSUME calls' = calls, turn' = turn, pausing' = pausing,
             \A j \in Jobs : jobs'[j] = jobs[j] \/ jobs'[j].state \notin {"queued", "running"}
      PROVE  PauseIsFor'
  BY <1>k DEF PauseIsFor
<1>1. ASSUME NEW j \in Jobs, JobStarts(j) PROVE PauseIsFor'
  <2>1. jobs[j].state = "queued" /\ \A k \in Jobs \ {j} : jobs'[k] = jobs[k]
    BY <1>0, <1>1, Starts
  <2>2. UNCHANGED <<calls, turn, pausing>>
    BY <1>1 DEF JobStarts
  <2> QED
    BY <2>1, <2>2 DEF PauseIsFor
<1>2. ASSUME NEW r \in Runs, RunTakesTurn(r) PROVE PauseIsFor'
  <2>1. turn = 0 /\ runs[r].job # 0 /\ calls' = calls
    BY <1>2 DEF RunTakesTurn
  <2>2. \A c \in Callers : calls[c].at = "pausing" => jobs[calls[c].of].state # "running"
    BY <1>i, <1>r, <2>1 DEF PauseIsFor, JobsAndRuns
  <2>3. RunIsOver(r, "completed") =>
          \A j \in Jobs : jobs'[j] = jobs[j] \/ jobs'[j].state = "completed"
    BY <1>0, <2>1, Over
  <2>4. \A j \in Jobs : jobs'[j] = jobs[j] \/ jobs'[j].state = "completed"
    BY <1>2, <2>3 DEF RunTakesTurn
  <2> QED
    BY <1>o, <2>1, <2>2, <2>4
<1>3. ASSUME NEW r \in Runs, RunStops(r) \/ RunFinishes(r) \/ RunFails(r) PROVE PauseIsFor'
  <2>1. turn = r /\ runs[r].job # 0 /\ calls' = calls
    BY <1>i, <1>3 DEF RunStops, RunFinishes, RunFails, Works, RunIsOfRecord
  <2>2. PICK outcome \in {"completed", "cancelled", "failed"} : RunIsOver(r, outcome)
    BY <1>3 DEF RunStops, RunFinishes, RunFails
  <2>3. \A j \in Jobs : IF Heard(r) /\ j = runs[r].job THEN jobs'[j].state = outcome
                        ELSE jobs'[j] = jobs[j]
    BY <1>0, <2>1, <2>2, Over
  <2>4. ASSUME NEW c \in Callers, calls[c].at = "pausing", jobs[calls[c].of].state = "running"
        PROVE  Heard(r) /\ calls[c].of = runs[r].job
    <3>1. calls[c].of \in Jobs /\ jobs[calls[c].of].run = r
      BY <2>1, <2>4 DEF PauseIsFor
    <3>2. runs[r].job = calls[c].of
      BY <1>i, <2>4, <3>1 DEF JobsAndRuns
    <3>3. jobs[calls[c].of] = [state |-> jobs[calls[c].of].state, run |-> jobs[calls[c].of].run]
      BY <1>0, <3>1 DEF JobsOK, JobForm
    <3> QED
      BY <2>4, <3>1, <3>2, <3>3 DEF Heard
  <2>5. \A j \in Jobs : \/ jobs'[j] = jobs[j] /\ jobs[j].state # "running"
                        \/ jobs'[j].state \notin {"queued", "running"}
                        \/ \A c \in Callers : calls[c].at = "pausing" => calls[c].of # j
    BY <2>3, <2>4
  <2> QED
    BY <1>o, <2>1, <2>5
<1>4. ASSUME NEW j \in Jobs, JobSettles(j) PROVE PauseIsFor'
  <2>1. UNCHANGED <<calls, turn, pausing>>
    BY <1>4 DEF JobSettles
  <2>2. \A k \in Jobs : jobs'[k] = jobs[k] \/ jobs'[k].state = "cancelled"
    BY <1>0, <1>4 DEF JobSettles, JobsOK, JobForm
  <2> QED
    BY <1>k, <2>1, <2>2
<1>5. ASSUME NEW c \in Callers,
             \/ BeginChecks(c) \/ Resumes(c) \/ PauseLands(c) \/ \E j \in Jobs : ResumesJob(c, j)
             \/ \E asked \in (SUBSET Steps) \ {{}}, policy \in Policies : BeginSaves(c, asked, policy)
             \/ \E discard \in BOOLEAN : Cancels(c, discard)
      PROVE  PauseIsFor'
  <2>1. \A d \in Callers \ {c} : calls[d] = NoCall
    <3>1. (\A d \in Callers : calls[d] = NoCall) \/ calls[c] # NoCall
      BY <1>5, <1>n DEF BeginChecks, Resumes, PauseLands, ResumesJob, BeginSaves, Cancels, InTurn, OneByOne
    <3> QED
      BY <1>i, <3>1 DEF OneCall
  <2>2. \/ calls' = calls /\ calls[c] = NoCall
        \/ calls' = [calls EXCEPT ![c] = NoCall]
        \/ calls' = [calls EXCEPT ![c] = [at |-> "reading", of |-> made + 1]]
    BY <1>5 DEF BeginChecks, Resumes, PauseLands, ResumesJob, BeginSaves, Cancels
  <2>3. calls'[c].at # "pausing" /\ \A d \in Callers \ {c} : calls'[d] = calls[d]
    BY <1>0, <1>n, <2>2 DEF CallsOK
  <2> QED
    BY <1>n, <1>q, <2>1, <2>3
<1>6. ASSUME NEW c \in Callers, NEW j \in Jobs, PauseIsSaid(c, j) PROVE PauseIsFor'
  <2>1. /\ UNCHANGED <<jobs, turn>> /\ pausing' = (pausing \/ j = job)
        /\ calls' = [calls EXCEPT ![c] = [at |-> "pausing", of |-> j]]
    BY <1>6 DEF PauseIsSaid
  <2>2. /\ jobs[j].state # "queued" /\ (jobs[j].state = "running" => turn = jobs[j].run)
        /\ \A d \in Callers : calls[d] = NoCall
    BY <1>6 DEF PauseIsSaid, InTurn, OneByOne, InTime, LandsInTurn
  <2>3. jobs[j].state = "running" => j = job
    BY <1>i DEF OneJob, Live
  <2>4. calls'[c] = [at |-> "pausing", of |-> j] /\ \A d \in Callers \ {c} : calls'[d] = NoCall
    BY <1>0, <2>1, <2>2 DEF CallsOK
  <2>5. \A d \in Callers : calls'[d].at = "pausing" => calls'[d].of = j
    BY <1>n, <2>4
  <2> QED
    BY <2>1, <2>2, <2>3, <2>5 DEF PauseIsFor
<1>7. ASSUME Crash PROVE PauseIsFor'
  BY <1>7, <1>n, <1>q DEF Crash
<1>8. ASSUME CancelDiscards \/ CancelClears PROVE PauseIsFor'
  <2>1. UNCHANGED <<jobs, calls>> /\ turn \notin Runs
    BY <1>8, <1>r DEF CancelDiscards, CancelClears
  <2>2. \A c \in Callers : calls[c].at = "pausing" => jobs[calls[c].of].state # "running"
    BY <1>i, <2>1 DEF PauseIsFor, JobsAndRuns
  <2> QED
    BY <2>1, <2>2 DEF PauseIsFor
<1>9. ASSUME \/ \E r \in Runs : \/ StreamDrops(r) \/ RunFetches(r) \/ BorgWrites(r) \/ RunFetched(r)
                                \/ RunPlans(r) \/ RunMoves(r) \/ RunWritesDown(r) \/ RunEndsStep(r)
             \/ HandOverBegins \/ HandOverEnds
             \/ \E replaced \in SUBSET Files : SummaryIsAnswered(replaced)
             \/ \E f \in Files : PersonWrites(f)
             \/ UNCHANGED vars
      PROVE  PauseIsFor'
  <2>1. UNCHANGED <<jobs, calls, turn, pausing>>
    BY <1>9 DEF StreamDrops, RunFetches, BorgWrites, RunFetched, RunPlans, RunMoves, RunWritesDown,
         RunEndsStep, HandOverBegins, HandOverEnds, SummaryIsAnswered, PersonWrites, vars, daemon
  <2> QED
    BY <1>k, <2>1
<1> QED
  BY <1>1, <1>2, <1>3, <1>4, <1>5, <1>6, <1>7, <1>8, <1>9 DEF Next, RunStep, Call

(* What the lock's holder has left to look before, it still has when it   *)
(* goes on.                                                                *)
LEMMA LooksStill ==
  ASSUME TypeOK, InTurns, AddsArePlaced, LooksAgain, NEW r \in Runs,
         BorgWrites(r) \/ RunFetched(r) \/ RunPlans(r) \/ RunWritesDown(r) \/ RunEndsStep(r)
  PROVE  LooksAgain'
<1>0. WorkOK /\ RecordOK /\ RunIsOfRecord /\ StagesAgree /\ InOrder(manifest)
  BY TypeParts DEF InTurns
<1>w. work \in Work /\ work.m \in Manifest
  BY <1>0 DEF WorkOK, Work
<1>t. turn = r
  BY DEF BorgWrites, RunFetched, RunPlans, RunWritesDown, RunEndsStep, Placed, Works
<1>u. Undone(work.m) = Undone(manifest) /\ work.m.steps = manifest.steps
  BY <1>0, <1>t, AtWork
<1> DEFINE s == StepOf(work.m)
\* Another step to come, and the record of the steps stays.
<1>k. ASSUME NEW t \in Undone(work.m), t # s, work'.m = work.m PROVE LooksAgain'
  BY <1>k DEF LooksAgain, Undone, StepOf
<1>1. CASE BorgWrites(r) \/ RunWritesDown(r)
  <2>1. work'.m = work.m /\ work'.adds = work.adds /\ work.at # "steps"
    BY <1>w, <1>1 DEF BorgWrites, RunWritesDown, Works, Work
  <2> QED
    BY <1>k, <2>1 DEF LooksAgain
<1>2. CASE RunPlans(r)
  <2>1. work'.m = work.m /\ work.at = "steps" /\ work.m.steps[s] = "placing"
    BY <1>w, <1>2 DEF RunPlans, Works, Work
  <2>2. work.adds = {}
    BY <2>1 DEF AddsArePlaced, Placing
  <2>3. \E t \in Undone(work.m) : t # s
    BY <2>1, <2>2 DEF LooksAgain
  <2> QED
    BY <1>k, <2>1, <2>3
<1>3. CASE RunFetched(r)
  <2>1. work.adds = {} /\ work.at = "fetching"
    BY <1>3 DEF AddsArePlaced, Placing, RunFetched, Works
  <2>2. PICK t \in Undone(work.m) : t # s
    BY <2>1 DEF LooksAgain
  <2>3. /\ s \in Undone(manifest) /\ s \in Steps /\ manifest' = work'.m
        /\ manifest'.steps[s] \in {"fetching", "placing"}
        /\ \A q \in Steps \ {s} : manifest'.steps[q] = manifest.steps[q]
    <3>1. ~RunEndsStep(r) \/ work.at = "placing"
      BY DEF RunEndsStep, Placed, Works
    <3> QED
      BY <1>0, <1>3, <2>1, <3>1, StepIsWritten
  <2> HIDE DEF s
  <2>4. Undone(work'.m) = Undone(work.m)
    BY <1>u, <2>3 DEF Undone
  <2>5. StepOf(work'.m) = s
    BY <2>4 DEF StepOf, s
  <2> QED
    BY <2>2, <2>4, <2>5 DEF LooksAgain
<1>4. CASE RunEndsStep(r)
  <2>1. work.adds = {} /\ work.at = "placing" /\ work'.at = "steps"
    <3>1. Idle \in Work
      BY IdleForm
    <3> QED
      BY <1>4, <3>1 DEF RunEndsStep, Placed, Works, Work
  <2>2. PICK t \in Undone(work.m) : t # s
    BY <2>1 DEF LooksAgain
  <2>3. /\ s \in Undone(manifest) /\ s \in Steps /\ manifest' = work'.m
        /\ \A q \in Undone(manifest) : s <= q
        /\ \A q \in Steps \ {s} : manifest'.steps[q] = manifest.steps[q]
    BY <1>0, <1>4, StepIsWritten
  <2> HIDE DEF s
  <2>4. \A q \in Steps \ {s} : manifest.steps[q] # "placing"
    BY <1>0, <2>3, OthersWait
  <2>5. t \in Undone(work'.m) /\ work'.m.steps[t] # "placing"
    BY <1>u, <2>2, <2>3, <2>4 DEF Undone
  <2> QED
    BY <2>1, <2>5 DEF LooksAgain
<1> QED
  BY <1>1, <1>2, <1>3, <1>4

(* Once a pause has landed, no run but the one it is for has a job, and    *)
(* that one stops at its next look, or has, and has written it down.       *)
Quiet == \A j \in Jobs : jobs[j].state \notin {"queued", "running"}
NoOther == \A r \in Runs : r # turn => runs[r].job = 0
Stopping ==
  /\ turn \in Runs /\ runs[turn].stop /\ LooksAgain /\ pausing
  /\ (job \in Jobs /\ jobs[job].state = "paused") \/ cancel.on
  /\ \A c \in Callers : calls[c].at = "pausing" => calls[c].of # job
Stopped == turn \notin Runs /\ (There(manifest) /\ manifest.stage = "restoring" => manifest.paused)
PauseGoesOn == said = "pause" => Quiet /\ NoOther /\ (Stopping \/ Stopped)
PausesWait == AddsArePlaced /\ InHand /\ PauseIsFor /\ PauseGoesOn

LEMMA PauseGoesOnStep ==
  ASSUME TypeInv, OneByOne, InTurns, LandsInTurn, PausesWait, [Next]_vars
  PROVE  PauseGoesOn'
<1>0. TypeOK /\ JobsOK /\ RunsOK /\ CallsOK /\ WorkOK /\ RecordOK
  BY TypeParts DEF TypeInv
<1>i. RunIsOfRecord /\ OneCall /\ OneJob /\ HandsOverRecord
  BY DEF InTurns
<1>p. AddsArePlaced /\ JobsAndRuns /\ HeardWait /\ PauseIsFor
  BY DEF PausesWait, InHand
<1>s. said = "pause" => Quiet /\ NoOther /\ (Stopping \/ Stopped)
  BY DEF PausesWait, PauseGoesOn
<1>r. \A r \in Runs : r # 0 /\ r # TheCancel
  BY RecoveryAssumption
<1>n. NoCall.at = "idle"
  BY DEF NoCall
<1>g. said' # "pause" => PauseGoesOn'
  BY DEF PauseGoesOn
\* The run that is stopping goes on.
<1>k. ASSUME said = "pause", said' = said, Stopping, UNCHANGED <<turn, job, pausing, calls, cancel>>,
             \A r \in Runs : runs'[r].job = runs[r].job /\ (runs[r].stop => runs'[r].stop),
             \A j \in Jobs : jobs'[j].state = jobs[j].state,
             LooksAgain'
      PROVE  PauseGoesOn'
  <2>1. Quiet'
    BY <1>k, <1>s DEF Quiet
  <2>2. NoOther'
    BY <1>k, <1>s DEF NoOther
  <2>3. Stopping'
    BY <1>k DEF Stopping
  <2> QED
    BY <2>1, <2>2, <2>3 DEF PauseGoesOn
\* No run has the lock, and the record says it is paused.
<1>z. ASSUME said = "pause", said' = said, Stopped, turn' \notin Runs,
             There(manifest)' /\ manifest'.stage = "restoring" =>
               There(manifest) /\ manifest.stage = "restoring" /\ manifest'.paused = manifest.paused,
             \A r \in Runs : runs'[r].job = runs[r].job,
             Quiet'
      PROVE  PauseGoesOn'
  <2>1. NoOther'
    BY <1>z, <1>s DEF NoOther, Stopped
  <2>2. Stopped'
    BY <1>z DEF Stopped
  <2> QED
    BY <1>z, <2>1, <2>2 DEF PauseGoesOn
<1>1. ASSUME NEW j \in Jobs, JobStarts(j) PROVE PauseGoesOn'
  BY <1>1, <1>s, <1>g DEF JobStarts, Quiet
<1>2. ASSUME NEW r \in Runs, RunTakesTurn(r) PROVE PauseGoesOn'
  BY <1>2, <1>s, <1>g, <1>r DEF RunTakesTurn, NoOther
<1>3. ASSUME NEW r \in Runs, RunFetches(r) \/ RunMoves(r) \/ RunFails(r) PROVE PauseGoesOn'
  <2>1. turn = r /\ ~runs[r].stop /\ said' = said
    BY <1>3 DEF RunFetches, RunMoves, RunFails, Works, LandsInTurn
  <2> QED
    BY <2>1, <1>s, <1>g DEF Stopping, Stopped
<1>4. ASSUME NEW r \in Runs,
             BorgWrites(r) \/ RunFetched(r) \/ RunPlans(r) \/ RunWritesDown(r) \/ RunEndsStep(r)
      PROVE  PauseGoesOn'
  <2>1. turn = r /\ UNCHANGED <<said, turn, job, pausing, calls, cancel, runs, jobs>>
    BY <1>4 DEF BorgWrites, RunFetched, RunPlans, RunWritesDown, RunEndsStep, Placed, Works
  <2>2. said = "pause" => Stopping
    BY <1>s, <2>1 DEF Stopped
  <2>3. said = "pause" => LooksAgain'
    BY <1>0, <1>4, <1>p, <2>2, LooksStill DEF Stopping
  <2> QED
    BY <1>g, <1>k, <2>1, <2>2, <2>3
<1>5. ASSUME NEW r \in Runs, RunFinishes(r) PROVE PauseGoesOn'
  <2>1. turn = r /\ work.at = "steps" /\ Undone(work.m) = {} /\ said' = said
    BY <1>5 DEF RunFinishes, Works
  <2>2. ~LooksAgain
    BY <1>p, <2>1 DEF LooksAgain, AddsArePlaced, Placing
  <2> QED
    BY <1>g, <1>s, <2>1, <2>2 DEF Stopping, Stopped
<1>6. ASSUME NEW r \in Runs, RunStops(r) PROVE PauseGoesOn'
  <2>1. turn = r /\ said' = said /\ RunIsOver(r, "cancelled")
        /\ manifest' = [work.m EXCEPT !.paused = pausing, !.failed = manifest.failed]
    BY <1>6 DEF RunStops, WasAPause
  <2>2. runs[r].job # 0
    BY <1>i, <2>1 DEF RunIsOfRecord
  <2>3. /\ turn' = 0 /\ runs'[r].job = 0 /\ \A q \in Runs \ {r} : runs'[q] = runs[q]
        /\ \A j \in Jobs : jobs'[j].state = "cancelled" \/ jobs'[j] = jobs[j]
    BY <1>0, <2>1, <2>2, Over DEF NoRun
  <2>4. ASSUME said = "pause" PROVE Stopping
    BY <1>s, <2>1, <2>4 DEF Stopped
  <2>5. said = "pause" => manifest'.paused
    <3>1. work.m \in Manifest
      BY <1>0 DEF WorkOK, Work
    <3>2. manifest'.paused = pausing
      BY <2>1, <3>1 DEF Manifest
    <3> QED
      BY <2>4, <3>2 DEF Stopping
  <2>6. said = "pause" => Quiet' /\ NoOther'
    BY <1>s, <2>1, <2>3 DEF Quiet, NoOther
  <2> QED
    BY <1>g, <1>r, <2>1, <2>3, <2>5, <2>6 DEF PauseGoesOn, Stopped
<1>7. ASSUME NEW r \in Runs, StreamDrops(r) PROVE PauseGoesOn'
  <2>1. UNCHANGED <<said, turn, job, pausing, calls, cancel, jobs, manifest, work>>
    BY <1>7 DEF StreamDrops
  <2>2. \A q \in Runs : runs'[q].job = runs[q].job /\ (runs[q].stop => runs'[q].stop)
    BY <1>0, <1>7 DEF StreamDrops, RunsOK, RunForm
  <2>3. LooksAgain => LooksAgain'
    BY <2>1 DEF LooksAgain
  <2>4. Quiet => Quiet'
    BY <2>1 DEF Quiet
  <2>5. CASE said = "pause" /\ Stopping
    BY <1>k, <2>1, <2>2, <2>3, <2>5 DEF Stopping
  <2>6. CASE said = "pause" /\ Stopped
    BY <1>s, <1>z, <2>1, <2>2, <2>4, <2>6 DEF Stopped, There
  <2> QED
    BY <1>g, <1>s, <2>1, <2>5, <2>6
<1>8. ASSUME \/ HandOverEnds
             \/ \E replaced \in SUBSET Files : SummaryIsAnswered(replaced)
      PROVE  PauseGoesOn'
  <2>1. UNCHANGED <<said, turn, runs, jobs>> /\ manifest.stage # "restoring"
    BY <1>8, <1>i DEF HandOverEnds, SummaryIsAnswered, HandsOverRecord
  <2>2. turn \notin Runs
    BY <1>i, <2>1 DEF RunIsOfRecord
  <2>3. ~(There(manifest)' /\ manifest'.stage = "restoring")
    <3>1. ASSUME manifest' = None PROVE ~There(manifest)'
      BY <3>1 DEF None, There
    <3>2. ASSUME \E replaced \in SUBSET Files : SummaryIsAnswered(replaced)
          PROVE  manifest' = None
      BY <3>2 DEF SummaryIsAnswered, Clears
    <3>3. ASSUME HandOverEnds PROVE manifest' = None \/ manifest'.stage # "restoring"
      <4> DEFINE m == [handing.m EXCEPT !.handed = TRUE]
      <4>1. m.stage = manifest.stage
        BY <1>0, <1>i, <3>3 DEF HandOverEnds, HandsOverRecord, RecordOK, Manifest
      <4>2. manifest' = None \/ manifest' = m
        BY <3>3 DEF HandOverEnds, Clears
      <4> HIDE DEF m
      <4> QED
        BY <2>1, <4>1, <4>2
    <3> QED
      BY <1>8, <3>1, <3>2, <3>3
  <2>4. said = "pause" => Stopped /\ Quiet'
    BY <1>s, <2>1, <2>2 DEF Stopping, Quiet
  <2> QED
    BY <1>g, <1>z, <2>1, <2>2, <2>3, <2>4
<1>9. ASSUME CancelDiscards \/ CancelClears PROVE PauseGoesOn'
  <2>1. UNCHANGED <<said, runs, jobs>> /\ turn \notin Runs /\ turn' \notin Runs
    BY <1>9, <1>r DEF CancelDiscards, CancelClears
  <2>2. manifest' = manifest \/ ~There(manifest)'
    <3>1. manifest' = manifest \/ manifest' = None
      BY <1>9 DEF CancelDiscards, CancelClears, Clears
    <3>2. None.no = 0
      BY DEF None
    <3> QED
      BY <3>1, <3>2 DEF There
  <2>3. said = "pause" => Stopped /\ Quiet'
    BY <1>s, <2>1 DEF Stopping, Quiet
  <2> QED
    BY <1>g, <1>z, <2>1, <2>2, <2>3 DEF There
<1>10. ASSUME Crash PROVE PauseGoesOn'
  <2>1. said' = "pause" => said = "pause" /\ turn = 0 /\ \A r \in Runs : runs[r].job = 0
    BY <1>10 DEF Crash, Resting
  <2>2. turn' = 0 /\ manifest' = manifest /\ \A r \in Runs : runs'[r].job = 0
    BY <1>10 DEF Crash, NoRun
  <2>3. ASSUME said' = "pause" PROVE Stopped /\ Quiet'
    <3>1. Stopped
      BY <1>s, <1>r, <2>1, <2>3 DEF Stopping
    <3>2. There(manifest) /\ manifest.stage = "restoring" => manifest.paused
      BY <3>1 DEF Stopped
    <3>3. \A j \in Jobs : jobs'[j].state \in {"absent", "paused"}
      BY <1>10, <3>2 DEF Crash
    <3> QED
      BY <3>1, <3>3 DEF Quiet
  <2> QED
    BY <1>g, <1>r, <1>z, <2>1, <2>2, <2>3 DEF There
<1>11. ASSUME \/ HandOverBegins \/ (\E f \in Files : PersonWrites(f)) \/ UNCHANGED vars
              \/ \E j \in Jobs : JobSettles(j)
       PROVE  PauseGoesOn'
  <2>1. UNCHANGED <<said, turn, job, pausing, calls, cancel, runs, manifest, work>>
    BY <1>11 DEF HandOverBegins, PersonWrites, JobSettles, vars, daemon
  <2>2. \A j \in Jobs : \/ jobs'[j] = jobs[j]
                        \/ jobs[j].state = "cancelling" /\ jobs'[j].state = "cancelled"
    BY <1>0, <1>11 DEF HandOverBegins, PersonWrites, JobSettles, vars, daemon, JobsOK, JobForm
  <2>3. LooksAgain => LooksAgain'
    BY <2>1 DEF LooksAgain
  <2>4. Quiet => Quiet'
    BY <2>2 DEF Quiet
  <2>5. Stopping => Stopping'
    BY <2>1, <2>2, <2>3 DEF Stopping
  <2>6. NoOther => NoOther'
    BY <2>1 DEF NoOther
  <2>7. Stopped => Stopped'
    BY <2>1 DEF Stopped, There
  <2> QED
    BY <1>s, <2>1, <2>4, <2>5, <2>6, <2>7 DEF PauseGoesOn
<1>12. ASSUME NEW c \in Callers, BeginChecks(c) PROVE PauseGoesOn'
  <2>1. UNCHANGED <<said, turn, job, pausing, cancel, runs, jobs, manifest, work>>
        /\ calls' = [calls EXCEPT ![c] = [at |-> "reading", of |-> made + 1]]
    BY <1>12 DEF BeginChecks
  <2>2. \A d \in Callers : calls'[d].at = "pausing" => calls'[d] = calls[d]
    BY <1>0, <2>1 DEF CallsOK
  <2>3. LooksAgain => LooksAgain'
    BY <2>1 DEF LooksAgain
  <2>4. Quiet => Quiet'
    BY <2>1 DEF Quiet
  <2>5. Stopping => Stopping'
    BY <2>1, <2>2, <2>3 DEF Stopping
  <2>6. NoOther => NoOther'
    BY <2>1 DEF NoOther
  <2>7. Stopped => Stopped'
    BY <2>1 DEF Stopped, There
  <2> QED
    BY <1>s, <2>1, <2>4, <2>5, <2>6, <2>7 DEF PauseGoesOn
<1>13. ASSUME NEW c \in Callers,
              \/ Resumes(c) \/ \E j \in Jobs : ResumesJob(c, j)
              \/ \E asked \in (SUBSET Steps) \ {{}}, policy \in Policies : BeginSaves(c, asked, policy)
       PROVE  PauseGoesOn'
  <2>1. said' = "go"
    BY <1>13 DEF Resumes, ResumesJob, BeginSaves
  <2> QED
    BY <1>g, <2>1
<1>14. ASSUME NEW c \in Callers, NEW j \in Jobs, PauseIsSaid(c, j) PROVE PauseGoesOn'
  <2>1. /\ UNCHANGED <<said, turn, job, cancel, runs, jobs, manifest, work>>
        /\ pausing' = (pausing \/ j = job)
        /\ calls' = [calls EXCEPT ![c] = [at |-> "pausing", of |-> j]]
    BY <1>14 DEF PauseIsSaid
  <2>2. ~cancel.on /\ (jobs[j].state = "paused" => turn = 0)
    BY <1>14 DEF PauseIsSaid, InTurn, OneByOne, LandsInTurn, Resting
  <2>3. LooksAgain => LooksAgain'
    BY <2>1 DEF LooksAgain
  <2>4. Quiet => Quiet'
    BY <2>1 DEF Quiet
  <2>5. Stopping => j # job
    BY <1>r, <2>2 DEF Stopping
  <2>6. \A d \in Callers : calls'[d].at = "pausing" => calls'[d] = calls[d] \/ calls'[d].of = j
    BY <1>0, <2>1 DEF CallsOK
  <2>7. Stopping => Stopping'
    BY <2>1, <2>3, <2>5, <2>6 DEF Stopping
  <2>8. NoOther => NoOther'
    BY <2>1 DEF NoOther
  <2>9. Stopped => Stopped'
    BY <2>1 DEF Stopped, There
  <2> QED
    BY <1>s, <2>1, <2>4, <2>7, <2>8, <2>9 DEF PauseGoesOn
<1>15. ASSUME NEW c \in Callers, NEW discard \in BOOLEAN, Cancels(c, discard) PROVE PauseGoesOn'
  <2>1. UNCHANGED <<said, turn, job, pausing, calls, runs, manifest, work>>
        /\ cancel' = [on |-> TRUE, discard |-> discard, done |-> FALSE, no |-> manifest.no]
    BY <1>15 DEF Cancels
  <2>2. cancel'.on
    BY <2>1
  <2>3. \A k \in Jobs : jobs'[k] = jobs[k] \/ jobs'[k].state \in {"cancelling", "cancelled"}
    BY <1>0, <1>15 DEF Cancels, JobsOK, JobForm
  <2>4. Quiet => Quiet'
    BY <2>3 DEF Quiet
  <2>5. LooksAgain => LooksAgain'
    BY <2>1 DEF LooksAgain
  <2>6. Stopping => Stopping'
    BY <2>1, <2>2, <2>5 DEF Stopping
  <2>7. NoOther => NoOther'
    BY <2>1 DEF NoOther
  <2>8. Stopped => Stopped'
    BY <2>1 DEF Stopped, There
  <2> QED
    BY <1>s, <2>1, <2>4, <2>6, <2>7, <2>8 DEF PauseGoesOn
<1>16. ASSUME NEW c \in Callers, PauseLands(c) PROVE PauseGoesOn'
  <2> DEFINE j == calls[c].of
  <2>1. j \in Jobs /\ calls[c].at = "pausing"
    BY <1>16, <1>p DEF PauseLands, PauseIsFor
  <2>2. \A d \in Callers : calls'[d].at = "pausing" => calls'[d] = calls[d] /\ d # c
    BY <1>0, <1>n, <1>16 DEF PauseLands, CallsOK
  <2>3. UNCHANGED <<turn, job, cancel, manifest, work>>
    BY <1>16 DEF PauseLands
  <2>4. LooksAgain => LooksAgain'
    BY <2>3 DEF LooksAgain
  <2>5. CASE jobs[j].state = "running"
    <3>1. /\ jobs' = [jobs EXCEPT ![j].state = "paused"] /\ pausing' = pausing
          /\ runs' = [runs EXCEPT ![jobs[j].run].stop = TRUE]
          /\ turn # jobs[j].run \/ LooksAgain
      BY <1>16, <2>5 DEF PauseLands, InTime, LandsInTurn
    <3>2. pausing /\ turn = jobs[j].run /\ turn \in Runs
      BY <1>p, <2>1, <2>5 DEF PauseIsFor, JobsAndRuns
    <3>3. j = job /\ \A k \in Jobs \ {j} : ~Live(k)
      BY <1>i, <2>1, <2>5 DEF OneJob, Live
    <3>4. jobs'[j].state = "paused" /\ \A k \in Jobs \ {j} : jobs'[k] = jobs[k]
      BY <1>0, <2>1, <3>1 DEF JobsOK, JobForm
    <3>5. runs'[turn].stop /\ \A q \in Runs : runs'[q].job = runs[q].job
      BY <1>0, <3>1, <3>2 DEF RunsOK, RunForm
    <3>6. Quiet'
      BY <3>3, <3>4 DEF Quiet, Live
    <3>7. NoOther'
      <4> SUFFICES ASSUME NEW q \in Runs, q # turn, runs[q].job # 0 PROVE FALSE
        BY <2>3, <3>5 DEF NoOther
      <4>1. Heard(q) /\ runs[q].job \in Jobs
        BY <1>0, <1>p DEF HeardWait, Waiting, RunsOK, RunForm
      <4>2. runs[q].job = j
        BY <3>3, <4>1 DEF Heard, Live
      <4> QED
        BY <3>2, <4>1, <4>2 DEF Heard
    <3>8. \A d \in Callers : calls'[d].at # "pausing"
      <4>1. calls[c] # NoCall
        BY <1>n, <2>1
      <4> QED
        BY <1>i, <1>n, <2>2, <4>1 DEF OneCall
    <3>9. Stopping'
      BY <2>1, <2>3, <2>4, <3>1, <3>2, <3>3, <3>4, <3>5, <3>8 DEF Stopping
    <3> QED
      BY <3>6, <3>7, <3>9 DEF PauseGoesOn
  <2>6. CASE jobs[j].state # "running"
    <3>1. UNCHANGED <<jobs, runs, said>> /\ pausing' = (pausing /\ j # job)
      BY <1>16, <2>6 DEF PauseLands
    <3>2. Stopping => j # job
      BY <2>1 DEF Stopping
    <3>3. Stopping => Stopping'
      BY <2>2, <2>3, <2>4, <3>1, <3>2 DEF Stopping
    <3>4. (Quiet => Quiet') /\ (NoOther => NoOther') /\ (Stopped => Stopped')
      BY <2>3, <3>1 DEF Quiet, NoOther, Stopped, There
    <3> QED
      BY <1>s, <3>1, <3>3, <3>4 DEF PauseGoesOn
  <2> QED
    BY <2>5, <2>6
<1> QED
  BY <1>1, <1>2, <1>3, <1>4, <1>5, <1>6, <1>7, <1>8, <1>9, <1>10, <1>11, <1>12, <1>13, <1>14, <1>15,
     <1>16 DEF Next, RunStep, Call

InvPauses == InvTurns /\ PausesWait

LEMMA InvPausesHolds ==
  ASSUME OneByOne, LandsInTurn
  PROVE  Spec => []InvPauses
<1>1. ASSUME Init PROVE PausesWait
  <2>1. AddsArePlaced
    BY <1>1 DEF Init, Idle, AddsArePlaced
  <2>2. InHand
    BY <1>1 DEF Init, InHand, JobsAndRuns, HeardWait, Waiting, NoRun
  <2>3. PauseIsFor
    BY <1>1 DEF Init, PauseIsFor, NoCall
  <2>4. PauseGoesOn
    BY <1>1 DEF Init, PauseGoesOn
  <2> QED
    BY <2>1, <2>2, <2>3, <2>4 DEF PausesWait
<1>2. ASSUME InvTurns, PausesWait, [Next]_vars PROVE PausesWait'
  <2>1. TypeInv /\ TypeOK /\ InTurns /\ AddsArePlaced /\ InHand /\ PauseIsFor
    BY <1>2 DEF InvTurns, TypeInv, PausesWait
  <2>2. AddsArePlaced' /\ InHand'
    BY <1>2, <2>1, AddsArePlacedStep, InHandStep
  <2>3. PauseIsFor' /\ PauseGoesOn'
    BY <1>2, <2>1, PauseIsForStep, PauseGoesOnStep
  <2> QED
    BY <2>2, <2>3 DEF PausesWait
<1>3. Spec => []InvTurns
  BY InvTurnsHolds
<1>4. Init => PausesWait
  BY <1>1
<1>5. InvTurns /\ PausesWait /\ [Next]_vars => PausesWait'
  BY <1>2
<1> QED
  BY <1>3, <1>4, <1>5, PTL DEF Spec, InvPauses

(* Once the run that was paused has wound down, the record says it is      *)
(* paused, and a restart finds it so: through every failure, cancel, crash *)
(* and change of the person's files (pause_job, run_step).                 *)
THEOREM PausedIsFound ==
  ASSUME "side by side" \notin Circumstances,
         "quick" \notin Circumstances, "late" \notin Circumstances
  PROVE  Spec => []PausedIsWrittenDown
<1>1. Spec => []InvPauses
  BY InvPausesHolds DEF OneByOne, LandsInTurn
<1>2. InvPauses => PausedIsWrittenDown
  <2>1. ASSUME Resting PROVE turn \notin Runs
    BY <2>1, RecoveryAssumption DEF Resting
  <2> QED
    BY <2>1 DEF InvPauses, PausesWait, PauseGoesOn, Stopping, Stopped, PausedIsWrittenDown
<1> QED
  BY <1>1, <1>2, PTL

(* What a recovery says is back is back, what is the person's is theirs,   *)
(* and what was paused is found paused: in every circumstance but those    *)
(* that break one of these (run_step, place, load_recovery).               *)
THEOREM RecoveryIsSafe ==
  ASSUME Circumstances = {}
  PROVE  Spec => []RecoverySafety
<1>1. Spec => []TypeOK
  BY TypeCorrect
<1>2. Spec => []EveryStepIsBack
  BY StepsAreBack
<1>3. Spec => []TheirsIsSafe
  BY NothingOfTheirsIsLost
<1>4. Spec => []PausedIsWrittenDown
  BY PausedIsFound
<1> QED
  BY <1>1, <1>2, <1>3, <1>4, PTL DEF RecoverySafety
=============================================================================
