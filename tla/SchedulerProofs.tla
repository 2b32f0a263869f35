-------------------------- MODULE SchedulerProofs --------------------------
(***************************************************************************)
(* The loop never stands behind itself and keeps its interval: proved for  *)
(* every interval, every maintenance and every length of the queue, with   *)
(* all that can happen to the daemon happening as often as it likes.       *)
(***************************************************************************)
EXTENDS Scheduler, FiniteSetTheorems, WellFoundedInduction, TLAPS

USE SchedulerAssumption DEF SchedulerAssumption, Never, Past

-----------------------------------------------------------------------------
(* What the operators return. *)

LEMMA LeastOfSome ==
  ASSUME NEW S \in SUBSET Nat, S # {}
  PROVE  \E n \in S : \A m \in S : n <= m
<1>1. \E n \in S : \A m \in S : ~(<<m, n>> \in OpToRel(<, Nat))
  BY NatLessThanWellFounded, WFMin
<1>2. PICK n \in S : \A m \in S : ~(<<m, n>> \in OpToRel(<, Nat))
  BY <1>1
<1>3. ASSUME NEW m \in S PROVE n <= m
  <2>1. ~(<<m, n>> \in OpToRel(<, Nat))
    BY <1>2
  <2>2. ~(m < n)
    BY <2>1 DEF OpToRel
  <2> QED
    BY <2>2
<1> QED
  BY <1>3

(* Among one more seconds than there are names, one is free. *)
LEMMA SecondIsFree ==
  ASSUME NEW names \in SUBSET Nat, IsFiniteSet(names)
  PROVE  /\ FreeSecond(names) \in Nat \ names
         /\ \A e \in 0 .. FreeSecond(names) - 1 : e \in names
<1> DEFINE n == Cardinality(names)
           free == (0 .. n) \ names
<1>1. n \in Nat
  BY FS_CardinalityType
<1>2. free # {}
  <2> SUFFICES ASSUME 0 .. n \subseteq names PROVE FALSE
    OBVIOUS
  <2>1. Cardinality(0 .. n) <= n
    BY FS_Subset
  <2>2. Cardinality(0 .. n) = n - 0 + 1
    BY <1>1, FS_Interval
  <2> QED
    BY <1>1, <2>1, <2>2
<1>3. PICK d \in free : \A e \in free : d <= e
  <2>1. free \in SUBSET Nat
    BY <1>1
  <2> HIDE DEF free
  <2> QED
    BY <1>2, <2>1, LeastOfSome
<1>4. d \in 0 .. n /\ d \notin names /\ \A e \in 0 .. d - 1 : e \in names
  BY <1>1, <1>3
<1> HIDE DEF n, free
<1>5. \E c \in 0 .. n : c \notin names /\ \A e \in 0 .. c - 1 : e \in names
  BY <1>4
<1>6. /\ FreeSecond(names) \in 0 .. n /\ FreeSecond(names) \notin names
      /\ \A e \in 0 .. FreeSecond(names) - 1 : e \in names
  BY <1>5 DEF FreeSecond, n
<1> QED
  BY <1>1, <1>6

(* The runs of the loop among jobs. *)
Loops(js) == {i \in DOMAIN js : js[i].by = "loop"}
OneIn(js) == \A i, k \in Loops(js) : i = k

LEMMA AppendKeeps ==
  ASSUME NEW js \in Seq(Job), NEW j \in Job
  PROVE  /\ Append(js, j) \in Seq(Job)
         /\ Len(Append(js, j)) = Len(js) + 1 /\ Append(js, j)[Len(js) + 1] = j
         /\ j.by # "loop" => Loops(Append(js, j)) = Loops(js)
         /\ Loops(js) = {} => Loops(Append(js, j)) \subseteq {Len(js) + 1}
<1>1. /\ Append(js, j) \in Seq(Job) /\ Len(js) \in Nat
      /\ DOMAIN js = 1 .. Len(js) /\ DOMAIN Append(js, j) = 1 .. Len(js) + 1
      /\ Len(Append(js, j)) = Len(js) + 1 /\ Append(js, j)[Len(js) + 1] = j
      /\ \A i \in 1 .. Len(js) : Append(js, j)[i] = js[i]
  OBVIOUS
<1>2. \A i : i \in 1 .. Len(js) + 1 <=> i \in 1 .. Len(js) \/ i = Len(js) + 1
  BY <1>1
<1>3. Len(js) + 1 \notin 1 .. Len(js)
  BY <1>1
<1> QED
  BY <1>1, <1>2, <1>3 DEF Loops

LEMMA TailKeeps ==
  ASSUME NEW js \in Seq(Job), js # <<>>
  PROVE  /\ Tail(js) \in Seq(Job) /\ Head(js) \in Job /\ Len(Tail(js)) = Len(js) - 1
         /\ \A i \in Loops(Tail(js)) : i \in Nat /\ i + 1 \in Loops(js)
         /\ OneIn(js) => OneIn(Tail(js))
<1>1. /\ Tail(js) \in Seq(Job) /\ Len(js) \in Nat /\ Len(js) > 0 /\ Head(js) \in Job
      /\ DOMAIN js = 1 .. Len(js) /\ DOMAIN Tail(js) = 1 .. Len(js) - 1
      /\ Len(Tail(js)) = Len(js) - 1
      /\ \A i \in 1 .. Len(js) - 1 : Tail(js)[i] = js[i + 1]
  OBVIOUS
<1>2. \A i \in Loops(Tail(js)) : i \in Nat /\ i + 1 \in Loops(js)
  BY <1>1 DEF Loops
<1>3. OneIn(js) => OneIn(Tail(js))
  <2> SUFFICES ASSUME OneIn(js), NEW i \in Loops(Tail(js)), NEW k \in Loops(Tail(js))
               PROVE  i = k
    BY DEF OneIn
  <2>1. i + 1 = k + 1 /\ i \in Nat /\ k \in Nat
    BY <1>2 DEF OneIn
  <2> QED
    BY <2>1
<1> QED
  BY <1>1, <1>2, <1>3

LEMMA DatedAnew ==
  ASSUME NEW js \in Seq(Job), NEW f \in [DOMAIN js -> Int]
  PROVE  LET new == [i \in DOMAIN js |-> [js[i] EXCEPT !.dated = f[i]]]
         IN  new \in Seq(Job) /\ Loops(new) = Loops(js) /\ Len(new) = Len(js)
<1> DEFINE new == [i \in DOMAIN js |-> [js[i] EXCEPT !.dated = f[i]]]
<1>1. /\ Len(js) \in Nat /\ DOMAIN js = 1 .. Len(js)
      /\ \A i \in 1 .. Len(js) : js[i] \in Job
  OBVIOUS
<1>2. \A i \in 1 .. Len(js) : new[i] \in Job /\ new[i].by = js[i].by
  BY <1>1 DEF Job
<1>3. new \in [1 .. Len(js) -> Job] /\ DOMAIN new = 1 .. Len(js)
  BY <1>1, <1>2
<1> HIDE DEF new
<1>4. new \in Seq(Job) /\ Len(new) = Len(js)
  BY <1>1, <1>3
<1>5. Loops(new) = Loops(js)
  BY <1>1, <1>2, <1>3 DEF Loops
<1> QED
  BY <1>4, <1>5 DEF new

-----------------------------------------------------------------------------
(* The parts of the type invariant, with what makes a free second exist.   *)
ClocksOK ==
  /\ since \in [Clocks -> Int]
  /\ \A c \in Clocks : since[c] \in Never .. Oldest[c]
FactsOK ==
  /\ unexplained \in Nat /\ pause \in Nat /\ gate \in {"open", "power", "disk"}
  /\ up \in BOOLEAN /\ known \in BOOLEAN /\ restoring \in BOOLEAN /\ parked \in BOOLEAN
  /\ permit \in BOOLEAN /\ unprotected \in BOOLEAN /\ left \in Nat
JobsOK == jobs \in Seq(Job)
LoopForm ==
  [at: {"asleep", "decide", "starting"} \cup Maintenance,
   submits: BOOLEAN, sleep: Nat, deferred: BOOLEAN, configured: BOOLEAN,
   paused: BOOLEAN, busy: BOOLEAN, age: Int, away: BOOLEAN]
LoopOK == loop \in LoopForm
WatchOK ==
  watch \in [at: {"asleep", "reconnecting"}, sleep: Nat, quiet: Nat,
             believes: BOOLEAN, saw: {"nothing", "yes", "no", "unknown"}]
StartForm == [step: {"none", "facts", "probe", "protect", "names", "submit"},
          paused: BOOLEAN, held: BOOLEAN, taken: SUBSET Nat]
StartsOK == starts \in [Starters -> StartForm]
NamesOK ==
  /\ taken \in SUBSET Nat /\ IsFiniteSet(taken)
  /\ \A s \in Starters : IsFiniteSet(starts[s].taken)

(* Of the loop: while it looks, and found the daemon idle, and while it    *)
(* starts a run, it has none under way; its run is the only one it starts. *)
Looks == loop.at \in {"decide"} \cup Maintenance
Starting == starts["loop"].step # "none"
BehindNone ==
  /\ OneIn(jobs)
  /\ Looks /\ ~loop.busy => Loops(jobs) = {}
  /\ Starting => loop.at = "starting" /\ Loops(jobs) = {}

(* Its own last submission is the last attempt or was before it, and what  *)
(* it found of the attempt's age, when it began to look, says the same of  *)
(* its own.                                                                *)
Fresh(age) == age \in 0 .. Interval - 1
ClocksAgree ==
  /\ since["own"] # Never =>
       since["attempt"] # Never /\ since["own"] >= Lesser(since["attempt"], Interval)
  /\ Looks /\ ~Fresh(loop.age) => ~Fresh(since["own"])
  /\ Starting => ~Fresh(since["own"])

TypesOK == ClocksOK /\ FactsOK /\ JobsOK /\ LoopOK /\ WatchOK /\ StartsOK /\ NamesOK
Inv == TypesOK /\ BehindNone /\ ClocksAgree

LEMMA InvInit == Init => Inv
<1> SUFFICES ASSUME Init PROVE Inv
  OBVIOUS
<1>1. ClocksOK
  BY DEF Init, ClocksOK, Clocks, Oldest
<1>2. FactsOK
  BY DEF Init, FactsOK
<1>3. JobsOK /\ Loops(jobs) = {}
  BY DEF Init, JobsOK, Loops
<1>4. LoopOK
  BY DEF Init, LoopOK, LoopForm, Asleep
<1>5. WatchOK
  BY DEF Init, WatchOK, Watching
<1>6. StartsOK
  BY DEF Init, StartsOK, StartForm, Idle
<1>7. NamesOK
  BY FS_EmptySet DEF Init, NamesOK, Idle
<1>8. BehindNone
  BY <1>3 DEF Init, BehindNone, OneIn, Looks, Starting, Asleep, Idle, Starters
<1>9. ClocksAgree
  BY SMTT(30) DEF Init, ClocksAgree, Looks, Starting, Asleep, Idle, Starters, Clocks
<1> QED
  BY <1>1, <1>2, <1>3, <1>4, <1>5, <1>6, <1>7, <1>8, <1>9 DEF Inv, TypesOK

-----------------------------------------------------------------------------
(* What a step does to the jobs. *)

(* The steps that leave the jobs alone. *)
LeavesJobs ==
  \/ LoopSleepsOut \/ LoopNotified \/ LoopDecides \/ LoopReturns
  \/ \E m \in Maintenance : LoopConsiders(m)
  \/ \E s \in Starters : ReadsFacts(s) \/ ReadsNames(s) \/ StartFails(s)
  \/ \E s \in Starters, answer \in {"yes", "no", "unknown"} : Probes(s, answer)
  \/ WatchSteps \/ JobRecords \/ MachineChanges
  \/ \E unlocks \in BOOLEAN : Calls(unlocks)
  \/ \E minutes \in 0 .. 2 : Pauses(minutes)

LoopSubmits == Submits("loop") \/ Protects("loop")

LEMMA Steps ==
  ASSUME Next
  PROVE  \/ LeavesJobs \/ \E m \in Maintenance : LoopMaintains(m)
         \/ \E s \in Starters : Submits(s) \/ Protects(s)
         \/ JobEnds \/ JobFails \/ RecoveryChanges
         \/ Suspends \/ Restarts \/ TimePasses \/ SecondPasses
BY SMTT(30) DEF Next, LeavesJobs, LoopSteps, StartSteps

LEMMA JobsUnchanged == LeavesJobs => UNCHANGED jobs
BY DEF LeavesJobs, LoopSleepsOut, LoopNotified, LoopDecides, LoopReturns, LoopConsiders,
       ReadsFacts, ReadsNames, StartFails, Probes, WatchSteps, WatchLooks, WatchReturns,
       JobRecords, MachineChanges, Calls, Pauses

Added(j) == jobs' = Append(jobs, j)

LEMMA JobsAdded ==
  ASSUME JobsOK, NEW j \in Job, Added(j), OneIn(jobs), j.by = "loop" => Loops(jobs) = {}
  PROVE  /\ JobsOK' /\ OneIn(jobs') /\ Submitted = {j}
         /\ j.by # "loop" => Loops(jobs') = Loops(jobs)
<1>1. /\ jobs' \in Seq(Job) /\ Len(jobs') = Len(jobs) + 1 /\ jobs'[Len(jobs) + 1] = j
      /\ j.by # "loop" => Loops(jobs') = Loops(jobs)
      /\ Loops(jobs) = {} => Loops(jobs') \subseteq {Len(jobs) + 1}
  BY AppendKeeps DEF JobsOK, Added
<1>2. Submitted = {j}
  <2>1. Len(jobs) \in Nat
    BY DEF JobsOK
  <2> QED
    BY <1>1, <2>1 DEF Submitted
<1>3. OneIn(jobs')
  BY <1>1 DEF OneIn
<1> QED
  BY <1>1, <1>2, <1>3 DEF JobsOK

LEMMA JobsTaken ==
  ASSUME JobsOK, jobs # <<>>, jobs' = Tail(jobs)
  PROVE  /\ JobsOK' /\ Submitted = {}
         /\ OneIn(jobs) => OneIn(jobs')
         /\ Loops(jobs) = {} => Loops(jobs') = {}
<1>1. /\ jobs' \in Seq(Job) /\ Len(jobs') = Len(jobs) - 1
      /\ \A i \in Loops(jobs') : i + 1 \in Loops(jobs)
      /\ OneIn(jobs) => OneIn(jobs')
  BY TailKeeps DEF JobsOK
<1>2. Submitted = {}
  <2>1. Len(jobs) \in Nat
    BY DEF JobsOK
  <2> QED
    BY <1>1, <2>1 DEF Submitted
<1> QED
  BY <1>1, <1>2 DEF JobsOK

LEMMA JobsDated ==
  ASSUME JobsOK, NEW f \in [DOMAIN jobs -> Int],
         jobs' = [i \in DOMAIN jobs |-> [jobs[i] EXCEPT !.dated = f[i]]]
  PROVE  JobsOK' /\ Loops(jobs') = Loops(jobs) /\ Submitted = {}
<1>1. jobs' \in Seq(Job) /\ Loops(jobs') = Loops(jobs) /\ Len(jobs') = Len(jobs)
  BY DatedAnew DEF JobsOK
<1>2. Submitted = {}
  <2>1. Len(jobs) \in Nat
    BY DEF JobsOK
  <2> QED
    BY <1>1, <2>1 DEF Submitted
<1> QED
  BY <1>1, <1>2 DEF JobsOK

LEMMA JobsPast ==
  ASSUME JobsOK, jobs' = [i \in DOMAIN jobs |-> [jobs[i] EXCEPT !.dated = Past]]
  PROVE  JobsOK' /\ Loops(jobs') = Loops(jobs) /\ Submitted = {}
<1> DEFINE f == [i \in DOMAIN jobs |-> Past]
<1>1. f \in [DOMAIN jobs -> Int] /\ \A i \in DOMAIN jobs : f[i] = Past
  OBVIOUS
<1> HIDE DEF f
<1>2. jobs' = [i \in DOMAIN jobs |-> [jobs[i] EXCEPT !.dated = f[i]]]
  BY <1>1
<1> QED
  BY <1>1, <1>2, JobsDated

LEMMA JobsStep ==
  ASSUME Inv, [Next]_vars
  PROVE  /\ JobsOK' /\ OneIn(jobs')
         /\ Loops(jobs) = {} /\ ~LoopSubmits => Loops(jobs') = {}
         /\ (\E new \in Submitted : new.by = "loop") => LoopSubmits
<1>0. JobsOK /\ OneIn(jobs) /\ StartsOK /\ NamesOK
  BY DEF Inv, TypesOK, BehindNone
<1>1. CASE LeavesJobs \/ UNCHANGED vars
  <2>1. jobs' = jobs
    BY <1>1, JobsUnchanged DEF vars
  <2>2. Submitted = {}
    BY <1>0, <2>1 DEF Submitted, JobsOK
  <2> QED
    BY <1>0, <2>1, <2>2 DEF JobsOK
<1>2. ASSUME NEW m \in Maintenance, LoopMaintains(m)
      PROVE  JobsOK' /\ OneIn(jobs') /\ (Loops(jobs) = {} => Loops(jobs') = {})
             /\ \A new \in Submitted : new.by # "loop"
  <2> DEFINE j == [kind |-> m, by |-> "upkeep", dated |-> Past]
  <2>1. j \in Job /\ j.by = "upkeep"
    BY DEF Job
  <2>2. Added(j)
    BY <1>2 DEF LoopMaintains, Added
  <2> HIDE DEF j
  <2> QED
    BY <1>0, <2>1, <2>2, JobsAdded
<1>3. ASSUME NEW s \in Starters, Submits(s) \/ Protects(s)
      PROVE  /\ JobsOK' /\ OneIn(jobs')
             /\ s # "loop" => /\ Loops(jobs) = {} => Loops(jobs') = {}
                              /\ \A new \in Submitted : new.by # "loop"
  <2>1. PICK d \in Int, kind \in {"Backup", "Offline"} :
          Added([kind |-> kind, by |-> s, dated |-> d])
    <3>1. CASE Submits(s)
      <4>1. starts[s].taken \in SUBSET Nat /\ IsFiniteSet(starts[s].taken)
        BY <1>0 DEF StartsOK, NamesOK, StartForm
      <4>2. FreeSecond(starts[s].taken) \in Int
        BY <4>1, SecondIsFree
      <4> QED
        BY <3>1, <4>2 DEF Submits, Added
    <3>2. CASE Protects(s)
      BY <3>2 DEF Protects, Added
    <3> QED
      BY <1>3, <3>1, <3>2
  <2> DEFINE j == [kind |-> kind, by |-> s, dated |-> d]
  <2>2. j \in Job /\ j.by = s
    BY DEF Job
  <2>3. s = "loop" => Loops(jobs) = {}
    <3>1. starts[s].step # "none"
      BY <1>3 DEF Submits, Protects
    <3> QED
      BY <3>1 DEF Inv, BehindNone, Starting
  <2>4. Added(j)
    BY <2>1
  <2> HIDE DEF j
  <2> QED
    BY <1>0, <2>2, <2>3, <2>4, JobsAdded
<1>4. CASE JobEnds \/ JobFails
  BY <1>0, <1>4, JobsTaken DEF JobEnds, JobFails
<1>5. CASE RecoveryChanges
  <2>1. Added(Recovery) \/ (jobs # <<>> /\ jobs' = Tail(jobs))
    BY <1>5 DEF RecoveryChanges, Added
  <2>2. Recovery \in Job /\ Recovery.by = "call"
    BY DEF Recovery, Job, Starters
  <2> QED
    BY <1>0, <2>1, <2>2, JobsTaken, JobsAdded
<1>6. CASE Suspends \/ TimePasses
  <2>1. jobs' = [i \in DOMAIN jobs |-> [jobs[i] EXCEPT !.dated = Past]]
    BY <1>6 DEF Suspends, TimePasses
  <2> QED
    BY <1>0, <2>1, JobsPast DEF OneIn
<1>7. CASE SecondPasses
  <2> DEFINE f == [i \in DOMAIN jobs |-> IF jobs[i].dated = Past THEN Past ELSE jobs[i].dated - 1]
  <2>1. f \in [DOMAIN jobs -> Int]
    <3>1. \A i \in DOMAIN jobs : jobs[i] \in Job
      BY <1>0 DEF JobsOK
    <3>2. \A i \in DOMAIN jobs : jobs[i].dated \in Int
      BY <3>1 DEF Job
    <3> QED
      BY <3>2
  <2>2. jobs' = [i \in DOMAIN jobs |-> [jobs[i] EXCEPT !.dated = f[i]]]
    BY <1>7 DEF SecondPasses
  <2> HIDE DEF f
  <2> QED
    BY ZenonT(60), <1>0, <2>1, <2>2, JobsDated DEF OneIn
<1>8. CASE Restarts
  <2>1. jobs' = <<Recovery>> \/ jobs' = <<>>
    BY <1>8 DEF Restarts
  <2>2. Recovery \in Job /\ Recovery.by = "call"
    BY DEF Recovery, Job, Starters
  <2>3. /\ JobsOK' /\ Loops(jobs') = {} /\ Len(jobs') \in {0, 1}
        /\ Len(jobs') = 1 => jobs'[1] = Recovery
    <3>1. CASE jobs' = <<Recovery>>
      <4>1. /\ jobs' \in Seq(Job) /\ Len(jobs') = 1 /\ DOMAIN jobs' = {1}
            /\ jobs'[1] = Recovery
        BY <2>2, <3>1
      <4> QED
        BY <2>2, <4>1 DEF JobsOK, Loops
    <3>2. CASE jobs' = <<>>
      BY <3>2 DEF JobsOK, Loops
    <3> QED
      BY <2>1, <3>1, <3>2
  <2>4. Submitted \subseteq {Recovery}
    <3>1. Len(jobs) \in Nat
      BY <1>0 DEF JobsOK
    <3> QED
      BY <2>3, <3>1 DEF Submitted
  <2> QED
    BY <2>2, <2>3, <2>4 DEF OneIn
<1> QED
  BY <1>1, <1>2, <1>3, <1>4, <1>5, <1>6, <1>7, <1>8, Steps DEF LoopSubmits, Starters

-----------------------------------------------------------------------------
(* What a step does to the clocks. *)
Older(minutes) == since' = [c \in Clocks |-> Aged(c, minutes)]
Forgets == since' = [since EXCEPT !["attempt"] = Never, !["own"] = Never]

LEMMA ClocksMove ==
  ASSUME [Next]_vars
  PROVE  \/ UNCHANGED since
         \/ \E m \in Maintenance : SetAge(m, 0)
         \/ \E s \in Starters : Attempts(s) /\ (s = "loop" => LoopSubmits)
         \/ Forgets \/ Older(1) \/ Older(2 * Interval)
<1>1. CASE LeavesJobs \/ JobFails \/ RecoveryChanges \/ Restarts \/ SecondPasses \/ UNCHANGED vars
  BY <1>1 DEF LeavesJobs, LoopSleepsOut, LoopNotified, LoopDecides, LoopReturns, LoopConsiders,
       ReadsFacts, ReadsNames, StartFails, Probes, WatchSteps, WatchLooks, WatchReturns,
       JobRecords, MachineChanges, Calls, Pauses, JobFails, RecoveryChanges, Restarts,
       SecondPasses, vars
<1>2. CASE \E m \in Maintenance : LoopMaintains(m)
  BY <1>2 DEF LoopMaintains
<1>3. CASE \E s \in Starters : Submits(s) \/ Protects(s)
  BY <1>3 DEF Submits, Protects, LoopSubmits
<1>4. CASE JobEnds
  BY <1>4 DEF JobEnds, Forgets
<1>5. CASE Suspends \/ TimePasses
  BY <1>5 DEF Suspends, TimePasses, Older
<1> QED
  BY <1>1, <1>2, <1>3, <1>4, <1>5, Steps

LEMMA AgedType ==
  ASSUME ClocksOK, NEW c \in Clocks, NEW minutes \in Nat
  PROVE  /\ Aged(c, minutes) \in Never .. Oldest[c]
         /\ Aged(c, minutes) = Never <=> since[c] = Never
         /\ since[c] # Never => Aged(c, minutes) = Lesser(since[c] + minutes, Oldest[c])
         /\ since[c] # Never => Aged(c, minutes) >= since[c]
<1>1. since[c] \in Never .. Oldest[c] /\ since[c] \in Int
  BY DEF ClocksOK
<1>2. Oldest[c] \in Nat
  BY DEF Oldest, Clocks
<1> QED
  BY <1>1, <1>2 DEF Aged, Lesser

(* The two clocks of the runs. *)
RunsAgree ==
  since["own"] # Never =>
    since["attempt"] # Never /\ since["own"] >= Lesser(since["attempt"], Interval)

LEMMA OlderAgree ==
  ASSUME ClocksOK, RunsAgree, NEW minutes \in Nat, Older(minutes)
  PROVE  /\ ClocksOK' /\ RunsAgree'
         /\ ~Fresh(since["own"]) => ~Fresh(since'["own"])
<1>1. since' = [c \in Clocks |-> Aged(c, minutes)]
  BY DEF Older
<1>2. \A c \in Clocks : since'[c] \in Never .. Oldest[c]
  BY <1>1, AgedType
<1>3. ClocksOK'
  <2>1. \A c \in Clocks : Oldest[c] \in Int
    BY DEF Oldest, Clocks
  <2>2. \A c \in Clocks : Aged(c, minutes) \in Int
    BY <1>1, <1>2, <2>1
  <2> QED
    BY <1>1, <1>2, <2>2 DEF ClocksOK
<1>4. "own" \in Clocks /\ "attempt" \in Clocks
      /\ Oldest["own"] = Interval /\ Oldest["attempt"] = 2 * Interval
  BY DEF Clocks, Oldest
<1>5. /\ since["own"] \in Never .. Interval /\ since["attempt"] \in Never .. 2 * Interval
      /\ since'["own"] = Aged("own", minutes) /\ since'["attempt"] = Aged("attempt", minutes)
  BY <1>1, <1>4 DEF ClocksOK
<1>6. /\ since["own"] = Never => since'["own"] = Never
      /\ since["own"] # Never => since'["own"] = Lesser(since["own"] + minutes, Interval)
      /\ since["attempt"] # Never =>
           since'["attempt"] = Lesser(since["attempt"] + minutes, 2 * Interval)
  BY <1>4, <1>5, AgedType
<1>7. RunsAgree'
  <2>1. CASE since["own"] = Never
    BY <1>6, <2>1 DEF RunsAgree
  <2>2. CASE since["own"] # Never
    <3> DEFINE a == since["attempt"]
               o == since["own"]
    <3>1. a \in 0 .. 2 * Interval /\ o \in 0 .. Interval /\ o >= Lesser(a, Interval)
      BY <1>5, <2>2 DEF RunsAgree
    <3>2. since'["own"] = Lesser(o + minutes, Interval)
          /\ since'["attempt"] = Lesser(a + minutes, 2 * Interval)
      BY <1>6, <2>2, <3>1
    <3> HIDE DEF a, o
    <3>3. /\ Lesser(a + minutes, 2 * Interval) # Never
          /\ Lesser(o + minutes, Interval)
               >= Lesser(Lesser(a + minutes, 2 * Interval), Interval)
      BY <3>1 DEF Lesser
    <3> QED
      BY <3>2, <3>3 DEF RunsAgree
  <2> QED
    BY <2>1, <2>2
<1>8. ~Fresh(since["own"]) => ~Fresh(since'["own"])
  BY <1>5, <1>6 DEF Fresh, Lesser
<1> QED
  BY <1>3, <1>7, <1>8

LEMMA ClocksStep ==
  ASSUME Inv, [Next]_vars
  PROVE  /\ ClocksOK' /\ RunsAgree'
         /\ ~Fresh(since["own"]) /\ ~LoopSubmits => ~Fresh(since'["own"])
<1>0. ClocksOK /\ RunsAgree
  BY DEF Inv, TypesOK, ClocksAgree, RunsAgree
<1>1. "own" \in Clocks /\ "attempt" \in Clocks /\ Maintenance \subseteq Clocks
      /\ \A c \in Clocks : Oldest[c] \in Nat
  BY DEF Clocks, Oldest
<1>2. CASE UNCHANGED since
  BY <1>0, <1>2 DEF ClocksOK, RunsAgree
<1>3. CASE \E m \in Maintenance : SetAge(m, 0)
  <2>1. PICK m \in Maintenance : since' = [since EXCEPT ![m] = 0]
    BY <1>3 DEF SetAge
  <2>2. /\ since' \in [Clocks -> Int] /\ \A c \in Clocks : since'[c] \in {since[c], 0}
        /\ since'["own"] = since["own"] /\ since'["attempt"] = since["attempt"]
    BY <1>0, <1>1, <2>1 DEF ClocksOK
  <2>3. ClocksOK'
    BY <1>0, <1>1, <2>2 DEF ClocksOK
  <2> QED
    BY <1>0, <2>2, <2>3 DEF RunsAgree
<1>4. CASE \E s \in Starters : Attempts(s) /\ (s = "loop" => LoopSubmits)
  <2>1. PICK s \in Starters : Attempts(s) /\ (s = "loop" => LoopSubmits)
    BY <1>4
  <2>2. /\ since' \in [Clocks -> Int] /\ \A c \in Clocks : since'[c] \in {since[c], 0}
        /\ since'["attempt"] = 0
        /\ since'["own"] = IF s = "loop" THEN 0 ELSE since["own"]
    BY <1>0, <1>1, <2>1 DEF ClocksOK, Attempts
  <2>3. ClocksOK'
    BY <1>0, <1>1, <2>2 DEF ClocksOK
  <2>4. RunsAgree'
    <3>1. since["own"] \in Never .. Oldest["own"]
      BY <1>0, <1>1 DEF ClocksOK
    <3>2. Lesser(0, Interval) = 0
      BY DEF Lesser
    <3>3. since'["own"] # Never => since'["own"] >= 0
      BY <1>1, <2>2, <3>1
    <3> QED
      BY <2>2, <3>2, <3>3 DEF RunsAgree
  <2> QED
    BY <2>1, <2>2, <2>3, <2>4
<1>5. CASE Forgets
  <2>1. /\ since' \in [Clocks -> Int] /\ \A c \in Clocks : since'[c] \in {since[c], Never}
        /\ since'["own"] = Never
    BY <1>0, <1>1, <1>5 DEF ClocksOK, Forgets
  <2>2. ClocksOK'
    BY <1>0, <1>1, <2>1 DEF ClocksOK
  <2> QED
    BY <2>1, <2>2 DEF RunsAgree, Fresh
<1>6. CASE Older(1) \/ Older(2 * Interval)
  <2>1. PICK minutes \in Nat : Older(minutes)
    BY <1>6
  <2> QED
    BY <1>0, <2>1, OlderAgree
<1> QED
  BY <1>2, <1>3, <1>4, <1>5, <1>6, ClocksMove

-----------------------------------------------------------------------------
(* What a step does to the loop and to the starts. *)

LEMMA CountsStep ==
  ASSUME FactsOK, [Next]_vars
  PROVE  unexplained' \in Nat /\ pause' \in Nat /\ left' \in Nat
<1>1. unexplained \in Nat /\ pause \in Nat /\ left \in Nat
  BY DEF FactsOK
<1>2. unexplained' \in {unexplained, unexplained + 1, 0}
  BY DEF Next, LoopSteps, StartSteps, WatchSteps, LoopSleepsOut, LoopNotified,
       LoopDecides, LoopReturns, LoopConsiders, LoopMaintains, ReadsFacts, ReadsNames,
       StartFails, Probes, WatchLooks, WatchReturns, Submits, Protects, JobRecords,
       JobEnds, JobFails, RecoveryChanges, Suspends, Restarts, TimePasses, SecondPasses,
       MachineChanges, Calls, Pauses, vars
<1>3. pause' \in {pause, Sooner(pause)} \cup 0 .. 2
  <2>1. UNCHANGED pause \/ pause' = Sooner(pause) \/ pause' = 0
        \/ \E minutes \in 0 .. 2 : Pauses(minutes)
    BY DEF Next, LoopSteps, StartSteps, WatchSteps, LoopSleepsOut, LoopNotified,
       LoopDecides, LoopReturns, LoopConsiders, LoopMaintains, ReadsFacts, ReadsNames,
       StartFails, Probes, WatchLooks, WatchReturns, Submits, Protects, JobRecords,
       JobEnds, JobFails, RecoveryChanges, Suspends, Restarts, TimePasses, SecondPasses,
       MachineChanges, Calls, machine, vars
  <2>2. (\E minutes \in 0 .. 2 : Pauses(minutes)) => pause' \in 0 .. 2
    BY DEF Pauses
  <2> QED
    BY <2>1, <2>2
<1>4. left' = left \/ \E what : Happens(what)
  BY DEF Next, LoopSteps, StartSteps, WatchSteps, LoopSleepsOut, LoopNotified,
       LoopDecides, LoopReturns, LoopConsiders, LoopMaintains, ReadsFacts, ReadsNames,
       StartFails, Probes, WatchLooks, WatchReturns, Submits, Protects, JobRecords,
       JobEnds, JobFails, RecoveryChanges, Suspends, Restarts, TimePasses, SecondPasses,
       MachineChanges, Calls, Pauses, vars
<1>5. left' \in Nat
  BY <1>1, <1>4 DEF Happens
<1>6. pause' \in Nat
  BY <1>1, <1>3 DEF Sooner
<1> QED
  BY <1>1, <1>2, <1>5, <1>6

LEMMA FactsStep ==
  ASSUME FactsOK, [Next]_vars
  PROVE  FactsOK'
<1>1. gate' \in {"open", "power", "disk"}
  BY DEF FactsOK, Next, LoopSteps, StartSteps, WatchSteps, LoopSleepsOut, LoopNotified,
       LoopDecides, LoopReturns, LoopConsiders, LoopMaintains, ReadsFacts, ReadsNames,
       StartFails, Probes, WatchLooks, WatchReturns, Submits, Protects, JobRecords,
       JobEnds, JobFails, RecoveryChanges, Suspends, Restarts, TimePasses, SecondPasses,
       MachineChanges, Calls, Pauses, machine, vars
<1>2. CASE \E answer \in {"yes", "no", "unknown"} :
             WatchLooks(answer) \/ \E s \in Starters : Probes(s, answer)
  <2>1. PICK answer \in {"yes", "no", "unknown"} :
          WatchLooks(answer) \/ \E s \in Starters : Probes(s, answer)
    BY <1>2
  <2>2. /\ UNCHANGED <<up, restoring, parked>>
        /\ known' = known \/ known' = TRUE \/ known' = FALSE \/ known' = (answer = "yes")
        /\ permit' = permit \/ permit' = TRUE
        /\ unprotected' = unprotected \/ unprotected' = TRUE \/ unprotected' = FALSE
    BY <2>1 DEF WatchLooks, Probes, machine, recovery
  <2>3. (answer = "yes") \in BOOLEAN
    OBVIOUS
  <2>4. /\ up' \in BOOLEAN /\ known' \in BOOLEAN /\ restoring' \in BOOLEAN
        /\ parked' \in BOOLEAN /\ permit' \in BOOLEAN /\ unprotected' \in BOOLEAN
    BY Zenon, <2>2, <2>3 DEF FactsOK
  <2> QED
    BY <1>1, <2>4, CountsStep DEF FactsOK
<1>3. CASE LoopSteps \/ WatchReturns \/ (\E s \in Starters : ReadsFacts(s) \/ ReadsNames(s)
             \/ Submits(s) \/ Protects(s) \/ StartFails(s)) \/ UNCHANGED vars
  <2>1. /\ UNCHANGED <<up, known, restoring, parked>>
        /\ permit' = permit \/ permit' = TRUE \/ permit' = FALSE
        /\ unprotected' = unprotected \/ unprotected' = FALSE
    BY <1>3 DEF LoopSteps, LoopSleepsOut, LoopNotified,
       LoopDecides, LoopReturns, LoopConsiders, LoopMaintains, ReadsFacts, ReadsNames,
       StartFails, WatchReturns, Submits, Protects, machine, recovery, vars
  <2>2. /\ up' \in BOOLEAN /\ known' \in BOOLEAN /\ restoring' \in BOOLEAN
        /\ parked' \in BOOLEAN /\ permit' \in BOOLEAN /\ unprotected' \in BOOLEAN
    BY Zenon, <2>1 DEF FactsOK
  <2> QED
    BY <1>1, <2>2, CountsStep DEF FactsOK
<1>4. CASE JobRecords \/ JobEnds \/ JobFails \/ (\E unlocks \in BOOLEAN : Calls(unlocks))
           \/ (\E minutes \in 0 .. 2 : Pauses(minutes)) \/ MachineChanges
           \/ RecoveryChanges \/ Suspends \/ Restarts \/ TimePasses \/ SecondPasses
  <2>1. /\ up' = up \/ up' = ~up
        /\ known' = known \/ known' = TRUE
        /\ restoring' = restoring \/ restoring' = TRUE \/ restoring' = FALSE
        /\ parked' = parked \/ parked' = TRUE \/ parked' = FALSE
        /\ permit' = permit \/ permit' = TRUE \/ permit' = FALSE
        /\ unprotected' = unprotected \/ unprotected' = FALSE
    BY <1>4 DEF JobRecords, JobEnds, JobFails, RecoveryChanges, Suspends, Restarts,
         TimePasses, SecondPasses, MachineChanges, Calls, Pauses, machine, recovery
  <2>2. /\ up' \in BOOLEAN /\ known' \in BOOLEAN /\ restoring' \in BOOLEAN
        /\ parked' \in BOOLEAN /\ permit' \in BOOLEAN /\ unprotected' \in BOOLEAN
    BY Zenon, <2>1 DEF FactsOK
  <2> QED
    BY <1>1, <2>2, CountsStep DEF FactsOK
<1> QED
  BY <1>2, <1>3, <1>4 DEF Next, WatchSteps, StartSteps

LEMMA WatchStep ==
  ASSUME WatchOK, [Next]_vars
  PROVE  WatchOK'
<1>1. ASSUME NEW answer \in {"yes", "no", "unknown"}, WatchLooks(answer) PROVE WatchOK'
  <2>1. \/ watch' = [at |-> "reconnecting", sleep |-> 0, quiet |-> 1,
                     believes |-> TRUE, saw |-> answer]
        \/ watch' = [at |-> "asleep", sleep |-> 1, quiet |-> 1,
                     believes |-> FALSE, saw |-> answer]
        \/ watch' = [watch EXCEPT !.sleep = 1, !.saw = answer]
    BY <1>1 DEF WatchLooks
  <2>2. CASE watch' = [at |-> "reconnecting", sleep |-> 0, quiet |-> 1,
                      believes |-> TRUE, saw |-> answer]
    BY <2>2 DEF WatchOK
  <2>3. CASE watch' = [at |-> "asleep", sleep |-> 1, quiet |-> 1,
                      believes |-> FALSE, saw |-> answer]
    BY <2>3 DEF WatchOK
  <2>4. CASE watch' = [watch EXCEPT !.sleep = 1, !.saw = answer]
    BY <2>4 DEF WatchOK
  <2> QED
    BY <2>1, <2>2, <2>3, <2>4
<1>2. CASE Restarts
  BY <1>2 DEF WatchOK, Restarts, Watching
<1>3. CASE watch' = [watch EXCEPT !.at = "asleep", !.sleep = 1]
  BY <1>3 DEF WatchOK
<1>6. CASE watch' = [watch EXCEPT !.quiet = 0, !.saw = "nothing"]
  BY <1>6 DEF WatchOK
<1>4. CASE TimePasses
  <2>1. watch' = [watch EXCEPT !.sleep = Sooner(watch.sleep), !.quiet = Sooner(watch.quiet),
                               !.saw = "nothing"]
    BY <1>4 DEF TimePasses
  <2>2. Sooner(watch.sleep) \in Nat /\ Sooner(watch.quiet) \in Nat
    BY DEF WatchOK, Sooner
  <2> QED
    BY <2>1, <2>2 DEF WatchOK
<1>5. CASE UNCHANGED watch
  BY <1>5 DEF WatchOK
<1> QED
  BY <1>1, <1>2, <1>3, <1>4, <1>5, <1>6 DEF Next, LoopSteps, StartSteps, WatchSteps,
       WatchReturns, Suspends, LoopSleepsOut,
       LoopNotified, LoopDecides, LoopReturns, LoopConsiders, LoopMaintains, ReadsFacts,
       ReadsNames, StartFails, Probes, Submits, Protects, JobRecords,
       JobEnds, JobFails, RecoveryChanges, SecondPasses,
       MachineChanges, Calls, Pauses, vars

(* How the loop goes on. *)
LoopMoves ==
  \/ UNCHANGED loop
  \/ loop.at = "asleep" /\ Ticks
  \/ \E m \in Maintenance : loop.at = m /\
       \/ loop' = [loop EXCEPT !.submits = TRUE]
       \/ loop' = [loop EXCEPT !.at = After(m)]
       \/ loop' = [loop EXCEPT !.at = After(m), !.submits = FALSE]
  \/ LoopDecides
  \/ loop.at = "starting" /\ ~Starting /\ loop' = [Asleep EXCEPT !.sleep = 1]
  \/ Restarts
  \/ loop.at \in {"asleep", "starting"} /\ loop' = [loop EXCEPT !.sleep = Sooner(@)]

LEMMA LoopGoes == [Next]_vars => LoopMoves
<1> SUFFICES ASSUME [Next]_vars PROVE LoopMoves
  OBVIOUS
<1>1. CASE LoopSleepsOut \/ LoopNotified \/ LoopReturns \/ LoopDecides \/ Restarts
  BY <1>1 DEF LoopMoves, LoopSleepsOut, LoopNotified, LoopReturns, Starting
<1>2. CASE \E m \in Maintenance : LoopConsiders(m) \/ LoopMaintains(m)
  BY <1>2 DEF LoopMoves, LoopConsiders, LoopMaintains
<1>3. CASE TimePasses
  BY <1>3 DEF LoopMoves, TimePasses
<1>4. CASE UNCHANGED loop
  BY <1>4 DEF LoopMoves
<1> QED
  BY <1>1, <1>2, <1>3, <1>4 DEF Next, LoopSteps, StartSteps, WatchSteps,
       ReadsFacts, ReadsNames, StartFails, Probes, WatchLooks, WatchReturns, Submits, Protects,
       JobRecords, JobEnds, JobFails, RecoveryChanges, Suspends, SecondPasses,
       MachineChanges, Calls, Pauses, vars

LEMMA AfterType ==
  ASSUME NEW m \in Maintenance
  PROVE  After(m) \in {"decide"} \cup Maintenance
BY DEF After

LEMMA TicksType ==
  ASSUME ClocksOK, FactsOK, LoopOK, Ticks
  PROVE  LoopOK' /\ loop'.at \in {"decide"} \cup Maintenance
         /\ loop'.busy = Busy /\ loop'.age = since["attempt"]
<1>1. since["attempt"] \in Int
  BY DEF ClocksOK, Clocks
<1>2. PICK at \in {"decide"} \cup Maintenance, configured \in BOOLEAN, paused \in BOOLEAN,
           busy \in BOOLEAN, away \in BOOLEAN :
        /\ loop' = [loop EXCEPT !.at = at, !.configured = configured, !.paused = paused,
                                !.busy = busy, !.age = since["attempt"], !.away = away]
        /\ busy = Busy
  <2>1. (IF restoring \/ Maintenance = {} THEN "decide"
         ELSE IF "Compact" \in Maintenance THEN "Compact" ELSE "Check")
           \in {"decide"} \cup Maintenance
    OBVIOUS
  <2>2. (~restoring) \in BOOLEAN /\ Busy \in BOOLEAN /\ unprotected \in BOOLEAN
    BY Zenon DEF FactsOK, Busy
  <2>3. (pause > 0) \in BOOLEAN
    BY DEF FactsOK
  <2> QED
    BY Zenon, <2>1, <2>2, <2>3 DEF Ticks
<1> QED
  BY ZenonT(60), <1>1, <1>2 DEF LoopOK, LoopForm

LEMMA AsleepForm == Asleep \in LoopForm
BY DEF Asleep, LoopForm

LEMMA LoopStep ==
  ASSUME ClocksOK, FactsOK, LoopOK, [Next]_vars
  PROVE  LoopOK'
<1>1. CASE Ticks
  BY <1>1, TicksType
<1>2. CASE \E m \in Maintenance : loop.at = m /\
       \/ loop' = [loop EXCEPT !.submits = TRUE]
       \/ loop' = [loop EXCEPT !.at = After(m)]
       \/ loop' = [loop EXCEPT !.at = After(m), !.submits = FALSE]
  BY ZenonT(60), <1>2, AfterType DEF LoopOK, LoopForm
<1>3. CASE LoopDecides
  <2>1. CASE loop' = [Asleep EXCEPT !.sleep = 1]
    BY <2>1, AsleepForm DEF LoopForm, LoopOK
  <2>2. CASE \E jitter \in 0 .. CatchUpWindow :
               loop' = [Asleep EXCEPT !.sleep = jitter, !.deferred = TRUE]
    <3>1. PICK jitter \in 0 .. CatchUpWindow :
            loop' = [Asleep EXCEPT !.sleep = jitter, !.deferred = TRUE]
      BY <2>2
    <3>2. jitter \in Nat
      OBVIOUS
    <3> QED
      BY <3>1, <3>2, AsleepForm DEF LoopForm, LoopOK
  <2>3. CASE loop' = [Asleep EXCEPT !.at = "starting"]
    BY <2>3, AsleepForm DEF LoopForm, LoopOK
  <2> QED
    BY <1>3, <2>1, <2>2, <2>3 DEF LoopDecides
<1>4. CASE Restarts
  BY <1>4, AsleepForm DEF Restarts, LoopOK
<1>7. CASE loop' = [Asleep EXCEPT !.sleep = 1]
  BY <1>7, AsleepForm DEF LoopForm, LoopOK
<1>5. CASE loop' = [loop EXCEPT !.sleep = Sooner(@)]
  <2>1. Sooner(loop.sleep) \in Nat
    BY DEF LoopOK, LoopForm, Sooner
  <2> QED
    BY <1>5, <2>1 DEF LoopOK, LoopForm
<1>6. CASE UNCHANGED loop
  BY <1>6 DEF LoopOK, LoopForm
<1> QED
  BY <1>1, <1>2, <1>3, <1>4, <1>5, <1>6, <1>7, LoopGoes DEF LoopMoves

(* How a task that starts a backup goes on, and nobody with it.            *)
Goes(s, new) ==
  /\ starts' = [starts EXCEPT ![s] = new] /\ new \in StartForm /\ IsFiniteSet(new.taken)
  /\ s = "loop" /\ new.step # "none" => Starting \/ (loop.at = "decide" /\ ~Waits /\ loop'.at = "starting")

LEMMA GoesOn ==
  ASSUME StartsOK, NamesOK, NEW s \in Starters, NEW new, Goes(s, new)
  PROVE  /\ StartsOK' /\ \A t \in Starters : IsFiniteSet(starts'[t].taken)
         /\ Starting' => Starting \/ (loop.at = "decide" /\ ~Waits /\ loop'.at = "starting")
<1>1. /\ starts' \in [Starters -> StartForm] /\ starts'[s] = new
      /\ \A t \in Starters \ {s} : starts'[t] = starts[t]
  BY DEF StartsOK, Goes
<1>2. ASSUME NEW t \in Starters PROVE IsFiniteSet(starts'[t].taken)
  BY <1>1 DEF Goes, NamesOK
<1>3. "loop" \in Starters
  BY DEF Starters
<1> QED
  BY <1>1, <1>2, <1>3 DEF StartsOK, Goes, Starting

LEMMA IdleForm == Idle \in StartForm /\ IsFiniteSet(Idle.taken) /\ Idle.step = "none"
BY FS_EmptySet DEF Idle, StartForm

(* What is dated ahead comes nearer. *)
Nearer(names) == {d - 1 : d \in names \ {0}}

LEMMA NearerType ==
  ASSUME NEW names \in SUBSET Nat, IsFiniteSet(names)
  PROVE  Nearer(names) \in SUBSET Nat /\ IsFiniteSet(Nearer(names))
<1> DEFINE S == names \ {0}
           f == [d \in S |-> d - 1]
<1>1. IsFiniteSet(S)
  BY FS_RemoveElement
<1>2. \A d \in S : f[d] = d - 1 /\ d - 1 \in Nat
  OBVIOUS
<1>3. f \in Surjection(S, Nearer(names))
  BY DEF Surjection, Nearer
<1>4. IsFiniteSet(Nearer(names))
  <2> HIDE DEF f, S
  <2> QED
    BY <1>1, <1>3, FS_Surjection
<1> QED
  BY <1>2, <1>4 DEF Nearer

LEMMA SubmitsEnd ==
  ASSUME StartsOK, LoopSubmits
  PROVE  Starting /\ ~Starting' /\ UNCHANGED loop
<1>1. starts' = [starts EXCEPT !["loop"] = Idle] /\ starts["loop"].step # "none"
  BY DEF LoopSubmits, Submits, Protects
<1> QED
  BY <1>1, IdleForm DEF LoopSubmits, Submits, Protects, StartsOK, Starting, Starters

Begins == loop.at = "decide" /\ ~Waits /\ loop'.at = "starting"

LEMMA StartsGo ==
  ASSUME TypesOK, [Next]_vars
  PROVE  \/ UNCHANGED starts \/ Restarts \/ TimePasses \/ SecondPasses
         \/ \E s \in Starters : \E new : Goes(s, new)
<1>0. StartsOK /\ NamesOK /\ FactsOK /\ LoopOK
  BY DEF TypesOK
<1>f. \A s \in Starters : starts[s] \in StartForm /\ IsFiniteSet(starts[s].taken)
  BY <1>0 DEF StartsOK, NamesOK
<1>1. ASSUME NEW s \in Starters, ReadsFacts(s) PROVE \E new : Goes(s, new)
  <2>1. (pause > 0) \in BOOLEAN /\ (gate = "power") \in BOOLEAN
    BY <1>0 DEF FactsOK
  <2>2. PICK paused \in BOOLEAN, held \in BOOLEAN :
          starts' = [starts EXCEPT ![s].step = "probe", ![s].paused = paused, ![s].held = held]
    BY <1>1, <2>1 DEF ReadsFacts
  <2> DEFINE new == [starts[s] EXCEPT !.step = "probe", !.paused = paused, !.held = held]
  <2>3. new \in StartForm /\ new.taken = starts[s].taken /\ new.step = "probe"
    BY <1>f DEF StartForm
  <2>4. starts' = [starts EXCEPT ![s] = new]
    BY <1>0, <2>2 DEF StartsOK
  <2>5. s = "loop" => Starting
    BY <1>1 DEF ReadsFacts, Starting
  <2> HIDE DEF new
  <2> QED
    BY <1>f, <2>3, <2>4, <2>5 DEF Goes
<1>2. ASSUME NEW s \in Starters, NEW answer \in {"yes", "no", "unknown"}, Probes(s, answer)
      PROVE  \E new : Goes(s, new)
  <2> DEFINE new == [Idle EXCEPT !.step = Verdict(s, answer)]
  <2>1. Verdict(s, answer) \in {"none", "protect", "names"}
    BY DEF Verdict
  <2>2. new \in StartForm /\ new.taken = Idle.taken
    BY <2>1, IdleForm DEF StartForm
  <2>3. starts' = [starts EXCEPT ![s] = new] /\ (s = "loop" => Starting)
    BY <1>2 DEF Probes, Starting
  <2> HIDE DEF new
  <2> QED
    BY <2>2, <2>3, IdleForm DEF Goes
<1>3. ASSUME NEW s \in Starters, ReadsNames(s) PROVE \E new : Goes(s, new)
  <2> DEFINE new == [starts[s] EXCEPT !.step = "submit", !.taken = taken]
  <2>1. new \in StartForm /\ new.taken = taken
    BY <1>0, <1>f DEF StartForm, NamesOK
  <2>2. starts' = [starts EXCEPT ![s] = new] /\ (s = "loop" => Starting)
    BY <1>3, <1>0 DEF ReadsNames, Starting, StartsOK
  <2> HIDE DEF new
  <2> QED
    BY <1>0, <2>1, <2>2 DEF Goes, NamesOK
<1>4. ASSUME NEW s \in Starters, Submits(s) \/ Protects(s) \/ StartFails(s)
      PROVE  \E new : Goes(s, new)
  <2>1. starts' = [starts EXCEPT ![s] = Idle]
    BY <1>4 DEF Submits, Protects, StartFails
  <2> QED
    BY <2>1, IdleForm DEF Goes
<1>5. ASSUME NEW s \in Starters, NEW step \in {"facts", "names"},
             starts' = [starts EXCEPT ![s].step = step], s = "loop" => Begins
      PROVE  \E new : Goes(s, new)
  <2> DEFINE new == [starts[s] EXCEPT !.step = step]
  <2>1. new \in StartForm /\ new.taken = starts[s].taken
    BY <1>f DEF StartForm
  <2>2. starts' = [starts EXCEPT ![s] = new]
    BY <1>5, <1>0 DEF StartsOK
  <2> HIDE DEF new
  <2> QED
    BY <1>f, <1>5, <2>1, <2>2 DEF Goes, Begins
<1>6. CASE LoopDecides
  <2>1. CASE UNCHANGED starts
    BY <2>1
  <2>2. CASE starts' = [starts EXCEPT !["loop"].step = "facts"] /\ Begins
    BY <1>5, <2>2 DEF Starters
  <2> QED
    BY <1>6, <2>1, <2>2 DEF LoopDecides, Begins, Asleep
<1>7. CASE \E answer \in {"yes", "no", "unknown"} : WatchLooks(answer)
  <2>1. UNCHANGED starts \/ starts' = [starts EXCEPT !["watch"].step = "facts"]
    BY <1>7 DEF WatchLooks
  <2> QED
    BY <1>5, <2>1 DEF Starters
<1>8. CASE \E unlocks \in BOOLEAN : Calls(unlocks)
  <2>1. starts' = [starts EXCEPT !["call"].step = "names"]
    BY <1>8 DEF Calls
  <2> QED
    BY <1>5, <2>1 DEF Starters
<1>9. CASE LoopSleepsOut \/ LoopNotified \/ LoopReturns \/ WatchReturns \/ UNCHANGED vars
           \/ (\E m \in Maintenance : LoopConsiders(m) \/ LoopMaintains(m))
           \/ JobRecords \/ JobEnds \/ JobFails \/ RecoveryChanges \/ Suspends \/ MachineChanges
           \/ (\E minutes \in 0 .. 2 : Pauses(minutes))
  BY <1>9 DEF LoopSleepsOut, LoopNotified, LoopReturns, WatchReturns, LoopConsiders,
       LoopMaintains, JobRecords, JobEnds, JobFails, RecoveryChanges, Suspends,
       MachineChanges, Pauses, vars
<1> QED
  BY <1>1, <1>2, <1>3, <1>4, <1>6, <1>7, <1>8, <1>9 DEF Next, LoopSteps, WatchSteps, StartSteps

LEMMA StartsStep ==
  ASSUME TypesOK, [Next]_vars
  PROVE  /\ StartsOK' /\ \A s \in Starters : IsFiniteSet(starts'[s].taken)
         /\ Starting' => Starting \/ Begins
<1>0. StartsOK /\ NamesOK
  BY DEF TypesOK
<1>f. \A s \in Starters : starts[s] \in StartForm /\ IsFiniteSet(starts[s].taken)
  BY <1>0 DEF StartsOK, NamesOK
<1>l. "loop" \in Starters
  BY DEF Starters
<1>1. CASE UNCHANGED starts
  BY <1>0, <1>1 DEF StartsOK, NamesOK, Starting
<1>2. CASE Restarts
  <2>1. starts' = [s \in Starters |-> Idle]
    BY <1>2 DEF Restarts
  <2> QED
    BY <1>l, <2>1, IdleForm DEF StartsOK, Starting
<1>3. CASE TimePasses
  <2>1. starts' = [s \in Starters |-> [starts[s] EXCEPT !.taken = {}]]
    BY <1>3 DEF TimePasses
  <2>2. \A s \in Starters : LET new == [starts[s] EXCEPT !.taken = {}]
                           IN  new \in StartForm /\ new.taken = {} /\ new.step = starts[s].step
    BY <1>f DEF StartForm
  <2> QED
    BY <1>l, <2>1, <2>2, FS_EmptySet DEF StartsOK, Starting
<1>4. CASE SecondPasses
  <2>1. starts' = [s \in Starters |-> [starts[s] EXCEPT !.taken = Nearer(starts[s].taken)]]
    BY <1>4 DEF SecondPasses, Nearer
  <2>2. ASSUME NEW s \in Starters
        PROVE  LET new == [starts[s] EXCEPT !.taken = Nearer(starts[s].taken)]
               IN  /\ new \in StartForm /\ IsFiniteSet(new.taken)
                   /\ new.step = starts[s].step
    <3>1. starts[s].taken \in SUBSET Nat /\ IsFiniteSet(starts[s].taken)
      BY <1>f DEF StartForm
    <3> QED
      BY <1>f, <3>1, NearerType DEF StartForm
  <2> QED
    BY <1>l, <2>1, <2>2 DEF StartsOK, Starting
<1>5. CASE \E s \in Starters : \E new : Goes(s, new)
  BY <1>0, <1>5, GoesOn DEF Begins
<1> QED
  BY <1>1, <1>2, <1>3, <1>4, <1>5, StartsGo

LEMMA NamesStep ==
  ASSUME TypesOK, [Next]_vars
  PROVE  NamesOK'
<1>0. StartsOK /\ NamesOK /\ JobsOK /\ taken \in SUBSET Nat /\ IsFiniteSet(taken)
  BY DEF TypesOK, NamesOK
<1>1. taken' \in SUBSET Nat /\ IsFiniteSet(taken')
  <2>1. CASE JobRecords
    <3>1. Head(jobs).dated \in Nat
      <4>1. Head(jobs) \in Job /\ Head(jobs).dated >= 0
        BY <1>0, <2>1, TailKeeps DEF JobRecords, JobsOK
      <4> QED
        BY <4>1 DEF Job
    <3>2. taken' = taken \cup {Head(jobs).dated}
      BY <2>1 DEF JobRecords
    <3> QED
      BY <1>0, <3>1, <3>2, FS_AddElement
  <2>2. CASE SecondPasses
    <3>1. taken' = Nearer(taken)
      BY <2>2 DEF SecondPasses, Nearer
    <3> QED
      BY <1>0, <3>1, NearerType
  <2>3. CASE taken' = {}
    BY <2>3, FS_EmptySet
  <2>4. CASE UNCHANGED taken
    BY <1>0, <2>4
  <2> QED
    BY <2>1, <2>2, <2>3, <2>4 DEF Next, LoopSteps, StartSteps, WatchSteps, LoopSleepsOut,
       LoopNotified, LoopDecides, LoopReturns, LoopConsiders, LoopMaintains, ReadsFacts,
       ReadsNames, StartFails, Probes, WatchLooks, WatchReturns, Submits, Protects,
       JobEnds, JobFails, RecoveryChanges, Suspends, Restarts, TimePasses,
       MachineChanges, Calls, Pauses, vars
<1> QED
  BY <1>1, StartsStep DEF NamesOK

-----------------------------------------------------------------------------
(* The invariant is one. *)

LEMMA LoopAt ==
  ASSUME TypesOK, [Next]_vars
  PROVE  /\ Looks' => Ticks \/ (Looks /\ loop'.busy = loop.busy /\ loop'.age = loop.age)
         /\ Begins => ~Looks'
<1>0. LoopOK /\ loop \in LoopForm /\ ClocksOK /\ FactsOK
  BY DEF TypesOK, LoopOK
<1>m. "asleep" \notin Maintenance /\ "starting" \notin Maintenance
  OBVIOUS
<1>1. CASE \E m \in Maintenance : loop.at = m /\
       \/ loop' = [loop EXCEPT !.submits = TRUE]
       \/ loop' = [loop EXCEPT !.at = After(m)]
       \/ loop' = [loop EXCEPT !.at = After(m), !.submits = FALSE]
  BY <1>0, <1>1 DEF LoopForm, Looks, Begins
<1>2. CASE LoopDecides
  <2>1. loop'.at \in {"asleep", "starting"}
    BY <1>2 DEF LoopDecides, Asleep
  <2> QED
    BY <2>1, <1>m DEF Looks, Begins
<1>3. CASE loop' = [Asleep EXCEPT !.sleep = 1] \/ Restarts
  BY <1>3, <1>m DEF Restarts, Asleep, Looks, Begins
<1>4. CASE loop.at \in {"asleep", "starting"} /\ loop' = [loop EXCEPT !.sleep = Sooner(@)]
  BY <1>0, <1>4, <1>m DEF LoopForm, Looks, Begins
<1>5. CASE UNCHANGED loop
  BY <1>5, <1>m DEF Looks, Begins
<1>6. CASE loop.at = "asleep" /\ Ticks
  BY <1>6, <1>m DEF Looks, Begins
<1> QED
  BY <1>1, <1>2, <1>3, <1>4, <1>5, <1>6, LoopGoes DEF LoopMoves

LEMMA BehindStep ==
  ASSUME Inv, [Next]_vars
  PROVE  BehindNone'
<1>0. TypesOK /\ BehindNone /\ StartsOK /\ ClocksOK /\ FactsOK /\ LoopOK
  BY DEF Inv, TypesOK
<1>1. OneIn(jobs') /\ (Loops(jobs) = {} /\ ~LoopSubmits => Loops(jobs') = {})
  BY JobsStep
<1>2. LoopSubmits => Starting /\ ~Starting' /\ UNCHANGED loop
  BY <1>0, SubmitsEnd
<1>3. Starting => loop.at = "starting"
  BY <1>0 DEF BehindNone
<1>m. "asleep" \notin Maintenance /\ "starting" \notin Maintenance
  OBVIOUS
<1>4. ASSUME Looks', ~loop'.busy PROVE Loops(jobs') = {}
  <2>1. ~LoopSubmits
    BY <1>2, <1>3, <1>4, <1>m DEF Looks
  <2>2. Loops(jobs) = {}
    <3>1. CASE Ticks
      <4>1. jobs = <<>>
        BY <1>0, <1>4, <3>1, TicksType DEF Busy
      <4> QED
        BY <4>1 DEF Loops
    <3>2. CASE Looks /\ loop'.busy = loop.busy
      BY <1>0, <1>4, <3>2 DEF BehindNone
    <3> QED
      BY <1>0, <1>4, <3>1, <3>2, LoopAt
  <2> QED
    BY <1>1, <2>1, <2>2
<1>5. ASSUME Starting' PROVE loop'.at = "starting" /\ Loops(jobs') = {}
  <2>1. ~LoopSubmits
    BY <1>2, <1>5
  <2>2. CASE Begins
    <3>1. Loops(jobs) = {}
      BY <1>0, <2>2 DEF BehindNone, Begins, Waits, Looks
    <3> QED
      BY <1>1, <2>1, <2>2, <3>1 DEF Begins
  <2>3. CASE Starting
    <3>1. Loops(jobs) = {} /\ loop.at = "starting"
      BY <1>0, <2>3 DEF BehindNone
    <3>2. loop'.at = "starting"
      <4>1. ~Restarts
        BY <1>5, IdleForm DEF Restarts, Starting, Starters
      <4>2. loop' = loop \/ loop' = [loop EXCEPT !.sleep = Sooner(@)]
        BY <1>m, <2>3, <3>1, <4>1, LoopGoes DEF LoopMoves, LoopDecides
      <4> QED
        BY <1>0, <3>1, <4>2 DEF LoopOK, LoopForm
    <3> QED
      BY <1>1, <2>1, <3>1, <3>2
  <2> QED
    BY <1>0, <1>5, <2>2, <2>3, StartsStep
<1> QED
  BY <1>1, <1>4, <1>5 DEF BehindNone

LEMMA AgreeStep ==
  ASSUME Inv, [Next]_vars
  PROVE  ClocksAgree'
<1>0. TypesOK /\ BehindNone /\ ClocksAgree /\ StartsOK /\ ClocksOK /\ FactsOK /\ LoopOK
  BY DEF Inv, TypesOK
<1>1. RunsAgree' /\ (~Fresh(since["own"]) /\ ~LoopSubmits => ~Fresh(since'["own"]))
  BY ClocksStep
<1>2. LoopSubmits => Starting /\ ~Starting' /\ UNCHANGED loop
  BY <1>0, SubmitsEnd
<1>m. "asleep" \notin Maintenance /\ "starting" \notin Maintenance
  OBVIOUS
<1>3. ASSUME Looks', ~Fresh(loop'.age) PROVE ~Fresh(since'["own"])
  <2>1. ~LoopSubmits
    BY <1>0, <1>2, <1>3, <1>m DEF BehindNone, Looks
  <2>2. ~Fresh(since["own"])
    <3>1. CASE Ticks
      <4>1. ~Fresh(since["attempt"])
        BY <1>0, <1>3, <3>1, TicksType
      <4>2. since["attempt"] \in Never .. 2 * Interval /\ since["own"] \in Never .. Interval
        BY <1>0 DEF ClocksOK, Clocks, Oldest
      <4>3. RunsAgree
        BY <1>0 DEF ClocksAgree, RunsAgree
      <4> QED
        BY <4>1, <4>2, <4>3 DEF RunsAgree, Fresh, Lesser
    <3>2. CASE Looks /\ loop'.age = loop.age
      BY <1>0, <1>3, <3>2 DEF ClocksAgree
    <3> QED
      BY <1>0, <1>3, <3>1, <3>2, LoopAt
  <2> QED
    BY <1>1, <2>1, <2>2
<1>4. ASSUME Starting' PROVE ~Fresh(since'["own"])
  <2>1. ~LoopSubmits
    BY <1>2, <1>4
  <2>2. ~Fresh(since["own"])
    <3>1. CASE Begins
      BY <1>0, <3>1 DEF ClocksAgree, Begins, Waits, Looks, Fresh
    <3>2. CASE Starting
      BY <1>0, <3>2 DEF ClocksAgree
    <3> QED
      BY <1>0, <1>4, <3>1, <3>2, StartsStep
  <2> QED
    BY <1>1, <2>1, <2>2
<1> QED
  BY <1>1, <1>3, <1>4 DEF ClocksAgree, RunsAgree

LEMMA InvStep ==
  ASSUME Inv, [Next]_vars
  PROVE  Inv'
<1>1. TypesOK
  BY DEF Inv
<1>2. JobsOK' /\ ClocksOK'
  BY JobsStep, ClocksStep
<1>3. FactsOK' /\ WatchOK' /\ LoopOK'
  BY <1>1, FactsStep, WatchStep, LoopStep DEF TypesOK
<1>4. StartsOK' /\ NamesOK'
  BY <1>1, StartsStep, NamesStep
<1> QED
  BY <1>2, <1>3, <1>4, BehindStep, AgreeStep DEF Inv, TypesOK

LEMMA InvSafe == Inv => ScheduleSafety
<1> SUFFICES ASSUME Inv PROVE ScheduleSafety
  OBVIOUS
<1>1. TypeOK
  BY DEF Inv, TypesOK, ClocksOK, FactsOK, JobsOK, LoopOK, LoopForm, WatchOK, StartsOK,
       StartForm, NamesOK, TypeOK
<1>2. Cardinality(ByLoop) <= 1
  <2>1. \A i, k \in ByLoop : i = k
    BY DEF Inv, BehindNone, OneIn, Loops, ByLoop
  <2>2. CASE ByLoop = {}
    BY <2>2, FS_EmptySet
  <2>3. CASE ByLoop # {}
    <3>1. PICK i : ByLoop = {i}
      BY <2>1, <2>3
    <3> QED
      BY <3>1, FS_Singleton
  <2> QED
    BY <2>2, <2>3
<1> QED
  BY <1>1, <1>2 DEF ScheduleSafety, LoopNeverQueuesBehindItself

(* Of every state: the clocks, the jobs and the tasks are as they should   *)
(* be, and the loop never has two runs of its own under way or waiting.    *)
THEOREM LoopIsSafe == Spec => []ScheduleSafety
<1>1. Spec => []Inv
  BY InvInit, InvStep, PTL DEF Spec
<1> QED
  BY <1>1, InvSafe, PTL

(* Of every step: what the loop submits comes an interval after what it    *)
(* submitted last, whatever the watch and the clients submit between, and  *)
(* whether the earlier run succeeded, failed or never reached the          *)
(* destination.                                                            *)
THEOREM LoopKeepsTime == Spec => LoopKeepsItsInterval
<1>1. Spec => []Inv
  BY InvInit, InvStep, PTL DEF Spec
<1>2. ASSUME Inv, [Next]_vars
      PROVE  [\A new \in Submitted : new.by = "loop" => since["own"] \notin 0 .. Interval - 1]_vars
  <2> SUFFICES ASSUME NEW new \in Submitted, new.by = "loop"
               PROVE  since["own"] \notin 0 .. Interval - 1
    OBVIOUS
  <2>1. LoopSubmits
    BY <1>2, JobsStep
  <2>2. Starting
    BY <2>1 DEF LoopSubmits, Submits, Protects, Starting
  <2> QED
    BY <1>2, <2>2 DEF Inv, ClocksAgree, Fresh
<1> QED
  BY <1>1, <1>2, PTL DEF Spec, LoopKeepsItsInterval
=============================================================================
