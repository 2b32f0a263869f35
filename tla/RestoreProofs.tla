--------------------------- MODULE RestoreProofs ----------------------------
(***************************************************************************)
(* Nothing of the person's is lost in restores, undoings and put-backs,    *)
(* and the stash is not given up under a restore: proved for any files,    *)
(* any number of restores and tasks, and as many crashes, failed renames   *)
(* and files written as there may be.                                      *)
(***************************************************************************)
EXTENDS Restore, FiniteSetTheorems, SequenceTheorems, WellFoundedInduction, TLAPS

-----------------------------------------------------------------------------
(* The least and the greatest of some numbers, and some numbers in a row. *)

LEMMA LeastOfSome ==
  ASSUME NEW S \in SUBSET Nat, S # {}
  PROVE  Min(S) \in S /\ \A n \in S : Min(S) <= n
<1>1. PICK l \in S : \A m \in S : ~(<<m, l>> \in OpToRel(<, Nat))
  BY NatLessThanWellFounded, WFMin
<1>2. ASSUME NEW m \in S PROVE l <= m
  <2>1. ~(m < l)
    BY <1>1 DEF OpToRel
  <2> QED
    BY <2>1
<1> QED
  BY <1>2 DEF Min

(* Were the first k of them without a bound, for the least such k, then so *)
(* would the first k - 1 be.                                               *)
LEMMA FiniteIsBounded ==
  ASSUME NEW S \in SUBSET Nat, IsFiniteSet(S)
  PROVE  \E b \in Nat : \A s \in S : s <= b
<1>1. PICK n \in Nat : ExistsBijection(1 .. n, S)
  BY FS_NatBijection
<1>2. PICK f \in Bijection(1 .. n, S) : TRUE
  BY <1>1 DEF ExistsBijection
<1>3. f \in [1 .. n -> S] /\ \A s \in S : \E i \in 1 .. n : f[i] = s
  BY <1>2 DEF Bijection, Surjection, Injection
<1> DEFINE Bounded(k) == \E b \in Nat : \A i \in 1 .. k : f[i] <= b
           C == {k \in 0 .. n : ~Bounded(k)}
<1>k. \A k \in 0 .. n : k \in C <=> ~Bounded(k)
  OBVIOUS
<1>4. C = {}
  <2> SUFFICES ASSUME C # {} PROVE FALSE
    OBVIOUS
  <2>1. Min(C) \in C /\ \A k \in C : Min(C) <= k
    <3>1. C \in SUBSET Nat
      OBVIOUS
    <3> QED
      BY <3>1, LeastOfSome
  <2>2. PICK k \in C : \A l \in C : k <= l
    BY <2>1
  <2>3. k # 0
    <3>1. \A i \in 1 .. 0 : f[i] <= 0
      OBVIOUS
    <3> QED
      BY <3>1, <2>2
  <2>4. k - 1 \in 0 .. n /\ k - 1 \notin C
    <3>1. k \in 0 .. n /\ \A l \in C : k <= l
      BY <2>2
    <3> HIDE DEF C
    <3>2. k - 1 \in 0 .. n
      BY <3>1, <2>3
    <3>3. ~(k <= k - 1)
      BY <3>1
    <3> QED
      BY <3>1, <3>2, <3>3
  <2>k. k \in 1 .. n
    BY <2>2, <2>3
  <2>5. PICK b \in Nat : \A i \in 1 .. k - 1 : f[i] <= b
    BY <2>4
  <2>n. ~Bounded(k)
    BY <2>2
  <2> HIDE DEF C, Bounded
  <2>6. f[k] \in Nat
    BY <1>3, <2>k
  <2>7. \A i \in 1 .. k : f[i] <= b + f[k]
    <3> SUFFICES ASSUME NEW i \in 1 .. k PROVE f[i] <= b + f[k]
      OBVIOUS
    <3>1. f[i] \in Nat
      <4>1. i \in 1 .. n
        BY <2>k
      <4> QED
        BY <4>1, <1>3
    <3>2. CASE i = k
      BY <3>1, <3>2
    <3>3. CASE i # k
      <4>1. i \in 1 .. k - 1
        BY <3>3, <2>k
      <4> QED
        BY <4>1, <2>5, <2>6, <3>1
    <3> QED
      BY <3>2, <3>3
  <2>8. b + f[k] \in Nat
    BY <2>6
  <2> QED
    BY <2>n, <2>7, <2>8 DEF Bounded
<1>5. PICK b \in Nat : \A i \in 1 .. n : f[i] <= b
  <2>0. n \in 0 .. n
    OBVIOUS
  <2>1. n \notin C
    BY <1>4, Zenon
  <2>2. Bounded(n)
    BY <2>0, <2>1, <1>k, Zenon
  <2> QED
    BY <2>2
<1> QED
  BY <1>3, <1>5

LEMMA GreatestOfSome ==
  ASSUME NEW S \in SUBSET Nat, S # {}, IsFiniteSet(S)
  PROVE  Max(S) \in S /\ \A n \in S : n <= Max(S)
<1> DEFINE U == {b \in Nat : \A s \in S : s <= b}
<1>1. U # {}
  BY FiniteIsBounded
<1>2. PICK u \in U : \A b \in U : u <= b
  <2>1. U \in SUBSET Nat
    OBVIOUS
  <2>2. Min(U) \in U /\ \A n \in U : Min(U) <= n
    <3> HIDE DEF U
    <3> QED
      BY <1>1, <2>1, LeastOfSome
  <2> QED
    BY <2>2
<1>3. u \in S
  <2> SUFFICES ASSUME u \notin S PROVE FALSE
    OBVIOUS
  <2>1. PICK s \in S : TRUE
    OBVIOUS
  <2>2. \A r \in S : r <= u /\ r # u /\ r \in Nat
    BY <1>2
  <2>3. \A r \in S : r <= u - 1
    BY <2>2
  <2>4. u - 1 \in Nat
    BY <2>1, <2>2
  <2>5. u - 1 \in U
    BY <2>3, <2>4
  <2>6. u <= u - 1
    BY <2>5, <1>2
  <2> QED
    BY <2>6
<1>4. \A y \in S : u >= y
  BY <1>2
<1>5. Max(S) \in S /\ \A y \in S : Max(S) >= y
  BY <1>3, <1>4 DEF Max
<1> QED
  BY <1>5

LEMMA AtFirst ==
  ASSUME Init
  PROVE  \E there \in SUBSET Paths, binned \in SUBSET {Min(Paths)} :
        /\ disk = [m \in Names |-> IF m[2] = 0 /\ m[1] \in there THEN m[1] ELSE Nothing]
        /\ stash = [s \in Second \X Paths |-> Nothing]
        /\ trash = [b \in Binned |-> IF b[1] \in binned /\ b[2] = 1 THEN Max(Paths) + 1 ELSE Nothing]
        /\ infos = [b \in Binned |-> b[1] \in binned /\ b[2] = 1]
        /\ staging = [j \in Jobs |-> {}] /\ plans = [j \in Jobs |-> Unprepared]
        /\ tasks = [t \in Tasks |-> Unused] /\ now = 0 /\ wrote = Max(Paths) + 1
        /\ dear = there \cup {Max(Paths) + 1 : p \in binned}
        /\ mover = [p \in Paths |-> 0] /\ left = Events
BY Zenon DEF Init

USE RestoreAssumption DEF RestoreAssumption, Nothing

LEMMA PathsEnd ==
  /\ Beyond \in Nat /\ Beyond \notin Paths /\ \A p \in Paths : p < Beyond /\ p \in Nat /\ p > 0
  /\ Min(Paths) \in Paths /\ \A p \in Paths : Min(Paths) <= p
<1>1. Max(Paths) \in Paths /\ \A p \in Paths : p <= Max(Paths)
  BY GreatestOfSome
<1>2. Min(Paths) \in Paths /\ \A p \in Paths : Min(Paths) <= p
  BY LeastOfSome
<1>3. \A p \in Paths : p \in Nat /\ p > 0
  OBVIOUS
<1>4. Beyond = Max(Paths) + 1
  BY DEF Beyond
<1>5. Beyond \in Nat /\ \A p \in Paths : p < Beyond
  <2>1. PICK m \in Paths : m = Max(Paths)
    BY <1>1
  <2>2. m \in Nat /\ Beyond = m + 1 /\ \A p \in Paths : p <= m
    BY <2>1, <1>1, <1>3, <1>4
  <2>3. \A p \in Paths : p < Beyond
    <3> SUFFICES ASSUME NEW p \in Paths PROVE p < Beyond
      OBVIOUS
    <3>1. p \in Nat /\ p <= m
      BY <2>2, <1>3
    <3> QED
      BY <3>1, <2>2
  <2> QED
    BY <2>2, <2>3
<1>6. Beyond \notin Paths
  BY <1>5
<1> QED
  BY <1>2, <1>3, <1>5, <1>6

LEMMA NextIsAPath ==
  ASSUME NEW task, NEW p \in Nat
  PROVE  /\ NextFrom(task, p) \in Paths \cup {Beyond} /\ NextFrom(task, p) \in Nat
         /\ NextFrom(task, p) # Beyond =>
              NextFrom(task, p) >= p /\ Decided(task, NextFrom(task, p)) # "skip"
<1> DEFINE S == {q \in Paths : q >= p /\ Decided(task, q) # "skip"} \cup {Beyond}
<1>1. S \in SUBSET Nat /\ S # {}
  BY PathsEnd
<1>2. Min(S) \in S
  <2> HIDE DEF S
  <2> QED
    BY <1>1, LeastOfSome
<1>3. Min(S) = NextFrom(task, p)
  BY DEF NextFrom
<1> QED
  BY <1>1, <1>2, <1>3

LEMMA TasksAreCounted == Cardinality(Tasks) \in Nat
BY FS_CardinalityType

LEMMA RowIsSeq ==
  ASSUME NEW S, NEW n \in Nat, NEW s \in [1 .. n -> S]
  PROVE  s \in Seq(S) /\ Len(s) = n
<1>1. s \in Seq(S)
  BY IsASeq
<1> QED
  BY <1>1, LenProperties

(* The Trash's items, one after the other. *)
LEMMA InARow ==
  ASSUME NEW S, IsFiniteSet(S)
  PROVE  /\ SetToSeq(S) \in Seq(S) /\ Len(SetToSeq(S)) \in Nat
         /\ \A i \in 1 .. Len(SetToSeq(S)) : SetToSeq(S)[i] \in S
<1> DEFINE n == Cardinality(S)
<1>1. n \in Nat /\ ExistsBijection(1 .. n, S)
  BY FS_CardinalityType
<1>2. PICK f \in Bijection(1 .. n, S) : TRUE
  BY <1>1 DEF ExistsBijection
<1>3. f \in [1 .. n -> S] /\ IsInjective(f)
  BY <1>2 DEF Bijection, Injection, IsInjective
<1>4. SetToSeq(S) \in [1 .. n -> S]
  BY <1>3 DEF SetToSeq
<1>5. SetToSeq(S) \in Seq(S) /\ Len(SetToSeq(S)) = n
  BY <1>1, <1>4, RowIsSeq
<1> QED
  BY <1>1, <1>4, <1>5

-----------------------------------------------------------------------------
(* The moves that are written down. *)

Moves(log) == {log[i] : i \in DOMAIN log}
Arrived(log) == {m \in Moves(log) : m.kind = "arrived"}

(* What a move says was in its way is somewhere. *)
Aside == 1 .. Cardinality(Tasks) + 1
Slot(displaced, to) ==
  /\ displaced = "stashed" => to \in Second
  /\ displaced = "renamed" => to \in Aside
Fits(log) ==
  \A m \in Moves(log) : (m.kind = "left trash" => m.copy # 0) /\ Slot(m.displaced, m.to)

(* A path takes part once in a restore. *)
Once(log) ==
  \A i, k \in DOMAIN log :
    log[i].kind = "arrived" /\ log[k].kind = "arrived" /\ log[i].path = log[k].path => i = k

(* The paths that a restore still has before it. *)
Ahead(task) ==
  {q \in Paths : task.at = "begin" \/ q > task.path \/ (q = task.path /\ task.at = "next")}

CarriesOut(task) ==
  /\ task.job \in Jobs
  /\ task.at = "begin" => task.log = <<>>
  /\ task.at # "begin" => task.path \in Paths \cup {Beyond}
  /\ task.at # "begin" /\ task.path # Beyond => Decided(task, task.path) # "skip"
  /\ task.at = "displaced" => task.path \in Paths /\ task.displaced # "nothing"
  /\ task.at # "displaced" => task.displaced = "nothing"
  /\ Slot(task.displaced, task.to)
  /\ \A m \in Arrived(task.log) :
       m.path \notin Ahead(task) /\ (task.at = "displaced" => m.path # task.path)
Undoes(task) ==
  /\ task.job \in Jobs
  /\ task.at # "begin" => task.path <= Len(task.log)
  /\ task.at = "displaced" =>
       task.path > 0 /\ Undone(task).kind = "arrived" /\ Undone(task).displaced # "nothing"
PutsBack(task) ==
  task.at # "begin" /\ task.path \in Paths /\ task.to \in Second

TaskForm ==
  {task \in Task : /\ Fits(task.log) /\ Once(task.log)
                   /\ task.kind = "execute" => CarriesOut(task)
                   /\ task.kind = "undo" => Undoes(task)
                   /\ task.kind = "put back" => PutsBack(task)}
PlanForm ==
  {plan \in Plan : /\ Fits(plan.log) /\ Once(plan.log)
                   /\ (plan.logged => plan.held) /\ (plan.held => plan.used)
                   /\ (~plan.logged => plan.log = <<>>)}

LEMMA NoMoves == <<>> \in Seq(MoveRecord) /\ Fits(<<>>) /\ Once(<<>>) /\ Moves(<<>>) = {}
<1>1. DOMAIN <<>> = {} /\ <<>> \in Seq(MoveRecord)
  OBVIOUS
<1> QED
  BY <1>1 DEF Fits, Moves, Once

LEMMA MovesAre ==
  ASSUME NEW log \in Seq(MoveRecord)
  PROVE  /\ Len(log) \in Nat /\ DOMAIN log = 1 .. Len(log)
         /\ Moves(log) \subseteq MoveRecord
BY DEF Moves

LEMMA MoveFields ==
  ASSUME NEW m \in MoveRecord
  PROVE  /\ m.kind \in {"arrived", "left trash"} /\ m.path \in Paths /\ m.copy \in 0 .. 2
         /\ m.displaced \in {"nothing", "stashed", "renamed"} /\ m.to \in Nat
         /\ m.after \in Jobs \cup {0}
BY DEF MoveRecord

LEMMA Forms ==
  /\ Unasked \in Entry /\ AllSkipped \in Answer
  /\ Unprepared \in PlanForm /\ Unused \in TaskForm
<1>1. Unasked \in Entry
  BY DEF Unasked, Entry, Classes
<1>2. AllSkipped \in Answer
  BY DEF AllSkipped, Answer, Decision
<1>3. [p \in Paths |-> Unasked] \in [Paths -> Entry] /\ [p \in Paths |-> 0] \in [Paths -> Int]
  BY <1>1
<1>4. Unprepared \in Plan
  BY <1>3, NoMoves DEF Unprepared, Plan
<1>5. Unused \in Task
  <2>1. [b \in Binned |-> 0] \in [Binned -> 0 .. 2] /\ 0 \in Second
    BY DEF Second
  <2> QED
    BY <1>2, <1>3, <2>1, NoMoves DEF Unused, Task
<1>6. Unprepared \in PlanForm
  BY <1>4, NoMoves DEF PlanForm, Unprepared
<1>7. Unused \in TaskForm
  BY <1>5, NoMoves DEF TaskForm, Unused
<1> QED
  BY <1>1, <1>2, <1>6, <1>7

LEMMA TaskFields ==
  ASSUME NEW task \in TaskForm
  PROVE  /\ task.kind \in {"unused", "execute", "undo", "put back", "over"}
         /\ task.at \in {"begin", "next", "displaced"} /\ task.job \in Jobs \cup {0}
         /\ task.path \in Nat /\ task.entries \in [Paths -> Entry] /\ task.log \in Seq(MoveRecord)
         /\ task.second \in Second /\ task.to \in Nat
         /\ task.displaced \in {"nothing", "stashed", "renamed"}
         /\ task.failed \in BOOLEAN /\ task.moved \in [Binned -> 0 .. 2]
         /\ Fits(task.log) /\ Once(task.log)
         /\ task.kind = "execute" => CarriesOut(task)
         /\ task.kind = "undo" => Undoes(task)
         /\ task.kind = "put back" => PutsBack(task)
BY DEF TaskForm, Task

LEMMA OverIs ==
  ASSUME NEW task \in TaskForm, NEW failed \in BOOLEAN
  PROVE  /\ Over(task) \in TaskForm /\ Over([task EXCEPT !.failed = failed]) \in TaskForm
         /\ Over(task).kind = "over" /\ Over([task EXCEPT !.failed = failed]).kind = "over"
         /\ Over(task).log = <<>> /\ Over([task EXCEPT !.failed = failed]).log = <<>>
<1>1. task \in Task /\ task.failed \in BOOLEAN /\ [task EXCEPT !.failed = failed] \in Task
  BY DEF TaskForm, Task
<1>2. ASSUME NEW any \in Task PROVE Over(any) \in TaskForm /\ Over(any).kind = "over"
                                     /\ Over(any).log = <<>>
  <2>1. Unused \in Task
    BY Forms DEF TaskForm
  <2>2. any.failed \in BOOLEAN
    BY DEF Task
  <2>3. Over(any) \in Task /\ Over(any).kind = "over" /\ Over(any).log = Unused.log
    BY <2>1, <2>2 DEF Over, Task
  <2>4. Unused.log = <<>>
    BY DEF Unused
  <2> QED
    BY <2>3, <2>4, NoMoves DEF TaskForm
<1> QED
  BY <1>1, <1>2

(* A restore goes on to the next path that something is to be done at. *)
LEMMA PastIs ==
  ASSUME NEW task \in Task, NEW failed \in BOOLEAN, task.kind = "execute", task.job \in Jobs,
         task.path \in Paths, Fits(task.log), Once(task.log),
         \A m \in Arrived(task.log) : m.path <= task.path
  PROVE  LET on == Past(task, failed)
         IN /\ on \in TaskForm /\ on.kind = "execute" /\ on.at = "next" /\ on.job = task.job
            /\ on.log = task.log /\ on.entries = task.entries /\ on.second = task.second
            /\ on.answer = task.answer /\ Ahead(on) \subseteq {p \in Paths : p > task.path}
            /\ on.path \in Paths \cup {Beyond}
<1> DEFINE on == Past(task, failed)
           next == NextFrom(task, task.path + 1)
<1>0. \A p \in Paths : p \in Nat /\ p + 1 \in Nat
  BY PathsEnd
<1>1. task.path \in Nat /\ task.path + 1 \in Nat
  BY <1>0
<1>2. next \in Paths \cup {Beyond} /\ next \in Nat
      /\ (next # Beyond => next >= task.path + 1 /\ Decided(task, next) # "skip")
  BY <1>1, NextIsAPath
<1> HIDE DEF next
<1>3. /\ on \in Task /\ on.kind = "execute" /\ on.at = "next" /\ on.job = task.job
      /\ on.log = task.log /\ on.entries = task.entries /\ on.second = task.second
      /\ on.answer = task.answer /\ on.path = next /\ on.displaced = "nothing" /\ on.to = 0
  BY <1>2 DEF Past, Task, next
<1>4. Decided(on, next) = Decided(task, next)
  BY <1>3 DEF Decided
<1>5. \A p \in Ahead(on) : p \in Paths /\ p > task.path
  <2> SUFFICES ASSUME NEW p \in Ahead(on) PROVE p \in Paths /\ p > task.path
    OBVIOUS
  <2>1. p \in Paths /\ p \in Nat /\ p >= next /\ p < Beyond
    BY <1>2, <1>3, PathsEnd DEF Ahead
  <2> QED
    BY <1>1, <1>2, <2>1, PathsEnd
<1>6. \A m \in Arrived(on.log) : m.path \notin Ahead(on)
  <2> SUFFICES ASSUME NEW m \in Arrived(task.log), m.path \in Ahead(on) PROVE FALSE
    BY <1>3
  <2>1. m.path \in Nat
    BY <1>5, PathsEnd
  <2> QED
    BY <1>1, <1>5, <2>1
<1>7. CarriesOut(on)
  BY <1>2, <1>3, <1>4, <1>6 DEF CarriesOut, Slot
<1>8. on \in TaskForm
  BY <1>3, <1>7 DEF TaskForm
<1> QED
  BY <1>2, <1>3, <1>5, <1>8

(* An undoing goes on to the move before. *)
LEMMA EarlierIs ==
  ASSUME NEW task \in TaskForm, NEW failed \in BOOLEAN, task.kind = "undo", task.at # "begin",
         task.path > 0
  PROVE  LET on == Earlier(task, failed)
         IN /\ on \in TaskForm /\ on.kind = "undo" /\ on.at = "next" /\ on.job = task.job
            /\ on.log = task.log /\ on.path = task.path - 1
<1> DEFINE on == Earlier(task, failed)
<1>1. task \in Task /\ task.path \in Nat /\ task.failed \in BOOLEAN
  BY DEF TaskForm, Task
<1>2. task.path - 1 \in Nat
  BY <1>1
<1>3. /\ on \in Task /\ on.kind = "undo" /\ on.at = "next" /\ on.job = task.job
      /\ on.log = task.log /\ on.path = task.path - 1
  BY <1>1, <1>2 DEF Earlier, Task
<1>4. Undoes(task) /\ Len(task.log) \in Nat
  BY TaskFields, MovesAre
<1>5. Undoes(on)
  BY <1>1, <1>3, <1>4 DEF Undoes
<1> QED
  BY <1>3, <1>5, TaskFields DEF TaskForm

LEMMA ThenIs ==
  ASSUME NEW task \in TaskForm, task.kind = "undo", task.at = "next", task.path > 0,
         Undone(task).kind = "arrived", Undone(task).displaced # "nothing"
  PROVE  LET on == [task EXCEPT !.at = "displaced"]
         IN /\ on \in TaskForm /\ on.kind = "undo" /\ on.at = "displaced" /\ on.job = task.job
            /\ on.log = task.log /\ on.path = task.path
<1> DEFINE on == [task EXCEPT !.at = "displaced"]
<1>1. /\ on \in Task /\ on.kind = "undo" /\ on.at = "displaced" /\ on.job = task.job
      /\ on.log = task.log /\ on.path = task.path
  BY DEF TaskForm, Task
<1>2. Undoes(on)
  BY <1>1, TaskFields DEF Undoes, Undone
<1> QED
  BY <1>1, <1>2, TaskFields DEF TaskForm

(* A move of the log that is undone. *)
LEMMA UndoneIs ==
  ASSUME NEW task \in TaskForm, task.kind = "undo", task.at # "begin", task.path > 0
  PROVE  /\ task.path \in DOMAIN task.log /\ Undone(task) \in Moves(task.log)
         /\ Undone(task) \in MoveRecord /\ Slot(Undone(task).displaced, Undone(task).to)
         /\ Undone(task).kind = "left trash" => Undone(task).copy # 0
<1>1. task.log \in Seq(MoveRecord) /\ task.path \in Nat /\ task.path <= Len(task.log) /\ Fits(task.log)
  BY TaskFields DEF Undoes
<1>2. task.path \in DOMAIN task.log /\ Undone(task) \in Moves(task.log)
  BY <1>1, MovesAre DEF Undone, Moves
<1> QED
  BY <1>1, <1>2, MovesAre DEF Fits

-----------------------------------------------------------------------------
(* What a log becomes. *)

LEMMA LogGrows ==
  ASSUME NEW log \in Seq(MoveRecord), Fits(log), Once(log), NEW move \in MoveRecord,
         move.kind = "arrived", Slot(move.displaced, move.to),
         \A m \in Arrived(log) : m.path # move.path
  PROVE  LET on == Append(log, move)
         IN /\ on \in Seq(MoveRecord) /\ Fits(on) /\ Once(on)
            /\ Arrived(on) = Arrived(log) \cup {move}
<1> DEFINE on == Append(log, move)
           n == Len(log)
<1>1. /\ on \in Seq(MoveRecord) /\ Len(on) = n + 1 /\ n \in Nat /\ DOMAIN log = 1 .. n
      /\ DOMAIN on = 1 .. n + 1 /\ on[n + 1] = move /\ \A i \in 1 .. n : on[i] = log[i]
  BY AppendProperties, LenProperties
<1> HIDE DEF on, n
<1>2. \A i \in 1 .. n + 1 : i = n + 1 \/ i \in 1 .. n
  BY <1>1
<1>3. Moves(on) = Moves(log) \cup {move}
  <2>1. 1 .. n \subseteq 1 .. n + 1 /\ n + 1 \in 1 .. n + 1
    BY <1>1
  <2> QED
    BY <1>1, <1>2, <2>1 DEF Moves
<1>4. Arrived(on) = Arrived(log) \cup {move}
  BY <1>3 DEF Arrived
<1>5. Fits(on)
  BY <1>3 DEF Fits
<1>6. Once(on)
  <2> SUFFICES ASSUME NEW i \in 1 .. n + 1, NEW k \in 1 .. n + 1,
                      on[i].kind = "arrived", on[k].kind = "arrived", on[i].path = on[k].path
               PROVE  i = k
    BY <1>1 DEF Once
  <2>1. \A l \in 1 .. n : log[l].kind = "arrived" => log[l].path # move.path
    BY <1>1 DEF Arrived, Moves
  <2>2. CASE i = n + 1
    BY <1>1, <1>2, <2>1, <2>2
  <2>3. CASE k = n + 1
    BY <1>1, <1>2, <2>1, <2>3
  <2>4. CASE i \in 1 .. n /\ k \in 1 .. n
    BY <1>1, <2>4 DEF Once
  <2> QED
    BY <1>2, <2>2, <2>3, <2>4
<1> QED
  BY <1>1, <1>4, <1>5, <1>6 DEF on

OnlyLeaves(tail) ==
  \A i \in DOMAIN tail : /\ tail[i].kind = "left trash" /\ tail[i].copy # 0
                         /\ tail[i].displaced = "nothing"

LEMMA LogEnds ==
  ASSUME NEW log \in Seq(MoveRecord), Fits(log), Once(log), NEW tail \in Seq(MoveRecord), OnlyLeaves(tail)
  PROVE  LET on == log \o tail
         IN /\ on \in Seq(MoveRecord) /\ Fits(on) /\ Once(on)
            /\ Arrived(on) = Arrived(log)
<1> DEFINE on == log \o tail
           n == Len(log)
           m == Len(tail)
<1>a. n \in Nat /\ DOMAIN log = 1 .. n
  BY LenProperties
<1>b. m \in Nat /\ DOMAIN tail = 1 .. m
  BY LenProperties
<1>c. /\ on \in Seq(MoveRecord) /\ Len(on) = n + m
      /\ \A i \in 1 .. n + m : on[i] = IF i <= n THEN log[i] ELSE tail[i - n]
  BY ConcatProperties
<1>d. DOMAIN on = 1 .. n + m
  BY <1>c, LenProperties
<1> HIDE DEF on, n, m
<1>4. 1 .. n \subseteq 1 .. n + m
  BY <1>a, <1>b
<1>1. /\ DOMAIN log = 1 .. n /\ DOMAIN on = 1 .. n + m /\ DOMAIN tail = 1 .. m
      /\ \A i \in 1 .. n : on[i] = log[i]
  <2>1. \A i \in 1 .. n : i <= n
    BY <1>a
  <2> QED
    BY <1>a, <1>b, <1>c, <1>d, <1>4, <2>1
<1>2. \A i \in 1 .. n + m : i \notin 1 .. n => i - n \in 1 .. m /\ on[i] = tail[i - n]
  <2>1. \A i \in 1 .. n + m : i \notin 1 .. n => i - n \in 1 .. m /\ ~(i <= n)
    BY <1>a, <1>b
  <2> QED
    BY <1>c, <2>1
<1>3. \A i \in 1 .. n + m : i \notin 1 .. n =>
        on[i].kind = "left trash" /\ on[i].copy # 0 /\ on[i].displaced = "nothing"
  BY ZenonT(60), <1>1, <1>2 DEF OnlyLeaves
<1>5. Arrived(on) = Arrived(log)
  <2>1. ASSUME NEW x \in Arrived(on) PROVE x \in Arrived(log)
    <3>1. PICK i \in 1 .. n + m : on[i] = x /\ x.kind = "arrived"
      BY <1>1 DEF Arrived, Moves
    <3>2. i \in 1 .. n
      BY <1>3, <3>1
    <3> QED
      BY <1>1, <3>1, <3>2 DEF Arrived, Moves
  <2>2. ASSUME NEW x \in Arrived(log) PROVE x \in Arrived(on)
    <3>1. PICK i \in 1 .. n : log[i] = x /\ x.kind = "arrived"
      BY <1>1 DEF Arrived, Moves
    <3> QED
      BY <1>1, <1>4, <3>1 DEF Arrived, Moves
  <2> QED
    BY <2>1, <2>2
<1>6. Fits(on)
  <2> SUFFICES ASSUME NEW i \in 1 .. n + m
               PROVE  /\ on[i].kind = "left trash" => on[i].copy # 0
                      /\ Slot(on[i].displaced, on[i].to)
    BY <1>1 DEF Fits, Moves
  <2>1. CASE i \in 1 .. n
    BY <1>1, <2>1 DEF Fits, Moves
  <2>2. CASE i \notin 1 .. n
    BY <1>3, <2>2 DEF Slot
  <2> QED
    BY <2>1, <2>2
<1>7. Once(on)
  BY <1>1, <1>3 DEF Once
<1> QED
  BY <1>c, <1>5, <1>6, <1>7 DEF on

-----------------------------------------------------------------------------
(* The types, and that there is a name left to put a file beside itself. *)

Carrying(t) == tasks[t].kind = "execute"
Undoing(t) == tasks[t].kind = "undo"

Used(p) == {n \in Aside : disk[<<p, n>>] # Nothing}
Spent(p) == {t \in Tasks : tasks[t].kind # "unused" /\ (Carrying(t) => p \notin Ahead(tasks[t]))}

(* Every task that has been past p made one name beside it at most. *)
NamesAreLeft == \A p \in Paths : Cardinality(Used(p)) <= Cardinality(Spent(p))

FilesOK ==
  /\ disk \in [Names -> Int] /\ stash \in [Second \X Paths -> Int]
  /\ trash \in [Binned -> Int] /\ infos \in [Binned -> BOOLEAN]
RestOK ==
  /\ staging \in [Jobs -> SUBSET Paths] /\ now \in Second
  /\ wrote \in Nat /\ dear \subseteq 1 .. wrote
  /\ mover \in [Paths -> Jobs \cup {0}] /\ left \in Nat
FormsOK == plans \in [Jobs -> PlanForm] /\ tasks \in [Tasks -> TaskForm]
Typed == FilesOK /\ RestOK /\ FormsOK /\ NamesAreLeft

LEMMA TypedIsTypeOK == Typed => TypeOK
<1>1. PlanForm \subseteq Plan /\ TaskForm \subseteq Task
  BY DEF PlanForm, TaskForm
<1> QED
  BY <1>1 DEF Typed, FilesOK, RestOK, FormsOK, TypeOK

LEMMA Places ==
  ASSUME NEW p \in Paths
  PROVE  /\ Own(p) \in Names /\ Own(p) = <<p, 0>> /\ 0 \notin Aside
         /\ \A n \in Aside : <<p, n>> \in Names /\ n \in Nat /\ n # 0
         /\ \A s \in Second : <<s, p>> \in Second \X Paths /\ s \in Nat
         /\ \A n \in {1, 2} : <<p, n>> \in Binned
<1>1. Aside = 1 .. Cardinality(Tasks) + 1 /\ Names = Paths \X (0 .. Cardinality(Tasks) + 1)
  BY DEF Aside, Names
<1> QED
  BY <1>1, TasksAreCounted DEF Own, Second, Binned

LEMMA SpentIsFinite ==
  ASSUME NEW p
  PROVE  /\ IsFiniteSet(Spent(p)) /\ Cardinality(Spent(p)) \in Nat
         /\ Cardinality(Spent(p)) <= Cardinality(Tasks)
         /\ IsFiniteSet(Spent(p)') /\ Cardinality(Spent(p)') \in Nat
         /\ IsFiniteSet(Used(p)) /\ Cardinality(Used(p)) \in Nat
         /\ IsFiniteSet(Used(p)') /\ Cardinality(Used(p)') \in Nat
<1>1. IsFiniteSet(Aside)
  BY FS_Interval, TasksAreCounted DEF Aside
<1>2. Spent(p) \subseteq Tasks /\ Spent(p)' \subseteq Tasks
  BY DEF Spent
<1>3. Used(p) \subseteq Aside /\ Used(p)' \subseteq Aside
  BY DEF Used
<1> QED
  BY <1>1, <1>2, <1>3, FS_Subset, FS_CardinalityType

LEMMA FreeNameIs ==
  ASSUME NamesAreLeft, NEW p \in Paths
  PROVE  FreeName(p) \in Aside /\ disk[<<p, FreeName(p)>>] = Nothing
<1> DEFINE S == {n \in Aside : disk[<<p, n>>] = Nothing}
<1>1. S # {}
  <2> SUFFICES ASSUME S = {} PROVE FALSE
    OBVIOUS
  <2>1. Used(p) = Aside
    BY DEF Used
  <2>2. Cardinality(Aside) = Cardinality(Tasks) + 1
    BY FS_Interval, TasksAreCounted DEF Aside
  <2>3. Cardinality(Used(p)) <= Cardinality(Spent(p)) /\ Cardinality(Spent(p)) <= Cardinality(Tasks)
    BY SpentIsFinite DEF NamesAreLeft
  <2> QED
    BY <2>1, <2>2, <2>3, SpentIsFinite, TasksAreCounted
<1>2. S \in SUBSET Nat
  BY DEF Aside
<1>3. PICK n \in S : \A m \in S : n <= m
  <2> HIDE DEF S
  <2> QED
    BY <1>1, <1>2, LeastOfSome
<1>4. n \in Aside /\ n \in Nat /\ disk[<<p, n>>] = Nothing
  BY <1>2, <1>3
<1>5. \A m \in 1 .. n - 1 : disk[<<p, m>>] # Nothing
  <2> SUFFICES ASSUME NEW m \in 1 .. n - 1, disk[<<p, m>>] = Nothing PROVE FALSE
    OBVIOUS
  <2>1. m \in Aside /\ m < n
    BY <1>4, TasksAreCounted DEF Aside
  <2>2. m \in S
    BY <2>1
  <2> HIDE DEF S
  <2>3. n <= m /\ m \in Nat
    BY <2>2, <1>2, <1>3
  <2> QED
    BY <2>1, <2>3, <1>4
<1> QED
  BY <1>4, <1>5 DEF FreeName, Aside

-----------------------------------------------------------------------------
(* What each step does, to the task that takes it and to the files. *)

Turned(t) ==
  /\ tasks' \in [Tasks -> TaskForm]
  /\ \A u \in Tasks : u # t => tasks'[u] = tasks[u]

LEMMA GoesOn ==
  ASSUME Typed, NEW t \in Tasks, NEW task \in TaskForm, Goes(t, task)
  PROVE  Turned(t) /\ tasks'[t] = task
BY DEF Goes, Turned, Typed, FormsOK

LEMMA TaskIs ==
  ASSUME Typed, NEW t \in Tasks
  PROVE  tasks[t] \in TaskForm
BY DEF Typed, FormsOK

LEMMA PlanIs ==
  ASSUME Typed, NEW j \in Jobs
  PROVE  /\ plans[j] \in PlanForm /\ plans[j].log \in Seq(MoveRecord)
         /\ plans[j].entries \in [Paths -> Entry]
         /\ plans[j].held \in BOOLEAN /\ plans[j].used \in BOOLEAN /\ plans[j].logged \in BOOLEAN
         /\ Fits(plans[j].log) /\ Once(plans[j].log)
         /\ (plans[j].logged => plans[j].held) /\ (plans[j].held => plans[j].used)
         /\ (~plans[j].logged => plans[j].log = <<>>)
BY DEF Typed, FormsOK, PlanForm, Plan

LEMMA ExecuteDoes ==
  ASSUME Typed, NEW t \in Tasks, NEW j \in Jobs, NEW answer \in Answers, Execute(t, j, answer)
  PROVE  /\ UNCHANGED <<files, staging, plans, now, ghosts, left>> /\ Turned(t)
         /\ tasks[t].kind = "unused" /\ plans[j].held /\ Starts(t, j) /\ FreshSecond
         /\ plans[j].logged => "again" \in Circumstances
         /\ LET on == tasks'[t]
            IN /\ on.kind = "execute" /\ on.at = "begin" /\ on.job = j /\ on.log = <<>>
               /\ on.second = now
<1> DEFINE on == [Unused EXCEPT !.kind = "execute", !.job = j, !.answer = answer, !.second = now]
<1>1. answer \in Answer
  <2>1. PICK blanket \in Decision, q \in Paths, d \in Decision \cup {"unnamed"} :
          answer = [blanket |-> blanket, named |-> [p \in Paths |-> IF p = q THEN d ELSE "unnamed"]]
    BY DEF Answers
  <2>2. answer.blanket \in Decision /\ answer.named \in [Paths -> Decision \cup {"unnamed"}]
    BY <2>1
  <2> QED
    BY <2>1, <2>2 DEF Answer
<1>2. now \in Second /\ Unused \in Task
  BY Forms DEF Typed, RestOK, TaskForm
<1>3. /\ on \in Task /\ on.kind = "execute" /\ on.at = Unused.at /\ on.job = j
      /\ on.log = Unused.log /\ on.second = now /\ on.displaced = Unused.displaced
  BY <1>1, <1>2 DEF Task
<1>4. on.at = "begin" /\ on.log = <<>> /\ on.displaced = "nothing"
  BY <1>3 DEF Unused
<1>5. on \in TaskForm
  <2>1. Arrived(on.log) = {}
    BY <1>4, NoMoves DEF Arrived
  <2>2. CarriesOut(on)
    BY <1>3, <1>4, <2>1 DEF CarriesOut, Slot
  <2> QED
    BY <1>3, <1>4, <2>2, NoMoves DEF TaskForm
<1>6. Goes(t, on)
  BY DEF Execute, Goes
<1> HIDE DEF on
<1>7. Turned(t) /\ tasks'[t] = on
  BY <1>5, <1>6, GoesOn
<1> QED
  BY <1>3, <1>4, <1>7 DEF Execute, Starts

LEMMA UndoDoes ==
  ASSUME Typed, NEW t \in Tasks, NEW j \in Jobs, Undo(t, j)
  PROVE  /\ UNCHANGED <<files, staging, plans, now, ghosts, left>> /\ Turned(t)
         /\ tasks[t].kind = "unused" /\ plans[j].held /\ plans[j].logged /\ Starts(t, j)
         /\ "out of order" \in Circumstances \/ \A p \in Touched(plans[j].log) : mover[p] = j
         /\ LET on == tasks'[t]
            IN on.kind = "undo" /\ on.at = "begin" /\ on.job = j /\ on.log = <<>> /\ on.second = 0
<1> DEFINE on == [Unused EXCEPT !.kind = "undo", !.job = j]
<1>1. Unused \in Task
  BY Forms DEF TaskForm
<1>2. /\ on \in Task /\ on.kind = "undo" /\ on.at = Unused.at /\ on.job = j /\ on.log = Unused.log
      /\ on.second = Unused.second
  BY <1>1 DEF Task
<1>3. on.at = "begin" /\ on.log = <<>> /\ on.second = 0
  BY <1>2 DEF Unused
<1>4. on \in TaskForm
  BY <1>2, <1>3, NoMoves DEF TaskForm, Undoes
<1>5. Goes(t, on)
  BY DEF Undo, Goes
<1> HIDE DEF on
<1>6. Turned(t) /\ tasks'[t] = on
  BY <1>4, <1>5, GoesOn
<1> QED
  BY <1>2, <1>3, <1>6 DEF Undo, Starts

LEMMA PutBackDoes ==
  ASSUME Typed, NEW t \in Tasks, NEW s \in Second, NEW p \in Paths, PutBack(t, s, p)
  PROVE  /\ UNCHANGED <<files, staging, plans, now, ghosts, left>> /\ Turned(t)
         /\ tasks[t].kind = "unused" /\ Starts(t, 0) /\ FreshSecond
         /\ LET on == tasks'[t]
            IN /\ on.kind = "put back" /\ on.at = "next" /\ on.path = p /\ on.second = now
               /\ on.to = s /\ on.log = <<>>
<1> DEFINE on == [Unused EXCEPT !.kind = "put back", !.at = "next", !.path = p, !.second = now, !.to = s]
<1>1. Unused \in Task /\ now \in Second /\ s \in Nat /\ p \in Nat
  BY Forms, Places, PathsEnd DEF TaskForm, Typed, RestOK
<1>2. /\ on \in Task /\ on.kind = "put back" /\ on.at = "next" /\ on.path = p /\ on.to = s
      /\ on.second = now /\ on.log = Unused.log
  BY <1>1 DEF Task
<1>3. on.log = <<>>
  BY <1>2 DEF Unused
<1>4. on \in TaskForm
  BY <1>2, <1>3, NoMoves DEF TaskForm, PutsBack
<1>5. Goes(t, on)
  BY DEF PutBack, Goes
<1> HIDE DEF on
<1>6. Turned(t) /\ tasks'[t] = on
  BY <1>4, <1>5, GoesOn
<1> QED
  BY <1>2, <1>3, <1>6 DEF PutBack, Starts

LEMMA BeginsDoes ==
  ASSUME Typed, NEW t \in Tasks, Begins(t)
  PROVE  /\ UNCHANGED <<files, now, ghosts>> /\ Turned(t)
         /\ Carrying(t) /\ tasks[t].at = "begin" /\ tasks[t].job \in Jobs
         /\ LET on == tasks'[t]
                j  == tasks[t].job
            IN /\ on.log = <<>>
               /\ \/ /\ on.kind = "execute" /\ on.at = "next" /\ on.job = j /\ on.second = tasks[t].second
                     /\ on.entries = plans[j].entries /\ plans[j].held
                     /\ \E before \in [Paths -> Int] : plans' = [plans EXCEPT ![j].before = before]
                  \/ on.kind = "over" /\ UNCHANGED plans
         /\ staging' \in [Jobs -> SUBSET Paths] /\ left' \in Nat
<1> DEFINE task == tasks[t]
           j == task.job
           began == [task EXCEPT !.at = "next", !.entries = plans[j].entries]
           next == NextFrom(began, Min(Paths))
           on == [began EXCEPT !.path = next]
           ended == Over([task EXCEPT !.failed = TRUE])
<1>0. task \in TaskForm /\ task.kind = "execute" /\ task.at = "begin"
  BY TaskIs DEF Begins
<1>1. task \in Task /\ CarriesOut(task) /\ j \in Jobs /\ task.log = <<>>
  BY <1>0 DEF TaskForm, CarriesOut
<1>2. plans[j].entries \in [Paths -> Entry]
  BY <1>1, PlanIs
<1>3. Min(Paths) \in Nat
  <2>1. \A p \in Paths : p \in Nat
    OBVIOUS
  <2> QED
    BY <2>1, PathsEnd
<1>4. /\ next \in Paths \cup {Beyond} /\ next \in Nat
      /\ next # Beyond => Decided(began, next) # "skip"
  BY <1>3, NextIsAPath
<1> HIDE DEF next
<1>5. /\ on \in Task /\ on.kind = "execute" /\ on.at = "next" /\ on.job = j /\ on.log = task.log
      /\ on.second = task.second /\ on.entries = plans[j].entries /\ on.path = next
      /\ on.displaced = task.displaced /\ on.to = task.to /\ on.answer = began.answer
      /\ on.entries = began.entries
  BY <1>0, <1>1, <1>2, <1>4 DEF Task
<1>6. on \in TaskForm
  <2>1. Arrived(on.log) = {} /\ on.log = <<>>
    BY <1>1, <1>5, NoMoves DEF Arrived
  <2>2. Decided(on, next) = Decided(began, next)
    BY <1>5 DEF Decided
  <2>3. CarriesOut(on)
    BY <1>0, <1>1, <1>4, <1>5, <2>1, <2>2 DEF CarriesOut
  <2> QED
    BY <1>5, <2>1, <2>3, NoMoves DEF TaskForm
<1>7. ended \in TaskForm /\ ended.kind = "over" /\ ended.log = <<>>
  BY <1>0, OverIs
<1>8. UNCHANGED <<files, now, ghosts>>
  BY DEF Begins
<1>9. \/ /\ plans[j].held /\ Goes(t, on) /\ plans' = [plans EXCEPT ![j].before = [p \in Paths |-> disk[Own(p)]]]
         /\ UNCHANGED <<staging, left>>
      \/ Goes(t, ended) /\ UNCHANGED plans
         /\ (UNCHANGED <<staging, left>> \/ (Happens /\ staging' = [staging EXCEPT ![j] = {}]))
  BY DEF Begins, next
<1>10. staging' \in [Jobs -> SUBSET Paths] /\ left' \in Nat
  BY <1>9 DEF Typed, RestOK, Happens
<1>11. [p \in Paths |-> disk[Own(p)]] \in [Paths -> Int]
  BY Places DEF Typed, FilesOK
<1> HIDE DEF on, ended
<1>12. CASE plans[j].held /\ Goes(t, on) /\ plans' = [plans EXCEPT ![j].before = [p \in Paths |-> disk[Own(p)]]]
  <2>1. Turned(t) /\ tasks'[t] = on
    BY <1>12, <1>6, GoesOn
  <2> QED
    BY <1>0, <1>1, <1>5, <1>8, <1>10, <1>11, <1>12, <2>1 DEF Carrying
<1>13. CASE Goes(t, ended) /\ UNCHANGED plans
  <2>1. Turned(t) /\ tasks'[t] = ended
    BY <1>13, <1>7, GoesOn
  <2> QED
    BY <1>0, <1>1, <1>7, <1>8, <1>10, <1>13, <2>1 DEF Carrying
<1> QED
  BY <1>9, <1>12, <1>13

LEMMA EventsAreCounted == Typed /\ (UNCHANGED left \/ Happens) => left' \in Nat
BY DEF Typed, RestOK, Happens

LEMMA PathsAreInTurn ==
  ASSUME NEW task \in TaskForm, task.kind = "execute", task.at # "begin", task.path # Beyond
  PROVE  /\ task \in Task /\ task.path \in Paths /\ task.path \in Nat /\ task.job \in Jobs
         /\ Decided(task, task.path) # "skip" /\ Fits(task.log) /\ Once(task.log)
         /\ \A m \in Arrived(task.log) : m.path \in Nat /\ m.path < task.path
         /\ task.entries \in [Paths -> Entry]
<1>1. CarriesOut(task) /\ task.log \in Seq(MoveRecord)
  BY TaskFields
<1>2. task.path \in Paths /\ task.job \in Jobs /\ Decided(task, task.path) # "skip"
  BY <1>1 DEF CarriesOut
<1>3. \A p \in Paths : p \in Nat
  BY PathsEnd
<1>4. ASSUME NEW m \in Arrived(task.log) PROVE m.path \in Nat /\ m.path < task.path
  <2>1. m.path \in Paths
    BY <1>1, MovesAre, MoveFields DEF Arrived
  <2>2. m.path \notin Ahead(task) /\ (task.at = "displaced" => m.path # task.path)
    BY <1>1, <1>4 DEF CarriesOut
  <2>3. ~(m.path > task.path) /\ m.path # task.path
    BY <2>1, <2>2, TaskFields DEF Ahead
  <2>4. m.path \in Nat /\ task.path \in Nat
    BY <1>2, <1>3, <2>1
  <2> QED
    BY <2>3, <2>4
<1> QED
  BY <1>2, <1>3, <1>4, TaskFields DEF TaskForm

(* With what was in its way aside, a restore can put its file. *)
Displacing(task, displaced, to) ==
  [task EXCEPT !.at = "displaced", !.displaced = displaced, !.to = to]

LEMMA DisplacedIs ==
  ASSUME NEW task \in TaskForm, task.kind = "execute", task.at = "next", task.path # Beyond,
         NEW displaced \in {"stashed", "renamed"}, NEW to \in Nat, Slot(displaced, to)
  PROVE  LET on == Displacing(task, displaced, to)
         IN /\ on \in TaskForm /\ on.kind = "execute" /\ on.at = "displaced" /\ on.job = task.job
            /\ on.log = task.log /\ on.entries = task.entries /\ on.second = task.second
            /\ on.path = task.path /\ on.displaced = displaced /\ on.to = to
            /\ Ahead(on) \subseteq {p \in Paths : p > task.path}
<1> DEFINE on == Displacing(task, displaced, to)
<1>1. task \in Task /\ CarriesOut(task) /\ task.path \in Paths
  BY PathsAreInTurn, TaskFields
<1>2. /\ on \in Task /\ on.kind = "execute" /\ on.at = "displaced" /\ on.job = task.job
      /\ on.log = task.log /\ on.entries = task.entries /\ on.second = task.second
      /\ on.path = task.path /\ on.displaced = displaced /\ on.to = to /\ on.answer = task.answer
  BY <1>1 DEF Task, Displacing
<1> HIDE DEF on
<1>3. Decided(on, on.path) = Decided(task, task.path)
  BY <1>2 DEF Decided
<1>4. Ahead(on) = {p \in Paths : p > task.path}
  BY <1>2 DEF Ahead
<1>5. \A m \in Arrived(on.log) : m.path \notin Ahead(on) /\ m.path # on.path
  <2>1. \A m \in Arrived(task.log) : m.path \in Nat /\ m.path < task.path
    BY PathsAreInTurn
  <2>2. task.path \in Nat
    BY PathsAreInTurn
  <2>3. \A m \in Arrived(task.log) : ~(m.path > task.path) /\ m.path # task.path
    BY <2>1, <2>2
  <2> QED
    BY <1>2, <1>4, <2>3
<1>6. CarriesOut(on)
  BY <1>1, <1>2, <1>3, <1>5 DEF CarriesOut
<1> QED
  BY <1>2, <1>4, <1>6, TaskFields DEF TaskForm, on

LEMMA DisplacesDoes ==
  ASSUME Typed, NEW t \in Tasks, Displaces(t)
  PROVE  /\ UNCHANGED <<trash, infos, staging, plans, now, ghosts>> /\ Turned(t) /\ left' \in Nat
         /\ Carrying(t) /\ tasks[t].at = "next" /\ tasks[t].path \in Paths
         /\ LET on   == tasks'[t]
                p    == tasks[t].path
                here == disk[Own(p)]
                kept == <<tasks[t].second, p>>
            IN /\ on.kind = "execute" /\ on.job = tasks[t].job /\ on.log = tasks[t].log
               /\ on.entries = tasks[t].entries /\ on.second = tasks[t].second
               /\ Ahead(on) \subseteq {q \in Paths : q > p}
               /\ \/ /\ on.at = "displaced" /\ on.path = p /\ on.displaced = "stashed" /\ on.to = on.second
                     /\ here # Nothing
                     /\ stash' = [stash EXCEPT ![kept] = here] /\ disk' = [disk EXCEPT ![Own(p)] = Nothing]
                  \/ /\ on.at = "displaced" /\ on.path = p /\ on.displaced = "renamed" /\ on.to = FreeName(p)
                     /\ here # Nothing /\ UNCHANGED stash
                     /\ disk' = [disk EXCEPT ![Own(p)] = Nothing, ![<<p, FreeName(p)>>] = here]
                  \/ on.at = "next" /\ UNCHANGED <<disk, stash>>
<1> DEFINE task == tasks[t]
           p == task.path
           here == disk[Own(p)]
           kept == <<task.second, p>>
           stashed == Displacing(task, "stashed", task.second)
           renamed == Displacing(task, "renamed", FreeName(p))
           past == Past(task, TRUE)
<1>1. task \in TaskForm /\ task.kind = "execute" /\ task.at = "next" /\ task.path # Beyond
  BY TaskIs DEF Displaces, At
<1>2. /\ p \in Paths /\ p \in Nat /\ task \in Task /\ task.job \in Jobs /\ Fits(task.log) /\ Once(task.log)
      /\ \A m \in Arrived(task.log) : m.path \in Nat /\ m.path < p
  BY <1>1, PathsAreInTurn
<1>3. task.second \in Second /\ task.second \in Nat
  <2>1. task.second \in Second
    BY <1>1, TaskFields
  <2> QED
    BY <2>1, Places, <1>2
<1>4. FreeName(p) \in Aside /\ FreeName(p) \in Nat
  BY <1>2, FreeNameIs, Places DEF Typed
<1>5. /\ Slot("stashed", task.second) /\ Slot("renamed", FreeName(p))
  BY <1>3, <1>4 DEF Slot
<1>10. \/ /\ Renames(here, stash[kept]) /\ stash' = [stash EXCEPT ![kept] = here]
          /\ disk' = [disk EXCEPT ![Own(p)] = Nothing] /\ Goes(t, stashed) /\ UNCHANGED left
       \/ /\ here # Nothing /\ disk' = [disk EXCEPT ![Own(p)] = Nothing, ![<<p, FreeName(p)>>] = here]
          /\ Goes(t, renamed) /\ UNCHANGED <<stash, left>>
       \/ Goes(t, past) /\ UNCHANGED <<disk, stash>> /\ (UNCHANGED left \/ Happens)
  BY DEF Displaces, Displacing
<1>6. /\ stashed \in TaskForm /\ stashed.kind = "execute" /\ stashed.at = "displaced"
      /\ stashed.job = task.job /\ stashed.log = task.log /\ stashed.entries = task.entries
      /\ stashed.second = task.second /\ stashed.path = p /\ stashed.displaced = "stashed"
      /\ stashed.to = task.second /\ Ahead(stashed) \subseteq {q \in Paths : q > p}
  BY <1>1, <1>3, <1>5, DisplacedIs
<1>7. /\ renamed \in TaskForm /\ renamed.kind = "execute" /\ renamed.at = "displaced"
      /\ renamed.job = task.job /\ renamed.log = task.log /\ renamed.entries = task.entries
      /\ renamed.second = task.second /\ renamed.path = p /\ renamed.displaced = "renamed"
      /\ renamed.to = FreeName(p) /\ Ahead(renamed) \subseteq {q \in Paths : q > p}
  BY <1>1, <1>4, <1>5, DisplacedIs
<1>8. \A m \in Arrived(task.log) : m.path <= p
  BY <1>2
<1>9. /\ past \in TaskForm /\ past.kind = "execute" /\ past.at = "next" /\ past.job = task.job
      /\ past.log = task.log /\ past.entries = task.entries /\ past.second = task.second
      /\ Ahead(past) \subseteq {q \in Paths : q > p}
  BY <1>1, <1>2, <1>8, PastIs
<1>11. UNCHANGED <<trash, infos, staging, plans, now, ghosts>>
  BY DEF Displaces
<1>12. left' \in Nat
  BY <1>10, EventsAreCounted
<1> HIDE DEF stashed, renamed, past
<1>13. CASE Renames(here, stash[kept]) /\ stash' = [stash EXCEPT ![kept] = here]
            /\ disk' = [disk EXCEPT ![Own(p)] = Nothing] /\ Goes(t, stashed)
  <2>1. Turned(t) /\ tasks'[t] = stashed
    BY <1>6, <1>13, GoesOn
  <2> QED
    BY <1>1, <1>2, <1>6, <1>11, <1>12, <1>13, <2>1 DEF Renames, Carrying
<1>14. CASE here # Nothing /\ disk' = [disk EXCEPT ![Own(p)] = Nothing, ![<<p, FreeName(p)>>] = here]
            /\ Goes(t, renamed) /\ UNCHANGED <<stash, left>>
  <2>1. Turned(t) /\ tasks'[t] = renamed
    BY <1>7, <1>14, GoesOn
  <2> QED
    BY <1>1, <1>2, <1>7, <1>11, <1>12, <1>14, <2>1 DEF Carrying
<1>15. CASE Goes(t, past) /\ UNCHANGED <<disk, stash>>
  <2>0. past \in TaskForm /\ Goes(t, past)
    BY <1>9, <1>15
  <2>1. Turned(t) /\ tasks'[t] = past
    BY <2>0, GoesOn, Zenon
  <2> QED
    BY <1>1, <1>2, <1>9, <1>11, <1>12, <1>15, <2>1 DEF Carrying
<1> QED
  BY <1>10, <1>13, <1>14, <1>15

(* What is put at a path: the backup's file, or one of the Trash. *)
Source(task) ==
  LET copy == task.entries[task.path].copy
  IN IF copy # 0 THEN trash[<<task.path, copy>>]
     ELSE IF task.path \in staging[task.job] THEN -task.job ELSE Nothing

MoveOf(task) ==
  [kind |-> "arrived", path |-> task.path, copy |-> task.entries[task.path].copy,
   displaced |-> task.displaced, to |-> task.to, after |-> mover[task.path]]

LEMMA ArrivesDoes ==
  ASSUME Typed, NEW t \in Tasks, Arrives(t)
  PROVE  /\ UNCHANGED <<stash, infos, plans, now, wrote, dear>> /\ Turned(t)
         /\ left' \in Nat /\ staging' \in [Jobs -> SUBSET Paths]
         /\ Carrying(t) /\ tasks[t].at # "begin" /\ tasks[t].path \in Paths
         /\ tasks[t].at = "next" =>
              /\ tasks[t].entries[tasks[t].path].class # "not asked"
              /\ ~tasks[t].entries[tasks[t].path].there
         /\ LET on   == tasks'[t]
                task == tasks[t]
                p    == task.path
                copy == task.entries[p].copy
            IN /\ on.kind = "execute" /\ on.at = "next" /\ on.job = task.job
               /\ on.entries = task.entries /\ on.second = task.second
               /\ Ahead(on) \subseteq {q \in Paths : q > p}
               /\ \/ /\ Source(task) # Nothing /\ disk' = [disk EXCEPT ![Own(p)] = Source(task)]
                     /\ mover' = [mover EXCEPT ![p] = task.job]
                     /\ trash' = IF copy = 0 THEN trash ELSE [trash EXCEPT ![<<p, copy>>] = Nothing]
                     /\ Arrived(on.log) = Arrived(task.log) \cup {MoveOf(task)}
                     /\ MoveOf(task) \in MoveRecord
                  \/ UNCHANGED <<disk, trash, mover>> /\ on.log = task.log
<1> DEFINE task == tasks[t]
           p == task.path
           copy == task.entries[p].copy
           log == Append(task.log, MoveOf(task))
           written == [task EXCEPT !.log = log]
           done == Past(written, FALSE)
           past == Past(task, TRUE)
<1>1. task \in TaskForm /\ task.kind = "execute" /\ task.at # "begin" /\ task.path # Beyond
  BY TaskIs DEF Arrives, At
<1>2. /\ p \in Paths /\ p \in Nat /\ task \in Task /\ task.job \in Jobs /\ Fits(task.log) /\ Once(task.log)
      /\ \A m \in Arrived(task.log) : m.path \in Nat /\ m.path < p
      /\ Decided(task, p) # "skip" /\ task.entries \in [Paths -> Entry]
  BY <1>1, PathsAreInTurn
<1>3. /\ task.at = "next" => ~task.entries[p].there
      /\ task.entries[p].class # "not asked"
  BY <1>1, <1>2 DEF Arrives, At, Decided
<1>4. MoveOf(task) \in MoveRecord
  <2>1. copy \in 0 .. 2 /\ mover[p] \in Jobs \cup {0}
    BY <1>2 DEF Entry, Typed, RestOK
  <2>2. task.displaced \in {"nothing", "stashed", "renamed"} /\ task.to \in Nat
    BY <1>1, TaskFields
  <2> QED
    BY <1>2, <2>1, <2>2 DEF MoveOf, MoveRecord
<1>5. /\ MoveOf(task).kind = "arrived" /\ MoveOf(task).path = p
      /\ MoveOf(task).displaced = task.displaced /\ MoveOf(task).to = task.to
  BY DEF MoveOf
<1>6. \A m \in Arrived(task.log) : m.path # p /\ m.path <= p
  BY <1>2
<1>7. /\ log \in Seq(MoveRecord) /\ Fits(log) /\ Once(log)
      /\ Arrived(log) = Arrived(task.log) \cup {MoveOf(task)}
  <2>1. Slot(task.displaced, task.to) /\ task.log \in Seq(MoveRecord)
    BY <1>1, TaskFields DEF CarriesOut
  <2> QED
    BY <1>2, <1>4, <1>5, <1>6, <2>1, LogGrows
<1> HIDE DEF log
<1>8. /\ written \in Task /\ written.kind = "execute" /\ written.job = task.job /\ written.path = p
      /\ written.log = log /\ written.entries = task.entries /\ written.second = task.second
  BY <1>1, <1>2, <1>7 DEF Task
<1>9. \A m \in Arrived(log) : m.path <= p
  BY <1>2, <1>5, <1>6, <1>7
<1> HIDE DEF written
<1>10. /\ done \in TaskForm /\ done.kind = "execute" /\ done.at = "next" /\ done.job = task.job
       /\ done.log = log /\ done.entries = task.entries /\ done.second = task.second
       /\ Ahead(done) \subseteq {q \in Paths : q > p}
  BY <1>2, <1>7, <1>8, <1>9, PastIs
<1>11. /\ past \in TaskForm /\ past.kind = "execute" /\ past.at = "next" /\ past.job = task.job
       /\ past.log = task.log /\ past.entries = task.entries /\ past.second = task.second
       /\ Ahead(past) \subseteq {q \in Paths : q > p}
  BY <1>1, <1>2, <1>6, PastIs
<1>12. \/ /\ Renames(Source(task), disk[Own(p)]) /\ disk' = [disk EXCEPT ![Own(p)] = Source(task)]
          /\ mover' = [mover EXCEPT ![p] = task.job] /\ Goes(t, done) /\ UNCHANGED left
          /\ \/ copy = 0 /\ staging' = [staging EXCEPT ![task.job] = @ \ {p}] /\ UNCHANGED trash
             \/ copy # 0 /\ trash' = [trash EXCEPT ![<<p, copy>>] = Nothing] /\ UNCHANGED staging
       \/ Goes(t, past) /\ UNCHANGED <<disk, trash, staging, mover>> /\ (UNCHANGED left \/ Happens)
  BY DEF Arrives, Source, MoveOf, written, log
<1>13. UNCHANGED <<stash, infos, plans, now, wrote, dear>>
  BY DEF Arrives
<1>14. left' \in Nat /\ staging' \in [Jobs -> SUBSET Paths]
  <2>1. left' \in Nat
    BY <1>12, EventsAreCounted
  <2>2. staging \in [Jobs -> SUBSET Paths]
    BY DEF Typed, RestOK
  <2>3. UNCHANGED staging \/ staging' = [staging EXCEPT ![task.job] = @ \ {p}]
    BY <1>12
  <2>4. staging' \in [Jobs -> SUBSET Paths]
    BY <1>2, <2>2, <2>3
  <2> QED
    BY <2>1, <2>4
<1> HIDE DEF done, past
<1>15. CASE /\ Renames(Source(task), disk[Own(p)]) /\ disk' = [disk EXCEPT ![Own(p)] = Source(task)]
            /\ mover' = [mover EXCEPT ![p] = task.job] /\ Goes(t, done)
            /\ \/ copy = 0 /\ UNCHANGED trash
               \/ copy # 0 /\ trash' = [trash EXCEPT ![<<p, copy>>] = Nothing]
  <2>1. Turned(t) /\ tasks'[t] = done
    BY <1>10, <1>15, GoesOn
  <2>2. Source(task) # Nothing
    BY <1>15 DEF Renames
  <2> QED
    BY <1>1, <1>2, <1>3, <1>4, <1>7, <1>10, <1>13, <1>14, <1>15, <2>1, <2>2 DEF Carrying
<1>16. CASE Goes(t, past) /\ UNCHANGED <<disk, trash, staging, mover>>
  <2>1. Turned(t) /\ tasks'[t] = past
    BY <1>11, <1>16, GoesOn
  <2> QED
    BY <1>1, <1>2, <1>3, <1>11, <1>13, <1>14, <1>16, <2>1 DEF Carrying
<1> QED
  BY <1>12, <1>15, <1>16

LEMMA EndsDoes ==
  ASSUME Typed, NEW t \in Tasks, Ends(t)
  PROVE  /\ UNCHANGED <<disk, stash, trash, now, ghosts, left>> /\ Turned(t)
         /\ Carrying(t) /\ tasks[t].at = "next" /\ tasks[t].job \in Jobs
         /\ infos' \in [Binned -> BOOLEAN] /\ staging' \in [Jobs -> SUBSET Paths]
         /\ tasks'[t].kind = "over" /\ tasks'[t].log = <<>>
         /\ plans' \in [Jobs -> PlanForm]
         /\ \/ ~plans[tasks[t].job].held /\ UNCHANGED plans
            \/ /\ plans[tasks[t].job].held
               /\ \A j \in Jobs : j # tasks[t].job => plans'[j] = plans[j]
               /\ plans'[tasks[t].job].logged /\ plans'[tasks[t].job].held
               /\ plans'[tasks[t].job].used
               /\ Arrived(plans'[tasks[t].job].log) = Arrived(tasks[t].log)
<1> DEFINE task == tasks[t]
           j == task.job
           gone == SetToSeq(Emptied(task))
           leave(p) == [kind |-> "left trash", path |-> p, copy |-> task.entries[p].copy,
                        displaced |-> "nothing", to |-> 0, after |-> 0]
           tail == [i \in 1 .. Len(gone) |-> leave(gone[i])]
           log == task.log \o tail
<1>1. task \in TaskForm /\ task.kind = "execute" /\ task.at = "next"
  BY TaskIs DEF Ends, At
<1>2. /\ j \in Jobs /\ task.log \in Seq(MoveRecord) /\ Fits(task.log) /\ Once(task.log)
      /\ task.entries \in [Paths -> Entry] /\ task.failed \in BOOLEAN
  BY <1>1, TaskFields DEF CarriesOut
<1>3. Over(task) \in TaskForm /\ Over(task).kind = "over" /\ Over(task).log = <<>>
  BY <1>1, OverIs
<1>4. /\ gone \in Seq(Emptied(task)) /\ Len(gone) \in Nat
      /\ \A i \in 1 .. Len(gone) : gone[i] \in Emptied(task)
  <2>1. IsFiniteSet(Emptied(task))
    BY FS_Subset DEF Emptied
  <2> QED
    BY <2>1, InARow
<1> HIDE DEF gone
<1>5. \A p \in Emptied(task) : leave(p) \in MoveRecord /\ leave(p).copy # 0
  BY <1>2 DEF Emptied, MoveRecord, Entry
<1>6. /\ tail \in [1 .. Len(gone) -> MoveRecord]
      /\ \A i \in 1 .. Len(gone) : /\ tail[i].kind = "left trash" /\ tail[i].copy # 0
                                  /\ tail[i].displaced = "nothing"
  BY <1>4, <1>5
<1>7. tail \in Seq(MoveRecord) /\ DOMAIN tail = 1 .. Len(gone)
  <2> HIDE DEF tail
  <2>1. tail \in Seq(MoveRecord)
    BY <1>4, <1>6, RowIsSeq
  <2>2. DOMAIN tail = 1 .. Len(gone)
    BY <1>6
  <2> QED
    BY <2>1, <2>2
<1>8. OnlyLeaves(tail)
  BY <1>6, <1>7 DEF OnlyLeaves
<1> HIDE DEF tail
<1>9. log \in Seq(MoveRecord) /\ Fits(log) /\ Once(log) /\ Arrived(log) = Arrived(task.log)
  BY <1>2, <1>7, <1>8, LogEnds
<1>10. /\ UNCHANGED <<disk, stash, trash, now, ghosts, left>>
       /\ infos' = [b \in Binned |-> infos[b] /\ ~(b[1] \in Emptied(task) /\ task.entries[b[1]].copy = b[2])]
       /\ staging' = [staging EXCEPT ![j] = {}] /\ Goes(t, Over(task))
       /\ plans' = IF ~plans[j].held THEN plans
                   ELSE [plans EXCEPT ![j].logged = TRUE, ![j].clean = ~task.failed, ![j].log = log]
  BY DEF Ends, gone, tail
<1> HIDE DEF log
<1>11. infos' \in [Binned -> BOOLEAN]
  <2>1. \A b \in Binned : (infos[b] /\ ~(b[1] \in Emptied(task) /\ task.entries[b[1]].copy = b[2])) \in BOOLEAN
    OBVIOUS
  <2> QED
    BY <1>10, <2>1, Zenon
<1>12. staging' \in [Jobs -> SUBSET Paths]
  BY <1>10 DEF Typed, RestOK
<1>13. Turned(t) /\ tasks'[t] = Over(task)
  BY <1>3, <1>10, GoesOn
<1>14. plans \in [Jobs -> PlanForm]
  BY DEF Typed, FormsOK
<1>15. CASE ~plans[j].held
  BY <1>1, <1>2, <1>3, <1>10, <1>11, <1>12, <1>13, <1>14, <1>15 DEF Carrying
<1>16. CASE plans[j].held
  <2>1. (~task.failed) \in BOOLEAN
    BY <1>2
  <2>2. PICK clean \in BOOLEAN : plans' = [plans EXCEPT ![j].logged = TRUE, ![j].clean = clean, ![j].log = log]
    BY <1>10, <1>16, <2>1
  <2> DEFINE plan == [plans[j] EXCEPT !.logged = TRUE, !.clean = clean, !.log = log]
  <2>3. plans' = [plans EXCEPT ![j] = plan]
    BY <2>2
  <2>p. plans[j] \in Plan
    BY <1>2, <1>14 DEF PlanForm
  <2>4. /\ plan \in Plan /\ plan.logged /\ plan.held = plans[j].held /\ plan.used = plans[j].used
        /\ plan.log = log
    BY <1>9, <2>p DEF Plan
  <2>5. plan.held /\ plan.used
    BY <1>2, <1>16, <2>4, PlanIs
  <2>6. plan \in PlanForm
    BY <1>9, <2>4, <2>5 DEF PlanForm
  <2> HIDE DEF plan
  <2>7. plans' \in [Jobs -> PlanForm] /\ plans'[j] = plan /\ \A k \in Jobs : k # j => plans'[k] = plans[k]
    BY <1>2, <1>14, <2>3, <2>6
  <2> QED
    BY <1>1, <1>2, <1>3, <1>9, <1>10, <1>11, <1>12, <1>13, <1>16, <2>4, <2>5, <2>7 DEF Carrying
<1> QED
  BY <1>15, <1>16

LEMMA UndoBeginsDoes ==
  ASSUME Typed, NEW t \in Tasks, UndoBegins(t)
  PROVE  /\ UNCHANGED <<files, staging, plans, now, ghosts, left>> /\ Turned(t)
         /\ Undoing(t) /\ tasks[t].at = "begin" /\ tasks[t].job \in Jobs
         /\ LET on == tasks'[t]
                j  == tasks[t].job
            IN \/ /\ plans[j].held /\ plans[j].logged /\ on.kind = "undo" /\ on.at = "next"
                  /\ on.job = j /\ on.log = plans[j].log /\ on.path = Len(plans[j].log)
                  /\ on.second = tasks[t].second
               \/ on.kind = "over" /\ on.log = <<>>
<1> DEFINE task == tasks[t]
           j == task.job
           log == plans[j].log
           on == [task EXCEPT !.at = "next", !.log = log, !.path = Len(log)]
           ended == Over([task EXCEPT !.failed = TRUE])
<1>1. task \in TaskForm /\ task.kind = "undo" /\ task.at = "begin"
  BY TaskIs DEF UndoBegins, At
<1>2. task \in Task /\ j \in Jobs
  BY <1>1 DEF TaskForm, Undoes
<1>3. log \in Seq(MoveRecord) /\ Fits(log) /\ Once(log) /\ Len(log) \in Nat
  BY <1>2, PlanIs, MovesAre
<1>4. ended \in TaskForm /\ ended.kind = "over" /\ ended.log = <<>>
  BY <1>1, OverIs
<1> HIDE DEF log
<1>5. /\ on \in Task /\ on.kind = "undo" /\ on.at = "next" /\ on.job = j /\ on.log = log
      /\ on.path = Len(log) /\ on.second = task.second
  BY <1>1, <1>2, <1>3 DEF Task
<1>6. on \in TaskForm
  <2>1. on.path <= Len(on.log)
    BY <1>3, <1>5
  <2>2. Undoes(on)
    BY <1>2, <1>5, <2>1 DEF Undoes
  <2> QED
    BY <1>3, <1>5, <2>2 DEF TaskForm
<1>7. /\ UNCHANGED <<files, staging, plans, now, ghosts, left>>
      /\ Goes(t, IF plans[j].held /\ plans[j].logged THEN on ELSE ended)
  BY DEF UndoBegins, log
<1> HIDE DEF on, ended
<1>8. CASE plans[j].held /\ plans[j].logged
  <2>1. Turned(t) /\ tasks'[t] = on
    BY <1>6, <1>7, <1>8, GoesOn
  <2> QED
    BY <1>1, <1>2, <1>5, <1>7, <1>8, <2>1 DEF Undoing, log
<1>9. CASE ~(plans[j].held /\ plans[j].logged)
  <2>1. Turned(t) /\ tasks'[t] = ended
    BY <1>4, <1>7, <1>9, GoesOn
  <2> QED
    BY <1>1, <1>2, <1>4, <1>7, <2>1 DEF Undoing
<1> QED
  BY <1>8, <1>9

LEMMA ThenTheDisplacedIs ==
  ASSUME NEW task \in TaskForm, task.kind = "undo", task.at = "next", task.path > 0,
         Undone(task).kind = "arrived"
  PROVE  LET on == ThenTheDisplaced(task, Undone(task))
         IN /\ on \in TaskForm /\ on.kind = "undo" /\ on.job = task.job /\ on.log = task.log
            /\ \/ on.at = "next" /\ on.path = task.path - 1
               \/ /\ on.at = "displaced" /\ on.path = task.path
                  /\ Undone(task).displaced # "nothing"
<1>1. CASE Undone(task).displaced = "nothing"
  BY <1>1, EarlierIs DEF ThenTheDisplaced
<1>2. CASE Undone(task).displaced # "nothing"
  BY <1>2, ThenIs DEF ThenTheDisplaced
<1> QED
  BY <1>1, <1>2

LEMMA UndoRemovesDoes ==
  ASSUME Typed, NEW t \in Tasks, UndoRemoves(t)
  PROVE  /\ UNCHANGED <<stash, trash, infos, staging, plans, now, wrote, dear>> /\ Turned(t)
         /\ left' \in Nat
         /\ Undoing(t) /\ tasks[t].at = "next" /\ tasks[t].path > 0
         /\ LET on   == tasks'[t]
                task == tasks[t]
                move == Undone(task)
            IN /\ move \in MoveRecord /\ move.kind = "arrived" /\ move.copy = 0
               /\ on.kind = "undo" /\ on.job = task.job /\ on.log = task.log
               /\ \/ /\ disk' = [disk EXCEPT ![Own(move.path)] = Nothing]
                     /\ mover' = [mover EXCEPT ![move.path] = move.after]
                     /\ \/ on.at = "next" /\ on.path = task.path - 1
                        \/ on.at = "displaced" /\ on.path = task.path /\ move.displaced # "nothing"
                  \/ UNCHANGED <<disk, mover>> /\ on.at = "next" /\ on.path = task.path - 1
<1> DEFINE task == tasks[t]
           move == Undone(task)
           then == ThenTheDisplaced(task, move)
           on == Earlier(task, TRUE)
<1>1. /\ task \in TaskForm /\ task.kind = "undo" /\ task.at = "next" /\ task.path > 0
      /\ move.kind = "arrived" /\ move.copy = 0
  BY TaskIs DEF UndoRemoves, At
<1>2. move \in MoveRecord
  BY <1>1, UndoneIs
<1>3. /\ then \in TaskForm /\ then.kind = "undo" /\ then.job = task.job /\ then.log = task.log
      /\ \/ then.at = "next" /\ then.path = task.path - 1
         \/ then.at = "displaced" /\ then.path = task.path /\ move.displaced # "nothing"
  BY <1>1, ThenTheDisplacedIs
<1>4. /\ on \in TaskForm /\ on.kind = "undo" /\ on.at = "next" /\ on.job = task.job /\ on.log = task.log
      /\ on.path = task.path - 1
  BY <1>1, EarlierIs
<1>5. /\ UNCHANGED <<stash, trash, infos, staging, plans, now, wrote, dear>>
      /\ \/ /\ disk' = [disk EXCEPT ![Own(move.path)] = Nothing]
            /\ mover' = [mover EXCEPT ![move.path] = move.after]
            /\ Goes(t, then) /\ UNCHANGED left
         \/ Happens /\ Goes(t, on) /\ UNCHANGED <<disk, mover>>
  BY DEF UndoRemoves
<1>6. left' \in Nat
  BY <1>5, EventsAreCounted
<1> HIDE DEF then, on
<1>7. CASE /\ disk' = [disk EXCEPT ![Own(move.path)] = Nothing]
           /\ mover' = [mover EXCEPT ![move.path] = move.after] /\ Goes(t, then)
  <2>1. Turned(t) /\ tasks'[t] = then
    BY <1>3, <1>7, GoesOn
  <2> QED
    BY <1>1, <1>2, <1>3, <1>5, <1>6, <1>7, <2>1 DEF Undoing
<1>8. CASE Goes(t, on) /\ UNCHANGED <<disk, mover>>
  <2>1. Turned(t) /\ tasks'[t] = on
    BY <1>4, <1>8, GoesOn
  <2> QED
    BY <1>1, <1>2, <1>4, <1>5, <1>6, <1>8, <2>1 DEF Undoing
<1> QED
  BY <1>5, <1>7, <1>8

LEMMA UndoReturnsDoes ==
  ASSUME Typed, NEW t \in Tasks, UndoReturns(t)
  PROVE  /\ UNCHANGED <<trash, infos, staging, plans, now, ghosts>> /\ Turned(t) /\ left' \in Nat
         /\ Undoing(t) /\ tasks[t].at = "displaced" /\ tasks[t].path > 0
         /\ LET on   == tasks'[t]
                task == tasks[t]
                move == Undone(task)
                p    == move.path
            IN /\ move \in MoveRecord /\ move.kind = "arrived"
               /\ on.kind = "undo" /\ on.job = task.job /\ on.log = task.log
               /\ on.at = "next" /\ on.path = task.path - 1
               /\ \/ /\ move.displaced = "stashed" /\ move.to \in Second
                     /\ stash[<<move.to, p>>] # Nothing
                     /\ stash' = [stash EXCEPT ![<<move.to, p>>] = Nothing]
                     /\ disk' = [disk EXCEPT ![Own(p)] = stash[<<move.to, p>>]]
                  \/ /\ move.displaced = "renamed" /\ move.to \in Aside
                     /\ disk[<<p, move.to>>] # Nothing /\ UNCHANGED stash
                     /\ disk' = [disk EXCEPT ![Own(p)] = disk[<<p, move.to>>], ![<<p, move.to>>] = Nothing]
                  \/ UNCHANGED <<disk, stash>>
<1> DEFINE task == tasks[t]
           move == Undone(task)
           p == move.path
           kept == <<move.to, p>>
           comes == IF move.displaced = "stashed" THEN stash[kept] ELSE disk[<<p, move.to>>]
           done == Earlier(task, FALSE)
           on == Earlier(task, TRUE)
<1>1. task \in TaskForm /\ task.kind = "undo" /\ task.at = "displaced"
  BY TaskIs DEF UndoReturns, At
<1>2. /\ task.path > 0 /\ move.kind = "arrived" /\ move.displaced # "nothing"
  BY <1>1, TaskFields DEF Undoes
<1>3. move \in MoveRecord /\ Slot(move.displaced, move.to)
  BY <1>1, <1>2, UndoneIs
<1>4. /\ done \in TaskForm /\ done.kind = "undo" /\ done.at = "next" /\ done.job = task.job
      /\ done.log = task.log /\ done.path = task.path - 1
  BY <1>1, <1>2, EarlierIs
<1>5. /\ on \in TaskForm /\ on.kind = "undo" /\ on.at = "next" /\ on.job = task.job
      /\ on.log = task.log /\ on.path = task.path - 1
  BY <1>1, <1>2, EarlierIs
<1>6. /\ UNCHANGED <<trash, infos, staging, plans, now, ghosts>>
      /\ \/ /\ Renames(comes, disk[Own(p)])
            /\ IF move.displaced = "stashed"
               THEN stash' = [stash EXCEPT ![kept] = Nothing] /\ disk' = [disk EXCEPT ![Own(p)] = comes]
               ELSE /\ disk' = [disk EXCEPT ![Own(p)] = comes, ![<<p, move.to>>] = Nothing]
                    /\ UNCHANGED stash
            /\ Goes(t, done) /\ UNCHANGED left
         \/ (UNCHANGED left \/ Happens) /\ Goes(t, on) /\ UNCHANGED <<disk, stash>>
  BY DEF UndoReturns
<1>7. left' \in Nat
  BY <1>6, EventsAreCounted
<1>8. /\ move.displaced = "stashed" \/ move.displaced = "renamed"
      /\ move.displaced = "stashed" => move.to \in Second
      /\ move.displaced = "renamed" => move.to \in Aside
  BY <1>2, <1>3, MoveFields DEF Slot
<1> HIDE DEF done, on
<1>9. CASE /\ Renames(comes, disk[Own(p)])
           /\ IF move.displaced = "stashed"
              THEN stash' = [stash EXCEPT ![kept] = Nothing] /\ disk' = [disk EXCEPT ![Own(p)] = comes]
              ELSE /\ disk' = [disk EXCEPT ![Own(p)] = comes, ![<<p, move.to>>] = Nothing]
                   /\ UNCHANGED stash
           /\ Goes(t, done)
  <2>1. Turned(t) /\ tasks'[t] = done
    BY <1>4, <1>9, GoesOn
  <2>2. comes # Nothing
    BY <1>9 DEF Renames
  <2> QED
    BY <1>1, <1>2, <1>3, <1>4, <1>6, <1>7, <1>8, <1>9, <2>1, <2>2 DEF Undoing
<1>10. CASE Goes(t, on) /\ UNCHANGED <<disk, stash>>
  <2>1. Turned(t) /\ tasks'[t] = on
    BY <1>5, <1>10, GoesOn
  <2> QED
    BY <1>1, <1>2, <1>3, <1>5, <1>6, <1>7, <1>10, <2>1 DEF Undoing
<1> QED
  BY <1>6, <1>9, <1>10

LEMMA UndoReentersDoes ==
  ASSUME Typed, NEW t \in Tasks, UndoReenters(t)
  PROVE  /\ UNCHANGED <<disk, stash, trash, staging, plans, now, ghosts, left>> /\ Turned(t)
         /\ infos' \in [Binned -> BOOLEAN]
         /\ Undoing(t) /\ tasks[t].at = "next" /\ tasks[t].path > 0 /\ Undone(tasks[t]).kind = "left trash"
         /\ LET on == tasks'[t]
            IN /\ on.kind = "undo" /\ on.job = tasks[t].job /\ on.log = tasks[t].log
               /\ on.at = "next" /\ on.path = tasks[t].path - 1
<1> DEFINE task == tasks[t]
           move == Undone(task)
           p == move.path
           free == [b \in Binned |-> trash[b] = Nothing /\ ~infos[b]]
           name == <<p, FreeBin(p, free)>>
           earlier == Earlier(task, FALSE)
           done == [earlier EXCEPT !.moved[<<p, move.copy>>] = name[2]]
           on == Earlier(task, TRUE)
<1>1. /\ task \in TaskForm /\ task.kind = "undo" /\ task.at = "next" /\ task.path > 0
      /\ move.kind = "left trash"
  BY TaskIs DEF UndoReenters, At
<1>2. move \in MoveRecord /\ move.copy # 0
  BY <1>1, UndoneIs
<1>3. p \in Paths /\ <<p, move.copy>> \in Binned
  <2>1. move.copy \in 0 .. 2 /\ p \in Paths
    BY <1>2, MoveFields
  <2>2. move.copy \in 1 .. 2
    BY <1>2, <2>1
  <2> QED
    BY <2>1, <2>2 DEF Binned
<1>4. /\ earlier \in TaskForm /\ earlier.kind = "undo" /\ earlier.at = "next" /\ earlier.job = task.job
      /\ earlier.log = task.log /\ earlier.path = task.path - 1
  BY <1>1, EarlierIs
<1>5. /\ on \in TaskForm /\ on.kind = "undo" /\ on.at = "next" /\ on.job = task.job
      /\ on.log = task.log /\ on.path = task.path - 1
  BY <1>1, EarlierIs
<1>6. /\ UNCHANGED <<disk, stash, trash, staging, plans, now, ghosts, left>>
      /\ IF \E n \in 1 .. 2 : free[<<p, n>>]
         THEN infos' = [infos EXCEPT ![name] = TRUE] /\ Goes(t, done)
         ELSE Goes(t, on) /\ UNCHANGED infos
  BY DEF UndoReenters
<1> HIDE DEF earlier, on
<1>7. infos' \in [Binned -> BOOLEAN]
  BY <1>6 DEF Typed, FilesOK
<1>8. CASE \E n \in 1 .. 2 : free[<<p, n>>]
  <2>1. FreeBin(p, free) \in 1 .. 2
    <3> HIDE DEF free, p
    <3>1. CASE free[<<p, 1>>]
      <4>1. \A m \in 1 .. 1 - 1 : ~free[<<p, m>>]
        OBVIOUS
      <4> QED
        BY <3>1, <4>1 DEF FreeBin
    <3>2. CASE ~free[<<p, 1>>]
      <4>1. free[<<p, 2>>] /\ \A m \in 1 .. 2 - 1 : ~free[<<p, m>>]
        BY <1>8, <3>2
      <4> QED
        BY <4>1 DEF FreeBin
    <3> QED
      BY <3>1, <3>2
  <2>2. name[2] \in 0 .. 2
    BY <2>1
  <2> HIDE DEF name
  <2>3. /\ done \in Task /\ done.kind = "undo" /\ done.at = "next" /\ done.job = task.job
        /\ done.log = task.log /\ done.path = task.path - 1
    BY <1>3, <1>4, <2>2 DEF TaskForm, Task
  <2>4. Undoes(done) /\ Fits(done.log) /\ Once(done.log)
    BY <1>4, <2>3, TaskFields DEF Undoes
  <2>5. done \in TaskForm
    BY <2>3, <2>4 DEF TaskForm
  <2> HIDE DEF done
  <2>6. Turned(t) /\ tasks'[t] = done
    BY <1>6, <1>8, <2>5, GoesOn
  <2> QED
    BY <1>1, <1>6, <1>7, <2>3, <2>6 DEF Undoing
<1>9. CASE ~ \E n \in 1 .. 2 : free[<<p, n>>]
  <2>1. Turned(t) /\ tasks'[t] = on
    BY <1>5, <1>6, <1>9, GoesOn
  <2> QED
    BY <1>1, <1>5, <1>6, <1>7, <2>1 DEF Undoing
<1> QED
  BY <1>8, <1>9

LEMMA UndoTrashesDoes ==
  ASSUME Typed, NEW t \in Tasks, UndoTrashes(t)
  PROVE  /\ UNCHANGED <<stash, infos, staging, plans, now, wrote, dear, left>> /\ Turned(t)
         /\ Undoing(t) /\ tasks[t].at = "next" /\ tasks[t].path > 0
         /\ LET on   == tasks'[t]
                task == tasks[t]
                move == Undone(task)
                p    == move.path
            IN /\ move \in MoveRecord /\ move.kind = "arrived" /\ move.copy # 0
               /\ on.kind = "undo" /\ on.job = task.job /\ on.log = task.log
               /\ \/ /\ \E b \in Binned : /\ trash[b] = Nothing
                                          /\ trash' = [trash EXCEPT ![b] = disk[Own(p)]]
                     /\ disk' = [disk EXCEPT ![Own(p)] = Nothing]
                     /\ mover' = [mover EXCEPT ![p] = move.after]
                     /\ \/ on.at = "next" /\ on.path = task.path - 1
                        \/ on.at = "displaced" /\ on.path = task.path /\ move.displaced # "nothing"
                  \/ UNCHANGED <<disk, trash, mover>> /\ on.at = "next" /\ on.path = task.path - 1
<1> DEFINE task == tasks[t]
           move == Undone(task)
           p == move.path
           base == IF task.moved[<<p, move.copy>>] # 0 THEN task.moved[<<p, move.copy>>] ELSE move.copy
           name == IF trash[<<p, base>>] = Nothing THEN <<p, base>> ELSE <<p, 3 - base>>
           then == ThenTheDisplaced(task, move)
           on == Earlier(task, TRUE)
<1>1. /\ task \in TaskForm /\ task.kind = "undo" /\ task.at = "next" /\ task.path > 0
      /\ move.kind = "arrived" /\ move.copy # 0
  BY TaskIs DEF UndoTrashes, At
<1>2. move \in MoveRecord
  BY <1>1, UndoneIs
<1>3. name \in Binned
  <2>1. move.copy \in 0 .. 2 /\ p \in Paths
    BY <1>2, MoveFields
  <2>2. move.copy \in 1 .. 2
    BY <1>1, <2>1
  <2>3. <<p, move.copy>> \in Binned
    BY <2>1, <2>2 DEF Binned
  <2>4. task.moved[<<p, move.copy>>] \in 0 .. 2
    BY ZenonT(60), <1>1, <2>3, TaskFields
  <2>5. base \in 1 .. 2
    BY <2>2, <2>4
  <2>6. 3 - base \in 1 .. 2
    <3> HIDE DEF base
    <3> QED
      BY <2>5
  <2> HIDE DEF base
  <2> QED
    BY <2>1, <2>5, <2>6 DEF Binned
<1>4. /\ then \in TaskForm /\ then.kind = "undo" /\ then.job = task.job /\ then.log = task.log
      /\ \/ then.at = "next" /\ then.path = task.path - 1
         \/ then.at = "displaced" /\ then.path = task.path /\ move.displaced # "nothing"
  BY <1>1, ThenTheDisplacedIs
<1>5. /\ on \in TaskForm /\ on.kind = "undo" /\ on.at = "next" /\ on.job = task.job /\ on.log = task.log
      /\ on.path = task.path - 1
  BY <1>1, EarlierIs
<1>6. /\ UNCHANGED <<stash, infos, staging, plans, now, wrote, dear, left>>
      /\ \/ /\ trash[name] = Nothing /\ trash' = [trash EXCEPT ![name] = disk[Own(p)]]
            /\ disk' = [disk EXCEPT ![Own(p)] = Nothing]
            /\ mover' = [mover EXCEPT ![p] = move.after] /\ Goes(t, then)
         \/ Goes(t, on) /\ UNCHANGED <<disk, trash, mover>>
  BY DEF UndoTrashes
<1> HIDE DEF then, on, name
<1>7. CASE /\ trash[name] = Nothing /\ trash' = [trash EXCEPT ![name] = disk[Own(p)]]
           /\ disk' = [disk EXCEPT ![Own(p)] = Nothing]
           /\ mover' = [mover EXCEPT ![p] = move.after] /\ Goes(t, then)
  <2>1. Turned(t) /\ tasks'[t] = then
    BY <1>4, <1>7, GoesOn
  <2>2. \E b \in Binned : trash[b] = Nothing /\ trash' = [trash EXCEPT ![b] = disk[Own(p)]]
    BY <1>3, <1>7
  <2> QED
    BY <1>1, <1>2, <1>4, <1>6, <1>7, <2>1, <2>2 DEF Undoing
<1>8. CASE Goes(t, on) /\ UNCHANGED <<disk, trash, mover>>
  <2>1. Turned(t) /\ tasks'[t] = on
    BY <1>5, <1>8, GoesOn
  <2> QED
    BY <1>1, <1>2, <1>5, <1>6, <1>8, <2>1 DEF Undoing
<1> QED
  BY <1>6, <1>7, <1>8

LEMMA UndoEndsDoes ==
  ASSUME Typed, NEW t \in Tasks, UndoEnds(t)
  PROVE  /\ UNCHANGED <<files, staging, plans, now, ghosts, left>> /\ Turned(t)
         /\ Undoing(t) /\ tasks[t].at = "next"
         /\ tasks'[t].kind = "over" /\ tasks'[t].log = <<>>
<1>1. tasks[t] \in TaskForm
  BY TaskIs
<1>2. Over(tasks[t]) \in TaskForm /\ Over(tasks[t]).kind = "over" /\ Over(tasks[t]).log = <<>>
  BY <1>1, OverIs
<1>3. Turned(t) /\ tasks'[t] = Over(tasks[t])
  BY <1>2, GoesOn DEF UndoEnds
<1> QED
  BY <1>2, <1>3 DEF UndoEnds, At, Undoing

LEMMA PutBackDisplacesDoes ==
  ASSUME Typed, NEW t \in Tasks, PutBackDisplaces(t)
  PROVE  /\ UNCHANGED <<trash, infos, staging, plans, now, ghosts, left>> /\ Turned(t)
         /\ tasks[t].kind = "put back" /\ tasks[t].at = "next" /\ tasks[t].path \in Paths
         /\ LET on   == tasks'[t]
                p    == tasks[t].path
                here == disk[Own(p)]
                kept == <<tasks[t].second, p>>
            IN /\ on.log = tasks[t].log \/ on.log = <<>>
               /\ \/ /\ on.kind = "put back" /\ on.at = "displaced" /\ on.path = p
                     /\ on.second = tasks[t].second /\ on.to = tasks[t].to
                     /\ \/ here = Nothing /\ UNCHANGED <<disk, stash>>
                        \/ /\ here # Nothing /\ stash' = [stash EXCEPT ![kept] = here]
                           /\ disk' = [disk EXCEPT ![Own(p)] = Nothing]
                  \/ on.kind = "over" /\ UNCHANGED <<disk, stash>>
<1> DEFINE task == tasks[t]
           p == task.path
           here == disk[Own(p)]
           kept == <<task.second, p>>
           on == [task EXCEPT !.at = "displaced"]
           ended == Over([task EXCEPT !.failed = TRUE])
<1>1. task \in TaskForm /\ task.kind = "put back" /\ task.at = "next"
  BY TaskIs DEF PutBackDisplaces, At
<1>2. task \in Task /\ PutsBack(task) /\ p \in Paths
  BY <1>1 DEF TaskForm, PutsBack
<1>3. /\ on \in Task /\ on.kind = "put back" /\ on.at = "displaced" /\ on.path = p
      /\ on.second = task.second /\ on.to = task.to /\ on.log = task.log
  BY <1>1, <1>2 DEF Task
<1>4. on \in TaskForm
  BY <1>1, <1>2, <1>3, TaskFields DEF TaskForm, PutsBack
<1>5. ended \in TaskForm /\ ended.kind = "over" /\ ended.log = <<>>
  BY <1>1, OverIs
<1>6. /\ UNCHANGED <<trash, infos, staging, plans, now, ghosts, left>>
      /\ \/ here = Nothing /\ Goes(t, on) /\ UNCHANGED <<disk, stash>>
         \/ /\ Renames(here, stash[kept]) /\ stash' = [stash EXCEPT ![kept] = here]
            /\ disk' = [disk EXCEPT ![Own(p)] = Nothing] /\ Goes(t, on)
         \/ Goes(t, ended) /\ UNCHANGED <<disk, stash>>
  BY DEF PutBackDisplaces
<1> HIDE DEF on, ended
<1>7. CASE Goes(t, on) /\ \/ here = Nothing /\ UNCHANGED <<disk, stash>>
                          \/ /\ Renames(here, stash[kept]) /\ stash' = [stash EXCEPT ![kept] = here]
                             /\ disk' = [disk EXCEPT ![Own(p)] = Nothing]
  <2>1. Turned(t) /\ tasks'[t] = on
    BY <1>4, <1>7, GoesOn
  <2> QED
    BY <1>1, <1>2, <1>3, <1>6, <1>7, <2>1 DEF Renames
<1>8. CASE Goes(t, ended) /\ UNCHANGED <<disk, stash>>
  <2>1. Turned(t) /\ tasks'[t] = ended
    BY <1>5, <1>8, GoesOn
  <2> QED
    BY <1>1, <1>2, <1>5, <1>6, <1>8, <2>1
<1> QED
  BY <1>6, <1>7, <1>8

LEMMA PutBackArrivesDoes ==
  ASSUME Typed, NEW t \in Tasks, PutBackArrives(t)
  PROVE  /\ UNCHANGED <<trash, infos, staging, plans, now, wrote, dear>> /\ Turned(t) /\ left' \in Nat
         /\ tasks[t].kind = "put back" /\ tasks[t].at = "displaced" /\ tasks[t].path \in Paths
         /\ tasks[t].to \in Second /\ tasks'[t].kind = "over" /\ tasks'[t].log = <<>>
         /\ LET p    == tasks[t].path
                kept == <<tasks[t].to, p>>
            IN \/ /\ disk' = [disk EXCEPT ![Own(p)] = stash[kept]] /\ stash[kept] # Nothing
                  /\ stash' = [stash EXCEPT ![kept] = Nothing] /\ mover' = [mover EXCEPT ![p] = 0]
               \/ UNCHANGED <<disk, stash, mover>>
<1> DEFINE task == tasks[t]
           p == task.path
           kept == <<task.to, p>>
           done == Over(task)
           ended == Over([task EXCEPT !.failed = TRUE])
<1>1. task \in TaskForm /\ task.kind = "put back" /\ task.at = "displaced"
  BY TaskIs DEF PutBackArrives, At
<1>2. PutsBack(task) /\ p \in Paths /\ task.to \in Second
  BY <1>1 DEF TaskForm, PutsBack
<1>3. /\ ended \in TaskForm /\ ended.kind = "over" /\ ended.log = <<>>
      /\ done \in TaskForm /\ done.kind = "over" /\ done.log = <<>>
  BY <1>1, OverIs
<1>4. /\ UNCHANGED <<trash, infos, staging, plans, now, wrote, dear>>
      /\ \/ /\ Renames(stash[kept], disk[Own(p)]) /\ disk' = [disk EXCEPT ![Own(p)] = stash[kept]]
            /\ stash' = [stash EXCEPT ![kept] = Nothing] /\ mover' = [mover EXCEPT ![p] = 0]
            /\ Goes(t, done) /\ UNCHANGED left
         \/ (UNCHANGED left \/ Happens) /\ Goes(t, ended) /\ UNCHANGED <<disk, stash, mover>>
  BY DEF PutBackArrives
<1>5. left' \in Nat
  BY <1>4, EventsAreCounted
<1> HIDE DEF done, ended
<1>6. /\ Turned(t) /\ tasks'[t] \in {done, ended}
      /\ \/ /\ disk' = [disk EXCEPT ![Own(p)] = stash[kept]] /\ stash[kept] # Nothing
            /\ stash' = [stash EXCEPT ![kept] = Nothing] /\ mover' = [mover EXCEPT ![p] = 0]
         \/ UNCHANGED <<disk, stash, mover>>
  <2>1. CASE Goes(t, done)
    <3>1. Turned(t) /\ tasks'[t] = done
      BY <1>3, <2>1, GoesOn
    <3> QED
      BY <1>4, <3>1 DEF Renames
  <2>2. CASE Goes(t, ended)
    <3>1. Turned(t) /\ tasks'[t] = ended
      BY <1>3, <2>2, GoesOn
    <3> QED
      BY <1>4, <3>1 DEF Renames
  <2> QED
    BY <1>4, <2>1, <2>2
<1> QED
  BY <1>1, <1>2, <1>3, <1>4, <1>5, <1>6

LEMMA EntryIs ==
  ASSUME NEW class \in Classes, NEW there \in BOOLEAN, NEW copy \in 0 .. 2
  PROVE  [class |-> class, there |-> there, copy |-> copy] \in Entry
BY DEF Entry

(* A plan is prepared and let go. *)
LEMMA PlansAre ==
  /\ \A j \in Jobs, asked \in SUBSET Paths, binned \in SUBSET Binned :
       Typed /\ Prepare(j, asked, binned) =>
         /\ plans' \in [Jobs -> PlanForm] /\ staging' \in [Jobs -> SUBSET Paths]
         /\ UNCHANGED <<files, tasks, now, ghosts, left>>
         /\ ~plans[j].used /\ InTurn(j)
         /\ \A k \in Jobs : k # j => plans'[k] = plans[k]
         /\ plans'[j].held /\ plans'[j].used /\ ~plans'[j].logged /\ plans'[j].log = <<>>
         /\ \A p \in Paths : plans'[j].entries[p].class # "not asked" /\ ~plans'[j].entries[p].there
                               => disk[Own(p)] = Nothing
  /\ \A j \in Jobs : Typed /\ Discard(j) =>
       /\ plans' \in [Jobs -> PlanForm] /\ staging' \in [Jobs -> SUBSET Paths]
       /\ UNCHANGED <<files, tasks, now, ghosts, left>>
       /\ plans[j].held /\ (Idle \/ "side by side" \in Circumstances)
       /\ \A k \in Jobs : k # j => plans'[k] = plans[k]
       /\ ~plans'[j].held /\ plans'[j].used /\ ~plans'[j].logged /\ plans'[j].log = <<>>
<1>0. Unprepared \in Plan /\ Unprepared.log = <<>> /\ ~Unprepared.logged /\ ~Unprepared.held
  BY Forms DEF PlanForm, Unprepared
<1>1. ASSUME Typed, NEW j \in Jobs, NEW asked \in SUBSET Paths, NEW binned \in SUBSET Binned,
             Prepare(j, asked, binned)
      PROVE  /\ plans' \in [Jobs -> PlanForm] /\ staging' \in [Jobs -> SUBSET Paths]
             /\ UNCHANGED <<files, tasks, now, ghosts, left>>
             /\ ~plans[j].used /\ InTurn(j)
             /\ \A k \in Jobs : k # j => plans'[k] = plans[k]
             /\ plans'[j].held /\ plans'[j].used /\ ~plans'[j].logged /\ plans'[j].log = <<>>
             /\ \A p \in Paths : plans'[j].entries[p].class # "not asked" /\ ~plans'[j].entries[p].there
                                   => disk[Own(p)] = Nothing
  <2> DEFINE copy(p) == IF \E b \in binned : b[1] = p
                        THEN (CHOOSE b \in binned : b[1] = p)[2] ELSE 0
             entries == [p \in Paths |-> IF p \in asked THEN Planned(j, p, copy(p)) ELSE Unasked]
             plan == [Unprepared EXCEPT !.held = TRUE, !.used = TRUE, !.entries = entries]
  <2>1. ASSUME NEW p \in Paths PROVE copy(p) \in 0 .. 2
    <3>1. CASE \E b \in binned : b[1] = p
      <4>1. (CHOOSE b \in binned : b[1] = p) \in binned
        BY <3>1
      <4>2. (CHOOSE b \in binned : b[1] = p)[2] \in 1 .. 2
        BY <4>1 DEF Binned
      <4> QED
        BY <3>1, <4>2
    <3>2. CASE ~ \E b \in binned : b[1] = p
      BY <3>2
    <3> QED
      BY <3>1, <3>2
  <2> HIDE DEF copy
  <2>2. ASSUME NEW p \in Paths
        PROVE  /\ entries[p] \in Entry
               /\ entries[p].class # "not asked" /\ ~entries[p].there => disk[Own(p)] = Nothing
    <3>1. CASE p \notin asked
      BY <3>1, Forms DEF Unasked
    <3>2. CASE p \in asked
      <4>1. entries[p] = Planned(j, p, copy(p))
        BY <3>2
      <4>2. PICK source : entries[p] = [class |-> Class(source, disk[Own(p)]),
                                        there |-> disk[Own(p)] # Nothing, copy |-> copy(p)]
        BY <4>1 DEF Planned
      <4>3. Class(source, disk[Own(p)]) \in Classes
        BY DEF Class, Classes
      <4>4. (disk[Own(p)] # Nothing) \in BOOLEAN
        OBVIOUS
      <4>5. entries[p] \in Entry
        BY <2>1, <4>2, <4>3, <4>4, EntryIs
      <4>6. entries[p].there = (disk[Own(p)] # Nothing)
        BY <4>2
      <4> QED
        BY <4>5, <4>6
    <3> QED
      BY <3>1, <3>2
  <2>3. entries \in [Paths -> Entry]
    BY <2>2
  <2>4. /\ ~plans[j].used /\ InTurn(j) /\ UNCHANGED <<files, tasks, now, ghosts, left>>
        /\ staging' = [staging EXCEPT ![j] = {p \in asked : copy(p) = 0}]
        /\ plans' = [plans EXCEPT ![j] = plan]
    BY <1>1 DEF Prepare, copy
  <2> HIDE DEF entries
  <2>5. /\ plan \in Plan /\ plan.held /\ plan.used /\ plan.log = Unprepared.log
        /\ plan.logged = Unprepared.logged /\ plan.entries = entries
    BY <1>0, <2>3 DEF Plan
  <2>6. plan \in PlanForm
    BY <1>0, <2>5, NoMoves DEF PlanForm
  <2> HIDE DEF plan
  <2>7. /\ plans' \in [Jobs -> PlanForm] /\ plans'[j] = plan
        /\ \A k \in Jobs : k # j => plans'[k] = plans[k]
    BY <1>1, <2>4, <2>6 DEF Typed, FormsOK
  <2>8. staging' \in [Jobs -> SUBSET Paths]
    BY <1>1, <2>4 DEF Typed, RestOK
  <2> QED
    BY <1>0, <2>2, <2>4, <2>5, <2>7, <2>8
<1>2. ASSUME Typed, NEW j \in Jobs, Discard(j)
      PROVE  /\ plans' \in [Jobs -> PlanForm] /\ staging' \in [Jobs -> SUBSET Paths]
             /\ UNCHANGED <<files, tasks, now, ghosts, left>>
             /\ plans[j].held /\ (Idle \/ "side by side" \in Circumstances)
             /\ \A k \in Jobs : k # j => plans'[k] = plans[k]
             /\ ~plans'[j].held /\ plans'[j].used /\ ~plans'[j].logged /\ plans'[j].log = <<>>
  <2> DEFINE plan == [Unprepared EXCEPT !.used = TRUE]
  <2>1. /\ plans[j].held /\ (Idle \/ "side by side" \in Circumstances)
        /\ UNCHANGED <<files, tasks, now, ghosts, left>>
        /\ plans' = [plans EXCEPT ![j] = plan] /\ staging' = [staging EXCEPT ![j] = {}]
    BY <1>2 DEF Discard
  <2>2. /\ plan \in Plan /\ plan.held = Unprepared.held /\ plan.used /\ plan.log = Unprepared.log
        /\ plan.logged = Unprepared.logged
    BY <1>0 DEF Plan
  <2>3. plan \in PlanForm
    BY <1>0, <2>2, NoMoves DEF PlanForm
  <2> HIDE DEF plan
  <2>4. /\ plans' \in [Jobs -> PlanForm] /\ plans'[j] = plan
        /\ \A k \in Jobs : k # j => plans'[k] = plans[k]
    BY <1>2, <2>1, <2>3 DEF Typed, FormsOK
  <2>5. staging' \in [Jobs -> SUBSET Paths]
    BY <1>2, <2>1 DEF Typed, RestOK
  <2> QED
    BY <1>0, <2>1, <2>2, <2>4, <2>5
<1> QED
  BY <1>1, <1>2

LEMMA CrashDoes ==
  ASSUME Typed, Crash
  PROVE  /\ UNCHANGED <<files, now, wrote, dear>> /\ left' \in Nat
         /\ staging' \in [Jobs -> SUBSET Paths] /\ mover' = [p \in Paths |-> 0]
         /\ plans' = [j \in Jobs |-> Unprepared] /\ plans' \in [Jobs -> PlanForm]
         /\ tasks' \in [Tasks -> TaskForm] /\ \A t \in Tasks : ~Runs(t)'
         /\ \A t \in Tasks : tasks[t].kind = "unused" <=> tasks'[t].kind = "unused"
<1>1. /\ UNCHANGED <<files, now, wrote, dear>> /\ staging' = [j \in Jobs |-> {}]
      /\ mover' = [p \in Paths |-> 0] /\ plans' = [j \in Jobs |-> Unprepared]
      /\ tasks' = [t \in Tasks |-> IF Runs(t) THEN Over([tasks[t] EXCEPT !.failed = TRUE]) ELSE tasks[t]]
  BY DEF Crash
<1>2. left' \in Nat
  BY EventsAreCounted DEF Crash
<1>3. plans' \in [Jobs -> PlanForm] /\ staging' \in [Jobs -> SUBSET Paths]
  BY <1>1, Forms
<1>4. ASSUME NEW t \in Tasks
      PROVE  /\ tasks'[t] \in TaskForm /\ ~Runs(t)'
             /\ tasks[t].kind = "unused" <=> tasks'[t].kind = "unused"
  <2>1. tasks[t] \in TaskForm
    BY TaskIs
  <2>2. /\ Over([tasks[t] EXCEPT !.failed = TRUE]) \in TaskForm
        /\ Over([tasks[t] EXCEPT !.failed = TRUE]).kind = "over"
    BY <2>1, OverIs
  <2> QED
    BY <1>1, <2>1, <2>2 DEF Runs
<1>5. tasks' \in [Tasks -> TaskForm]
  <2>1. DOMAIN tasks' = Tasks /\ tasks' = [t \in DOMAIN tasks' |-> tasks'[t]]
    BY <1>1
  <2> QED
    BY <1>4, <2>1
<1> QED
  BY <1>1, <1>2, <1>3, <1>4, <1>5

-----------------------------------------------------------------------------
(* The types hold whatever may happen. *)

LEMMA NamesStay ==
  ASSUME NamesAreLeft, \A p \in Paths : Used(p)' \subseteq Used(p) /\ Spent(p) \subseteq Spent(p)'
  PROVE  NamesAreLeft'
<1>1. ASSUME NEW p \in Paths PROVE Cardinality(Used(p)') <= Cardinality(Spent(p)')
  <2>1. /\ Used(p)' \subseteq Used(p) /\ Spent(p) \subseteq Spent(p)' /\ IsFiniteSet(Used(p))
        /\ IsFiniteSet(Spent(p)') /\ Cardinality(Used(p)) <= Cardinality(Spent(p))
    BY SpentIsFinite DEF NamesAreLeft
  <2>2. Cardinality(Used(p)') <= Cardinality(Used(p)) /\ Cardinality(Spent(p)) <= Cardinality(Spent(p)')
    BY <2>1, FS_Subset
  <2> QED
    BY <2>1, <2>2, SpentIsFinite
<1> QED
  BY <1>1 DEF NamesAreLeft

LEMMA UsedStays ==
  ASSUME \A p \in Paths, n \in Aside : disk'[<<p, n>>] # Nothing => disk[<<p, n>>] # Nothing
  PROVE  \A p \in Paths : Used(p)' \subseteq Used(p)
BY DEF Used

(* What is at a path's own name is not beside it. *)
LEMMA OwnIsApart ==
  ASSUME Typed, NEW p \in Paths, NEW x \in Int, disk' = [disk EXCEPT ![Own(p)] = x]
  PROVE  /\ disk' \in [Names -> Int] /\ \A q \in Paths : Used(q)' \subseteq Used(q)
         /\ disk'[Own(p)] = x
         /\ \A q \in Paths : q # p => disk'[Own(q)] = disk[Own(q)]
         /\ \A q \in Paths, n \in Aside : disk'[<<q, n>>] = disk[<<q, n>>]
<1>1. disk \in [Names -> Int] /\ Own(p) \in Names
  BY Places DEF Typed, FilesOK
<1>2. ASSUME NEW q \in Paths, NEW n \in Aside PROVE disk'[<<q, n>>] = disk[<<q, n>>]
  <2>1. <<q, n>> \in Names /\ n # 0
    BY Places
  <2>2. <<q, n>> # Own(p)
    BY <2>1 DEF Own
  <2> QED
    BY <1>1, <2>1, <2>2
<1>3. ASSUME NEW q \in Paths, q # p PROVE disk'[Own(q)] = disk[Own(q)]
  <2>1. Own(q) \in Names
    BY Places
  <2>2. Own(q) # Own(p)
    BY <1>3 DEF Own
  <2> QED
    BY <1>1, <2>1, <2>2
<1>4. \A q \in Paths : Used(q)' \subseteq Used(q)
  BY <1>2, UsedStays
<1> QED
  BY <1>1, <1>2, <1>3, <1>4

LEMMA TurnIsTyped ==
  ASSUME Typed, NEW t \in Tasks, Turned(t),
         \/ tasks[t].kind = "unused"
         \/ /\ tasks'[t].kind # "unused"
            /\ tasks'[t].kind = "execute" => Carrying(t) /\ Ahead(tasks'[t]) \subseteq Ahead(tasks[t]),
         FilesOK', RestOK', plans' \in [Jobs -> PlanForm], \A p \in Paths : Used(p)' \subseteq Used(p)
  PROVE  Typed'
<1>1. ASSUME NEW p \in Paths, NEW u \in Spent(p) PROVE u \in Spent(p)'
  <2>1. u \in Tasks /\ tasks[u].kind # "unused" /\ (tasks[u].kind = "execute" => p \notin Ahead(tasks[u]))
    BY DEF Spent, Carrying
  <2>2. CASE u # t
    <3>1. tasks'[u] = tasks[u]
      BY <2>1, <2>2 DEF Turned
    <3> QED
      BY <2>1, <3>1 DEF Spent, Carrying
  <2>3. CASE u = t
    BY <2>1, <2>3 DEF Spent, Carrying
  <2> QED
    BY <2>2, <2>3
<1>2. NamesAreLeft'
  BY <1>1, NamesStay DEF Typed
<1> QED
  BY <1>2 DEF Typed, FormsOK, Turned

LEMMA FilesStay ==
  Typed /\ UNCHANGED files =>
    /\ disk' = disk /\ stash' = stash /\ trash' = trash /\ infos' = infos
    /\ FilesOK' /\ \A p \in Paths : Used(p)' \subseteq Used(p)
<1> SUFFICES ASSUME Typed, UNCHANGED files
             PROVE  /\ disk' = disk /\ stash' = stash /\ trash' = trash /\ infos' = infos
                    /\ FilesOK' /\ \A p \in Paths : Used(p)' \subseteq Used(p)
  OBVIOUS
<1>1. disk' = disk /\ stash' = stash /\ trash' = trash /\ infos' = infos
  BY DEF files
<1>2. FilesOK'
  BY <1>1 DEF Typed, FilesOK
<1>3. \A p \in Paths : Used(p)' \subseteq Used(p)
  BY <1>1, UsedStays
<1> QED
  BY <1>1, <1>2, <1>3

LEMMA RestStays ==
  ASSUME Typed, staging' \in [Jobs -> SUBSET Paths], now' \in Second, left' \in Nat,
         mover' \in [Paths -> Jobs \cup {0}], UNCHANGED <<wrote, dear>>
  PROVE  RestOK'
BY DEF Typed, RestOK

LEMMA CallIsTyped ==
  ASSUME Typed, NEW t \in Tasks, Call(t)
  PROVE  Typed'
<1>1. /\ UNCHANGED <<files, staging, plans, now, ghosts, left>> /\ Turned(t) /\ tasks[t].kind = "unused"
  <2>1. ASSUME NEW j \in Jobs, NEW answer \in Answers, Execute(t, j, answer)
        PROVE  /\ UNCHANGED <<files, staging, plans, now, ghosts, left>> /\ Turned(t)
               /\ tasks[t].kind = "unused"
    BY <2>1, ExecuteDoes
  <2>2. ASSUME NEW j \in Jobs, Undo(t, j)
        PROVE  /\ UNCHANGED <<files, staging, plans, now, ghosts, left>> /\ Turned(t)
               /\ tasks[t].kind = "unused"
    BY <2>2, UndoDoes, Zenon
  <2>3. ASSUME NEW s \in Second, NEW p \in Paths, PutBack(t, s, p)
        PROVE  /\ UNCHANGED <<files, staging, plans, now, ghosts, left>> /\ Turned(t)
               /\ tasks[t].kind = "unused"
    BY <2>3, PutBackDoes, Zenon
  <2> QED
    BY <2>1, <2>2, <2>3 DEF Call
<1>2. FilesOK' /\ \A p \in Paths : Used(p)' \subseteq Used(p)
  BY <1>1, FilesStay
<1>3. RestOK' /\ plans' \in [Jobs -> PlanForm]
  BY <1>1 DEF Typed, RestOK, FormsOK, ghosts
<1> QED
  BY <1>1, <1>2, <1>3, TurnIsTyped

LEMMA RestIs ==
  Typed => /\ staging \in [Jobs -> SUBSET Paths] /\ now \in Second /\ left \in Nat
           /\ mover \in [Paths -> Jobs \cup {0}] /\ plans \in [Jobs -> PlanForm]
           /\ disk \in [Names -> Int] /\ stash \in [Second \X Paths -> Int]
           /\ trash \in [Binned -> Int] /\ infos \in [Binned -> BOOLEAN]
           /\ tasks \in [Tasks -> TaskForm] /\ wrote \in Nat /\ dear \subseteq 1 .. wrote
BY DEF Typed, RestOK, FormsOK, FilesOK

LEMMA BeginsIsTyped ==
  ASSUME Typed, NEW t \in Tasks, Begins(t)
  PROVE  Typed'
<1> DEFINE j == tasks[t].job
<1>1. /\ UNCHANGED <<files, now, ghosts>> /\ Turned(t) /\ Carrying(t) /\ tasks[t].at = "begin" /\ j \in Jobs
      /\ staging' \in [Jobs -> SUBSET Paths] /\ left' \in Nat
      /\ tasks'[t].kind \in {"execute", "over"}
      /\ UNCHANGED plans \/ \E before \in [Paths -> Int] : plans' = [plans EXCEPT ![j].before = before]
  BY BeginsDoes
<1>2. FilesOK' /\ \A p \in Paths : Used(p)' \subseteq Used(p)
  BY <1>1, FilesStay
<1>3. RestOK'
  BY <1>1, RestIs, RestStays DEF ghosts
<1>4. plans' \in [Jobs -> PlanForm]
  <2>1. CASE UNCHANGED plans
    BY <2>1, RestIs
  <2>2. CASE \E before \in [Paths -> Int] : plans' = [plans EXCEPT ![j].before = before]
    <3>1. PICK before \in [Paths -> Int] : plans' = [plans EXCEPT ![j] = [plans[j] EXCEPT !.before = before]]
      BY <2>2
    <3> DEFINE plan == [plans[j] EXCEPT !.before = before]
    <3>2. plans[j] \in Plan /\ plans[j] \in PlanForm
      BY <1>1, PlanIs DEF PlanForm
    <3>3. /\ plan \in Plan /\ plan.log = plans[j].log /\ plan.logged = plans[j].logged
          /\ plan.held = plans[j].held /\ plan.used = plans[j].used
      BY <3>2 DEF Plan
    <3>4. plan \in PlanForm
      BY <3>2, <3>3 DEF PlanForm
    <3> HIDE DEF plan
    <3> QED
      BY <3>1, <3>4, RestIs DEF plan
  <2> QED
    BY <1>1, <2>1, <2>2
<1>5. Ahead(tasks'[t]) \subseteq Ahead(tasks[t])
  BY <1>1 DEF Ahead
<1> QED
  BY <1>1, <1>2, <1>3, <1>4, <1>5, TurnIsTyped

(* A file that is renamed takes one more name, for a task that is then past it. *)
LEMMA OneMoreName ==
  ASSUME Typed, NEW t \in Tasks, NEW p \in Paths, NEW free \in Aside, NEW here,
         Turned(t), Carrying(t), tasks[t].at = "next", tasks[t].path = p,
         tasks'[t].kind = "execute", Ahead(tasks'[t]) \subseteq {q \in Paths : q > p},
         disk' = [disk EXCEPT ![Own(p)] = Nothing, ![<<p, free>>] = here],
         disk[<<p, free>>] = Nothing
  PROVE  NamesAreLeft'
<1>1. p \in Ahead(tasks[t]) /\ Ahead(tasks'[t]) \subseteq Ahead(tasks[t]) /\ p \notin Ahead(tasks'[t])
  <2>0. p \in Nat
    BY PathsEnd
  <2>1. ~(p > p)
    BY <2>0
  <2> QED
    BY <2>1 DEF Ahead
<1>2. ASSUME NEW q \in Paths PROVE Spent(q) \subseteq Spent(q)'
  <2>1. ASSUME NEW u \in Spent(q) PROVE u \in Spent(q)'
    <3>1. u \in Tasks /\ tasks[u].kind # "unused" /\ (tasks[u].kind = "execute" => q \notin Ahead(tasks[u]))
      BY DEF Spent, Carrying
    <3>2. CASE u # t
      <4>1. tasks'[u] = tasks[u]
        BY <3>1, <3>2 DEF Turned
      <4> QED
        BY <3>1, <4>1 DEF Spent, Carrying
    <3>3. CASE u = t
      BY <1>1, <3>1, <3>3 DEF Spent, Carrying
    <3> QED
      BY <3>2, <3>3
  <2> QED
    BY <2>1
<1>3. t \in Spent(p)' /\ t \notin Spent(p)
  BY <1>1 DEF Spent, Carrying
<1>4. ASSUME NEW q \in Paths, NEW n \in Aside PROVE <<q, n>> \in Names /\ <<q, n>> # Own(p)
  <2>1. <<q, n>> \in Names /\ n # 0
    BY Places
  <2>2. <<q, n>> # Own(p)
    BY <2>1 DEF Own
  <2> QED
    BY <2>1, <2>2
<1>5. \A q \in Paths, n \in Aside : <<q, n>> # <<p, free>> => disk'[<<q, n>>] = disk[<<q, n>>]
  BY <1>4, RestIs
<1>6. \A q \in Paths : q # p => Used(q)' \subseteq Used(q)
  BY <1>5 DEF Used
<1>7. Used(p)' \subseteq Used(p) \cup {free}
  BY <1>5 DEF Used
<1>8. free \notin Used(p)
  BY DEF Used
<1>9. Cardinality(Used(p)') <= Cardinality(Used(p)) + 1
  <2>1. Cardinality(Used(p) \cup {free}) = Cardinality(Used(p)) + 1 /\ IsFiniteSet(Used(p) \cup {free})
    BY <1>8, SpentIsFinite, FS_AddElement
  <2>2. Cardinality(Used(p)') <= Cardinality(Used(p) \cup {free})
    BY <1>7, <2>1, FS_Subset
  <2> QED
    BY <2>1, <2>2
<1>10. Cardinality(Spent(p)) + 1 <= Cardinality(Spent(p)')
  <2>1. Cardinality(Spent(p) \cup {t}) = Cardinality(Spent(p)) + 1
    BY <1>3, SpentIsFinite, FS_AddElement
  <2>2. Spent(p) \cup {t} \subseteq Spent(p)'
    BY <1>2, <1>3
  <2>3. Cardinality(Spent(p) \cup {t}) <= Cardinality(Spent(p)')
    BY <2>2, SpentIsFinite, FS_Subset
  <2> QED
    BY <2>1, <2>3
<1>11. ASSUME NEW q \in Paths PROVE Cardinality(Used(q)') <= Cardinality(Spent(q)')
  <2>0. Cardinality(Used(q)) <= Cardinality(Spent(q))
    BY DEF Typed, NamesAreLeft
  <2>1. CASE q = p
    <3>1. Cardinality(Used(p)) <= Cardinality(Spent(p))
      BY <2>0, <2>1
    <3>2. /\ Cardinality(Used(p)) \in Nat /\ Cardinality(Spent(p)) \in Nat
          /\ Cardinality(Used(p)') \in Nat /\ Cardinality(Spent(p)') \in Nat
      BY SpentIsFinite
    <3>3. Cardinality(Used(p)') <= Cardinality(Spent(p)')
      BY <1>9, <1>10, <3>1, <3>2
    <3> QED
      BY <2>1, <3>3
  <2>2. CASE q # p
    <3>1. Cardinality(Used(q)') <= Cardinality(Used(q)) /\ Cardinality(Spent(q)) <= Cardinality(Spent(q)')
      BY <1>2, <1>6, <2>2, SpentIsFinite, FS_Subset
    <3> QED
      BY <2>0, <3>1, SpentIsFinite
  <2> QED
    BY <2>1, <2>2
<1> QED
  BY <1>11 DEF NamesAreLeft

LEMMA DisplacesIsTyped ==
  ASSUME Typed, NEW t \in Tasks, Displaces(t)
  PROVE  Typed'
<1>0. PICK p \in Paths : p = tasks[t].path
  BY DisplacesDoes
<1>1. PICK here, then, free :
        p = tasks[t].path /\ here = disk[Own(p)] /\ then = tasks[t].second /\ free = FreeName(p)
  BY <1>0
<1> DEFINE kept == <<then, p>>
<1>2. /\ UNCHANGED <<trash, infos, staging, plans, now, ghosts>> /\ Turned(t) /\ left' \in Nat
      /\ Carrying(t) /\ tasks[t].at = "next" /\ tasks'[t].kind = "execute"
      /\ Ahead(tasks'[t]) \subseteq {q \in Paths : q > p}
      /\ \/ /\ stash' = [stash EXCEPT ![kept] = here] /\ disk' = [disk EXCEPT ![Own(p)] = Nothing]
         \/ /\ here # Nothing /\ UNCHANGED stash
            /\ disk' = [disk EXCEPT ![Own(p)] = Nothing, ![<<p, free>>] = here]
         \/ UNCHANGED <<disk, stash>>
  BY <1>1, DisplacesDoes
<1>3. here \in Int /\ kept \in Second \X Paths /\ free \in Aside /\ <<p, free>> \in Names
      /\ Own(p) \in Names /\ disk[<<p, free>>] = Nothing
  <2>1. tasks[t] \in TaskForm
    BY TaskIs
  <2>t. tasks[t] \in Task
    BY <2>1 DEF TaskForm
  <2>s. tasks[t].second \in Second
    BY <2>t DEF Task
  <2>2. then \in Second
    BY <1>1, <2>s
  <2>3. free \in Aside /\ disk[<<p, free>>] = Nothing
    BY <1>1, FreeNameIs DEF Typed
  <2>4. <<p, free>> \in Names /\ Own(p) \in Names
    BY <2>3, Places
  <2> QED
    BY <1>1, <2>2, <2>3, <2>4, RestIs
<1>4. Ahead(tasks'[t]) \subseteq Ahead(tasks[t])
  BY <1>1, <1>2 DEF Ahead
<1>5. RestOK' /\ plans' \in [Jobs -> PlanForm]
  BY <1>2, RestIs, RestStays DEF ghosts
<1>6. CASE stash' = [stash EXCEPT ![kept] = here] /\ disk' = [disk EXCEPT ![Own(p)] = Nothing]
  <2>0. Nothing \in Int
    OBVIOUS
  <2>1. disk' \in [Names -> Int] /\ \A q \in Paths : Used(q)' \subseteq Used(q)
    BY <1>6, <2>0, OwnIsApart
  <2>2. FilesOK'
    BY <1>2, <1>3, <1>6, <2>1, RestIs DEF FilesOK
  <2> QED
    BY <1>2, <1>4, <1>5, <2>1, <2>2, TurnIsTyped
<1>7. CASE UNCHANGED <<disk, stash>>
  <2>1. UNCHANGED files
    BY <1>2, <1>7 DEF files
  <2>2. FilesOK' /\ \A q \in Paths : Used(q)' \subseteq Used(q)
    BY <2>1, FilesStay
  <2> QED
    BY <1>2, <1>4, <1>5, <2>2, TurnIsTyped
<1>8. CASE here # Nothing /\ UNCHANGED stash /\ disk' = [disk EXCEPT ![Own(p)] = Nothing, ![<<p, free>>] = here]
  <2>1. FilesOK'
    BY <1>2, <1>3, <1>8, RestIs DEF FilesOK
  <2>2. NamesAreLeft'
    BY <1>1, <1>2, <1>3, <1>8, OneMoreName
  <2> QED
    BY <1>2, <1>5, <2>1, <2>2 DEF Typed, FormsOK, Turned
<1> QED
  BY <1>2, <1>6, <1>7, <1>8

LEMMA MoverStays ==
  ASSUME Typed, NEW p \in Paths, NEW j \in Jobs \cup {0}, mover' = [mover EXCEPT ![p] = j]
  PROVE  mover' \in [Paths -> Jobs \cup {0}]
BY RestIs

LEMMA StashStays ==
  ASSUME Typed, NEW s \in Second, NEW p \in Paths, NEW x \in Int, stash' = [stash EXCEPT ![<<s, p>>] = x]
  PROVE  stash' \in [Second \X Paths -> Int]
BY RestIs

LEMMA TrashStays ==
  ASSUME Typed, NEW b \in Binned, NEW x \in Int, trash' = [trash EXCEPT ![b] = x]
  PROVE  trash' \in [Binned -> Int]
BY RestIs

LEMMA ArrivesIsTyped ==
  ASSUME Typed, NEW t \in Tasks, Arrives(t)
  PROVE  Typed'
<1>0. PICK p \in Paths : p = tasks[t].path
  BY ArrivesDoes
<1>1. PICK copy, source, job : copy = tasks[t].entries[p].copy /\ source = Source(tasks[t])
                               /\ job = tasks[t].job
  BY <1>0
<1>2. /\ UNCHANGED <<stash, infos, plans, now, wrote, dear>> /\ Turned(t)
      /\ left' \in Nat /\ staging' \in [Jobs -> SUBSET Paths]
      /\ Carrying(t) /\ tasks[t].at # "begin" /\ tasks'[t].kind = "execute"
      /\ Ahead(tasks'[t]) \subseteq {q \in Paths : q > p}
      /\ \/ /\ disk' = [disk EXCEPT ![Own(p)] = source] /\ mover' = [mover EXCEPT ![p] = job]
            /\ trash' = IF copy = 0 THEN trash ELSE [trash EXCEPT ![<<p, copy>>] = Nothing]
         \/ UNCHANGED <<disk, trash, mover>>
  BY <1>0, <1>1, ArrivesDoes
<1>3. job \in Jobs /\ copy \in 0 .. 2 /\ source \in Int
  <2>1. tasks[t] \in TaskForm /\ tasks[t].kind = "execute" /\ p # Beyond
    BY <1>2, TaskIs, PathsEnd DEF Carrying
  <2>2. tasks[t].job \in Jobs /\ tasks[t].entries \in [Paths -> Entry]
    BY <1>0, <1>2, <2>1, PathsAreInTurn
  <2>3. copy \in 0 .. 2
    BY <1>1, <2>2 DEF Entry
  <2>4. CASE copy = 0
    <3>1. tasks[t].job \in Nat
      BY <2>2
    <3>2. - tasks[t].job \in Int /\ Nothing \in Int
      BY <3>1
    <3> QED
      BY <1>0, <1>1, <2>2, <2>3, <2>4, <3>2 DEF Source
  <2>5. CASE copy # 0
    <3>1. copy \in 1 .. 2
      BY <2>3, <2>5
    <3>2. <<p, copy>> \in Binned
      BY <3>1 DEF Binned
    <3> QED
      BY <1>0, <1>1, <2>2, <2>3, <2>5, <3>2, RestIs DEF Source
  <2> QED
    BY <1>1, <2>2, <2>3, <2>4, <2>5
<1>4. Ahead(tasks'[t]) \subseteq Ahead(tasks[t])
  BY <1>0, <1>2 DEF Ahead
<1>5. CASE UNCHANGED <<disk, trash, mover>>
  <2>1. UNCHANGED files
    BY <1>2, <1>5 DEF files
  <2>2. FilesOK' /\ \A q \in Paths : Used(q)' \subseteq Used(q)
    BY <2>1, FilesStay
  <2>3. RestOK' /\ plans' \in [Jobs -> PlanForm]
    BY <1>2, <1>5, RestIs, RestStays
  <2> QED
    BY <1>2, <1>4, <2>2, <2>3, TurnIsTyped
<1>6. CASE /\ disk' = [disk EXCEPT ![Own(p)] = source] /\ mover' = [mover EXCEPT ![p] = job]
           /\ trash' = IF copy = 0 THEN trash ELSE [trash EXCEPT ![<<p, copy>>] = Nothing]
  <2>1. disk' \in [Names -> Int] /\ \A q \in Paths : Used(q)' \subseteq Used(q)
    BY <1>3, <1>6, OwnIsApart
  <2>2. trash' \in [Binned -> Int]
    <3>1. CASE copy = 0
      BY <1>6, <3>1, RestIs
    <3>2. CASE copy # 0
      <4>1. <<p, copy>> \in Binned /\ Nothing \in Int
        BY <1>3, <3>2 DEF Binned
      <4> QED
        BY <1>6, <3>2, <4>1, TrashStays
    <3> QED
      BY <3>1, <3>2
  <2>3. FilesOK'
    BY <1>2, <2>1, <2>2, RestIs DEF FilesOK
  <2>4. mover' \in [Paths -> Jobs \cup {0}]
    BY <1>3, <1>6, MoverStays
  <2>5. RestOK' /\ plans' \in [Jobs -> PlanForm]
    BY <1>2, <2>4, RestIs, RestStays
  <2> QED
    BY <1>2, <1>4, <2>1, <2>3, <2>5, TurnIsTyped
<1> QED
  BY <1>2, <1>5, <1>6

LEMMA EndsIsTyped ==
  ASSUME Typed, NEW t \in Tasks, Ends(t)
  PROVE  Typed'
<1>1. /\ UNCHANGED <<disk, stash, trash, now, ghosts, left>> /\ Turned(t)
      /\ infos' \in [Binned -> BOOLEAN] /\ staging' \in [Jobs -> SUBSET Paths]
      /\ tasks'[t].kind = "over" /\ plans' \in [Jobs -> PlanForm]
  BY EndsDoes
<1>2. FilesOK' /\ \A q \in Paths : Used(q)' \subseteq Used(q)
  BY <1>1, RestIs, UsedStays DEF FilesOK
<1>3. RestOK'
  BY <1>1, RestIs, RestStays DEF ghosts
<1> QED
  BY <1>1, <1>2, <1>3, TurnIsTyped

LEMMA UndoRemovesIsTyped ==
  ASSUME Typed, NEW t \in Tasks, UndoRemoves(t)
  PROVE  Typed'
<1>1. PICK p, after : p = Undone(tasks[t]).path /\ after = Undone(tasks[t]).after
  OBVIOUS
<1>2. /\ UNCHANGED <<stash, trash, infos, staging, plans, now, wrote, dear>> /\ Turned(t)
      /\ left' \in Nat /\ tasks'[t].kind = "undo" /\ Undone(tasks[t]) \in MoveRecord
      /\ \/ disk' = [disk EXCEPT ![Own(p)] = Nothing] /\ mover' = [mover EXCEPT ![p] = after]
         \/ UNCHANGED <<disk, mover>>
  BY <1>1, UndoRemovesDoes
<1>3. p \in Paths /\ after \in Jobs \cup {0} /\ Nothing \in Int
  <2>1. Undone(tasks[t]).path \in Paths /\ Undone(tasks[t]).after \in Jobs \cup {0}
    BY <1>2, MoveFields
  <2> QED
    BY <1>1, <2>1
<1>4. disk' \in [Names -> Int] /\ \A q \in Paths : Used(q)' \subseteq Used(q)
  <2>1. CASE disk' = [disk EXCEPT ![Own(p)] = Nothing]
    BY <1>3, <2>1, OwnIsApart
  <2>2. CASE UNCHANGED disk
    BY <2>2, RestIs, UsedStays
  <2> QED
    BY <1>2, <2>1, <2>2
<1>5. FilesOK'
  BY <1>2, <1>4, RestIs DEF FilesOK
<1>6. mover' \in [Paths -> Jobs \cup {0}]
  <2>1. CASE mover' = [mover EXCEPT ![p] = after]
    BY <1>3, <2>1, MoverStays
  <2>2. CASE UNCHANGED mover
    BY <2>2, RestIs
  <2> QED
    BY <1>2, <2>1, <2>2
<1>7. RestOK' /\ plans' \in [Jobs -> PlanForm]
  BY <1>2, <1>6, RestIs, RestStays
<1> QED
  BY <1>2, <1>4, <1>5, <1>7, TurnIsTyped

LEMMA UndoReturnsIsTyped ==
  ASSUME Typed, NEW t \in Tasks, UndoReturns(t)
  PROVE  Typed'
<1>1. PICK p, to : p = Undone(tasks[t]).path /\ to = Undone(tasks[t]).to
  OBVIOUS
<1>2. /\ UNCHANGED <<trash, infos, staging, plans, now, ghosts>> /\ Turned(t)
      /\ left' \in Nat /\ tasks'[t].kind = "undo" /\ Undone(tasks[t]) \in MoveRecord
      /\ \/ /\ to \in Second /\ stash' = [stash EXCEPT ![<<to, p>>] = Nothing]
            /\ disk' = [disk EXCEPT ![Own(p)] = stash[<<to, p>>]]
         \/ /\ to \in Aside /\ UNCHANGED stash
            /\ disk' = [disk EXCEPT ![Own(p)] = disk[<<p, to>>], ![<<p, to>>] = Nothing]
         \/ UNCHANGED <<disk, stash>>
  BY <1>1, UndoReturnsDoes
<1>3. p \in Paths /\ Nothing \in Int
  <2>1. Undone(tasks[t]).path \in Paths
    BY <1>2, MoveFields
  <2> QED
    BY <1>1, <2>1
<1>4. RestOK' /\ plans' \in [Jobs -> PlanForm]
  BY <1>2, RestIs, RestStays DEF ghosts
<1>5. FilesOK' /\ \A q \in Paths : Used(q)' \subseteq Used(q)
  <2>1. CASE /\ to \in Second /\ stash' = [stash EXCEPT ![<<to, p>>] = Nothing]
             /\ disk' = [disk EXCEPT ![Own(p)] = stash[<<to, p>>]]
    <3>1. stash[<<to, p>>] \in Int
      BY <1>3, <2>1, RestIs
    <3>2. disk' \in [Names -> Int] /\ \A q \in Paths : Used(q)' \subseteq Used(q)
      BY <1>3, <2>1, <3>1, OwnIsApart
    <3>3. stash' \in [Second \X Paths -> Int]
      BY <1>3, <2>1, StashStays
    <3> QED
      BY <1>2, <3>2, <3>3, RestIs DEF FilesOK
  <2>2. CASE /\ to \in Aside /\ UNCHANGED stash
             /\ disk' = [disk EXCEPT ![Own(p)] = disk[<<p, to>>], ![<<p, to>>] = Nothing]
    <3>1. <<p, to>> \in Names /\ Own(p) \in Names
      BY <1>3, <2>2, Places
    <3>2. disk' \in [Names -> Int]
      BY <1>3, <2>2, <3>1, RestIs
    <3>3. ASSUME NEW q \in Paths, NEW n \in Aside, disk'[<<q, n>>] # Nothing PROVE disk[<<q, n>>] # Nothing
      <4>1. <<q, n>> \in Names /\ n # 0
        BY Places
      <4>2. <<q, n>> # Own(p)
        BY <4>1 DEF Own
      <4> QED
        BY <2>2, <3>1, <3>3, <4>1, <4>2, RestIs
    <3>4. \A q \in Paths : Used(q)' \subseteq Used(q)
      BY <3>3, UsedStays
    <3> QED
      BY <1>2, <2>2, <3>2, <3>4, RestIs DEF FilesOK
  <2>3. CASE UNCHANGED <<disk, stash>>
    BY <1>2, <2>3, RestIs, UsedStays DEF FilesOK
  <2> QED
    BY <1>2, <2>1, <2>2, <2>3
<1> QED
  BY <1>2, <1>4, <1>5, TurnIsTyped

LEMMA UndoTrashesIsTyped ==
  ASSUME Typed, NEW t \in Tasks, UndoTrashes(t)
  PROVE  Typed'
<1>1. PICK p, after : p = Undone(tasks[t]).path /\ after = Undone(tasks[t]).after
  OBVIOUS
<1>2. /\ UNCHANGED <<stash, infos, staging, plans, now, wrote, dear, left>> /\ Turned(t)
      /\ tasks'[t].kind = "undo" /\ Undone(tasks[t]) \in MoveRecord
      /\ \/ /\ \E b \in Binned : trash' = [trash EXCEPT ![b] = disk[Own(p)]]
            /\ disk' = [disk EXCEPT ![Own(p)] = Nothing] /\ mover' = [mover EXCEPT ![p] = after]
         \/ UNCHANGED <<disk, trash, mover>>
  BY <1>1, UndoTrashesDoes
<1>3. p \in Paths /\ after \in Jobs \cup {0} /\ Nothing \in Int /\ disk[Own(p)] \in Int
  <2>1. Undone(tasks[t]).path \in Paths /\ Undone(tasks[t]).after \in Jobs \cup {0}
    BY <1>2, MoveFields
  <2>2. p \in Paths
    BY <1>1, <2>1
  <2>3. Own(p) \in Names
    BY <2>2, Places
  <2> QED
    BY <1>1, <2>1, <2>3, RestIs
<1>4. /\ FilesOK' /\ \A q \in Paths : Used(q)' \subseteq Used(q)
      /\ mover' \in [Paths -> Jobs \cup {0}]
  <2>1. CASE /\ \E b \in Binned : trash' = [trash EXCEPT ![b] = disk[Own(p)]]
             /\ disk' = [disk EXCEPT ![Own(p)] = Nothing] /\ mover' = [mover EXCEPT ![p] = after]
    <3>1. disk' \in [Names -> Int] /\ \A q \in Paths : Used(q)' \subseteq Used(q)
      BY <1>3, <2>1, OwnIsApart
    <3>2. trash' \in [Binned -> Int]
      BY <1>3, <2>1, TrashStays
    <3>3. mover' \in [Paths -> Jobs \cup {0}]
      BY <1>3, <2>1, MoverStays
    <3> QED
      BY <1>2, <3>1, <3>2, <3>3, RestIs DEF FilesOK
  <2>2. CASE UNCHANGED <<disk, trash, mover>>
    BY <1>2, <2>2, RestIs, UsedStays DEF FilesOK
  <2> QED
    BY <1>2, <2>1, <2>2
<1>5. RestOK' /\ plans' \in [Jobs -> PlanForm]
  BY <1>2, <1>4, RestIs, RestStays
<1> QED
  BY <1>2, <1>4, <1>5, TurnIsTyped

LEMMA UndoGoesOnIsTyped ==
  ASSUME Typed, NEW t \in Tasks, UndoBegins(t) \/ UndoReenters(t) \/ UndoEnds(t)
  PROVE  Typed'
<1>1. /\ UNCHANGED <<disk, stash, trash, staging, plans, now, ghosts, left>> /\ Turned(t)
      /\ infos' \in [Binned -> BOOLEAN] /\ tasks'[t].kind \in {"undo", "over"}
  <2>1. CASE UndoBegins(t)
    <3>1. UNCHANGED files /\ UNCHANGED <<staging, plans, now, ghosts, left>> /\ Turned(t)
          /\ tasks'[t].kind \in {"undo", "over"}
      BY <2>1, UndoBeginsDoes
    <3> QED
      BY <3>1, FilesStay, RestIs
  <2>2. CASE UndoReenters(t)
    BY <2>2, UndoReentersDoes
  <2>3. CASE UndoEnds(t)
    <3>1. UNCHANGED files /\ UNCHANGED <<staging, plans, now, ghosts, left>> /\ Turned(t)
          /\ tasks'[t].kind = "over"
      BY <2>3, UndoEndsDoes
    <3> QED
      BY <3>1, FilesStay, RestIs
  <2> QED
    BY <2>1, <2>2, <2>3
<1>2. FilesOK' /\ \A q \in Paths : Used(q)' \subseteq Used(q)
  BY <1>1, RestIs, UsedStays DEF FilesOK
<1>3. RestOK' /\ plans' \in [Jobs -> PlanForm]
  BY <1>1, RestIs, RestStays DEF ghosts
<1> QED
  BY <1>1, <1>2, <1>3, TurnIsTyped

LEMMA PutBackIsTyped ==
  ASSUME Typed, NEW t \in Tasks, PutBackDisplaces(t) \/ PutBackArrives(t)
  PROVE  Typed'
<1>1. PICK p \in Paths, s \in Second :
        p = tasks[t].path /\ (PutBackDisplaces(t) => s = tasks[t].second) /\ (PutBackArrives(t) => s = tasks[t].to)
        /\ (PutBackDisplaces(t) \/ PutBackArrives(t))
  <2>1. tasks[t] \in TaskForm
    BY TaskIs
  <2>2. tasks[t].second \in Second
    BY <2>1, TaskFields
  <2>3. CASE PutBackDisplaces(t)
    <3>1. tasks[t].path \in Paths /\ tasks[t].at = "next"
      BY <2>3, PutBackDisplacesDoes
    <3>2. ~PutBackArrives(t)
      BY <3>1 DEF PutBackArrives, At
    <3> QED
      BY <2>2, <2>3, <3>1, <3>2
  <2>4. CASE PutBackArrives(t)
    <3>1. tasks[t].path \in Paths /\ tasks[t].to \in Second /\ tasks[t].at = "displaced"
      BY <2>4, PutBackArrivesDoes
    <3>2. ~PutBackDisplaces(t)
      BY <3>1 DEF PutBackDisplaces, At
    <3> QED
      BY <2>4, <3>1, <3>2
  <2> QED
    BY <2>3, <2>4
<1>2. PICK here, there : here = disk[Own(p)] /\ there = stash[<<s, p>>]
  OBVIOUS
<1>3. /\ UNCHANGED <<trash, infos, staging, plans, now, wrote, dear>> /\ Turned(t)
      /\ left' \in Nat /\ tasks'[t].kind \in {"put back", "over"}
      /\ mover' \in [Paths -> Jobs \cup {0}]
      /\ \/ stash' = [stash EXCEPT ![<<s, p>>] = here] /\ disk' = [disk EXCEPT ![Own(p)] = Nothing]
         \/ stash' = [stash EXCEPT ![<<s, p>>] = Nothing] /\ disk' = [disk EXCEPT ![Own(p)] = there]
         \/ UNCHANGED <<disk, stash>>
  <2>1. CASE PutBackDisplaces(t)
    <3>1. s = tasks[t].second
      BY <1>1, <2>1
    <3> QED
      BY <1>1, <1>2, <2>1, <3>1, PutBackDisplacesDoes, RestIs DEF ghosts
  <2>2. CASE PutBackArrives(t)
    <3>1. s = tasks[t].to
      BY <1>1, <2>2
    <3>2. mover' \in [Paths -> Jobs \cup {0}]
      BY <1>1, <2>2, PutBackArrivesDoes, RestIs
    <3> QED
      BY <1>1, <1>2, <2>2, <3>1, <3>2, PutBackArrivesDoes
  <2> QED
    BY <1>1, <2>1, <2>2
<1>4. here \in Int /\ there \in Int /\ Nothing \in Int
  <2>1. Own(p) \in Names /\ <<s, p>> \in Second \X Paths
    BY Places
  <2> QED
    BY <1>2, <2>1, RestIs
<1>5. FilesOK' /\ \A q \in Paths : Used(q)' \subseteq Used(q)
  <2>1. CASE UNCHANGED <<disk, stash>>
    BY <1>3, <2>1, RestIs, UsedStays DEF FilesOK
  <2>2. CASE stash' = [stash EXCEPT ![<<s, p>>] = here] /\ disk' = [disk EXCEPT ![Own(p)] = Nothing]
    BY <1>3, <1>4, <2>2, OwnIsApart, StashStays, RestIs DEF FilesOK
  <2>3. CASE stash' = [stash EXCEPT ![<<s, p>>] = Nothing] /\ disk' = [disk EXCEPT ![Own(p)] = there]
    BY <1>3, <1>4, <2>3, OwnIsApart, StashStays, RestIs DEF FilesOK
  <2> QED
    BY <1>3, <2>1, <2>2, <2>3
<1>6. RestOK' /\ plans' \in [Jobs -> PlanForm]
  BY <1>3, RestIs, RestStays
<1> QED
  BY <1>3, <1>5, <1>6, TurnIsTyped

LEMMA OthersAreTyped ==
  ASSUME Typed,
         \/ \E j \in Jobs, asked \in SUBSET Paths, binned \in SUBSET Binned : Prepare(j, asked, binned)
         \/ \E j \in Jobs : Discard(j)
         \/ \E max \in {0, MaxFiles} : Expire(max)
         \/ PersonEmptiesTrash \/ SecondPasses
  PROVE  Typed'
<1>1. ASSUME FilesOK', RestOK', plans' \in [Jobs -> PlanForm], UNCHANGED <<disk, tasks>>
      PROVE  Typed'
  <2>1. \A p \in Paths : Used(p)' \subseteq Used(p) /\ Spent(p) \subseteq Spent(p)'
    BY <1>1 DEF Used, Spent, Carrying
  <2> QED
    BY <1>1, <2>1, NamesStay, RestIs DEF Typed, FormsOK
<1>2. ASSUME NEW j \in Jobs, NEW asked \in SUBSET Paths, NEW binned \in SUBSET Binned,
             Prepare(j, asked, binned)
      PROVE  Typed'
  <2>1. /\ plans' \in [Jobs -> PlanForm] /\ staging' \in [Jobs -> SUBSET Paths]
        /\ UNCHANGED <<files, tasks, now, ghosts, left>>
    BY <1>2, PlansAre
  <2> QED
    BY <1>1, <2>1, FilesStay, RestIs, RestStays DEF ghosts
<1>3. ASSUME NEW j \in Jobs, Discard(j) PROVE Typed'
  <2>1. /\ plans' \in [Jobs -> PlanForm] /\ staging' \in [Jobs -> SUBSET Paths]
        /\ UNCHANGED <<files, tasks, now, ghosts, left>>
    BY <1>3, PlansAre
  <2> QED
    BY <1>1, <2>1, FilesStay, RestIs, RestStays DEF ghosts
<1>4. ASSUME NEW max \in {0, MaxFiles}, Expire(max) PROVE Typed'
  <2> DEFINE gone == {k \in Second \X Paths : k[1] \in GivenUp(max)}
  <2>1. /\ stash' = [k \in Second \X Paths |-> IF k \in gone THEN Nothing ELSE stash[k]]
        /\ dear' = dear \ {stash[k] : k \in gone}
        /\ UNCHANGED <<disk, trash, infos, staging, plans, tasks, now, wrote, mover, left>>
    BY <1>4 DEF Expire
  <2> HIDE DEF gone
  <2>2. FilesOK'
    BY <2>1, RestIs DEF FilesOK
  <2>3. dear' \subseteq dear
    BY <2>1
  <2>4. RestOK'
    BY <2>1, <2>3, RestIs DEF RestOK
  <2> QED
    BY <1>1, <2>1, <2>2, <2>4, RestIs
<1>5. ASSUME PersonEmptiesTrash PROVE Typed'
  <2>1. /\ trash' = [b \in Binned |-> Nothing] /\ infos' = [b \in Binned |-> FALSE]
        /\ dear' = dear \ {trash[b] : b \in Binned}
        /\ UNCHANGED <<disk, stash, staging, plans, tasks, now, wrote, mover, left>>
    BY <1>5 DEF PersonEmptiesTrash
  <2>2. FilesOK'
    BY <2>1, RestIs DEF FilesOK
  <2>3. dear' \subseteq dear
    BY <2>1
  <2>4. RestOK'
    BY <2>1, <2>3, RestIs DEF RestOK
  <2> QED
    BY <1>1, <2>1, <2>2, <2>4, RestIs
<1>6. ASSUME SecondPasses PROVE Typed'
  <2>1. now < LastSecond /\ now' = now + 1 /\ UNCHANGED <<files, staging, plans, tasks, ghosts, left>>
    BY <1>6 DEF SecondPasses
  <2>2. now' \in Second
    <3>1. now \in 0 .. LastSecond
      BY RestIs DEF Second
    <3>2. now' \in 0 .. LastSecond
      BY <2>1, <3>1
    <3> QED
      BY <3>2 DEF Second
  <2> QED
    BY <1>1, <2>1, <2>2, FilesStay, RestIs, RestStays DEF ghosts
<1> QED
  BY <1>2, <1>3, <1>4, <1>5, <1>6

LEMMA PersonIsTyped ==
  ASSUME Typed, NEW p \in Paths, PersonWrites(p) \/ PersonTrashes(p)
  PROVE  Typed'
<1>1. ASSUME FilesOK', RestOK', plans' = plans, tasks' = tasks, \A q \in Paths : Used(q)' \subseteq Used(q)
      PROVE  Typed'
  <2>1. \A q \in Paths : Spent(q) \subseteq Spent(q)'
    BY <1>1 DEF Spent, Carrying
  <2> QED
    BY <1>1, <2>1, NamesStay, RestIs DEF Typed, FormsOK
<1>2. 0 \in Jobs \cup {0} /\ Nothing \in Int
  OBVIOUS
<1>3. CASE PersonWrites(p)
  <2>1. /\ wrote' = wrote + 1 /\ disk' = [disk EXCEPT ![Own(p)] = wrote + 1]
        /\ dear' = (dear \ {disk[Own(p)]}) \cup {wrote + 1} /\ mover' = [mover EXCEPT ![p] = 0]
        /\ Happens /\ UNCHANGED <<stash, trash, infos, staging, plans, tasks, now>>
    BY <1>3 DEF PersonWrites
  <2>2. wrote \in Nat /\ wrote + 1 \in Int /\ wrote + 1 \in Nat
    BY RestIs
  <2>3. disk' \in [Names -> Int] /\ \A q \in Paths : Used(q)' \subseteq Used(q)
    BY <2>1, <2>2, OwnIsApart
  <2>4. FilesOK'
    BY <2>1, <2>3, RestIs DEF FilesOK
  <2>5. dear' \subseteq 1 .. wrote + 1
    <3>1. dear \subseteq 1 .. wrote
      BY RestIs
    <3>2. 1 .. wrote \subseteq 1 .. wrote + 1 /\ wrote + 1 \in 1 .. wrote + 1
      BY <2>2
    <3> QED
      BY <2>1, <3>1, <3>2
  <2>6. mover' \in [Paths -> Jobs \cup {0}]
    BY <1>2, <2>1, MoverStays
  <2>7. left' \in Nat
    BY <2>1, EventsAreCounted
  <2>8. RestOK'
    BY <2>1, <2>2, <2>5, <2>6, <2>7, RestIs DEF RestOK
  <2> QED
    BY <1>1, <2>1, <2>3, <2>4, <2>8
<1>4. CASE PersonTrashes(p)
  <2>1. PICK n \in 1 .. 2 : trash' = [trash EXCEPT ![<<p, n>>] = disk[Own(p)]] /\ infos' = [infos EXCEPT ![<<p, n>>] = TRUE]
    BY <1>4 DEF PersonTrashes
  <2>2. /\ disk' = [disk EXCEPT ![Own(p)] = Nothing] /\ mover' = [mover EXCEPT ![p] = 0]
        /\ UNCHANGED <<stash, staging, plans, tasks, now, wrote, dear, left>>
    BY <1>4 DEF PersonTrashes
  <2>3. disk' \in [Names -> Int] /\ \A q \in Paths : Used(q)' \subseteq Used(q)
    BY <1>2, <2>2, OwnIsApart
  <2>4. <<p, n>> \in Binned /\ disk[Own(p)] \in Int
    BY Places, RestIs DEF Binned
  <2>5. trash' \in [Binned -> Int] /\ infos' \in [Binned -> BOOLEAN]
    BY <2>1, <2>4, TrashStays, RestIs
  <2>6. FilesOK'
    BY <2>2, <2>3, <2>5, RestIs DEF FilesOK
  <2>7. mover' \in [Paths -> Jobs \cup {0}]
    BY <1>2, <2>2, MoverStays
  <2>8. RestOK'
    BY <2>2, <2>7, RestIs, RestStays
  <2> QED
    BY <1>1, <2>2, <2>3, <2>6, <2>8
<1> QED
  BY <1>3, <1>4

LEMMA CrashIsTyped ==
  ASSUME Typed, Crash
  PROVE  Typed'
<1>1. /\ UNCHANGED files /\ UNCHANGED <<now, wrote, dear>> /\ left' \in Nat
      /\ staging' \in [Jobs -> SUBSET Paths] /\ mover' = [p \in Paths |-> 0]
      /\ plans' \in [Jobs -> PlanForm] /\ tasks' \in [Tasks -> TaskForm]
      /\ \A t \in Tasks : ~Runs(t)' /\ (tasks[t].kind = "unused" <=> tasks'[t].kind = "unused")
  BY CrashDoes
<1>2. FilesOK' /\ \A p \in Paths : Used(p)' \subseteq Used(p)
  BY <1>1, FilesStay
<1>3. mover' \in [Paths -> Jobs \cup {0}]
  BY <1>1
<1>4. RestOK'
  BY <1>1, <1>3, RestIs, RestStays
<1>5. \A t \in Tasks : tasks'[t].kind # "execute"
  BY <1>1 DEF Runs
<1>6. \A p \in Paths : Spent(p) \subseteq Spent(p)'
  BY <1>1, <1>5 DEF Spent, Carrying
<1> QED
  BY <1>1, <1>2, <1>4, <1>6, NamesStay DEF Typed, FormsOK

LEMMA TypedStep == Typed /\ [Next]_vars => Typed'
<1> SUFFICES ASSUME Typed, [Next]_vars PROVE Typed'
  OBVIOUS
<1>1. CASE UNCHANGED vars
  BY <1>1 DEF vars, Typed, FilesOK, RestOK, FormsOK, NamesAreLeft, Used, Spent, Carrying
<1>2. ASSUME NEW t \in Tasks, Step(t) PROVE Typed'
  BY <1>2, BeginsIsTyped, DisplacesIsTyped, ArrivesIsTyped, EndsIsTyped, UndoGoesOnIsTyped,
     UndoRemovesIsTyped, UndoReturnsIsTyped, UndoTrashesIsTyped, PutBackIsTyped, Zenon DEF Step
<1>3. ASSUME NEW t \in Tasks, Call(t) PROVE Typed'
  BY <1>3, CallIsTyped
<1>4. ASSUME NEW p \in Paths, PersonWrites(p) \/ PersonTrashes(p) PROVE Typed'
  BY <1>4, PersonIsTyped
<1> QED
  BY <1>1, <1>2, <1>3, <1>4, OthersAreTyped, CrashIsTyped, Zenon DEF Next

LEMMA TypedInit == Init => Typed
<1> SUFFICES ASSUME Init PROVE Typed
  OBVIOUS
<1> DEFINE n == Max(Paths)
<1>0. n \in Nat /\ \A p \in Paths : p \in 1 .. n
  <2>1. n \in Paths /\ \A p \in Paths : p <= n
    BY GreatestOfSome
  <2>2. \A p \in Paths : p \in Nat /\ p > 0
    BY PathsEnd
  <2> HIDE DEF n
  <2> QED
    BY <2>1, <2>2
<1>1. PICK there \in SUBSET Paths, binned \in SUBSET {Min(Paths)} :
        /\ disk = [m \in Names |-> IF m[2] = 0 /\ m[1] \in there THEN m[1] ELSE Nothing]
        /\ stash = [s \in Second \X Paths |-> Nothing]
        /\ trash = [b \in Binned |-> IF b[1] \in binned /\ b[2] = 1 THEN n + 1 ELSE Nothing]
        /\ infos = [b \in Binned |-> b[1] \in binned /\ b[2] = 1]
        /\ staging = [j \in Jobs |-> {}] /\ plans = [j \in Jobs |-> Unprepared]
        /\ tasks = [t \in Tasks |-> Unused] /\ now = 0 /\ wrote = n + 1
        /\ dear = there \cup {n + 1 : p \in binned}
        /\ mover = [p \in Paths |-> 0] /\ left = Events
  BY AtFirst, Zenon
<1> HIDE DEF n
<1>2. FilesOK
  <2>0. \A p \in Paths : p \in Int
    BY PathsEnd
  <2>1. \A m \in Names : m[1] \in Int
    BY <2>0 DEF Names
  <2>2. disk \in [Names -> Int]
    BY <1>1, <2>1
  <2>3. stash \in [Second \X Paths -> Int] /\ trash \in [Binned -> Int]
    BY <1>0, <1>1
  <2>4. infos \in [Binned -> BOOLEAN]
    BY <1>1, Zenon
  <2> QED
    BY <2>2, <2>3, <2>4 DEF FilesOK
<1>3. RestOK
  <2>1. n + 1 \in Nat /\ 1 .. n \subseteq 1 .. n + 1 /\ n + 1 \in 1 .. n + 1
    BY <1>0
  <2>2. dear \subseteq 1 .. n + 1
    BY <1>0, <1>1, <2>1
  <2>3. now \in Second
    BY <1>1 DEF Second
  <2> QED
    BY <1>1, <2>1, <2>2, <2>3 DEF RestOK
<1>4. FormsOK
  BY <1>1, Forms DEF FormsOK
<1>5. ASSUME NEW p \in Paths PROVE Cardinality(Used(p)) <= Cardinality(Spent(p))
  <2>1. ASSUME NEW k \in Aside PROVE disk[<<p, k>>] = Nothing
    <3>1. <<p, k>> \in Names /\ k # 0
      BY Places
    <3> QED
      BY <1>1, <3>1
  <2>2. Used(p) = {}
    BY <2>1 DEF Used
  <2>3. Cardinality(Used(p)) = 0 /\ Cardinality(Spent(p)) \in Nat
    BY <2>2, FS_EmptySet, SpentIsFinite
  <2> QED
    BY <2>3
<1> QED
  BY <1>2, <1>3, <1>4, <1>5 DEF Typed, NamesAreLeft

(* Every file, plan and log that a restore, an undoing or a put-back makes  *)
(* is one of the right kind, whatever fails and whoever comes between: in   *)
(* particular keep_both_name always finds a name, and an undoing never      *)
(* counts past the moves that were written down (execute.rs).               *)
THEOREM TypeCorrect == Spec => []TypeOK
<1>1. Spec => []Typed
  BY TypedInit, TypedStep, PTL DEF Spec
<1> QED
  BY <1>1, TypedIsTypeOK, PTL

-----------------------------------------------------------------------------
(* One task at a time, and of the restore that waits for its answers, if    *)
(* there is one (Restores, JobRegistry).                                    *)

OneAtATime == "side by side" \notin Circumstances
OnceOnly == "again" \notin Circumstances

Waits(j) == plans[j].held /\ ~plans[j].logged

Alone ==
  /\ \A t, u \in Tasks : Runs(t) /\ Runs(u) => t = u
  /\ \A j, k \in Jobs : Waits(j) /\ Waits(k) => j = k
  /\ \A t \in Tasks, k \in Jobs : Runs(t) /\ Waits(k) => Carrying(t) /\ tasks[t].job = k

\* A task is of a plan that is held, and works from it.
OfPlan(task) ==
  /\ task.kind = "execute" =>
       /\ plans[task.job].held /\ ~plans[task.job].logged
       /\ task.at # "begin" => task.entries = plans[task.job].entries
  /\ task.kind = "undo" =>
       /\ plans[task.job].held /\ plans[task.job].logged
       /\ task.at # "begin" => task.log = plans[task.job].log

OfPlans == \A t \in Tasks : OfPlan(tasks[t])
Turns == Alone /\ OfPlans

LEMMA OnlyOfSome == Typed => \A t \in Tasks : tasks[t].job \in Jobs \cup {0}
BY TaskIs, TaskFields

\* With a plan as it was, but for what it found.
SamePlans ==
  \A j \in Jobs : /\ plans'[j].held = plans[j].held /\ plans'[j].logged = plans[j].logged
                  /\ plans'[j].entries = plans[j].entries /\ plans'[j].log = plans[j].log

LEMMA TurnGoesOn ==
  ASSUME Typed, Turns, NEW t \in Tasks, Runs(t), Turned(t), SamePlans,
         \/ tasks'[t].kind = "over"
         \/ /\ tasks'[t].kind = tasks[t].kind /\ tasks'[t].job = tasks[t].job
            /\ Carrying(t) /\ tasks'[t].at # "begin" => tasks'[t].entries = plans[tasks[t].job].entries
            /\ Undoing(t) /\ tasks'[t].at # "begin" => tasks'[t].log = plans[tasks[t].job].log
  PROVE  Turns'
<1>1. \A j \in Jobs : Waits(j)' <=> Waits(j)
  BY DEF SamePlans, Waits
<1>2. \A u \in Tasks : u # t => ~Runs(u) /\ ~Runs(u)'
  BY DEF Turns, Alone, Turned, Runs
<1>3. Runs(t)' => tasks'[t].kind = tasks[t].kind /\ tasks'[t].job = tasks[t].job
  BY DEF Runs
<1>4. Alone'
  BY <1>1, <1>2, <1>3 DEF Turns, Alone, Carrying
<1>5. ASSUME NEW u \in Tasks PROVE OfPlan(tasks[u])'
  <2>1. CASE u # t
    BY <1>2, <2>1 DEF OfPlan, Runs
  <2>2. CASE u = t /\ tasks'[t].kind = "over"
    BY <2>2 DEF OfPlan
  <2>3. CASE u = t /\ tasks'[t].kind # "over"
    <3>1. tasks'[t].kind = tasks[t].kind /\ tasks'[t].job = tasks[t].job
      BY <2>3
    <3>2. tasks[t].kind \in {"execute", "undo"} => tasks[t].job \in Jobs
      <4>1. tasks[t] \in TaskForm
        BY TaskIs
      <4> QED
        BY <4>1, TaskFields DEF CarriesOut, Undoes
    <3>3. OfPlan(tasks[t])
      BY DEF Turns, OfPlans
    <3> QED
      BY <2>3, <3>1, <3>2, <3>3 DEF OfPlan, SamePlans, Carrying, Undoing
  <2> QED
    BY <2>1, <2>2, <2>3
<1> QED
  BY <1>4, <1>5 DEF Turns, OfPlans

LEMMA PlansStay == UNCHANGED plans => SamePlans
BY DEF SamePlans

LEMMA BeginsKeeps ==
  ASSUME Typed, NEW t \in Tasks, Begins(t)
  PROVE  SamePlans /\ \A j \in Jobs : plans'[j].used = plans[j].used
<1>1. PICK j \in Jobs : j = tasks[t].job
  BY BeginsDoes
<1>2. \/ \E before \in [Paths -> Int] : plans' = [plans EXCEPT ![j].before = before]
      \/ UNCHANGED plans
  BY <1>1, BeginsDoes
<1>3. CASE \E before \in [Paths -> Int] : plans' = [plans EXCEPT ![j].before = before]
  <2>1. PICK before \in [Paths -> Int] : plans' = [plans EXCEPT ![j] = [plans[j] EXCEPT !.before = before]]
    BY <1>3
  <2>2. plans[j] \in Plan /\ plans \in [Jobs -> PlanForm]
    BY PlanIs, RestIs DEF PlanForm
  <2> DEFINE plan == [plans[j] EXCEPT !.before = before]
  <2>3. /\ plan.log = plans[j].log /\ plan.logged = plans[j].logged /\ plan.used = plans[j].used
        /\ plan.held = plans[j].held /\ plan.entries = plans[j].entries
    BY <2>2 DEF Plan
  <2> HIDE DEF plan
  <2>4. plans' = [plans EXCEPT ![j] = plan]
    BY <2>1 DEF plan
  <2> QED
    BY <2>2, <2>3, <2>4 DEF SamePlans
<1>4. CASE UNCHANGED plans
  BY <1>4, PlansStay
<1> QED
  BY <1>2, <1>3, <1>4

LEMMA StepTakesTurns ==
  ASSUME Typed, Turns, NEW t \in Tasks, Step(t)
  PROVE  Turns'
<1>1. CASE Begins(t)
  <2>1. PICK j \in Jobs : j = tasks[t].job
    BY <1>1, BeginsDoes
  <2>2. /\ Turned(t) /\ Carrying(t)
        /\ \/ /\ tasks'[t].kind = "execute" /\ tasks'[t].job = j /\ tasks'[t].entries = plans[j].entries
              /\ \E before \in [Paths -> Int] : plans' = [plans EXCEPT ![j].before = before]
           \/ tasks'[t].kind = "over" /\ UNCHANGED plans
    BY <1>1, <2>1, BeginsDoes
  <2>3. SamePlans
    BY <1>1, BeginsKeeps
  <2> QED
    BY <2>1, <2>2, <2>3, TurnGoesOn DEF Runs, Carrying, Undoing
<1>2. CASE Displaces(t)
  <2>1. /\ UNCHANGED plans /\ Turned(t) /\ Carrying(t) /\ tasks[t].at = "next" /\ tasks'[t].kind = "execute"
        /\ tasks'[t].job = tasks[t].job /\ tasks'[t].entries = tasks[t].entries
    BY <1>2, DisplacesDoes
  <2>2. tasks[t].entries = plans[tasks[t].job].entries
    BY <2>1 DEF Turns, OfPlans, OfPlan, Carrying
  <2> QED
    BY <2>1, <2>2, PlansStay, TurnGoesOn DEF Runs, Carrying, Undoing
<1>3. CASE Arrives(t)
  <2>1. /\ UNCHANGED plans /\ Turned(t) /\ Carrying(t) /\ tasks[t].at # "begin" /\ tasks'[t].kind = "execute"
        /\ tasks'[t].job = tasks[t].job /\ tasks'[t].entries = tasks[t].entries
    BY <1>3, ArrivesDoes
  <2>2. tasks[t].entries = plans[tasks[t].job].entries
    BY <2>1 DEF Turns, OfPlans, OfPlan, Carrying
  <2> QED
    BY <2>1, <2>2, PlansStay, TurnGoesOn DEF Runs, Carrying, Undoing
<1>4. CASE Ends(t)
  <2>1. PICK j \in Jobs : j = tasks[t].job
    BY <1>4, EndsDoes
  <2>2. /\ Turned(t) /\ Carrying(t) /\ tasks'[t].kind = "over"
        /\ \A k \in Jobs : k # j => plans'[k] = plans[k]
        /\ \/ ~plans[j].held /\ UNCHANGED plans
           \/ plans'[j].logged
    BY <1>4, <2>1, EndsDoes
  <2>3. \A u \in Tasks : ~Runs(u)'
    BY <2>2 DEF Turns, Alone, Turned, Runs, Carrying
  <2>4. ~Waits(j)'
    BY <2>2 DEF Waits
  <2>5. \A k \in Jobs : ~Waits(k)'
    BY <2>1, <2>2, <2>4 DEF Turns, Alone, Waits, Runs, Carrying
  <2> QED
    BY <2>3, <2>5 DEF Turns, Alone, OfPlans, OfPlan, Runs
<1>5. CASE UndoBegins(t)
  <2>1. /\ UNCHANGED plans /\ Turned(t) /\ Undoing(t)
        /\ \/ /\ tasks'[t].kind = "undo" /\ tasks'[t].job = tasks[t].job
              /\ tasks'[t].log = plans[tasks[t].job].log
           \/ tasks'[t].kind = "over"
    BY <1>5, UndoBeginsDoes
  <2> QED
    BY <2>1, PlansStay, TurnGoesOn DEF Runs, Carrying, Undoing
<1>6. CASE UndoRemoves(t) \/ UndoReturns(t) \/ UndoReenters(t) \/ UndoTrashes(t) \/ UndoEnds(t)
  <2>1. /\ UNCHANGED plans /\ Turned(t) /\ Undoing(t) /\ tasks[t].at # "begin"
        /\ \/ /\ tasks'[t].kind = "undo" /\ tasks'[t].job = tasks[t].job /\ tasks'[t].log = tasks[t].log
           \/ tasks'[t].kind = "over"
    <3>1. CASE UndoRemoves(t)
      BY <3>1, UndoRemovesDoes
    <3>2. CASE UndoReturns(t)
      BY <3>2, UndoReturnsDoes
    <3>3. CASE UndoReenters(t)
      BY <3>3, UndoReentersDoes
    <3>4. CASE UndoTrashes(t)
      BY <3>4, UndoTrashesDoes
    <3>5. CASE UndoEnds(t)
      BY <3>5, UndoEndsDoes
    <3> QED
      BY <1>6, <3>1, <3>2, <3>3, <3>4, <3>5
  <2>2. tasks[t].log = plans[tasks[t].job].log
    BY <2>1 DEF Turns, OfPlans, OfPlan, Undoing
  <2> QED
    BY <2>1, <2>2, PlansStay, TurnGoesOn DEF Runs, Carrying, Undoing
<1>7. CASE PutBackDisplaces(t) \/ PutBackArrives(t)
  <2>1. /\ UNCHANGED plans /\ Turned(t) /\ tasks[t].kind = "put back"
        /\ \/ tasks'[t].kind = "put back"
           \/ tasks'[t].kind = "over"
    BY <1>7, PutBackDisplacesDoes, PutBackArrivesDoes
  <2>2. \A u \in Tasks : u # t => ~Runs(u) /\ ~Runs(u)'
    BY <2>1 DEF Turns, Alone, Turned, Runs
  <2>3. \A k \in Jobs : ~Waits(k) /\ ~Waits(k)'
    BY <2>1 DEF Turns, Alone, Runs, Waits, Carrying
  <2> QED
    BY <2>1, <2>2, <2>3 DEF Turns, Alone, OfPlans, OfPlan, Runs
<1> QED
  BY <1>1, <1>2, <1>3, <1>4, <1>5, <1>6, <1>7 DEF Step

LEMMA CallTakesTurns ==
  ASSUME OneAtATime, OnceOnly, Typed, Turns, NEW t \in Tasks, Call(t)
  PROVE  Turns'
<1>1. ASSUME NEW j, InTurn(j)
      PROVE  (\A u \in Tasks : ~Runs(u)) /\ \A k \in Jobs : k # j => ~Waits(k)
  BY <1>1 DEF InTurn, OneAtATime, Idle, Waits
<1>2. ASSUME NEW j \in Jobs, NEW answer \in Answers, Execute(t, j, answer) PROVE Turns'
  <2>1. /\ UNCHANGED plans /\ Turned(t) /\ plans[j].held /\ InTurn(j)
        /\ plans[j].logged => "again" \in Circumstances
        /\ tasks'[t].kind = "execute" /\ tasks'[t].at = "begin" /\ tasks'[t].job = j
    BY <1>2, ExecuteDoes DEF Starts
  <2>2. ~plans[j].logged
    BY <2>1 DEF OnceOnly
  <2>3. (\A u \in Tasks : ~Runs(u)) /\ \A k \in Jobs : k # j => ~Waits(k)
    BY <1>1, <2>1
  <2>4. \A u \in Tasks : u # t => ~Runs(u)'
    BY <2>1, <2>3 DEF Turned, Runs
  <2>5. \A k \in Jobs : Waits(k)' => k = j
    BY <2>1, <2>3 DEF Waits
  <2>6. Alone'
    BY <2>1, <2>4, <2>5 DEF Alone, Carrying
  <2>7. ASSUME NEW u \in Tasks PROVE OfPlan(tasks[u])'
    <3>1. CASE u = t
      BY <2>1, <2>2, <3>1 DEF OfPlan
    <3>2. CASE u # t
      BY <2>4, <3>2 DEF OfPlan, Runs
    <3> QED
      BY <3>1, <3>2
  <2> QED
    BY <2>6, <2>7 DEF Turns, OfPlans
<1>3. ASSUME NEW j \in Jobs, Undo(t, j) PROVE Turns'
  <2>1. /\ UNCHANGED plans /\ Turned(t) /\ plans[j].held /\ plans[j].logged /\ InTurn(j)
        /\ tasks'[t].kind = "undo" /\ tasks'[t].at = "begin" /\ tasks'[t].job = j
    BY <1>3, UndoDoes DEF Starts
  <2>3. (\A u \in Tasks : ~Runs(u)) /\ \A k \in Jobs : k # j => ~Waits(k)
    BY <1>1, <2>1
  <2>4. \A u \in Tasks : u # t => ~Runs(u)'
    BY <2>1, <2>3 DEF Turned, Runs
  <2>5. \A k \in Jobs : ~Waits(k)'
    BY <2>1, <2>3 DEF Waits
  <2>6. Alone'
    BY <2>1, <2>4, <2>5 DEF Alone
  <2>7. ASSUME NEW u \in Tasks PROVE OfPlan(tasks[u])'
    <3>1. CASE u = t
      BY <2>1, <3>1 DEF OfPlan
    <3>2. CASE u # t
      BY <2>4, <3>2 DEF OfPlan, Runs
    <3> QED
      BY <3>1, <3>2
  <2> QED
    BY <2>6, <2>7 DEF Turns, OfPlans
<1>4. ASSUME NEW s \in Second, NEW p \in Paths, PutBack(t, s, p) PROVE Turns'
  <2>1. UNCHANGED plans /\ Turned(t) /\ InTurn(0) /\ tasks'[t].kind = "put back"
    BY <1>4, PutBackDoes DEF Starts
  <2>2. 0 \notin Jobs
    OBVIOUS
  <2>3. (\A u \in Tasks : ~Runs(u)) /\ \A k \in Jobs : ~Waits(k)
    BY <1>1, <2>1, <2>2
  <2>4. \A u \in Tasks : u # t => ~Runs(u)'
    BY <2>1, <2>3 DEF Turned, Runs
  <2>5. \A k \in Jobs : ~Waits(k)'
    BY <2>1, <2>3 DEF Waits
  <2>6. Alone'
    BY <2>1, <2>4, <2>5 DEF Alone
  <2>7. ASSUME NEW u \in Tasks PROVE OfPlan(tasks[u])'
    <3>1. CASE u = t
      BY <2>1, <3>1 DEF OfPlan
    <3>2. CASE u # t
      BY <2>4, <3>2 DEF OfPlan, Runs
    <3> QED
      BY <3>1, <3>2
  <2> QED
    BY <2>6, <2>7 DEF Turns, OfPlans
<1> QED
  BY <1>2, <1>3, <1>4 DEF Call

LEMMA TurnsStep ==
  ASSUME OneAtATime, OnceOnly, Typed, Turns, [Next]_vars
  PROVE  Turns'
<1>1. CASE UNCHANGED <<plans, tasks>>
  BY <1>1 DEF Turns, Alone, OfPlans, OfPlan, Waits, Runs, Carrying
<1>2. ASSUME NEW j \in Jobs, NEW asked \in SUBSET Paths, NEW binned \in SUBSET Binned,
             Prepare(j, asked, binned)
      PROVE  Turns'
  <2>1. UNCHANGED tasks /\ InTurn(j) /\ \A k \in Jobs : k # j => plans'[k] = plans[k]
    BY <1>2, PlansAre
  <2>2. (\A u \in Tasks : ~Runs(u)) /\ \A k \in Jobs : k # j => ~Waits(k)
    BY <2>1 DEF InTurn, OneAtATime, Idle, Waits
  <2>3. (\A u \in Tasks : ~Runs(u)') /\ \A k \in Jobs : k # j => ~Waits(k)'
    BY <2>1, <2>2 DEF Runs, Waits
  <2> QED
    BY <2>3 DEF Turns, Alone, OfPlans, OfPlan, Runs
<1>3. ASSUME NEW j \in Jobs, Discard(j) PROVE Turns'
  <2>1. /\ UNCHANGED tasks /\ (\A k \in Jobs : k # j => plans'[k] = plans[k]) /\ ~plans'[j].held
        /\ \A u \in Tasks : ~Runs(u)
    BY <1>3, PlansAre DEF OneAtATime, Idle
  <2>2. (\A u \in Tasks : ~Runs(u)') /\ \A k \in Jobs : Waits(k)' => Waits(k)
    BY <2>1 DEF Runs, Waits
  <2> QED
    BY <2>2 DEF Turns, Alone, OfPlans, OfPlan, Runs
<1>4. CASE Crash
  <2>1. plans' = [j \in Jobs |-> Unprepared] /\ \A t \in Tasks : ~Runs(t)'
    BY <1>4, CrashDoes
  <2>2. \A k \in Jobs : ~Waits(k)'
    BY <2>1 DEF Waits, Unprepared
  <2> QED
    BY <2>1, <2>2 DEF Turns, Alone, OfPlans, OfPlan, Runs
<1>5. ASSUME NEW max \in {0, MaxFiles}, Expire(max) PROVE Turns'
  BY <1>1, <1>5 DEF Expire
<1>6. ASSUME NEW p \in Paths, PersonWrites(p) \/ PersonTrashes(p) PROVE Turns'
  BY <1>1, <1>6 DEF PersonWrites, PersonTrashes
<1>7. CASE PersonEmptiesTrash \/ SecondPasses \/ UNCHANGED vars
  BY <1>1, <1>7 DEF PersonEmptiesTrash, SecondPasses, vars
<1> QED
  BY <1>2, <1>3, <1>4, <1>5, <1>6, <1>7, StepTakesTurns, CallTakesTurns, Zenon DEF Next

LEMMA TurnsInit == Init => Turns
<1> SUFFICES ASSUME Init PROVE Turns
  OBVIOUS
<1>1. plans = [j \in Jobs |-> Unprepared] /\ tasks = [t \in Tasks |-> Unused]
  BY DEF Init
<1>2. (\A t \in Tasks : ~Runs(t)) /\ \A j \in Jobs : ~Waits(j)
  BY <1>1 DEF Runs, Waits, Unused, Unprepared
<1> QED
  BY <1>2 DEF Turns, Alone, OfPlans, OfPlan, Runs

-----------------------------------------------------------------------------
(* Where a file is put, there is none.                                      *)

Unwatched == "meanwhile" \notin Circumstances

(* What was planned as new to the disk is still not there, as far as the    *)
(* restore has not come to it.                                              *)
Before(p) == \A t \in Tasks : Carrying(t) => p \in Ahead(tasks[t])
AsPlanned ==
  \A j \in Jobs, p \in Paths :
    /\ Waits(j) /\ Before(p)
    /\ plans[j].entries[p].class # "not asked" /\ ~plans[j].entries[p].there
    => disk[Own(p)] = Nothing

PathOf(task) == IF task.kind = "undo" THEN Undone(task).path ELSE task.path
MidMove ==
  \A t \in Tasks : Runs(t) /\ tasks[t].at = "displaced" => disk[Own(PathOf(tasks[t]))] = Nothing

Empty == AsPlanned /\ MidMove

LEMMA PlannedStays ==
  ASSUME AsPlanned,
         \A j \in Jobs : Waits(j)' => /\ Waits(j) /\ plans'[j].entries = plans[j].entries
                                      /\ \A p \in Paths : Before(p)' => Before(p) /\ disk'[Own(p)] = disk[Own(p)]
  PROVE  AsPlanned'
BY DEF AsPlanned

LEMMA OneRuns ==
  ASSUME Turns, NEW t \in Tasks, Runs(t), Turned(t)
  PROVE  \A u \in Tasks : u # t => ~Runs(u) /\ ~Runs(u)' /\ ~Carrying(u) /\ ~Carrying(u)'
BY DEF Turns, Alone, Turned, Runs, Carrying

LEMMA MidMoveOfOne ==
  ASSUME Turns, NEW t \in Tasks, Runs(t), Turned(t),
         Runs(t)' /\ tasks'[t].at = "displaced" => disk'[Own(PathOf(tasks[t]'))] = Nothing
  PROVE  MidMove'
BY OneRuns DEF MidMove

(* While a restore is undone or put back, none waits to be carried out. *)
LEMMA NoneWaits ==
  ASSUME Turns, NEW t \in Tasks, Runs(t), ~Carrying(t)
  PROVE  \A j \in Jobs : ~Waits(j)
BY DEF Turns, Alone

LEMMA BeginsIsEmpty ==
  ASSUME Typed, Turns, Empty, NEW t \in Tasks, Begins(t)
  PROVE  Empty'
<1>1. PICK j \in Jobs : j = tasks[t].job
  BY BeginsDoes
<1>2. /\ UNCHANGED files /\ Turned(t) /\ Carrying(t) /\ tasks[t].at = "begin" /\ Runs(t)
      /\ \/ tasks'[t].kind = "execute" /\ tasks'[t].at = "next"
         \/ tasks'[t].kind = "over"
  BY BeginsDoes DEF Runs, Carrying
<1>3. SamePlans
  BY BeginsKeeps
<1>4. \A u \in Tasks : u # t => ~Carrying(u)
  BY <1>2, OneRuns
<1>5. \A p \in Paths : Before(p)
  BY <1>2, <1>4 DEF Before, Ahead
<1>6. disk' = disk
  BY <1>2, FilesStay
<1>7. AsPlanned'
  BY <1>3, <1>5, <1>6, PlannedStays DEF Empty, SamePlans, Waits
<1>8. MidMove'
  BY <1>2, MidMoveOfOne DEF Runs
<1> QED
  BY <1>7, <1>8 DEF Empty

(* A restore that goes on leaves what is ahead of it as it is. *)
LEMMA CarryingIsEmpty ==
  ASSUME Typed, Turns, Empty, NEW t \in Tasks, Carrying(t), Turned(t), UNCHANGED plans,
         tasks'[t].kind = "execute", NEW p \in Paths, p = tasks[t].path, tasks[t].at # "begin",
         Ahead(tasks'[t]) \subseteq {q \in Paths : q > p},
         \A q \in Paths : q # p => disk'[Own(q)] = disk[Own(q)],
         tasks'[t].at = "displaced" => tasks'[t].path = p /\ disk'[Own(p)] = Nothing
  PROVE  Empty'
<1>1. Runs(t) /\ Runs(t)'
  BY DEF Runs, Carrying
<1>2. \A u \in Tasks : u # t => ~Carrying(u)
  BY <1>1, OneRuns
<1>3. Ahead(tasks'[t]) \subseteq Ahead(tasks[t]) /\ p \notin Ahead(tasks'[t])
  <2>1. p \in Nat
    BY PathsEnd
  <2>2. ~(p > p)
    BY <2>1
  <2> QED
    BY <2>2 DEF Ahead
<1>4. ASSUME NEW q \in Paths, Before(q)' PROVE Before(q) /\ disk'[Own(q)] = disk[Own(q)]
  <2>1. q \in Ahead(tasks'[t])
    BY <1>4 DEF Before, Carrying
  <2> QED
    BY <1>2, <1>3, <2>1 DEF Before
<1>5. AsPlanned'
  BY <1>4, PlannedStays DEF Empty, Waits
<1>6. PathOf(tasks[t]') = tasks'[t].path
  BY DEF PathOf
<1>7. MidMove'
  BY <1>1, <1>6, MidMoveOfOne
<1> QED
  BY <1>5, <1>7 DEF Empty

LEMMA DisplacesIsEmpty ==
  ASSUME Typed, Turns, Empty, NEW t \in Tasks, Displaces(t)
  PROVE  Empty'
<1>0. PICK p \in Paths : p = tasks[t].path
  BY DisplacesDoes
<1>1. PICK here, kept, free : here = disk[Own(p)] /\ kept = <<tasks[t].second, p>> /\ free = FreeName(p)
  BY <1>0
<1>2. /\ UNCHANGED plans /\ Turned(t) /\ Carrying(t) /\ tasks[t].at = "next" /\ tasks'[t].kind = "execute"
      /\ Ahead(tasks'[t]) \subseteq {q \in Paths : q > p}
      /\ \/ /\ tasks'[t].at = "displaced" /\ tasks'[t].path = p
            /\ disk' = [disk EXCEPT ![Own(p)] = Nothing]
         \/ /\ tasks'[t].at = "displaced" /\ tasks'[t].path = p
            /\ disk' = [disk EXCEPT ![Own(p)] = Nothing, ![<<p, free>>] = here]
         \/ tasks'[t].at = "next" /\ UNCHANGED disk
  BY <1>0, <1>1, DisplacesDoes
<1>3. Nothing \in Int /\ disk \in [Names -> Int]
  BY RestIs
<1>4. /\ \A q \in Paths : q # p => disk'[Own(q)] = disk[Own(q)]
      /\ tasks'[t].at = "displaced" => tasks'[t].path = p /\ disk'[Own(p)] = Nothing
  <2>1. CASE tasks'[t].at = "displaced" /\ tasks'[t].path = p /\ disk' = [disk EXCEPT ![Own(p)] = Nothing]
    BY ZenonT(60), <1>3, <2>1, OwnIsApart
  <2>2. CASE /\ tasks'[t].at = "displaced" /\ tasks'[t].path = p
             /\ disk' = [disk EXCEPT ![Own(p)] = Nothing, ![<<p, free>>] = here]
    <3>1. free \in Aside
      BY <1>1, FreeNameIs DEF Typed
    <3>2. <<p, free>> \in Names /\ Own(p) \in Names /\ free # 0
      BY <3>1, Places
    <3>3. \A q \in Paths : Own(q) # <<p, free>>
      BY <3>2 DEF Own
    <3>4. \A q \in Paths : q # p => Own(q) # Own(p)
      BY DEF Own
    <3>5. \A q \in Paths : Own(q) \in Names
      BY Places
    <3> QED
      BY <1>3, <2>2, <3>2, <3>3, <3>4, <3>5
  <2>3. CASE tasks'[t].at = "next" /\ UNCHANGED disk
    BY <2>3
  <2> QED
    BY <1>2, <2>1, <2>2, <2>3
<1> QED
  BY <1>0, <1>2, <1>4, CarryingIsEmpty

LEMMA ArrivesIsEmpty ==
  ASSUME Typed, Turns, Empty, NEW t \in Tasks, Arrives(t)
  PROVE  Empty'
<1>0. PICK p \in Paths : p = tasks[t].path
  BY ArrivesDoes
<1>1. PICK source : source = Source(tasks[t])
  OBVIOUS
<1>2. /\ UNCHANGED plans /\ Turned(t) /\ Carrying(t) /\ tasks[t].at # "begin" /\ tasks'[t].kind = "execute"
      /\ Ahead(tasks'[t]) \subseteq {q \in Paths : q > p} /\ tasks'[t].at = "next"
      /\ \/ disk' = [disk EXCEPT ![Own(p)] = source]
         \/ UNCHANGED disk
  BY <1>0, <1>1, ArrivesDoes
<1>3. disk \in [Names -> Int]
  BY RestIs
<1>4. \A q \in Paths : q # p => disk'[Own(q)] = disk[Own(q)]
  BY <1>2, <1>3, Places DEF Own
<1> QED
  BY <1>0, <1>2, <1>4, CarryingIsEmpty

LEMMA EndsIsEmpty ==
  ASSUME Typed, Turns, Empty, NEW t \in Tasks, Ends(t)
  PROVE  Empty'
<1>1. PICK j \in Jobs : j = tasks[t].job
  BY EndsDoes
<1>2. /\ Turned(t) /\ Carrying(t) /\ tasks'[t].kind = "over" /\ Runs(t) /\ ~Runs(t)'
      /\ \A k \in Jobs : k # j => plans'[k] = plans[k]
      /\ \/ ~plans[j].held
         \/ plans'[j].logged
  BY <1>1, EndsDoes DEF Runs, Carrying
<1>3. plans[j].held
  BY <1>1, <1>2 DEF Turns, OfPlans, OfPlan, Carrying
<1>4. \A k \in Jobs : ~Waits(k)'
  BY <1>1, <1>2, <1>3 DEF Turns, Alone, Waits
<1> QED
  BY <1>2, <1>4, PlannedStays, MidMoveOfOne DEF Empty

(* An undoing or a putting back that goes on. *)
LEMMA PuttingIsEmpty ==
  ASSUME Typed, Turns, Empty, NEW t \in Tasks, Runs(t), ~Carrying(t), Turned(t), UNCHANGED plans,
         Runs(t)' /\ tasks'[t].at = "displaced" => disk'[Own(PathOf(tasks[t]'))] = Nothing
  PROVE  Empty'
<1>1. \A j \in Jobs : ~Waits(j)'
  BY NoneWaits DEF Waits
<1> QED
  BY <1>1, PlannedStays, MidMoveOfOne DEF Empty

LEMMA UndoneStays ==
  ASSUME NEW t, Undoing(t), tasks'[t].kind = "undo", tasks'[t].log = tasks[t].log, tasks'[t].path = tasks[t].path
  PROVE  Undone(tasks[t]') = Undone(tasks[t]) /\ PathOf(tasks[t]') = Undone(tasks[t]).path
BY DEF Undone, PathOf

LEMMA UndoIsEmpty ==
  ASSUME Typed, Turns, Empty, NEW t \in Tasks,
         \/ UndoBegins(t) \/ UndoRemoves(t) \/ UndoReturns(t) \/ UndoReenters(t) \/ UndoTrashes(t)
         \/ UndoEnds(t)
  PROVE  Empty'
<1>1. CASE UndoBegins(t) \/ UndoReturns(t) \/ UndoReenters(t) \/ UndoEnds(t)
  <2>1. /\ UNCHANGED plans /\ Turned(t) /\ Undoing(t)
        /\ tasks'[t].at = "next" \/ tasks'[t].kind = "over"
    <3>1. CASE UndoBegins(t)
      BY <3>1, UndoBeginsDoes
    <3>2. CASE UndoReturns(t)
      BY <3>2, UndoReturnsDoes
    <3>3. CASE UndoReenters(t)
      BY <3>3, UndoReentersDoes
    <3>4. CASE UndoEnds(t)
      BY <3>4, UndoEndsDoes
    <3> QED
      BY <1>1, <3>1, <3>2, <3>3, <3>4
  <2> QED
    BY <2>1, PuttingIsEmpty DEF Undoing, Carrying, Runs
<1>2. CASE UndoRemoves(t) \/ UndoTrashes(t)
  <2>1. PICK p : p = Undone(tasks[t]).path
    OBVIOUS
  <2>2. /\ UNCHANGED plans /\ Turned(t) /\ Undoing(t) /\ Undone(tasks[t]) \in MoveRecord
        /\ tasks'[t].kind = "undo" /\ tasks'[t].log = tasks[t].log
        /\ \/ tasks'[t].at = "next"
           \/ /\ tasks'[t].at = "displaced" /\ tasks'[t].path = tasks[t].path
              /\ disk' = [disk EXCEPT ![Own(p)] = Nothing]
    <3>1. CASE UndoRemoves(t)
      BY <2>1, <3>1, UndoRemovesDoes
    <3>2. CASE UndoTrashes(t)
      BY <2>1, <3>2, UndoTrashesDoes
    <3> QED
      BY <1>2, <3>1, <3>2
  <2>3. Undone(tasks[t]).path \in Paths
    BY <2>2, MoveFields
  <2>4. p \in Paths /\ Nothing \in Int
    BY <2>1, <2>3
  <2>5. CASE tasks'[t].at = "next"
    BY <2>2, <2>5, PuttingIsEmpty DEF Undoing, Carrying, Runs
  <2>6. CASE /\ tasks'[t].at = "displaced" /\ tasks'[t].path = tasks[t].path
             /\ disk' = [disk EXCEPT ![Own(p)] = Nothing]
    <3>1. disk'[Own(p)] = Nothing
      BY <2>4, <2>6, OwnIsApart
    <3>2. PathOf(tasks[t]') = p
      BY <2>1, <2>2, <2>6, UndoneStays
    <3> QED
      BY <2>2, <3>1, <3>2, PuttingIsEmpty DEF Undoing, Carrying, Runs
  <2> QED
    BY <2>2, <2>5, <2>6
<1> QED
  BY <1>1, <1>2

LEMMA PutBackIsEmpty ==
  ASSUME Typed, Turns, Empty, NEW t \in Tasks, PutBackDisplaces(t) \/ PutBackArrives(t)
  PROVE  Empty'
<1>1. CASE PutBackDisplaces(t)
  <2>1. PICK p \in Paths : p = tasks[t].path
    BY <1>1, PutBackDisplacesDoes
  <2>2. /\ UNCHANGED plans /\ Turned(t) /\ tasks[t].kind = "put back"
        /\ \/ /\ tasks'[t].kind = "put back" /\ tasks'[t].path = p
              /\ \/ disk[Own(p)] = Nothing /\ UNCHANGED disk
                 \/ disk' = [disk EXCEPT ![Own(p)] = Nothing]
           \/ tasks'[t].kind = "over"
    BY <1>1, <2>1, PutBackDisplacesDoes
  <2>3. Nothing \in Int
    OBVIOUS
  <2>4. tasks'[t].kind = "put back" => PathOf(tasks[t]') = p /\ disk'[Own(p)] = Nothing
    BY <2>2, <2>3, OwnIsApart DEF PathOf
  <2> QED
    BY <2>2, <2>4, PuttingIsEmpty DEF Runs, Carrying
<1>2. CASE PutBackArrives(t)
  <2>1. /\ UNCHANGED plans /\ Turned(t) /\ tasks[t].kind = "put back" /\ tasks'[t].kind = "over"
    BY <1>2, PutBackArrivesDoes
  <2> QED
    BY <2>1, PuttingIsEmpty DEF Runs, Carrying
<1> QED
  BY <1>1, <1>2

LEMMA StartIsEmpty ==
  ASSUME OneAtATime, OnceOnly, Typed, Turns, Empty, NEW t \in Tasks, Call(t)
  PROVE  Empty'
<1>1. ASSUME Turned(t), UNCHANGED plans, UNCHANGED files, Idle,
             tasks'[t].kind = "execute" => tasks'[t].at = "begin", tasks'[t].at # "displaced"
      PROVE  Empty'
  <2>1. \A u \in Tasks : ~Runs(u) /\ ~Carrying(u)
    BY <1>1 DEF Idle, Runs, Carrying
  <2>2. \A u \in Tasks : u # t => ~Runs(u)'
    BY <1>1, <2>1 DEF Turned, Runs
  <2>3. \A p \in Paths : Before(p)
    BY <2>1 DEF Before
  <2>4. disk' = disk
    BY <1>1, FilesStay
  <2>5. AsPlanned'
    BY <1>1, <2>3, <2>4, PlannedStays DEF Empty, Waits
  <2>6. MidMove'
    BY <1>1, <2>2 DEF MidMove
  <2> QED
    BY <2>5, <2>6 DEF Empty
<1>2. \A j : Starts(t, j) => Idle
  BY DEF Starts, InTurn, OneAtATime
<1>3. ASSUME NEW j \in Jobs, NEW answer \in Answers, Execute(t, j, answer) PROVE Empty'
  BY <1>1, <1>2, <1>3, ExecuteDoes
<1>4. ASSUME NEW j \in Jobs, Undo(t, j) PROVE Empty'
  BY <1>1, <1>2, <1>4, UndoDoes
<1>5. ASSUME NEW s \in Second, NEW p \in Paths, PutBack(t, s, p) PROVE Empty'
  BY <1>1, <1>2, <1>5, PutBackDoes
<1> QED
  BY <1>3, <1>4, <1>5 DEF Call

LEMMA OthersAreEmpty ==
  ASSUME OneAtATime, Unwatched, Typed, Turns, Empty,
         \/ \E j \in Jobs, asked \in SUBSET Paths, binned \in SUBSET Binned : Prepare(j, asked, binned)
         \/ \E j \in Jobs : Discard(j)
         \/ \E max \in {0, MaxFiles} : Expire(max)
         \/ \E p \in Paths : PersonWrites(p) \/ PersonTrashes(p)
         \/ PersonEmptiesTrash \/ SecondPasses \/ Crash \/ UNCHANGED vars
  PROVE  Empty'
<1>1. ASSUME UNCHANGED <<disk, plans, tasks>> PROVE Empty'
  BY <1>1 DEF Empty, AsPlanned, MidMove, Waits, Before, Carrying, Runs, PathOf, Undone
<1>2. ASSUME \A t \in Tasks : ~Runs(t)', \A j \in Jobs : ~Waits(j)' PROVE Empty'
  BY <1>2 DEF Empty, AsPlanned, MidMove
<1>3. ASSUME NEW j \in Jobs, NEW asked \in SUBSET Paths, NEW binned \in SUBSET Binned,
             Prepare(j, asked, binned)
      PROVE  Empty'
  <2>1. /\ UNCHANGED <<files, tasks>> /\ InTurn(j) /\ \A k \in Jobs : k # j => plans'[k] = plans[k]
        /\ \A p \in Paths : plans'[j].entries[p].class # "not asked" /\ ~plans'[j].entries[p].there
                              => disk[Own(p)] = Nothing
    BY <1>3, PlansAre
  <2>2. disk' = disk
    BY <2>1, FilesStay
  <2>3. Idle /\ \A k \in Jobs : k # j => ~Waits(k)'
    BY <2>1 DEF InTurn, OneAtATime, Waits
  <2>4. AsPlanned'
    BY <2>1, <2>2, <2>3 DEF AsPlanned
  <2>5. MidMove'
    BY <2>1, <2>3 DEF MidMove, Idle, Runs
  <2> QED
    BY <2>4, <2>5 DEF Empty
<1>4. ASSUME NEW j \in Jobs, Discard(j) PROVE Empty'
  <2>1. /\ UNCHANGED <<files, tasks>> /\ (\A k \in Jobs : k # j => plans'[k] = plans[k])
        /\ ~plans'[j].held
    BY <1>4, PlansAre
  <2>2. disk' = disk
    BY <2>1, FilesStay
  <2>3. AsPlanned'
    BY <2>1, <2>2, PlannedStays DEF Empty, Waits, Before, Carrying
  <2>4. MidMove'
    BY <2>1, <2>2 DEF Empty, MidMove, Runs, PathOf, Undone
  <2> QED
    BY <2>3, <2>4 DEF Empty
<1>5. ASSUME NEW max \in {0, MaxFiles}, Expire(max) PROVE Empty'
  BY <1>1, <1>5 DEF Expire
<1>6. ASSUME NEW p \in Paths, PersonWrites(p) \/ PersonTrashes(p) PROVE Empty'
  <2>1. UNCHANGED <<plans, tasks>> /\ Idle /\ \A j \in Jobs : ~plans[j].held
    BY <1>6 DEF PersonWrites, PersonTrashes, Quiet, Unwatched
  <2> QED
    BY <1>2, <2>1 DEF Idle, Runs, Waits
<1>7. CASE Crash
  <2>1. plans' = [j \in Jobs |-> Unprepared] /\ \A t \in Tasks : ~Runs(t)'
    BY <1>7, CrashDoes
  <2> QED
    BY <1>2, <2>1 DEF Waits, Unprepared
<1>8. CASE PersonEmptiesTrash \/ SecondPasses \/ UNCHANGED vars
  <2>1. UNCHANGED <<disk, plans, tasks>>
    BY <1>8 DEF PersonEmptiesTrash, SecondPasses, vars, files
  <2> QED
    BY <1>1, <2>1
<1> QED
  BY <1>3, <1>4, <1>5, <1>6, <1>7, <1>8

LEMMA EmptyStep ==
  ASSUME OneAtATime, OnceOnly, Unwatched, Typed, Turns, Empty, [Next]_vars
  PROVE  Empty'
<1>1. ASSUME NEW t \in Tasks, Step(t) PROVE Empty'
  BY <1>1, BeginsIsEmpty, DisplacesIsEmpty, ArrivesIsEmpty, EndsIsEmpty, UndoIsEmpty, PutBackIsEmpty,
     Zenon DEF Step
<1>2. ASSUME NEW t \in Tasks, Call(t) PROVE Empty'
  BY <1>2, StartIsEmpty
<1> QED
  BY <1>1, <1>2, OthersAreEmpty, Zenon DEF Next

LEMMA EmptyInit == Init => Empty
<1> SUFFICES ASSUME Init PROVE Empty
  OBVIOUS
<1>1. plans = [j \in Jobs |-> Unprepared] /\ tasks = [t \in Tasks |-> Unused]
  BY DEF Init
<1>2. (\A t \in Tasks : ~Runs(t)) /\ \A j \in Jobs : ~Waits(j)
  BY <1>1 DEF Runs, Waits, Unused, Unprepared
<1> QED
  BY <1>2 DEF Empty, AsPlanned, MidMove

-----------------------------------------------------------------------------
(* What is put in the stash is put where there is none: a second's batch is *)
(* of one task (Stash::new).                                                *)

NewSeconds == "same second" \notin Circumstances

\* The paths that a task can still put something in the stash from.
ToStash(task) ==
  {p \in Paths : \/ task.kind = "execute" /\ p \in Ahead(task)
                 \/ task.kind = "put back" /\ task.at = "next" /\ p = task.path}
SlotsAreFree ==
  /\ \A t \in Tasks : tasks[t].kind \in {"execute", "put back"} => tasks[t].second <= now
  /\ \A t \in Tasks : \A p \in ToStash(tasks[t]) : stash[<<tasks[t].second, p>>] = Nothing
  /\ \A s \in Second, p \in Paths : stash[<<s, p>>] # Nothing => s <= now

LEMMA SecondsAre == now \in Second => now \in Nat /\ \A s \in Second : s \in Nat
BY DEF Second

LEMMA NotAfterItself == \A n \in Nat : n <= n
OBVIOUS

(* A step that puts at most one thing in the stash. *)
LEMMA SlotsGoOn ==
  ASSUME Typed, Turns, SlotsAreFree, NEW t \in Tasks, Runs(t), Turned(t), now' = now,
         NEW s \in Second, NEW p \in Paths,
         \A r \in Second, q \in Paths :
           stash'[<<r, q>>] # Nothing => stash[<<r, q>>] # Nothing \/ (r = s /\ q = p),
         stash'[<<s, p>>] # Nothing => s <= now /\ (stash[<<s, p>>] # Nothing \/ p \notin ToStash(tasks'[t])),
         tasks'[t].kind \in {"execute", "put back"} =>
           tasks'[t].kind = tasks[t].kind /\ tasks'[t].second = tasks[t].second,
         ToStash(tasks'[t]) \subseteq ToStash(tasks[t])
  PROVE  SlotsAreFree'
<1>1. \A u \in Tasks : u # t => tasks'[u] = tasks[u] /\ ~Runs(u)
  BY OneRuns DEF Turned
<1>2. \A u \in Tasks : tasks'[u].kind \in {"execute", "put back"} => tasks'[u].second <= now'
  BY <1>1 DEF SlotsAreFree
<1>3. ASSUME NEW u \in Tasks, NEW q \in ToStash(tasks'[u]) PROVE stash'[<<tasks'[u].second, q>>] = Nothing
  <2>1. u = t
    BY <1>1, <1>3 DEF ToStash, Runs
  <2>2. tasks'[t].kind \in {"execute", "put back"} /\ q \in Paths /\ q \in ToStash(tasks[t])
    BY <1>3, <2>1 DEF ToStash
  <2>3. tasks'[t].second = tasks[t].second /\ stash[<<tasks[t].second, q>>] = Nothing
    BY <2>2 DEF SlotsAreFree
  <2>4. tasks[t].second \in Second
    <3>1. tasks[t] \in TaskForm
      BY TaskIs
    <3> QED
      BY <3>1, TaskFields
  <2>5. CASE stash'[<<tasks[t].second, q>>] # Nothing
    <3>1. tasks[t].second = s /\ q = p
      BY <2>2, <2>3, <2>4, <2>5
    <3>2. stash[<<s, p>>] = Nothing /\ stash'[<<s, p>>] # Nothing /\ p \in ToStash(tasks'[t])
      BY <1>3, <2>1, <2>3, <2>5, <3>1
    <3> QED
      BY <3>2
  <2> QED
    BY <2>1, <2>3, <2>5
<1>4. \A r \in Second, q \in Paths : stash'[<<r, q>>] # Nothing => r <= now'
  BY DEF SlotsAreFree
<1> QED
  BY <1>2, <1>3, <1>4 DEF SlotsAreFree

(* A step that puts nothing in the stash. *)
LEMMA SlotsStay ==
  ASSUME Typed, Turns, SlotsAreFree, NEW t \in Tasks, Runs(t), Turned(t), now' = now,
         \A r \in Second, q \in Paths : stash'[<<r, q>>] # Nothing => stash[<<r, q>>] # Nothing,
         tasks'[t].kind \in {"execute", "put back"} =>
           tasks'[t].kind = tasks[t].kind /\ tasks'[t].second = tasks[t].second,
         ToStash(tasks'[t]) \subseteq ToStash(tasks[t])
  PROVE  SlotsAreFree'
<1>1. \A u \in Tasks : u # t => tasks'[u] = tasks[u] /\ ~Runs(u)
  BY OneRuns DEF Turned
<1>2. \A u \in Tasks : tasks'[u].kind \in {"execute", "put back"} => tasks'[u].second <= now'
  BY <1>1 DEF SlotsAreFree
<1>3. ASSUME NEW u \in Tasks, NEW q \in ToStash(tasks'[u]) PROVE stash'[<<tasks'[u].second, q>>] = Nothing
  <2>1. u = t
    BY <1>1, <1>3 DEF ToStash, Runs
  <2>2. tasks'[t].kind \in {"execute", "put back"} /\ q \in Paths /\ q \in ToStash(tasks[t])
    BY <1>3, <2>1 DEF ToStash
  <2>3. tasks'[t].second = tasks[t].second /\ stash[<<tasks[t].second, q>>] = Nothing
    BY <2>2 DEF SlotsAreFree
  <2>4. tasks[t].second \in Second
    <3>1. tasks[t] \in TaskForm
      BY TaskIs
    <3> QED
      BY <3>1, TaskFields
  <2> QED
    BY <2>1, <2>2, <2>3, <2>4
<1>4. \A r \in Second, q \in Paths : stash'[<<r, q>>] # Nothing => r <= now'
  BY DEF SlotsAreFree
<1> QED
  BY <1>2, <1>3, <1>4 DEF SlotsAreFree

LEMMA NothingToStash ==
  ASSUME NEW task, task.kind # "execute", task.kind = "put back" => task.at # "next"
  PROVE  ToStash(task) = {}
BY DEF ToStash

LEMMA StepHasFreeSlots ==
  ASSUME Typed, Turns, SlotsAreFree, NEW t \in Tasks, Step(t)
  PROVE  SlotsAreFree'
<1>0. tasks[t].second \in Second /\ \A x, y : <<x, y>> = <<x, y>>
  <2>1. tasks[t] \in TaskForm
    BY TaskIs
  <2> QED
    BY <2>1, TaskFields
<1>1. CASE Begins(t)
  <2>1. /\ UNCHANGED files /\ now' = now /\ Turned(t) /\ Carrying(t) /\ tasks[t].at = "begin"
        /\ \/ tasks'[t].kind = "execute" /\ tasks'[t].second = tasks[t].second
           \/ tasks'[t].kind = "over"
    BY <1>1, BeginsDoes
  <2>2. ToStash(tasks'[t]) \subseteq ToStash(tasks[t])
    BY <2>1 DEF ToStash, Carrying, Ahead
  <2> QED
    BY <2>1, <2>2, FilesStay, SlotsStay DEF Runs, Carrying
<1>2. CASE Displaces(t)
  <2>0. PICK p \in Paths : p = tasks[t].path
    BY <1>2, DisplacesDoes
  <2>h. PICK here : here = disk[Own(p)]
    OBVIOUS
  <2>1. PICK s \in Second : s = tasks[t].second
    BY <1>0
  <2>2. /\ now' = now /\ Turned(t) /\ Carrying(t) /\ tasks[t].at = "next" /\ tasks'[t].kind = "execute"
        /\ tasks'[t].second = tasks[t].second /\ Ahead(tasks'[t]) \subseteq {q \in Paths : q > p}
        /\ stash' = [stash EXCEPT ![<<s, p>>] = here] \/ UNCHANGED stash
    BY <1>2, <2>0, <2>h, <2>1, DisplacesDoes
  <2>3. ToStash(tasks'[t]) \subseteq ToStash(tasks[t]) /\ p \notin ToStash(tasks'[t])
    <3>1. p \in Nat
      BY PathsEnd
    <3>2. ~(p > p)
      BY <3>1
    <3> QED
      BY <2>0, <2>2, <3>2 DEF ToStash, Carrying, Ahead
  <2>4. s <= now
    BY <2>1, <2>2 DEF SlotsAreFree, Carrying
  <2>5. \A r \in Second, q \in Paths :
          stash'[<<r, q>>] # Nothing => stash[<<r, q>>] # Nothing \/ (r = s /\ q = p)
    BY <2>2, RestIs
  <2> QED
    BY <2>2, <2>3, <2>4, <2>5, SlotsGoOn DEF Runs, Carrying
<1>3. CASE Arrives(t)
  <2>0. PICK p \in Paths : p = tasks[t].path
    BY <1>3, ArrivesDoes
  <2>1. /\ stash' = stash /\ now' = now /\ Turned(t) /\ Carrying(t) /\ tasks'[t].kind = "execute"
        /\ tasks'[t].second = tasks[t].second /\ Ahead(tasks'[t]) \subseteq {q \in Paths : q > p}
    BY <1>3, <2>0, ArrivesDoes
  <2>2. ToStash(tasks'[t]) \subseteq ToStash(tasks[t])
    BY <2>0, <2>1 DEF ToStash, Carrying, Ahead
  <2> QED
    BY <2>1, <2>2, SlotsStay DEF Runs, Carrying
<1>4. CASE Ends(t)
  <2>1. stash' = stash /\ now' = now /\ Turned(t) /\ Carrying(t) /\ tasks'[t].kind = "over"
    BY <1>4, EndsDoes
  <2> QED
    BY <2>1, NothingToStash, SlotsStay DEF Runs, Carrying
<1>5. CASE UndoBegins(t) \/ UndoRemoves(t) \/ UndoReenters(t) \/ UndoTrashes(t) \/ UndoEnds(t)
  <2>1. stash' = stash /\ now' = now /\ Turned(t) /\ Undoing(t) /\ tasks'[t].kind \in {"undo", "over"}
    <3>1. CASE UndoRemoves(t)
      BY <3>1, UndoRemovesDoes
    <3>2. CASE UndoBegins(t)
      BY <3>2, UndoBeginsDoes, FilesStay
    <3>3. CASE UndoReenters(t)
      BY <3>3, UndoReentersDoes
    <3>4. CASE UndoTrashes(t)
      BY <3>4, UndoTrashesDoes
    <3>5. CASE UndoEnds(t)
      BY <3>5, UndoEndsDoes, FilesStay
    <3> QED
      BY <1>5, <3>1, <3>2, <3>3, <3>4, <3>5
  <2> QED
    BY <2>1, NothingToStash, SlotsStay DEF Runs, Undoing
<1>6. CASE UndoReturns(t)
  <2>0. PICK p, s : p = Undone(tasks[t]).path /\ s = Undone(tasks[t]).to
    OBVIOUS
  <2>1. /\ now' = now /\ Turned(t) /\ Undoing(t) /\ tasks'[t].kind = "undo"
        /\ Undone(tasks[t]) \in MoveRecord
        /\ \/ stash' = [stash EXCEPT ![<<s, p>>] = Nothing]
           \/ UNCHANGED stash
    BY <1>6, <2>0, UndoReturnsDoes
  <2>2. \A r \in Second, q \in Paths : stash'[<<r, q>>] # Nothing => stash[<<r, q>>] # Nothing
    BY <2>1, RestIs
  <2> QED
    BY <2>1, <2>2, NothingToStash, SlotsStay DEF Runs, Undoing
<1>7. CASE PutBackDisplaces(t)
  <2>0. PICK p \in Paths : p = tasks[t].path
    BY <1>7, PutBackDisplacesDoes
  <2>h. PICK here : here = disk[Own(p)]
    OBVIOUS
  <2>1. PICK s \in Second : s = tasks[t].second
    BY <1>0
  <2>2. /\ now' = now /\ Turned(t) /\ tasks[t].kind = "put back"
        /\ \/ /\ tasks'[t].kind = "put back" /\ tasks'[t].at = "displaced"
              /\ tasks'[t].second = tasks[t].second
           \/ tasks'[t].kind = "over"
        /\ stash' = [stash EXCEPT ![<<s, p>>] = here] \/ UNCHANGED stash
    BY <1>7, <2>0, <2>h, <2>1, PutBackDisplacesDoes
  <2>3. ToStash(tasks'[t]) = {}
    BY <2>2, NothingToStash
  <2>4. s <= now
    BY <2>1, <2>2 DEF SlotsAreFree
  <2>5. \A r \in Second, q \in Paths :
          stash'[<<r, q>>] # Nothing => stash[<<r, q>>] # Nothing \/ (r = s /\ q = p)
    BY <2>2, RestIs
  <2> QED
    BY <2>2, <2>3, <2>4, <2>5, SlotsGoOn DEF Runs
<1>8. CASE PutBackArrives(t)
  <2>0. PICK p, s : p = tasks[t].path /\ s = tasks[t].to
    OBVIOUS
  <2>1. /\ now' = now /\ Turned(t) /\ tasks[t].kind = "put back" /\ tasks'[t].kind = "over"
        /\ \/ stash' = [stash EXCEPT ![<<s, p>>] = Nothing]
           \/ UNCHANGED stash
    BY <1>8, <2>0, PutBackArrivesDoes
  <2>2. \A r \in Second, q \in Paths : stash'[<<r, q>>] # Nothing => stash[<<r, q>>] # Nothing
    BY <2>1, RestIs
  <2> QED
    BY <2>1, <2>2, NothingToStash, SlotsStay DEF Runs
<1> QED
  BY <1>1, <1>2, <1>3, <1>4, <1>5, <1>6, <1>7, <1>8 DEF Step

LEMMA StartHasFreeSlots ==
  ASSUME OneAtATime, NewSeconds, Typed, SlotsAreFree, NEW t \in Tasks, Call(t)
  PROVE  SlotsAreFree'
<1>0. now \in Second /\ now \in Nat
  BY RestIs, SecondsAre
<1>1. ASSUME Turned(t), UNCHANGED files, now' = now, Idle,
             tasks'[t].kind \in {"execute", "put back"} =>
               tasks'[t].second = now /\ \A p \in Paths : stash[<<now, p>>] = Nothing
      PROVE  SlotsAreFree'
  <2>1. stash' = stash
    BY <1>1, FilesStay
  <2>2. \A u \in Tasks : u # t => tasks'[u] = tasks[u] /\ tasks[u].kind \notin {"execute", "put back"}
    BY <1>1 DEF Turned, Idle, Runs
  <2>3. \A u \in Tasks : tasks'[u].kind \in {"execute", "put back"} => tasks'[u].second <= now'
    <3>1. now <= now'
      BY <1>0, <1>1, NotAfterItself, Zenon
    <3> QED
      BY <1>1, <2>2, <3>1
  <2>4. ASSUME NEW u \in Tasks, NEW p \in ToStash(tasks'[u]) PROVE stash'[<<tasks'[u].second, p>>] = Nothing
    <3>1. tasks'[u].kind \in {"execute", "put back"} /\ p \in Paths
      BY <2>4 DEF ToStash
    <3> QED
      BY <1>1, <2>1, <2>2, <3>1
  <2> QED
    BY <1>1, <2>1, <2>3, <2>4 DEF SlotsAreFree
<1>2. \A j : Starts(t, j) => Idle
  BY DEF Starts, InTurn, OneAtATime
<1>3. FreshSecond => \A p \in Paths : stash[<<now, p>>] = Nothing
  BY DEF FreshSecond, NewSeconds
<1>4. ASSUME NEW j \in Jobs, NEW answer \in Answers, Execute(t, j, answer) PROVE SlotsAreFree'
  BY <1>1, <1>2, <1>3, <1>4, ExecuteDoes
<1>5. ASSUME NEW j \in Jobs, Undo(t, j) PROVE SlotsAreFree'
  <2>1. Turned(t) /\ UNCHANGED files /\ now' = now /\ Starts(t, j) /\ tasks'[t].kind = "undo"
    BY <1>5, UndoDoes
  <2> QED
    BY <1>1, <1>2, <2>1
<1>6. ASSUME NEW s \in Second, NEW p \in Paths, PutBack(t, s, p) PROVE SlotsAreFree'
  BY <1>1, <1>2, <1>3, <1>6, PutBackDoes
<1> QED
  BY <1>4, <1>5, <1>6 DEF Call

LEMMA OthersHaveFreeSlots ==
  ASSUME Typed, SlotsAreFree,
         \/ \E j \in Jobs, asked \in SUBSET Paths, binned \in SUBSET Binned : Prepare(j, asked, binned)
         \/ \E j \in Jobs : Discard(j)
         \/ \E max \in {0, MaxFiles} : Expire(max)
         \/ \E p \in Paths : PersonWrites(p) \/ PersonTrashes(p)
         \/ PersonEmptiesTrash \/ SecondPasses \/ Crash \/ UNCHANGED vars
  PROVE  SlotsAreFree'
<1>0. now \in Nat /\ (\A s \in Second : s \in Nat) /\ \A t \in Tasks : tasks[t].second \in Nat
  <2>1. now \in Nat /\ \A s \in Second : s \in Nat
    BY RestIs, SecondsAre
  <2>2. ASSUME NEW t \in Tasks PROVE tasks[t].second \in Second
    <3>1. tasks[t] \in TaskForm
      BY TaskIs
    <3> QED
      BY <3>1, TaskFields
  <2> QED
    BY <2>1, <2>2
<1>1. ASSUME UNCHANGED <<tasks, now>>,
             \A s \in Second, p \in Paths : stash'[<<s, p>>] # Nothing => stash[<<s, p>>] # Nothing
      PROVE  SlotsAreFree'
  <2>1. ASSUME NEW t \in Tasks, NEW p \in ToStash(tasks[t]) PROVE stash'[<<tasks[t].second, p>>] = Nothing
    <3>1. tasks[t] \in TaskForm
      BY TaskIs
    <3>2. tasks[t].second \in Second
      BY <3>1, TaskFields
    <3>3. p \in Paths
      BY <2>1 DEF ToStash
    <3> QED
      BY <1>1, <2>1, <3>2, <3>3 DEF SlotsAreFree
  <2> QED
    BY <1>1, <2>1 DEF SlotsAreFree
<1>2. ASSUME NEW j \in Jobs, NEW asked \in SUBSET Paths, NEW binned \in SUBSET Binned,
             Prepare(j, asked, binned)
      PROVE  SlotsAreFree'
  BY <1>1, <1>2, PlansAre, FilesStay
<1>3. ASSUME NEW j \in Jobs, Discard(j) PROVE SlotsAreFree'
  BY <1>1, <1>3, PlansAre, FilesStay
<1>4. ASSUME NEW max \in {0, MaxFiles}, Expire(max) PROVE SlotsAreFree'
  BY <1>1, <1>4 DEF Expire
<1>5. ASSUME NEW p \in Paths, PersonWrites(p) \/ PersonTrashes(p) PROVE SlotsAreFree'
  BY <1>1, <1>5 DEF PersonWrites, PersonTrashes
<1>6. CASE PersonEmptiesTrash \/ UNCHANGED vars
  BY <1>1, <1>6 DEF PersonEmptiesTrash, vars, files
<1>7. CASE SecondPasses
  <2>1. now' = now + 1 /\ UNCHANGED <<files, tasks>>
    BY <1>7 DEF SecondPasses
  <2>2. stash' = stash
    BY <2>1, FilesStay
  <2>3. \A n \in Nat : n <= now => n <= now'
    BY <1>0, <2>1
  <2> QED
    BY <1>0, <2>1, <2>2, <2>3 DEF SlotsAreFree
<1>8. CASE Crash
  <2>1. UNCHANGED files /\ now' = now /\ \A t \in Tasks : ~Runs(t)'
    BY <1>8, CrashDoes
  <2>2. stash' = stash
    BY <2>1, FilesStay
  <2>3. \A t \in Tasks : tasks'[t].kind \notin {"execute", "put back"} /\ ToStash(tasks'[t]) = {}
    BY <2>1, NothingToStash DEF Runs
  <2> QED
    BY <2>1, <2>2, <2>3 DEF SlotsAreFree
<1> QED
  BY <1>2, <1>3, <1>4, <1>5, <1>6, <1>7, <1>8

LEMMA SlotsStep ==
  ASSUME OneAtATime, NewSeconds, Typed, Turns, SlotsAreFree, [Next]_vars
  PROVE  SlotsAreFree'
<1>1. ASSUME NEW t \in Tasks, Step(t) PROVE SlotsAreFree'
  BY <1>1, StepHasFreeSlots
<1>2. ASSUME NEW t \in Tasks, Call(t) PROVE SlotsAreFree'
  BY <1>2, StartHasFreeSlots
<1> QED
  BY <1>1, <1>2, OthersHaveFreeSlots, Zenon DEF Next

LEMMA SlotsInit == Init => SlotsAreFree
<1> SUFFICES ASSUME Init PROVE SlotsAreFree
  OBVIOUS
<1>1. tasks = [t \in Tasks |-> Unused] /\ stash = [s \in Second \X Paths |-> Nothing]
  BY DEF Init
<1>2. \A t \in Tasks : tasks[t].kind = "unused"
  BY <1>1 DEF Unused
<1>3. \A t \in Tasks : ToStash(tasks[t]) = {}
  BY <1>2, NothingToStash
<1> QED
  BY <1>1, <1>2, <1>3 DEF SlotsAreFree

-----------------------------------------------------------------------------
(* What a restore in progress has put in the stash.                         *)

LEMMA StepKeepsTime ==
  ASSUME Typed, NEW t \in Tasks, Step(t)
  PROVE  /\ Turned(t) /\ Runs(t) /\ now' = now
         /\ tasks'[t].kind = "execute" => Carrying(t) /\ tasks'[t].second = tasks[t].second
         /\ Carrying(t) => \A s \in Second, p \in Paths : stash[<<s, p>>] # Nothing => stash'[<<s, p>>] # Nothing
<1>1. CASE Begins(t)
  BY <1>1, BeginsDoes, FilesStay DEF Runs, Carrying
<1>2. CASE Displaces(t)
  <2>1. PICK p, here, s : p = tasks[t].path /\ here = disk[Own(p)] /\ s = tasks[t].second
    OBVIOUS
  <2>2. /\ Turned(t) /\ Runs(t) /\ now' = now
        /\ tasks'[t].kind = "execute" /\ Carrying(t) /\ tasks'[t].second = tasks[t].second
        /\ \/ here # Nothing /\ stash' = [stash EXCEPT ![<<s, p>>] = here]
           \/ UNCHANGED stash
    BY <1>2, <2>1, DisplacesDoes DEF Runs, Carrying
  <2>3. \A r \in Second, q \in Paths : stash[<<r, q>>] # Nothing => stash'[<<r, q>>] # Nothing
    BY <2>2, RestIs
  <2> QED
    BY <2>2, <2>3
<1>3. CASE Arrives(t)
  BY <1>3, ArrivesDoes DEF Runs, Carrying
<1>4. CASE Ends(t)
  BY <1>4, EndsDoes DEF Runs, Carrying
<1>5. CASE UndoBegins(t)
  BY <1>5, UndoBeginsDoes DEF Runs, Undoing, Carrying
<1>6. CASE UndoRemoves(t)
  BY <1>6, UndoRemovesDoes DEF Runs, Undoing, Carrying
<1>7. CASE UndoReturns(t)
  BY <1>7, UndoReturnsDoes DEF Runs, Undoing, Carrying
<1>8. CASE UndoReenters(t)
  BY <1>8, UndoReentersDoes DEF Runs, Undoing, Carrying
<1>9. CASE UndoTrashes(t)
  BY <1>9, UndoTrashesDoes DEF Runs, Undoing, Carrying
<1>10. CASE UndoEnds(t)
  BY <1>10, UndoEndsDoes DEF Runs, Undoing, Carrying
<1>11. CASE PutBackDisplaces(t)
  BY <1>11, PutBackDisplacesDoes DEF Runs, Carrying
<1>12. CASE PutBackArrives(t)
  BY <1>12, PutBackArrivesDoes DEF Runs, Carrying
<1> QED
  BY <1>1, <1>2, <1>3, <1>4, <1>5, <1>6, <1>7, <1>8, <1>9, <1>10, <1>11, <1>12, Zenon DEF Step

LEMMA CallKeepsFiles ==
  ASSUME Typed, NEW t \in Tasks, Call(t)
  PROVE  /\ Turned(t) /\ UNCHANGED <<files, plans, now, ghosts>>
         /\ tasks[t].kind = "unused" /\ (Idle \/ "side by side" \in Circumstances)
         /\ tasks'[t].kind = "execute" => tasks'[t].second = now
<1>0. \A j : Starts(t, j) => Idle \/ "side by side" \in Circumstances
  BY DEF Starts, InTurn
<1>1. ASSUME NEW j \in Jobs, NEW answer \in Answers, Execute(t, j, answer)
      PROVE  /\ Turned(t) /\ UNCHANGED <<files, plans, now, ghosts>> /\ Starts(t, j)
             /\ tasks[t].kind = "unused" /\ tasks'[t].second = now
  BY <1>1, ExecuteDoes
<1>2. ASSUME NEW j \in Jobs, Undo(t, j)
      PROVE  /\ Turned(t) /\ UNCHANGED <<files, plans, now, ghosts>> /\ Starts(t, j)
             /\ tasks[t].kind = "unused" /\ tasks'[t].kind = "undo"
  BY <1>2, UndoDoes
<1>3. ASSUME NEW s \in Second, NEW p \in Paths, PutBack(t, s, p)
      PROVE  /\ Turned(t) /\ UNCHANGED <<files, plans, now, ghosts>> /\ Starts(t, 0)
             /\ tasks[t].kind = "unused" /\ tasks'[t].kind = "put back"
  BY <1>3, PutBackDoes
<1> QED
  BY <1>0, <1>1, <1>2, <1>3 DEF Call

\* Only one task runs, and, if none outlasts a second, in its second.
OneAlone == \A t, u \in Tasks : Runs(t) /\ Runs(u) => t = u
Prompt == "long" \notin Circumstances
InItsSecond == Prompt => \A t \in Tasks : Carrying(t) => tasks[t].second = now

LEMMA AloneInit == Init => OneAlone /\ InItsSecond
<1> SUFFICES ASSUME Init PROVE OneAlone /\ InItsSecond
  OBVIOUS
<1>1. tasks = [t \in Tasks |-> Unused]
  BY DEF Init
<1>2. \A t \in Tasks : ~Runs(t) /\ ~Carrying(t)
  BY <1>1 DEF Runs, Carrying, Unused
<1> QED
  BY <1>2 DEF OneAlone, InItsSecond

LEMMA AloneStep ==
  ASSUME OneAtATime, Typed, OneAlone, InItsSecond, [Next]_vars
  PROVE  OneAlone' /\ InItsSecond'
<1>1. CASE UNCHANGED <<tasks, now>>
  BY <1>1 DEF OneAlone, InItsSecond, Runs, Carrying
<1>2. ASSUME NEW t \in Tasks, Turned(t), now' = now, \A u \in Tasks : u # t => ~Runs(u),
             tasks'[t].kind = "execute" => tasks'[t].second = now \/ ~Prompt
      PROVE  OneAlone' /\ InItsSecond'
  <2>1. \A u \in Tasks : u # t => ~Runs(u)' /\ ~Carrying(u)'
    BY <1>2 DEF Turned, Runs, Carrying
  <2> QED
    BY <1>2, <2>1 DEF OneAlone, InItsSecond, Carrying
<1>3. ASSUME NEW t \in Tasks, Step(t) PROVE OneAlone' /\ InItsSecond'
  <2>1. \A u \in Tasks : u # t => ~Runs(u)
    BY <1>3, StepKeepsTime DEF OneAlone
  <2>2. tasks'[t].kind = "execute" => tasks'[t].second = now \/ ~Prompt
    BY <1>3, StepKeepsTime DEF InItsSecond
  <2> QED
    BY <1>2, <1>3, <2>1, <2>2, StepKeepsTime
<1>4. ASSUME NEW t \in Tasks, Call(t) PROVE OneAlone' /\ InItsSecond'
  BY <1>2, <1>4, CallKeepsFiles DEF OneAtATime, Idle
<1>5. ASSUME NEW j \in Jobs, NEW asked \in SUBSET Paths, NEW binned \in SUBSET Binned,
             Prepare(j, asked, binned)
      PROVE  OneAlone' /\ InItsSecond'
  BY <1>1, <1>5, PlansAre
<1>6. ASSUME NEW j \in Jobs, Discard(j) PROVE OneAlone' /\ InItsSecond'
  BY <1>1, <1>6, PlansAre
<1>7. CASE Crash
  BY <1>7, CrashDoes DEF OneAlone, InItsSecond, Runs, Carrying
<1>8. ASSUME NEW max \in {0, MaxFiles}, Expire(max) PROVE OneAlone' /\ InItsSecond'
  BY <1>1, <1>8 DEF Expire
<1>9. ASSUME NEW p \in Paths, PersonWrites(p) \/ PersonTrashes(p) PROVE OneAlone' /\ InItsSecond'
  BY <1>1, <1>9 DEF PersonWrites, PersonTrashes
<1>10. CASE SecondPasses
  <2>1. UNCHANGED tasks /\ (Idle \/ ~Prompt)
    BY <1>10 DEF SecondPasses, Prompt
  <2> QED
    BY <2>1 DEF OneAlone, InItsSecond, Idle, Runs, Carrying
<1>11. CASE PersonEmptiesTrash \/ UNCHANGED vars
  BY <1>1, <1>11 DEF PersonEmptiesTrash, vars
<1> QED
  BY <1>3, <1>4, <1>5, <1>6, <1>7, <1>8, <1>9, <1>10, <1>11, Zenon DEF Next

\* A restore that has run for less than the grace, and for no longer than the
\* stash is kept.
Young(t) == now - tasks[t].second < Grace /\ now - tasks[t].second <= KeepFor

LEMMA ExpireSpares ==
  ASSUME Typed, NEW max \in {0, MaxFiles}, Expire(max), NEW t \in Tasks, Young(t)
  PROVE  \A p \in Paths : stash'[<<tasks[t].second, p>>] = stash[<<tasks[t].second, p>>]
<1>1. PICK s \in Second : s = tasks[t].second
  <2>1. tasks[t] \in TaskForm
    BY TaskIs
  <2> QED
    BY <2>1, TaskFields
<1>2. s \in Nat /\ now \in Nat
  BY RestIs, SecondsAre
<1>3. now - s < Grace /\ now - s <= KeepFor
  BY <1>1 DEF Young
<1>4. ~(now - s > KeepFor) /\ ~(now - s >= Grace)
  BY <1>2, <1>3
<1>5. s \notin GivenUp(max)
  BY <1>4 DEF GivenUp
<1>6. stash' = [k \in Second \X Paths |->
                  IF k \in {i \in Second \X Paths : i[1] \in GivenUp(max)} THEN Nothing ELSE stash[k]]
  BY DEF Expire
<1>7. \A p \in Paths : stash'[<<s, p>>] = stash[<<s, p>>]
  BY <1>5, <1>6
<1> QED
  BY <1>1, <1>7

LEMMA GraceStep ==
  ASSUME OneAtATime, Typed, OneAlone, [Next]_vars,
         NEW t \in Tasks, NEW p \in Paths, Carrying(t), Young(t), stash[<<tasks[t].second, p>>] # Nothing
  PROVE  stash'[<<tasks[t].second, p>>] # Nothing
<1>0. PICK s \in Second : s = tasks[t].second
  <2>1. tasks[t] \in TaskForm
    BY TaskIs
  <2> QED
    BY <2>1, TaskFields
<1>r. Runs(t)
  BY DEF Runs, Carrying
<1>1. ASSUME NEW u \in Tasks, Step(u) PROVE stash'[<<s, p>>] # Nothing
  <2>1. u = t
    BY <1>1, <1>r, StepKeepsTime DEF OneAlone
  <2> QED
    BY <1>0, <1>1, <2>1, StepKeepsTime
<1>2. ASSUME NEW max \in {0, MaxFiles}, Expire(max) PROVE stash'[<<s, p>>] # Nothing
  BY <1>0, <1>2, ExpireSpares
<1>3. ASSUME stash' = stash PROVE stash'[<<s, p>>] # Nothing
  BY <1>0, <1>3
<1>4. ASSUME NEW u \in Tasks, Call(u) PROVE stash' = stash
  BY <1>4, CallKeepsFiles, FilesStay
<1>5. ASSUME NEW j \in Jobs, NEW asked \in SUBSET Paths, NEW binned \in SUBSET Binned,
             Prepare(j, asked, binned)
      PROVE  stash' = stash
  BY <1>5, PlansAre, FilesStay
<1>6. ASSUME NEW j \in Jobs, Discard(j) PROVE stash' = stash
  BY <1>6, PlansAre, FilesStay
<1>7. ASSUME NEW q \in Paths, PersonWrites(q) \/ PersonTrashes(q) PROVE stash' = stash
  BY <1>7 DEF PersonWrites, PersonTrashes
<1>8. ASSUME PersonEmptiesTrash \/ SecondPasses \/ UNCHANGED vars PROVE stash' = stash
  BY <1>8 DEF PersonEmptiesTrash, SecondPasses, vars, files
<1>9. ASSUME Crash PROVE stash' = stash
  BY <1>9, CrashDoes, FilesStay
<1>10. stash'[<<s, p>>] # Nothing
  BY <1>1, <1>2, <1>3, <1>4, <1>5, <1>6, <1>7, <1>8, <1>9, Zenon DEF Next
<1> QED
  BY <1>0, <1>10

LEMMA AloneHolds == ASSUME OneAtATime PROVE Spec => [](Typed /\ OneAlone /\ InItsSecond)
<1>1. Typed /\ OneAlone /\ InItsSecond /\ [Next]_vars => (Typed /\ OneAlone /\ InItsSecond)'
  BY TypedStep, AloneStep
<1> QED
  BY <1>1, TypedInit, AloneInit, PTL DEF Spec

(* When restores run one at a time, what a restore has put in the stash is   *)
(* not given up as long as it has run for less than the grace and the days   *)
(* that the stash is kept, and however full the stash is (expire, stash.rs). *)
StashOutlastsTheRestore ==
  [][\A t \in Tasks, p \in Paths :
       Carrying(t) /\ Young(t) /\ stash[<<tasks[t].second, p>>] # Nothing
       => stash'[<<tasks[t].second, p>>] # Nothing]_vars

THEOREM GraceSpares == ASSUME OneAtATime PROVE Spec => StashOutlastsTheRestore
<1>1. ASSUME Typed, OneAlone, [Next]_vars
      PROVE  \A t \in Tasks, p \in Paths :
               Carrying(t) /\ Young(t) /\ stash[<<tasks[t].second, p>>] # Nothing
               => stash'[<<tasks[t].second, p>>] # Nothing
  BY <1>1, GraceStep
<1> QED
  BY <1>1, AloneHolds, PTL DEF Spec, StashOutlastsTheRestore

\* No restore lasts as long as the grace and the days that the stash is kept.
WithinGrace == Prompt \/ (LastSecond < Grace /\ LastSecond <= KeepFor)

LEMMA RestoresAreYoung ==
  ASSUME WithinGrace, Typed, InItsSecond, NEW t \in Tasks, Carrying(t)
  PROVE  Young(t)
<1>1. PICK s \in Second : s = tasks[t].second
  <2>1. tasks[t] \in TaskForm
    BY TaskIs
  <2> QED
    BY <2>1, TaskFields
<1>2. s \in Nat /\ now \in Nat /\ now <= LastSecond
  BY RestIs DEF Second
<1>3. now - s < Grace /\ now - s <= KeepFor
  <2>1. CASE Prompt
    <3>1. now = s
      BY <1>1, <2>1 DEF InItsSecond
    <3> QED
      BY <1>2, <3>1
  <2>2. CASE LastSecond < Grace /\ LastSecond <= KeepFor
    BY <1>2, <2>2
  <2> QED
    BY <2>1, <2>2 DEF WithinGrace
<1> QED
  BY <1>1, <1>3 DEF Young

(* In particular, no restore loses what it put in the stash while it runs,   *)
(* when none outlasts the grace (stash.rs, the comment on EVICTION_GRACE).   *)
THEOREM GraceCovers ==
  ASSUME OneAtATime, WithinGrace
  PROVE  Spec => GraceCoversTheRestore
<1>1. ASSUME Typed, OneAlone, InItsSecond, [Next]_vars
      PROVE  \A t \in Tasks, p \in Paths :
               Runs(t) /\ tasks[t].kind = "execute" /\ stash[<<tasks[t].second, p>>] # Nothing
                 /\ tasks[t]' = tasks[t]
               => stash'[<<tasks[t].second, p>>] # Nothing
  BY <1>1, GraceStep, RestoresAreYoung DEF Carrying
<1> QED
  BY <1>1, AloneHolds, PTL DEF Spec, GraceCoversTheRestore

-----------------------------------------------------------------------------
(* The restores of a path lie one on another: what the one above put aside  *)
(* is what the one below, or the person, had put there.                     *)

InOrder == "out of order" \notin Circumstances

\* What a restore did at a path.
Did(task) == IF task.kind = "execute" THEN {<<task.job, m>> : m \in Arrived(task.log)} ELSE {}
Done(j, p) ==
  {m \in MoveRecord : m.path = p /\ \/ m \in Arrived(plans[j].log)
                                    \/ \E t \in Tasks : <<j, m>> \in Did(tasks[t])}

\* What a task has put aside in the middle of a move, and whose file it was.
MidWay(task) == task.kind \in {"execute", "undo"} /\ task.at = "displaced"
InHand(t) ==
  IF Undoing(t) THEN Undone(tasks[t])
  ELSE [displaced |-> tasks[t].displaced, to |-> tasks[t].to, after |-> mover[tasks[t].path]]
Pending(p) == {InHand(t) : t \in {u \in Tasks : MidWay(tasks[u]) /\ PathOf(tasks[u]) = p}}

\* What is put aside at a path by a restore, or, for 0, by the task that runs.
PutAside(o, p) == IF o = 0 THEN Pending(p) ELSE Done(o, p)

Content(m, p) ==
  CASE m.displaced = "stashed" -> stash[<<m.to, p>>]
    [] m.displaced = "renamed" -> disk[<<p, m.to>>]
    [] OTHER -> Nothing

\* Nothing of the person's.
Spare(c) == c <= 0

\* Undoing the restore removes what is at the path.
Removes(j, p) == j # 0 /\ \E m \in Done(j, p) : m.copy = 0

Above(m, n) == m.after = n.after /\ m.after # 0
Stack(p, live) ==
  /\ mover[p] \in live \cup {0}
  /\ \A j \in live : plans[j].used /\ (Waits(j) => Done(j, p) # {})
  /\ \A j \in live : \A m \in Done(j, p) :
       /\ m.after \in live \cup {0} /\ (m.after # 0 => m.after # mover[p])
       /\ \A k \in live : \A n \in Done(k, p) : Above(m, n) => j = k

Tops(p) == Removes(mover[p], p) => Spare(disk[Own(p)])

\* Where it was put aside nothing else is put.
Holds(m, p) ==
  /\ m.displaced = "renamed" => disk[<<p, m.to>>] # Nothing
  /\ m.displaced = "stashed" =>
       /\ stash[<<m.to, p>>] # Nothing \/ m.to < now
       /\ \A t \in Tasks : p \in ToStash(tasks[t]) => m.to # tasks[t].second
Keeps(m, p) == Holds(m, p) /\ (Removes(m.after, p) => Spare(Content(m, p)))

Apart(m, n) == m.displaced = n.displaced /\ m.displaced # "nothing" => m.to # n.to
Kept(p, live) ==
  \A o \in live \cup {0} : \A m \in PutAside(o, p) :
    /\ Keeps(m, p)
    /\ \A q \in live \cup {0} : \A n \in PutAside(q, p) : o # q => Apart(m, n)

Piled(p, live) == Stack(p, live) /\ Tops(p) /\ Kept(p, live)
Stacks == \A p \in Paths : \E live \in SUBSET Jobs : Piled(p, live)

LEMMA DoneIs ==
  ASSUME Typed, NEW j \in Jobs, NEW p \in Paths, NEW m \in Done(j, p)
  PROVE  /\ m \in MoveRecord /\ m.path = p /\ m.displaced \in {"nothing", "stashed", "renamed"}
         /\ m.after \in Jobs \cup {0} /\ Slot(m.displaced, m.to)
<1>1. m \in MoveRecord /\ m.path = p
  BY DEF Done
<1>2. CASE m \in Arrived(plans[j].log)
  <2>1. m \in Moves(plans[j].log) /\ Fits(plans[j].log)
    BY <1>2, PlanIs DEF Arrived
  <2> QED
    BY <1>1, <2>1, MoveFields DEF Fits
<1>3. CASE \E t \in Tasks : <<j, m>> \in Did(tasks[t])
  <2>1. PICK t \in Tasks : m \in Arrived(tasks[t].log)
    BY <1>3 DEF Did
  <2>2. tasks[t] \in TaskForm
    BY TaskIs
  <2>3. m \in Moves(tasks[t].log) /\ Fits(tasks[t].log)
    BY <2>1, <2>2, TaskFields DEF Arrived
  <2> QED
    BY <1>1, <2>3, MoveFields DEF Fits
<1> QED
  BY <1>2, <1>3 DEF Done

LEMMA InHandIs ==
  ASSUME Typed, NEW t \in Tasks, MidWay(tasks[t])
  PROVE  /\ Slot(InHand(t).displaced, InHand(t).to) /\ PathOf(tasks[t]) \in Paths
         /\ InHand(t).displaced \in {"stashed", "renamed"} /\ InHand(t).after \in Jobs \cup {0}
<1>1. tasks[t] \in TaskForm
  BY TaskIs
<1>2. CASE Undoing(t)
  <2>1. Undoes(tasks[t])
    BY <1>1, <1>2, TaskFields DEF Undoing
  <2>2. tasks[t].path > 0 /\ Undone(tasks[t]).displaced # "nothing"
    BY <2>1 DEF Undoes, MidWay
  <2>3. Undone(tasks[t]) \in MoveRecord /\ Slot(Undone(tasks[t]).displaced, Undone(tasks[t]).to)
    BY <1>1, <1>2, <2>2, UndoneIs DEF Undoing, MidWay
  <2>4. InHand(t) = Undone(tasks[t]) /\ PathOf(tasks[t]) = Undone(tasks[t]).path
    BY <1>2 DEF InHand, PathOf, Undoing
  <2> QED
    BY <2>2, <2>3, <2>4, MoveFields
<1>3. CASE Carrying(t)
  <2>1. CarriesOut(tasks[t]) /\ tasks[t].displaced \in {"nothing", "stashed", "renamed"}
    BY <1>1, <1>3, TaskFields DEF Carrying
  <2>2. /\ tasks[t].path \in Paths /\ tasks[t].displaced \in {"stashed", "renamed"}
        /\ Slot(tasks[t].displaced, tasks[t].to)
    BY <2>1 DEF CarriesOut, MidWay
  <2>3. /\ InHand(t).displaced = tasks[t].displaced /\ InHand(t).to = tasks[t].to
        /\ InHand(t).after = mover[tasks[t].path] /\ PathOf(tasks[t]) = tasks[t].path
    BY <1>3 DEF InHand, PathOf, Undoing, Carrying
  <2>4. mover[tasks[t].path] \in Jobs \cup {0}
    BY <2>2, RestIs
  <2> QED
    BY <2>2, <2>3, <2>4
<1> QED
  BY <1>2, <1>3 DEF MidWay, Undoing, Carrying

LEMMA AsideIs ==
  ASSUME Typed, NEW p \in Paths, NEW o \in Jobs \cup {0}, NEW m \in PutAside(o, p)
  PROVE  /\ m.displaced \in {"nothing", "stashed", "renamed"} /\ m.after \in Jobs \cup {0}
         /\ m.displaced = "stashed" => m.to \in Second
         /\ m.displaced = "renamed" => m.to \in Aside
<1>1. CASE o = 0
  BY <1>1, InHandIs DEF PutAside, Pending, Slot
<1>2. CASE o # 0
  BY <1>2, DoneIs DEF PutAside, Slot
<1> QED
  BY <1>1, <1>2

LEMMA NothingIsSpare == Spare(Nothing) /\ \A j \in Jobs : Spare(-j)
BY DEF Spare

(* What a step leaves: the moves written down, and what was put aside.       *)
SameMoves(p) ==
  /\ Pending(p)' \subseteq Pending(p)
  /\ \A j \in Jobs : /\ Done(j, p)' \subseteq Done(j, p)
                     /\ plans[j].used => /\ plans'[j].used
                                         /\ Waits(j)' => Waits(j) /\ Done(j, p)' = Done(j, p)
SlotStays(m, p) ==
  /\ m.displaced = "renamed" => disk'[<<p, m.to>>] = disk[<<p, m.to>>]
  /\ m.displaced = "stashed" => \/ stash'[<<m.to, p>>] = stash[<<m.to, p>>]
                                \/ stash'[<<m.to, p>>] = Nothing /\ m.to < now'
SameSeconds(p) ==
  /\ now <= now'
  /\ \A t \in Tasks : p \in ToStash(tasks'[t]) =>
       \/ p \in ToStash(tasks[t]) /\ tasks'[t].second = tasks[t].second
       \/ tasks'[t].second = now /\ stash[<<now, p>>] = Nothing

LEMMA StillKeeps ==
  ASSUME Typed, NEW p \in Paths, NEW m, SameSeconds(p), SlotStays(m, p),
         m.displaced \in {"nothing", "stashed", "renamed"}, m.displaced = "stashed" => m.to \in Second,
         Keeps(m, p), now' \in Nat, Removes(m.after, p)' => Removes(m.after, p)
  PROVE  Keeps(m, p)'
<1>0. now \in Nat /\ \A s \in Second : s \in Nat
  BY RestIs, SecondsAre
<1>1. CASE m.displaced = "renamed"
  <2>1. Content(m, p) = disk[<<p, m.to>>]
    BY <1>1 DEF Content
  <2>2. disk'[<<p, m.to>>] = disk[<<p, m.to>>] /\ disk[<<p, m.to>>] # Nothing
        /\ (Removes(m.after, p) => Spare(Content(m, p)))
    BY <1>1 DEF Keeps, Holds, SlotStays
  <2>3. Content(m, p)' = disk'[<<p, m.to>>]
    BY <1>1 DEF Content
  <2>4. Holds(m, p)'
    BY <1>1, <2>2 DEF Holds
  <2> QED
    BY <2>1, <2>2, <2>3, <2>4 DEF Keeps
<1>2. CASE m.displaced = "stashed"
  <2>0. m.to \in Nat /\ m.to \in Second
    BY <1>0, <1>2
  <2>1. m.to < now => m.to < now'
    BY <1>0, <2>0 DEF SameSeconds
  <2>2. stash'[<<m.to, p>>] # Nothing \/ m.to < now'
    BY <1>2, <2>1 DEF Keeps, Holds, SlotStays
  <2>3. ASSUME NEW t \in Tasks, p \in ToStash(tasks'[t]) PROVE m.to # tasks'[t].second
    <3>1. CASE p \in ToStash(tasks[t]) /\ tasks'[t].second = tasks[t].second
      BY <1>2, <3>1 DEF Keeps, Holds
    <3>2. CASE tasks'[t].second = now /\ stash[<<now, p>>] = Nothing
      <4>1. m.to < now => m.to # now
        BY <1>0, <2>0
      <4>2. stash[<<m.to, p>>] # Nothing \/ m.to < now
        BY <1>2 DEF Keeps, Holds
      <4>3. m.to # now
        BY <3>2, <4>1, <4>2
      <4> QED
        BY <3>2, <4>3
    <3> QED
      BY <2>3, <3>1, <3>2 DEF SameSeconds
  <2>4. Content(m, p) = stash[<<m.to, p>>] /\ Content(m, p)' = stash'[<<m.to, p>>]
    BY <1>2 DEF Content
  <2>5. Removes(m.after, p)' => Spare(Content(m, p)')
    BY <1>2, <2>4, NothingIsSpare DEF Keeps, SlotStays
  <2>6. Holds(m, p)'
    BY <1>2, <2>2, <2>3 DEF Holds
  <2> QED
    BY <2>5, <2>6 DEF Keeps
<1>3. CASE m.displaced = "nothing"
  <2>1. Content(m, p)' = Nothing
    BY <1>3 DEF Content
  <2>2. Holds(m, p)'
    BY <1>3 DEF Holds
  <2> QED
    BY <2>1, <2>2, NothingIsSpare DEF Keeps
<1> QED
  BY <1>1, <1>2, <1>3

(* A step that adds nothing to what was put aside at a path.                *)
LEMMA PileStays ==
  ASSUME Typed, NEW p \in Paths, NEW live \in SUBSET Jobs, Piled(p, live),
         SameMoves(p), mover'[p] = mover[p], SameSeconds(p), now' \in Nat,
         Removes(mover[p], p) => Spare(disk'[Own(p)]),
         \A o \in live \cup {0} : \A m \in PutAside(o, p)' : SlotStays(m, p)
  PROVE  Piled(p, live)'
<1>1. \A o \in live \cup {0} : PutAside(o, p)' \subseteq PutAside(o, p)
  BY DEF PutAside, SameMoves
<1>2. \A j \in Jobs \cup {0} : Removes(j, p)' => Removes(j, p)
  BY DEF Removes, SameMoves
<1>3. Stack(p, live)'
  <2>0. Stack(p, live)
    BY DEF Piled
  <2>1. mover'[p] \in live \cup {0}
    BY <2>0 DEF Stack
  <2>2. ASSUME NEW j \in live PROVE plans'[j].used /\ (Waits(j)' => Done(j, p)' # {})
    BY <2>0, <2>2 DEF Stack, SameMoves
  <2>3. ASSUME NEW j \in live, NEW m \in Done(j, p)'
        PROVE  /\ m.after \in live \cup {0} /\ (m.after # 0 => m.after # mover'[p])
               /\ \A k \in live : \A n \in Done(k, p)' : Above(m, n) => j = k
    BY <2>0, <2>3 DEF Stack, SameMoves
  <2> QED
    BY <2>1, <2>2, <2>3 DEF Stack, Above
<1>4. Tops(p)'
  <2>1. mover[p] \in Jobs \cup {0}
    BY RestIs
  <2> QED
    BY <1>2, <2>1 DEF Tops
<1>5. ASSUME NEW o \in live \cup {0}, NEW m \in PutAside(o, p)'
      PROVE  /\ Keeps(m, p)'
             /\ \A q \in live \cup {0} : \A n \in PutAside(q, p)' : o # q => Apart(m, n)
  <2>1. m \in PutAside(o, p) /\ Keeps(m, p)
    BY <1>1, <1>5 DEF Piled, Kept
  <2>2. /\ m.displaced \in {"nothing", "stashed", "renamed"} /\ m.after \in Jobs \cup {0}
        /\ m.displaced = "stashed" => m.to \in Second
    BY <2>1, AsideIs
  <2>3. SlotStays(m, p) /\ (Removes(m.after, p)' => Removes(m.after, p))
    BY <1>2, <1>5, <2>2
  <2>4. Keeps(m, p)'
    BY <2>1, <2>2, <2>3, StillKeeps
  <2>5. \A q \in live \cup {0} : \A n \in PutAside(q, p)' : o # q => Apart(m, n)
    BY <1>1, <2>1 DEF Piled, Kept
  <2> QED
    BY <2>4, <2>5
<1>6. Kept(p, live)'
  BY <1>5 DEF Kept, Apart
<1> QED
  BY <1>3, <1>4, <1>6 DEF Piled

(* Where something else than a restore moved the file last, nothing lies.   *)
LEMMA PileEnds ==
  ASSUME NEW p \in Paths, mover'[p] = 0, Pending(p)' = {}
  PROVE  Piled(p, {})'
<1>1. Stack(p, {})'
  BY DEF Stack
<1>2. Tops(p)'
  BY DEF Tops, Removes
<1>3. Kept(p, {})'
  BY DEF Kept, PutAside
<1> QED
  BY <1>1, <1>2, <1>3 DEF Piled

LEMMA OpenPile == Stacks => \A p \in Paths : \E live \in SUBSET Jobs : Piled(p, live)
BY DEF Stacks

LEMMA ClosePile ==
  ASSUME \A p \in Paths : \E live \in SUBSET Jobs : Piled(p, live)'
  PROVE  Stacks'
BY DEF Stacks

LEMMA DoneStays ==
  ASSUME NEW p, \A j \in Jobs : {m \in Arrived(plans'[j].log) : m.path = p} = {m \in Arrived(plans[j].log) : m.path = p},
         \A t \in Tasks : {d \in Did(tasks'[t]) : d[2].path = p} = {d \in Did(tasks[t]) : d[2].path = p}
  PROVE  \A j \in Jobs : Done(j, p)' = Done(j, p)
<1> SUFFICES ASSUME NEW j \in Jobs PROVE Done(j, p)' = Done(j, p)
  OBVIOUS
<1>1. ASSUME NEW m, m.path = p
      PROVE  m \in Arrived(plans'[j].log) <=> m \in Arrived(plans[j].log)
  BY <1>1
<1>2. ASSUME NEW m, m.path = p, NEW t \in Tasks
      PROVE  <<j, m>> \in Did(tasks'[t]) <=> <<j, m>> \in Did(tasks[t])
  <2>1. <<j, m>>[2].path = p
    BY <1>2
  <2> QED
    BY <2>1
<1> QED
  BY <1>1, <1>2 DEF Done

\* One restore at a time: no other task moves anything.
LEMMA PendingIs ==
  ASSUME Turns, NEW t \in Tasks, Runs(t), Turned(t)
  PROVE  /\ \A p : Pending(p)' \subseteq {InHand(t)'}
         /\ \A p : ~(MidWay(tasks'[t]) /\ PathOf(tasks'[t]) = p) => Pending(p)' = {}
         /\ \A p : Pending(p) \subseteq {InHand(t)}
         /\ MidWay(tasks[t]) => Pending(PathOf(tasks[t])) = {InHand(t)}
<1>1. \A u \in Tasks : u # t => ~MidWay(tasks[u]) /\ ~MidWay(tasks'[u])
  BY OneRuns DEF MidWay, Runs
<1>2. \A p : Pending(p)' \subseteq {InHand(t)'}
  BY <1>1 DEF Pending
<1>3. \A p : ~(MidWay(tasks'[t]) /\ PathOf(tasks'[t]) = p) => Pending(p)' = {}
  BY <1>1 DEF Pending
<1>4. \A p : Pending(p) \subseteq {InHand(t)}
  BY <1>1 DEF Pending
<1>5. MidWay(tasks[t]) => Pending(PathOf(tasks[t])) = {InHand(t)}
  BY <1>1 DEF Pending
<1> QED
  BY <1>2, <1>3, <1>4, <1>5

\* What a step leaves alone at a path.
Undisturbed(p) ==
  /\ SameMoves(p) /\ SameSeconds(p) /\ mover'[p] = mover[p]
  /\ disk'[Own(p)] = disk[Own(p)] /\ \A n \in Aside : disk'[<<p, n>>] = disk[<<p, n>>]
  /\ \A s \in Second : \/ stash'[<<s, p>>] = stash[<<s, p>>]
                       \/ stash'[<<s, p>>] = Nothing /\ s < now'

LEMMA AsideShrinks ==
  ASSUME NEW p, NEW live \in SUBSET Jobs, SameMoves(p)
  PROVE  \A o \in live \cup {0} : PutAside(o, p)' \subseteq PutAside(o, p)
BY DEF PutAside, SameMoves

LEMMA QuietPile ==
  ASSUME Typed, now' \in Nat, NEW p \in Paths, NEW live \in SUBSET Jobs, Piled(p, live), Undisturbed(p)
  PROVE  Piled(p, live)'
<1>1. SameMoves(p) /\ SameSeconds(p) /\ mover'[p] = mover[p]
  BY DEF Undisturbed
<1>2. ASSUME NEW o \in live \cup {0}, NEW m \in PutAside(o, p)' PROVE SlotStays(m, p)
  <2>1. o \in Jobs \cup {0} /\ m \in PutAside(o, p)
    BY <1>1, <1>2, AsideShrinks
  <2>2. (m.displaced = "stashed" => m.to \in Second) /\ (m.displaced = "renamed" => m.to \in Aside)
    BY <2>1, AsideIs
  <2> QED
    BY <2>2 DEF SlotStays, Undisturbed
<1>3. Removes(mover[p], p) => Spare(disk'[Own(p)])
  BY DEF Undisturbed, Piled, Tops
<1> QED
  BY <1>1, <1>2, <1>3, PileStays

LEMMA StacksStay ==
  ASSUME Typed, now' \in Nat, Stacks, \A p \in Paths : Undisturbed(p)
  PROVE  Stacks'
<1>1. ASSUME NEW p \in Paths PROVE \E live \in SUBSET Jobs : Piled(p, live)'
  BY QuietPile, OpenPile
<1> QED
  BY <1>1, ClosePile

LEMMA StacksStayButOne ==
  ASSUME Typed, now' \in Nat, Stacks, NEW p \in Paths, \A q \in Paths : q # p => Undisturbed(q),
         \E live \in SUBSET Jobs : Piled(p, live)'
  PROVE  Stacks'
<1>1. ASSUME NEW q \in Paths PROVE \E live \in SUBSET Jobs : Piled(q, live)'
  BY QuietPile, OpenPile
<1> QED
  BY <1>1, ClosePile

LEMMA NothingIsDone ==
  ASSUME NEW task, task.kind # "execute" PROVE Did(task) = {}
BY DEF Did

LEMMA DidStays ==
  ASSUME NEW task, NEW on, on.kind = task.kind, on.job = task.job, Arrived(on.log) = Arrived(task.log)
  PROVE  Did(on) = Did(task)
BY DEF Did

LEMMA StepMoves ==
  ASSUME Typed, Turns, NEW t \in Tasks, Runs(t), Turned(t), NEW p \in Paths,
         \A j \in Jobs : /\ Arrived(plans'[j].log) = Arrived(plans[j].log)
                         /\ plans'[j].used = plans[j].used /\ (Waits(j)' => Waits(j)),
         {d \in Did(tasks'[t]) : d[2].path = p} = {d \in Did(tasks[t]) : d[2].path = p},
         ~(MidWay(tasks'[t]) /\ PathOf(tasks'[t]) = p)
  PROVE  SameMoves(p)
<1>1. Pending(p)' = {}
  BY PendingIs
<1>2. \A u \in Tasks : {d \in Did(tasks'[u]) : d[2].path = p} = {d \in Did(tasks[u]) : d[2].path = p}
  <2> SUFFICES ASSUME NEW u \in Tasks
               PROVE  {d \in Did(tasks'[u]) : d[2].path = p} = {d \in Did(tasks[u]) : d[2].path = p}
    OBVIOUS
  <2>1. CASE u = t
    BY <2>1
  <2>2. CASE u # t
    <3>1. tasks'[u] = tasks[u]
      BY <2>2 DEF Turned
    <3> QED
      BY <3>1
  <2> QED
    BY <2>1, <2>2
<1>3. \A j \in Jobs : {m \in Arrived(plans'[j].log) : m.path = p} = {m \in Arrived(plans[j].log) : m.path = p}
  OBVIOUS
<1>4. \A j \in Jobs : Done(j, p)' = Done(j, p)
  BY <1>2, <1>3, DoneStays
<1> QED
  BY <1>1, <1>4 DEF SameMoves

LEMMA StepStashes ==
  ASSUME Typed, NEW t \in Tasks, Step(t)
  PROVE  \A p \in Paths : SameSeconds(p)
<1>0. now' = now /\ now \in Nat /\ Turned(t)
  BY StepKeepsTime, RestIs, SecondsAre
<1>1. ASSUME NEW p \in ToStash(tasks'[t]) PROVE p \in ToStash(tasks[t]) /\ tasks'[t].second = tasks[t].second
  <2>1. CASE tasks'[t].kind = "execute"
    <3>1. Carrying(t) /\ tasks'[t].second = tasks[t].second
      BY <2>1, StepKeepsTime
    <3>2. Ahead(tasks'[t]) \subseteq Ahead(tasks[t])
      <4>1. CASE Begins(t)
        BY <4>1, BeginsDoes DEF Ahead
      <4>2. CASE Displaces(t)
        BY <4>2, DisplacesDoes DEF Ahead
      <4>3. CASE Arrives(t)
        BY <4>3, ArrivesDoes DEF Ahead
      <4>4. CASE Ends(t)
        BY <4>4, <2>1, EndsDoes
      <4>5. CASE UndoBegins(t) \/ UndoRemoves(t) \/ UndoReturns(t) \/ UndoReenters(t) \/ UndoTrashes(t) \/ UndoEnds(t)
        BY <3>1, <4>5 DEF UndoBegins, UndoRemoves, UndoReturns, UndoReenters, UndoTrashes, UndoEnds, At, Carrying
      <4>6. CASE PutBackDisplaces(t) \/ PutBackArrives(t)
        BY <3>1, <4>6 DEF PutBackDisplaces, PutBackArrives, At, Carrying
      <4> QED
        BY <4>1, <4>2, <4>3, <4>4, <4>5, <4>6 DEF Step
    <3> QED
      BY <1>1, <2>1, <3>1, <3>2 DEF ToStash, Carrying
  <2>2. CASE tasks'[t].kind = "put back" /\ tasks'[t].at = "next"
    <3>1. CASE PutBackDisplaces(t)
      BY <2>2, <3>1, PutBackDisplacesDoes
    <3>2. CASE PutBackArrives(t)
      BY <2>2, <3>2, PutBackArrivesDoes
    <3>3. CASE Begins(t)
      BY <2>2, <3>3, BeginsDoes
    <3>4. CASE Displaces(t)
      BY <2>2, <3>4, DisplacesDoes
    <3>5. CASE Arrives(t)
      BY <2>2, <3>5, ArrivesDoes
    <3>6. CASE Ends(t)
      BY <2>2, <3>6, EndsDoes
    <3>7. CASE UndoBegins(t)
      BY <2>2, <3>7, UndoBeginsDoes
    <3>8. CASE UndoRemoves(t)
      BY <2>2, <3>8, UndoRemovesDoes
    <3>9. CASE UndoReturns(t)
      BY <2>2, <3>9, UndoReturnsDoes
    <3>10. CASE UndoReenters(t)
      BY <2>2, <3>10, UndoReentersDoes
    <3>11. CASE UndoTrashes(t)
      BY <2>2, <3>11, UndoTrashesDoes
    <3>12. CASE UndoEnds(t)
      BY <2>2, <3>12, UndoEndsDoes
    <3> QED
      BY <3>1, <3>2, <3>3, <3>4, <3>5, <3>6, <3>7, <3>8, <3>9, <3>10, <3>11, <3>12, Zenon DEF Step
  <2> QED
    BY <1>1, <2>1, <2>2 DEF ToStash
<1>2. now <= now'
  BY <1>0, NotAfterItself, Zenon
<1>3. \A u \in Tasks : u # t => tasks'[u] = tasks[u]
  BY <1>0 DEF Turned
<1>4. ASSUME NEW p \in Paths, NEW u \in Tasks, p \in ToStash(tasks'[u])
      PROVE  p \in ToStash(tasks[u]) /\ tasks'[u].second = tasks[u].second
  BY <1>1, <1>3, <1>4
<1> QED
  BY <1>2, <1>4 DEF SameSeconds

SameLogs ==
  \A j \in Jobs : /\ Arrived(plans'[j].log) = Arrived(plans[j].log)
                  /\ plans'[j].used = plans[j].used /\ (Waits(j)' => Waits(j))

LEMMA PlansGiveLogs == UNCHANGED plans => SameLogs
BY DEF SameLogs, Waits

LEMMA FilesAreLeft ==
  ASSUME Typed, disk' = disk, stash' = stash, mover' = mover
  PROVE  \A p \in Paths : SameMoves(p) /\ SameSeconds(p) => Undisturbed(p)
BY DEF Undisturbed

LEMMA QuietStep ==
  ASSUME Typed, Turns, Stacks, NEW t \in Tasks, Step(t), SameLogs, Did(tasks'[t]) = Did(tasks[t]),
         ~MidWay(tasks'[t]), disk' = disk, stash' = stash, mover' = mover
  PROVE  Stacks'
<1>1. Runs(t) /\ Turned(t) /\ now' \in Nat
  BY StepKeepsTime, RestIs, SecondsAre
<1>2. \A p \in Paths : SameMoves(p)
  BY <1>1, StepMoves DEF SameLogs
<1> QED
  BY <1>1, <1>2, StepStashes, FilesAreLeft, StacksStay

LEMMA BeginsStacks ==
  ASSUME Typed, Turns, Stacks, NEW t \in Tasks, Begins(t)
  PROVE  Stacks'
<1>1. /\ UNCHANGED <<files, ghosts>> /\ Carrying(t) /\ tasks[t].at = "begin" /\ Turned(t)
      /\ tasks'[t].log = <<>>
      /\ \/ tasks'[t].kind = "execute" /\ tasks'[t].at = "next" /\ tasks'[t].job = tasks[t].job
         \/ tasks'[t].kind = "over"
  BY BeginsDoes
<1>2. SameLogs
  BY BeginsKeeps DEF SamePlans, SameLogs, Waits
<1>3. tasks[t].log = <<>>
  <2>1. tasks[t] \in TaskForm
    BY TaskIs
  <2>2. CarriesOut(tasks[t])
    BY <1>1, <2>1, TaskFields DEF Carrying
  <2> QED
    BY <1>1, <2>2 DEF CarriesOut
<1>4. Arrived(<<>>) = {}
  BY NoMoves DEF Arrived
<1>5. Did(tasks'[t]) = {} /\ Did(tasks[t]) = {}
  BY <1>1, <1>3, <1>4 DEF Did
<1>6. ~MidWay(tasks'[t])
  BY <1>1 DEF MidWay
<1>7. disk' = disk /\ stash' = stash /\ mover' = mover
  BY <1>1, FilesStay DEF ghosts
<1> QED
  BY <1>2, <1>5, <1>6, <1>7, QuietStep DEF Step

LEMMA UndoTurns ==
  ASSUME Typed, Turns, Stacks, NEW t \in Tasks, UndoBegins(t) \/ UndoReenters(t) \/ UndoEnds(t)
  PROVE  Stacks'
<1>1. /\ UNCHANGED <<disk, stash, plans, ghosts>> /\ Undoing(t)
      /\ tasks'[t].kind = "over" \/ (tasks'[t].kind = "undo" /\ tasks'[t].at = "next")
  <2>1. CASE UndoBegins(t)
    BY <2>1, UndoBeginsDoes, FilesStay
  <2>2. CASE UndoReenters(t)
    BY <2>2, UndoReentersDoes
  <2>3. CASE UndoEnds(t)
    BY <2>3, UndoEndsDoes, FilesStay
  <2> QED
    BY <2>1, <2>2, <2>3
<1>2. Did(tasks'[t]) = {} /\ Did(tasks[t]) = {}
  BY <1>1, NothingIsDone DEF Undoing
<1>3. ~MidWay(tasks'[t])
  BY <1>1 DEF MidWay
<1>4. SameLogs /\ mover' = mover
  BY <1>1, PlansGiveLogs DEF ghosts
<1> QED
  BY <1>1, <1>2, <1>3, <1>4, QuietStep DEF Step

LEMMA EndsStacks ==
  ASSUME Typed, Turns, Stacks, NEW t \in Tasks, Ends(t)
  PROVE  Stacks'
<1>0. PICK j \in Jobs : j = tasks[t].job
  BY EndsDoes
<1>1. /\ UNCHANGED <<disk, stash, ghosts>> /\ Turned(t) /\ Carrying(t) /\ Runs(t)
      /\ tasks'[t].kind = "over"
      /\ \/ ~plans[j].held /\ UNCHANGED plans
         \/ /\ plans[j].held /\ \A k \in Jobs : k # j => plans'[k] = plans[k]
            /\ plans'[j].logged /\ plans'[j].used
            /\ Arrived(plans'[j].log) = Arrived(tasks[t].log)
  BY <1>0, EndsDoes DEF Runs, Carrying
<1>2. plans[j].held
  BY <1>0, <1>1 DEF Turns, OfPlans, OfPlan, Carrying
<1>3. /\ \A k \in Jobs : k # j => plans'[k] = plans[k]
      /\ plans'[j].logged /\ plans'[j].used /\ Arrived(plans'[j].log) = Arrived(tasks[t].log)
  BY <1>1, <1>2
<1>4. Did(tasks'[t]) = {} /\ \A m : m \in Arrived(tasks[t].log) <=> <<j, m>> \in Did(tasks[t])
  BY <1>0, <1>1, NothingIsDone DEF Did, Carrying
<1>5. \A k, m : <<k, m>> \in Did(tasks[t]) => k = j
  BY <1>0 DEF Did
<1>6. \A u \in Tasks : u # t => tasks'[u] = tasks[u]
  BY <1>1 DEF Turned
<1>7. ASSUME NEW p \in Paths PROVE SameMoves(p)
  <2>1. Pending(p)' = {}
    BY <1>1, PendingIs DEF MidWay
  <2>2. ASSUME NEW k \in Jobs, k # j PROVE Done(k, p)' = Done(k, p)
    <3>1. \A u \in Tasks : \A m : <<k, m>> \in Did(tasks'[u]) <=> <<k, m>> \in Did(tasks[u])
      BY <1>4, <1>5, <1>6, <2>2
    <3> QED
      BY <1>3, <2>2, <3>1 DEF Done
  <2>3. Done(j, p)' \subseteq Done(j, p)
    <3>1. ASSUME NEW m \in Done(j, p)' PROVE m \in Done(j, p)
      <4>1. m \in MoveRecord /\ m.path = p
        BY <3>1 DEF Done
      <4>2. CASE m \in Arrived(plans'[j].log)
        BY <1>3, <1>4, <4>1, <4>2 DEF Done
      <4>3. CASE \E u \in Tasks : <<j, m>> \in Did(tasks'[u])
        BY <1>4, <1>6, <4>1, <4>3 DEF Done
      <4> QED
        BY <3>1, <4>2, <4>3 DEF Done
    <3> QED
      BY <3>1
  <2>4. ~Waits(j)'
    BY <1>3 DEF Waits
  <2>5. ASSUME NEW k \in Jobs, plans[k].used PROVE plans'[k].used /\ (Waits(k)' => Waits(k) /\ Done(k, p)' = Done(k, p))
    BY <1>3, <2>2, <2>4, <2>5 DEF Waits
  <2>6. \A k \in Jobs : Done(k, p)' \subseteq Done(k, p)
    BY <2>2, <2>3
  <2> QED
    BY <2>1, <2>5, <2>6 DEF SameMoves
<1>8. mover' = mover /\ now' \in Nat
  BY <1>1, StepKeepsTime, RestIs, SecondsAre DEF ghosts, Step
<1> QED
  BY <1>1, <1>7, <1>8, StepStashes, FilesAreLeft, StacksStay DEF Step

LEMMA Both == \A m, n : Apart(m, n) <=> Apart(n, m)
BY DEF Apart

(* What is put aside comes to lie on what was put aside before.             *)
LEMMA PileTakes ==
  ASSUME Typed, NEW p \in Paths, NEW live \in SUBSET Jobs, Piled(p, live), NEW new,
         Pending(p)' = {new}, \A j \in Jobs : Done(j, p)' = Done(j, p), SameLogs,
         mover'[p] = mover[p], SameSeconds(p), now' \in Nat, disk'[Own(p)] = Nothing, Keeps(new, p)',
         \A o \in live : \A m \in Done(o, p) : SlotStays(m, p) /\ Apart(m, new)
  PROVE  Piled(p, live)'
<1>0. 0 \notin live
  OBVIOUS
<1>1. /\ PutAside(0, p)' = {new}
      /\ \A o \in live : PutAside(o, p)' = Done(o, p) /\ PutAside(o, p) = Done(o, p)
  BY <1>0 DEF PutAside
<1>2. \A j \in Jobs \cup {0} : Removes(j, p)' <=> Removes(j, p)
  BY DEF Removes
<1>3. Stack(p, live)'
  <2>0. Stack(p, live)
    BY DEF Piled
  <2>2. ASSUME NEW j \in live PROVE plans'[j].used /\ (Waits(j)' => Done(j, p)' # {})
    BY <2>0, <2>2 DEF Stack, SameLogs
  <2>3. ASSUME NEW j \in live, NEW m \in Done(j, p)'
        PROVE  /\ m.after \in live \cup {0} /\ (m.after # 0 => m.after # mover'[p])
               /\ \A k \in live : \A n \in Done(k, p)' : Above(m, n) => j = k
    BY <2>0, <2>3 DEF Stack
  <2> QED
    BY <2>0, <2>2, <2>3 DEF Stack, Above
<1>4. Tops(p)'
  BY NothingIsSpare DEF Tops
<1>5. ASSUME NEW o \in live, NEW m \in Done(o, p)
      PROVE  /\ Keeps(m, p)' /\ Apart(m, new)
             /\ \A q \in live : \A n \in Done(q, p) : o # q => Apart(m, n)
  <2>1. o \in Jobs /\ m \in PutAside(o, p) /\ Keeps(m, p)
    BY <1>1, <1>5 DEF Piled, Kept
  <2>2. /\ m.displaced \in {"nothing", "stashed", "renamed"} /\ m.after \in Jobs \cup {0}
        /\ m.displaced = "stashed" => m.to \in Second
    BY <2>1, AsideIs
  <2>3. SlotStays(m, p) /\ (Removes(m.after, p)' => Removes(m.after, p)) /\ Apart(m, new)
    BY <1>2, <1>5, <2>2
  <2>4. Keeps(m, p)'
    BY <2>1, <2>2, <2>3, StillKeeps
  <2>5. \A q \in live : \A n \in Done(q, p) : o # q => Apart(m, n)
    BY <1>1, <1>5 DEF Piled, Kept
  <2> QED
    BY <2>3, <2>4, <2>5
<1>6. ASSUME NEW o \in live \cup {0}, NEW m \in PutAside(o, p)'
      PROVE  /\ Keeps(m, p)'
             /\ \A q \in live \cup {0} : \A n \in PutAside(q, p)' : o # q => Apart(m, n)
  <2>1. CASE o = 0
    <3>1. m = new
      BY <1>1, <1>6, <2>1
    <3>2. \A q \in live : \A n \in Done(q, p) : Apart(new, n)
      BY <1>5, Both
    <3> QED
      BY <1>1, <2>1, <3>1, <3>2
  <2>2. CASE o \in live
    <3>1. m \in Done(o, p)
      BY <1>1, <1>6, <2>2
    <3> QED
      BY <1>1, <1>5, <2>2, <3>1
  <2> QED
    BY <1>6, <2>1, <2>2
<1>7. Kept(p, live)'
  BY <1>6 DEF Kept, Apart
<1> QED
  BY <1>3, <1>4, <1>7 DEF Piled

LEMMA DisplacesStacks ==
  ASSUME Typed, Turns, SlotsAreFree, Stacks, NEW t \in Tasks, Displaces(t)
  PROVE  Stacks'
<1>0. PICK p \in Paths : p = tasks[t].path
  BY DisplacesDoes
<1>h. PICK here, free : here = disk[Own(p)] /\ free = FreeName(p)
  OBVIOUS
<1>s. PICK s \in Second : s = tasks[t].second
  <2>1. tasks[t] \in TaskForm
    BY TaskIs
  <2> QED
    BY <2>1, TaskFields
<1>1. /\ UNCHANGED <<plans, ghosts>> /\ Turned(t) /\ Carrying(t) /\ tasks[t].at = "next"
      /\ tasks'[t].kind = "execute" /\ tasks'[t].job = tasks[t].job /\ tasks'[t].log = tasks[t].log
      /\ Ahead(tasks'[t]) \subseteq {q \in Paths : q > p}
      /\ \/ /\ tasks'[t].at = "displaced" /\ tasks'[t].path = p /\ tasks'[t].displaced = "stashed"
            /\ tasks'[t].to = s /\ here # Nothing
            /\ stash' = [stash EXCEPT ![<<s, p>>] = here] /\ disk' = [disk EXCEPT ![Own(p)] = Nothing]
         \/ /\ tasks'[t].at = "displaced" /\ tasks'[t].path = p /\ tasks'[t].displaced = "renamed"
            /\ tasks'[t].to = free /\ here # Nothing /\ stash' = stash
            /\ disk' = [disk EXCEPT ![Own(p)] = Nothing, ![<<p, free>>] = here]
         \/ tasks'[t].at = "next" /\ UNCHANGED <<disk, stash>>
  BY <1>0, <1>h, <1>s, DisplacesDoes
<1>2. SameLogs /\ mover' = mover /\ Did(tasks'[t]) = Did(tasks[t]) /\ Step(t) /\ Runs(t)
  BY <1>1, PlansGiveLogs, DidStays DEF ghosts, Carrying, Step, Runs
<1>3. CASE tasks'[t].at = "next" /\ UNCHANGED <<disk, stash>>
  BY <1>2, <1>3, QuietStep DEF MidWay
<1>4. ASSUME tasks'[t].at = "displaced", tasks'[t].path = p, here # Nothing,
             \/ /\ tasks'[t].displaced = "stashed" /\ tasks'[t].to = s
                /\ stash' = [stash EXCEPT ![<<s, p>>] = here] /\ disk' = [disk EXCEPT ![Own(p)] = Nothing]
             \/ /\ tasks'[t].displaced = "renamed" /\ tasks'[t].to = free /\ stash' = stash
                /\ disk' = [disk EXCEPT ![Own(p)] = Nothing, ![<<p, free>>] = here]
      PROVE  Stacks'
  <2>0. /\ disk \in [Names -> Int] /\ stash \in [Second \X Paths -> Int] /\ free \in Aside
        /\ disk[<<p, free>>] = Nothing /\ now' \in Nat /\ here \in Int /\ Nothing \in Int
    <3>1. free \in Aside /\ disk[<<p, free>>] = Nothing
      BY <1>h, FreeNameIs DEF Typed
    <3>2. disk \in [Names -> Int] /\ stash \in [Second \X Paths -> Int] /\ Own(p) \in Names
      BY RestIs, Places
    <3>3. here \in Int
      BY <1>h, <3>2
    <3>4. now' \in Nat
      BY <1>2, StepKeepsTime, RestIs, SecondsAre
    <3> QED
      BY <3>1, <3>2, <3>3, <3>4
  <2>n. \A q \in Paths : /\ Own(q) \in Names /\ Own(q) = <<q, 0>> /\ 0 \notin Aside
                         /\ \A n \in Aside : <<q, n>> \in Names /\ n # 0
    BY Places
  <2>1. /\ disk'[Own(p)] = Nothing
        /\ \A q \in Paths : q # p => disk'[Own(q)] = disk[Own(q)]
        /\ \A q \in Paths, n \in Aside : q # p => disk'[<<q, n>>] = disk[<<q, n>>]
        /\ \A n \in Aside : n # free => disk'[<<p, n>>] = disk[<<p, n>>]
        /\ tasks'[t].displaced = "stashed" => disk'[<<p, free>>] = disk[<<p, free>>]
        /\ tasks'[t].displaced = "renamed" => disk'[<<p, free>>] = here
    <3>1. CASE tasks'[t].displaced = "stashed" /\ disk' = [disk EXCEPT ![Own(p)] = Nothing]
      BY <2>0, <2>n, <3>1
    <3>2. CASE tasks'[t].displaced = "renamed" /\ disk' = [disk EXCEPT ![Own(p)] = Nothing, ![<<p, free>>] = here]
      BY <2>0, <2>n, <3>2
    <3> QED
      BY <1>4, <3>1, <3>2
  <2>2. /\ \A r \in Second, q \in Paths : q # p => stash'[<<r, q>>] = stash[<<r, q>>]
        /\ \A r \in Second : r # s => stash'[<<r, p>>] = stash[<<r, p>>]
        /\ tasks'[t].displaced = "renamed" => stash' = stash
        /\ tasks'[t].displaced = "stashed" => stash'[<<s, p>>] = here
    <3>1. CASE tasks'[t].displaced = "stashed" /\ stash' = [stash EXCEPT ![<<s, p>>] = here]
      BY <2>0, <3>1
    <3>2. CASE tasks'[t].displaced = "renamed" /\ stash' = stash
      BY <3>2
    <3> QED
      BY <1>4, <3>1, <3>2
  <2>3. \A q \in Paths : SameSeconds(q)
    BY <1>2, StepStashes
  <2>4. MidWay(tasks'[t]) /\ PathOf(tasks'[t]) = p
    BY <1>1, <1>4 DEF MidWay, PathOf
  <2>5. ASSUME NEW q \in Paths, q # p PROVE Undisturbed(q)
    <3>1. SameMoves(q)
      BY <1>1, <1>2, <2>4, <2>5, StepMoves DEF SameLogs
    <3> QED
      BY <1>2, <2>1, <2>2, <2>3, <2>5, <3>1 DEF Undisturbed
  <2>6. PICK new : new = InHand(t)'
    OBVIOUS
  <2>7. /\ Pending(p)' = {new} /\ new.displaced = tasks'[t].displaced /\ new.to = tasks'[t].to
        /\ new.after = mover[p]
    <3>1. Pending(p)' = {new}
      <4>1. Pending(p)' \subseteq {new}
        BY <1>1, <1>2, <2>6, PendingIs
      <4>2. new \in Pending(p)'
        BY <2>4, <2>6 DEF Pending
      <4> QED
        BY <4>1, <4>2
    <3>2. new = [displaced |-> tasks'[t].displaced, to |-> tasks'[t].to, after |-> mover'[tasks'[t].path]]
      BY <1>1, <2>6 DEF InHand, Undoing
    <3> QED
      BY <1>2, <1>4, <3>1, <3>2
  <2>8. \A j \in Jobs : Done(j, p)' = Done(j, p)
    <3>1. \A u \in Tasks : Did(tasks'[u]) = Did(tasks[u])
      BY <1>1, <1>2 DEF Turned
    <3> QED
      BY <1>1, <3>1 DEF Done
  <2>9. p \in ToStash(tasks[t]) /\ \A u \in Tasks : p \notin ToStash(tasks'[u])
    <3>1. p \in ToStash(tasks[t])
      BY <1>0, <1>1 DEF ToStash, Ahead, Carrying
    <3>2. \A u \in Tasks : u # t => tasks'[u].kind \notin {"execute", "put back"}
      BY <1>1, <1>2, OneRuns DEF Runs
    <3>3. p \notin ToStash(tasks'[t])
      <4>1. p \in Nat
        BY PathsEnd
      <4>2. ~(p > p)
        BY <4>1
      <4> QED
        BY <1>1, <4>2 DEF ToStash
    <3>4. \A u \in Tasks : u # t => p \notin ToStash(tasks'[u])
      BY <3>2 DEF ToStash
    <3> QED
      BY <3>1, <3>3, <3>4
  <2>10. PICK live \in SUBSET Jobs : Piled(p, live)
    BY OpenPile
  <2>11. ASSUME NEW o \in live, NEW m \in Done(o, p) PROVE SlotStays(m, p) /\ Apart(m, new)
    <3>0. o \in Jobs /\ o # 0
      OBVIOUS
    <3>1. m \in PutAside(o, p) /\ Keeps(m, p)
      BY <2>10, <2>11, <3>0 DEF PutAside, Piled, Kept
    <3>2. (m.displaced = "stashed" => m.to \in Second) /\ (m.displaced = "renamed" => m.to \in Aside)
      BY <3>0, <3>1, AsideIs
    <3>3. m.displaced = "stashed" => m.to # s
      BY <1>s, <2>9, <3>1 DEF Keeps, Holds
    <3>4. m.displaced = "renamed" => m.to # free
      BY <2>0, <3>1 DEF Keeps, Holds
    <3>5. SlotStays(m, p)
      BY <2>1, <2>2, <3>2, <3>3, <3>4 DEF SlotStays
    <3>6. Apart(m, new)
      BY <1>4, <2>7, <3>3, <3>4 DEF Apart
    <3> QED
      BY <3>5, <3>6
  <2>12. Keeps(new, p)'
    <3>1. Holds(new, p)'
      BY <1>4, <2>1, <2>2, <2>7, <2>9 DEF Holds
    <3>2. Content(new, p)' = here
      BY <1>4, <2>1, <2>2, <2>7 DEF Content
    <3>3. PICK k \in Jobs \cup {0} : k = mover[p]
      BY RestIs
    <3>4. Removes(k, p)' => Removes(k, p)
      BY <2>8, <3>3 DEF Removes
    <3>5. Removes(k, p) => Spare(here)
      BY <1>h, <2>10, <3>3 DEF Piled, Tops
    <3>6. new.after = k
      BY <2>7, <3>3
    <3>7. Removes(new.after, p)' => Spare(here)
      BY <3>4, <3>5, <3>6
    <3> QED
      BY <3>1, <3>2, <3>7 DEF Keeps
  <2>13. Piled(p, live)'
    BY <1>2, <2>0, <2>1, <2>3, <2>7, <2>8, <2>10, <2>11, <2>12, PileTakes
  <2> QED
    BY <2>0, <2>5, <2>13, StacksStayButOne
<1> QED
  BY <1>1, <1>3, <1>4

(* What a restore put at a path comes to lie on what was put there before.  *)
LEMMA PileRises ==
  ASSUME Typed, NEW p \in Paths, NEW live \in SUBSET Jobs, Piled(p, live),
         NEW j \in Jobs, j \notin live, NEW move, Done(j, p)' = {move}, Pending(p)' = {},
         \A k \in Jobs : k # j => Done(k, p)' = Done(k, p), SameLogs, plans[j].used,
         mover'[p] = j, move.after = mover[p], SameSeconds(p), now' \in Nat,
         move.copy = 0 => Spare(disk'[Own(p)]),
         \A o \in live \cup {0} : \A m \in PutAside(o, p) : SlotStays(m, p),
         \/ move.displaced = "nothing"
         \/ \E old \in Pending(p) : /\ old.displaced = move.displaced /\ old.to = move.to
                                    /\ old.after = move.after
  PROVE  Piled(p, live \cup {j})'
<1>0. 0 \notin live /\ j # 0 /\ move.after \in live \cup {0} /\ move.after \in Jobs \cup {0}
  BY DEF Piled, Stack
<1>1. /\ PutAside(0, p)' = {} /\ PutAside(j, p)' = {move} /\ PutAside(0, p) = Pending(p)
      /\ \A o \in live : PutAside(o, p)' = Done(o, p) /\ PutAside(o, p) = Done(o, p)
  BY <1>0 DEF PutAside
<1>2. \A k \in live \cup {0} : Removes(k, p)' <=> Removes(k, p)
  BY <1>0 DEF Removes
<1>3. Stack(p, live \cup {j})'
  <2>0. Stack(p, live)
    BY DEF Piled
  <2>1. ASSUME NEW k \in live \cup {j} PROVE plans'[k].used /\ (Waits(k)' => Done(k, p)' # {})
    BY <2>0, <2>1 DEF Stack, SameLogs
  <2>2. ASSUME NEW k \in live \cup {j}, NEW m \in Done(k, p)'
        PROVE  /\ m.after \in (live \cup {j}) \cup {0} /\ (m.after # 0 => m.after # mover'[p])
               /\ \A l \in live \cup {j} : \A n \in Done(l, p)' : Above(m, n) => k = l
    <3>1. CASE k = j
      <4>1. m = move
        BY <2>2, <3>1
      <4>2. ASSUME NEW l \in live, NEW n \in Done(l, p) PROVE ~Above(move, n)
        BY <2>0, <4>2 DEF Stack, Above
      <4> QED
        BY <1>0, <3>1, <4>1, <4>2
    <3>2. CASE k # j
      <4>1. k \in live /\ m \in Done(k, p)
        BY <2>2, <3>2
      <4>2. m.after \in live \cup {0} /\ (m.after # 0 => m.after # mover[p])
            /\ \A l \in live : \A n \in Done(l, p) : Above(m, n) => k = l
        BY <2>0, <4>1 DEF Stack
      <4>3. ~Above(m, move)
        BY <4>2 DEF Above
      <4> QED
        BY <1>0, <4>2, <4>3
    <3> QED
      BY <3>1, <3>2
  <2>3. \A m, n : Above(m, n)' <=> Above(m, n)
    BY DEF Above
  <2>4. mover'[p] \in (live \cup {j}) \cup {0}
    OBVIOUS
  <2> QED
    BY <2>1, <2>2, <2>4 DEF Stack, Above
<1>4. Tops(p)'
  <2>1. Removes(j, p)' => Spare(disk'[Own(p)])
    BY DEF Removes
  <2> QED
    BY <2>1 DEF Tops
<1>5. ASSUME NEW o \in live \cup {0}, NEW m \in PutAside(o, p), m.after \in live \cup {0}
      PROVE  Keeps(m, p)'
  <2>0. o \in Jobs \cup {0}
    OBVIOUS
  <2>1. /\ m.displaced \in {"nothing", "stashed", "renamed"}
        /\ m.displaced = "stashed" => m.to \in Second
    BY <1>5, <2>0, AsideIs
  <2>2. SlotStays(m, p) /\ Keeps(m, p) /\ (Removes(m.after, p)' => Removes(m.after, p))
    BY <1>2, <1>5 DEF Piled, Kept
  <2> QED
    BY <2>1, <2>2, StillKeeps
<1>6. ASSUME NEW o \in live, NEW m \in Done(o, p)
      PROVE  /\ Keeps(m, p)' /\ Apart(m, move) /\ Apart(move, m)
             /\ \A q \in live : \A n \in Done(q, p) : o # q => Apart(m, n)
  <2>1. m \in PutAside(o, p) /\ m.after \in live \cup {0}
    BY <1>1, <1>6 DEF Piled, Stack
  <2>2. \A q \in live \cup {0} : \A n \in PutAside(q, p) : o # q => Apart(m, n)
    BY <1>6, <2>1 DEF Piled, Kept
  <2>3. Apart(m, move)
    <3>1. CASE move.displaced = "nothing"
      BY <3>1 DEF Apart
    <3>2. ASSUME NEW old \in Pending(p), old.displaced = move.displaced, old.to = move.to
          PROVE  Apart(m, move)
      <4>1. Apart(m, old)
        BY <1>0, <1>1, <1>6, <2>2
      <4> QED
        BY <3>2, <4>1 DEF Apart
    <3> QED
      BY <3>1, <3>2
  <2> QED
    BY <1>1, <1>5, <2>1, <2>2, <2>3, Both
<1>7. Keeps(move, p)'
  <2>1. CASE move.displaced = "nothing"
    <3>1. Content(move, p)' = Nothing /\ Holds(move, p)'
      BY <2>1 DEF Content, Holds
    <3> QED
      BY <3>1, NothingIsSpare DEF Keeps
  <2>2. ASSUME NEW old \in Pending(p), old.displaced = move.displaced, old.to = move.to, old.after = move.after
        PROVE  Keeps(move, p)'
    <3>1. Keeps(old, p)'
      BY <1>0, <1>1, <1>5, <2>2
    <3>2. Content(move, p)' = Content(old, p)' /\ (Holds(old, p)' => Holds(move, p)')
      BY <2>2 DEF Content, Holds
    <3> QED
      BY <2>2, <3>1, <3>2 DEF Keeps
  <2> QED
    BY <2>1, <2>2
<1>8. ASSUME NEW o \in (live \cup {j}) \cup {0}, NEW m \in PutAside(o, p)'
      PROVE  /\ Keeps(m, p)'
             /\ \A q \in (live \cup {j}) \cup {0} : \A n \in PutAside(q, p)' : o # q => Apart(m, n)
  <2>1. CASE o = j
    <3>1. m = move
      BY <1>1, <1>8, <2>1
    <3> QED
      BY <1>1, <1>6, <1>7, <2>1, <3>1
  <2>2. CASE o \in live
    <3>1. m \in Done(o, p)
      BY <1>1, <1>8, <2>2
    <3> QED
      BY <1>1, <1>6, <2>2, <3>1
  <2>3. CASE o = 0
    BY <1>1, <1>8, <2>3
  <2> QED
    BY <1>8, <2>1, <2>2, <2>3
<1>9. Kept(p, live \cup {j})'
  BY <1>8 DEF Kept, Apart
<1> QED
  BY <1>3, <1>4, <1>9 DEF Piled

LEMMA ArrivesStacks ==
  ASSUME Typed, Turns, Stacks, NEW t \in Tasks, Arrives(t)
  PROVE  Stacks'
<1>p. PICK p \in Paths, j \in Jobs : p = tasks[t].path /\ j = tasks[t].job
  <2>1. tasks[t] \in TaskForm /\ Carrying(t) /\ tasks[t].path \in Paths
    BY TaskIs, ArrivesDoes
  <2>2. tasks[t].job \in Jobs
    BY <2>1, TaskFields DEF CarriesOut, Carrying
  <2> QED
    BY <2>1, <2>2
<1>m. PICK move, copy : move = MoveOf(tasks[t]) /\ copy = tasks[t].entries[p].copy
  OBVIOUS
<1>0. p = tasks[t].path /\ j = tasks[t].job /\ move = MoveOf(tasks[t]) /\ copy = tasks[t].entries[p].copy
  BY <1>p, <1>m
<1>c. CarriesOut(tasks[t]) /\ tasks[t] \in TaskForm
  BY TaskIs, TaskFields, ArrivesDoes DEF Carrying
<1>1. /\ UNCHANGED <<stash, plans>> /\ Turned(t) /\ Carrying(t) /\ tasks[t].at # "begin"
      /\ tasks'[t].kind = "execute" /\ tasks'[t].at = "next" /\ tasks'[t].job = j
      /\ \/ /\ disk' = [disk EXCEPT ![Own(p)] = Source(tasks[t])]
            /\ mover' = [mover EXCEPT ![p] = j]
            /\ Arrived(tasks'[t].log) = Arrived(tasks[t].log) \cup {move}
            /\ move \in MoveRecord
         \/ UNCHANGED <<disk, mover>> /\ tasks'[t].log = tasks[t].log
  BY <1>0, ArrivesDoes
<1>2. SameLogs /\ Step(t) /\ Runs(t) /\ ~MidWay(tasks'[t]) /\ now' \in Nat
      /\ \A q \in Paths : SameSeconds(q)
  <2>1. SameLogs /\ Step(t) /\ Runs(t) /\ ~MidWay(tasks'[t])
    BY <1>1, PlansGiveLogs DEF Step, Runs, Carrying, MidWay
  <2> QED
    BY <2>1, StepStashes, StepKeepsTime, RestIs, SecondsAre
<1>3. CASE UNCHANGED <<disk, mover>> /\ tasks'[t].log = tasks[t].log
  <2>1. Did(tasks'[t]) = Did(tasks[t])
    BY <1>0, <1>1, <1>3, DidStays DEF Carrying
  <2> QED
    BY <1>1, <1>2, <1>3, <2>1, QuietStep
<1>4. ASSUME disk' = [disk EXCEPT ![Own(p)] = Source(tasks[t])], mover' = [mover EXCEPT ![p] = j],
             Arrived(tasks'[t].log) = Arrived(tasks[t].log) \cup {move}, move \in MoveRecord
      PROVE  Stacks'
  <2>1. /\ disk'[Own(p)] = Source(tasks[t]) /\ \A q \in Paths : q # p => disk'[Own(q)] = disk[Own(q)]
        /\ \A q \in Paths, n \in Aside : disk'[<<q, n>>] = disk[<<q, n>>]
        /\ mover'[p] = j /\ \A q \in Paths : q # p => mover'[q] = mover[q]
    <3>1. disk \in [Names -> Int] /\ mover \in [Paths -> Jobs \cup {0}]
      BY RestIs
    <3>2. \A q \in Paths : /\ Own(q) \in Names /\ Own(q) = <<q, 0>> /\ 0 \notin Aside
                           /\ \A n \in Aside : <<q, n>> \in Names /\ n # 0
      BY Places
    <3> QED
      BY <1>4, <3>1, <3>2
  <2>2. /\ move.kind = "arrived" /\ move.path = p /\ move.copy = copy
        /\ move.displaced = tasks[t].displaced /\ move.to = tasks[t].to /\ move.after = mover[p]
    BY <1>0 DEF MoveOf
  <2>3. \A d : d \in Did(tasks'[t]) <=> d \in Did(tasks[t]) \/ d = <<j, move>>
    BY <1>0, <1>1, <1>4 DEF Did, Carrying
  <2>4. ASSUME NEW q \in Paths, q # p PROVE Undisturbed(q)
    <3>1. {d \in Did(tasks'[t]) : d[2].path = q} = {d \in Did(tasks[t]) : d[2].path = q}
      <4>1. <<j, move>>[2].path # q
        BY <2>2, <2>4
      <4> QED
        BY <2>3, <4>1
    <3>2. SameMoves(q)
      BY <1>1, <1>2, <3>1, StepMoves DEF SameLogs
    <3> QED
      BY <1>1, <1>2, <2>1, <2>4, <3>2 DEF Undisturbed
  <2>5. Waits(j) /\ plans[j].used /\ plans[j].log = <<>>
    <3>1. plans[j].held /\ ~plans[j].logged
      BY <1>0, <1>1 DEF Turns, OfPlans, OfPlan, Carrying
    <3> QED
      BY <3>1, PlanIs DEF Waits
  <2>6. \A u \in Tasks : u # t => Did(tasks[u]) = {} /\ Did(tasks'[u]) = {}
    BY <1>1, <1>2, OneRuns, NothingIsDone DEF Carrying
  <2>7. Done(j, p) = {}
    <3>1. SUFFICES ASSUME NEW m \in Done(j, p) PROVE FALSE
      OBVIOUS
    <3>2. m.path = p
      BY DEF Done
    <3>3. m \notin Arrived(plans[j].log)
      BY <2>5, NoMoves DEF Arrived
    <3>4. m \in Arrived(tasks[t].log)
      <4>1. <<j, m>> \in Did(tasks[t])
        BY <2>6, <3>3 DEF Done
      <4> QED
        BY <4>1 DEF Did
    <3>5. m.path \notin Ahead(tasks[t]) /\ (tasks[t].at = "displaced" => m.path # tasks[t].path)
      BY <1>c, <3>4 DEF CarriesOut
    <3>6. tasks[t].at \in {"begin", "next", "displaced"}
      BY <1>c, TaskFields
    <3> QED
      BY <1>0, <1>1, <3>2, <3>5, <3>6 DEF Ahead
  <2>8. Done(j, p)' = {move}
    <3>1. \A m : m \in Done(j, p)' => m = move
      <4>1. SUFFICES ASSUME NEW m \in Done(j, p)', m # move PROVE FALSE
        OBVIOUS
      <4>2. m \in MoveRecord /\ m.path = p
        BY DEF Done
      <4>3. \E u \in Tasks : <<j, m>> \in Did(tasks'[u])
        BY <1>1, <2>5, NoMoves DEF Done, Arrived
      <4>4. <<j, m>> \in Did(tasks[t])
        BY <2>3, <2>6, <4>1, <4>3
      <4> QED
        BY <2>7, <4>2, <4>4 DEF Done
    <3>2. move \in Done(j, p)'
      BY <1>4, <2>2, <2>3 DEF Done
    <3> QED
      BY <3>1, <3>2
  <2>9. ASSUME NEW k \in Jobs, k # j PROVE Done(k, p)' = Done(k, p)
    <3>1. \A u \in Tasks : \A m : <<k, m>> \in Did(tasks'[u]) <=> <<k, m>> \in Did(tasks[u])
      BY <2>3, <2>6, <2>9
    <3> QED
      BY <1>1, <3>1 DEF Done
  <2>10. PICK live \in SUBSET Jobs : Piled(p, live)
    BY OpenPile
  <2>11. j \notin live
    BY <2>5, <2>7, <2>10 DEF Piled, Stack
  <2>12. Pending(p)' = {}
    BY <1>1, <1>2, PendingIs
  <2>13. move.copy = 0 => Spare(disk'[Own(p)])
    BY <1>0, <2>1, <2>2, NothingIsSpare DEF Source
  <2>14. ASSUME NEW o \in live \cup {0}, NEW m \in PutAside(o, p) PROVE SlotStays(m, p)
    <3>1. o \in Jobs \cup {0}
      OBVIOUS
    <3>2. m.displaced = "renamed" => m.to \in Aside
      BY <2>14, <3>1, AsideIs
    <3> QED
      BY <1>1, <2>1, <3>2 DEF SlotStays
  <2>15. \/ move.displaced = "nothing"
         \/ \E old \in Pending(p) : /\ old.displaced = move.displaced /\ old.to = move.to
                                    /\ old.after = move.after
    <3>1. CASE tasks[t].at # "displaced"
      BY <1>c, <2>2, <3>1 DEF CarriesOut
    <3>2. CASE tasks[t].at = "displaced"
      <4>1. MidWay(tasks[t]) /\ PathOf(tasks[t]) = p
        BY <1>0, <1>1, <3>2 DEF MidWay, PathOf, Carrying
      <4>2. InHand(t) \in Pending(p)
        BY <4>1 DEF Pending
      <4>3. InHand(t) = [displaced |-> tasks[t].displaced, to |-> tasks[t].to, after |-> mover[p]]
        BY <1>0, <1>1 DEF InHand, Undoing, Carrying
      <4> QED
        BY <2>2, <4>2, <4>3
    <3> QED
      BY <3>1, <3>2
  <2>16. Piled(p, live \cup {j})'
    BY <1>2, <2>1, <2>2, <2>5, <2>8, <2>9, <2>10, <2>11, <2>12, <2>13, <2>14, <2>15, PileRises
  <2>17. live \cup {j} \in SUBSET Jobs
    OBVIOUS
  <2> QED
    BY <1>2, <2>4, <2>16, <2>17, StacksStayButOne
<1> QED
  BY <1>1, <1>3, <1>4

(* What a restore put at a path is taken away, and what it put aside is in  *)
(* hand.                                                                    *)
LEMMA PileFalls ==
  ASSUME Typed, NEW p \in Paths, NEW live \in SUBSET Jobs, Piled(p, live),
         NEW j \in Jobs, mover[p] = j, NEW move \in Done(j, p), mover'[p] = move.after,
         \A k \in Jobs : Done(k, p)' = Done(k, p), SameLogs, Pending(p)' \subseteq {move},
         SameSeconds(p), now' \in Nat, disk'[Own(p)] = Nothing,
         \A o \in live : \A m \in Done(o, p) : SlotStays(m, p)
  PROVE  Piled(p, live \ {j})'
<1>0. 0 \notin live /\ j # 0 /\ j \in live
  BY DEF Piled, Stack
<1>1. /\ PutAside(0, p)' \subseteq {move}
      /\ \A o \in live : PutAside(o, p)' = Done(o, p) /\ PutAside(o, p) = Done(o, p)
  BY <1>0 DEF PutAside
<1>2. \A k \in Jobs \cup {0} : Removes(k, p)' <=> Removes(k, p)
  BY DEF Removes
<1>3. Stack(p, live \ {j})'
  <2>0. Stack(p, live)
    BY DEF Piled
  <2>1. ASSUME NEW k \in live \ {j} PROVE plans'[k].used /\ (Waits(k)' => Done(k, p)' # {})
    BY <2>0, <2>1 DEF Stack, SameLogs
  <2>2. move.after \in live \cup {0} /\ (move.after # 0 => move.after # j)
    BY <1>0, <2>0 DEF Stack
  <2>3. ASSUME NEW k \in live \ {j}, NEW m \in Done(k, p)
        PROVE  /\ m.after \in (live \ {j}) \cup {0} /\ (m.after # 0 => m.after # move.after)
               /\ \A l \in live \ {j} : \A n \in Done(l, p) : Above(m, n) => k = l
    <3>1. /\ m.after \in live \cup {0} /\ (m.after # 0 => m.after # j)
          /\ \A l \in live : \A n \in Done(l, p) : Above(m, n) => k = l
      BY <2>0, <2>3 DEF Stack
    <3>2. ~Above(m, move)
      BY <1>0, <2>3, <3>1
    <3> QED
      BY <3>1, <3>2 DEF Above
  <2>4. mover'[p] \in (live \ {j}) \cup {0}
    BY <2>2
  <2> QED
    BY <2>1, <2>3, <2>4 DEF Stack, Above
<1>4. Tops(p)'
  BY NothingIsSpare DEF Tops
<1>5. ASSUME NEW o \in live, NEW m \in Done(o, p)
      PROVE  /\ Keeps(m, p)'
             /\ \A q \in live : \A n \in Done(q, p) : o # q => Apart(m, n)
  <2>1. m \in PutAside(o, p) /\ o \in Jobs
    BY <1>1, <1>5
  <2>2. /\ m.displaced \in {"nothing", "stashed", "renamed"} /\ m.after \in Jobs \cup {0}
        /\ m.displaced = "stashed" => m.to \in Second
    BY <2>1, AsideIs
  <2>3. SlotStays(m, p) /\ Keeps(m, p) /\ (Removes(m.after, p)' => Removes(m.after, p))
    BY <1>2, <1>5, <2>1, <2>2 DEF Piled, Kept
  <2>4. Keeps(m, p)'
    BY <2>2, <2>3, StillKeeps
  <2>5. \A q \in live : \A n \in Done(q, p) : o # q => Apart(m, n)
    BY <1>1, <1>5, <2>1 DEF Piled, Kept
  <2> QED
    BY <2>4, <2>5
<1>6. ASSUME NEW o \in (live \ {j}) \cup {0}, NEW m \in PutAside(o, p)'
      PROVE  /\ Keeps(m, p)'
             /\ \A q \in (live \ {j}) \cup {0} : \A n \in PutAside(q, p)' : o # q => Apart(m, n)
  <2>1. CASE o = 0
    <3>1. m = move
      BY <1>1, <1>6, <2>1
    <3>2. \A q \in live \ {j} : \A n \in Done(q, p) : Apart(move, n)
      BY <1>0, <1>5
    <3> QED
      BY <1>0, <1>1, <1>5, <2>1, <3>1, <3>2
  <2>2. CASE o \in live \ {j}
    <3>1. m \in Done(o, p)
      BY <1>1, <1>6, <2>2
    <3>2. Apart(m, move)
      BY <1>0, <1>5, <2>2, <3>1
    <3>3. Keeps(m, p)' /\ \A q \in live : \A n \in Done(q, p) : o # q => Apart(m, n)
      BY <1>5, <2>2, <3>1
    <3>4. ASSUME NEW q \in (live \ {j}) \cup {0}, NEW n \in PutAside(q, p)', o # q PROVE Apart(m, n)
      <4>1. CASE q = 0
        <5>1. n = move
          BY <1>1, <3>4, <4>1
        <5> QED
          BY <3>2, <5>1
      <4>2. CASE q \in live
        BY <1>1, <3>3, <3>4, <4>2
      <4> QED
        BY <3>4, <4>1, <4>2
    <3> QED
      BY <3>3, <3>4
  <2> QED
    BY <1>6, <2>1, <2>2
<1>7. Kept(p, live \ {j})'
  BY <1>6 DEF Kept, Apart
<1> QED
  BY <1>3, <1>4, <1>7 DEF Piled

\* What an undoing has still to undo is still what the restore put there.
Remaining(task) ==
  {task.log[i] : i \in {k \in DOMAIN task.log : k < task.path \/ (k = task.path /\ task.at = "next")}}
StillItsOwn ==
  \A t \in Tasks : Undoing(t) =>
    /\ tasks[t].at = "begin" => \A m \in Arrived(plans[tasks[t].job].log) : mover[m.path] = tasks[t].job
    /\ tasks[t].at # "begin" =>
         \A m \in Remaining(tasks[t]) : m.kind = "arrived" => mover[m.path] = tasks[t].job
    /\ tasks[t].at = "displaced" => mover[Undone(tasks[t]).path] = Undone(tasks[t]).after

(* The move that is undone is of the restore that was there last.           *)
LEMMA UndoneIsDone ==
  ASSUME Typed, Turns, NEW t \in Tasks, Undoing(t), tasks[t].at # "begin", tasks[t].path > 0,
         Undone(tasks[t]).kind = "arrived"
  PROVE  /\ tasks[t].job \in Jobs /\ Undone(tasks[t]).path \in Paths
         /\ Undone(tasks[t]) \in Arrived(plans[tasks[t].job].log)
         /\ Undone(tasks[t]) \in Done(tasks[t].job, Undone(tasks[t]).path)
         /\ StillItsOwn /\ tasks[t].at = "next" => mover[Undone(tasks[t]).path] = tasks[t].job
<1>1. tasks[t] \in TaskForm
  BY TaskIs
<1>2. Undoes(tasks[t])
  BY <1>1, TaskFields DEF Undoing
<1>3. /\ tasks[t].path \in DOMAIN tasks[t].log /\ Undone(tasks[t]) \in Moves(tasks[t].log)
      /\ Undone(tasks[t]) \in MoveRecord
  BY <1>1, UndoneIs DEF Undoing
<1>4. tasks[t].log = plans[tasks[t].job].log
  BY DEF Turns, OfPlans, OfPlan, Undoing
<1>5. tasks[t].job \in Jobs /\ Undone(tasks[t]).path \in Paths
  BY <1>2, <1>3, MoveFields DEF Undoes
<1>6. Undone(tasks[t]) \in Arrived(plans[tasks[t].job].log)
  BY <1>3, <1>4 DEF Arrived
<1>7. Undone(tasks[t]) \in Done(tasks[t].job, Undone(tasks[t]).path)
  BY <1>3, <1>6 DEF Done
<1>8. StillItsOwn /\ tasks[t].at = "next" => mover[Undone(tasks[t]).path] = tasks[t].job
  <2>1. tasks[t].at = "next" => Undone(tasks[t]) \in Remaining(tasks[t])
    BY <1>3 DEF Remaining, Undone
  <2> QED
    BY <2>1 DEF StillItsOwn
<1> QED
  BY <1>5, <1>6, <1>7, <1>8

LEMMA FallsStacks ==
  ASSUME Typed, Turns, Stacks, StillItsOwn, NEW t \in Tasks, UndoRemoves(t) \/ UndoTrashes(t)
  PROVE  Stacks'
<1>m. PICK move : move = Undone(tasks[t])
  OBVIOUS
<1>p. PICK p, j : p = move.path /\ j = tasks[t].job
  OBVIOUS
<1>1. /\ UNCHANGED <<stash, plans>> /\ Turned(t) /\ Undoing(t) /\ tasks[t].at = "next" /\ tasks[t].path > 0
      /\ move \in MoveRecord /\ move.kind = "arrived"
      /\ tasks'[t].kind = "undo" /\ tasks'[t].job = tasks[t].job /\ tasks'[t].log = tasks[t].log
      /\ \/ /\ disk' = [disk EXCEPT ![Own(p)] = Nothing] /\ mover' = [mover EXCEPT ![p] = move.after]
            /\ tasks'[t].at = "next" \/ (tasks'[t].at = "displaced" /\ tasks'[t].path = tasks[t].path)
         \/ UNCHANGED <<disk, mover>> /\ tasks'[t].at = "next"
  <2>1. CASE UndoRemoves(t)
    BY <1>m, <1>p, <2>1, UndoRemovesDoes
  <2>2. CASE UndoTrashes(t)
    BY <1>m, <1>p, <2>2, UndoTrashesDoes
  <2> QED
    BY <2>1, <2>2
<1>2. /\ SameLogs /\ Step(t) /\ Runs(t) /\ now' \in Nat /\ Did(tasks'[t]) = {} /\ Did(tasks[t]) = {}
      /\ \A q \in Paths : SameSeconds(q)
  <2>1. SameLogs /\ Step(t) /\ Runs(t) /\ Did(tasks'[t]) = {} /\ Did(tasks[t]) = {}
    BY <1>1, PlansGiveLogs, NothingIsDone DEF Step, Runs, Undoing
  <2> QED
    BY <2>1, StepStashes, StepKeepsTime, RestIs, SecondsAre
<1>3. CASE UNCHANGED <<disk, mover>> /\ tasks'[t].at = "next"
  <2>1. ~MidWay(tasks'[t])
    BY <1>3 DEF MidWay
  <2> QED
    BY <1>1, <1>2, <1>3, <2>1, QuietStep
<1>4. ASSUME disk' = [disk EXCEPT ![Own(p)] = Nothing], mover' = [mover EXCEPT ![p] = move.after],
             tasks'[t].at = "next" \/ (tasks'[t].at = "displaced" /\ tasks'[t].path = tasks[t].path)
      PROVE  Stacks'
  <2>0. p \in Paths /\ j \in Jobs /\ move \in Done(j, p) /\ mover[p] = j /\ p = Undone(tasks[t]).path
    BY <1>m, <1>p, <1>1, UndoneIsDone
  <2>1. /\ disk'[Own(p)] = Nothing /\ \A q \in Paths : q # p => disk'[Own(q)] = disk[Own(q)]
        /\ \A q \in Paths, n \in Aside : disk'[<<q, n>>] = disk[<<q, n>>]
        /\ mover'[p] = move.after /\ \A q \in Paths : q # p => mover'[q] = mover[q]
    <3>1. disk \in [Names -> Int] /\ mover \in [Paths -> Jobs \cup {0}]
      BY RestIs
    <3>2. \A q \in Paths : /\ Own(q) \in Names /\ Own(q) = <<q, 0>> /\ 0 \notin Aside
                           /\ \A n \in Aside : <<q, n>> \in Names /\ n # 0
      BY Places
    <3>3. /\ disk'[Own(p)] = Nothing /\ \A q \in Paths : q # p => disk'[Own(q)] = disk[Own(q)]
          /\ \A q \in Paths, n \in Aside : disk'[<<q, n>>] = disk[<<q, n>>]
      BY <1>4, <2>0, <3>1, <3>2
    <3>4. mover'[p] = move.after /\ \A q \in Paths : q # p => mover'[q] = mover[q]
      BY <1>4, <2>0, <3>1
    <3> QED
      BY <3>3, <3>4
  <2>2. /\ tasks'[t].at = "displaced" => Undone(tasks[t]') = move /\ PathOf(tasks[t]') = p
        /\ InHand(t)' = Undone(tasks[t]')
    <3>1. tasks'[t].at = "displaced" => Undone(tasks[t]') = move /\ PathOf(tasks[t]') = p
      BY <1>m, <1>p, <1>1, <1>4, UndoneStays
    <3>2. InHand(t)' = Undone(tasks[t]')
      BY <1>1 DEF InHand, Undoing
    <3> QED
      BY <3>1, <3>2
  <2>3. ASSUME NEW q \in Paths, q # p PROVE Undisturbed(q)
    <3>1. ~(MidWay(tasks'[t]) /\ PathOf(tasks'[t]) = q)
      BY <1>4, <2>2, <2>3 DEF MidWay
    <3>2. SameMoves(q)
      BY <1>1, <1>2, <3>1, StepMoves DEF SameLogs
    <3> QED
      BY <1>1, <1>2, <2>1, <2>3, <3>2 DEF Undisturbed
  <2>4. \A k \in Jobs : Done(k, p)' = Done(k, p)
    <3>1. \A u \in Tasks : Did(tasks'[u]) = Did(tasks[u])
      BY <1>1, <1>2 DEF Turned
    <3> QED
      BY <1>1, <3>1 DEF Done
  <2>5. Pending(p)' \subseteq {move}
    <3>1. CASE tasks'[t].at = "displaced"
      BY <1>1, <1>2, <2>2, <3>1, PendingIs
    <3>2. CASE tasks'[t].at = "next"
      <4>1. ~MidWay(tasks'[t])
        BY <3>2 DEF MidWay
      <4> QED
        BY <1>1, <1>2, <4>1, PendingIs
    <3> QED
      BY <1>4, <3>1, <3>2
  <2>6. PICK live \in SUBSET Jobs : Piled(p, live)
    BY <2>0, OpenPile
  <2>7. ASSUME NEW o \in live, NEW m \in Done(o, p) PROVE SlotStays(m, p)
    <3>1. o \in Jobs
      OBVIOUS
    <3>2. m.displaced = "renamed" => m.to \in Aside
      BY <2>0, <2>7, <3>1, DoneIs DEF Slot
    <3> QED
      BY <1>1, <2>0, <2>1, <3>2 DEF SlotStays
  <2>8. Piled(p, live \ {j})'
    BY <1>2, <2>0, <2>1, <2>4, <2>5, <2>6, <2>7, PileFalls
  <2>9. live \ {j} \in SUBSET Jobs
    OBVIOUS
  <2> QED
    BY <1>2, <2>0, <2>3, <2>8, <2>9, StacksStayButOne
<1> QED
  BY <1>1, <1>3, <1>4

LEMMA OwnAlone ==
  ASSUME Typed, NEW p \in Paths, NEW x, disk' = [disk EXCEPT ![Own(p)] = x]
  PROVE  /\ disk'[Own(p)] = x /\ \A q \in Paths : q # p => disk'[Own(q)] = disk[Own(q)]
         /\ \A q \in Paths, n \in Aside : disk'[<<q, n>>] = disk[<<q, n>>]
<1>1. disk \in [Names -> Int]
  BY RestIs
<1>2. \A q \in Paths : /\ Own(q) \in Names /\ Own(q) = <<q, 0>> /\ 0 \notin Aside
                       /\ \A n \in Aside : <<q, n>> \in Names /\ n # 0
  BY Places
<1> QED
  BY <1>1, <1>2

LEMMA SlotAlone ==
  ASSUME Typed, NEW s \in Second, NEW p \in Paths, NEW x, stash' = [stash EXCEPT ![<<s, p>>] = x]
  PROVE  /\ \A r \in Second, q \in Paths : q # p \/ r # s => stash'[<<r, q>>] = stash[<<r, q>>]
         /\ stash'[<<s, p>>] = x
BY RestIs

LEMMA ReturnsStacks ==
  ASSUME Typed, Turns, Stacks, StillItsOwn, NEW t \in Tasks, UndoReturns(t)
  PROVE  Stacks'
<1>m. PICK move : move = Undone(tasks[t])
  OBVIOUS
<1>p. PICK p, s : p = move.path /\ s = move.to
  OBVIOUS
<1>1. /\ UNCHANGED <<plans, ghosts>> /\ Turned(t) /\ Undoing(t) /\ tasks[t].at = "displaced" /\ tasks[t].path > 0
      /\ move \in MoveRecord /\ move.kind = "arrived" /\ tasks'[t].kind = "undo" /\ tasks'[t].at = "next"
      /\ \/ /\ move.displaced = "stashed" /\ s \in Second
            /\ stash' = [stash EXCEPT ![<<s, p>>] = Nothing]
            /\ disk' = [disk EXCEPT ![Own(p)] = stash[<<s, p>>]]
         \/ /\ move.displaced = "renamed" /\ s \in Aside /\ stash' = stash
            /\ disk' = [disk EXCEPT ![Own(p)] = disk[<<p, s>>], ![<<p, s>>] = Nothing]
         \/ UNCHANGED <<disk, stash>>
  BY <1>m, <1>p, UndoReturnsDoes
<1>2. /\ SameLogs /\ Step(t) /\ Runs(t) /\ now' \in Nat /\ Did(tasks'[t]) = {} /\ Did(tasks[t]) = {}
      /\ (\A q \in Paths : SameSeconds(q)) /\ ~MidWay(tasks'[t]) /\ mover' = mover
  <2>1. SameLogs /\ Step(t) /\ Runs(t) /\ Did(tasks'[t]) = {} /\ Did(tasks[t]) = {}
        /\ ~MidWay(tasks'[t]) /\ mover' = mover
    BY <1>1, PlansGiveLogs, NothingIsDone DEF Step, Runs, Undoing, MidWay, ghosts
  <2> QED
    BY <2>1, StepStashes, StepKeepsTime, RestIs, SecondsAre
<1>3. \A q \in Paths : SameMoves(q)
  BY <1>1, <1>2, StepMoves DEF SameLogs
<1>4. CASE UNCHANGED <<disk, stash>>
  BY <1>2, <1>4, QuietStep
<1>5. p \in Paths /\ mover[p] = move.after
  <2>1. p \in Paths
    BY <1>m, <1>p, <1>1, UndoneIsDone
  <2> QED
    BY <1>m, <1>p, <1>1, <2>1 DEF StillItsOwn
<1>6. move \in PutAside(0, p) /\ PutAside(0, p)' = {}
  <2>1. MidWay(tasks[t]) /\ PathOf(tasks[t]) = p /\ InHand(t) = move
    BY <1>m, <1>p, <1>1 DEF MidWay, PathOf, InHand, Undoing
  <2>2. Pending(p)' = {}
    BY <1>1, <1>2, PendingIs
  <2> QED
    BY <2>1, <2>2 DEF PutAside, Pending
<1>7. PICK live \in SUBSET Jobs : Piled(p, live)
  BY <1>5, OpenPile
<1>8. Removes(mover[p], p) => Spare(Content(move, p))
  BY <1>5, <1>6, <1>7 DEF Piled, Kept, Keeps
<1>9. ASSUME NEW o \in live \cup {0}, NEW m \in PutAside(o, p)'
      PROVE  /\ m.displaced = "stashed" => m.to \in Second
             /\ m.displaced = "renamed" => m.to \in Aside
             /\ Apart(move, m)
  <2>1. o # 0 /\ m \in PutAside(o, p) /\ o \in Jobs \cup {0}
    BY <1>3, <1>5, <1>6, <1>9, AsideShrinks
  <2>2. (m.displaced = "stashed" => m.to \in Second) /\ (m.displaced = "renamed" => m.to \in Aside)
    BY <1>5, <2>1, AsideIs
  <2>3. Apart(move, m)
    BY <1>6, <1>7, <1>9, <2>1 DEF Piled, Kept
  <2> QED
    BY <2>2, <2>3
<1>10. CASE /\ move.displaced = "stashed" /\ s \in Second
            /\ stash' = [stash EXCEPT ![<<s, p>>] = Nothing]
            /\ disk' = [disk EXCEPT ![Own(p)] = stash[<<s, p>>]]
  <2>1. /\ disk'[Own(p)] = Content(move, p) /\ \A q \in Paths : q # p => disk'[Own(q)] = disk[Own(q)]
        /\ \A q \in Paths, n \in Aside : disk'[<<q, n>>] = disk[<<q, n>>]
    BY ZenonT(60), <1>p, <1>5, <1>10, OwnAlone DEF Content
  <2>2. \A r \in Second, q \in Paths : q # p \/ r # s => stash'[<<r, q>>] = stash[<<r, q>>]
    BY <1>5, <1>10, SlotAlone
  <2>3. \A q \in Paths : q # p => Undisturbed(q)
    BY <1>2, <1>3, <2>1, <2>2 DEF Undisturbed
  <2>4. ASSUME NEW o \in live \cup {0}, NEW m \in PutAside(o, p)' PROVE SlotStays(m, p)
    <3>1. m.displaced = "stashed" => m.to # s
      BY <1>p, <1>9, <1>10, <2>4 DEF Apart
    <3> QED
      BY <1>5, <1>9, <2>1, <2>2, <2>4, <3>1 DEF SlotStays
  <2>5. Piled(p, live)'
    BY <1>2, <1>3, <1>5, <1>7, <1>8, <2>1, <2>4, PileStays
  <2> QED
    BY <1>2, <1>5, <2>3, <2>5, StacksStayButOne
<1>11. CASE /\ move.displaced = "renamed" /\ s \in Aside /\ stash' = stash
            /\ disk' = [disk EXCEPT ![Own(p)] = disk[<<p, s>>], ![<<p, s>>] = Nothing]
  <2>1. /\ disk'[Own(p)] = Content(move, p) /\ \A q \in Paths : q # p => disk'[Own(q)] = disk[Own(q)]
        /\ \A q \in Paths, n \in Aside : q # p \/ n # s => disk'[<<q, n>>] = disk[<<q, n>>]
    <3>1. disk \in [Names -> Int]
      BY RestIs
    <3>2. \A q \in Paths : /\ Own(q) \in Names /\ Own(q) = <<q, 0>> /\ 0 \notin Aside
                           /\ \A n \in Aside : <<q, n>> \in Names /\ n # 0
      BY Places
    <3>3. Content(move, p) = disk[<<p, s>>]
      BY <1>p, <1>11 DEF Content
    <3> HIDE <1>1
    <3> QED
      BY <1>5, <1>11, <3>1, <3>2, <3>3
  <2>3. \A q \in Paths : q # p => Undisturbed(q)
    BY <1>2, <1>3, <1>11, <2>1 DEF Undisturbed
  <2>4. ASSUME NEW o \in live \cup {0}, NEW m \in PutAside(o, p)' PROVE SlotStays(m, p)
    <3>1. m.displaced = "renamed" => m.to # s
      BY <1>p, <1>9, <1>11, <2>4 DEF Apart
    <3> QED
      BY <1>5, <1>9, <1>11, <2>1, <2>4, <3>1 DEF SlotStays
  <2>5. Piled(p, live)'
    BY <1>2, <1>3, <1>5, <1>7, <1>8, <2>1, <2>4, PileStays
  <2> QED
    BY <1>2, <1>5, <2>3, <2>5, StacksStayButOne
<1> QED
  BY <1>1, <1>4, <1>10, <1>11

LEMMA PutBackStacks ==
  ASSUME Typed, Turns, Stacks, NEW t \in Tasks, PutBackDisplaces(t) \/ PutBackArrives(t)
  PROVE  Stacks'
<1>s. PICK s \in Second : s = tasks[t].second
  <2>1. tasks[t] \in TaskForm
    BY TaskIs
  <2> QED
    BY <2>1, TaskFields
<1>p. PICK p \in Paths : p = tasks[t].path
  BY PutBackDisplacesDoes, PutBackArrivesDoes
<1>h. PICK here : here = disk[Own(p)]
  OBVIOUS
<1>1. /\ UNCHANGED plans /\ Turned(t) /\ tasks[t].kind = "put back"
      /\ tasks'[t].kind \in {"put back", "over"}
  <2>1. CASE PutBackDisplaces(t)
    BY <2>1, PutBackDisplacesDoes
  <2>2. CASE PutBackArrives(t)
    BY <2>2, PutBackArrivesDoes
  <2> QED
    BY <2>1, <2>2
<1>2. /\ SameLogs /\ Step(t) /\ Runs(t) /\ now' \in Nat /\ Did(tasks'[t]) = {} /\ Did(tasks[t]) = {}
      /\ (\A q \in Paths : SameSeconds(q)) /\ ~MidWay(tasks'[t])
  <2>1. SameLogs /\ Step(t) /\ Runs(t) /\ Did(tasks'[t]) = {} /\ Did(tasks[t]) = {}
        /\ ~MidWay(tasks'[t])
    BY <1>1, PlansGiveLogs, NothingIsDone DEF Step, Runs, MidWay
  <2> QED
    BY <2>1, StepStashes, StepKeepsTime, RestIs, SecondsAre
<1>3. \A q \in Paths : SameMoves(q)
  BY <1>1, <1>2, StepMoves DEF SameLogs
<1>4. PICK live \in SUBSET Jobs : Piled(p, live)
  BY OpenPile
<1>5. CASE UNCHANGED <<disk, stash, mover>>
  BY <1>2, <1>5, QuietStep
<1>6. ASSUME tasks[t].at = "next", mover' = mover, stash' = [stash EXCEPT ![<<s, p>>] = here],
             disk' = [disk EXCEPT ![Own(p)] = Nothing]
      PROVE  Stacks'
  <2>1. /\ disk'[Own(p)] = Nothing /\ \A q \in Paths : q # p => disk'[Own(q)] = disk[Own(q)]
        /\ \A q \in Paths, n \in Aside : disk'[<<q, n>>] = disk[<<q, n>>]
    BY <1>6, OwnAlone
  <2>2. \A r \in Second, q \in Paths : q # p \/ r # s => stash'[<<r, q>>] = stash[<<r, q>>]
    BY <1>6, SlotAlone
  <2>3. \A q \in Paths : q # p => Undisturbed(q)
    BY <1>2, <1>3, <1>6, <2>1, <2>2 DEF Undisturbed
  <2>4. ASSUME NEW o \in live \cup {0}, NEW m \in PutAside(o, p)' PROVE SlotStays(m, p)
    <3>1. m \in PutAside(o, p) /\ o \in Jobs \cup {0}
      BY <1>3, <2>4, AsideShrinks
    <3>2. (m.displaced = "stashed" => m.to \in Second) /\ (m.displaced = "renamed" => m.to \in Aside)
      BY <3>1, AsideIs
    <3>3. p \in ToStash(tasks[t])
      BY <1>p, <1>1, <1>6 DEF ToStash
    <3>4. m.displaced = "stashed" => m.to # s
      BY <1>s, <1>4, <2>4, <3>1, <3>3 DEF Piled, Kept, Keeps, Holds
    <3> QED
      BY <2>1, <2>2, <3>2, <3>4 DEF SlotStays
  <2>5. Piled(p, live)'
    BY <1>2, <1>3, <1>4, <1>6, <2>1, <2>4, NothingIsSpare, PileStays
  <2> QED
    BY <1>2, <2>3, <2>5, StacksStayButOne
<1>7. ASSUME NEW x, NEW r \in Second, disk' = [disk EXCEPT ![Own(p)] = x],
             stash' = [stash EXCEPT ![<<r, p>>] = Nothing], mover' = [mover EXCEPT ![p] = 0]
      PROVE  Stacks'
  <2>1. /\ \A q \in Paths : q # p => disk'[Own(q)] = disk[Own(q)]
        /\ \A q \in Paths, n \in Aside : disk'[<<q, n>>] = disk[<<q, n>>]
    BY <1>7, OwnAlone
  <2>2. \A u \in Second, q \in Paths : q # p => stash'[<<u, q>>] = stash[<<u, q>>]
    BY <1>7, SlotAlone
  <2>m. mover'[p] = 0 /\ \A q \in Paths : q # p => mover'[q] = mover[q]
    <3>1. mover \in [Paths -> Jobs \cup {0}]
      BY RestIs
    <3> QED
      BY <1>7, <3>1
  <2>3. \A q \in Paths : q # p => Undisturbed(q)
    BY <1>2, <1>3, <2>1, <2>2, <2>m DEF Undisturbed
  <2>4. Pending(p)' = {}
    BY <1>1, <1>2, PendingIs
  <2>5. Piled(p, {})'
    BY <2>4, <2>m, PileEnds
  <2>6. {} \in SUBSET Jobs
    OBVIOUS
  <2> QED
    BY <1>2, <2>3, <2>5, <2>6, StacksStayButOne
<1>8. CASE PutBackDisplaces(t)
  <2>1. /\ UNCHANGED ghosts /\ tasks[t].at = "next"
        /\ \/ UNCHANGED <<disk, stash>>
           \/ stash' = [stash EXCEPT ![<<s, p>>] = here] /\ disk' = [disk EXCEPT ![Own(p)] = Nothing]
    BY <1>8, <1>s, <1>p, <1>h, PutBackDisplacesDoes
  <2>2. mover' = mover
    BY <2>1 DEF ghosts
  <2> QED
    BY <1>5, <1>6, <2>1, <2>2
<1>9. CASE PutBackArrives(t)
  <2>1. PICK r, x : r = tasks[t].to /\ x = stash[<<r, p>>]
    OBVIOUS
  <2>2. /\ r \in Second
        /\ \/ /\ disk' = [disk EXCEPT ![Own(p)] = x] /\ stash' = [stash EXCEPT ![<<r, p>>] = Nothing]
              /\ mover' = [mover EXCEPT ![p] = 0]
           \/ UNCHANGED <<disk, stash, mover>>
    BY <1>9, <1>p, <2>1, PutBackArrivesDoes
  <2> QED
    BY <1>5, <1>7, <2>2
<1> QED
  BY <1>8, <1>9

(* The rest leaves the piles alone, or ends them.                           *)
LEMMA MovesStay ==
  ASSUME UNCHANGED <<plans, tasks, mover>>
  PROVE  \A p \in Paths : SameMoves(p)
BY DEF SameMoves, Pending, InHand, Undoing, Undone, Done, Waits

LEMMA IdleMoves ==
  ASSUME \A t \in Tasks : ~MidWay(tasks'[t]) /\ Did(tasks'[t]) = Did(tasks[t]),
         \A j \in Jobs : /\ Arrived(plans'[j].log) \subseteq Arrived(plans[j].log)
                         /\ plans[j].used =>
                              /\ plans'[j].used
                              /\ Waits(j)' => Waits(j) /\ Arrived(plans'[j].log) = Arrived(plans[j].log)
  PROVE  \A p \in Paths : SameMoves(p)
<1>1. \A p \in Paths : Pending(p)' = {}
  BY DEF Pending
<1>2. \A p \in Paths, j \in Jobs : Done(j, p)' \subseteq Done(j, p)
  BY DEF Done
<1>3. \A p \in Paths, j \in Jobs : Arrived(plans'[j].log) = Arrived(plans[j].log) => Done(j, p)' = Done(j, p)
  BY DEF Done
<1> QED
  BY <1>1, <1>2, <1>3 DEF SameMoves

LEMMA SecondsStay ==
  ASSUME Typed, UNCHANGED tasks, now' = now \/ now' = now + 1
  PROVE  now' \in Nat /\ \A p \in Paths : SameSeconds(p)
<1>1. now \in Nat
  BY RestIs, SecondsAre
<1>2. now' \in Nat /\ now <= now'
  BY <1>1
<1> QED
  BY <1>2 DEF SameSeconds

LEMMA IdleMeans ==
  ASSUME Idle
  PROVE  \A t \in Tasks : ~MidWay(tasks[t]) /\ Did(tasks[t]) = {} /\ ToStash(tasks[t]) = {}
<1>1. \A t \in Tasks : tasks[t].kind \in {"unused", "over"}
  BY DEF Idle, Runs
<1> QED
  BY <1>1, NothingToStash DEF MidWay, Did

LEMMA CallStacks ==
  ASSUME OneAtATime, NewSeconds, Typed, Stacks, NEW t \in Tasks, Call(t)
  PROVE  Stacks'
<1>1. Turned(t) /\ UNCHANGED <<files, plans, now, ghosts>> /\ tasks[t].kind = "unused" /\ Idle
  BY CallKeepsFiles DEF OneAtATime
<1>2. /\ ~MidWay(tasks'[t]) /\ Did(tasks'[t]) = {}
      /\ ToStash(tasks'[t]) = {} \/ (tasks'[t].second = now /\ \A p \in Paths : stash[<<now, p>>] = Nothing)
  <2>0. Arrived(<<>>) = {}
    BY NoMoves DEF Arrived
  <2>1. FreshSecond => \A p \in Paths : stash[<<now, p>>] = Nothing
    BY DEF FreshSecond, NewSeconds
  <2>2. ASSUME NEW j \in Jobs, NEW answer \in Answers, Execute(t, j, answer)
        PROVE  /\ ~MidWay(tasks'[t]) /\ Did(tasks'[t]) = {} /\ tasks'[t].second = now
               /\ \A p \in Paths : stash[<<now, p>>] = Nothing
    <3>1. tasks'[t].at = "begin" /\ tasks'[t].log = <<>> /\ tasks'[t].second = now /\ FreshSecond
      BY <2>2, ExecuteDoes
    <3>2. ~MidWay(tasks'[t])
      BY <3>1 DEF MidWay
    <3>3. Did(tasks'[t]) = {}
      BY <2>0, <3>1 DEF Did
    <3> QED
      BY <2>1, <3>1, <3>2, <3>3
  <2>3. ASSUME NEW j \in Jobs, Undo(t, j)
        PROVE  ~MidWay(tasks'[t]) /\ Did(tasks'[t]) = {} /\ ToStash(tasks'[t]) = {}
    BY <2>3, UndoDoes DEF MidWay, Did, ToStash
  <2>4. ASSUME NEW s \in Second, NEW p \in Paths, PutBack(t, s, p)
        PROVE  /\ ~MidWay(tasks'[t]) /\ Did(tasks'[t]) = {} /\ tasks'[t].second = now
               /\ \A q \in Paths : stash[<<now, q>>] = Nothing
    BY <2>1, <2>4, PutBackDoes DEF MidWay, Did
  <2> QED
    BY <2>2, <2>3, <2>4 DEF Call
<1>3. \A u \in Tasks : ~MidWay(tasks'[u]) /\ Did(tasks'[u]) = Did(tasks[u])
  BY <1>1, <1>2, IdleMeans DEF Turned
<1>4. \A p \in Paths : SameMoves(p)
  <2>1. UNCHANGED plans
    BY <1>1
  <2> QED
    BY <1>3, <2>1, IdleMoves DEF Waits
<1>5. now' \in Nat /\ \A p \in Paths : SameSeconds(p)
  <2>1. now \in Nat /\ now' = now /\ now <= now'
    BY <1>1, RestIs, SecondsAre
  <2>2. ASSUME NEW p \in Paths, NEW u \in Tasks, p \in ToStash(tasks'[u])
        PROVE  tasks'[u].second = now /\ stash[<<now, p>>] = Nothing
    BY <1>1, <1>2, <2>2, IdleMeans DEF Turned
  <2> QED
    BY <2>1, <2>2 DEF SameSeconds
<1>6. disk' = disk /\ stash' = stash /\ mover' = mover
  BY <1>1, FilesStay DEF ghosts
<1> QED
  BY <1>4, <1>5, <1>6, FilesAreLeft, StacksStay

LEMMA PersonStacks ==
  ASSUME Unwatched, Typed, Stacks, NEW p \in Paths, PersonWrites(p) \/ PersonTrashes(p)
  PROVE  Stacks'
<1>1. /\ UNCHANGED <<stash, plans, tasks, now>> /\ Idle /\ mover' = [mover EXCEPT ![p] = 0]
      /\ \E x : disk' = [disk EXCEPT ![Own(p)] = x]
  BY DEF PersonWrites, PersonTrashes, Quiet, Unwatched
<1>2. /\ \A q \in Paths : q # p => disk'[Own(q)] = disk[Own(q)]
      /\ \A q \in Paths, n \in Aside : disk'[<<q, n>>] = disk[<<q, n>>]
  BY <1>1, OwnAlone
<1>3. mover'[p] = 0 /\ \A q \in Paths : q # p => mover'[q] = mover[q]
  BY <1>1, RestIs
<1>4. \A q \in Paths : SameMoves(q)
  <2>1. \A t \in Tasks : ~MidWay(tasks'[t]) /\ Did(tasks'[t]) = Did(tasks[t])
    BY <1>1, IdleMeans
  <2> QED
    BY <1>1, <2>1, IdleMoves DEF Waits
<1>5. now' \in Nat /\ \A q \in Paths : SameSeconds(q)
  BY <1>1, SecondsStay
<1>6. \A q \in Paths : q # p => Undisturbed(q)
  BY <1>1, <1>2, <1>3, <1>4, <1>5 DEF Undisturbed
<1>7. Pending(p)' = {}
  BY <1>1, IdleMeans DEF Pending
<1>8. Piled(p, {})' /\ {} \in SUBSET Jobs
  BY <1>3, <1>7, PileEnds
<1> QED
  BY <1>5, <1>6, <1>8, StacksStayButOne

LEMMA ExpireStacks ==
  ASSUME Typed, SlotsAreFree, Stacks, NEW max \in {0, MaxFiles}, Expire(max)
  PROVE  Stacks'
<1>1. UNCHANGED <<disk, plans, tasks, now, mover>>
  BY DEF Expire
<1>2. ASSUME NEW s \in Second, NEW p \in Paths
      PROVE  stash'[<<s, p>>] = stash[<<s, p>>] \/ (stash'[<<s, p>>] = Nothing /\ s < now')
  <2>1. PICK gone : /\ gone = {k \in Second \X Paths : k[1] \in GivenUp(max)}
                    /\ stash' = [k \in Second \X Paths |-> IF k \in gone THEN Nothing ELSE stash[k]]
    BY DEF Expire
  <2>2. <<s, p>> \in gone => s \in GivenUp(max)
    BY <2>1
  <2>3. s \in Nat /\ now \in Nat /\ KeepFor \in Nat /\ Grace \in Nat \ {0}
    BY RestIs, SecondsAre, RestoreAssumption
  <2>4. s \in GivenUp(max) => now - s > KeepFor \/ now - s >= Grace
    BY DEF GivenUp
  <2>5. s \in GivenUp(max) => s < now
    BY <2>3, <2>4
  <2> QED
    BY <1>1, <2>1, <2>2, <2>5
<1>3. \A p \in Paths : SameMoves(p)
  BY <1>1, MovesStay
<1>4. now' \in Nat /\ \A p \in Paths : SameSeconds(p)
  BY <1>1, SecondsStay
<1>5. \A p \in Paths : Undisturbed(p)
  BY <1>1, <1>2, <1>3, <1>4 DEF Undisturbed
<1> QED
  BY <1>4, <1>5, StacksStay

LEMMA PlanStacks ==
  ASSUME OneAtATime, Typed, Stacks,
         \/ \E j \in Jobs, asked \in SUBSET Paths, binned \in SUBSET Binned : Prepare(j, asked, binned)
         \/ \E j \in Jobs : Discard(j)
  PROVE  Stacks'
<1>1. PICK j \in Jobs : /\ UNCHANGED <<files, tasks, now, ghosts>> /\ Idle
                        /\ \A k \in Jobs : k # j => plans'[k] = plans[k]
                        /\ plans'[j].log = <<>>
                        /\ ~plans[j].used \/ (plans'[j].used /\ ~plans'[j].held)
  <2>1. ASSUME NEW j \in Jobs, NEW asked \in SUBSET Paths, NEW binned \in SUBSET Binned,
               Prepare(j, asked, binned)
        PROVE  /\ UNCHANGED <<files, tasks, now, ghosts>> /\ Idle /\ plans'[j].log = <<>>
               /\ (\A k \in Jobs : k # j => plans'[k] = plans[k]) /\ ~plans[j].used
    BY <2>1, PlansAre DEF InTurn, OneAtATime
  <2>2. ASSUME NEW j \in Jobs, Discard(j)
        PROVE  /\ UNCHANGED <<files, tasks, now, ghosts>> /\ Idle /\ plans'[j].log = <<>>
               /\ (\A k \in Jobs : k # j => plans'[k] = plans[k]) /\ plans'[j].used /\ ~plans'[j].held
    BY <2>2, PlansAre DEF OneAtATime
  <2> QED
    BY <2>1, <2>2
<1>2. \A p \in Paths : SameMoves(p)
  <2>1. Arrived(<<>>) = {}
    BY NoMoves DEF Arrived
  <2>2. \A t \in Tasks : ~MidWay(tasks'[t]) /\ Did(tasks'[t]) = Did(tasks[t])
    BY <1>1, IdleMeans
  <2>3. ASSUME NEW k \in Jobs
        PROVE  /\ Arrived(plans'[k].log) \subseteq Arrived(plans[k].log)
               /\ plans[k].used =>
                    /\ plans'[k].used
                    /\ Waits(k)' => Waits(k) /\ Arrived(plans'[k].log) = Arrived(plans[k].log)
    <3>1. CASE k = j
      BY <1>1, <2>1, <3>1 DEF Waits
    <3>2. CASE k # j
      BY <1>1, <3>2 DEF Waits
    <3> QED
      BY <3>1, <3>2
  <2> QED
    BY <2>2, <2>3, IdleMoves
<1>3. now' \in Nat /\ \A p \in Paths : SameSeconds(p)
  BY <1>1, SecondsStay
<1>4. disk' = disk /\ stash' = stash /\ mover' = mover
  BY <1>1, FilesStay DEF ghosts
<1> QED
  BY <1>2, <1>3, <1>4, FilesAreLeft, StacksStay

LEMMA StacksStep ==
  ASSUME OneAtATime, NewSeconds, Unwatched, Typed, Turns, SlotsAreFree, Stacks, StillItsOwn, [Next]_vars
  PROVE  Stacks'
<1>1. ASSUME NEW t \in Tasks, Step(t) PROVE Stacks'
  BY <1>1, BeginsStacks, DisplacesStacks, ArrivesStacks, EndsStacks, UndoTurns, FallsStacks,
     ReturnsStacks, PutBackStacks, Zenon DEF Step
<1>2. ASSUME NEW t \in Tasks, Call(t) PROVE Stacks'
  BY <1>2, CallStacks
<1>3. CASE PersonEmptiesTrash \/ SecondPasses \/ UNCHANGED vars
  <2>1. UNCHANGED <<disk, stash, plans, tasks, mover>> /\ (now' = now \/ now' = now + 1)
    BY <1>3 DEF PersonEmptiesTrash, SecondPasses, vars, files, ghosts
  <2> QED
    BY <2>1, MovesStay, SecondsStay, FilesAreLeft, StacksStay
<1>4. CASE Crash
  <2>1. mover' = [p \in Paths |-> 0] /\ \A t \in Tasks : ~Runs(t)'
    BY <1>4, CrashDoes
  <2>2. \A t \in Tasks : ~MidWay(tasks'[t])
    BY <2>1 DEF Runs, MidWay
  <2>3. \A p \in Paths : mover'[p] = 0 /\ Pending(p)' = {}
    BY <2>1, <2>2 DEF Pending
  <2>4. \A p \in Paths : Piled(p, {})' /\ {} \in SUBSET Jobs
    BY <2>3, PileEnds
  <2> QED
    BY <2>4, ClosePile
<1>5. ASSUME NEW p \in Paths, PersonWrites(p) \/ PersonTrashes(p) PROVE Stacks'
  BY <1>5, PersonStacks
<1>6. ASSUME NEW max \in {0, MaxFiles}, Expire(max) PROVE Stacks'
  BY <1>6, ExpireStacks
<1> QED
  BY <1>1, <1>2, <1>3, <1>4, <1>5, <1>6, PlanStacks, Zenon DEF Next

LEMMA StacksInit == Init => Stacks
<1> SUFFICES ASSUME Init PROVE Stacks
  OBVIOUS
<1>1. tasks = [t \in Tasks |-> Unused] /\ mover = [p \in Paths |-> 0]
  BY DEF Init
<1>2. \A t \in Tasks : ~MidWay(tasks[t])
  BY <1>1 DEF Unused, MidWay
<1>3. \A p \in Paths : mover[p] = 0 /\ Pending(p) = {}
  BY <1>1, <1>2 DEF Pending
<1>4. \A p \in Paths : Piled(p, {}) /\ {} \in SUBSET Jobs
  BY <1>3 DEF Piled, Stack, Tops, Removes, Kept, PutAside
<1> QED
  BY <1>4 DEF Stacks

-----------------------------------------------------------------------------
(* Nothing else moves a file while a restore is undone.                     *)
LEMMA OwnOfOne ==
  ASSUME Turns, NEW t \in Tasks, Runs(t), Turned(t), tasks'[t].kind # "undo"
  PROVE  StillItsOwn'
<1>1. \A u \in Tasks : ~Undoing(u)'
  BY OneRuns DEF Undoing, Runs
<1> QED
  BY <1>1 DEF StillItsOwn

LEMMA OwnOfTheUndone ==
  ASSUME Turns, NEW t \in Tasks, Undoing(t), Turned(t), tasks'[t].kind = "undo", tasks'[t].at # "begin",
         \A m \in Remaining(tasks'[t]) : m.kind = "arrived" => mover'[m.path] = tasks'[t].job,
         tasks'[t].at = "displaced" => mover'[Undone(tasks'[t]).path] = Undone(tasks'[t]).after
  PROVE  StillItsOwn'
<1>1. \A u \in Tasks : u # t => ~Undoing(u)'
  BY OneRuns DEF Undoing, Runs
<1> QED
  BY <1>1 DEF StillItsOwn, Remaining, Undone

LEMMA FewerRemain ==
  ASSUME NEW task, NEW on, task.log \in Seq(MoveRecord), task.path \in Nat, on.log = task.log,
         \/ on.at = "next" /\ on.path = task.path - 1
         \/ on.at = "displaced" /\ on.path = task.path
  PROVE  /\ Remaining(on) \subseteq Remaining(task)
         /\ \A m \in Remaining(on) : \E k \in DOMAIN task.log : k # task.path /\ m = task.log[k]
<1>1. DOMAIN task.log = 1 .. Len(task.log) /\ Len(task.log) \in Nat
  BY MovesAre
<1>2. ASSUME NEW k \in DOMAIN task.log, k < on.path \/ (k = on.path /\ on.at = "next")
      PROVE  k < task.path /\ k # task.path
  <2>1. k \in Nat
    BY <1>1
  <2>2. CASE on.at = "next" /\ on.path = task.path - 1
    <3>1. k <= task.path - 1
      BY <1>2, <2>1, <2>2
    <3> QED
      BY <2>1, <3>1
  <2>3. CASE on.at = "displaced" /\ on.path = task.path
    BY <1>2, <2>1, <2>3
  <2> QED
    BY <2>2, <2>3
<1> QED
  BY <1>2 DEF Remaining

LEMMA StepIsItsOwn ==
  ASSUME Typed, Turns, StillItsOwn, NEW t \in Tasks, Step(t)
  PROVE  StillItsOwn'
<1>0. Turned(t) /\ Runs(t)
  BY StepKeepsTime
<1>f. tasks[t] \in TaskForm
  BY TaskIs
<1>g. tasks[t].log \in Seq(MoveRecord) /\ tasks[t].path \in Nat /\ Once(tasks[t].log)
  BY <1>f, TaskFields
<1>1. ASSUME tasks'[t].kind # "undo" PROVE StillItsOwn'
  BY <1>0, <1>1, OwnOfOne
<1>2. CASE Begins(t) \/ Displaces(t) \/ Arrives(t) \/ Ends(t) \/ UndoEnds(t)
           \/ PutBackDisplaces(t) \/ PutBackArrives(t)
  <2>1. tasks'[t].kind # "undo"
    BY <1>2, BeginsDoes, DisplacesDoes, ArrivesDoes, EndsDoes, UndoEndsDoes, PutBackDisplacesDoes,
       PutBackArrivesDoes, Zenon
  <2> QED
    BY <1>1, <2>1
<1>3. CASE UndoBegins(t)
  <2>1. /\ Undoing(t) /\ tasks[t].at = "begin" /\ UNCHANGED mover
        /\ \/ tasks'[t].kind = "over"
           \/ /\ tasks'[t].kind = "undo" /\ tasks'[t].at = "next" /\ tasks'[t].job = tasks[t].job
              /\ tasks'[t].log = plans[tasks[t].job].log
    BY <1>3, UndoBeginsDoes DEF ghosts
  <2>2. Remaining(tasks'[t]) \subseteq Moves(tasks'[t].log)
    BY DEF Remaining, Moves
  <2>3. \A m \in Arrived(plans[tasks[t].job].log) : mover[m.path] = tasks[t].job
    BY <2>1 DEF StillItsOwn
  <2>4. CASE tasks'[t].kind = "undo"
    <3>1. \A m \in Remaining(tasks'[t]) : m.kind = "arrived" => m \in Arrived(plans[tasks[t].job].log)
      BY <2>1, <2>2, <2>4 DEF Arrived
    <3> QED
      BY <1>0, <2>1, <2>3, <2>4, <3>1, OwnOfTheUndone
  <2> QED
    BY <1>1, <2>4
<1>4. ASSUME Undoing(t), tasks[t].at # "begin", tasks'[t].kind = "undo", tasks'[t].job = tasks[t].job,
             tasks'[t].log = tasks[t].log, tasks'[t].at = "next", tasks'[t].path = tasks[t].path - 1,
             mover' = mover
      PROVE  StillItsOwn'
  <2>0. PICK task, on : task = tasks[t] /\ on = tasks'[t]
    OBVIOUS
  <2>1. Remaining(tasks'[t]) \subseteq Remaining(tasks[t])
    <3>1. /\ task.log \in Seq(MoveRecord) /\ task.path \in Nat /\ on.log = task.log
          /\ on.at = "next" /\ on.path = task.path - 1
      BY <1>g, <1>4, <2>0
    <3>2. Remaining(on) \subseteq Remaining(task)
      BY <3>1, FewerRemain
    <3> QED
      BY <2>0, <3>2
  <2>2. \A m \in Remaining(tasks[t]) : m.kind = "arrived" => mover[m.path] = tasks[t].job
    BY <1>4 DEF StillItsOwn
  <2> QED
    BY <1>0, <1>4, <2>1, <2>2, OwnOfTheUndone
<1>5. CASE UndoReturns(t) \/ UndoReenters(t)
  <2>1. mover' = mover
    BY <1>5, UndoReturnsDoes, UndoReentersDoes DEF ghosts
  <2>2. /\ Undoing(t) /\ tasks[t].at # "begin" /\ tasks'[t].kind = "undo" /\ tasks'[t].job = tasks[t].job
        /\ tasks'[t].log = tasks[t].log /\ tasks'[t].at = "next" /\ tasks'[t].path = tasks[t].path - 1
    BY <1>5, UndoReturnsDoes, UndoReentersDoes
  <2> QED
    BY <1>4, <2>1, <2>2
<1>6. CASE UndoRemoves(t) \/ UndoTrashes(t)
  <2>m. PICK move : move = Undone(tasks[t])
    OBVIOUS
  <2>1. /\ Undoing(t) /\ tasks[t].at = "next" /\ tasks[t].path > 0
        /\ move \in MoveRecord /\ move.kind = "arrived"
        /\ tasks'[t].kind = "undo" /\ tasks'[t].job = tasks[t].job /\ tasks'[t].log = tasks[t].log
        /\ \/ /\ mover' = [mover EXCEPT ![move.path] = move.after]
              /\ \/ tasks'[t].at = "next" /\ tasks'[t].path = tasks[t].path - 1
                 \/ tasks'[t].at = "displaced" /\ tasks'[t].path = tasks[t].path
           \/ mover' = mover /\ tasks'[t].at = "next" /\ tasks'[t].path = tasks[t].path - 1
    <3>1. CASE UndoRemoves(t)
      BY <2>m, <3>1, UndoRemovesDoes
    <3>2. CASE UndoTrashes(t)
      BY <2>m, <3>2, UndoTrashesDoes
    <3> QED
      BY <1>6, <3>1, <3>2
  <2>2. /\ Remaining(tasks'[t]) \subseteq Remaining(tasks[t])
        /\ \A m \in Remaining(tasks'[t]) : \E k \in DOMAIN tasks[t].log : k # tasks[t].path /\ m = tasks[t].log[k]
    <3>1. PICK task, on : task = tasks[t] /\ on = tasks'[t]
      OBVIOUS
    <3>2. /\ task.log \in Seq(MoveRecord) /\ task.path \in Nat /\ on.log = task.log
          /\ \/ on.at = "next" /\ on.path = task.path - 1
             \/ on.at = "displaced" /\ on.path = task.path
      BY <1>g, <2>1, <3>1
    <3>3. /\ Remaining(on) \subseteq Remaining(task)
          /\ \A m \in Remaining(on) : \E k \in DOMAIN task.log : k # task.path /\ m = task.log[k]
      BY <3>2, FewerRemain
    <3> QED
      BY <3>1, <3>3
  <2>3. \A m \in Remaining(tasks[t]) : m.kind = "arrived" => mover[m.path] = tasks[t].job
    BY <2>1 DEF StillItsOwn
  <2>4. tasks[t].path \in DOMAIN tasks[t].log /\ move = tasks[t].log[tasks[t].path]
    BY <1>f, <2>m, <2>1, UndoneIs DEF Undoing, Undone
  <2>5. \A m \in Remaining(tasks'[t]) : m.kind = "arrived" => m.path # move.path
    BY <1>g, <2>1, <2>2, <2>4 DEF Once
  <2>6. move.path \in Paths /\ mover \in [Paths -> Jobs \cup {0}]
    BY <2>1, MoveFields, RestIs
  <2>7. CASE mover' = [mover EXCEPT ![move.path] = move.after]
    <3>0. \A q : q # move.path => mover'[q] = mover[q]
      BY <2>6, <2>7
    <3>1. mover'[move.path] = move.after
      BY <2>6, <2>7
    <3>2. \A m \in Remaining(tasks'[t]) : m.kind = "arrived" => mover'[m.path] = tasks'[t].job
      BY <2>1, <2>2, <2>3, <2>5, <3>0
    <3>3. tasks'[t].at = "displaced" => Undone(tasks'[t]) = move
      BY <2>1, <2>4 DEF Undone
    <3>4. tasks'[t].at # "begin"
      BY <2>1
    <3> QED
      BY <1>0, <2>1, <3>1, <3>2, <3>3, <3>4, OwnOfTheUndone
  <2>8. CASE mover' = mover /\ tasks'[t].at = "next" /\ tasks'[t].path = tasks[t].path - 1
    BY <1>4, <2>1, <2>8
  <2> QED
    BY <2>1, <2>7, <2>8
<1> QED
  BY <1>2, <1>3, <1>5, <1>6, Zenon DEF Step

LEMMA OwnStep ==
  ASSUME OneAtATime, InOrder, Unwatched, Typed, Turns, StillItsOwn, [Next]_vars
  PROVE  StillItsOwn'
<1>1. ASSUME NEW t \in Tasks, Step(t) PROVE StillItsOwn'
  BY <1>1, StepIsItsOwn
<1>2. ASSUME \A t \in Tasks : ~Undoing(t)' PROVE StillItsOwn'
  BY <1>2 DEF StillItsOwn
<1>3. Idle => \A t \in Tasks : ~Undoing(t)
  BY DEF Idle, Runs, Undoing
<1>4. ASSUME NEW t \in Tasks, Call(t) PROVE StillItsOwn'
  <2>1. /\ Turned(t) /\ UNCHANGED <<plans, mover>> /\ Idle
    BY <1>4, CallKeepsFiles DEF OneAtATime, ghosts
  <2>2. \A u \in Tasks : u # t => ~Undoing(u)'
    BY <1>3, <2>1 DEF Turned, Undoing
  <2>3. ASSUME NEW j \in Jobs, Undo(t, j) PROVE StillItsOwn'
    <3>1. \A p \in Touched(plans[j].log) : mover[p] = j
      BY <2>3, UndoDoes DEF InOrder
    <3>2. \A m \in Arrived(plans[j].log) : m.path \in Touched(plans[j].log)
      BY DEF Arrived, Moves, Touched
    <3>3. tasks'[t].at = "begin" /\ tasks'[t].job = j
      BY <2>3, UndoDoes
    <3> QED
      BY <2>1, <2>2, <3>1, <3>2, <3>3 DEF StillItsOwn
  <2>4. ASSUME NEW j \in Jobs, NEW answer \in Answers, Execute(t, j, answer) PROVE tasks'[t].kind # "undo"
    BY <2>4, ExecuteDoes
  <2>5. ASSUME NEW s \in Second, NEW p \in Paths, PutBack(t, s, p) PROVE tasks'[t].kind # "undo"
    BY <2>5, PutBackDoes
  <2>6. tasks'[t].kind # "undo" => StillItsOwn'
    BY <1>2, <2>2 DEF Undoing
  <2> QED
    BY <1>4, <2>3, <2>4, <2>5, <2>6 DEF Call
<1>5. ASSUME UNCHANGED <<plans, tasks, mover>> PROVE StillItsOwn'
  BY <1>5 DEF StillItsOwn, Undoing, Remaining, Undone
<1>6. ASSUME UNCHANGED tasks, Idle PROVE StillItsOwn'
  BY <1>2, <1>3, <1>6 DEF Undoing
<1>7. ASSUME NEW j \in Jobs, NEW asked \in SUBSET Paths, NEW binned \in SUBSET Binned,
             Prepare(j, asked, binned)
      PROVE  StillItsOwn'
  BY <1>6, <1>7, PlansAre DEF InTurn, OneAtATime
<1>8. ASSUME NEW j \in Jobs, Discard(j) PROVE StillItsOwn'
  BY <1>6, <1>8, PlansAre DEF OneAtATime
<1>9. ASSUME NEW max \in {0, MaxFiles}, Expire(max) PROVE StillItsOwn'
  BY <1>5, <1>9 DEF Expire
<1>10. ASSUME NEW p \in Paths, PersonWrites(p) \/ PersonTrashes(p) PROVE StillItsOwn'
  BY <1>6, <1>10 DEF PersonWrites, PersonTrashes, Quiet, Unwatched
<1>11. CASE PersonEmptiesTrash \/ SecondPasses \/ UNCHANGED vars
  BY <1>5, <1>11 DEF PersonEmptiesTrash, SecondPasses, vars, ghosts
<1>12. CASE Crash
  <2>1. \A t \in Tasks : ~Undoing(t)'
    BY <1>12, CrashDoes DEF Runs, Undoing
  <2> QED
    BY <1>2, <2>1
<1> QED
  BY <1>1, <1>4, <1>7, <1>8, <1>9, <1>10, <1>11, <1>12, Zenon DEF Next

LEMMA OwnInit == Init => StillItsOwn
<1>1. Init => \A t \in Tasks : tasks[t].kind = "unused"
  BY DEF Init, Unused
<1> QED
  BY <1>1 DEF StillItsOwn, Undoing

-----------------------------------------------------------------------------
(* Where a thing of the person's can be, and the ways it goes from one place *)
(* to another.                                                              *)
OnDisk(c) == \E n \in Names : disk[n] = c
InStash(c) == \E k \in Second \X Paths : stash[k] = c
InTrash(c) == \E b \in Binned : trash[b] = c
Somewhere(c) == OnDisk(c) \/ InStash(c) \/ InTrash(c)

LEMMA DearIsSomething == Typed => \A c \in dear : c # Nothing /\ ~Spare(c)
<1> SUFFICES ASSUME Typed, NEW c \in dear PROVE c # Nothing /\ ~Spare(c)
  OBVIOUS
<1>1. c \in 1 .. wrote /\ wrote \in Nat
  BY RestIs
<1> QED
  BY <1>1 DEF Nothing, Spare

LEMMA StillSomewhere ==
  ASSUME NothingLost, dear' \subseteq dear, \A c \in dear' : Somewhere(c) => Somewhere(c)'
  PROVE  NothingLost'
<1>1. \A c \in dear : Somewhere(c)
  BY DEF NothingLost, Somewhere, OnDisk, InStash, InTrash
<1>2. \A c \in dear' : Somewhere(c)'
  BY <1>1
<1> QED
  BY <1>2 DEF NothingLost, Somewhere, OnDisk, InStash, InTrash

LEMMA FilesUnmoved ==
  ASSUME NothingLost, UNCHANGED <<disk, stash, trash, dear>>
  PROVE  NothingLost'
BY DEF NothingLost

LEMMA PutThere ==
  ASSUME Typed, NEW c, NEW x
  PROVE  /\ \A n \in Names : disk' = [disk EXCEPT ![n] = x] =>
              (x = c => OnDisk(c)') /\ (OnDisk(c) /\ disk[n] # c => OnDisk(c)')
         /\ \A k \in Second \X Paths : stash' = [stash EXCEPT ![k] = x] =>
              (x = c => InStash(c)') /\ (InStash(c) /\ stash[k] # c => InStash(c)')
         /\ \A b \in Binned : trash' = [trash EXCEPT ![b] = x] =>
              (x = c => InTrash(c)') /\ (InTrash(c) /\ trash[b] # c => InTrash(c)')
<1>1. /\ disk \in [Names -> Int] /\ stash \in [Second \X Paths -> Int] /\ trash \in [Binned -> Int]
  BY RestIs
<1>2. ASSUME NEW n \in Names, disk' = [disk EXCEPT ![n] = x]
      PROVE  (x = c => OnDisk(c)') /\ (OnDisk(c) /\ disk[n] # c => OnDisk(c)')
  <2>1. disk'[n] = x /\ \A m \in Names : m # n => disk'[m] = disk[m]
    BY <1>1, <1>2
  <2> QED
    BY <2>1 DEF OnDisk
<1>3. ASSUME NEW k \in Second \X Paths, stash' = [stash EXCEPT ![k] = x]
      PROVE  (x = c => InStash(c)') /\ (InStash(c) /\ stash[k] # c => InStash(c)')
  <2>1. stash'[k] = x /\ \A m \in Second \X Paths : m # k => stash'[m] = stash[m]
    BY <1>1, <1>3
  <2> QED
    BY <2>1 DEF InStash
<1>4. ASSUME NEW b \in Binned, trash' = [trash EXCEPT ![b] = x]
      PROVE  (x = c => InTrash(c)') /\ (InTrash(c) /\ trash[b] # c => InTrash(c)')
  <2>1. trash'[b] = x /\ \A m \in Binned : m # b => trash'[m] = trash[m]
    BY <1>1, <1>4
  <2> QED
    BY <2>1 DEF InTrash
<1> QED
  BY <1>2, <1>3, <1>4

(* A file between its own name and another.                                 *)
LEMMA Renamed ==
  ASSUME Typed, NEW m \in Names, NEW n \in Names, m # n, disk[n] = Nothing,
         disk' = [disk EXCEPT ![n] = disk[m], ![m] = Nothing] \/ disk' = [disk EXCEPT ![m] = Nothing, ![n] = disk[m]]
  PROVE  \A c \in dear : OnDisk(c) => OnDisk(c)'
<1>1. disk \in [Names -> Int]
  BY RestIs
<1>2. disk'[n] = disk[m] /\ \A l \in Names : l # m /\ l # n => disk'[l] = disk[l]
  BY <1>1
<1>3. ASSUME NEW c \in dear, NEW l \in Names, disk[l] = c PROVE \E k \in Names : disk'[k] = c
  <2>1. l # n
    BY <1>3, DearIsSomething
  <2>2. CASE l = m
    BY <1>2, <1>3, <2>2
  <2>3. CASE l # m
    BY <1>2, <1>3, <2>1, <2>3
  <2> QED
    BY <2>2, <2>3
<1> QED
  BY <1>3 DEF OnDisk

LEMMA Stashed ==
  ASSUME Typed, NEW m \in Names, NEW k \in Second \X Paths, NEW x, NEW y,
         disk' = [disk EXCEPT ![m] = x], stash' = [stash EXCEPT ![k] = y],
         \/ y = disk[m] /\ stash[k] = Nothing
         \/ x = stash[k] /\ disk[m] = Nothing
  PROVE  \A c \in dear : OnDisk(c) \/ InStash(c) => OnDisk(c)' \/ InStash(c)'
<1> SUFFICES ASSUME NEW c \in dear, OnDisk(c) \/ InStash(c) PROVE OnDisk(c)' \/ InStash(c)'
  OBVIOUS
<1>1. c # Nothing
  BY DearIsSomething
<1>2. (x = c => OnDisk(c)') /\ (OnDisk(c) /\ disk[m] # c => OnDisk(c)')
  BY PutThere
<1>3. (y = c => InStash(c)') /\ (InStash(c) /\ stash[k] # c => InStash(c)')
  BY PutThere
<1> QED
  BY <1>1, <1>2, <1>3

LEMMA Trashed ==
  ASSUME Typed, NEW m \in Names, NEW b \in Binned, NEW x, NEW y,
         disk' = [disk EXCEPT ![m] = x], trash' = [trash EXCEPT ![b] = y],
         \/ y = disk[m] /\ trash[b] = Nothing
         \/ x = trash[b] /\ disk[m] = Nothing
  PROVE  \A c \in dear : OnDisk(c) \/ InTrash(c) => OnDisk(c)' \/ InTrash(c)'
<1> SUFFICES ASSUME NEW c \in dear, OnDisk(c) \/ InTrash(c) PROVE OnDisk(c)' \/ InTrash(c)'
  OBVIOUS
<1>1. c # Nothing
  BY DearIsSomething
<1>2. (x = c => OnDisk(c)') /\ (OnDisk(c) /\ disk[m] # c => OnDisk(c)')
  BY PutThere
<1>3. (y = c => InTrash(c)') /\ (InTrash(c) /\ trash[b] # c => InTrash(c)')
  BY PutThere
<1> QED
  BY <1>1, <1>2, <1>3

LEMMA DisplacesLosesNothing ==
  ASSUME Typed, SlotsAreFree, NothingLost, NEW t \in Tasks, Displaces(t)
  PROVE  NothingLost'
<1>f. tasks[t] \in TaskForm
  BY TaskIs
<1>s. PICK s \in Second : s = tasks[t].second
  BY <1>f, TaskFields
<1>p. PICK p \in Paths : p = tasks[t].path
  BY DisplacesDoes
<1>n. PICK n : n = FreeName(p)
  OBVIOUS
<1>1. /\ UNCHANGED <<trash, ghosts>> /\ Carrying(t) /\ tasks[t].at = "next"
      /\ \/ stash' = [stash EXCEPT ![<<s, p>>] = disk[Own(p)]] /\ disk' = [disk EXCEPT ![Own(p)] = Nothing]
         \/ UNCHANGED stash /\ disk' = [disk EXCEPT ![Own(p)] = Nothing, ![<<p, n>>] = disk[Own(p)]]
         \/ UNCHANGED <<disk, stash>>
  BY <1>s, <1>p, <1>n, DisplacesDoes
<1>2. n \in Aside /\ disk[<<p, n>>] = Nothing
  BY <1>n, FreeNameIs DEF Typed
<1>3. Own(p) \in Names /\ <<p, n>> \in Names /\ <<p, n>> # Own(p) /\ <<s, p>> \in Second \X Paths
  <2>1. Own(p) = <<p, 0>> /\ n # 0 /\ Own(p) \in Names /\ <<p, n>> \in Names
    BY <1>2, Places
  <2>2. <<p, n>> # <<p, 0>>
    BY <2>1
  <2> QED
    BY <2>1, <2>2
<1>4. stash[<<s, p>>] = Nothing
  <2>1. p \in ToStash(tasks[t])
    BY <1>p, <1>1 DEF ToStash, Ahead, Carrying
  <2> QED
    BY <1>s, <2>1 DEF SlotsAreFree
<1>5. dear' = dear
  BY <1>1 DEF ghosts
<1>6. CASE stash' = [stash EXCEPT ![<<s, p>>] = disk[Own(p)]] /\ disk' = [disk EXCEPT ![Own(p)] = Nothing]
  <2>1. \A c \in dear : OnDisk(c) \/ InStash(c) => OnDisk(c)' \/ InStash(c)'
    BY <1>3, <1>4, <1>6, Stashed
  <2>2. \A c \in dear : InTrash(c) => InTrash(c)'
    BY <1>1 DEF InTrash
  <2> QED
    BY <1>5, <2>1, <2>2, StillSomewhere DEF Somewhere
<1>7. CASE UNCHANGED stash /\ disk' = [disk EXCEPT ![Own(p)] = Nothing, ![<<p, n>>] = disk[Own(p)]]
  <2>1. \A c \in dear : OnDisk(c) => OnDisk(c)'
    BY <1>2, <1>3, <1>7, Renamed
  <2>2. \A c \in dear : InStash(c) \/ InTrash(c) => InStash(c)' \/ InTrash(c)'
    BY <1>1, <1>7 DEF InTrash, InStash
  <2> QED
    BY <1>5, <2>1, <2>2, StillSomewhere DEF Somewhere
<1>8. CASE UNCHANGED <<disk, stash>>
  BY <1>1, <1>5, <1>8, FilesUnmoved
<1> QED
  BY <1>1, <1>6, <1>7, <1>8

LEMMA ArrivesLosesNothing ==
  ASSUME Typed, Turns, Empty, NothingLost, NEW t \in Tasks, Arrives(t)
  PROVE  NothingLost'
<1>p. PICK p \in Paths : p = tasks[t].path
  BY ArrivesDoes
<1>c. PICK copy, source : copy = tasks[t].entries[p].copy /\ source = Source(tasks[t])
  OBVIOUS
<1>1. /\ UNCHANGED <<stash, dear>> /\ Carrying(t) /\ tasks[t].at # "begin"
      /\ tasks[t].at = "next" =>
           tasks[t].entries[p].class # "not asked" /\ ~tasks[t].entries[p].there
      /\ \/ /\ disk' = [disk EXCEPT ![Own(p)] = source]
            /\ trash' = IF copy = 0 THEN trash ELSE [trash EXCEPT ![<<p, copy>>] = Nothing]
         \/ UNCHANGED <<disk, trash>>
  BY <1>p, <1>c, ArrivesDoes
<1>2. disk[Own(p)] = Nothing
  <2>f. tasks[t] \in TaskForm
    BY TaskIs
  <2>1. CASE tasks[t].at = "displaced"
    <3>1. Runs(t) /\ PathOf(tasks[t]) = p
      BY <1>p, <1>1 DEF Runs, Carrying, PathOf
    <3> QED
      BY <2>1, <3>1 DEF Empty, MidMove
  <2>2. CASE tasks[t].at = "next"
    <3>1. PICK j \in Jobs : j = tasks[t].job
      BY <1>1, <2>f, TaskFields DEF Carrying, CarriesOut
    <3>2. Waits(j) /\ tasks[t].entries = plans[j].entries
      BY <1>1, <2>2, <3>1 DEF Turns, OfPlans, OfPlan, Waits, Carrying
    <3>3. Before(p)
      <4>1. p \in Ahead(tasks[t])
        BY <1>p, <2>2 DEF Ahead
      <4>2. \A u \in Tasks : Carrying(u) => u = t
        BY <1>1 DEF Turns, Alone, Runs, Carrying
      <4> QED
        BY <4>1, <4>2 DEF Before
    <3> QED
      BY <1>1, <2>2, <3>2, <3>3 DEF Empty, AsPlanned
  <2>3. tasks[t].at \in {"begin", "next", "displaced"}
    BY <2>f, TaskFields
  <2> QED
    BY <1>1, <2>1, <2>2, <2>3
<1>3. Own(p) \in Names
  BY Places
<1>4. CASE disk' = [disk EXCEPT ![Own(p)] = source] /\ copy = 0 /\ trash' = trash
  <2>1. \A c \in dear : OnDisk(c) => OnDisk(c)'
    BY <1>2, <1>3, <1>4, DearIsSomething, PutThere
  <2>2. \A c \in dear : InStash(c) \/ InTrash(c) => InStash(c)' \/ InTrash(c)'
    BY <1>1, <1>4 DEF InTrash, InStash
  <2> QED
    BY <1>1, <2>1, <2>2, StillSomewhere DEF Somewhere
<1>5. CASE /\ disk' = [disk EXCEPT ![Own(p)] = source] /\ copy # 0
           /\ trash' = [trash EXCEPT ![<<p, copy>>] = Nothing]
  <2>1. copy \in 1 .. 2
    <3>1. tasks[t] \in TaskForm
      BY TaskIs
    <3>2. tasks[t].entries \in [Paths -> Entry]
      BY <3>1, TaskFields, Zenon
    <3>3. tasks[t].entries[p] \in Entry
      BY <3>2
    <3> QED
      BY <1>c, <1>5, <3>3 DEF Entry
  <2>2. source = trash[<<p, copy>>] /\ <<p, copy>> \in Binned
    BY <1>p, <1>c, <1>5, <2>1 DEF Source, Binned
  <2>3. \A c \in dear : OnDisk(c) \/ InTrash(c) => OnDisk(c)' \/ InTrash(c)'
    BY <1>2, <1>3, <1>5, <2>2, Trashed
  <2>4. \A c \in dear : InStash(c) => InStash(c)'
    BY <1>1 DEF InStash
  <2> QED
    BY <1>1, <2>3, <2>4, StillSomewhere DEF Somewhere
<1>6. CASE UNCHANGED <<disk, trash>>
  BY <1>1, <1>6, FilesUnmoved
<1> QED
  BY <1>1, <1>4, <1>5, <1>6

(* Undoing takes away what the restore put there, and nothing else: what is *)
(* on top of a pile is the restore's.                                       *)
LEMMA RemovesLosesNothing ==
  ASSUME Typed, Turns, Stacks, StillItsOwn, NothingLost, NEW t \in Tasks, UndoRemoves(t)
  PROVE  NothingLost'
<1>m. PICK move : move = Undone(tasks[t])
  OBVIOUS
<1>p. PICK p, j : p = move.path /\ j = tasks[t].job
  OBVIOUS
<1>1. /\ UNCHANGED <<stash, trash, dear>> /\ Undoing(t) /\ tasks[t].at = "next" /\ tasks[t].path > 0
      /\ move.kind = "arrived" /\ move.copy = 0
      /\ disk' = [disk EXCEPT ![Own(p)] = Nothing] \/ UNCHANGED disk
  BY <1>m, <1>p, UndoRemovesDoes
<1>2. j \in Jobs /\ p \in Paths /\ move \in Done(j, p) /\ mover[p] = j
  BY <1>m, <1>p, <1>1, UndoneIsDone
<1>3. Removes(j, p)
  <2>1. j # 0
    BY <1>2, RestoreAssumption
  <2> QED
    BY <1>1, <1>2, <2>1 DEF Removes
<1>4. Spare(disk[Own(p)])
  BY <1>2, <1>3, OpenPile DEF Piled, Tops
<1>5. CASE disk' = [disk EXCEPT ![Own(p)] = Nothing]
  <2>1. \A c \in dear : disk[Own(p)] # c
    BY <1>4, DearIsSomething
  <2>2. \A c \in dear : OnDisk(c) => OnDisk(c)'
    BY <1>2, <1>5, <2>1, Places, PutThere
  <2>3. \A c \in dear : InStash(c) \/ InTrash(c) => InStash(c)' \/ InTrash(c)'
    BY <1>1 DEF InTrash, InStash
  <2> QED
    BY <1>1, <2>2, <2>3, StillSomewhere DEF Somewhere
<1>6. CASE UNCHANGED disk
  BY <1>1, <1>6, FilesUnmoved
<1> QED
  BY <1>1, <1>5, <1>6

LEMMA ReturnsLosesNothing ==
  ASSUME Typed, Turns, Empty, NothingLost, NEW t \in Tasks, UndoReturns(t)
  PROVE  NothingLost'
<1>m. PICK move : move = Undone(tasks[t])
  OBVIOUS
<1>p. PICK p, s : p = move.path /\ s = move.to
  OBVIOUS
<1>1. /\ UNCHANGED <<trash, ghosts>> /\ Undoing(t) /\ tasks[t].at = "displaced" /\ tasks[t].path > 0
      /\ move.kind = "arrived"
      /\ \/ /\ s \in Second /\ stash' = [stash EXCEPT ![<<s, p>>] = Nothing]
            /\ disk' = [disk EXCEPT ![Own(p)] = stash[<<s, p>>]]
         \/ /\ s \in Aside /\ UNCHANGED stash
            /\ disk' = [disk EXCEPT ![Own(p)] = disk[<<p, s>>], ![<<p, s>>] = Nothing]
         \/ UNCHANGED <<disk, stash>>
  BY <1>m, <1>p, UndoReturnsDoes
<1>2. p \in Paths
  BY <1>m, <1>p, <1>1, UndoneIsDone
<1>3. disk[Own(p)] = Nothing
  <2>1. Runs(t) /\ PathOf(tasks[t]) = p
    BY <1>m, <1>p, <1>1 DEF Runs, Undoing, PathOf
  <2> QED
    BY <1>1, <2>1 DEF Empty, MidMove
<1>4. dear' = dear /\ Own(p) \in Names
  BY <1>1, <1>2, Places DEF ghosts
<1>5. CASE /\ s \in Second /\ stash' = [stash EXCEPT ![<<s, p>>] = Nothing]
           /\ disk' = [disk EXCEPT ![Own(p)] = stash[<<s, p>>]]
  <2>0. <<s, p>> \in Second \X Paths
    BY <1>2, <1>5
  <2>1. \A c \in dear : OnDisk(c) \/ InStash(c) => OnDisk(c)' \/ InStash(c)'
    BY <1>3, <1>4, <1>5, <2>0, Stashed
  <2>2. \A c \in dear : InTrash(c) => InTrash(c)'
    BY <1>1 DEF InTrash
  <2> QED
    BY <1>4, <2>1, <2>2, StillSomewhere DEF Somewhere
<1>6. CASE /\ s \in Aside /\ UNCHANGED stash
           /\ disk' = [disk EXCEPT ![Own(p)] = disk[<<p, s>>], ![<<p, s>>] = Nothing]
  <2>0. <<p, s>> \in Names /\ <<p, s>> # Own(p)
    <3>1. Own(p) = <<p, 0>> /\ s # 0 /\ <<p, s>> \in Names
      BY <1>2, <1>6, Places
    <3>2. <<p, s>> # <<p, 0>>
      BY <3>1
    <3> QED
      BY <3>1, <3>2
  <2>1. \A c \in dear : OnDisk(c) => OnDisk(c)'
    BY <1>3, <1>4, <1>6, <2>0, Renamed
  <2>2. \A c \in dear : InStash(c) \/ InTrash(c) => InStash(c)' \/ InTrash(c)'
    BY <1>1, <1>6 DEF InTrash, InStash
  <2> QED
    BY <1>4, <2>1, <2>2, StillSomewhere DEF Somewhere
<1>7. CASE UNCHANGED <<disk, stash>>
  BY <1>1, <1>4, <1>7, FilesUnmoved
<1> QED
  BY <1>1, <1>5, <1>6, <1>7

LEMMA TrashesLosesNothing ==
  ASSUME Typed, Turns, NothingLost, NEW t \in Tasks, UndoTrashes(t)
  PROVE  NothingLost'
<1>m. PICK move : move = Undone(tasks[t])
  OBVIOUS
<1>p. PICK p : p = move.path
  OBVIOUS
<1>1. /\ UNCHANGED <<stash, dear>> /\ move \in MoveRecord
      /\ \/ /\ \E b \in Binned : trash[b] = Nothing /\ trash' = [trash EXCEPT ![b] = disk[Own(p)]]
            /\ disk' = [disk EXCEPT ![Own(p)] = Nothing]
         \/ UNCHANGED <<disk, trash>>
  BY <1>m, <1>p, UndoTrashesDoes
<1>2. Own(p) \in Names
  BY <1>p, <1>1, MoveFields, Places
<1>3. ASSUME NEW b \in Binned, trash[b] = Nothing, trash' = [trash EXCEPT ![b] = disk[Own(p)]],
             disk' = [disk EXCEPT ![Own(p)] = Nothing]
      PROVE  NothingLost'
  <2>1. \A c \in dear : OnDisk(c) \/ InTrash(c) => OnDisk(c)' \/ InTrash(c)'
    BY <1>2, <1>3, Trashed
  <2>2. \A c \in dear : InStash(c) => InStash(c)'
    BY <1>1 DEF InStash
  <2> QED
    BY <1>1, <2>1, <2>2, StillSomewhere DEF Somewhere
<1>4. CASE UNCHANGED <<disk, trash>>
  BY <1>1, <1>4, FilesUnmoved
<1> QED
  BY <1>1, <1>3, <1>4

LEMMA PutBackLosesNothing ==
  ASSUME Typed, Empty, SlotsAreFree, NothingLost, NEW t \in Tasks,
         PutBackDisplaces(t) \/ PutBackArrives(t)
  PROVE  NothingLost'
<1>f. tasks[t] \in TaskForm
  BY TaskIs
<1>s. PICK s \in Second : s = tasks[t].second
  BY <1>f, TaskFields
<1>p. PICK p \in Paths : p = tasks[t].path
  BY PutBackDisplacesDoes, PutBackArrivesDoes
<1>1. UNCHANGED <<trash, dear>> /\ tasks[t].kind = "put back"
  BY PutBackDisplacesDoes, PutBackArrivesDoes DEF ghosts
<1>2. CASE UNCHANGED <<disk, stash>>
  BY <1>1, <1>2, FilesUnmoved
<1>3. ASSUME NEW r \in Second, NEW x, NEW y, disk' = [disk EXCEPT ![Own(p)] = x],
             stash' = [stash EXCEPT ![<<r, p>>] = y],
             \/ y = disk[Own(p)] /\ stash[<<r, p>>] = Nothing
             \/ x = stash[<<r, p>>] /\ disk[Own(p)] = Nothing
      PROVE  NothingLost'
  <2>0. Own(p) \in Names /\ <<r, p>> \in Second \X Paths
    BY <1>3, Places
  <2>1. \A c \in dear : OnDisk(c) \/ InStash(c) => OnDisk(c)' \/ InStash(c)'
    BY <1>3, <2>0, Stashed
  <2>2. \A c \in dear : InTrash(c) => InTrash(c)'
    BY <1>1 DEF InTrash
  <2> QED
    BY <1>1, <2>1, <2>2, StillSomewhere DEF Somewhere
<1>4. CASE PutBackDisplaces(t)
  <2>1. /\ tasks[t].at = "next"
        /\ \/ UNCHANGED <<disk, stash>>
           \/ /\ stash' = [stash EXCEPT ![<<s, p>>] = disk[Own(p)]]
              /\ disk' = [disk EXCEPT ![Own(p)] = Nothing]
    BY <1>s, <1>p, <1>4, PutBackDisplacesDoes
  <2>2. p \in ToStash(tasks[t])
    BY <1>p, <1>1, <2>1 DEF ToStash
  <2>3. stash[<<s, p>>] = Nothing
    BY <1>s, <2>2 DEF SlotsAreFree
  <2> QED
    BY <1>2, <1>3, <2>1, <2>3
<1>5. CASE PutBackArrives(t)
  <2>1. PICK r : r = tasks[t].to
    OBVIOUS
  <2>2. /\ tasks[t].at = "displaced" /\ r \in Second
        /\ \/ UNCHANGED <<disk, stash>>
           \/ /\ stash' = [stash EXCEPT ![<<r, p>>] = Nothing]
              /\ disk' = [disk EXCEPT ![Own(p)] = stash[<<r, p>>]]
    BY <1>p, <1>5, <2>1, PutBackArrivesDoes
  <2>3. Runs(t) /\ PathOf(tasks[t]) = p
    BY <1>p, <1>1 DEF Runs, PathOf
  <2>4. disk[Own(p)] = Nothing
    BY <2>2, <2>3 DEF Empty, MidMove
  <2> QED
    BY <1>2, <1>3, <2>2, <2>4
<1> QED
  BY <1>4, <1>5

LEMMA StepLosesNothing ==
  ASSUME Typed, Turns, Empty, SlotsAreFree, Stacks, StillItsOwn, NothingLost, NEW t \in Tasks, Step(t)
  PROVE  NothingLost'
<1>1. CASE Begins(t) \/ Ends(t) \/ UndoBegins(t) \/ UndoReenters(t) \/ UndoEnds(t)
  <2>1. UNCHANGED <<disk, stash, trash, dear>>
    <3>1. UNCHANGED files => UNCHANGED <<disk, stash, trash>>
      BY FilesStay
    <3>2. UNCHANGED ghosts => UNCHANGED dear
      BY DEF ghosts
    <3> QED
      BY <1>1, <3>1, <3>2, BeginsDoes, EndsDoes, UndoBeginsDoes, UndoReentersDoes, UndoEndsDoes
  <2> QED
    BY <2>1, FilesUnmoved
<1> QED
  BY <1>1, DisplacesLosesNothing, ArrivesLosesNothing, RemovesLosesNothing, ReturnsLosesNothing,
     TrashesLosesNothing, PutBackLosesNothing, Zenon DEF Step

LEMMA ExpireLosesNothing ==
  ASSUME Typed, NothingLost, NEW max \in {0, MaxFiles}, Expire(max)
  PROVE  NothingLost'
<1>1. PICK gone : /\ gone \subseteq Second \X Paths
                  /\ stash' = [k \in Second \X Paths |-> IF k \in gone THEN Nothing ELSE stash[k]]
                  /\ dear' = dear \ {stash[k] : k \in gone} /\ UNCHANGED <<disk, trash>>
  BY DEF Expire
<1>2. ASSUME NEW c \in dear', NEW k \in Second \X Paths, stash[k] = c PROVE stash'[k] = c
  BY <1>1, <1>2
<1>3. \A c \in dear' : InStash(c) => InStash(c)'
  BY <1>2 DEF InStash
<1>4. \A c : OnDisk(c) \/ InTrash(c) => OnDisk(c)' \/ InTrash(c)'
  BY <1>1 DEF OnDisk, InTrash
<1> QED
  BY <1>1, <1>3, <1>4, StillSomewhere DEF Somewhere

LEMMA PersonLosesNothing ==
  ASSUME Typed, NothingLost, NEW p \in Paths, PersonWrites(p) \/ PersonTrashes(p)
  PROVE  NothingLost'
<1>0. Own(p) \in Names
  BY Places
<1>1. CASE PersonWrites(p)
  <2>1. /\ UNCHANGED <<stash, trash>> /\ dear' = (dear \ {disk[Own(p)]}) \cup {wrote + 1}
        /\ disk' = [disk EXCEPT ![Own(p)] = wrote + 1]
    BY <1>1 DEF PersonWrites
  <2>2. ASSUME NEW c \in dear' PROVE Somewhere(c)'
    <3>1. CASE c = wrote + 1
      BY <1>0, <2>1, <3>1, PutThere DEF Somewhere
    <3>2. CASE c \in dear /\ c # disk[Own(p)]
      <4>1. Somewhere(c)
        BY <3>2 DEF NothingLost, Somewhere, OnDisk, InStash, InTrash
      <4>2. OnDisk(c) => OnDisk(c)'
        BY <1>0, <2>1, <3>2, PutThere
      <4>3. InStash(c) \/ InTrash(c) => InStash(c)' \/ InTrash(c)'
        BY <2>1 DEF InStash, InTrash
      <4> QED
        BY <4>1, <4>2, <4>3 DEF Somewhere
    <3> QED
      BY <2>1, <2>2, <3>1, <3>2
  <2> QED
    BY <2>2 DEF NothingLost, Somewhere, OnDisk, InStash, InTrash
<1>2. CASE PersonTrashes(p)
  <2>1. PICK n \in 1 .. 2 : /\ UNCHANGED <<stash, dear>> /\ trash[<<p, n>>] = Nothing
                            /\ trash' = [trash EXCEPT ![<<p, n>>] = disk[Own(p)]]
                            /\ disk' = [disk EXCEPT ![Own(p)] = Nothing]
    BY <1>2 DEF PersonTrashes
  <2>2. <<p, n>> \in Binned
    BY <2>1 DEF Binned
  <2>3. \A c \in dear : OnDisk(c) \/ InTrash(c) => OnDisk(c)' \/ InTrash(c)'
    BY <1>0, <2>1, <2>2, Trashed
  <2>4. \A c \in dear : InStash(c) => InStash(c)'
    BY <2>1 DEF InStash
  <2> QED
    BY <2>1, <2>3, <2>4, StillSomewhere DEF Somewhere
<1> QED
  BY <1>1, <1>2

LEMMA NothingLostStep ==
  ASSUME Typed, Turns, Empty, SlotsAreFree, Stacks, StillItsOwn, NothingLost, [Next]_vars
  PROVE  NothingLost'
<1>1. ASSUME NEW t \in Tasks, Step(t) PROVE NothingLost'
  BY <1>1, StepLosesNothing
<1>f. (UNCHANGED files => UNCHANGED <<disk, stash, trash>>) /\ (UNCHANGED ghosts => UNCHANGED dear)
  BY FilesStay DEF ghosts
<1>2. ASSUME NEW t \in Tasks, Call(t) PROVE NothingLost'
  BY <1>f, <1>2, CallKeepsFiles, FilesUnmoved
<1>3. ASSUME NEW j \in Jobs, NEW asked \in SUBSET Paths, NEW binned \in SUBSET Binned,
             Prepare(j, asked, binned)
      PROVE  NothingLost'
  BY <1>f, <1>3, PlansAre, FilesUnmoved
<1>4. ASSUME NEW j \in Jobs, Discard(j) PROVE NothingLost'
  BY <1>f, <1>4, PlansAre, FilesUnmoved
<1>5. ASSUME NEW max \in {0, MaxFiles}, Expire(max) PROVE NothingLost'
  BY <1>5, ExpireLosesNothing
<1>6. ASSUME NEW p \in Paths, PersonWrites(p) \/ PersonTrashes(p) PROVE NothingLost'
  BY <1>6, PersonLosesNothing
<1>7. CASE PersonEmptiesTrash
  <2>1. UNCHANGED <<disk, stash>> /\ dear' = dear \ {trash[b] : b \in Binned}
    BY <1>7 DEF PersonEmptiesTrash
  <2>2. \A c \in dear' : ~InTrash(c)
    BY <2>1 DEF InTrash
  <2>3. \A c \in dear' : OnDisk(c) \/ InStash(c) => OnDisk(c)' \/ InStash(c)'
    BY <2>1 DEF OnDisk, InStash
  <2> QED
    BY <2>1, <2>2, <2>3, StillSomewhere DEF Somewhere
<1>8. CASE SecondPasses \/ UNCHANGED vars
  BY <1>f, <1>8, FilesUnmoved DEF SecondPasses, vars
<1>9. CASE Crash
  BY <1>f, <1>9, CrashDoes, FilesUnmoved
<1> QED
  BY <1>1, <1>2, <1>3, <1>4, <1>5, <1>6, <1>7, <1>8, <1>9, Zenon DEF Next

LEMMA NothingLostInit == Init => NothingLost
<1> SUFFICES ASSUME Init PROVE NothingLost
  OBVIOUS
<1>1. PICK there \in SUBSET Paths, binned \in SUBSET {Min(Paths)} :
        /\ disk = [m \in Names |-> IF m[2] = 0 /\ m[1] \in there THEN m[1] ELSE Nothing]
        /\ trash = [b \in Binned |-> IF b[1] \in binned /\ b[2] = 1 THEN Max(Paths) + 1 ELSE Nothing]
        /\ dear = there \cup {Max(Paths) + 1 : p \in binned}
  BY AtFirst
<1>2. ASSUME NEW p \in there PROVE \E n \in Names : disk[n] = p
  <2>1. <<p, 0>> \in Names
    BY <1>1, Places
  <2> QED
    BY <1>1, <2>1
<1>3. ASSUME NEW p \in binned PROVE \E b \in Binned : trash[b] = Max(Paths) + 1
  <2>1. <<p, 1>> \in Binned
    BY <1>1, PathsEnd DEF Binned
  <2> QED
    BY <1>1, <2>1
<1>4. ASSUME NEW c \in dear PROVE (\E n \in Names : disk[n] = c) \/ (\E b \in Binned : trash[b] = c)
  <2>1. c \in there \/ (c = Max(Paths) + 1 /\ \E p \in binned : TRUE)
    BY <1>1, <1>4
  <2> QED
    BY <1>2, <1>3, <2>1, Zenon
<1> QED
  BY <1>4 DEF NothingLost

\* The circumstances of the ordinary: restores one at a time and undone in
\* their order, of a person who does not write under them.
Ordinary == Circumstances \subseteq {"long", "trash"}

(* What a person has is never lost in restores, undoings and put-backs, in   *)
(* their order, whatever fails and wherever it is cut off: until they write  *)
(* over it, empty the Trash or the stash's time is up it is somewhere        *)
(* (execute.rs, "Nothing is overwritten in the ordinary sense").             *)
THEOREM NothingIsLost ==
  ASSUME Ordinary
  PROVE  Spec => []RestoreSafety
<1>0. OneAtATime /\ OnceOnly /\ Unwatched /\ NewSeconds /\ InOrder
  BY DEF Ordinary, OneAtATime, OnceOnly, Unwatched, NewSeconds, InOrder
<1> DEFINE IInv == /\ Typed /\ Turns /\ Empty /\ SlotsAreFree /\ Stacks /\ StillItsOwn /\ NothingLost
<1>1. Init => IInv
  BY TypedInit, TurnsInit, EmptyInit, SlotsInit, StacksInit, OwnInit, NothingLostInit
<1>2. IInv /\ [Next]_vars => IInv'
  BY <1>0, TypedStep, TurnsStep, EmptyStep, SlotsStep, StacksStep, OwnStep, NothingLostStep
<1>3. IInv => RestoreSafety
  BY TypedIsTypeOK DEF RestoreSafety
<1> QED
  BY <1>1, <1>2, <1>3, PTL DEF Spec
=============================================================================
