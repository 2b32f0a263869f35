------------------------------ MODULE SpoolCap ------------------------------
(***************************************************************************)
(* What the local spool's size limit allows before an archive is written   *)
(* to it: plan_cap of backtrackd/src/offline.rs.  The planner knows what   *)
(* the spool occupies and how many archives it holds, never how large each *)
(* one is, and works with an even share of what is held.  The definitions  *)
(* below the planner give the archives sizes and ask what the spool holds  *)
(* once its plan is carried out.                                           *)
(***************************************************************************)
EXTENDS Integers, Sequences, FiniteSetsExt, SequencesExt

CONSTANT Largest   \* the largest number of bytes that can be counted (u64)

ASSUME LargestAssumption == Largest \in Nat \ {0}

\* saturating_add and saturating_sub.
Plus(a, b) == IF a + b > Largest THEN Largest ELSE a + b
Minus(a, b) == IF a < b THEN 0 ELSE a - b

\* per_archive: the even share of what is held that one archive stands for.
Share(held, count) == IF count = 0 THEN 0 ELSE held \div count

\* What is reckoned to be held once the `gone' oldest are dropped.
Remaining(held, count, gone) ==
  FoldLeft(Minus, held, [i \in 1 .. gone |-> Share(held, count)])

\* CapPlan: how many of the oldest go first, whether the archive is written,
\* and whether the safety net is under strain.
CapPlan == [evict : Nat, proceed : BOOLEAN, degraded : BOOLEAN]

\* plan_cap: no limit allows everything; otherwise the fewest of the oldest
\* that make room go, and if no number of them does, none goes and only an
\* empty spool takes the archive.
PlanCap(cap, held, incoming, count) ==
  LET enough == {gone \in 0 .. count :
                   Plus(Remaining(held, count, gone), incoming) <= cap}
  IN  CASE cap = 0      -> [evict |-> 0, proceed |-> TRUE, degraded |-> FALSE]
        [] cap # 0 /\ enough # {} ->
             [evict |-> Min(enough), proceed |-> TRUE, degraded |-> FALSE]
        [] OTHER        -> [evict |-> 0, proceed |-> count = 0, degraded |-> TRUE]
-----------------------------------------------------------------------------
(***************************************************************************)
(* The spool the plan is made for: the sizes of its archives, oldest       *)
(* first, and what it holds when the plan has been carried out.            *)
(***************************************************************************)
Bytes(sizes) == FoldLeft(LAMBDA a, b : a + b, 0, sizes)

Plan(cap, sizes, incoming) == PlanCap(cap, Bytes(sizes), incoming, Len(sizes))

After(cap, sizes, incoming) ==
  LET plan == Plan(cap, sizes, incoming)
      kept == SubSeq(sizes, plan.evict + 1, Len(sizes))
  IN  Bytes(kept) + (IF plan.proceed THEN incoming ELSE 0)

Sizes(most, count) == UNION {[1 .. n -> 0 .. most] : n \in 0 .. count}
Even(sizes) == \A i, j \in DOMAIN sizes : sizes[i] = sizes[j]

\* A limit is kept: carrying out the plan leaves the spool within it, unless
\* it takes nothing, or was empty and takes its one archive anyway; and the
\* fewest possible go.  True of archives of one size.
KeepsTheCap(cap, sizes, incoming) ==
  LET plan == Plan(cap, sizes, incoming)
      less == SubSeq(sizes, plan.evict, Len(sizes))
  IN  cap # 0 =>
        /\ \/ After(cap, sizes, incoming) <= cap
           \/ sizes = <<>>
           \/ ~ plan.proceed
        /\ plan.evict > 0 => Bytes(less) + incoming > cap

\* Nothing is lost for nothing: what goes makes room for an archive that is
\* then written, and an archive is refused only if it would not fit an empty
\* spool either, but for the bytes that an even share leaves over.
DropsForAReason(cap, sizes, incoming) ==
  LET plan == Plan(cap, sizes, incoming)
  IN  /\ plan.evict > 0 => plan.proceed
      /\ ~ plan.proceed => incoming + Len(sizes) > cap /\ plan.evict = 0

\* Every limit, spool and archive up to the bounds: sizes to `most' of `count'
\* archives, an archive and a limit that can still be told from the largest.
CapIsMet(most, count) ==
  \A sizes \in Sizes(most, count), cap, incoming \in 0 .. Largest - 1 :
    /\ Bytes(sizes) <= Largest /\ Even(sizes) => KeepsTheCap(cap, sizes, incoming)
    /\ Bytes(sizes) <= Largest => DropsForAReason(cap, sizes, incoming)

\* The same for archives of any sizes.
CapIsMetWhateverTheSizes(most, count) ==
  \A sizes \in Sizes(most, count), cap, incoming \in 0 .. Largest - 1 :
    Bytes(sizes) <= Largest => KeepsTheCap(cap, sizes, incoming)
=============================================================================
