--------------------------- MODULE CataloguingProofs ---------------------------
(***************************************************************************)
(* Proofs about Catalogue and Cataloguing: what each operation of the      *)
(* catalogue's writer does to the intervals, for every set of paths and    *)
(* contents and any number of archives, and that the catalogue the jobs    *)
(* leave is what reading every archive in order would give.                *)
(*                                                                         *)
(* A timeline is the maximal runs of a spread, which says of each path and *)
(* content at which archives the path has that content.  The reference is  *)
(* the timeline of what the rows hold, and each operation of the writer is *)
(* shown to take a timeline to the timeline of the spread it stands for.   *)
(***************************************************************************)
EXTENDS Cataloguing, FiniteSetTheorems, SequenceTheorems, WellFoundedInduction, TLAPS

(* The least and the greatest of some numbers, and those in a row with one. *)

(* Numbers have a least. *)
LEMMA LeastOfSome ==
  ASSUME NEW S \in SUBSET Nat, S # {}
  PROVE  Min(S) \in S /\ \A n \in S : Min(S) <= n
<1>1. PICK l \in S : \A m \in S : ~(<<m, l>> \in OpToRel(<, Nat))
  BY NatLessThanWellFounded, WFMin
<1>2. ASSUME NEW m \in S PROVE l <= m
  <2>1. ~(m < l)
    BY <1>1 DEF OpToRel
  <2> QED
    BY <2>1
<1> QED
  BY <1>2 DEF Min

(* Numbers that are bounded have a greatest. *)
LEMMA GreatestOfSome ==
  ASSUME NEW n \in Nat, NEW S \in SUBSET (0 .. n), S # {}
  PROVE  Max(S) \in S /\ \A m \in S : m <= Max(S)
<1> DEFINE T == {n - m : m \in S}
<1>1. T \in SUBSET Nat /\ T # {}
  <2>1. \A m \in S : n - m \in Nat
    OBVIOUS
  <2> QED
    BY <2>1
<1>2. PICK m \in S : Min(T) = n - m
  BY <1>1, LeastOfSome
<1>3. \A k \in S : n - m <= n - k
  BY <1>1, <1>2, LeastOfSome
<1>4. \A k \in S : k <= m
  BY <1>3
<1> QED
  BY <1>4 DEF Max

(* The greatest is the one that none exceeds. *)
LEMMA GreatestIs ==
  ASSUME NEW S \in SUBSET Nat, NEW m \in S, \A k \in S : k <= m
  PROVE  Max(S) = m
<1>1. \A x \in S : (\A y \in S : x >= y) => x = m
  OBVIOUS
<1>2. m \in S /\ \A y \in S : m >= y
  OBVIOUS
<1> QED
  BY <1>1, <1>2 DEF Max

(* The least is the one that none is below. *)
LEMMA LeastIs ==
  ASSUME NEW S \in SUBSET Nat, NEW m \in S, \A k \in S : m <= k
  PROVE  Min(S) = m
<1>1. \A x \in S : (\A y \in S : x <= y) => x = m
  OBVIOUS
<1>2. m \in S /\ \A y \in S : m <= y
  OBVIOUS
<1> QED
  BY <1>1, <1>2 DEF Min

(* A run of S: all of a .. b is in S, and neither neighbour is. *)
IsRun(S, a, b) == a <= b /\ a .. b \subseteq S /\ a - 1 \notin S /\ b + 1 \notin S

(* How far a number's run goes up. *)
LEMMA RunUp ==
  ASSUME NEW n \in Nat, NEW S \in SUBSET (1 .. n), NEW a \in S
  PROVE  \E b \in S : a <= b /\ a .. b \subseteq S /\ b + 1 \notin S
<1> DEFINE E == {e \in 1 .. n + 1 : e > a /\ e \notin S}
<1>1. E \in SUBSET Nat /\ n + 1 \in E
  OBVIOUS
<1>2. Min(E) \in E /\ \A e \in E : Min(E) <= e
  BY <1>1, LeastOfSome
<1>3. PICK m \in E : \A e \in E : m <= e
  BY <1>2
<1>4. m \in 1 .. n + 1 /\ m > a /\ m \notin S
  OBVIOUS
<1>5. \A c \in a .. m - 1 : c \in S
  <2>1. SUFFICES ASSUME NEW c \in a .. m - 1, c # a, c \notin S PROVE FALSE
    OBVIOUS
  <2>2. a \in 1 .. n /\ m \in Int
    BY <1>4
  <2>3. c \in 1 .. n + 1 /\ c > a /\ c < m
    BY <1>4, <2>1, <2>2
  <2>4. c \in E
    BY <2>1, <2>3
  <2> QED
    BY <1>3, <2>3, <2>4
<1> HIDE DEF E
<1>6. m - 1 \in S /\ a <= m - 1 /\ (m - 1) + 1 \notin S
  BY <1>4, <1>5
<1> QED
  BY <1>5, <1>6

(* And how far down. *)
LEMMA RunDown ==
  ASSUME NEW S \in SUBSET (Nat \ {0}), NEW b \in S
  PROVE  \E a \in S : a <= b /\ a .. b \subseteq S /\ a - 1 \notin S
<1> DEFINE F == {f \in S : f <= b /\ f .. b \subseteq S}
<1>1. F \in SUBSET Nat /\ b \in F
  <2>1. F \subseteq S
    OBVIOUS
  <2>2. b <= b /\ b .. b \subseteq S
    <3>1. \A c \in b .. b : c = b
      OBVIOUS
    <3> QED
      BY <3>1
  <2> QED
    BY <2>1, <2>2
<1>2. PICK a \in F : \A f \in F : a <= f
  BY <1>1, LeastOfSome
<1>3. ASSUME a - 1 \in S PROVE FALSE
  <2>1. a - 1 \in Nat /\ a - 1 <= b /\ (a - 1) .. b \subseteq S
    BY <1>2, <1>3
  <2>2. a - 1 \in F
    BY <1>3, <2>1
  <2> QED
    BY <1>2, <2>2
<1> QED
  BY <1>2, <1>3

(* Every number of a set is in one of its runs. *)
LEMMA RunAt ==
  ASSUME NEW n \in Nat, NEW S \in SUBSET (1 .. n), NEW s \in S
  PROVE  \E a, b \in S : a <= s /\ s <= b /\ IsRun(S, a, b)
<1>1. PICK b \in S : s <= b /\ s .. b \subseteq S /\ b + 1 \notin S
  BY RunUp
<1>2. PICK a \in S : a <= s /\ a .. s \subseteq S /\ a - 1 \notin S
  BY RunDown
<1>3. a .. b \subseteq S /\ a <= b
  BY <1>1, <1>2
<1> QED
  BY <1>1, <1>2, <1>3 DEF IsRun

(* Two runs are the same, or apart. *)
LEMMA RunsApart ==
  ASSUME NEW S \in SUBSET Nat, NEW a \in Nat, NEW b \in Nat, NEW c \in Nat, NEW d \in Nat,
         IsRun(S, a, b), IsRun(S, c, d)
  PROVE  (a = c /\ b = d) \/ b + 1 < c \/ d + 1 < a
<1>1. /\ \A m \in a .. b : m \in S
      /\ \A m \in c .. d : m \in S
      /\ a - 1 \notin S /\ b + 1 \notin S /\ c - 1 \notin S /\ d + 1 \notin S
      /\ a <= b /\ c <= d
  BY DEF IsRun
<1>2. CASE a < c
  <2>1. ~(b + 1 >= c)
    <3>1. c - 1 \notin a .. b
      BY <1>1
    <3>2. b + 1 \notin c .. d
      BY <1>1
    <3> QED
      BY <1>2, <3>1, <3>2, <1>1
  <2> QED
    BY <2>1
<1>3. CASE c < a
  <2>1. a - 1 \notin c .. d
    BY <1>1
  <2>2. d + 1 \notin a .. b
    BY <1>1
  <2> QED
    BY <1>3, <2>1, <2>2, <1>1
<1>4. CASE a = c
  <2>1. b + 1 \notin c .. d /\ d + 1 \notin a .. b
    BY <1>1
  <2> QED
    BY <1>4, <2>1, <1>1
<1> QED
  BY <1>2, <1>3, <1>4

-----------------------------------------------------------------------------
(* Versions as runs of the archives that hold a file with a content. *)

(* H[p][k]: the archives, of n, in which p has content k. *)
Spreads(n) == [Path -> [Content -> SUBSET (1 .. n)]]

(* The versions that read in order come of H: a version is a run of its file. *)
Timeline(H) ==
  {v \in Version : IsRun(H[v.path][v.content], v.first, v.last)}

V(p, k, a, b) == [path |-> p, content |-> k, first |-> a, last |-> b]

(* A version by its fields. *)
LEMMA VersionIs ==
  ASSUME NEW v \in Version
  PROVE  /\ v.path \in Path /\ v.content \in Content /\ v.first \in Nat /\ v.last \in Nat
         /\ v = V(v.path, v.content, v.first, v.last)
BY DEF Version, V

(* The fields of a version. *)
LEMMA VersionFields ==
  ASSUME NEW p, NEW k, NEW a, NEW b
  PROVE  /\ V(p, k, a, b).path = p /\ V(p, k, a, b).content = k
         /\ V(p, k, a, b).first = a /\ V(p, k, a, b).last = b
BY DEF V

(* What a version is. *)
LEMMA VersionType ==
  ASSUME NEW p \in Path, NEW k \in Content, NEW a \in Nat, NEW b \in Nat
  PROVE  V(p, k, a, b) \in Version
BY DEF V, Version

(* A version with another start, or another end. *)
LEMMA VersionEnds ==
  ASSUME NEW v \in Version, NEW a, NEW b
  PROVE  /\ [v EXCEPT !.first = a] = V(v.path, v.content, a, v.last)
         /\ [v EXCEPT !.last = b] = V(v.path, v.content, v.first, b)
         /\ [v EXCEPT !.first = a, !.last = b] = V(v.path, v.content, a, b)
<1> DEFINE w == [v EXCEPT !.first = a]
<1>1. [v EXCEPT !.first = a] = V(v.path, v.content, a, v.last)
  BY DEF V, Version
<1>2. [v EXCEPT !.last = b] = V(v.path, v.content, v.first, b)
  BY DEF V, Version
<1>3. [V(v.path, v.content, a, v.last) EXCEPT !.last = b] = V(v.path, v.content, a, b)
  BY DEF V
<1>4. [v EXCEPT !.first = a, !.last = b] = [w EXCEPT !.last = b]
  OBVIOUS
<1> QED
  BY <1>1, <1>2, <1>3, <1>4

(* The timeline of spreads is their runs. *)
LEMMA TimelineIs ==
  ASSUME NEW n \in Nat, NEW H \in Spreads(n)
  PROVE  /\ Timeline(H) \subseteq Version
         /\ \A p \in Path, k \in Content : H[p][k] \in SUBSET (1 .. n)
         /\ \A v \in Version : v \in Timeline(H) <=> IsRun(H[v.path][v.content], v.first, v.last)
         /\ \A p \in Path, k \in Content, a, b \in Nat :
              V(p, k, a, b) \in Timeline(H) <=> IsRun(H[p][k], a, b)
<1>1. \A p \in Path, k \in Content : H[p][k] \in SUBSET (1 .. n)
  BY DEF Spreads
<1>2. \A p \in Path, k \in Content, a, b \in Nat :
        V(p, k, a, b) \in Timeline(H) <=> IsRun(H[p][k], a, b)
  BY VersionType, VersionFields DEF Timeline
<1> QED
  BY <1>1, <1>2 DEF Timeline

(* A run is of numbers of its set. *)
LEMMA RunEnds ==
  ASSUME NEW S \in SUBSET Nat, NEW a \in Nat, NEW b \in Nat, IsRun(S, a, b)
  PROVE  /\ a \in S /\ b \in S /\ a <= b /\ a - 1 \notin S /\ b + 1 \notin S
         /\ \A c \in Nat : a <= c /\ c <= b => c \in S
<1>1. a <= b /\ a - 1 \notin S /\ b + 1 \notin S /\ \A c \in a .. b : c \in S
  BY DEF IsRun
<1> QED
  BY <1>1

(* A number put into a set joins what ends just before it and starts just after. *)
LEMMA RunsWith ==
  ASSUME NEW S \in SUBSET (Nat \ {0}), NEW s \in Nat, s \notin S, NEW a \in Nat, NEW b \in Nat
  PROVE  IsRun(S \cup {s}, a, b) <=>
           \/ IsRun(S, a, b) /\ b # s - 1 /\ a # s + 1
           \/ /\ a <= s /\ s <= b
              /\ IF a = s THEN s - 1 \notin S ELSE IsRun(S, a, s - 1)
              /\ IF b = s THEN s + 1 \notin S ELSE IsRun(S, s + 1, b)
<1> DEFINE T == S \cup {s}
<1>t. \A c : c \in T <=> c \in S \/ c = s
  OBVIOUS
<1>1. ASSUME IsRun(S, a, b), b # s - 1, a # s + 1 PROVE IsRun(T, a, b)
  BY <1>1, <1>t DEF IsRun
<1>2. ASSUME IsRun(T, a, b), b < s PROVE IsRun(S, a, b) /\ b # s - 1 /\ a # s + 1
  BY <1>2, <1>t DEF IsRun
<1>3. ASSUME IsRun(T, a, b), s < a PROVE IsRun(S, a, b) /\ b # s - 1 /\ a # s + 1
  BY <1>3, <1>t DEF IsRun
<1>4. ASSUME IsRun(T, a, b), a <= s, s <= b
      PROVE  /\ IF a = s THEN s - 1 \notin S ELSE IsRun(S, a, s - 1)
             /\ IF b = s THEN s + 1 \notin S ELSE IsRun(S, s + 1, b)
  <2>1. /\ a - 1 \notin S /\ b + 1 \notin S /\ \A c \in a .. b : c # s => c \in S
        /\ a - 1 # s /\ b + 1 # s
    BY <1>4, <1>t DEF IsRun
  <2>2. ASSUME a # s PROVE IsRun(S, a, s - 1)
    <3>1. a <= s - 1 /\ (s - 1) + 1 = s /\ \A c \in a .. s - 1 : c \in a .. b /\ c # s
      BY <1>4, <2>2
    <3> QED
      BY <2>1, <3>1 DEF IsRun
  <2>3. ASSUME b # s PROVE IsRun(S, s + 1, b)
    <3>1. s + 1 <= b /\ (s + 1) - 1 = s /\ \A c \in s + 1 .. b : c \in a .. b /\ c # s
      BY <1>4, <2>3
    <3> QED
      BY <2>1, <3>1 DEF IsRun
  <2> QED
    BY <2>1, <2>2, <2>3
<1>5. ASSUME a <= s, s <= b,
             IF a = s THEN s - 1 \notin S ELSE IsRun(S, a, s - 1),
             IF b = s THEN s + 1 \notin S ELSE IsRun(S, s + 1, b)
      PROVE  IsRun(T, a, b)
  <2>1. a - 1 \notin S /\ b + 1 \notin S
    BY <1>5 DEF IsRun
  <2>2. \A c \in a .. b : c < s => c \in S
    <3>1. a # s => \A c \in a .. s - 1 : c \in S
      BY <1>5 DEF IsRun
    <3> QED
      BY <1>5, <3>1
  <2>3. \A c \in a .. b : c > s => c \in S
    <3>1. b # s => \A c \in s + 1 .. b : c \in S
      BY <1>5 DEF IsRun
    <3> QED
      BY <1>5, <3>1
  <2>4. \A c \in a .. b : c \in T
    BY <2>2, <2>3, <1>t
  <2>5. a - 1 # s /\ b + 1 # s /\ a <= b
    BY <1>5
  <2> QED
    BY <2>1, <2>4, <2>5, <1>t DEF IsRun
<1>6. b < s \/ s < a \/ (a <= s /\ s <= b)
  OBVIOUS
<1>7. IsRun(S, a, b) => ~(a <= s /\ s <= b)
  BY DEF IsRun
<1> QED
  BY <1>1, <1>2, <1>3, <1>4, <1>5, <1>6, <1>7

-----------------------------------------------------------------------------
(* An archive folded in. *)

(* Where the versions of a file that end just before s begin, and where those
   that begin just after it end. *)
Of(vs, p, k) == {v \in vs : v.path = p /\ v.content = k}
Begins(vs, p, k, s) == {v.first : v \in {v \in Of(vs, p, k) : v.last = s - 1}}
Ends(vs, p, k, s) == {v.last : v \in {v \in Of(vs, p, k) : v.first = s + 1}}

(* A version that an archive's own item meets, and what it becomes with s. *)
Met(v, s, listing) ==
  \E p \in DOMAIN listing :
    v.path = p /\ v.content = listing[p] /\ (v.last = s - 1 \/ v.first = s + 1)
Whole(vs, s, listing, p) ==
  V(p, listing[p], Min({s} \cup Begins(vs, p, listing[p], s)),
                   Max({s} \cup Ends(vs, p, listing[p], s)))

(* What Folded has: what did not meet s, and one version for each path *)
(* listed.                                                             *)
LEMMA FoldedIs ==
  ASSUME NEW vs, NEW s, NEW listing, NEW v
  PROVE  v \in Folded(vs, s, listing) <=>
           \/ v \in vs /\ ~ Met(v, s, listing)
           \/ \E p \in DOMAIN listing : v = Whole(vs, s, listing, p)
<1> DEFINE L(p) == {u \in Of(vs, p, listing[p]) : u.last = s - 1}
           R(p) == {u \in Of(vs, p, listing[p]) : u.first = s + 1}
           W(p) == V(p, listing[p], Min({s} \cup Begins(vs, p, listing[p], s)),
                                    Max({s} \cup Ends(vs, p, listing[p], s)))
<1>1. Folded(vs, s, listing) =
        (vs \ UNION {L(p) \cup R(p) : p \in DOMAIN listing}) \cup {W(p) : p \in DOMAIN listing}
  BY DEF Folded, Of, Begins, Ends, V
<1>2. \A p : v \in L(p) \cup R(p) <=>
        v \in vs /\ v.path = p /\ v.content = listing[p] /\ (v.last = s - 1 \/ v.first = s + 1)
  BY DEF Of
<1> HIDE DEF L, R, W
<1>3. v \in Folded(vs, s, listing) <=>
        \/ v \in vs /\ ~ \E p \in DOMAIN listing : v \in L(p) \cup R(p)
        \/ \E p \in DOMAIN listing : v = W(p)
  BY <1>1
<1>4. v \in Folded(vs, s, listing) <=>
        \/ /\ v \in vs
           /\ ~ \E p \in DOMAIN listing :
                  v.path = p /\ v.content = listing[p] /\ (v.last = s - 1 \/ v.first = s + 1)
        \/ \E p \in DOMAIN listing : v = W(p)
  BY <1>2, <1>3
<1> QED
  BY <1>4 DEF W, Met, Whole

(* The version that s is in: as far as a run ends before s and starts after *)
(* it.                                                                      *)
LEMMA WholeIs ==
  ASSUME NEW n \in Nat, NEW H \in Spreads(n), NEW p \in Path, NEW k \in Content,
         NEW s \in Nat, s \notin H[p][k],
         NEW a, a = Min({s} \cup Begins(Timeline(H), p, k, s)),
         NEW b, b = Max({s} \cup Ends(Timeline(H), p, k, s))
  PROVE  /\ a \in Nat /\ b \in Nat /\ a <= s /\ s <= b
         /\ IF a = s THEN s - 1 \notin H[p][k] ELSE IsRun(H[p][k], a, s - 1)
         /\ IF b = s THEN s + 1 \notin H[p][k] ELSE IsRun(H[p][k], s + 1, b)
<1> DEFINE S == H[p][k]
<1>1. S \in SUBSET (1 .. n) /\ S \in SUBSET Nat
  BY TimelineIs
<1>2. \A f : f \in Begins(Timeline(H), p, k, s) <=> f \in Nat /\ s - 1 \in Nat /\ IsRun(S, f, s - 1)
  <2>1. \A v \in Timeline(H) : v \in Version /\ IsRun(H[v.path][v.content], v.first, v.last)
    BY TimelineIs
  <2>2. ASSUME NEW f, f \in Begins(Timeline(H), p, k, s)
        PROVE  f \in Nat /\ s - 1 \in Nat /\ IsRun(S, f, s - 1)
    <3>1. PICK v \in Timeline(H) : v.path = p /\ v.content = k /\ v.last = s - 1 /\ f = v.first
      BY <2>2 DEF Begins, Of
    <3> QED
      BY <2>1, <3>1, VersionIs
  <2>3. ASSUME NEW f \in Nat, s - 1 \in Nat, IsRun(S, f, s - 1)
        PROVE  f \in Begins(Timeline(H), p, k, s)
    <3>1. V(p, k, f, s - 1) \in Timeline(H)
      BY <2>3, TimelineIs
    <3> HIDE DEF S
    <3> QED
      BY <3>1, VersionFields DEF Begins, Of
  <2> QED
    BY <2>2, <2>3
<1>3. \A l : l \in Ends(Timeline(H), p, k, s) <=> l \in Nat /\ IsRun(S, s + 1, l)
  <2>1. \A v \in Timeline(H) : v \in Version /\ IsRun(H[v.path][v.content], v.first, v.last)
    BY TimelineIs
  <2>2. ASSUME NEW l, l \in Ends(Timeline(H), p, k, s)
        PROVE  l \in Nat /\ IsRun(S, s + 1, l)
    <3>1. PICK v \in Timeline(H) : v.path = p /\ v.content = k /\ v.first = s + 1 /\ l = v.last
      BY <2>2 DEF Ends, Of
    <3> QED
      BY <2>1, <3>1, VersionIs
  <2>3. ASSUME NEW l \in Nat, IsRun(S, s + 1, l)
        PROVE  l \in Ends(Timeline(H), p, k, s)
    <3>1. V(p, k, s + 1, l) \in Timeline(H)
      <4>1. s + 1 \in Nat
        OBVIOUS
      <4> QED
        BY <2>3, <4>1, TimelineIs
    <3> HIDE DEF S
    <3> QED
      BY <3>1, VersionFields DEF Ends, Of
  <2> QED
    BY <2>2, <2>3
<1>s. s \notin S
  OBVIOUS
<1> HIDE DEF S
<1>4. /\ a \in Nat /\ a <= s
      /\ IF a = s THEN s - 1 \notin S ELSE IsRun(S, a, s - 1)
  <2> DEFINE B == Begins(Timeline(H), p, k, s)
  <2>1. CASE s - 1 \in S
    <3>1. s - 1 \in Nat
      BY <1>1, <2>1
    <3>2. PICK c, d \in S : c <= s - 1 /\ s - 1 <= d /\ IsRun(S, c, d)
      BY <1>1, <2>1, RunAt
    <3>3. d = s - 1 /\ c \in Nat
      <4>1. c \in Nat /\ d \in Nat
        BY <1>1
      <4>2. \A e \in Nat : c <= e /\ e <= d => e \in S
        BY <1>1, <3>2, <4>1, RunEnds
      <4> QED
        BY <1>s, <3>1, <3>2, <4>1, <4>2
    <3>4. \A f \in B : f = c
      <4>1. ASSUME NEW f \in B PROVE f = c
        <5>1. f \in Nat /\ IsRun(S, f, s - 1)
          BY <1>2
        <5>2. f <= s - 1
          BY <5>1 DEF IsRun
        <5> QED
          BY <1>1, <3>1, <3>2, <3>3, <5>1, <5>2, RunsApart
      <4> QED
        BY <4>1
    <3>5. c \in B
      BY <1>2, <3>1, <3>2, <3>3
    <3> HIDE DEF B
    <3>6. {s} \cup B \in SUBSET Nat /\ c \in {s} \cup B /\ \A e \in {s} \cup B : c <= e
      <4>1. c \in Nat /\ c <= s
        BY <3>2, <3>3
      <4>2. \A e \in {s} \cup B : e = s \/ e = c
        BY <3>4
      <4> QED
        BY <3>5, <4>1, <4>2
    <3>7. Min({s} \cup B) = c
      BY <3>6, LeastIs
    <3>8. a = c
      BY <3>7 DEF B
    <3> QED
      BY <3>1, <3>2, <3>3, <3>8
  <2>2. CASE s - 1 \notin S
    <3>1. B = {}
      <4>1. ASSUME NEW f \in B PROVE FALSE
        <5>1. f \in Nat /\ s - 1 \in Nat /\ IsRun(S, f, s - 1)
          BY <1>2
        <5> QED
          BY <1>1, <2>2, <5>1, RunEnds
      <4> QED
        BY <4>1
    <3>2. a = Min({s})
      <4>1. a = Min({s} \cup B)
        OBVIOUS
      <4>2. {s} \cup B = {s}
        BY <3>1
      <4> QED
        BY <4>1, <4>2
    <3>3. a = s
      BY <3>2, LeastIs
    <3> QED
      BY <2>2, <3>3
  <2> QED
    BY <2>1, <2>2
<1>5. /\ b \in Nat /\ s <= b
      /\ IF b = s THEN s + 1 \notin S ELSE IsRun(S, s + 1, b)
  <2> DEFINE E == Ends(Timeline(H), p, k, s)
  <2>1. CASE s + 1 \in S
    <3>2. PICK c, d \in S : c <= s + 1 /\ s + 1 <= d /\ IsRun(S, c, d)
      BY <1>1, <2>1, RunAt
    <3>3. c = s + 1 /\ d \in Nat
      <4>1. c \in Nat /\ d \in Nat
        BY <1>1
      <4>2. \A e \in Nat : c <= e /\ e <= d => e \in S
        BY <1>1, <3>2, <4>1, RunEnds
      <4> QED
        BY <1>s, <3>2, <4>1, <4>2
    <3>4. \A f \in E : f = d
      <4>1. ASSUME NEW f \in E PROVE f = d
        <5>1. f \in Nat /\ IsRun(S, s + 1, f)
          BY <1>3
        <5>2. s + 1 <= f
          BY <5>1 DEF IsRun
        <5> QED
          BY <1>1, <3>2, <3>3, <5>1, <5>2, RunsApart
      <4> QED
        BY <4>1
    <3>5. d \in E
      BY <1>3, <3>2, <3>3
    <3> HIDE DEF E
    <3>6. {s} \cup E \in SUBSET Nat /\ d \in {s} \cup E /\ \A e \in {s} \cup E : e <= d
      BY <3>2, <3>3, <3>4, <3>5
    <3>7. Max({s} \cup E) = d
      BY <3>6, GreatestIs
    <3>8. b = d
      BY <3>7 DEF E
    <3> QED
      BY <3>2, <3>3, <3>8
  <2>2. CASE s + 1 \notin S
    <3>1. E = {}
      <4>1. ASSUME NEW f \in E PROVE FALSE
        <5>1. f \in Nat /\ IsRun(S, s + 1, f)
          BY <1>3
        <5> QED
          BY <1>1, <2>2, <5>1, RunEnds
      <4> QED
        BY <4>1
    <3>2. b = Max({s})
      <4>1. b = Max({s} \cup E)
        OBVIOUS
      <4>2. {s} \cup E = {s}
        BY <3>1
      <4> QED
        BY <4>1, <4>2
    <3>3. b = s
      BY <3>2, GreatestIs
    <3> QED
      BY <2>2, <3>3
  <2> QED
    BY <2>1, <2>2
<1> QED
  BY <1>4, <1>5 DEF S

(* H with one archive more, which lists `listing'. *)
With(H, s, listing) ==
  [p \in Path |-> [k \in Content |->
     IF p \in DOMAIN listing /\ listing[p] = k THEN H[p][k] \cup {s} ELSE H[p][k]]]

(* A listing gives paths contents. *)
LEMMA ListingIs ==
  ASSUME NEW listing \in Listing
  PROVE  /\ DOMAIN listing \subseteq Path
         /\ \A p \in DOMAIN listing : listing[p] \in Content
BY DEF Listing

(* The spreads once s is read. *)
LEMMA WithIs ==
  ASSUME NEW n \in Nat, NEW H \in Spreads(n), NEW s \in 1 .. n, NEW listing \in Listing
  PROVE  /\ With(H, s, listing) \in Spreads(n)
         /\ \A p \in Path, k \in Content :
              With(H, s, listing)[p][k] =
                IF p \in DOMAIN listing /\ listing[p] = k THEN H[p][k] \cup {s} ELSE H[p][k]
BY DEF With, Spreads

(* ingest_pending: whatever is catalogued on either side, folding an archive in
   gives the versions that reading it in its place would have given. *)
LEMMA FoldedIsTimeline ==
  ASSUME NEW n \in Nat, NEW H \in Spreads(n), NEW s \in 1 .. n, NEW listing \in Listing,
         \A p \in Path, k \in Content : s \notin H[p][k]
  PROVE  Folded(Timeline(H), s, listing) = Timeline(With(H, s, listing))
<1> DEFINE G == With(H, s, listing)
           A(p) == Min({s} \cup Begins(Timeline(H), p, listing[p], s))
           B(p) == Max({s} \cup Ends(Timeline(H), p, listing[p], s))
<1>0. s \in Nat /\ G \in Spreads(n)
  BY WithIs
<1>s. \A p \in Path, k \in Content : H[p][k] \in SUBSET (Nat \ {0}) /\ H[p][k] \in SUBSET Nat
  BY TimelineIs
<1>g. \A p \in Path, k \in Content :
        G[p][k] = IF p \in DOMAIN listing /\ listing[p] = k THEN H[p][k] \cup {s} ELSE H[p][k]
  BY DEF With
<1>v. \A p : Whole(Timeline(H), s, listing, p) = V(p, listing[p], A(p), B(p))
  BY DEF Whole
<1>f. \A v : v \in Folded(Timeline(H), s, listing) <=>
           \/ v \in Timeline(H) /\ ~ Met(v, s, listing)
           \/ \E p \in DOMAIN listing : v = Whole(Timeline(H), s, listing, p)
  BY FoldedIs
<1>w. ASSUME NEW p \in DOMAIN listing
      PROVE  /\ p \in Path /\ listing[p] \in Content
             /\ A(p) \in Nat /\ B(p) \in Nat /\ A(p) <= s /\ s <= B(p)
             /\ IF A(p) = s THEN s - 1 \notin H[p][listing[p]] ELSE IsRun(H[p][listing[p]], A(p), s - 1)
             /\ IF B(p) = s THEN s + 1 \notin H[p][listing[p]] ELSE IsRun(H[p][listing[p]], s + 1, B(p))
  <2>1. p \in Path /\ listing[p] \in Content
    BY ListingIs
  <2>2. s \notin H[p][listing[p]]
    BY <2>1
  <2> QED
    BY <1>0, <2>1, <2>2, WholeIs
<1> HIDE DEF A, B, G
<1>1. ASSUME NEW v, v \in Folded(Timeline(H), s, listing) PROVE v \in Timeline(G)
  <2>1. ASSUME v \in Timeline(H), ~ Met(v, s, listing)
        PROVE  v \in Timeline(G)
    <3>1. v \in Version /\ IsRun(H[v.path][v.content], v.first, v.last)
      BY <2>1, TimelineIs
    <3>2. v.path \in Path /\ v.content \in Content /\ v.first \in Nat /\ v.last \in Nat
      BY <3>1, VersionIs
    <3>3. IsRun(G[v.path][v.content], v.first, v.last)
      <4>1. CASE v.path \in DOMAIN listing /\ listing[v.path] = v.content
        <5>1. v.last # s - 1 /\ v.first # s + 1
          BY <2>1, <4>1 DEF Met
        <5>2. G[v.path][v.content] = H[v.path][v.content] \cup {s}
          BY <1>g, <3>2, <4>1
        <5>3. s \notin H[v.path][v.content] /\ H[v.path][v.content] \in SUBSET (Nat \ {0})
          BY <3>2, <1>s
        <5>4. IsRun(H[v.path][v.content] \cup {s}, v.first, v.last)
          BY <1>0, <3>1, <3>2, <5>1, <5>3, RunsWith
        <5> QED
          BY <5>2, <5>4
      <4>2. CASE ~(v.path \in DOMAIN listing /\ listing[v.path] = v.content)
        <5>1. G[v.path][v.content] = H[v.path][v.content]
          BY <1>g, <3>2, <4>2
        <5> QED
          BY <3>1, <5>1
      <4> QED
        BY <4>1, <4>2
    <3> QED
      BY <1>0, <3>1, <3>3, TimelineIs
  <2>2. ASSUME NEW p \in DOMAIN listing, v = V(p, listing[p], A(p), B(p))
        PROVE  v \in Timeline(G)
    <3>1. /\ p \in Path /\ listing[p] \in Content /\ A(p) \in Nat /\ B(p) \in Nat
          /\ G[p][listing[p]] = H[p][listing[p]] \cup {s}
      BY <1>w, <1>g
    <3>2. s \notin H[p][listing[p]] /\ H[p][listing[p]] \in SUBSET (Nat \ {0})
      BY <3>1, <1>s
    <3>3. IsRun(H[p][listing[p]] \cup {s}, A(p), B(p))
      BY <1>0, <1>w, <3>1, <3>2, RunsWith
    <3>4. IsRun(G[p][listing[p]], A(p), B(p))
      BY <3>1, <3>3
    <3> QED
      BY <1>0, <2>2, <3>1, <3>4, TimelineIs
  <2> QED
    BY <1>1, <1>f, <1>v, <2>1, <2>2
<1>2. ASSUME NEW v, v \in Timeline(G) PROVE v \in Folded(Timeline(H), s, listing)
  <2>1. v \in Version /\ IsRun(G[v.path][v.content], v.first, v.last)
    BY <1>0, <1>2, TimelineIs
  <2>2. /\ v.path \in Path /\ v.content \in Content /\ v.first \in Nat /\ v.last \in Nat
        /\ v = V(v.path, v.content, v.first, v.last)
    BY <2>1, VersionIs
  <2>3. CASE ~(v.path \in DOMAIN listing /\ listing[v.path] = v.content)
    <3>1. G[v.path][v.content] = H[v.path][v.content]
      BY <1>g, <2>2, <2>3
    <3>2. v \in Timeline(H)
      BY <2>1, <3>1, TimelineIs
    <3> QED
      BY <1>f, <2>3, <3>2 DEF Met
  <2>4. CASE v.path \in DOMAIN listing /\ listing[v.path] = v.content
    <3> DEFINE p == v.path
               S == H[p][listing[p]]
    <3>1. G[p][listing[p]] = S \cup {s} /\ s \notin S /\ S \in SUBSET (Nat \ {0}) /\ S \in SUBSET Nat
      BY <1>g, <1>s, <2>2, <2>4
    <3>2. \/ IsRun(S, v.first, v.last) /\ v.last # s - 1 /\ v.first # s + 1
          \/ /\ v.first <= s /\ s <= v.last
             /\ IF v.first = s THEN s - 1 \notin S ELSE IsRun(S, v.first, s - 1)
             /\ IF v.last = s THEN s + 1 \notin S ELSE IsRun(S, s + 1, v.last)
      <4>1. IsRun(S \cup {s}, v.first, v.last)
        BY <2>1, <2>4, <3>1
      <4> HIDE DEF S
      <4> QED
        BY <1>0, <2>2, <3>1, <4>1, RunsWith
    <3>3. CASE IsRun(S, v.first, v.last) /\ v.last # s - 1 /\ v.first # s + 1
      <4>1. v \in Timeline(H)
        BY <2>1, <2>4, <3>3, TimelineIs
      <4> QED
        BY <1>f, <3>3, <4>1 DEF Met
    <3>4. CASE /\ v.first <= s /\ s <= v.last
               /\ IF v.first = s THEN s - 1 \notin S ELSE IsRun(S, v.first, s - 1)
               /\ IF v.last = s THEN s + 1 \notin S ELSE IsRun(S, s + 1, v.last)
      <4>w. /\ A(p) \in Nat /\ B(p) \in Nat /\ A(p) <= s /\ s <= B(p)
            /\ IF A(p) = s THEN s - 1 \notin S ELSE IsRun(S, A(p), s - 1)
            /\ IF B(p) = s THEN s + 1 \notin S ELSE IsRun(S, s + 1, B(p))
        BY <1>w, <2>4
      <4> HIDE DEF S, p
      <4>1. v.first = A(p)
        <5>1. s - 1 \in Nat
          BY <3>1, <1>0
        <5>2. v.first # s => s - 1 \in S
          BY <2>2, <3>1, <3>4, <5>1, RunEnds
        <5>3. A(p) # s => s - 1 \in S
          BY <3>1, <4>w, <5>1, RunEnds
        <5>4. CASE v.first # s /\ A(p) # s
          <6>1. IsRun(S, v.first, s - 1) /\ IsRun(S, A(p), s - 1)
            BY <3>4, <4>w, <5>4
          <6>2. v.first <= s - 1 /\ A(p) <= s - 1
            BY <6>1 DEF IsRun
          <6> QED
            BY <2>2, <3>1, <4>w, <5>1, <6>1, <6>2, RunsApart
        <5> QED
          BY <3>4, <4>w, <5>2, <5>3, <5>4
      <4>2. v.last = B(p)
        <5>1. s + 1 \in Nat
          BY <1>0
        <5>2. v.last # s => s + 1 \in S
          BY <2>2, <3>1, <3>4, <5>1, RunEnds
        <5>3. B(p) # s => s + 1 \in S
          BY <3>1, <4>w, <5>1, RunEnds
        <5>4. CASE v.last # s /\ B(p) # s
          <6>1. IsRun(S, s + 1, v.last) /\ IsRun(S, s + 1, B(p))
            BY <3>4, <4>w, <5>4
          <6>2. s + 1 <= v.last /\ s + 1 <= B(p)
            BY <6>1 DEF IsRun
          <6> QED
            BY <2>2, <3>1, <4>w, <5>1, <6>1, <6>2, RunsApart
        <5> QED
          BY <3>4, <4>w, <5>2, <5>3, <5>4
      <4>3. v = V(p, listing[p], A(p), B(p)) /\ p \in DOMAIN listing
        BY <2>2, <2>4, <4>1, <4>2 DEF p
      <4> QED
        BY <1>f, <1>v, <4>3
    <3> QED
      BY <3>2, <3>3, <3>4
  <2> QED
    BY <2>3, <2>4
<1> QED
  BY <1>1, <1>2 DEF G

-----------------------------------------------------------------------------
(* What an archive of a part of the files says of the rest: nothing changed. *)

Pair(l, r, s, paths) == l.path \in paths /\ SameFile(l, r) /\ l.last = s - 1 /\ r.first = s + 1

(* What Rejoined has: what met nothing, and one version for two that met. *)
LEMMA RejoinedIs ==
  ASSUME NEW vs, NEW s, NEW paths, NEW v
  PROVE  v \in Rejoined(vs, s, paths) <=>
           \/ v \in vs /\ ~ \E l, r \in vs : Pair(l, r, s, paths) /\ (v = l \/ v = r)
           \/ \E l, r \in vs : Pair(l, r, s, paths) /\ v = [l EXCEPT !.last = r.last]
<1> DEFINE pairs == {q \in vs \X vs : Pair(q[1], q[2], s, paths)}
<1>1. Rejoined(vs, s, paths) =
        (vs \ UNION {{q[1], q[2]} : q \in pairs}) \cup {[q[1] EXCEPT !.last = q[2].last] : q \in pairs}
  BY DEF Rejoined, Pair
<1>2. \A q \in pairs : q[1] \in vs /\ q[2] \in vs /\ Pair(q[1], q[2], s, paths)
  OBVIOUS
<1>3. \A l, r \in vs : Pair(l, r, s, paths) => <<l, r>> \in pairs
  OBVIOUS
<1> HIDE DEF pairs
<1>4. v \in UNION {{q[1], q[2]} : q \in pairs} <=>
        \E l, r \in vs : Pair(l, r, s, paths) /\ (v = l \/ v = r)
  <2>1. ASSUME v \in UNION {{q[1], q[2]} : q \in pairs}
        PROVE  \E l, r \in vs : Pair(l, r, s, paths) /\ (v = l \/ v = r)
    <3>1. PICK q \in pairs : v = q[1] \/ v = q[2]
      BY <2>1
    <3> QED
      BY <1>2, <3>1
  <2>2. ASSUME NEW l \in vs, NEW r \in vs, Pair(l, r, s, paths), v = l \/ v = r
        PROVE  v \in UNION {{q[1], q[2]} : q \in pairs}
    <3>1. <<l, r>> \in pairs /\ v \in {<<l, r>>[1], <<l, r>>[2]}
      BY <1>3, <2>2
    <3> QED
      BY <3>1
  <2> QED
    BY <2>1, <2>2
<1>5. v \in {[q[1] EXCEPT !.last = q[2].last] : q \in pairs} <=>
        \E l, r \in vs : Pair(l, r, s, paths) /\ v = [l EXCEPT !.last = r.last]
  <2>1. ASSUME NEW q \in pairs, v = [q[1] EXCEPT !.last = q[2].last]
        PROVE  \E l, r \in vs : Pair(l, r, s, paths) /\ v = [l EXCEPT !.last = r.last]
    BY <1>2, <2>1
  <2>2. ASSUME NEW l \in vs, NEW r \in vs, Pair(l, r, s, paths), v = [l EXCEPT !.last = r.last]
        PROVE  \E q \in pairs : v = [q[1] EXCEPT !.last = q[2].last]
    <3>1. <<l, r>> \in pairs /\ <<l, r>>[1] = l /\ <<l, r>>[2] = r
      BY <1>3, <2>2
    <3> QED
      BY <2>2, <3>1
  <2> QED
    BY <2>1, <2>2
<1> QED
  BY <1>1, <1>4, <1>5

(* What Carried has: what did not end before s, and the rest one longer. *)
LEMMA CarriedIs ==
  ASSUME NEW vs, NEW s, NEW paths, NEW v
  PROVE  v \in Carried(vs, s, paths) <=>
           \/ v \in vs /\ ~ (v.path \in paths /\ v.last = s - 1)
           \/ \E w \in vs : w.path \in paths /\ w.last = s - 1 /\ v = [w EXCEPT !.last = s]
BY DEF Carried

(* H with an archive that shows, of these paths, what the one before it does. *)
Alike(H, s, paths) ==
  [p \in Path |-> [k \in Content |->
     IF p \in paths /\ s - 1 \in H[p][k] THEN H[p][k] \cup {s} ELSE H[p][k]]]

(* The spreads once s shows what the archive before it does. *)
LEMMA AlikeIs ==
  ASSUME NEW n \in Nat, NEW H \in Spreads(n), NEW s \in 1 .. n, NEW paths
  PROVE  /\ Alike(H, s, paths) \in Spreads(n)
         /\ \A p \in Path, k \in Content :
              Alike(H, s, paths)[p][k] =
                IF p \in paths /\ s - 1 \in H[p][k] THEN H[p][k] \cup {s} ELSE H[p][k]
BY DEF Alike, Spreads

(* Of one file: what was carried over s, and what was joined there. *)
LEMMA RunsAlike ==
  ASSUME NEW n \in Nat, NEW S \in SUBSET (1 .. n), NEW s \in Nat, s \notin S, s - 1 \in S,
         NEW a \in Nat, NEW b \in Nat
  PROVE  IsRun(S \cup {s}, a, b) <=>
           \/ IsRun(S, a, b) /\ b # s - 1 /\ a # s + 1
           \/ IsRun(S, a, s - 1) /\ IsRun(S, s + 1, b)
           \/ IsRun(S, a, s - 1) /\ b = s /\ s + 1 \notin S
<1>1. S \in SUBSET (Nat \ {0}) /\ S \in SUBSET Nat
  OBVIOUS
<1>2. IsRun(S, a, s - 1) => a <= s - 1
  BY DEF IsRun
<1>3. IsRun(S, s + 1, b) => s + 1 <= b
  BY DEF IsRun
<1> QED
  BY <1>1, <1>2, <1>3, RunsWith

(* Rejoined and Carried (ingest_scoped): the rest of the files are as before. *)
LEMMA CarriedIsTimeline ==
  ASSUME NEW n \in Nat, NEW H \in Spreads(n), NEW s \in 1 .. n, NEW paths \in SUBSET Path,
         \A p \in paths, k \in Content : s \notin H[p][k]
  PROVE  Carried(Rejoined(Timeline(H), s, paths), s, paths) = Timeline(Alike(H, s, paths))
<1> DEFINE T == Timeline(H)
           J == Rejoined(T, s, paths)
           G == Alike(H, s, paths)
<1>0. s \in Nat /\ G \in Spreads(n) /\ s - 1 \in Nat /\ s + 1 \in Nat
  BY AlikeIs
<1>s. \A p \in Path, k \in Content : H[p][k] \in SUBSET (1 .. n) /\ H[p][k] \in SUBSET Nat
  BY TimelineIs
<1>g. \A p \in Path, k \in Content :
        G[p][k] = IF p \in paths /\ s - 1 \in H[p][k] THEN H[p][k] \cup {s} ELSE H[p][k]
  BY DEF Alike
<1>t. \A v \in T : /\ v \in Version /\ v.path \in Path /\ v.content \in Content
                   /\ v.first \in Nat /\ v.last \in Nat /\ v = V(v.path, v.content, v.first, v.last)
                   /\ IsRun(H[v.path][v.content], v.first, v.last)
  BY TimelineIs, VersionIs
<1>e. \A v \in T : /\ v.first \in H[v.path][v.content] /\ v.last \in H[v.path][v.content]
                   /\ v.first <= v.last
                   /\ v.first - 1 \notin H[v.path][v.content] /\ v.last + 1 \notin H[v.path][v.content]
  BY <1>t, <1>s, RunEnds
<1>v. \A p \in Path, k \in Content, a, b \in Nat : V(p, k, a, b) \in T <=> IsRun(H[p][k], a, b)
  BY TimelineIs
<1>w. \A p \in Path, k \in Content, a, b \in Nat : V(p, k, a, b) \in Timeline(G) <=> IsRun(G[p][k], a, b)
  BY <1>0, TimelineIs
<1>r. ASSUME NEW p \in paths, NEW k \in Content, s - 1 \in H[p][k], NEW a \in Nat, NEW b \in Nat
      PROVE  /\ p \in Path
             /\ V(p, k, a, b) \in Timeline(G) <=>
                 \/ IsRun(H[p][k], a, b) /\ b # s - 1 /\ a # s + 1
                 \/ IsRun(H[p][k], a, s - 1) /\ IsRun(H[p][k], s + 1, b)
                 \/ IsRun(H[p][k], a, s - 1) /\ b = s /\ s + 1 \notin H[p][k]
  <2>1. p \in Path /\ s \notin H[p][k] /\ H[p][k] \in SUBSET (1 .. n)
    BY <1>s
  <2>2. G[p][k] = H[p][k] \cup {s}
    BY <1>g, <1>r, <2>1
  <2>3. V(p, k, a, b) \in Timeline(G) <=> IsRun(H[p][k] \cup {s}, a, b)
    BY <1>w, <2>1, <2>2
  <2> QED
    BY <1>0, <1>r, <2>1, <2>3, RunsAlike
<1>u. ASSUME NEW p \in Path, NEW k \in Content, p \notin paths \/ s - 1 \notin H[p][k],
             NEW a \in Nat, NEW b \in Nat
      PROVE  V(p, k, a, b) \in Timeline(G) <=> V(p, k, a, b) \in T
  <2>1. G[p][k] = H[p][k]
    BY <1>g, <1>u
  <2> QED
    BY <1>v, <1>w, <2>1
<1>j. \A v : v \in J <=> \/ v \in T /\ ~ \E l, r \in T : Pair(l, r, s, paths) /\ (v = l \/ v = r)
                         \/ \E l, r \in T : Pair(l, r, s, paths) /\ v = [l EXCEPT !.last = r.last]
  BY RejoinedIs
<1>c. \A v : v \in Carried(J, s, paths) <=>
           \/ v \in J /\ ~ (v.path \in paths /\ v.last = s - 1)
           \/ \E w \in J : w.path \in paths /\ w.last = s - 1 /\ v = [w EXCEPT !.last = s]
  BY CarriedIs
<1>p. ASSUME NEW l \in T, NEW r \in T, Pair(l, r, s, paths)
      PROVE  LET v == [l EXCEPT !.last = r.last]
             IN  /\ l.path \in paths /\ l.path = r.path /\ l.content = r.content
                 /\ l.last = s - 1 /\ r.first = s + 1
                 /\ v = V(l.path, l.content, l.first, r.last) /\ v.last = r.last /\ s + 1 <= r.last
                 /\ s - 1 \in H[l.path][l.content]
  <2>1. /\ l.path \in paths /\ l.path = r.path /\ l.content = r.content
        /\ l.last = s - 1 /\ r.first = s + 1
    BY <1>p DEF Pair, SameFile
  <2>2. [l EXCEPT !.last = r.last] = V(l.path, l.content, l.first, r.last)
    BY ZenonT(60), <1>t, VersionEnds
  <2>3. s + 1 <= r.last /\ s - 1 \in H[l.path][l.content]
    BY <1>e, <2>1
  <2> QED
    BY <2>1, <2>2, <2>3, VersionFields
<1> HIDE DEF T, J, G
<1>1. ASSUME NEW v, v \in Carried(J, s, paths) PROVE v \in Timeline(G)
  <2>1. ASSUME v \in T, ~ \E l, r \in T : Pair(l, r, s, paths) /\ (v = l \/ v = r),
               ~ (v.path \in paths /\ v.last = s - 1)
        PROVE  v \in Timeline(G)
    <3>1. CASE v.path \notin paths \/ s - 1 \notin H[v.path][v.content]
      BY <1>t, <1>u, <2>1, <3>1
    <3>2. CASE v.path \in paths /\ s - 1 \in H[v.path][v.content]
      <4> DEFINE S == H[v.path][v.content]
      <4>1. PICK c, d \in S : c <= s - 1 /\ s - 1 <= d /\ IsRun(S, c, d)
        BY <1>0, <1>s, <1>t, <2>1, <3>2, RunAt
      <4>2. d = s - 1 /\ c \in Nat
        <5>1. c \in Nat /\ d \in Nat /\ s \notin S /\ S \in SUBSET Nat
          BY <1>s, <1>t, <2>1, <3>2
        <5>2. \A e \in Nat : c <= e /\ e <= d => e \in S
          BY <4>1, <5>1, RunEnds
        <5> HIDE DEF S
        <5> QED
          BY <1>0, <4>1, <5>1, <5>2
      <4> DEFINE l == V(v.path, v.content, c, s - 1)
      <4>3. l \in T
        BY <1>0, <1>t, <1>v, <2>1, <4>1, <4>2
      <4>4. v.first # s + 1
        <5>1. ASSUME v.first = s + 1 PROVE FALSE
          <6>1. Pair(l, v, s, paths)
            BY <3>2, <5>1, VersionFields DEF Pair, SameFile
          <6> QED
            BY <2>1, <4>3, <6>1
        <5> QED
          BY <5>1
      <4> QED
        BY <1>t, <1>r, <2>1, <3>2, <4>4
    <3> QED
      BY <3>1, <3>2
  <2>2. ASSUME NEW l \in T, NEW r \in T, Pair(l, r, s, paths), v = [l EXCEPT !.last = r.last]
        PROVE  v \in Timeline(G)
    <3>1. /\ l.path \in paths /\ l.path = r.path /\ l.content = r.content
          /\ l.last = s - 1 /\ r.first = s + 1 /\ v = V(l.path, l.content, l.first, r.last)
          /\ s - 1 \in H[l.path][l.content]
      BY <1>p, <2>2
    <3>2. IsRun(H[l.path][l.content], l.first, s - 1) /\ IsRun(H[l.path][l.content], s + 1, r.last)
      BY <1>t, <3>1
    <3>3. l.content \in Content /\ l.first \in Nat /\ r.last \in Nat
      BY <1>t
    <3> QED
      BY <1>r, <3>1, <3>2, <3>3
  <2>3. ASSUME NEW w \in J, w.path \in paths, w.last = s - 1, v = [w EXCEPT !.last = s]
        PROVE  v \in Timeline(G)
    <3>1. w \in T /\ ~ \E l, r \in T : Pair(l, r, s, paths) /\ (w = l \/ w = r)
      <4>1. ASSUME NEW l \in T, NEW r \in T, Pair(l, r, s, paths), w = [l EXCEPT !.last = r.last]
            PROVE  FALSE
        <5>1. w.last = r.last /\ s + 1 <= r.last
          BY <1>p, <4>1
        <5> QED
          BY <1>0, <2>3, <5>1
      <4> QED
        BY <1>j, <2>3, <4>1
    <3>2. v = V(w.path, w.content, w.first, s) /\ IsRun(H[w.path][w.content], w.first, s - 1)
      BY <1>t, <2>3, <3>1, VersionEnds
    <3>3. s - 1 \in H[w.path][w.content]
      BY <1>e, <2>3, <3>1
    <3>4. s + 1 \notin H[w.path][w.content]
      <4> DEFINE S == H[w.path][w.content]
      <4>1. ASSUME s + 1 \in S PROVE FALSE
        <5>s. S \in SUBSET (1 .. n) /\ S \in SUBSET Nat /\ s \notin S
          BY <1>s, <1>t, <2>3, <3>1
        <5>1. PICK c, d \in S : c <= s + 1 /\ s + 1 <= d /\ IsRun(S, c, d)
          BY <4>1, <5>s, RunAt
        <5>2. c = s + 1 /\ d \in Nat
          <6>1. c \in Nat /\ d \in Nat
            BY <5>s
          <6>2. \A e \in Nat : c <= e /\ e <= d => e \in S
            BY <5>1, <5>s, <6>1, RunEnds
          <6> HIDE DEF S
          <6> QED
            BY <1>0, <5>1, <5>s, <6>1, <6>2
        <5> DEFINE r == V(w.path, w.content, s + 1, d)
        <5>3. r \in T
          BY <1>0, <1>t, <1>v, <3>1, <5>1, <5>2
        <5>4. Pair(w, r, s, paths)
          BY <2>3, VersionFields DEF Pair, SameFile
        <5> QED
          BY <3>1, <5>3, <5>4
      <4> QED
        BY <4>1
    <3> QED
      BY <1>0, <1>r, <1>t, <2>3, <3>1, <3>2, <3>3, <3>4
  <2> QED
    BY <1>1, <1>c, <1>j, <2>1, <2>2, <2>3
<1>2. ASSUME NEW v, v \in Timeline(G) PROVE v \in Carried(J, s, paths)
  <2>1. /\ v \in Version /\ v.path \in Path /\ v.content \in Content
        /\ v.first \in Nat /\ v.last \in Nat /\ v = V(v.path, v.content, v.first, v.last)
    BY <1>0, <1>2, TimelineIs, VersionIs
  <2>2. CASE v.path \notin paths \/ s - 1 \notin H[v.path][v.content]
    <3>1. v \in T
      BY <1>2, <1>u, <2>1, <2>2
    <3>2. ~ (v.path \in paths /\ v.last = s - 1)
      BY <1>e, <2>2, <3>1
    <3>3. ASSUME NEW l \in T, NEW r \in T, Pair(l, r, s, paths), v = l \/ v = r
          PROVE  FALSE
      BY ZenonT(60), <1>p, <2>2, <3>3
    <3> QED
      BY <1>c, <1>j, <3>1, <3>2, <3>3
  <2>3. CASE v.path \in paths /\ s - 1 \in H[v.path][v.content]
    <3> DEFINE S == H[v.path][v.content]
    <3>1. \/ IsRun(S, v.first, v.last) /\ v.last # s - 1 /\ v.first # s + 1
          \/ IsRun(S, v.first, s - 1) /\ IsRun(S, s + 1, v.last)
          \/ IsRun(S, v.first, s - 1) /\ v.last = s /\ s + 1 \notin S
      BY <1>2, <1>r, <2>1, <2>3
    <3>2. CASE IsRun(S, v.first, v.last) /\ v.last # s - 1 /\ v.first # s + 1
      <4>1. v \in T
        BY <1>v, <2>1, <3>2
      <4>2. ASSUME NEW l \in T, NEW r \in T, Pair(l, r, s, paths), v = l \/ v = r
            PROVE  FALSE
        BY <1>p, <3>2, <4>2
      <4> QED
        BY <1>c, <1>j, <3>2, <4>1, <4>2
    <3>3. CASE IsRun(S, v.first, s - 1) /\ IsRun(S, s + 1, v.last)
      <4> DEFINE l == V(v.path, v.content, v.first, s - 1)
                 r == V(v.path, v.content, s + 1, v.last)
      <4>1. l \in T /\ r \in T
        BY <1>0, <1>v, <2>1, <3>3
      <4>2. Pair(l, r, s, paths)
        BY <2>3, VersionFields DEF Pair, SameFile
      <4>3. /\ l.path = v.path /\ l.content = v.content /\ l.first = v.first /\ r.last = v.last
        BY VersionFields
      <4> HIDE DEF l, r
      <4>4. v = [l EXCEPT !.last = r.last] /\ v.last # s - 1
        <5>1. [l EXCEPT !.last = r.last] = V(l.path, l.content, l.first, r.last) /\ s + 1 <= r.last
          BY <1>p, <4>1, <4>2
        <5> QED
          BY <1>0, <2>1, <4>3, <5>1
      <4> QED
        BY <1>c, <1>j, <4>1, <4>2, <4>4
    <3>4. CASE IsRun(S, v.first, s - 1) /\ v.last = s /\ s + 1 \notin S
      <4> DEFINE w == V(v.path, v.content, v.first, s - 1)
      <4>1. w \in T
        BY <1>0, <1>v, <2>1, <3>4
      <4>2. w.path = v.path /\ w.content = v.content /\ w.first = v.first /\ w.last = s - 1
        BY VersionFields
      <4> HIDE DEF w
      <4>3. ASSUME NEW l \in T, NEW r \in T, Pair(l, r, s, paths), w = l \/ w = r
            PROVE  FALSE
        <5>1. /\ l.path = r.path /\ l.content = r.content /\ l.last = s - 1 /\ r.first = s + 1
          BY <1>p, <4>3
        <5>2. r.first \in H[r.path][r.content]
          BY <1>e
        <5>3. w = r => s + 1 <= s - 1
          BY <1>e, <4>2, <5>1
        <5>4. w = l
          BY <1>0, <4>3, <5>3
        <5> QED
          BY <3>4, <4>2, <5>1, <5>2, <5>4
      <4>4. w \in J
        BY <1>j, <4>1, <4>3
      <4>5. v = [w EXCEPT !.last = s]
        <5>1. w \in Version
          BY <1>t, <4>1
        <5>2. [w EXCEPT !.last = s] = V(w.path, w.content, w.first, s)
          BY <5>1, VersionEnds
        <5> QED
          BY <2>1, <3>4, <4>2, <5>2
      <4> QED
        BY <1>c, <2>3, <4>2, <4>4, <4>5
    <3> QED
      BY <3>1, <3>2, <3>3, <3>4
  <2> QED
    BY <2>2, <2>3
<1> QED
  BY <1>1, <1>2 DEF T, J, G

-----------------------------------------------------------------------------
(* The catalogued archives, file by file, and the reference definition. *)

Holds(rows, what, s, p, k) ==
  ~rows[s].pending /\ p \in DOMAIN what[rows[s].name] /\ what[rows[s].name][p] = k
Held(rows, what) ==
  [p \in Path |-> [k \in Content |-> {s \in DOMAIN rows : Holds(rows, what, s, p, k)}]]

(* Rows are numbered from one. *)
LEMMA RowsAre ==
  ASSUME NEW rows \in Seq(Row)
  PROVE  /\ Len(rows) \in Nat /\ DOMAIN rows = 1 .. Len(rows)
         /\ \A s \in DOMAIN rows : rows[s] \in Row
OBVIOUS

(* The spreads of some rows: where each path is held with each content. *)
LEMMA HeldIs ==
  ASSUME NEW rows \in Seq(Row), NEW what
  PROVE  /\ Held(rows, what) \in Spreads(Len(rows))
         /\ \A p \in Path, k \in Content : \A s :
              s \in Held(rows, what)[p][k] <=> s \in DOMAIN rows /\ Holds(rows, what, s, p, k)
<1>1. \A p \in Path, k \in Content :
        Held(rows, what)[p][k] = {s \in DOMAIN rows : Holds(rows, what, s, p, k)}
  BY DEF Held
<1>2. DOMAIN rows = 1 .. Len(rows)
  OBVIOUS
<1>3. \A p \in Path, k \in Content :
        {s \in DOMAIN rows : Holds(rows, what, s, p, k)} \in SUBSET (1 .. Len(rows))
  BY <1>2
<1> QED
  BY <1>1, <1>3 DEF Held, Spreads

(* Reference: reading in order gives the versions of what is held. *)
LEMMA ReferenceIs ==
  ASSUME NEW rows \in Seq(Row), NEW what
  PROVE  Reference(rows, what) = Timeline(Held(rows, what))
<1> DEFINE n == Len(rows)
           H == Held(rows, what)
           Has(s, p, k) == s \in DOMAIN rows /\ Holds(rows, what, s, p, k)
           Some == [path: Path, first: DOMAIN rows, last: DOMAIN rows, content: Content]
           Is(v) == /\ v.first <= v.last
                    /\ \A s \in v.first .. v.last : Has(s, v.path, v.content)
                    /\ ~Has(v.first - 1, v.path, v.content)
                    /\ ~Has(v.last + 1, v.path, v.content)
<1>0. n \in Nat /\ DOMAIN rows = 1 .. n /\ H \in Spreads(n)
  BY HeldIs
<1>1. Reference(rows, what) = {v \in Some : Is(v)}
  BY DEF Reference, Holds
<1>2. \A p \in Path, k \in Content : \A s : s \in H[p][k] <=> Has(s, p, k)
  BY HeldIs
<1>3. ASSUME NEW v \in Version PROVE Is(v) <=> IsRun(H[v.path][v.content], v.first, v.last)
  <2>1. v.path \in Path /\ v.content \in Content
    BY VersionIs
  <2> HIDE DEF H, Has
  <2> QED
    BY <1>2, <2>1 DEF IsRun
<1>4. ASSUME NEW v \in Some PROVE v \in Version
  BY <1>0 DEF Version
<1>5. ASSUME NEW v \in Version, IsRun(H[v.path][v.content], v.first, v.last) PROVE v \in Some
  <2>1. /\ v.path \in Path /\ v.content \in Content /\ v.first \in Nat /\ v.last \in Nat
        /\ v = V(v.path, v.content, v.first, v.last)
    BY VersionIs
  <2>2. H[v.path][v.content] \in SUBSET (1 .. n)
    BY <1>0, <2>1, TimelineIs
  <2>3. v.first \in 1 .. n /\ v.last \in 1 .. n
    BY <1>5, <2>1, <2>2 DEF IsRun
  <2> QED
    BY <1>0, <2>1, <2>3 DEF V
<1>6. \A v \in Version : v \in Timeline(H) <=> IsRun(H[v.path][v.content], v.first, v.last)
  BY <1>0, TimelineIs
<1>7. Timeline(H) \subseteq Version
  BY <1>0, TimelineIs
<1> HIDE DEF H, Is, Some
<1>8. \A v : v \in {u \in Some : Is(u)} <=> v \in Timeline(H)
  BY <1>3, <1>4, <1>5, <1>6, <1>7
<1> QED
  BY <1>1, <1>8 DEF H

-----------------------------------------------------------------------------
(* An archive that is read. *)

Read(rows, s) ==
  [i \in DOMAIN rows |-> IF i = s THEN [rows[i] EXCEPT !.pending = FALSE] ELSE rows[i]]

(* The rows with the one at s read: nothing else of them changes. *)
LEMMA ReadIs ==
  ASSUME NEW rows \in Seq(Row), NEW s \in DOMAIN rows
  PROVE  /\ Read(rows, s) \in Seq(Row) /\ DOMAIN Read(rows, s) = DOMAIN rows
         /\ Len(Read(rows, s)) = Len(rows)
         /\ \A i \in DOMAIN rows :
              /\ Read(rows, s)[i].name = rows[i].name /\ Read(rows, s)[i].ts = rows[i].ts
              /\ Read(rows, s)[i].repo = rows[i].repo
              /\ Read(rows, s)[i].expirable = rows[i].expirable
              /\ Read(rows, s)[i].pending = (rows[i].pending /\ i # s)
              /\ i # s => Read(rows, s)[i] = rows[i]
<1>1. DOMAIN rows = 1 .. Len(rows) /\ Len(rows) \in Nat /\ \A i \in DOMAIN rows : rows[i] \in Row
  OBVIOUS
<1>2. ASSUME NEW i \in DOMAIN rows
      PROVE  [rows[i] EXCEPT !.pending = FALSE] \in Row
  BY <1>1 DEF Row
<1>3. DOMAIN Read(rows, s) = DOMAIN rows
  BY DEF Read
<1>4. \A i \in DOMAIN rows : Read(rows, s)[i] \in Row
  BY <1>1, <1>2 DEF Read
<1>5. Read(rows, s) \in [1 .. Len(rows) -> Row]
  BY <1>1, <1>3, <1>4 DEF Read
<1>6. Read(rows, s) \in Seq(Row) /\ Len(Read(rows, s)) = Len(rows)
  BY <1>1, <1>5
<1>7. ASSUME NEW i \in DOMAIN rows
      PROVE  /\ Read(rows, s)[i].name = rows[i].name /\ Read(rows, s)[i].ts = rows[i].ts
             /\ Read(rows, s)[i].repo = rows[i].repo
             /\ Read(rows, s)[i].expirable = rows[i].expirable
             /\ Read(rows, s)[i].pending = (rows[i].pending /\ i # s)
             /\ i # s => Read(rows, s)[i] = rows[i]
  BY <1>1 DEF Read, Row
<1> QED
  BY <1>3, <1>6, <1>7

(* The parts of a catalogue with s read. *)
LEMMA BrowsableIs ==
  ASSUME NEW c, NEW s, NEW versions
  PROVE  /\ Browsable(c, s, versions).rows = Read(c.rows, s)
         /\ Browsable(c, s, versions).versions = versions
BY DEF Browsable, Read

(* What is held when one more archive is read, that shows this listing. *)
LEMMA HeldOnceRead ==
  ASSUME NEW rows \in Seq(Row), NEW s \in DOMAIN rows, rows[s].pending,
         NEW what, NEW then, NEW listing \in Listing, then[rows[s].name] = listing,
         \A i \in DOMAIN rows : i # s => then[rows[i].name] = what[rows[i].name]
  PROVE  /\ Held(Read(rows, s), then) = With(Held(rows, what), s, listing)
         /\ \A p \in Path, k \in Content : s \notin Held(rows, what)[p][k]
<1>r. /\ Read(rows, s) \in Seq(Row) /\ DOMAIN Read(rows, s) = DOMAIN rows
      /\ \A i \in DOMAIN rows :
           /\ Read(rows, s)[i].name = rows[i].name
           /\ Read(rows, s)[i].pending = (rows[i].pending /\ i # s)
           /\ i # s => Read(rows, s)[i] = rows[i]
  BY ReadIs
<1>1. ASSUME NEW p \in Path, NEW k \in Content
      PROVE  Held(Read(rows, s), then)[p][k] = With(Held(rows, what), s, listing)[p][k]
  <2>1. \A i : i \in Held(Read(rows, s), then)[p][k]
                 <=> i \in DOMAIN rows /\ Holds(Read(rows, s), then, i, p, k)
    BY <1>r, HeldIs
  <2>2. \A i : i \in Held(rows, what)[p][k] <=> i \in DOMAIN rows /\ Holds(rows, what, i, p, k)
    BY HeldIs
  <2>3. \A i \in DOMAIN rows : i # s => (Holds(Read(rows, s), then, i, p, k) <=> Holds(rows, what, i, p, k))
    BY <1>r DEF Holds
  <2>4. Holds(Read(rows, s), then, s, p, k) <=> p \in DOMAIN listing /\ listing[p] = k
    BY <1>r DEF Holds
  <2>5. ~Holds(rows, what, s, p, k)
    BY DEF Holds
  <2>6. With(Held(rows, what), s, listing)[p][k] =
          IF p \in DOMAIN listing /\ listing[p] = k THEN Held(rows, what)[p][k] \cup {s}
          ELSE Held(rows, what)[p][k]
    BY DEF With
  <2> QED
    BY <2>1, <2>2, <2>3, <2>4, <2>5, <2>6
<1>2. /\ Held(Read(rows, s), then) = [p \in Path |-> [k \in Content |-> Held(Read(rows, s), then)[p][k]]]
      /\ With(Held(rows, what), s, listing) = [p \in Path |-> [k \in Content |-> With(Held(rows, what), s, listing)[p][k]]]
  BY DEF Held, With
<1>3. \A p \in Path, k \in Content : s \notin Held(rows, what)[p][k]
  BY HeldIs DEF Holds
<1> QED
  BY <1>1, <1>2, <1>3

(* The catalogue that a backfill reads one archive into (ingest_pending). *)
LEMMA IngestedIsReference ==
  ASSUME NEW c, c.rows \in Seq(Row), NEW s \in DOMAIN c.rows, c.rows[s].pending, NEW what,
         what[c.rows[s].name] \in Listing, c.versions = Reference(c.rows, what)
  PROVE  LET d == Ingested(c, s, what[c.rows[s].name])
         IN  d.rows = Read(c.rows, s) /\ d.versions = Reference(d.rows, what)
<1> DEFINE rows == c.rows
           listing == what[c.rows[s].name]
           H == Held(rows, what)
           n == Len(rows)
<1>1. H \in Spreads(n) /\ n \in Nat /\ s \in 1 .. n /\ c.versions = Timeline(H)
  BY HeldIs, ReferenceIs
<1>2. /\ Held(Read(rows, s), what) = With(H, s, listing)
      /\ \A p \in Path, k \in Content : s \notin H[p][k]
  BY HeldOnceRead
<1>3. Folded(c.versions, s, listing) = Timeline(With(H, s, listing))
  <2> HIDE DEF H, n, listing
  <2> QED
    BY <1>1, <1>2, FoldedIsTimeline DEF listing
<1>4. Reference(Read(rows, s), what) = Timeline(Held(Read(rows, s), what))
  BY ReadIs, ReferenceIs
<1> QED
  BY <1>2, <1>3, <1>4, BrowsableIs DEF Ingested

-----------------------------------------------------------------------------
(* An archive of a part of the files (ingest_scoped): the rest is as it was. *)

(* What a catalogue that is a timeline shows at s is what is held at s. *)
LEMMA ShownIs ==
  ASSUME NEW c, NEW n \in Nat, NEW H \in Spreads(n), c.versions = Timeline(H), NEW s \in Nat,
         \A p \in Path, k, l \in Content : s \in H[p][k] /\ s \in H[p][l] => k = l
  PROVE  /\ Shown(c, s) \in Listing
         /\ \A p \in Path, k \in Content :
              s \in H[p][k] <=> p \in DOMAIN Shown(c, s) /\ Shown(c, s)[p] = k
<1> DEFINE T == Timeline(H)
           alive == {v \in T : v.first <= s /\ s <= v.last}
           C(p) == (CHOOSE v \in alive : v.path = p).content
           D == {v.path : v \in alive}
<1>1. Shown(c, s) = [p \in D |-> C(p)]
  BY DEF Shown
<1>2. ASSUME NEW v \in alive
      PROVE  v.path \in Path /\ v.content \in Content /\ s \in H[v.path][v.content]
  <2>1. /\ v \in Version /\ v.path \in Path /\ v.content \in Content
        /\ v.first \in Nat /\ v.last \in Nat /\ IsRun(H[v.path][v.content], v.first, v.last)
    BY TimelineIs, VersionIs
  <2>2. H[v.path][v.content] \in SUBSET (1 .. n)
    BY <2>1, TimelineIs
  <2>3. v.first <= s /\ s <= v.last
    OBVIOUS
  <2> QED
    BY <2>1, <2>2, <2>3, RunEnds
<1>3. ASSUME NEW p \in Path, NEW k \in Content, s \in H[p][k]
      PROVE  \E v \in alive : v.path = p /\ v.content = k
  <2>1. H[p][k] \in SUBSET (1 .. n)
    BY TimelineIs
  <2>2. PICK a, b \in H[p][k] : a <= s /\ s <= b /\ IsRun(H[p][k], a, b)
    BY <1>3, <2>1, RunAt
  <2>3. a \in Nat /\ b \in Nat
    BY <2>1
  <2>4. V(p, k, a, b) \in T
    BY <2>2, <2>3, TimelineIs
  <2>5. V(p, k, a, b) \in alive
    BY <2>2, <2>4, VersionFields
  <2> QED
    BY <2>5, VersionFields
<1>4. ASSUME NEW p \in D
      PROVE  p \in Path /\ C(p) \in Content /\ s \in H[p][C(p)]
  <2>1. PICK v \in alive : v.path = p
    OBVIOUS
  <2>2. (CHOOSE u \in alive : u.path = p) \in alive /\ (CHOOSE u \in alive : u.path = p).path = p
    BY <2>1
  <2> HIDE DEF alive
  <2> QED
    BY <1>2, <2>2
<1>5. \A p \in Path, k \in Content : s \in H[p][k] => p \in D
  BY <1>3
<1> HIDE DEF alive, T, C, D
<1>6. D \subseteq Path
  BY <1>4
<1>7. Shown(c, s) \in [D -> Content]
  BY <1>1, <1>4
<1>8. Shown(c, s) \in Listing
  BY <1>6, <1>7 DEF Listing
<1>9. \A p \in Path, k \in Content :
        s \in H[p][k] <=> p \in DOMAIN Shown(c, s) /\ Shown(c, s)[p] = k
  BY <1>1, <1>4, <1>5
<1> QED
  BY <1>8, <1>9

(* What the archive at s should show: its own files, and the rest as before it. *)
Scoped(inside, before, scope) ==
  [p \in DOMAIN inside \cup (DOMAIN before \ scope) |->
     IF p \in scope THEN inside[p] ELSE before[p]]

(* A listing in its scope, and what was before outside of it. *)
LEMMA ScopedIs ==
  ASSUME NEW inside \in Listing, NEW before \in Listing, NEW scope \in SUBSET Path,
         DOMAIN inside \subseteq scope
  PROVE  /\ Scoped(inside, before, scope) \in Listing
         /\ \A p \in scope : /\ p \in DOMAIN Scoped(inside, before, scope) <=> p \in DOMAIN inside
                             /\ p \in DOMAIN inside => Scoped(inside, before, scope)[p] = inside[p]
         /\ \A p \in Path \ scope :
              /\ p \in DOMAIN Scoped(inside, before, scope) <=> p \in DOMAIN before
              /\ p \in DOMAIN before => Scoped(inside, before, scope)[p] = before[p]
<1> DEFINE D == DOMAIN inside \cup (DOMAIN before \ scope)
           S == Scoped(inside, before, scope)
<1>1. S = [p \in D |-> IF p \in scope THEN inside[p] ELSE before[p]]
  BY DEF Scoped
<1>2. D \subseteq Path /\ \A p \in D : (IF p \in scope THEN inside[p] ELSE before[p]) \in Content
  BY ListingIs
<1>3. S \in [D -> Content]
  BY <1>1, <1>2
<1>4. S \in Listing
  BY <1>2, <1>3 DEF Listing
<1> HIDE DEF S
<1> QED
  BY <1>1, <1>4 DEF S

(* The spreads once s is read, path by path. *)
LEMMA WithCases ==
  ASSUME NEW H, NEW s, NEW listing, NEW p \in Path, NEW k \in Content
  PROVE  /\ p \in DOMAIN listing /\ listing[p] = k => With(H, s, listing)[p][k] = H[p][k] \cup {s}
         /\ ~(p \in DOMAIN listing /\ listing[p] = k) => With(H, s, listing)[p][k] = H[p][k]
BY DEF With

(* The spreads once s shows what the archive before it does, path by path. *)
LEMMA AlikeCases ==
  ASSUME NEW H, NEW s \in Nat, NEW t, t = s - 1, NEW paths, NEW p \in Path, NEW k \in Content
  PROVE  /\ p \in paths /\ t \in H[p][k] => Alike(H, s, paths)[p][k] = H[p][k] \cup {s}
         /\ ~(p \in paths /\ t \in H[p][k]) => Alike(H, s, paths)[p][k] = H[p][k]
BY DEF Alike

(* Spreads that agree everywhere are equal. *)
LEMMA SpreadsEqual ==
  ASSUME NEW n, NEW G \in Spreads(n), NEW H \in Spreads(n),
         \A p \in Path, k \in Content : G[p][k] = H[p][k]
  PROVE  G = H
<1>1. /\ G = [p \in Path |-> [k \in Content |-> G[p][k]]]
      /\ H = [p \in Path |-> [k \in Content |-> H[p][k]]]
  BY DEF Spreads
<1> QED
  BY <1>1

FoldedIn(vs, s, inside, outside) ==
  Carried(Rejoined(Folded(vs, s, inside), s, outside), s, outside)

(* The same of the files: whatever was catalogued, Folded, Rejoined and Carried
   give what reading it in order gives. *)
LEMMA ScopedIsTimeline ==
  ASSUME NEW c, NEW n \in Nat, NEW H \in Spreads(n), c.versions = Timeline(H), NEW s \in 1 .. n,
         NEW t \in Nat, t = s - 1,
         \A p \in Path, k, l \in Content : t \in H[p][k] /\ t \in H[p][l] => k = l,
         \A p \in Path, k \in Content : s \notin H[p][k],
         NEW inside \in Listing, NEW scope \in SUBSET Path, DOMAIN inside \subseteq scope,
         NEW before, before = Shown(c, t), NEW outside, outside = Path \ scope
  PROVE  /\ before \in Listing
         /\ FoldedIn(Timeline(H), s, inside, outside)
              = Timeline(With(H, s, Scoped(inside, before, scope)))
<1> DEFINE shows == Scoped(inside, before, scope)
           W == With(H, s, inside)
<1>1. /\ before \in Listing
      /\ \A p \in Path, k \in Content : t \in H[p][k] <=> p \in DOMAIN before /\ before[p] = k
  BY ShownIs
<1>2. /\ shows \in Listing
      /\ \A p \in scope : /\ p \in DOMAIN shows <=> p \in DOMAIN inside
                          /\ p \in DOMAIN inside => shows[p] = inside[p]
      /\ \A p \in Path \ scope : /\ p \in DOMAIN shows <=> p \in DOMAIN before
                                 /\ p \in DOMAIN before => shows[p] = before[p]
  BY <1>1, ScopedIs
<1>3. W \in Spreads(n)
  BY WithIs
<1>4. Folded(Timeline(H), s, inside) = Timeline(W)
  BY FoldedIsTimeline
<1>5. ASSUME NEW p \in outside, NEW k \in Content
      PROVE  p \in Path /\ W[p][k] = H[p][k] /\ s \notin W[p][k]
  <2>1. p \in Path /\ p \notin DOMAIN inside
    OBVIOUS
  <2>2. W[p][k] = H[p][k]
    BY <2>1, WithCases
  <2> QED
    BY <2>1, <2>2
<1>6. Carried(Rejoined(Timeline(W), s, outside), s, outside) = Timeline(Alike(W, s, outside))
  <2>1. outside \in SUBSET Path
    OBVIOUS
  <2> HIDE DEF W
  <2> QED
    BY <1>3, <1>5, <2>1, CarriedIsTimeline
<1>7. Alike(W, s, outside) = With(H, s, shows)
  <2> DEFINE A == Alike(W, s, outside)
             B == With(H, s, shows)
  <2>1. A \in Spreads(n) /\ B \in Spreads(n)
    <3>1. B \in Spreads(n)
      <4> HIDE DEF shows
      <4> QED
        BY <1>2, WithIs
    <3> HIDE DEF W
    <3> QED
      BY <1>3, <3>1, AlikeIs
  <2>2. ASSUME NEW p \in Path, NEW k \in Content PROVE A[p][k] = B[p][k]
    <3>b. /\ p \in DOMAIN shows /\ shows[p] = k => B[p][k] = H[p][k] \cup {s}
          /\ ~(p \in DOMAIN shows /\ shows[p] = k) => B[p][k] = H[p][k]
      BY WithCases
    <3>w. /\ p \in DOMAIN inside /\ inside[p] = k => W[p][k] = H[p][k] \cup {s}
          /\ ~(p \in DOMAIN inside /\ inside[p] = k) => W[p][k] = H[p][k]
      BY WithCases
    <3>a. /\ p \in outside /\ t \in W[p][k] => A[p][k] = W[p][k] \cup {s}
          /\ ~(p \in outside /\ t \in W[p][k]) => A[p][k] = W[p][k]
      <4>1. s \in Nat
        OBVIOUS
      <4> HIDE DEF W
      <4> QED
        BY <4>1, AlikeCases
    <3> HIDE DEF A, B, W, shows
    <3>1. CASE p \in scope
      <4>1. /\ p \notin outside
            /\ p \in DOMAIN shows <=> p \in DOMAIN inside
            /\ p \in DOMAIN inside => shows[p] = inside[p]
        BY <1>2, <3>1
      <4> QED
        BY <3>a, <3>b, <3>w, <4>1
    <3>2. CASE p \notin scope
      <4>1. /\ p \in outside /\ p \in Path \ scope
        BY <3>2
      <4>2. W[p][k] = H[p][k]
        BY <1>5, <4>1
      <4>3. /\ p \in DOMAIN shows <=> p \in DOMAIN before
            /\ p \in DOMAIN before => shows[p] = before[p]
        BY <1>2, <4>1
      <4>4. t \in H[p][k] <=> p \in DOMAIN before /\ before[p] = k
        BY <1>1
      <4> QED
        BY <3>a, <3>b, <4>1, <4>2, <4>3, <4>4
    <3> QED
      BY <3>1, <3>2
  <2> HIDE DEF A, B
  <2>3. A = B
    BY <2>1, <2>2, SpreadsEqual
  <2> QED
    BY <2>3 DEF A, B
<1> QED
  BY <1>1, <1>4, <1>6, <1>7 DEF FoldedIn

IsBefore(t, s) == t = s - 1

ReadsAs(c, what, s, inside, outside, shows) ==
  FoldedIn(c.versions, s, inside, outside) = Timeline(With(Held(c.rows, what), s, shows))

(* What is shown once a scoped listing is read is held once it is. *)
LEMMA ScopedIsHeld ==
  ASSUME NEW c, c.rows \in Seq(Row), NEW n \in Nat, n = Len(c.rows), NEW s \in 1 .. n,
         c.rows[s].pending, NEW what, c.versions = Reference(c.rows, what),
         NEW t \in Nat, IsBefore(t, s), NEW inside \in Listing, NEW scope \in SUBSET Path,
         DOMAIN inside \subseteq scope, NEW before, before = Shown(c, t),
         NEW outside, outside = Path \ scope
  PROVE  /\ Scoped(inside, before, scope) \in Listing
         /\ ReadsAs(c, what, s, inside, outside, Scoped(inside, before, scope))
<1>1. PICK H \in Spreads(n) : H = Held(c.rows, what)
  BY HeldIs
<1>2. c.versions = Timeline(H) /\ s \in DOMAIN c.rows
  BY <1>1, ReferenceIs
<1>3. \A p \in Path, k, l \in Content : t \in H[p][k] /\ t \in H[p][l] => k = l
  BY <1>1, HeldIs DEF Holds
<1>4. \A p \in Path, k \in Content : s \notin H[p][k]
  BY <1>1, HeldIs DEF Holds
<1>6. FoldedIn(Timeline(H), s, inside, outside) = Timeline(With(H, s, Scoped(inside, before, scope)))
  BY SMTT(30), <1>2, <1>3, <1>4, ScopedIsTimeline DEF IsBefore
<1>7. before \in Listing
  BY <1>2, <1>3, ShownIs
<1>8. Scoped(inside, before, scope) \in Listing
  BY <1>7, ScopedIs
<1> QED
  BY <1>1, <1>2, <1>6, <1>8 DEF ReadsAs

ScopedAt(c, s, inside, scope) == Scoped(inside, Shown(c, s - 1), scope)

IsScoped(d, c, s, then, shows) ==
  d.rows = Read(c.rows, s) /\ d.versions = Reference(d.rows, then) /\ shows \in Listing

(* Reading a scoped listing gives what reading all it should show would *)
(* (ingest_scoped).                                                     *)
LEMMA ScopedIngestedIsReference ==
  ASSUME NEW c, c.rows \in Seq(Row), NEW s \in 1 .. Len(c.rows), c.rows[s].pending, NEW what,
         c.versions = Reference(c.rows, what),
         NEW inside \in Listing, NEW scope \in SUBSET Path, DOMAIN inside \subseteq scope,
         NEW shows, shows = ScopedAt(c, s, inside, scope),
         NEW then, then[c.rows[s].name] = shows,
         \A i \in DOMAIN c.rows : i # s => then[c.rows[i].name] = what[c.rows[i].name]
  PROVE  IsScoped(ScopedIngested(c, s, inside, scope), c, s, then, shows)
<1>1. PICK n \in Nat : n = Len(c.rows)
  OBVIOUS
<1>2. PICK t \in Nat : t = s - 1
  OBVIOUS
<1>b. IsBefore(t, s)
  BY <1>2 DEF IsBefore
<1>3. PICK before, outside : before = Shown(c, t) /\ outside = Path \ scope
  OBVIOUS
<1>4. shows = Scoped(inside, before, scope)
  BY <1>2, <1>3 DEF ScopedAt
<1>5. /\ shows \in Listing
      /\ FoldedIn(c.versions, s, inside, outside) = Timeline(With(Held(c.rows, what), s, shows))
  <2>1. s \in 1 .. n
    BY <1>1
  <2>2. Scoped(inside, before, scope) \in Listing
    BY <1>1, <1>b, <1>3, <2>1, ScopedIsHeld
  <2>3. ReadsAs(c, what, s, inside, outside, Scoped(inside, before, scope))
    BY <1>1, <1>b, <1>3, <2>1, ScopedIsHeld
  <2> QED
    BY <1>4, <2>2, <2>3 DEF ReadsAs
<1>6. s \in DOMAIN c.rows
  OBVIOUS
<1>7. Held(Read(c.rows, s), then) = With(Held(c.rows, what), s, shows)
  BY <1>5, <1>6, HeldOnceRead
<1>8. Reference(Read(c.rows, s), then) = Timeline(Held(Read(c.rows, s), then))
  BY <1>6, ReadIs, ReferenceIs
<1>9. /\ ScopedIngested(c, s, inside, scope).rows = Read(c.rows, s)
      /\ ScopedIngested(c, s, inside, scope).versions = FoldedIn(c.versions, s, inside, outside)
  BY <1>3, BrowsableIs DEF ScopedIngested, FoldedIn
<1> QED
  BY <1>5, <1>7, <1>8, <1>9 DEF IsScoped

-----------------------------------------------------------------------------
(* Numbering: what position each of some numbers has among them. *)

Rank(K, s) == Cardinality({k \in K : k <= s})

(* How many are below and above one of some numbers. *)
LEMMA RankOf ==
  ASSUME NEW n \in Nat, NEW K \in SUBSET (1 .. n), NEW s \in K
  PROVE  /\ Rank(K, s) \in Nat /\ 1 <= Rank(K, s) /\ Rank(K, s) <= Cardinality(K)
         /\ Cardinality({y \in K : y < s}) = Rank(K, s) - 1
         /\ Cardinality({y \in K : y > s}) = Cardinality(K) - Rank(K, s)
<1> DEFINE A == {k \in K : k <= s}
           B == {y \in K : y < s}
           C == {y \in K : y > s}
<1>1. IsFiniteSet(K) /\ Cardinality(K) \in Nat
  <2>1. IsFiniteSet(1 .. n)
    BY FS_Interval
  <2> QED
    BY <2>1, FS_Subset, FS_CardinalityType
<1>2. A \in SUBSET K /\ C \in SUBSET K /\ s \in A
  OBVIOUS
<1>n. s \in Nat /\ \A k \in K : k \in Nat
  OBVIOUS
<1>3. B = A \ {s}
  <2>1. \A k \in K : k < s <=> k <= s /\ k # s
    BY <1>n
  <2> QED
    BY <2>1
<1>4. A \cup C = K /\ A \cap C = {}
  <2>1. \A k \in K : (k <= s \/ k > s) /\ ~(k <= s /\ k > s)
    BY <1>n
  <2> QED
    BY <2>1
<1> HIDE DEF A, B, C
<1>5. IsFiniteSet(A) /\ Cardinality(A) \in Nat /\ Cardinality(A) <= Cardinality(K)
  BY <1>1, <1>2, FS_Subset, FS_CardinalityType
<1>6. IsFiniteSet(C) /\ Cardinality(C) \in Nat
  BY <1>1, <1>2, FS_Subset, FS_CardinalityType
<1>7. Cardinality(B) = Cardinality(A) - 1 /\ IsFiniteSet(B)
  BY <1>2, <1>3, <1>5, FS_RemoveElement
<1>8. Cardinality(B) \in Nat
  BY <1>7, FS_CardinalityType
<1>9. Cardinality(K) = Cardinality(A) + Cardinality(C) - 0
  BY <1>4, <1>5, <1>6, FS_Union, FS_EmptySet
<1>10. Rank(K, s) = Cardinality(A)
  BY DEF Rank, A
<1>11. /\ Cardinality(A) \in Nat /\ 1 <= Cardinality(A) /\ Cardinality(A) <= Cardinality(K)
       /\ Cardinality(B) = Cardinality(A) - 1 /\ Cardinality(C) = Cardinality(K) - Cardinality(A)
  BY <1>1, <1>5, <1>6, <1>7, <1>8, <1>9
<1> QED
  BY <1>10, <1>11 DEF B, C

(* Ranks are in the order of the numbers. *)
LEMMA RankGrows ==
  ASSUME NEW n \in Nat, NEW K \in SUBSET (1 .. n), NEW s \in K, NEW t \in K, s < t
  PROVE  Rank(K, s) < Rank(K, t)
<1> DEFINE A == {k \in K : k <= s}
           B == {k \in K : k <= t}
<1>n. s \in Nat /\ t \in Nat /\ \A k \in K : k \in Nat
  OBVIOUS
<1>1. A \in SUBSET B /\ t \in B /\ t \notin A /\ B \in SUBSET K
  <2>1. t <= t /\ ~(t <= s) /\ \A k \in K : k <= s => k <= t
    BY <1>n
  <2> QED
    BY <2>1
<1>2. IsFiniteSet(B)
  <2>1. IsFiniteSet(1 .. n)
    BY FS_Interval
  <2> HIDE DEF B
  <2> QED
    BY <1>1, <2>1, FS_Subset
<1> HIDE DEF A, B
<1>3. Cardinality(A) <= Cardinality(B) /\ Cardinality(A) # Cardinality(B)
  BY <1>1, <1>2, FS_Subset
<1>4. Cardinality(A) \in Nat /\ Cardinality(B) \in Nat
  BY <1>1, <1>2, FS_Subset, FS_CardinalityType
<1>5. Cardinality(A) < Cardinality(B)
  BY <1>3, <1>4
<1> QED
  BY <1>5 DEF Rank, A, B

(* Numbering puts the numbers in a row: 1 .. m, in their order, none left out. *)
LEMMA RankIs ==
  ASSUME NEW n \in Nat, NEW K \in SUBSET (1 .. n), NEW m, m = Cardinality(K)
  PROVE  /\ m \in Nat
         /\ \A s \in K : Rank(K, s) \in 1 .. m
         /\ \A s, t \in K : /\ s < t <=> Rank(K, s) < Rank(K, t)
                            /\ s = t <=> Rank(K, s) = Rank(K, t)
                            /\ s <= t <=> Rank(K, s) <= Rank(K, t)
         /\ \A i \in 1 .. m : \E s \in K : Rank(K, s) = i
<1>1. IsFiniteSet(K) /\ m \in Nat
  <2>1. IsFiniteSet(1 .. n)
    BY FS_Interval
  <2> QED
    BY <2>1, FS_Subset, FS_CardinalityType
<1>2. ASSUME NEW s \in K PROVE s \in Nat /\ Rank(K, s) \in 1 .. m /\ Rank(K, s) \in Nat
  <2>1. Rank(K, s) \in Nat /\ 1 <= Rank(K, s) /\ Rank(K, s) <= m
    BY RankOf
  <2> QED
    BY <1>1, <2>1
<1>3. ASSUME NEW s \in K, NEW t \in K
      PROVE  /\ s < t <=> Rank(K, s) < Rank(K, t)
             /\ s = t <=> Rank(K, s) = Rank(K, t)
             /\ s <= t <=> Rank(K, s) <= Rank(K, t)
  <2>1. s \in Nat /\ t \in Nat /\ Rank(K, s) \in Nat /\ Rank(K, t) \in Nat
    BY <1>2
  <2>2. s < t => Rank(K, s) < Rank(K, t)
    BY RankGrows
  <2>3. t < s => Rank(K, t) < Rank(K, s)
    BY RankGrows
  <2> QED
    BY <2>1, <2>2, <2>3
<1>4. \A i \in 1 .. m : \E s \in K : Rank(K, s) = i
  <2> DEFINE f == [s \in K |-> Rank(K, s)]
  <2>1. f \in [K -> 1 .. m]
    BY <1>2
  <2>2. \A s, t \in K : f[s] = f[t] => s = t
    BY <1>3
  <2> HIDE DEF f
  <2>3. f \in Injection(K, 1 .. m)
    BY <2>1, <2>2 DEF Injection, IsInjective
  <2>4. IsFiniteSet(1 .. m) /\ Cardinality(1 .. m) = Cardinality(K)
    BY <1>1, FS_Interval
  <2>5. f \in Surjection(K, 1 .. m)
    BY <2>3, <2>4, FS_Injection
  <2>6. \A i \in 1 .. m : \E s \in K : f[s] = i
    BY <2>5 DEF Surjection
  <2> QED
    BY <2>6 DEF f
<1> QED
  BY <1>1, <1>2, <1>3, <1>4

(* Ordered, by the numbers themselves. *)
Lowest(K, i) == CHOOSE x \in K : Cardinality({y \in K : y < x}) = i - 1
Highest(K, i) == CHOOSE x \in K : Cardinality({y \in K : y > x}) = i - 1
Rising(K) == [i \in 1 .. Cardinality(K) |-> Lowest(K, i)]
Falling(K) == [i \in 1 .. Cardinality(K) |-> Highest(K, i)]

(* The i-th from below has rank i. *)
LEMMA LowestIs ==
  ASSUME NEW n \in Nat, NEW K \in SUBSET (1 .. n), NEW i \in 1 .. Cardinality(K)
  PROVE  Lowest(K, i) \in K /\ Rank(K, Lowest(K, i)) = i
<1>1. PICK s \in K : Rank(K, s) = i
  BY ZenonT(60), RankIs
<1>2. Cardinality({y \in K : y < s}) = i - 1
  BY <1>1, RankOf
<1>3. PICK x \in K : x = Lowest(K, i) /\ Cardinality({y \in K : y < x}) = i - 1
  BY <1>2 DEF Lowest
<1>4. Rank(K, x) \in Nat /\ Cardinality({y \in K : y < x}) = Rank(K, x) - 1
  BY RankOf
<1>5. i \in Nat
  BY RankIs
<1> QED
  BY <1>3, <1>4, <1>5

(* The i-th from above, by its rank. *)
LEMMA HighestIs ==
  ASSUME NEW n \in Nat, NEW K \in SUBSET (1 .. n), NEW i \in 1 .. Cardinality(K)
  PROVE  Highest(K, i) \in K /\ Rank(K, Highest(K, i)) = Cardinality(K) - i + 1
<1>0. PICK m \in Nat : m = Cardinality(K)
  BY RankIs
<1>1. PICK j \in 1 .. m : j = m - i + 1
  BY <1>0
<1>2. PICK s \in K : Rank(K, s) = j
  <2>1. j \in 1 .. Cardinality(K)
    BY <1>0
  <2> QED
    BY <2>1, LowestIs
<1>3. Cardinality({y \in K : y > s}) = m - j
  BY <1>0, <1>2, RankOf
<1>4. i \in Nat /\ j \in Nat /\ m - j = i - 1
  BY <1>0, <1>1
<1>5. PICK x \in K : x = Highest(K, i) /\ Cardinality({y \in K : y > x}) = i - 1
  BY <1>3, <1>4 DEF Highest
<1>6. Rank(K, x) \in Nat /\ Cardinality({y \in K : y > x}) = m - Rank(K, x)
  BY <1>0, RankOf
<1>7. Rank(K, x) = m - i + 1
  BY <1>4, <1>5, <1>6
<1> QED
  BY <1>0, <1>5, <1>7

(* Some numbers in ascending order: each once, the i-th of rank i. *)
LEMMA AscendingIs ==
  ASSUME NEW n \in Nat, NEW K \in SUBSET (1 .. n), NEW m \in Nat, m = Cardinality(K)
  PROVE  /\ DOMAIN Rising(K) = 1 .. m /\ Rising(K) \in Seq(K)
         /\ \A i \in 1 .. m : Rising(K)[i] \in K /\ Rank(K, Rising(K)[i]) = i
<1>1. PICK left : left = Rising(K) /\ left = [i \in 1 .. m |-> Lowest(K, i)]
  BY DEF Rising
<1>2. \A i \in 1 .. m : left[i] \in K /\ Rank(K, left[i]) = i
  BY <1>1, LowestIs
<1>3. left \in [1 .. m -> K]
  BY <1>1, <1>2
<1>4. \A d \in Nat : \A f \in [1 .. d -> K] : f \in Seq(K) /\ DOMAIN f = 1 .. d
  OBVIOUS
<1> QED
  BY <1>1, <1>2, <1>3, <1>4

(* Some numbers in descending order: each of them, once. *)
LEMMA DescendingIs ==
  ASSUME NEW n \in Nat, NEW K \in SUBSET (1 .. n), NEW m \in Nat, m = Cardinality(K)
  PROVE  /\ DOMAIN Falling(K) = 1 .. m /\ Falling(K) \in Seq(K)
         /\ \A i \in 1 .. m : Falling(K)[i] \in K
         /\ \A i, j \in 1 .. m : Falling(K)[i] = Falling(K)[j] => i = j
         /\ \A s \in K : \E i \in 1 .. m : Falling(K)[i] = s
<1>1. PICK left : left = Falling(K) /\ left = [i \in 1 .. m |-> Highest(K, i)]
  BY DEF Falling
<1>2. ASSUME NEW i \in 1 .. m PROVE left[i] \in K /\ Rank(K, left[i]) = m - i + 1
  BY <1>1, HighestIs
<1>3. left \in [1 .. m -> K]
  BY <1>1, <1>2
<1>4. \A d \in Nat : \A f \in [1 .. d -> K] : f \in Seq(K) /\ DOMAIN f = 1 .. d
  OBVIOUS
<1>5. ASSUME NEW i \in 1 .. m, NEW j \in 1 .. m, left[i] = left[j] PROVE i = j
  <2>1. m - i + 1 = m - j + 1
    BY <1>2, <1>5
  <2> QED
    BY <2>1
<1>6. ASSUME NEW s \in K PROVE \E i \in 1 .. m : left[i] = s
  <2>1. PICK r \in 1 .. m : r = Rank(K, s)
    BY RankIs
  <2>2. PICK i \in 1 .. m : i = m - r + 1
    OBVIOUS
  <2>3. left[i] \in K /\ Rank(K, left[i]) = m - i + 1
    BY <1>2
  <2>4. PICK t \in K : t = left[i] /\ Rank(K, t) = r
    <3>1. m - i + 1 = r
      BY <2>2
    <3> QED
      BY <2>3, <3>1
  <2>5. t = s
    <3>1. Rank(K, t) = Rank(K, s)
      BY <2>1, <2>4
    <3> HIDE DEF Rank
    <3> QED
      BY <3>1, RankIs
  <2> QED
    BY <2>4, <2>5
<1> QED
  BY <1>1, <1>3, <1>4, <1>5, <1>6

(* Ordered by less-than and by greater-than. *)
LEMMA OrderedIs ==
  ASSUME NEW K
  PROVE  Ordered(K, LAMBDA a, b : a < b) = Rising(K) /\ NewestFirst(K) = Falling(K)
BY DEF Ordered, NewestFirst, Lowest, Highest, Rising, Falling

-----------------------------------------------------------------------------
(* Coalesced: intervals that never overlap, and what they cover together. *)

Over(v, s) == v.first <= s /\ s <= v.last

Covers(W, G) ==
  /\ W \subseteq Version
  /\ \A w \in W : w.first <= w.last
  /\ \A w \in W, s \in Nat : Over(w, s) => s \in G[w.path][w.content]
  /\ \A p \in Path, k \in Content :
       \A s \in G[p][k] : \E w \in W : w.path = p /\ w.content = k /\ Over(w, s)
  /\ \A u, w \in W, s \in Nat : SameFile(u, w) /\ Over(u, s) /\ Over(w, s) => u = w

CoveredBy(W, v, s) == \E w \in W : SameFile(v, w) /\ Over(w, s)
Chain(W, v) == {u \in W : /\ SameFile(u, v) /\ u.first >= v.first
                          /\ \A s \in v.first .. u.last : CoveredBy(W, v, s)}
Heads(W) == {v \in W : ~\E u \in W : SameFile(u, v) /\ u.last + 1 = v.first}
Reach(W, v) == Max({u.last : u \in Chain(W, v)})

(* Coalescing extends each head of a chain to where the chain ends. *)
LEMMA CoalescedIs ==
  ASSUME NEW W
  PROVE  Coalesced(W) = {[v EXCEPT !.last = Reach(W, v)] : v \in Heads(W)}
BY DEF Coalesced, CoveredBy, Chain, Heads, Reach, Over

(* An interval of a cover lies within the spread it is of. *)
LEMMA CoverIs ==
  ASSUME NEW n \in Nat, NEW G \in Spreads(n), NEW W, Covers(W, G), NEW w \in W
  PROVE  /\ w \in Version /\ w.path \in Path /\ w.content \in Content
         /\ w.first \in Nat /\ w.last \in Nat /\ w.first <= w.last
         /\ G[w.path][w.content] \in SUBSET (1 .. n)
         /\ w.first \in G[w.path][w.content] /\ w.last \in G[w.path][w.content]
         /\ \A s \in Nat : Over(w, s) => s \in G[w.path][w.content]
<1>1. w \in Version /\ w.path \in Path /\ w.content \in Content /\ w.first \in Nat /\ w.last \in Nat
  BY VersionIs DEF Covers
<1>2. w.first <= w.last /\ \A s \in Nat : Over(w, s) => s \in G[w.path][w.content]
  BY DEF Covers
<1>3. G[w.path][w.content] \in SUBSET (1 .. n)
  BY <1>1, TimelineIs
<1>4. Over(w, w.first) /\ Over(w, w.last)
  BY <1>1, <1>2 DEF Over
<1> QED
  BY <1>1, <1>2, <1>3, <1>4

(* One that nothing ends just before reaches to the end of its run. *)
LEMMA HeadIsRun ==
  ASSUME NEW n \in Nat, NEW G \in Spreads(n), NEW W, Covers(W, G), NEW v \in Heads(W)
  PROVE  Reach(W, v) \in Nat /\ IsRun(G[v.path][v.content], v.first, Reach(W, v))
<1> DEFINE S == G[v.path][v.content]
           Lasts == {u.last : u \in Chain(W, v)}
<1>h. v \in W /\ \A u \in W : SameFile(u, v) => u.last + 1 # v.first
  BY DEF Heads
<1>v. /\ v.path \in Path /\ v.content \in Content /\ v.first \in Nat /\ v.last \in Nat
      /\ v.first <= v.last /\ S \in SUBSET (1 .. n) /\ v.first \in S
  BY <1>h, CoverIs
<1>w. ASSUME NEW w \in W, SameFile(v, w)
      PROVE  /\ w.first \in Nat /\ w.last \in Nat /\ w.first <= w.last /\ w.last \in S
             /\ \A s \in Nat : Over(w, s) => s \in S
             /\ w.path = v.path /\ w.content = v.content
  BY <1>w, CoverIs DEF SameFile
<1>c. \A s \in S : \E w \in W : SameFile(v, w) /\ Over(w, s)
  BY <1>v DEF Covers, SameFile
<1>d. \A u, w \in W, s \in Nat : SameFile(u, w) /\ Over(u, s) /\ Over(w, s) => u = w
  BY DEF Covers
<1>k. \A u \in Chain(W, v) : /\ u \in W /\ SameFile(v, u) /\ u.first >= v.first
                             /\ \A s \in v.first .. u.last : CoveredBy(W, v, s)
  BY DEF Chain, SameFile
<1> HIDE DEF S
<1>1. v \in Chain(W, v)
  <2>1. \A s \in v.first .. v.last : Over(v, s)
    BY <1>v DEF Over
  <2>2. \A s \in v.first .. v.last : CoveredBy(W, v, s)
    BY <1>h, <2>1 DEF CoveredBy, SameFile
  <2> QED
    BY <1>h, <1>v, <2>2 DEF Chain, SameFile
<1>2. Lasts \in SUBSET (0 .. n) /\ Lasts # {}
  <2>1. \A u \in Chain(W, v) : u.last \in 0 .. n
    BY <1>k, <1>v, <1>w
  <2> QED
    BY <1>1, <2>1
<1> HIDE DEF Lasts
<1>3. PICK b \in Lasts : b = Reach(W, v) /\ \A m \in Lasts : m <= b
  BY <1>2, GreatestOfSome DEF Reach, Lasts
<1>4. PICK u \in Chain(W, v) : u.last = b
  BY <1>3 DEF Lasts
<1>5. u \in W /\ SameFile(v, u) /\ b \in Nat /\ u.first \in Nat /\ u.first <= b /\ v.first <= u.first
  BY <1>k, <1>v, <1>w, <1>4
<1>6. \A s \in v.first .. b : CoveredBy(W, v, s)
  BY <1>k, <1>4
<1>7. v.first .. b \subseteq S
  <2> SUFFICES ASSUME NEW s \in v.first .. b PROVE s \in S
    OBVIOUS
  <2>1. s \in Nat
    BY <1>v, <1>5
  <2>2. PICK w \in W : SameFile(v, w) /\ Over(w, s)
    BY <1>6 DEF CoveredBy
  <2> QED
    BY <1>w, <2>1, <2>2
<1>8. v.first - 1 \notin S
  <2> SUFFICES ASSUME v.first - 1 \in S PROVE FALSE
    OBVIOUS
  <2>1. PICK w \in W : SameFile(v, w) /\ Over(w, v.first - 1)
    BY <1>c
  <2>2. w.first \in Nat /\ w.last \in Nat /\ w.first <= v.first - 1 /\ v.first - 1 <= w.last
    BY <1>w, <2>1 DEF Over
  <2>3. w.last >= v.first => FALSE
    <3>1. ASSUME w.last >= v.first PROVE FALSE
      <4>1. Over(w, v.first) /\ Over(v, v.first)
        BY <1>v, <2>2, <3>1 DEF Over
      <4>2. v = w
        BY <1>d, <1>h, <1>v, <2>1, <4>1
      <4> QED
        BY <1>v, <2>2, <4>2
    <3> QED
      BY <3>1
  <2>4. w.last + 1 = v.first
    BY <1>v, <2>2, <2>3
  <2> QED
    BY <1>h, <2>1, <2>4 DEF SameFile
<1>9. b + 1 \notin S
  <2> SUFFICES ASSUME b + 1 \in S PROVE FALSE
    OBVIOUS
  <2>1. PICK w \in W : SameFile(v, w) /\ Over(w, b + 1)
    BY <1>c
  <2>2. w.first \in Nat /\ w.last \in Nat /\ w.first <= b + 1 /\ b + 1 <= w.last
    BY <1>w, <2>1 DEF Over
  <2>3. w.first <= b => FALSE
    <3>1. ASSUME w.first <= b PROVE FALSE
      <4>1. Over(w, b) /\ Over(u, b) /\ SameFile(u, w)
        BY <1>4, <1>5, <2>1, <2>2, <3>1 DEF Over, SameFile
      <4>2. u = w
        BY <1>d, <1>5, <2>1, <4>1
      <4> QED
        BY <1>4, <1>5, <2>2, <4>2
    <3> QED
      BY <3>1
  <2>4. w.first = b + 1
    BY <1>5, <2>2, <2>3
  <2>5. ASSUME NEW s \in v.first .. w.last PROVE CoveredBy(W, v, s)
    <3>1. s \in Nat
      BY <1>v, <2>2
    <3>2. CASE s <= b
      BY <1>6, <1>v, <1>5, <3>1, <3>2
    <3>3. CASE s > b
      <4>1. Over(w, s)
        BY <1>5, <2>2, <2>4, <3>1, <3>3 DEF Over
      <4> QED
        BY <2>1, <4>1 DEF CoveredBy
    <3> QED
      BY <1>5, <3>1, <3>2, <3>3
  <2>6. w.first >= v.first
    BY <1>5, <1>v, <2>4
  <2>7. w \in Chain(W, v)
    BY <2>1, <2>5, <2>6 DEF Chain, SameFile
  <2>8. w.last \in Lasts
    BY <2>7 DEF Lasts
  <2> QED
    BY <1>3, <1>5, <2>2, <2>8
<1>10. v.first <= b
  BY <1>v, <1>5
<1> QED
  BY <1>3, <1>5, <1>7, <1>8, <1>9, <1>10 DEF IsRun, S

(* remove_archives, coalesce_versions: one interval for each run. *)
THEOREM CoalescedIsTimeline ==
  ASSUME NEW n \in Nat, NEW G \in Spreads(n), NEW W, Covers(W, G)
  PROVE  Coalesced(W) = Timeline(G)
<1>1. ASSUME NEW v \in Heads(W)
      PROVE  [v EXCEPT !.last = Reach(W, v)] = V(v.path, v.content, v.first, Reach(W, v))
  BY VersionEnds DEF Heads, Covers
<1>2. ASSUME NEW v \in Heads(W)
      PROVE  V(v.path, v.content, v.first, Reach(W, v)) \in Timeline(G)
  <2>1. v \in W
    BY DEF Heads
  <2> QED
    BY <2>1, CoverIs, HeadIsRun, TimelineIs
<1>3. ASSUME NEW t \in Timeline(G)
      PROVE  \E v \in Heads(W) : t = V(v.path, v.content, v.first, Reach(W, v))
  <2> DEFINE S == G[t.path][t.content]
  <2>1. /\ t.path \in Path /\ t.content \in Content /\ t.first \in Nat /\ t.last \in Nat
        /\ t = V(t.path, t.content, t.first, t.last) /\ IsRun(S, t.first, t.last)
    BY TimelineIs, VersionIs
  <2>2. S \in SUBSET (1 .. n) /\ S \in SUBSET Nat
    BY <2>1, TimelineIs
  <2>3. t.first \in S /\ t.first - 1 \notin S
    BY <2>1, <2>2, RunEnds
  <2>4. PICK w \in W : w.path = t.path /\ w.content = t.content /\ Over(w, t.first)
    BY <2>1, <2>3 DEF Covers
  <2>5. w.first \in Nat /\ w.last \in Nat /\ w.first <= t.first /\ t.first <= w.last
    BY <2>4, CoverIs DEF Over
  <2>6. w.first = t.first
    <3>1. ASSUME w.first < t.first PROVE FALSE
      <4>1. t.first - 1 \in Nat /\ Over(w, t.first - 1)
        BY <2>1, <2>5, <3>1 DEF Over
      <4> QED
        BY <2>3, <2>4, <4>1, CoverIs
    <3> QED
      BY <2>1, <2>5, <3>1
  <2>7. w \in Heads(W)
    <3>1. ASSUME NEW u \in W, SameFile(u, w), u.last + 1 = w.first PROVE FALSE
      <4>1. u.last \in Nat /\ u.last \in S
        BY <2>4, <3>1, CoverIs DEF SameFile
      <4>2. u.last = t.first - 1
        BY <2>1, <2>6, <3>1, <4>1
      <4> QED
        BY <2>3, <4>1, <4>2
    <3> QED
      BY <3>1 DEF Heads
  <2>8. Reach(W, w) \in Nat /\ IsRun(S, t.first, Reach(W, w))
    BY <2>4, <2>6, <2>7, HeadIsRun
  <2>9. t.last = Reach(W, w)
    <3>1. t.first <= t.last /\ t.first <= Reach(W, w)
      BY <2>1, <2>8 DEF IsRun
    <3> HIDE DEF S
    <3>2. (t.first = t.first /\ t.last = Reach(W, w)) \/ t.last + 1 < t.first \/ Reach(W, w) + 1 < t.first
      BY <2>1, <2>2, <2>8, RunsApart
    <3> QED
      BY <2>1, <2>8, <3>1, <3>2
  <2> QED
    BY <2>1, <2>4, <2>6, <2>7, <2>9
<1>4. Coalesced(W) = {[v EXCEPT !.last = Reach(W, v)] : v \in Heads(W)}
  BY CoalescedIs
<1>5. ASSUME NEW t, t \in Coalesced(W) PROVE t \in Timeline(G)
  <2>1. PICK v \in Heads(W) : t = [v EXCEPT !.last = Reach(W, v)]
    BY <1>4, <1>5
  <2> QED
    BY <1>1, <1>2, <2>1
<1>6. ASSUME NEW t \in Timeline(G) PROVE t \in Coalesced(W)
  <2>1. PICK v \in Heads(W) : t = V(v.path, v.content, v.first, Reach(W, v))
    BY <1>3
  <2>2. t = [v EXCEPT !.last = Reach(W, v)]
    BY <1>1, <2>1
  <2> QED
    BY <1>4, <2>2
<1> QED
  BY <1>5, <1>6

-----------------------------------------------------------------------------
(* Removed: the archives that stay, numbered anew. *)

Within(K, v) == {Rank(K, k) : k \in K \cap (v.first .. v.last)}
Clamped(K, vs) ==
  {[v EXCEPT !.first = Min(Within(K, v)), !.last = Max(Within(K, v))] :
     v \in {w \in vs : Within(K, w) # {}}}

(* The rows that stay, in their order. *)
Kept(rows, gone) == DOMAIN rows \ gone
Order(rows, gone) == Rising(Kept(rows, gone))

(* The parts of a catalogue with some rows removed. *)
LEMMA RemovedIs ==
  ASSUME NEW c, NEW gone, gone # {}
  PROVE  /\ Removed(c, gone).rows
              = [i \in DOMAIN Order(c.rows, gone) |-> c.rows[Order(c.rows, gone)[i]]]
         /\ Removed(c, gone).versions = Coalesced(Clamped(Kept(c.rows, gone), c.versions))
<1> DEFINE K == DOMAIN c.rows \ gone
           left == Ordered(K, LAMBDA a, b : a < b)
<1>1. left = Rising(K)
  BY OrderedIs
<1>2. left = Order(c.rows, gone)
  BY <1>1 DEF Order, Kept
<1>3. Removed(c, gone).rows = [i \in DOMAIN left |-> c.rows[left[i]]]
  BY DEF Removed
<1>4. Removed(c, gone).versions = Coalesced(Clamped(K, c.versions))
  BY DEF Removed, Clamped, Within, Rank
<1>5. K = Kept(c.rows, gone)
  BY DEF Kept
<1> HIDE DEF left, K
<1> QED
  BY <1>2, <1>3, <1>4, <1>5

(* Ranks number what they rank, in order and without gaps. *)
LEMMA RanksAre ==
  ASSUME NEW n \in Nat, NEW K \in SUBSET (1 .. n), NEW m \in Nat, m = Cardinality(K)
  PROVE  /\ \A s \in K : Rank(K, s) \in 1 .. m /\ Rank(K, s) \in Nat /\ s \in Nat
         /\ \A s, t \in K : /\ s < t <=> Rank(K, s) < Rank(K, t)
                            /\ s <= t <=> Rank(K, s) <= Rank(K, t)
                            /\ Rank(K, s) = Rank(K, t) => s = t
         /\ \A i \in 1 .. m : \E s \in K : Rank(K, s) = i
<1>1. ASSUME NEW s \in K PROVE Rank(K, s) \in 1 .. m /\ Rank(K, s) \in Nat /\ s \in Nat
  BY SMTT(30), RankIs
<1>2. ASSUME NEW s \in K, NEW t \in K
      PROVE  /\ s < t <=> Rank(K, s) < Rank(K, t)
             /\ s <= t <=> Rank(K, s) <= Rank(K, t)
             /\ Rank(K, s) = Rank(K, t) => s = t
  BY RankIs
<1>3. ASSUME NEW i \in 1 .. m PROVE \E s \in K : Rank(K, s) = i
  <2>1. i \in 1 .. Cardinality(K)
    OBVIOUS
  <2> QED
    BY <2>1, LowestIs
<1> QED
  BY <1>1, <1>2, <1>3

(* What is left of an interval is the positions of what is left in it. *)
LEMMA WithinIs ==
  ASSUME NEW n \in Nat, NEW K \in SUBSET (1 .. n), NEW m \in Nat, m = Cardinality(K),
         NEW v, v.first \in Nat, v.last \in Nat, Within(K, v) # {},
         NEW a, a = Min(Within(K, v)), NEW b, b = Max(Within(K, v))
  PROVE  /\ a \in 1 .. m /\ b \in 1 .. m /\ a <= b
         /\ \A s \in K : (a <= Rank(K, s) /\ Rank(K, s) <= b) <=> Over(v, s)
<1>1. \A s \in K : Rank(K, s) \in 1 .. m /\ s \in Nat
  BY RanksAre
<1>2. \A s, t \in K : s <= t <=> Rank(K, s) <= Rank(K, t)
  BY RankIs
<1>3. \A r \in Within(K, v) : \E s \in K : r = Rank(K, s) /\ v.first <= s /\ s <= v.last
  BY DEF Within
<1>4. \A s \in K : v.first <= s /\ s <= v.last => Rank(K, s) \in Within(K, v)
  BY <1>1 DEF Within
<1>5. Within(K, v) \in SUBSET (0 .. m) /\ Within(K, v) \in SUBSET Nat
  BY <1>1, <1>3
<1>6. a \in Within(K, v) /\ \A r \in Within(K, v) : a <= r
  BY <1>5, LeastOfSome
<1>7. b \in Within(K, v) /\ \A r \in Within(K, v) : r <= b
  BY <1>5, GreatestOfSome
<1>8. PICK s \in K : a = Rank(K, s) /\ v.first <= s /\ s <= v.last
  BY <1>3, <1>6
<1>9. PICK t \in K : b = Rank(K, t) /\ v.first <= t /\ t <= v.last
  BY <1>3, <1>7
<1>10. a \in 1 .. m /\ b \in 1 .. m /\ a <= b
  BY <1>1, <1>6, <1>7, <1>8, <1>9
<1>11. ASSUME NEW r \in K
       PROVE  (a <= Rank(K, r) /\ Rank(K, r) <= b) <=> Over(v, r)
  <2>1. r \in Nat /\ s \in Nat /\ t \in Nat
    BY <1>1
  <2>2. /\ s <= r <=> a <= Rank(K, r)
        /\ r <= t <=> Rank(K, r) <= b
    BY <1>2, <1>8, <1>9
  <2>3. Over(v, r) => a <= Rank(K, r) /\ Rank(K, r) <= b
    BY <1>4, <1>6, <1>7 DEF Over
  <2> QED
    BY <1>8, <1>9, <2>1, <2>2, <2>3 DEF Over
<1> QED
  BY <1>10, <1>11

Renumbered(H, K) == [p \in Path |-> [k \in Content |-> {Rank(K, s) : s \in H[p][k] \cap K}]]

(* The spreads of what is kept, numbered anew. *)
LEMMA RenumberedIs ==
  ASSUME NEW n \in Nat, NEW H \in Spreads(n), NEW K \in SUBSET (1 .. n),
         NEW m \in Nat, m = Cardinality(K)
  PROVE  /\ Renumbered(H, K) \in Spreads(m)
         /\ \A p \in Path, k \in Content, s \in K :
              Rank(K, s) \in Renumbered(H, K)[p][k] <=> s \in H[p][k]
         /\ \A p \in Path, k \in Content :
              \A i \in Renumbered(H, K)[p][k] : \E s \in K : i = Rank(K, s) /\ s \in H[p][k]
<1>1. \A s \in K : Rank(K, s) \in 1 .. m
  BY RanksAre
<1>2. \A s, t \in K : Rank(K, s) = Rank(K, t) => s = t
  BY RanksAre
<1>3. \A p \in Path, k \in Content :
        Renumbered(H, K)[p][k] = {Rank(K, s) : s \in H[p][k] \cap K}
  BY DEF Renumbered
<1>4. \A p \in Path, k \in Content : {Rank(K, s) : s \in H[p][k] \cap K} \in SUBSET (1 .. m)
  BY <1>1
<1>5. Renumbered(H, K) \in Spreads(m)
  BY <1>4 DEF Renumbered, Spreads
<1>6. ASSUME NEW p \in Path, NEW k \in Content, NEW s \in K
      PROVE  Rank(K, s) \in Renumbered(H, K)[p][k] <=> s \in H[p][k]
  <2>1. Rank(K, s) \in Renumbered(H, K)[p][k]
          <=> \E t \in H[p][k] \cap K : Rank(K, s) = Rank(K, t)
    BY <1>3
  <2> QED
    BY <1>2, <2>1
<1>7. ASSUME NEW p \in Path, NEW k \in Content, NEW i \in Renumbered(H, K)[p][k]
      PROVE  \E s \in K : i = Rank(K, s) /\ s \in H[p][k]
  <2>1. i \in {Rank(K, s) : s \in H[p][k] \cap K}
    BY <1>3
  <2> QED
    BY <2>1
<1> QED
  BY <1>5, <1>6, <1>7

(* A version with another start and another end. *)
LEMMA BothEnds ==
  ASSUME NEW v \in Version, NEW a, NEW b
  PROVE  [v EXCEPT !.first = a, !.last = b] = V(v.path, v.content, a, b)
<1> DEFINE w == [v EXCEPT !.first = a]
<1>1. w = V(v.path, v.content, a, v.last)
  BY VersionEnds
<1>2. [V(v.path, v.content, a, v.last) EXCEPT !.last = b] = V(v.path, v.content, a, b)
  BY DEF V
<1>3. [v EXCEPT !.first = a, !.last = b] = [w EXCEPT !.last = b]
  OBVIOUS
<1> QED
  BY <1>1, <1>2, <1>3

(* The intervals clamped to what is kept cover the spreads of what is kept. *)
LEMMA ClampedCovers ==
  ASSUME NEW n \in Nat, NEW H \in Spreads(n), NEW K \in SUBSET (1 .. n),
         NEW m \in Nat, m = Cardinality(K)
  PROVE  Covers(Clamped(K, Timeline(H)), Renumbered(H, K))
<1> DEFINE T == Timeline(H)
           W == Clamped(K, T)
           G == Renumbered(H, K)
<1>t. \A v \in T : /\ v \in Version /\ v.path \in Path /\ v.content \in Content
                   /\ v.first \in Nat /\ v.last \in Nat /\ H[v.path][v.content] \in SUBSET (1 .. n)
                   /\ IsRun(H[v.path][v.content], v.first, v.last)
  BY TimelineIs, VersionIs
<1>g. /\ \A p \in Path, k \in Content, s \in K : Rank(K, s) \in G[p][k] <=> s \in H[p][k]
      /\ \A p \in Path, k \in Content :
           \A i \in G[p][k] : \E s \in K : i = Rank(K, s) /\ s \in H[p][k]
  BY RenumberedIs
<1>r. \A i \in 1 .. m : \E s \in K : Rank(K, s) = i
  BY ZenonT(60), RanksAre
<1>k. \A s \in K : s \in Nat /\ Rank(K, s) \in Nat
  BY RanksAre
<1>v. ASSUME NEW v \in T, NEW a, NEW b
      PROVE  [v EXCEPT !.first = a, !.last = b] = V(v.path, v.content, a, b)
  <2>1. v \in Version
    BY <1>t
  <2> QED
    BY <2>1, BothEnds
<1> HIDE DEF T
<1>1. ASSUME NEW w \in W
      PROVE  \E v \in T : /\ Within(K, v) # {}
                          /\ w = V(v.path, v.content, Min(Within(K, v)), Max(Within(K, v)))
  <2>1. PICK v \in T : /\ Within(K, v) # {}
                       /\ w = [v EXCEPT !.first = Min(Within(K, v)), !.last = Max(Within(K, v))]
    BY DEF Clamped
  <2>2. [v EXCEPT !.first = Min(Within(K, v)), !.last = Max(Within(K, v))]
          = V(v.path, v.content, Min(Within(K, v)), Max(Within(K, v)))
    BY <1>v
  <2> QED
    BY <2>1, <2>2
<1>2. ASSUME NEW v \in T, Within(K, v) # {}
      PROVE  V(v.path, v.content, Min(Within(K, v)), Max(Within(K, v))) \in W
  <2>1. [v EXCEPT !.first = Min(Within(K, v)), !.last = Max(Within(K, v))]
          = V(v.path, v.content, Min(Within(K, v)), Max(Within(K, v)))
    BY <1>v
  <2> QED
    BY <1>2, <2>1 DEF Clamped
<1>3. ASSUME NEW v \in T, Within(K, v) # {},
             NEW w, w = V(v.path, v.content, Min(Within(K, v)), Max(Within(K, v)))
      PROVE  /\ w \in Version /\ w.path = v.path /\ w.content = v.content
             /\ w.first \in Nat /\ w.last \in Nat /\ w.first <= w.last /\ w.first \in 1 .. m /\ w.last \in 1 .. m
             /\ \A s \in K : Over(w, Rank(K, s)) <=> Over(v, s)
  <2>1. w.path = v.path /\ w.content = v.content /\ w.first = Min(Within(K, v)) /\ w.last = Max(Within(K, v))
    BY <1>3, VersionFields
  <2>2. /\ w.first \in 1 .. m /\ w.last \in 1 .. m /\ w.first <= w.last
        /\ \A s \in K : (w.first <= Rank(K, s) /\ Rank(K, s) <= w.last) <=> Over(v, s)
    <3>1. v.first \in Nat /\ v.last \in Nat
      BY <1>t
    <3> QED
      BY SMTT(30), <1>3, <2>1, <3>1, WithinIs
  <2>3. w.first \in Nat /\ w.last \in Nat
    BY <2>2
  <2>4. w \in Version
    BY <1>t, <1>3, <2>1, <2>3, VersionType
  <2>5. \A s \in K : Over(w, Rank(K, s)) <=> Over(v, s)
    BY <2>2 DEF Over
  <2> QED
    BY <2>1, <2>2, <2>3, <2>4, <2>5
<1> HIDE DEF W, T, G
<1>4. ASSUME NEW w \in W
      PROVE  /\ w \in Version /\ w.first <= w.last /\ w.first \in 1 .. m /\ w.last \in 1 .. m
             /\ \E v \in T : /\ w.path = v.path /\ w.content = v.content
                             /\ Within(K, v) # {}
                             /\ w = V(v.path, v.content, Min(Within(K, v)), Max(Within(K, v)))
                             /\ \A s \in K : Over(w, Rank(K, s)) <=> Over(v, s)
  BY <1>1, <1>3
<1>5. ASSUME NEW v \in T, NEW s \in K, Over(v, s) PROVE s \in H[v.path][v.content]
  <2>1. H[v.path][v.content] \in SUBSET Nat /\ s \in Nat
    BY SMTT(30), <1>t, <1>k
  <2> QED
    BY <1>t, <1>5, <2>1, RunEnds DEF Over
<1>6. ASSUME NEW w \in W, NEW i \in Nat, Over(w, i)
      PROVE  \E s \in K : i = Rank(K, s)
  <2>1. w.first \in 1 .. m /\ w.last \in 1 .. m
    BY <1>4
  <2>2. i \in 1 .. m
    BY <1>6, <2>1 DEF Over
  <2> QED
    BY <1>r, <2>2
<1>7. ASSUME NEW w \in W, NEW i \in Nat, Over(w, i) PROVE i \in G[w.path][w.content]
  <2>1. PICK v \in T : /\ w.path = v.path /\ w.content = v.content
                       /\ \A s \in K : Over(w, Rank(K, s)) <=> Over(v, s)
    BY <1>4
  <2>2. PICK s \in K : i = Rank(K, s)
    BY <1>6, <1>7
  <2>3. s \in H[v.path][v.content]
    BY <1>5, <1>7, <2>1, <2>2
  <2> QED
    BY <1>g, <1>t, <2>1, <2>2, <2>3
<1>8. ASSUME NEW p \in Path, NEW k \in Content, NEW i \in G[p][k]
      PROVE  \E w \in W : w.path = p /\ w.content = k /\ Over(w, i)
  <2>1. PICK s \in K : i = Rank(K, s) /\ s \in H[p][k]
    BY <1>g
  <2>2. H[p][k] \in SUBSET (1 .. n)
    BY TimelineIs
  <2>3. PICK a, b \in H[p][k] : a <= s /\ s <= b /\ IsRun(H[p][k], a, b)
    BY <2>1, <2>2, RunAt
  <2>4. a \in Nat /\ b \in Nat
    BY <2>2
  <2>5. PICK v \in T : v = V(p, k, a, b)
    BY <2>3, <2>4, TimelineIs DEF T
  <2>6. v.path = p /\ v.content = k /\ v.first = a /\ v.last = b
    BY <2>5, VersionFields
  <2>7. Over(v, s)
    BY <2>3, <2>6 DEF Over
  <2>8. Within(K, v) # {}
    <3>1. s \in v.first .. v.last
      BY <1>k, <2>3, <2>4, <2>6
    <3> QED
      BY <3>1 DEF Within
  <2>9. PICK w \in W : w = V(v.path, v.content, Min(Within(K, v)), Max(Within(K, v)))
    BY <1>2, <2>8
  <2> QED
    BY <1>3, <2>1, <2>6, <2>7, <2>8, <2>9
<1>9. ASSUME NEW u \in W, NEW w \in W, NEW i \in Nat, SameFile(u, w), Over(u, i), Over(w, i)
      PROVE  u = w
  <2>1. PICK x \in T : /\ u.path = x.path /\ u.content = x.content
                       /\ u = V(x.path, x.content, Min(Within(K, x)), Max(Within(K, x)))
                       /\ \A s \in K : Over(u, Rank(K, s)) <=> Over(x, s)
    BY <1>4
  <2>2. PICK y \in T : /\ w.path = y.path /\ w.content = y.content
                       /\ w = V(y.path, y.content, Min(Within(K, y)), Max(Within(K, y)))
                       /\ \A s \in K : Over(w, Rank(K, s)) <=> Over(y, s)
    BY <1>4
  <2>3. PICK s \in K : i = Rank(K, s)
    BY <1>6, <1>9
  <2>4. Over(x, s) /\ Over(y, s)
    BY <1>9, <2>1, <2>2, <2>3
  <2>5. x.path = y.path /\ x.content = y.content
    BY <1>9, <2>1, <2>2 DEF SameFile
  <2>6. x = y
    <3>1. /\ x.first \in Nat /\ x.last \in Nat /\ y.first \in Nat /\ y.last \in Nat /\ s \in Nat
          /\ H[x.path][x.content] \in SUBSET Nat
          /\ IsRun(H[x.path][x.content], x.first, x.last)
          /\ IsRun(H[x.path][x.content], y.first, y.last)
      BY <1>k, <1>t, <2>5
    <3>2. (x.first = y.first /\ x.last = y.last) \/ x.last + 1 < y.first \/ y.last + 1 < x.first
      BY <3>1, RunsApart
    <3>3. x.first = y.first /\ x.last = y.last
      BY <2>4, <3>1, <3>2 DEF Over
    <3>4. x = V(x.path, x.content, x.first, x.last) /\ y = V(y.path, y.content, y.first, y.last)
      BY <1>t, VersionIs
    <3> QED
      BY <2>5, <3>3, <3>4
  <2> QED
    BY <2>1, <2>2, <2>6
<1>10. W \subseteq Version /\ \A w \in W : w.first <= w.last
  BY <1>4
<1> QED
  BY <1>7, <1>8, <1>9, <1>10 DEF Covers, W, T, G

(* The rows that are kept, in the order they were in. *)
LEMMA OrderIs ==
  ASSUME NEW rows \in Seq(Row), NEW gone, NEW left, left = Order(rows, gone),
         NEW K, K = Kept(rows, gone)
  PROVE  /\ Cardinality(K) \in Nat /\ K \in SUBSET (1 .. Len(rows)) /\ Len(rows) \in Nat
         /\ DOMAIN left = 1 .. Cardinality(K) /\ left \in Seq(K)
         /\ \A i \in 1 .. Cardinality(K) : left[i] \in K /\ Rank(K, left[i]) = i
<1>1. K \in SUBSET (1 .. Len(rows)) /\ Len(rows) \in Nat
  BY DEF Kept
<1>2. PICK n \in Nat, m \in Nat : K \in SUBSET (1 .. n) /\ m = Cardinality(K)
  BY <1>1, RankIs
<1>3. left = Rising(K)
  BY DEF Order
<1>4. K \in SUBSET (1 .. n) /\ m = Cardinality(K)
  BY <1>2
<1>5. PICK L : L = Rising(K)
  OBVIOUS
<1>6. DOMAIN L = 1 .. m /\ L \in Seq(K)
  BY <1>4, <1>5, AscendingIs
<1>7. \A i \in 1 .. m : L[i] \in K /\ Rank(K, L[i]) = i
  BY <1>4, <1>5, AscendingIs
<1>8. left = L
  BY <1>3, <1>5
<1> QED
  BY <1>1, <1>2, <1>6, <1>7, <1>8

(* The rows once some are removed. *)
LEMMA RemovedRows ==
  ASSUME NEW c, c.rows \in Seq(Row), NEW gone, gone # {},
         NEW left, left = Order(c.rows, gone), NEW K, K = Kept(c.rows, gone),
         NEW then, then = Removed(c, gone).rows
  PROVE  /\ then \in Seq(Row) /\ Len(then) = Cardinality(K)
         /\ DOMAIN then = 1 .. Cardinality(K)
         /\ \A i \in 1 .. Cardinality(K) : then[i] = c.rows[left[i]]
<1>1. PICK m \in Nat : m = Cardinality(K)
  BY OrderIs
<1>2. DOMAIN left = 1 .. m /\ \A i \in 1 .. m : left[i] \in K
  BY <1>1, OrderIs
<1>3. then = [i \in 1 .. m |-> c.rows[left[i]]]
  BY <1>2, RemovedIs
<1>4. K \subseteq DOMAIN c.rows /\ \A s \in DOMAIN c.rows : c.rows[s] \in Row
  BY DEF Kept
<1>5. then \in [1 .. m -> Row]
  BY <1>2, <1>3, <1>4
<1>6. \A d \in Nat : \A f \in [1 .. d -> Row] : f \in Seq(Row) /\ Len(f) = d /\ DOMAIN f = 1 .. d
  OBVIOUS
<1> QED
  BY <1>1, <1>3, <1>5, <1>6

Follows(then, rows, left, K, m) ==
  \A i \in 1 .. m : left[i] \in K /\ Rank(K, left[i]) = i /\ then[i] = rows[left[i]]
AreHeld(then, rows, what, K) == Held(then, what) = Renumbered(Held(rows, what), K)

(* What the rows that are kept hold is what they held, numbered anew. *)
LEMMA HeldOnceRemoved ==
  ASSUME NEW rows \in Seq(Row), NEW K \in SUBSET (DOMAIN rows), NEW m \in Nat, m = Cardinality(K),
         NEW then \in Seq(Row), DOMAIN then = 1 .. m,
         NEW left, Follows(then, rows, left, K, m),
         NEW what
  PROVE  AreHeld(then, rows, what, K)
<1> DEFINE n == Len(rows)
           H == Held(rows, what)
           G == Renumbered(H, K)
<1>f. \A i \in 1 .. m : left[i] \in K /\ Rank(K, left[i]) = i /\ then[i] = rows[left[i]]
  BY DEF Follows
<1>1. n \in Nat /\ K \in SUBSET (1 .. n) /\ H \in Spreads(n)
  BY HeldIs
<1>2. /\ G \in Spreads(m)
      /\ \A p \in Path, k \in Content, s \in K : Rank(K, s) \in G[p][k] <=> s \in H[p][k]
      /\ \A p \in Path, k \in Content :
           \A i \in G[p][k] : \E s \in K : i = Rank(K, s) /\ s \in H[p][k]
  <2> HIDE DEF n, H
  <2> QED
    BY <1>1, RenumberedIs
<1>3. Held(then, what) \in Spreads(Len(then)) /\ Len(then) = m
  BY HeldIs
<1>4. \A p \in Path, k \in Content : \A s : s \in H[p][k] <=> s \in DOMAIN rows /\ Holds(rows, what, s, p, k)
  BY HeldIs
<1>5. \A p \in Path, k \in Content : \A i :
        i \in Held(then, what)[p][k] <=> i \in 1 .. m /\ Holds(then, what, i, p, k)
  BY HeldIs
<1>6. \A i \in 1 .. m : \A p, k : Holds(then, what, i, p, k) <=> Holds(rows, what, left[i], p, k)
  BY <1>f DEF Holds
<1>7. \A p \in Path, k \in Content : G[p][k] \in SUBSET (1 .. m)
  BY <1>2, TimelineIs
<1> HIDE DEF G, H
<1>8. ASSUME NEW p \in Path, NEW k \in Content, NEW i \in 1 .. m
      PROVE  i \in Held(then, what)[p][k] <=> i \in G[p][k]
  <2>1. left[i] \in K /\ Rank(K, left[i]) = i
    BY <1>f
  <2>2. i \in G[p][k] <=> left[i] \in H[p][k]
    BY <1>2, <2>1
  <2>3. i \in Held(then, what)[p][k] <=> Holds(rows, what, left[i], p, k)
    BY <1>5, <1>6
  <2> QED
    BY <1>4, <2>1, <2>2, <2>3
<1>9. \A p \in Path, k \in Content : Held(then, what)[p][k] = G[p][k]
  BY <1>5, <1>7, <1>8
<1>10. Held(then, what) = G
  BY <1>2, <1>3, <1>9, SpreadsEqual
<1> QED
  BY <1>10 DEF G, H, AreHeld

(* remove_archives: taking archives out leaves what the rest would have given. *)
LEMMA RemovedIsReference ==
  ASSUME NEW c, c.rows \in Seq(Row), NEW gone, NEW what, c.versions = Reference(c.rows, what)
  PROVE  Removed(c, gone).versions = Reference(Removed(c, gone).rows, what)
<1>1. CASE gone = {}
  BY <1>1 DEF Removed
<1>2. CASE gone # {}
  <2>1. PICK n \in Nat, rows \in Seq(Row) : n = Len(rows) /\ rows = c.rows
    OBVIOUS
  <2>2. PICK H \in Spreads(n) : H = Held(rows, what)
    BY <2>1, HeldIs
  <2>3. c.versions = Timeline(H)
    BY <2>1, <2>2, ReferenceIs
  <2>4. PICK K, left : K = Kept(rows, gone) /\ left = Order(rows, gone)
    OBVIOUS
  <2>5. K \in SUBSET (1 .. n) /\ K \in SUBSET (DOMAIN rows)
    BY <2>1, <2>4 DEF Kept
  <2>6. PICK m \in Nat : m = Cardinality(K)
    BY <2>1, <2>4, OrderIs
  <2>7. PICK then \in Seq(Row) : then = Removed(c, gone).rows
    BY <1>2, <2>1, <2>4, RemovedRows
  <2>8. /\ DOMAIN then = 1 .. m
        /\ Follows(then, rows, left, K, m)
    BY <1>2, <2>1, <2>4, <2>6, <2>7, RemovedRows, OrderIs DEF Follows
  <2>9. Held(then, what) = Renumbered(H, K)
    <3>1. K \in SUBSET (DOMAIN rows) /\ m = Cardinality(K)
      BY <2>5, <2>6
    <3> HIDE DEF Row
    <3>2. AreHeld(then, rows, what, K)
      BY <2>8, <3>1, HeldOnceRemoved
    <3> QED
      BY <2>2, <3>2 DEF AreHeld
  <2>14. Renumbered(H, K) \in Spreads(m)
    BY <2>5, <2>6, RenumberedIs
  <2>10. Removed(c, gone).versions = Coalesced(Clamped(K, c.versions))
    BY <1>2, <2>1, <2>4, RemovedIs
  <2>11. Covers(Clamped(K, Timeline(H)), Renumbered(H, K))
    BY <2>5, <2>6, ClampedCovers
  <2>12. Coalesced(Clamped(K, Timeline(H))) = Timeline(Renumbered(H, K))
    BY <2>11, <2>14, CoalescedIsTimeline
  <2>13. Reference(then, what) = Timeline(Held(then, what))
    BY ReferenceIs
  <2> QED
    BY <2>3, <2>7, <2>9, <2>10, <2>12, <2>13
<1> QED
  BY <1>1, <1>2

-----------------------------------------------------------------------------
(* Slotting one newcomer in: the rows from its place on move up by one. *)

(* Where row s is once there is a newcomer at j, and the row that is at i. *)
Later(s, j) == IF s < j THEN s ELSE s + 1
Earlier(i, j) == IF i < j THEN i ELSE i - 1

(* Where a row goes when one is put in at j, and where it came from. *)
LEMMA LaterIs ==
  ASSUME NEW n \in Nat, NEW j \in 1 .. n + 1
  PROVE  /\ \A s \in 1 .. n : /\ Later(s, j) \in 1 .. n + 1 /\ Later(s, j) # j
                              /\ Earlier(Later(s, j), j) = s
         /\ \A i \in 1 .. n + 1 : i # j => Earlier(i, j) \in 1 .. n /\ Later(Earlier(i, j), j) = i
         /\ \A s, t \in 1 .. n : s < t <=> Later(s, j) < Later(t, j)
         /\ \A s, t \in 1 .. n : Later(s, j) = Later(t, j) => s = t
BY DEF Later, Earlier

Shifted(H, j) == [p \in Path |-> [k \in Content |-> {Later(s, j) : s \in H[p][k]}]]
Moved(vs, j) == {[v EXCEPT !.first = Later(v.first, j), !.last = Later(v.last, j)] : v \in vs}

(* The spreads with a place at j that holds nothing. *)
LEMMA ShiftedIs ==
  ASSUME NEW n \in Nat, NEW j \in 1 .. n + 1, NEW H \in Spreads(n)
  PROVE  /\ Shifted(H, j) \in Spreads(n + 1)
         /\ \A p \in Path, k \in Content :
              /\ j \notin Shifted(H, j)[p][k]
              /\ \A i \in 1 .. n + 1 :
                   i # j => (i \in Shifted(H, j)[p][k] <=> Earlier(i, j) \in H[p][k])
<1>1. \A p \in Path, k \in Content : Shifted(H, j)[p][k] = {Later(s, j) : s \in H[p][k]}
  BY DEF Shifted
<1>2. \A p \in Path, k \in Content : H[p][k] \in SUBSET (1 .. n)
  BY TimelineIs
<1>3. \A p \in Path, k \in Content :
        {Later(s, j) : s \in H[p][k]} \in SUBSET (1 .. n + 1) /\ j \notin {Later(s, j) : s \in H[p][k]}
  <2>1. \A s \in 1 .. n : Later(s, j) \in 1 .. n + 1 /\ Later(s, j) # j
    BY DEF Later
  <2> HIDE DEF Later
  <2> QED
    BY <1>2, <2>1
<1>4. Shifted(H, j) \in Spreads(n + 1)
  BY <1>3 DEF Shifted, Spreads
<1>5. ASSUME NEW p \in Path, NEW k \in Content, NEW i \in 1 .. n + 1, i # j
      PROVE  i \in Shifted(H, j)[p][k] <=> Earlier(i, j) \in H[p][k]
  <2>1. i \in Shifted(H, j)[p][k] <=> \E s \in H[p][k] : i = Later(s, j)
    BY <1>1
  <2>2. Earlier(i, j) \in 1 .. n /\ Later(Earlier(i, j), j) = i
    BY <1>5 DEF Later, Earlier
  <2>3. \A s \in H[p][k] : Earlier(Later(s, j), j) = s
    BY <1>2, LaterIs
  <2> QED
    BY <2>1, <2>2, <2>3
<1> QED
  BY <1>1, <1>3, <1>4, <1>5

(* A run before the newcomer, after it, or the half of one on either side of it. *)
LEMMA RunShifted ==
  ASSUME NEW n \in Nat, NEW j \in 1 .. n + 1, NEW S \in SUBSET (1 .. n),
         NEW T \in SUBSET (1 .. n + 1), j \notin T,
         \A i \in 1 .. n + 1 : i # j => (i \in T <=> Earlier(i, j) \in S),
         NEW a \in Nat, NEW b \in Nat
  PROVE  /\ IsRun(S, a, b) /\ ~(a < j /\ j <= b) => IsRun(T, Later(a, j), Later(b, j))
         /\ IsRun(S, a, b) /\ a < j /\ j <= b => IsRun(T, a, j - 1) /\ IsRun(T, j + 1, b + 1)
<1> SUFFICES ASSUME IsRun(S, a, b)
             PROVE  /\ ~(a < j /\ j <= b) => IsRun(T, Later(a, j), Later(b, j))
                    /\ a < j /\ j <= b => IsRun(T, a, j - 1) /\ IsRun(T, j + 1, b + 1)
  OBVIOUS
<1>1. /\ a \in 1 .. n /\ b \in 1 .. n /\ a <= b /\ a - 1 \notin S /\ b + 1 \notin S
      /\ \A c \in Nat : a <= c /\ c <= b => c \in S
  <2>1. S \in SUBSET Nat
    OBVIOUS
  <2>2. a \in S /\ b \in S
    BY <2>1, RunEnds
  <2> QED
    BY <2>1, <2>2, RunEnds
<1>2. \A i \in 1 .. n + 1 : (i < j => (i \in T <=> i \in S)) /\ (i > j => (i \in T <=> i - 1 \in S))
  BY DEF Earlier
<1>3. ASSUME b < j PROVE IsRun(T, a, b)
  <2>1. \A c \in a .. b : c \in 1 .. n + 1 /\ c < j /\ c \in S
    BY <1>1, <1>3
  <2>2. \A c \in a .. b : c \in T
    BY <1>2, <2>1
  <2>3. a - 1 \notin T
    BY <1>1, <1>2, <1>3
  <2>4. b + 1 \notin T
    BY <1>1, <1>2, <1>3
  <2> QED
    BY <1>1, <2>2, <2>3, <2>4 DEF IsRun
<1>4. ASSUME j <= a PROVE IsRun(T, a + 1, b + 1)
  <2>1. \A c \in a + 1 .. b + 1 : c \in 1 .. n + 1 /\ c > j /\ c - 1 \in S
    BY <1>1, <1>4
  <2>2. \A c \in a + 1 .. b + 1 : c \in T
    BY <1>2, <2>1
  <2>3. (a + 1) - 1 \notin T
    BY <1>1, <1>2, <1>4
  <2>4. (b + 1) + 1 \notin T
    BY <1>1, <1>2, <1>4
  <2> QED
    BY <1>1, <2>2, <2>3, <2>4 DEF IsRun
<1>5. ASSUME a < j, j <= b PROVE IsRun(T, a, j - 1) /\ IsRun(T, j + 1, b + 1)
  <2>1. \A c \in a .. j - 1 : c \in 1 .. n + 1 /\ c < j /\ c \in S
    BY <1>1, <1>5
  <2>2. \A c \in j + 1 .. b + 1 : c \in 1 .. n + 1 /\ c > j /\ c - 1 \in S
    BY <1>1, <1>5
  <2>3. (\A c \in a .. j - 1 : c \in T) /\ (\A c \in j + 1 .. b + 1 : c \in T)
    BY <1>2, <2>1, <2>2
  <2>4. a - 1 \notin T
    BY <1>1, <1>2, <1>5
  <2>5. (b + 1) + 1 \notin T
    BY <1>1, <1>2, <1>5
  <2>6. (j - 1) + 1 = j /\ (j + 1) - 1 = j /\ a <= j - 1 /\ j + 1 <= b + 1
    BY <1>1, <1>5
  <2> QED
    BY <2>3, <2>4, <2>5, <2>6 DEF IsRun
<1> QED
  BY <1>1, <1>3, <1>4, <1>5 DEF Later

(* And each run there is then came of one. *)
CameOf(S, j, c, d) ==
  \E a, b \in S :
    /\ IsRun(S, a, b)
    /\ \/ ~(a < j /\ j <= b) /\ c = Later(a, j) /\ d = Later(b, j)
       \/ a < j /\ j <= b /\ c = a /\ d = j - 1
       \/ a < j /\ j <= b /\ c = j + 1 /\ d = b + 1

(* Where a run came from that does not meet j. *)
LEMMA RunUnshifted ==
  ASSUME NEW n \in Nat, NEW j \in 1 .. n + 1, NEW S \in SUBSET (1 .. n),
         NEW T \in SUBSET (1 .. n + 1), j \notin T,
         \A i \in 1 .. n + 1 : i # j => (i \in T <=> Earlier(i, j) \in S),
         NEW c \in Nat, NEW d \in Nat, IsRun(T, c, d)
  PROVE  CameOf(S, j, c, d)
<1>1. c \in T /\ d \in T /\ c <= d /\ \A i \in Nat : c <= i /\ i <= d => i \in T
  <2>1. T \in SUBSET Nat
    OBVIOUS
  <2> QED
    BY <2>1, RunEnds
<1>2. c # j /\ d # j /\ c \in 1 .. n + 1 /\ d \in 1 .. n + 1
  BY <1>1
<1>3. d < j \/ c > j
  <2>1. ~(c <= j /\ j <= d)
    BY <1>1
  <2> QED
    BY <1>2, <2>1
<1>4. PICK s \in S : s = Earlier(c, j)
  BY <1>1, <1>2
<1>5. PICK a, b \in S : a <= s /\ s <= b /\ IsRun(S, a, b)
  BY RunAt
<1>6. a \in Nat /\ b \in Nat /\ a \in 1 .. n /\ b \in 1 .. n
  OBVIOUS
<1>7. ASSUME ~(a < j /\ j <= b) PROVE c = Later(a, j) /\ d = Later(b, j)
  <2>1. IsRun(T, Later(a, j), Later(b, j))
    BY <1>5, <1>6, <1>7, RunShifted
  <2>2. Later(a, j) <= c /\ c <= Later(b, j) /\ Later(a, j) \in Nat /\ Later(b, j) \in Nat
    BY <1>2, <1>4, <1>5, <1>6, <1>7 DEF Later, Earlier
  <2>3. T \in SUBSET Nat
    OBVIOUS
  <2>4. (c = Later(a, j) /\ d = Later(b, j)) \/ d + 1 < Later(a, j) \/ Later(b, j) + 1 < c
    BY <2>1, <2>2, <2>3, RunsApart
  <2> HIDE DEF Later
  <2> QED
    BY <1>1, <1>2, <2>2, <2>4
<1>8. ASSUME a < j, j <= b
      PROVE  (c = a /\ d = j - 1) \/ (c = j + 1 /\ d = b + 1)
  <2>1. IsRun(T, a, j - 1) /\ IsRun(T, j + 1, b + 1)
    BY <1>5, <1>6, <1>8, RunShifted
  <2>2. T \in SUBSET Nat /\ j - 1 \in Nat /\ j + 1 \in Nat /\ b + 1 \in Nat
    OBVIOUS
  <2>3. (c = a /\ d = j - 1) \/ d + 1 < a \/ (j - 1) + 1 < c
    BY <1>6, <2>1, <2>2, RunsApart
  <2>4. (c = j + 1 /\ d = b + 1) \/ d + 1 < j + 1 \/ (b + 1) + 1 < c
    BY <1>6, <2>1, <2>2, RunsApart
  <2>5. (a <= c /\ c < j) \/ (j < c /\ c <= b + 1)
    BY <1>2, <1>4, <1>5, <1>6, <1>8 DEF Earlier
  <2> QED
    BY <1>1, <1>2, <1>3, <1>6, <2>3, <2>4, <2>5
<1> QED
  BY <1>5, <1>7, <1>8 DEF CameOf

(* Moving the intervals and splitting around j gives the timeline of the *)
(* shifted spreads.                                                      *)
LEMMA MovedIs ==
  ASSUME NEW n \in Nat, NEW j \in 1 .. n + 1, NEW H \in Spreads(n)
  PROVE  SplitAround(Moved(Timeline(H), j), j) = Timeline(Shifted(H, j))
<1> DEFINE T == Timeline(H)
           M == Moved(T, j)
           G == Shifted(H, j)
           spanning == {v \in M : v.first < j /\ j < v.last}
           heads == {[v EXCEPT !.last = j - 1] : v \in spanning}
           tails == {[v EXCEPT !.first = j + 1] : v \in spanning}
           all == (M \ spanning) \cup heads \cup tails
<1>1. \A v \in T : /\ v \in Version /\ v.path \in Path /\ v.content \in Content
                   /\ H[v.path][v.content] \in SUBSET (1 .. n)
                   /\ v.first \in 1 .. n /\ v.last \in 1 .. n
                   /\ IsRun(H[v.path][v.content], v.first, v.last)
  <2>1. \A v \in T : /\ v \in Version /\ v.path \in Path /\ v.content \in Content
                     /\ v.first \in Nat /\ v.last \in Nat
                     /\ IsRun(H[v.path][v.content], v.first, v.last)
    BY TimelineIs, VersionIs
  <2>2. \A p \in Path, k \in Content : H[p][k] \in SUBSET (1 .. n)
    BY TimelineIs
  <2> HIDE DEF T
  <2>3. ASSUME NEW v \in T PROVE v.first \in 1 .. n /\ v.last \in 1 .. n
    <3>1. H[v.path][v.content] \in SUBSET Nat /\ H[v.path][v.content] \in SUBSET (1 .. n)
      BY <2>1, <2>2
    <3>2. v.first \in H[v.path][v.content] /\ v.last \in H[v.path][v.content]
      BY <2>1, <3>1, RunEnds
    <3> QED
      BY <3>1, <3>2
  <2> QED
    BY <2>1, <2>2, <2>3
<1>2. /\ G \in Spreads(n + 1)
      /\ \A p \in Path, k \in Content :
           /\ G[p][k] \in SUBSET (1 .. n + 1) /\ j \notin G[p][k]
           /\ \A i \in 1 .. n + 1 : i # j => (i \in G[p][k] <=> Earlier(i, j) \in H[p][k])
  <2>1. G \in Spreads(n + 1)
    BY ShiftedIs
  <2>2. n + 1 \in Nat
    OBVIOUS
  <2>3. \A p \in Path, k \in Content : G[p][k] \in SUBSET (1 .. n + 1)
    BY <2>1, <2>2, TimelineIs
  <2> QED
    BY <2>1, <2>3, ShiftedIs
<1>g. /\ Timeline(G) \subseteq Version
      /\ \A p \in Path, k \in Content, a, b \in Nat : V(p, k, a, b) \in Timeline(G) <=> IsRun(G[p][k], a, b)
  <2>1. n + 1 \in Nat
    OBVIOUS
  <2> HIDE DEF G
  <2> QED
    BY <1>2, <2>1, TimelineIs
<1>t. \A p \in Path, k \in Content, a, b \in Nat : V(p, k, a, b) \in T <=> IsRun(H[p][k], a, b)
  BY TimelineIs
<1>l. \A s \in 1 .. n : Later(s, j) \in Nat
  BY DEF Later
<1>m. \A w : w \in M <=> \E v \in T : w = V(v.path, v.content, Later(v.first, j), Later(v.last, j))
  <2>1. \A v \in T : [v EXCEPT !.first = Later(v.first, j), !.last = Later(v.last, j)]
                      = V(v.path, v.content, Later(v.first, j), Later(v.last, j))
    BY <1>1, BothEnds
  <2> QED
    BY <2>1 DEF Moved
<1> HIDE DEF T, G, M
<1>3. ASSUME NEW v \in T, NEW w, w = V(v.path, v.content, Later(v.first, j), Later(v.last, j))
      PROVE  /\ w \in M /\ w \in Version /\ w.path = v.path /\ w.content = v.content
             /\ w.first = Later(v.first, j) /\ w.last = Later(v.last, j)
             /\ w \in spanning <=> v.first < j /\ j <= v.last
  <2>1. w.path = v.path /\ w.content = v.content /\ w.first = Later(v.first, j) /\ w.last = Later(v.last, j)
    BY <1>3, VersionFields
  <2>2. w \in Version
    BY <1>1, <1>3, <1>l, VersionType
  <2>3. w \in M
    BY <1>3, <1>m
  <2>4. Later(v.first, j) < j /\ j < Later(v.last, j) <=> v.first < j /\ j <= v.last
    BY <1>1 DEF Later
  <2> QED
    BY <2>1, <2>2, <2>3, <2>4
<1>4. ASSUME NEW w \in spanning
      PROVE  /\ [w EXCEPT !.last = j - 1] = V(w.path, w.content, w.first, j - 1)
             /\ [w EXCEPT !.first = j + 1] = V(w.path, w.content, j + 1, w.last)
  <2>1. w \in Version
    BY <1>3, <1>m
  <2> QED
    BY <2>1, VersionEnds
<1>5. ASSUME NEW u \in all
      PROVE  u \in Timeline(G)
  <2>1. CASE u \in M \ spanning
    <3>1. PICK v \in T : u = V(v.path, v.content, Later(v.first, j), Later(v.last, j))
      BY <1>m, <2>1
    <3>2. ~(v.first < j /\ j <= v.last)
      BY <1>3, <2>1, <3>1
    <3>3. PICK S, R, a, b : S = H[v.path][v.content] /\ R = G[v.path][v.content] /\ a = v.first /\ b = v.last
      OBVIOUS
    <3>4. /\ S \in SUBSET (1 .. n) /\ R \in SUBSET (1 .. n + 1) /\ j \notin R /\ a \in Nat /\ b \in Nat
          /\ \A i \in 1 .. n + 1 : i # j => (i \in R <=> Earlier(i, j) \in S)
          /\ IsRun(S, a, b) /\ ~(a < j /\ j <= b)
      BY <1>1, <1>2, <3>2, <3>3
    <3>5. IsRun(R, Later(a, j), Later(b, j))
      BY <3>4, RunShifted
    <3> QED
      BY <1>1, <1>g, <1>l, <3>1, <3>3, <3>5
  <2>2. CASE u \in heads
    <3>1. PICK w \in spanning : u = V(w.path, w.content, w.first, j - 1)
      BY <1>4, <2>2
    <3>2. PICK v \in T : w = V(v.path, v.content, Later(v.first, j), Later(v.last, j))
      BY <1>m
    <3>3. v.first < j /\ j <= v.last /\ w.path = v.path /\ w.content = v.content /\ w.first = v.first
      BY <1>3, <3>2 DEF Later
    <3>4. PICK S, R, a, b : S = H[v.path][v.content] /\ R = G[v.path][v.content] /\ a = v.first /\ b = v.last
      OBVIOUS
    <3>5. /\ S \in SUBSET (1 .. n) /\ R \in SUBSET (1 .. n + 1) /\ j \notin R /\ a \in Nat /\ b \in Nat
          /\ \A i \in 1 .. n + 1 : i # j => (i \in R <=> Earlier(i, j) \in S)
          /\ IsRun(S, a, b) /\ a < j /\ j <= b
      BY <1>1, <1>2, <3>3, <3>4
    <3>6. IsRun(R, a, j - 1)
      BY <3>5, RunShifted
    <3>7. j - 1 \in Nat
      OBVIOUS
    <3> QED
      BY <1>1, <1>g, <3>1, <3>3, <3>4, <3>5, <3>6, <3>7
  <2>3. CASE u \in tails
    <3>1. PICK w \in spanning : u = V(w.path, w.content, j + 1, w.last)
      BY <1>4, <2>3
    <3>2. PICK v \in T : w = V(v.path, v.content, Later(v.first, j), Later(v.last, j))
      BY <1>m
    <3>3. v.first < j /\ j <= v.last /\ w.path = v.path /\ w.content = v.content /\ w.last = v.last + 1
      BY <1>1, <1>3, <3>2 DEF Later
    <3>4. PICK S, R, a, b : S = H[v.path][v.content] /\ R = G[v.path][v.content] /\ a = v.first /\ b = v.last
      OBVIOUS
    <3>5. /\ S \in SUBSET (1 .. n) /\ R \in SUBSET (1 .. n + 1) /\ j \notin R /\ a \in Nat /\ b \in Nat
          /\ \A i \in 1 .. n + 1 : i # j => (i \in R <=> Earlier(i, j) \in S)
          /\ IsRun(S, a, b) /\ a < j /\ j <= b
      BY <1>1, <1>2, <3>3, <3>4
    <3>6. IsRun(R, j + 1, b + 1)
      BY <3>5, RunShifted
    <3>7. j + 1 \in Nat /\ b + 1 \in Nat
      BY <3>5
    <3> QED
      BY <1>1, <1>g, <3>1, <3>3, <3>4, <3>6, <3>7
  <2> QED
    BY <2>1, <2>2, <2>3
<1>6. ASSUME NEW u \in Timeline(G)
      PROVE  u \in all
  <2>1. /\ u \in Version /\ u.path \in Path /\ u.content \in Content /\ u.first \in Nat /\ u.last \in Nat
        /\ u = V(u.path, u.content, u.first, u.last)
    BY <1>g, VersionIs
  <2>2. PICK S, R, c, d : S = H[u.path][u.content] /\ R = G[u.path][u.content] /\ c = u.first /\ d = u.last
    OBVIOUS
  <2>3. IsRun(R, c, d) /\ c \in Nat /\ d \in Nat
    BY <1>g, <2>1, <2>2
  <2>4. /\ S \in SUBSET (1 .. n) /\ R \in SUBSET (1 .. n + 1) /\ j \notin R
        /\ \A i \in 1 .. n + 1 : i # j => (i \in R <=> Earlier(i, j) \in S)
    <3>1. H[u.path][u.content] \in SUBSET (1 .. n)
      BY <2>1, TimelineIs
    <3> QED
      BY <1>2, <2>1, <2>2, <3>1
  <2>0. CameOf(S, j, c, d)
    BY <2>3, <2>4, RunUnshifted
  <2>5. PICK a, b \in S :
           /\ IsRun(S, a, b)
           /\ \/ ~(a < j /\ j <= b) /\ c = Later(a, j) /\ d = Later(b, j)
              \/ a < j /\ j <= b /\ c = a /\ d = j - 1
              \/ a < j /\ j <= b /\ c = j + 1 /\ d = b + 1
    BY <2>0 DEF CameOf
  <2>6. a \in Nat /\ b \in Nat
    BY <2>4
  <2>7. PICK v \in T : v = V(u.path, u.content, a, b)
    BY <1>t, <2>1, <2>2, <2>5, <2>6
  <2>8. v.path = u.path /\ v.content = u.content /\ v.first = a /\ v.last = b
    BY <2>7, VersionFields
  <2>9. PICK w \in M : w = V(u.path, u.content, Later(a, j), Later(b, j))
    BY <1>m, <2>8
  <2>10. /\ w.path = u.path /\ w.content = u.content /\ w.first = Later(a, j) /\ w.last = Later(b, j)
         /\ w \in spanning <=> a < j /\ j <= b
    BY <1>3, <2>8, <2>9
  <2>11. CASE ~(a < j /\ j <= b) /\ c = Later(a, j) /\ d = Later(b, j)
    BY <2>1, <2>2, <2>9, <2>10, <2>11
  <2>12. CASE a < j /\ j <= b /\ c = a /\ d = j - 1
    <3>1. u = [w EXCEPT !.last = j - 1]
      BY ZenonT(60), <1>4, <2>1, <2>2, <2>10, <2>12 DEF Later
    <3> QED
      BY <2>10, <2>12, <3>1
  <2>13. CASE a < j /\ j <= b /\ c = j + 1 /\ d = b + 1
    <3>0. w.last = d
      BY <2>6, <2>10, <2>13 DEF Later
    <3>2. w \in spanning
      BY <2>10, <2>13
    <3>3. [w EXCEPT !.first = j + 1] = V(w.path, w.content, j + 1, w.last)
      BY <1>4, <3>2
    <3>1. u = [w EXCEPT !.first = j + 1]
      BY <2>1, <2>2, <2>10, <2>13, <3>0, <3>3
    <3> QED
      BY <2>10, <2>13, <3>1
  <2> QED
    BY <2>5, <2>11, <2>12, <2>13
<1>7. all = Timeline(G)
  <2> HIDE DEF all
  <2> QED
    BY <1>5, <1>6
<1> QED
  BY <1>7 DEF SplitAround, G, M, T

-----------------------------------------------------------------------------
(* Where sync_archives puts the newcomer. *)

(* The order of slots is the one bijection that agrees with it. *)
LEMMA OrderedBy ==
  ASSUME NEW m \in Nat, NEW S, NEW F \in Bijection(1 .. m, S),
         \A i, k \in 1 .. m : SlotBefore(F[i], F[k]) <=> i < k
  PROVE  Ordered(S, SlotBefore) = F
<1>1. /\ F \in [1 .. m -> S] /\ \A i, k \in 1 .. m : F[i] = F[k] => i = k
      /\ \A y \in S : \E i \in 1 .. m : F[i] = y
  BY DEF Bijection, Injection, IsInjective, Surjection
<1>2. Cardinality(S) = m
  <2>1. IsFiniteSet(1 .. m) /\ Cardinality(1 .. m) = m
    BY FS_Interval
  <2>2. ExistsBijection(1 .. m, S)
    BY DEF ExistsBijection
  <2> QED
    BY <2>1, <2>2, FS_Bijection
<1>3. ASSUME NEW i \in 1 .. m PROVE Cardinality({y \in S : SlotBefore(y, F[i])}) = i - 1
  <2> DEFINE B == {y \in S : SlotBefore(y, F[i])}
             G == [k \in 1 .. i - 1 |-> F[k]]
  <2>0. i - 1 \in Nat /\ \A k \in 1 .. i - 1 : k \in 1 .. m /\ k < i
    OBVIOUS
  <2>1. \A k \in 1 .. i - 1 : G[k] = F[k] /\ G[k] \in B
    BY <1>1, <2>0
  <2>2. \A y \in B : \E k \in 1 .. i - 1 : G[k] = y
    <3>1. SUFFICES ASSUME NEW y \in B PROVE \E k \in 1 .. i - 1 : G[k] = y
      OBVIOUS
    <3>2. PICK k \in 1 .. m : F[k] = y
      BY <1>1
    <3>3. k < i
      BY <3>2
    <3>4. k \in 1 .. i - 1
      BY <3>3
    <3> QED
      BY <2>1, <3>2, <3>4
  <2>3. \A k, l \in 1 .. i - 1 : G[k] = G[l] => k = l
    BY <1>1, <2>0
  <2>4. G \in [1 .. i - 1 -> B]
    BY <2>1
  <2> HIDE DEF G, B
  <2>5. G \in Bijection(1 .. i - 1, B)
    BY <2>2, <2>3, <2>4 DEF Bijection, Injection, IsInjective, Surjection
  <2>6. IsFiniteSet(1 .. i - 1) /\ Cardinality(1 .. i - 1) = i - 1
    BY <2>0, FS_Interval
  <2>7. ExistsBijection(1 .. i - 1, B)
    BY <2>5 DEF ExistsBijection
  <2>8. Cardinality(B) = i - 1
    BY <2>6, <2>7, FS_Bijection
  <2> QED
    BY <2>8 DEF B
<1>4. ASSUME NEW i \in 1 .. m
      PROVE  (CHOOSE x \in S : Cardinality({y \in S : SlotBefore(y, x)}) = i - 1) = F[i]
  <2>1. F[i] \in S /\ Cardinality({y \in S : SlotBefore(y, F[i])}) = i - 1
    BY <1>1, <1>3
  <2>2. ASSUME NEW x \in S, Cardinality({y \in S : SlotBefore(y, x)}) = i - 1 PROVE x = F[i]
    <3>1. PICK k \in 1 .. m : F[k] = x
      BY <1>1
    <3>2. k - 1 = i - 1
      BY <1>3, <2>2, <3>1
    <3>3. k = i
      BY <3>2
    <3> QED
      BY <3>1, <3>3
  <2> QED
    BY <2>1, <2>2
<1>5. Ordered(S, SlotBefore)
        = [i \in 1 .. m |-> CHOOSE x \in S : Cardinality({y \in S : SlotBefore(y, x)}) = i - 1]
  BY <1>2 DEF Ordered
<1>6. Ordered(S, SlotBefore) = [i \in 1 .. m |-> F[i]]
  BY <1>4, <1>5
<1> QED
  BY <1>1, <1>6

Slot(rows, s) == [ts |-> rows[s].ts, name |-> rows[s].name, old |-> s]
Entrant(e) == [ts |-> e.ts, name |-> e.name, old |-> 0]
Slots(rows, e) == {Slot(rows, s) : s \in DOMAIN rows} \cup {Entrant(e)}
InPlace(rows, e, j) ==
  [i \in 1 .. Len(rows) + 1 |-> IF i = j THEN Entrant(e) ELSE Slot(rows, Earlier(i, j))]

(* Rows in the order their archives were made in, dated by it. *)
InOrder(rows) ==
  /\ \A s \in DOMAIN rows : rows[s].ts = rows[s].name
  /\ \A s, t \in DOMAIN rows : s < t => rows[s].name < rows[t].name

(* j is the place of the one called x among them. *)
Belongs(rows, x, j) ==
  /\ j \in 1 .. Len(rows) + 1
  /\ \A s \in DOMAIN rows : rows[s].name # x /\ (rows[s].name < x <=> s < j)

(* A name that no row has belongs somewhere among the rows. *)
LEMMA SomewhereItBelongs ==
  ASSUME NEW rows \in Seq(Row), InOrder(rows), NEW x \in Nat,
         \A s \in DOMAIN rows : rows[s].name # x
  PROVE  \E j \in 1 .. Len(rows) + 1 : Belongs(rows, x, j)
<1> DEFINE n == Len(rows)
           A == {s \in 1 .. n + 1 : s = n + 1 \/ x < rows[s].name}
<1>1. n \in Nat /\ DOMAIN rows = 1 .. n /\ \A s \in 1 .. n : rows[s].name \in Nat
  <2>1. n \in Nat /\ DOMAIN rows = 1 .. n /\ \A s \in 1 .. n : rows[s] \in Row
    BY RowsAre
  <2>2. \A row \in Row : row.name \in Nat
    BY DEF Row
  <2> QED
    BY <2>1, <2>2
<1>2. A \in SUBSET Nat /\ n + 1 \in A
  BY <1>1
<1>3. PICK j \in A : \A k \in A : j <= k
  BY <1>2, LeastOfSome
<1>4. ASSUME NEW s \in 1 .. n PROVE rows[s].name < x <=> s < j
  <2>1. s < j => s \notin A
    BY <1>1, <1>3
  <2>2. s < j => rows[s].name < x
    BY <1>1, <2>1
  <2>3. ASSUME ~(s < j) PROVE ~(rows[s].name < x)
    <3>1. j \in 1 .. n /\ x < rows[j].name
      BY <1>1, <1>3, <2>3
    <3>2. j = s \/ j < s
      BY <2>3, <3>1
    <3>3. j = s \/ rows[j].name < rows[s].name
      BY <1>1, <3>1, <3>2 DEF InOrder
    <3> QED
      BY <1>1, <3>1, <3>3
  <2> QED
    BY <2>2, <2>3
<1>5. j \in 1 .. n + 1
  BY <1>3
<1> QED
  BY <1>1, <1>4, <1>5 DEF Belongs

(* The order of the slots is the rows with the newcomer where it belongs. *)
LEMMA OrderOfSlots ==
  ASSUME NEW rows \in Seq(Row), InOrder(rows), NEW e, e.name \in Nat, e.ts = e.name,
         NEW j, Belongs(rows, e.name, j)
  PROVE  Ordered(Slots(rows, e), SlotBefore) = InPlace(rows, e, j)
<1> DEFINE n == Len(rows)
           F == InPlace(rows, e, j)
           S == Slots(rows, e)
<1>1. /\ n \in Nat /\ DOMAIN rows = 1 .. n /\ j \in 1 .. n + 1
      /\ \A s \in 1 .. n : /\ rows[s].name \in Nat /\ rows[s].ts = rows[s].name
                           /\ rows[s].name # e.name /\ (rows[s].name < e.name <=> s < j)
      /\ \A s, t \in 1 .. n : s < t => rows[s].name < rows[t].name
  <2>1. n \in Nat /\ DOMAIN rows = 1 .. n /\ \A s \in 1 .. n : rows[s] \in Row
    BY RowsAre
  <2>2. \A row \in Row : row.name \in Nat
    BY DEF Row
  <2>3. \A s \in 1 .. n : rows[s].name \in Nat
    BY <2>1, <2>2
  <2> QED
    BY <2>1, <2>3 DEF InOrder, Belongs
<1>2. /\ \A i \in 1 .. n + 1 : i # j => Earlier(i, j) \in 1 .. n /\ F[i] = Slot(rows, Earlier(i, j))
      /\ F[j] = Entrant(e) /\ DOMAIN F = 1 .. n + 1
  BY <1>1 DEF InPlace, Earlier
<1>3. \A i \in 1 .. n + 1 : F[i] \in S
  BY <1>1, <1>2 DEF Slots
<1>4. \A y \in S : \E i \in 1 .. n + 1 : F[i] = y
  <2>1. SUFFICES ASSUME NEW y \in S PROVE \E i \in 1 .. n + 1 : F[i] = y
    OBVIOUS
  <2>2. CASE y = Entrant(e)
    BY <1>1, <1>2, <2>2
  <2>3. ASSUME NEW s \in 1 .. n, y = Slot(rows, s) PROVE \E i \in 1 .. n + 1 : F[i] = y
    <3>1. Later(s, j) \in 1 .. n + 1 /\ Later(s, j) # j /\ Earlier(Later(s, j), j) = s
      BY <1>1 DEF Later, Earlier
    <3> QED
      BY <1>2, <2>3, <3>1
  <2> QED
    BY <1>1, <2>2, <2>3 DEF Slots
<1>5. /\ \A s \in 1 .. n : Slot(rows, s).ts = rows[s].name /\ Slot(rows, s).name = rows[s].name
                           /\ Slot(rows, s).old = s
      /\ Entrant(e).ts = e.name /\ Entrant(e).name = e.name /\ Entrant(e).old = 0
  BY <1>1 DEF Slot, Entrant
<1>6. \A i, k \in 1 .. n + 1 : i < k => F[i].name < F[k].name
  <2> SUFFICES ASSUME NEW i \in 1 .. n + 1, NEW k \in 1 .. n + 1, i < k
               PROVE  F[i].name < F[k].name
    OBVIOUS
  <2>1. CASE i = j
    <3>1. k # j /\ Earlier(k, j) = k - 1 /\ ~(k - 1 < j) /\ k - 1 \in 1 .. n
      BY <1>1, <2>1 DEF Earlier
    <3>2. rows[k - 1].name \in Nat /\ rows[k - 1].name # e.name /\ ~(rows[k - 1].name < e.name)
      BY <1>1, <3>1
    <3>3. e.name < rows[k - 1].name
      BY <3>2
    <3> QED
      BY <1>2, <1>5, <2>1, <3>1, <3>3
  <2>2. CASE k = j
    <3>1. i # j /\ Earlier(i, j) = i /\ i < j /\ i \in 1 .. n
      BY <1>1, <2>2 DEF Earlier
    <3>2. rows[i].name < e.name
      BY <1>1, <3>1
    <3> QED
      BY <1>2, <1>5, <2>2, <3>1, <3>2
  <2>3. CASE i # j /\ k # j
    <3>1. Earlier(i, j) \in 1 .. n /\ Earlier(k, j) \in 1 .. n /\ Earlier(i, j) < Earlier(k, j)
      BY <1>1, <2>3 DEF Earlier
    <3>2. rows[Earlier(i, j)].name < rows[Earlier(k, j)].name
      BY <1>1, <3>1
    <3> QED
      BY <1>2, <1>5, <2>3, <3>1, <3>2
  <2> QED
    BY <2>1, <2>2, <2>3
<1>7. \A i \in 1 .. n + 1 : F[i].name \in Nat /\ F[i].ts = F[i].name
  <2> SUFFICES ASSUME NEW i \in 1 .. n + 1 PROVE F[i].name \in Nat /\ F[i].ts = F[i].name
    OBVIOUS
  <2>1. CASE i = j
    BY <1>2, <1>5, <2>1
  <2>2. CASE i # j
    BY <1>1, <1>2, <1>5, <2>2
  <2> QED
    BY <2>1, <2>2
<1>8. \A i, k \in 1 .. n + 1 : F[i] = F[k] => i = k
  <2> SUFFICES ASSUME NEW i \in 1 .. n + 1, NEW k \in 1 .. n + 1, i # k PROVE F[i] # F[k]
    OBVIOUS
  <2>1. i < k \/ k < i
    OBVIOUS
  <2>2. F[i].name < F[k].name \/ F[k].name < F[i].name
    BY <1>6, <2>1
  <2> QED
    BY <1>7, <2>2
<1>9. ASSUME NEW i \in 1 .. n + 1, NEW k \in 1 .. n + 1 PROVE SlotBefore(F[i], F[k]) <=> i < k
  <2>1. PICK a, b : a = F[i] /\ b = F[k]
    OBVIOUS
  <2>2. a.name \in Nat /\ b.name \in Nat /\ a.ts = a.name /\ b.ts = b.name
    BY <1>7, <2>1
  <2>3. CASE i < k
    <3>1. a.name < b.name
      BY <1>6, <2>1, <2>3
    <3> QED
      BY <2>1, <2>2, <2>3, <3>1 DEF SlotBefore
  <2>4. CASE k < i
    <3>1. b.name < a.name
      BY <1>6, <2>1, <2>4
    <3>2. ~(a.name < b.name) /\ ~(a.ts < b.ts) /\ a.name # b.name
      BY <2>2, <3>1
    <3> QED
      BY <2>1, <2>4, <3>2 DEF SlotBefore
  <2>5. CASE i = k
    <3>1. a = b /\ ~(a.name < b.name) /\ ~(a.ts < b.ts)
      BY <2>1, <2>2, <2>5
    <3>2. b.old \in Nat
      BY <1>1, <1>2, <1>5, <2>1
    <3> QED
      BY <2>1, <2>5, <3>1, <3>2 DEF SlotBefore
  <2> QED
    BY <2>3, <2>4, <2>5
<1>10. F \in [1 .. n + 1 -> S]
  BY <1>2, <1>3 DEF InPlace
<1> HIDE DEF F, S
<1>11. F \in Bijection(1 .. n + 1, S)
  BY <1>4, <1>8, <1>10 DEF Bijection, Injection, IsInjective, Surjection
<1>12. n + 1 \in Nat
  BY <1>1
<1>13. Ordered(S, SlotBefore) = F
  BY <1>9, <1>11, <1>12, OrderedBy
<1> QED
  BY <1>13 DEF F, S

(* SlottedIn, for one newcomer. *)
SlotRows(rows, j, row) ==
  [i \in 1 .. Len(rows) + 1 |->
     IF i = j THEN row ELSE [rows[Earlier(i, j)] EXCEPT !.expirable = NoMark]]

(* One number in order. *)
LEMMA LowestOfOne ==
  ASSUME NEW j \in Nat
  PROVE  Rising({j}) = [i \in 1 .. 1 |-> j]
<1>1. Cardinality({j}) = 1
  BY FS_Singleton
<1>2. {y \in {j} : y < j} = {}
  OBVIOUS
<1>3. Cardinality({}) = 0
  BY FS_EmptySet
<1>4. ASSUME NEW i \in 1 .. 1 PROVE Lowest({j}, i) = j
  <2>1. \A x \in {j} : x = j
    OBVIOUS
  <2>2. i - 1 = 0
    OBVIOUS
  <2>3. Cardinality({y \in {j} : y < j}) = i - 1
    BY <1>2, <1>3, <2>2
  <2>4. \E x \in {j} : Cardinality({y \in {j} : y < x}) = i - 1
    BY <2>3
  <2> QED
    BY <2>1, <2>4 DEF Lowest
<1> QED
  BY <1>1, <1>4 DEF Rising

(* SplitAround, folded over one place. *)
LEMMA FoldOfOne ==
  ASSUME NEW base, NEW j, NEW ins, ins = [i \in 1 .. 1 |-> j]
  PROVE  FoldLeft(SplitAround, base, ins) = SplitAround(base, j)
<1> DEFINE S == 1 .. 1
           Is(f) == f = [s \in SUBSET S |->
                           IF s = {} THEN base
                           ELSE SplitAround(f[s \ {Max(s)}], ins[Max(s)])]
           g == [s \in SUBSET S |-> IF s = {} THEN base ELSE SplitAround(base, j)]
<1>1. S = {1} /\ DOMAIN ins = S /\ ins[1] = j
  OBVIOUS
<1>2. \A s \in SUBSET S : s = {} \/ s = {1}
  BY <1>1
<1>3. Max({1}) = 1
  <2>1. {1} \in SUBSET Nat /\ 1 \in {1} /\ \A k \in {1} : k <= 1
    OBVIOUS
  <2> QED
    BY <2>1, GreatestIs
<1>4. {1} \ {1} = {} /\ {} \in SUBSET S /\ {1} \in SUBSET S
  BY <1>1
<1> HIDE DEF S
<1>5. g[{}] = base /\ g[{1}] = SplitAround(base, j)
  BY <1>4
<1>6. ASSUME NEW s \in SUBSET S
      PROVE  g[s] = IF s = {} THEN base ELSE SplitAround(g[s \ {Max(s)}], ins[Max(s)])
  <2>1. CASE s = {}
    BY <1>5, <2>1
  <2>2. CASE s = {1}
    BY <1>1, <1>3, <1>4, <1>5, <2>2
  <2> QED
    BY <1>2, <2>1, <2>2
<1>7. Is(g)
  <2>1. g = [s \in SUBSET S |-> g[s]]
    OBVIOUS
  <2> HIDE DEF g
  <2> QED
    BY <1>6, <2>1
<1>8. ASSUME NEW f, Is(f) PROVE f[S] = SplitAround(base, j)
  <2>1. f[{}] = base
    BY <1>4, <1>8
  <2>2. f[{1}] = SplitAround(f[{1} \ {Max({1})}], ins[Max({1})])
    BY <1>4, <1>8
  <2> QED
    BY <1>1, <1>3, <1>4, <2>1, <2>2
<1>9. FoldLeft(SplitAround, base, ins) = (CHOOSE f : Is(f))[S]
  BY <1>1 DEF FoldLeft, MapThenFoldSet
<1> HIDE DEF Is, g
<1>10. Is(CHOOSE f : Is(f))
  BY <1>7
<1> QED
  BY <1>8, <1>9, <1>10

-----------------------------------------------------------------------------
(* SlottedIn with one newcomer, taken apart. *)

IsSlotted(d, c, e, j, repo) ==
  /\ d.rows = SlotRows(c.rows, j, NewRow(e.name, e.ts, repo))
  /\ d.versions = SplitAround(Moved(c.versions, j), j)

(* Slotting one newcomer in, by the place it belongs at. *)
LEMMA SlottedIs ==
  ASSUME NEW c, c.rows \in Seq(Row), InOrder(c.rows), NEW e, e.name \in Nat, e.ts = e.name,
         NEW j, Belongs(c.rows, e.name, j), NEW repo,
         \A v \in c.versions : v.first \in DOMAIN c.rows /\ v.last \in DOMAIN c.rows
  PROVE  IsSlotted(SlottedIn(c, repo, {e}), c, e, j, repo)
<1> DEFINE slots == {[ts |-> c.rows[s].ts, name |-> c.rows[s].name, old |-> s] :
                        s \in DOMAIN c.rows}
                     \cup {[ts |-> d.ts, name |-> d.name, old |-> 0] : d \in {e}}
           order == Ordered(slots, SlotBefore)
           NewSeq(s) == CHOOSE i \in DOMAIN order : order[i].old = s
           moved == {[v EXCEPT !.first = NewSeq(v.first), !.last = NewSeq(v.last)] :
                       v \in c.versions}
           inserted == Ordered({i \in DOMAIN order : order[i].old = 0}, LAMBDA a, b : a < b)
<1>1. /\ SlottedIn(c, repo, {e}).rows
           = [i \in DOMAIN order |->
                IF order[i].old = 0 THEN NewRow(order[i].name, order[i].ts, repo)
                ELSE [c.rows[order[i].old] EXCEPT !.expirable = NoMark]]
      /\ SlottedIn(c, repo, {e}).versions = FoldLeft(SplitAround, moved, inserted)
  BY DEF SlottedIn
<1>2. slots = Slots(c.rows, e)
  BY DEF Slots, Slot, Entrant
<1> HIDE DEF slots
<1>3. order = InPlace(c.rows, e, j)
  BY <1>2, OrderOfSlots
<1> HIDE DEF order
<1>4. PICK n \in Nat : n = Len(c.rows) /\ DOMAIN c.rows = 1 .. n
  BY RowsAre
<1>5. j \in 1 .. n + 1
  BY <1>4 DEF Belongs
<1>6. /\ DOMAIN order = 1 .. n + 1
      /\ order[j].old = 0 /\ order[j].name = e.name /\ order[j].ts = e.ts
      /\ \A i \in 1 .. n + 1 : i # j => order[i].old = Earlier(i, j)
  BY <1>3, <1>4, <1>5 DEF InPlace, Entrant, Slot
<1>7. /\ \A i \in 1 .. n + 1 : i # j => Earlier(i, j) \in 1 .. n /\ Earlier(i, j) # 0
                                        /\ Later(Earlier(i, j), j) = i
      /\ \A s \in 1 .. n : Later(s, j) \in 1 .. n + 1 /\ Later(s, j) # j /\ Earlier(Later(s, j), j) = s
                           /\ s # 0
  BY <1>5 DEF Later, Earlier
<1>8. ASSUME NEW s \in 1 .. n PROVE NewSeq(s) = Later(s, j)
  <2>1. Later(s, j) \in DOMAIN order /\ order[Later(s, j)].old = s
    BY <1>6, <1>7
  <2>2. ASSUME NEW i \in DOMAIN order, order[i].old = s PROVE i = Later(s, j)
    <3>1. i # j
      BY <1>6, <1>7, <2>2
    <3>2. s = Earlier(i, j)
      BY <1>6, <2>2, <3>1
    <3> QED
      BY <1>6, <1>7, <3>1, <3>2
  <2> QED
    BY <2>1, <2>2
<1>9. moved = Moved(c.versions, j)
  <2>1. \A v \in c.versions : NewSeq(v.first) = Later(v.first, j) /\ NewSeq(v.last) = Later(v.last, j)
    BY <1>4, <1>8
  <2> HIDE DEF NewSeq
  <2> QED
    BY <2>1 DEF Moved
<1>10. {i \in DOMAIN order : order[i].old = 0} = {j}
  BY <1>5, <1>6, <1>7
<1>11. inserted = [i \in 1 .. 1 |-> j]
  <2>1. inserted = Ordered({j}, LAMBDA a, b : a < b)
    BY <1>10
  <2>2. Ordered({j}, LAMBDA a, b : a < b) = Rising({j})
    BY OrderedIs
  <2>3. j \in Nat
    BY <1>5
  <2> QED
    BY <2>1, <2>2, <2>3, LowestOfOne
<1> HIDE DEF moved, inserted
<1>12. FoldLeft(SplitAround, moved, inserted) = SplitAround(moved, j)
  BY <1>11, FoldOfOne
<1>13. [i \in DOMAIN order |->
          IF order[i].old = 0 THEN NewRow(order[i].name, order[i].ts, repo)
          ELSE [c.rows[order[i].old] EXCEPT !.expirable = NoMark]]
        = SlotRows(c.rows, j, NewRow(e.name, e.ts, repo))
  <2>1. \A i \in 1 .. n + 1 :
          (IF order[i].old = 0 THEN NewRow(order[i].name, order[i].ts, repo)
           ELSE [c.rows[order[i].old] EXCEPT !.expirable = NoMark])
          = (IF i = j THEN NewRow(e.name, e.ts, repo)
             ELSE [c.rows[Earlier(i, j)] EXCEPT !.expirable = NoMark])
    BY <1>6, <1>7
  <2> QED
    BY <1>4, <1>6, <2>1 DEF SlotRows
<1> QED
  BY <1>1, <1>9, <1>12, <1>13 DEF IsSlotted

RowsAfter(then, rows, n, j) ==
  /\ then \in Seq(Row) /\ Len(then) = n + 1 /\ DOMAIN then = 1 .. n + 1 /\ DOMAIN rows = 1 .. n
  /\ \A i \in 1 .. n + 1 : i # j =>
       /\ Earlier(i, j) \in 1 .. n
       /\ then[i].name = rows[Earlier(i, j)].name
       /\ then[i].ts = rows[Earlier(i, j)].ts
       /\ then[i].repo = rows[Earlier(i, j)].repo
       /\ then[i].pending = rows[Earlier(i, j)].pending

(* The rows once one is put in at j. *)
LEMMA SlotRowsAre ==
  ASSUME NEW rows \in Seq(Row), NEW n \in Nat, n = Len(rows), NEW j \in 1 .. n + 1,
         NEW row \in Row
  PROVE  RowsAfter(SlotRows(rows, j, row), rows, n, j) /\ SlotRows(rows, j, row)[j] = row
<1>1. DOMAIN rows = 1 .. n /\ \A s \in 1 .. n : rows[s] \in Row
  BY RowsAre
<1>2. \A r \in Row : /\ [r EXCEPT !.expirable = NoMark] \in Row
                     /\ [r EXCEPT !.expirable = NoMark].name = r.name
                     /\ [r EXCEPT !.expirable = NoMark].ts = r.ts
                     /\ [r EXCEPT !.expirable = NoMark].repo = r.repo
                     /\ [r EXCEPT !.expirable = NoMark].pending = r.pending
  BY DEF Row, NoMark
<1>3. \A i \in 1 .. n + 1 : i # j => Earlier(i, j) \in 1 .. n
  BY DEF Earlier
<1>4. PICK then : then = SlotRows(rows, j, row)
  OBVIOUS
<1>5. /\ DOMAIN then = 1 .. n + 1 /\ then[j] = row
      /\ \A i \in 1 .. n + 1 : i # j => then[i] = [rows[Earlier(i, j)] EXCEPT !.expirable = NoMark]
      /\ then = [i \in 1 .. n + 1 |-> then[i]]
  BY <1>4 DEF SlotRows
<1> HIDE DEF Earlier
<1>6. ASSUME NEW i \in 1 .. n + 1, i # j
      PROVE  /\ then[i] \in Row
             /\ then[i].name = rows[Earlier(i, j)].name
             /\ then[i].ts = rows[Earlier(i, j)].ts
             /\ then[i].repo = rows[Earlier(i, j)].repo
             /\ then[i].pending = rows[Earlier(i, j)].pending
  <2>1. PICK r \in Row : r = rows[Earlier(i, j)]
    BY <1>1, <1>3, <1>6
  <2>2. then[i] = [r EXCEPT !.expirable = NoMark]
    BY <1>5, <1>6, <2>1
  <2> HIDE DEF Row
  <2> QED
    BY <1>2, <2>1, <2>2
<1>7. \A i \in 1 .. n + 1 : then[i] \in Row
  BY <1>5, <1>6
<1>8. then \in [1 .. n + 1 -> Row]
  BY <1>5, <1>7
<1>9. \A d \in Nat : \A f \in [1 .. d -> Row] : f \in Seq(Row) /\ Len(f) = d
  OBVIOUS
<1>10. n + 1 \in Nat
  OBVIOUS
<1>11. then \in Seq(Row) /\ Len(then) = n + 1
  BY <1>8, <1>9, <1>10
<1>12. RowsAfter(then, rows, n, j)
  BY <1>1, <1>3, <1>5, <1>6, <1>11 DEF RowsAfter
<1> QED
  BY <1>4, <1>5, <1>12

AreShifted(then, rows, what, j) == Held(then, what) = Shifted(Held(rows, what), j)

(* A pending row put in at j holds nothing, and the rest hold what they *)
(* held.                                                                *)
LEMMA HeldOnceSlotted ==
  ASSUME NEW rows \in Seq(Row), NEW n \in Nat, n = Len(rows), NEW j \in 1 .. n + 1,
         NEW row \in Row, row.pending, NEW what
  PROVE  AreShifted(SlotRows(rows, j, row), rows, what, j)
<1> DEFINE then == SlotRows(rows, j, row)
           H == Held(rows, what)
           G == Shifted(H, j)
<1>1. H \in Spreads(n) /\ DOMAIN rows = 1 .. n
  BY HeldIs, RowsAre
<1>2. /\ then \in Seq(Row) /\ Len(then) = n + 1 /\ DOMAIN then = 1 .. n + 1
      /\ then[j].pending
      /\ \A i \in 1 .. n + 1 : i # j =>
           /\ Earlier(i, j) \in 1 .. n
           /\ then[i].name = rows[Earlier(i, j)].name
           /\ then[i].pending = rows[Earlier(i, j)].pending
  <2>1. RowsAfter(then, rows, n, j) /\ then[j] = row
    BY SlotRowsAre
  <2> QED
    BY <2>1 DEF RowsAfter
<1>3. \A p \in Path, k \in Content : \A s : s \in H[p][k] <=> s \in 1 .. n /\ Holds(rows, what, s, p, k)
  BY <1>1, HeldIs
<1> HIDE DEF then
<1>4. Held(then, what) \in Spreads(n + 1)
  BY <1>2, HeldIs
<1>5. \A p \in Path, k \in Content : \A i :
        i \in Held(then, what)[p][k] <=> i \in 1 .. n + 1 /\ Holds(then, what, i, p, k)
  BY <1>2, HeldIs
<1> HIDE DEF H
<1>6. /\ G \in Spreads(n + 1)
      /\ \A p \in Path, k \in Content :
           /\ j \notin G[p][k]
           /\ \A i \in 1 .. n + 1 : i # j => (i \in G[p][k] <=> Earlier(i, j) \in H[p][k])
  BY <1>1, ShiftedIs
<1> HIDE DEF G
<1>7. n + 1 \in Nat
  OBVIOUS
<1>8. \A p \in Path, k \in Content : G[p][k] \in SUBSET (1 .. n + 1)
  BY <1>6, <1>7, TimelineIs
<1>9. ASSUME NEW p \in Path, NEW k \in Content, NEW i \in 1 .. n + 1
      PROVE  i \in Held(then, what)[p][k] <=> i \in G[p][k]
  <2>1. CASE i = j
    BY <1>2, <1>5, <1>6, <2>1 DEF Holds
  <2>2. CASE i # j
    <3>1. Earlier(i, j) \in 1 .. n /\ (Holds(then, what, i, p, k) <=> Holds(rows, what, Earlier(i, j), p, k))
      BY <1>2, <2>2 DEF Holds
    <3> QED
      BY <1>3, <1>5, <1>6, <2>2, <3>1
  <2> QED
    BY <2>1, <2>2
<1>10. \A p \in Path, k \in Content : Held(then, what)[p][k] = G[p][k]
  BY <1>5, <1>8, <1>9
<1>11. Held(then, what) = G
  BY <1>4, <1>6, <1>7, <1>10, SpreadsEqual
<1> QED
  BY <1>11 DEF G, H, then, AreShifted

-----------------------------------------------------------------------------
(* Rows that are of archives that were made, in the order they were made in. *)

Fits(rows, all) ==
  /\ InOrder(rows)
  /\ \A s \in DOMAIN rows : rows[s].name \in DOMAIN all /\ rows[s].repo = all[rows[s].name].repo

Shows(all) == [n \in DOMAIN all |-> all[n].shows]

(* A catalogue of these archives that is what reading them in order gives. *)
IsCatalogue(c) == c = [rows |-> c.rows, versions |-> c.versions]
Sound(c, all) ==
  /\ IsCatalogue(c) /\ c.rows \in Seq(Row) /\ Fits(c.rows, all)
  /\ c.versions = Reference(c.rows, Shows(all))

(* A sound catalogue is a catalogue. *)
LEMMA SoundType ==
  ASSUME NEW c, NEW all, Sound(c, all)
  PROVE  c \in [rows: Seq(Row), versions: SUBSET Version]
<1>1. PICK rows, vs : rows \in Seq(Row) /\ rows = c.rows /\ vs = c.versions /\ vs = Reference(rows, Shows(all))
  BY DEF Sound
<1>2. vs \in SUBSET Version
  BY <1>1, ReferenceIs DEF Timeline
<1>3. c = [rows |-> rows, versions |-> vs]
  BY SMTT(30), <1>1 DEF Sound, IsCatalogue
<1> QED
  BY <1>1, <1>2, <1>3

(* The operations make catalogues of catalogues. *)
LEMMA CataloguesAre ==
  ASSUME NEW c, NEW s, NEW versions, NEW gone, NEW repo, NEW newcomers
  PROVE  /\ IsCatalogue(Browsable(c, s, versions)) /\ IsCatalogue(SlottedIn(c, repo, newcomers))
         /\ IsCatalogue(c) => IsCatalogue(Removed(c, gone))
<1>1. \A rows, vs : IsCatalogue([rows |-> rows, versions |-> vs])
  BY DEF IsCatalogue
<1> QED
  BY <1>1 DEF Browsable, SlottedIn, Removed

HoldsAlike(rows, what, then) == Held(rows, what) = Held(rows, then)

(* What is held depends on what the archives in a row show, and nothing else. *)
LEMMA HeldAlike ==
  ASSUME NEW rows \in Seq(Row), NEW what, NEW then,
         \A s \in DOMAIN rows : then[rows[s].name] = what[rows[s].name]
  PROVE  HoldsAlike(rows, what, then)
<1>1. \A s \in DOMAIN rows, p \in Path, k \in Content :
        Holds(rows, what, s, p, k) <=> Holds(rows, then, s, p, k)
  BY DEF Holds
<1>2. \A p \in Path, k \in Content :
        {s \in DOMAIN rows : Holds(rows, what, s, p, k)}
          = {s \in DOMAIN rows : Holds(rows, then, s, p, k)}
  BY <1>1
<1> QED
  BY <1>2 DEF Held, HoldsAlike

(* An archive nobody has catalogued changes nothing. *)
LEMMA SoundOnceMade ==
  ASSUME NEW c, NEW all \in Seq(Archive), NEW a \in Archive, Sound(c, all)
  PROVE  Sound(c, Append(all, a))
<1>1. PICK then : then = Append(all, a)
  OBVIOUS
<1>2. DOMAIN all \subseteq DOMAIN then /\ \A n \in DOMAIN all : then[n] = all[n]
  BY <1>1
<1>3. PICK rows \in Seq(Row) : rows = c.rows
  BY DEF Sound
<1>4. /\ \A s \in DOMAIN rows : rows[s].name \in DOMAIN all /\ rows[s].repo = all[rows[s].name].repo
      /\ InOrder(rows) /\ c.versions = Reference(rows, Shows(all)) /\ IsCatalogue(c)
  BY <1>3 DEF Sound, Fits
<1>5. Fits(rows, then)
  BY <1>2, <1>4 DEF Fits
<1>6. \A s \in DOMAIN rows : Shows(then)[rows[s].name] = Shows(all)[rows[s].name]
  BY <1>2, <1>4 DEF Shows
<1>7. HoldsAlike(rows, Shows(all), Shows(then))
  BY <1>6, HeldAlike
<1>8. Reference(rows, Shows(all)) = Reference(rows, Shows(then))
  BY <1>7, ReferenceIs DEF HoldsAlike
<1> QED
  BY <1>1, <1>3, <1>4, <1>5, <1>8 DEF Sound

(* Of the rows of c, d has those not at these places. *)
HasRest(d, c, gone) ==
  /\ \A i \in DOMAIN d.rows : \E s \in DOMAIN c.rows \ gone : d.rows[i] = c.rows[s]
  /\ \A s \in DOMAIN c.rows \ gone : \E i \in DOMAIN d.rows : d.rows[i] = c.rows[s]

(* Removing rows leaves what reading the rest in order gives *)
(* (remove_archives).                                        *)
THEOREM RemovedSound ==
  ASSUME NEW c, NEW all, Sound(c, all), NEW gone
  PROVE  Sound(Removed(c, gone), all) /\ HasRest(Removed(c, gone), c, gone)
<1>1. CASE gone = {}
  <2>1. Removed(c, gone) = c
    BY <1>1 DEF Removed
  <2>2. HasRest(c, c, gone)
    BY <1>1 DEF HasRest
  <2> QED
    BY <2>1, <2>2
<1>2. CASE gone # {}
  <2>1. PICK rows, K, left, then :
          /\ rows \in Seq(Row) /\ rows = c.rows /\ K = Kept(rows, gone) /\ left = Order(rows, gone)
          /\ then = Removed(c, gone).rows
    BY DEF Sound
  <2>2. PICK n \in Nat, m \in Nat : n = Len(rows) /\ m = Cardinality(K) /\ K \in SUBSET (1 .. n)
    BY <2>1, OrderIs
  <2>3. DOMAIN left = 1 .. m /\ \A i \in 1 .. m : left[i] \in K /\ Rank(K, left[i]) = i
    BY <2>1, <2>2, OrderIs
  <2>4. then \in Seq(Row) /\ DOMAIN then = 1 .. m
    BY <1>2, <2>1, <2>2, RemovedRows
  <2>5. \A i \in 1 .. m : then[i] = rows[left[i]]
    BY <1>2, <2>1, <2>2, RemovedRows
  <2>6. K = DOMAIN rows \ gone
    BY <2>1 DEF Kept
  <2>7. /\ \A s, t \in K : s < t <=> Rank(K, s) < Rank(K, t)
        /\ \A s, t \in K : Rank(K, s) = Rank(K, t) => s = t
        /\ \A s \in K : Rank(K, s) \in 1 .. m
    <3>1. \A s \in K : Rank(K, s) \in 1 .. m
      BY <2>2, RanksAre
    <3>2. \A s, t \in K : s < t <=> Rank(K, s) < Rank(K, t)
      BY <2>2, RanksAre
    <3>3. \A s, t \in K : Rank(K, s) = Rank(K, t) => s = t
      BY <2>2, RanksAre
    <3> QED
      BY <3>1, <3>2, <3>3
  <2>8. ASSUME NEW i \in 1 .. m, NEW k \in 1 .. m, i < k PROVE left[i] < left[k]
    <3>1. left[i] \in K /\ left[k] \in K /\ Rank(K, left[i]) < Rank(K, left[k])
      BY <2>3, <2>8
    <3> QED
      BY <2>7, <3>1
  <2>9. ASSUME NEW s \in K PROVE \E i \in 1 .. m : left[i] = s
    <3>1. PICK i \in 1 .. m : i = Rank(K, s)
      BY <2>7
    <3>2. left[i] \in K /\ Rank(K, left[i]) = Rank(K, s)
      BY <2>3, <3>1
    <3> QED
      BY <2>7, <3>2
  <2>10. Fits(rows, all) /\ c.versions = Reference(rows, Shows(all))
    BY <2>1 DEF Sound
  <2>11. /\ \A s \in K : /\ rows[s].name \in DOMAIN all /\ rows[s].repo = all[rows[s].name].repo
                         /\ rows[s].ts = rows[s].name
         /\ \A s, t \in K : s < t => rows[s].name < rows[t].name
    BY <2>6, <2>10 DEF Fits, InOrder
  <2>12. Fits(then, all)
    <3>1. \A i \in 1 .. m : /\ then[i].name \in DOMAIN all /\ then[i].repo = all[then[i].name].repo
                            /\ then[i].ts = then[i].name
      BY <2>3, <2>5, <2>11
    <3>2. \A i, k \in 1 .. m : i < k => then[i].name < then[k].name
      BY <2>3, <2>5, <2>8, <2>11
    <3> QED
      BY <2>4, <3>1, <3>2 DEF Fits, InOrder
  <2>13. HasRest(Removed(c, gone), c, gone)
    <3>1. PICK d : d = Removed(c, gone) /\ d.rows = then /\ c.rows = rows
      BY <2>1
    <3>2. \A i \in 1 .. m : left[i] \in K /\ then[i] = rows[left[i]]
      BY <2>3, <2>5
    <3>3. \A i \in DOMAIN then : \E s \in K : then[i] = rows[s]
      BY <2>4, <3>2
    <3>4. \A s \in K : \E i \in DOMAIN then : then[i] = rows[s]
      BY <2>4, <2>9, <3>2
    <3> QED
      BY <2>6, <3>1, <3>3, <3>4 DEF HasRest
  <2>14. Removed(c, gone).versions = Reference(then, Shows(all))
    BY <2>1, <2>10, RemovedIsReference
  <2> QED
    BY <2>1, <2>4, <2>12, <2>13, <2>14, CataloguesAre DEF Sound
<1> QED
  BY <1>1, <1>2

(* Of the rows of c, d has all, but for their marks, and one more that is pending. *)
HasOneMore(d, c, row) ==
  /\ \A i \in DOMAIN d.rows : d.rows[i] = row \/ \E s \in DOMAIN c.rows : d.rows[i].name = c.rows[s].name
  /\ \A s \in DOMAIN c.rows : \E i \in DOMAIN d.rows : d.rows[i].name = c.rows[s].name
  /\ \E i \in DOMAIN d.rows : d.rows[i] = row

(* Slotting a newcomer in leaves what reading in order gives *)
(* (sync_archives).                                          *)
LEMMA SlottedSound ==
  ASSUME NEW c, NEW all \in Seq(Archive), Sound(c, all), NEW e, NEW repo \in Repos,
         e.name \in DOMAIN all, e.ts = e.name, all[e.name].repo = repo,
         \A s \in DOMAIN c.rows : c.rows[s].name # e.name
  PROVE  /\ Sound(SlottedIn(c, repo, {e}), all)
         /\ HasOneMore(SlottedIn(c, repo, {e}), c, NewRow(e.name, e.ts, repo))
<1>1. PICK rows \in Seq(Row), n \in Nat : rows = c.rows /\ n = Len(rows) /\ DOMAIN rows = 1 .. n
  BY RowsAre DEF Sound
<1>2. InOrder(rows) /\ Fits(rows, all) /\ c.versions = Reference(rows, Shows(all))
  BY <1>1 DEF Sound, Fits
<1>3. PICK x \in Nat : x = e.name /\ x = e.ts /\ x \in DOMAIN all /\ all[x].repo = repo
  OBVIOUS
<1>4. PICK j \in 1 .. n + 1 : Belongs(rows, x, j)
  BY <1>1, <1>2, <1>3, SomewhereItBelongs
<1>5. PICK row \in Row : row = NewRow(e.name, e.ts, repo)
  BY <1>3 DEF NewRow, Row, NoMark
<1>6. row.pending /\ row.name = x /\ row.ts = x /\ row.repo = repo
  BY <1>3, <1>5 DEF NewRow
<1>7. PICK H \in Spreads(n) : H = Held(rows, Shows(all))
  BY <1>1, HeldIs
<1>8. c.versions = Timeline(H)
  BY <1>2, <1>7, ReferenceIs
<1>9. \A v \in Timeline(H) : v.first \in DOMAIN rows /\ v.last \in DOMAIN rows
  <2>1. SUFFICES ASSUME NEW v \in Timeline(H) PROVE v.first \in 1 .. n /\ v.last \in 1 .. n
    BY <1>1
  <2>2. /\ v.first \in Nat /\ v.last \in Nat
        /\ IsRun(H[v.path][v.content], v.first, v.last)
        /\ H[v.path][v.content] \in SUBSET (1 .. n)
    BY TimelineIs, VersionIs
  <2>3. H[v.path][v.content] \in SUBSET Nat
    BY <2>2
  <2> QED
    BY <2>2, <2>3, RunEnds
<1>10. PICK then, vs : then = SlottedIn(c, repo, {e}).rows /\ vs = SlottedIn(c, repo, {e}).versions
  OBVIOUS
<1>11. then = SlotRows(rows, j, row) /\ vs = SplitAround(Moved(Timeline(H), j), j)
  <2>1. c.rows \in Seq(Row) /\ InOrder(c.rows) /\ Belongs(c.rows, e.name, j) /\ e.name \in Nat
    BY <1>1, <1>2, <1>3, <1>4
  <2>2. \A v \in c.versions : v.first \in DOMAIN c.rows /\ v.last \in DOMAIN c.rows
    BY <1>1, <1>8, <1>9
  <2>3. IsSlotted(SlottedIn(c, repo, {e}), c, e, j, repo)
    BY <2>1, <2>2, SlottedIs
  <2> QED
    BY <1>1, <1>5, <1>8, <1>10, <2>3 DEF IsSlotted
<1>12. RowsAfter(then, rows, n, j) /\ then[j] = row
  BY <1>1, <1>11, SlotRowsAre
<1>13. vs = Timeline(Shifted(H, j))
  BY <1>11, MovedIs
<1>14. Held(then, Shows(all)) = Shifted(H, j)
  <2>1. AreShifted(SlotRows(rows, j, row), rows, Shows(all), j)
    BY <1>1, <1>6, HeldOnceSlotted
  <2> QED
    BY <1>7, <1>11, <2>1 DEF AreShifted
<1>15. then \in Seq(Row)
  BY <1>12 DEF RowsAfter
<1>16. vs = Reference(then, Shows(all))
  BY <1>13, <1>14, <1>15, ReferenceIs
<1>17. /\ DOMAIN then = 1 .. n + 1
       /\ \A i \in 1 .. n + 1 : i # j =>
            /\ Earlier(i, j) \in 1 .. n
            /\ then[i].name = rows[Earlier(i, j)].name
            /\ then[i].ts = rows[Earlier(i, j)].ts
            /\ then[i].repo = rows[Earlier(i, j)].repo
  BY <1>12 DEF RowsAfter
<1>18. /\ \A s \in 1 .. n : /\ rows[s].name \in DOMAIN all /\ rows[s].repo = all[rows[s].name].repo
                            /\ rows[s].ts = rows[s].name
                            /\ rows[s].name # x /\ (rows[s].name < x <=> s < j)
       /\ \A s, t \in 1 .. n : s < t => rows[s].name < rows[t].name
  BY <1>1, <1>2, <1>4 DEF Fits, InOrder, Belongs
<1>19. Fits(then, all)
  <2>1. \A i \in 1 .. n + 1 : /\ then[i].name \in DOMAIN all /\ then[i].repo = all[then[i].name].repo
                              /\ then[i].ts = then[i].name
    <3>1. SUFFICES ASSUME NEW i \in 1 .. n + 1
                   PROVE  /\ then[i].name \in DOMAIN all /\ then[i].repo = all[then[i].name].repo
                          /\ then[i].ts = then[i].name
      OBVIOUS
    <3>2. CASE i = j
      BY <1>3, <1>6, <1>12, <3>2
    <3>3. CASE i # j
      BY <1>17, <1>18, <3>3
    <3> QED
      BY <3>2, <3>3
  <2>2. ASSUME NEW i \in 1 .. n + 1, NEW k \in 1 .. n + 1, i < k PROVE then[i].name < then[k].name
    <3>0. \A s \in 1 .. n : rows[s].name \in Nat
      BY SMTT(30), <1>18
    <3>1. CASE i = j
      <4>1. Earlier(k, j) \in 1 .. n /\ ~(Earlier(k, j) < j) /\ k # j
        BY <1>17, <2>2, <3>1 DEF Earlier
      <4>2. PICK y \in Nat : y = rows[Earlier(k, j)].name /\ y # x /\ ~(y < x)
        BY <1>18, <3>0, <4>1
      <4>3. x < y
        BY <4>2
      <4> QED
        BY <1>6, <1>12, <1>17, <3>1, <4>1, <4>2, <4>3
    <3>2. CASE k = j
      <4>1. Earlier(i, j) \in 1 .. n /\ Earlier(i, j) < j /\ i # j
        BY <1>17, <2>2, <3>2 DEF Earlier
      <4> QED
        BY <1>6, <1>12, <1>17, <1>18, <3>2, <4>1
    <3>3. CASE i # j /\ k # j
      <4>1. Earlier(i, j) \in 1 .. n /\ Earlier(k, j) \in 1 .. n /\ Earlier(i, j) < Earlier(k, j)
        BY <1>17, <2>2, <3>3 DEF Earlier
      <4> QED
        BY <1>17, <1>18, <3>3, <4>1
    <3> QED
      BY <3>1, <3>2, <3>3
  <2> QED
    BY <1>17, <2>1, <2>2 DEF Fits, InOrder
<1>20. HasOneMore(SlottedIn(c, repo, {e}), c, NewRow(e.name, e.ts, repo))
  <2>1. \A i \in 1 .. n + 1 : then[i] = row \/ \E s \in 1 .. n : then[i].name = rows[s].name
    BY <1>12, <1>17
  <2>2. \A s \in 1 .. n : Later(s, j) \in 1 .. n + 1 /\ Later(s, j) # j /\ Earlier(Later(s, j), j) = s
    BY DEF Later, Earlier
  <2>3. \A s \in 1 .. n : \E i \in 1 .. n + 1 : then[i].name = rows[s].name
    <3>1. ASSUME NEW s \in 1 .. n PROVE \E i \in 1 .. n + 1 : then[i].name = rows[s].name
      <4>1. PICK i \in 1 .. n + 1 : i # j /\ Earlier(i, j) = s
        BY <2>2
      <4>2. then[i].name = rows[s].name
        BY <1>17, <4>1
      <4> QED
        BY <4>2
    <3> QED
      BY <3>1
  <2>4. \E i \in 1 .. n + 1 : then[i] = row
    BY <1>12
  <2>5. PICK d : d = SlottedIn(c, repo, {e}) /\ d.rows = then /\ c.rows = rows
    BY <1>1, <1>10
  <2>6. DOMAIN then = 1 .. n + 1 /\ DOMAIN rows = 1 .. n
    BY <1>1, <1>17
  <2>8. \A i \in DOMAIN then : then[i] = row \/ \E s \in DOMAIN rows : then[i].name = rows[s].name
    BY <2>1, <2>6
  <2>9. \A s \in DOMAIN rows : \E i \in DOMAIN then : then[i].name = rows[s].name
    BY <2>3, <2>6
  <2>10. \E i \in DOMAIN then : then[i] = row
    BY <2>4, <2>6
  <2>7. HasOneMore(d, c, row)
    BY <2>5, <2>8, <2>9, <2>10, Zenon DEF HasOneMore
  <2> QED
    BY <1>5, <2>5, <2>7
<1> QED
  BY <1>10, <1>15, <1>16, <1>19, <1>20, CataloguesAre DEF Sound

-----------------------------------------------------------------------------
(* Each operation of the writer leaves such a catalogue such a catalogue. *)

HasRow(c, n) == \E s \in DOMAIN c.rows : c.rows[s].name = n

(* d is c with the archive at s read. *)
IsRead(d, c, s) ==
  /\ DOMAIN d.rows = DOMAIN c.rows
  /\ \A i \in DOMAIN c.rows : /\ d.rows[i].name = c.rows[i].name
                              /\ d.rows[i].repo = c.rows[i].repo
                              /\ d.rows[i].pending = (c.rows[i].pending /\ i # s)

SameRepos(then, all) ==
  DOMAIN then = DOMAIN all /\ \A n \in DOMAIN all : then[n].repo = all[n].repo

(* Reading a row leaves the rows in order. *)
LEMMA ReadFits ==
  ASSUME NEW rows \in Seq(Row), NEW s \in DOMAIN rows, NEW all, NEW then, Fits(rows, all),
         SameRepos(then, all)
  PROVE  Fits(Read(rows, s), then)
<1>1. PICK d : d = Read(rows, s)
  OBVIOUS
<1>2. DOMAIN d = DOMAIN rows /\ \A i \in DOMAIN rows : d[i].name = rows[i].name /\ d[i].ts = rows[i].ts /\ d[i].repo = rows[i].repo
  BY SMTT(30), <1>1, ReadIs
<1>3. InOrder(d)
  BY <1>2 DEF Fits, InOrder
<1>4. \A i \in DOMAIN d : d[i].name \in DOMAIN then /\ d[i].repo = then[d[i].name].repo
  BY <1>2 DEF Fits, SameRepos
<1> QED
  BY <1>1, <1>3, <1>4 DEF Fits

(* Reading a pending archive, wherever it is, gives what reading in order *)
(* gives (ingest_pending).                                                *)
THEOREM IngestedSound ==
  ASSUME NEW c, NEW all \in Seq(Archive), Sound(c, all), NEW s \in DOMAIN c.rows, c.rows[s].pending,
         NEW listing, listing = all[c.rows[s].name].shows
  PROVE  Sound(Ingested(c, s, listing), all) /\ IsRead(Ingested(c, s, listing), c, s)
<1>1. PICK rows, n : rows \in Seq(Row) /\ rows = c.rows /\ n = rows[s].name /\ n \in DOMAIN all
  BY DEF Sound, Fits
<1>2. listing = Shows(all)[n] /\ listing \in Listing
  <2>1. all[n] \in Archive
    BY <1>1
  <2>2. \A a \in Archive : a.shows \in Listing
    BY DEF Archive
  <2> QED
    BY <1>1, <2>1, <2>2 DEF Shows
<1>3. PICK d : d = Ingested(c, s, listing)
  OBVIOUS
<1>4. d.rows = Read(rows, s) /\ d.versions = Reference(d.rows, Shows(all))
  <2>1. c.rows \in Seq(Row) /\ c.versions = Reference(c.rows, Shows(all))
    BY DEF Sound
  <2> QED
    BY <1>1, <1>2, <1>3, <2>1, IngestedIsReference
<1>5. Fits(rows, all)
  BY <1>1 DEF Sound
<1>6. Fits(Read(rows, s), all)
  <2>1. SameRepos(all, all)
    BY DEF SameRepos
  <2> QED
    BY <1>1, <1>5, <2>1, ReadFits
<1>7. Read(rows, s) \in Seq(Row) /\ IsRead(d, c, s)
  BY SMTT(30), <1>1, <1>4, ReadIs DEF IsRead
<1>8. IsCatalogue(d)
  BY <1>3, CataloguesAre DEF Ingested
<1> QED
  BY <1>3, <1>4, <1>6, <1>7, <1>8 DEF Sound

(* So does reading one that lists a scope only (ingest_scoped). *)
THEOREM ScopedSound ==
  ASSUME NEW c, NEW all \in Seq(Archive), Sound(c, all), NEW s \in DOMAIN c.rows, c.rows[s].pending,
         NEW inside \in Listing, NEW scope \in SUBSET Path, DOMAIN inside \subseteq scope,
         NEW shows, shows = ScopedAt(c, s, inside, scope),
         NEW then, then = [all EXCEPT ![c.rows[s].name].shows = shows]
  PROVE  /\ Sound(ScopedIngested(c, s, inside, scope), then)
         /\ IsRead(ScopedIngested(c, s, inside, scope), c, s)
         /\ shows \in Listing
<1>1. PICK rows \in Seq(Row), n \in Nat :
        rows = c.rows /\ n = rows[s].name /\ n \in DOMAIN all /\ DOMAIN rows = 1 .. Len(rows)
  BY RowsAre DEF Sound, Fits
<1>2. Fits(rows, all) /\ c.versions = Reference(c.rows, Shows(all))
  BY <1>1 DEF Sound
<1>3. all[n] \in Archive
  BY <1>1
<1>4. /\ DOMAIN then = DOMAIN all /\ then[n].shows = shows
      /\ \A m \in DOMAIN all : then[m].repo = all[m].repo /\ (m # n => then[m] = all[m])
  <2>1. then = [all EXCEPT ![n] = [all[n] EXCEPT !.shows = shows]]
    BY <1>1
  <2>2. [all[n] EXCEPT !.shows = shows].shows = shows /\ [all[n] EXCEPT !.shows = shows].repo = all[n].repo
    BY <1>3 DEF Archive
  <2>3. \A m \in DOMAIN all : then[m] = IF m = n THEN [all[n] EXCEPT !.shows = shows] ELSE all[m]
    BY <2>1
  <2> QED
    BY <1>1, <2>1, <2>2, <2>3
<1>5. ASSUME NEW i \in DOMAIN rows, i # s PROVE rows[i].name \in DOMAIN all /\ rows[i].name # n
  <2>1. /\ \A a, b \in DOMAIN rows : a < b => rows[a].name < rows[b].name
        /\ rows[i].name \in DOMAIN all
    BY <1>2 DEF Fits, InOrder
  <2>2. i \in Nat /\ s \in Nat
    BY <1>1
  <2>3. i < s \/ s < i
    BY <1>5, <2>2
  <2>4. rows[i].name \in Nat
    BY <2>1
  <2>5. rows[i].name < n \/ n < rows[i].name
    BY <1>1, <2>1, <2>3
  <2> QED
    BY <1>1, <2>1, <2>4, <2>5
<1>6. Shows(then)[n] = shows /\ \A i \in DOMAIN rows : i # s => Shows(then)[rows[i].name] = Shows(all)[rows[i].name]
  BY <1>1, <1>4, <1>5 DEF Shows
<1>7. PICK d : d = ScopedIngested(c, s, inside, scope)
  OBVIOUS
<1>8. d.rows = Read(rows, s) /\ d.versions = Reference(d.rows, Shows(then)) /\ shows \in Listing
  <2>1. s \in 1 .. Len(c.rows) /\ c.rows \in Seq(Row)
    BY <1>1
  <2>2. Shows(then)[c.rows[s].name] = shows
    BY <1>1, <1>6
  <2>3. \A i \in DOMAIN c.rows : i # s => Shows(then)[c.rows[i].name] = Shows(all)[c.rows[i].name]
    BY <1>1, <1>6
  <2>4. DOMAIN inside \subseteq scope /\ shows = ScopedAt(c, s, inside, scope) /\ c.rows[s].pending
    BY SMTT(30)
  <2>5. PICK old, new : old = Shows(all) /\ new = Shows(then)
    BY SMTT(30)
  <2>6. IsScoped(d, c, s, new, shows)
    BY <1>2, <1>7, <2>1, <2>2, <2>3, <2>4, <2>5, ScopedIngestedIsReference
  <2> QED
    BY <1>1, <2>5, <2>6 DEF IsScoped
<1>9. Fits(Read(rows, s), then)
  <2>1. SameRepos(then, all)
    BY <1>4 DEF SameRepos
  <2>2. s \in DOMAIN rows
    BY <1>1
  <2> QED
    BY <1>2, <2>1, <2>2, ReadFits
<1>10. Read(rows, s) \in Seq(Row) /\ IsRead(d, c, s)
  BY SMTT(30), <1>1, <1>8, ReadIs DEF IsRead
<1>11. IsCatalogue(d)
  BY <1>7, CataloguesAre DEF ScopedIngested
<1> QED
  BY <1>7, <1>8, <1>9, <1>10, <1>11 DEF Sound

HasSame(H, G) == \A p \in Path, k \in Content : H[p][k] = G[p][k]

(* A pending row at the end changes nothing (append_pending). *)
LEMMA AppendedSound ==
  ASSUME NEW c, NEW all, Sound(c, all), NEW row \in Row, row.pending,
         row.name \in DOMAIN all, row.ts = row.name, row.repo = all[row.name].repo,
         \A s \in DOMAIN c.rows : c.rows[s].name < row.name
  PROVE  Sound(Appended(c, row), all) /\ Appended(c, row).rows = Append(c.rows, row)
<1>1. PICK rows \in Seq(Row), n \in Nat : rows = c.rows /\ n = Len(rows) /\ DOMAIN rows = 1 .. n
  BY RowsAre DEF Sound
<1>2. PICK then : then = Append(rows, row)
  OBVIOUS
<1>3. /\ then \in Seq(Row) /\ DOMAIN then = 1 .. n + 1 /\ Len(then) = n + 1 /\ then[n + 1] = row
      /\ \A i \in 1 .. n : then[i] = rows[i]
  BY <1>1, <1>2
<1>4. PICK H, G : H = Held(rows, Shows(all)) /\ G = Held(then, Shows(all))
  OBVIOUS
<1>5. \A i \in 1 .. n + 1 : i \in 1 .. n \/ i = n + 1
  OBVIOUS
<1>6. \A p \in Path, k \in Content : H[p][k] = G[p][k]
  <2>1. \A p \in Path, k \in Content : \A s : s \in H[p][k] <=> s \in 1 .. n /\ Holds(rows, Shows(all), s, p, k)
    BY <1>1, <1>4, HeldIs
  <2>2. \A p \in Path, k \in Content : \A s : s \in G[p][k] <=> s \in 1 .. n + 1 /\ Holds(then, Shows(all), s, p, k)
    BY <1>3, <1>4, HeldIs
  <2>3. \A p, k : ~Holds(then, Shows(all), n + 1, p, k)
    BY <1>3 DEF Holds
  <2>4. \A p, k : \A s \in 1 .. n : Holds(then, Shows(all), s, p, k) <=> Holds(rows, Shows(all), s, p, k)
    BY <1>3 DEF Holds
  <2>5. \A s \in 1 .. n : s \in 1 .. n + 1
    OBVIOUS
  <2>6. ASSUME NEW p \in Path, NEW k \in Content, NEW s PROVE s \in H[p][k] <=> s \in G[p][k]
    BY <1>5, <2>1, <2>2, <2>3, <2>4, <2>5
  <2> QED
    BY <2>6
<1>7. HasSame(H, G)
  BY <1>6 DEF HasSame
<1>8. Timeline(H) = Timeline(G)
  BY <1>7 DEF HasSame, Timeline, Version
<1>9. c.versions = Reference(then, Shows(all))
  <2>1. c.versions = Reference(rows, Shows(all))
    BY <1>1 DEF Sound
  <2> QED
    BY <1>3, <1>4, <1>8, <2>1, ReferenceIs
<1>10. Appended(c, row).rows = then /\ Appended(c, row).versions = c.versions /\ IsCatalogue(Appended(c, row))
  <2>1. Appended(c, row) = [c EXCEPT !.rows = Append(rows, row)]
    BY <1>1 DEF Appended
  <2>2. PICK vs : vs = c.versions /\ c = [rows |-> rows, versions |-> vs]
    BY <1>1 DEF Sound, IsCatalogue
  <2>3. Appended(c, row) = [rows |-> then, versions |-> vs]
    BY <1>2, <2>1, <2>2
  <2> QED
    BY <2>2, <2>3 DEF IsCatalogue
<1>11. Fits(then, all)
  <2>1. /\ \A s \in 1 .. n : /\ rows[s].name \in DOMAIN all /\ rows[s].repo = all[rows[s].name].repo
                             /\ rows[s].ts = rows[s].name /\ rows[s].name < row.name
        /\ \A s, t \in 1 .. n : s < t => rows[s].name < rows[t].name
    BY <1>1 DEF Sound, Fits, InOrder
  <2>2. \A i \in 1 .. n + 1 : then[i].name \in DOMAIN all /\ then[i].repo = all[then[i].name].repo /\ then[i].ts = then[i].name
    BY <1>3, <1>5, <2>1
  <2>3. \A i, k \in 1 .. n + 1 : i < k => i \in 1 .. n /\ (k \in 1 .. n \/ k = n + 1)
    OBVIOUS
  <2>4. \A i, k \in 1 .. n + 1 : i < k => then[i].name < then[k].name
    BY <1>3, <2>1, <2>3
  <2> QED
    BY <1>3, <2>2, <2>4 DEF Fits, InOrder
<1> QED
  BY <1>1, <1>2, <1>3, <1>9, <1>10, <1>11 DEF Sound

HoldsLike(then, rows, what) == Held(then, what) = Held(rows, what)

IsMarked(d, c) ==
  /\ DOMAIN d.rows = DOMAIN c.rows
  /\ \A i \in DOMAIN c.rows : /\ d.rows[i].name = c.rows[i].name
                              /\ d.rows[i].repo = c.rows[i].repo
                              /\ d.rows[i].pending = c.rows[i].pending

(* Marking rows as expirable changes nothing (mark_expirable). *)
LEMMA MarkedSound ==
  ASSUME NEW c, NEW all, Sound(c, all), NEW at \in Nat
  PROVE  Sound(MarkedExpirable(c, at), all) /\ IsMarked(MarkedExpirable(c, at), c)
<1>1. PICK rows \in Seq(Row), n \in Nat : rows = c.rows /\ n = Len(rows) /\ DOMAIN rows = 1 .. n
  BY RowsAre DEF Sound
<1>2. PICK then : then = [s \in DOMAIN rows |->
                            IF rows[s].repo \in LocalRepos /\ rows[s].expirable = NoMark
                            THEN [rows[s] EXCEPT !.expirable = at] ELSE rows[s]]
  OBVIOUS
<1>3. \A s \in 1 .. n : rows[s] \in Row
  BY <1>1, RowsAre
<1>4. \A r \in Row : LET m == [r EXCEPT !.expirable = at]
                    IN  m \in Row /\ m.name = r.name /\ m.ts = r.ts /\ m.repo = r.repo /\ m.pending = r.pending
  BY DEF Row
<1>5. /\ DOMAIN then = 1 .. n
      /\ \A s \in 1 .. n : /\ then[s] \in Row /\ then[s].name = rows[s].name /\ then[s].ts = rows[s].ts
                           /\ then[s].repo = rows[s].repo /\ then[s].pending = rows[s].pending
  <2> HIDE DEF Row
  <2> QED
    BY <1>1, <1>2, <1>3, <1>4
<1>6. then \in Seq(Row)
  <2>1. then \in [1 .. n -> Row]
    BY <1>1, <1>2, <1>5
  <2>2. \A d \in Nat : \A f \in [1 .. d -> Row] : f \in Seq(Row)
    OBVIOUS
  <2> QED
    BY <2>1, <2>2
<1>7. HoldsLike(then, rows, Shows(all))
  <2>1. \A s \in 1 .. n : \A p, k : Holds(then, Shows(all), s, p, k) <=> Holds(rows, Shows(all), s, p, k)
    BY <1>5 DEF Holds
  <2>2. \A p, k : {s \in 1 .. n : Holds(then, Shows(all), s, p, k)} = {s \in 1 .. n : Holds(rows, Shows(all), s, p, k)}
    BY <2>1
  <2> QED
    BY <1>1, <1>5, <2>2 DEF Held, HoldsLike
<1>8. c.versions = Reference(then, Shows(all))
  <2>1. c.versions = Reference(rows, Shows(all))
    BY <1>1 DEF Sound
  <2> QED
    BY <1>6, <1>7, <2>1, ReferenceIs DEF HoldsLike
<1>9. PICK d : d = MarkedExpirable(c, at)
  OBVIOUS
<1>10. d.rows = then /\ d.versions = c.versions /\ IsCatalogue(d)
  <2>1. PICK vs : vs = c.versions /\ c = [rows |-> rows, versions |-> vs]
    BY <1>1 DEF Sound, IsCatalogue
  <2>2. d = [c EXCEPT !.rows = then]
    BY <1>1, <1>2, <1>9 DEF MarkedExpirable
  <2>3. d = [rows |-> then, versions |-> vs]
    BY <2>1, <2>2
  <2> QED
    BY <2>1, <2>3 DEF IsCatalogue
<1>11. Fits(then, all)
  <2>1. Fits(rows, all)
    BY <1>1 DEF Sound
  <2> QED
    BY <1>1, <1>5, <2>1 DEF Fits, InOrder
<1>12. IsMarked(d, c)
  BY <1>1, <1>5, <1>10 DEF IsMarked
<1> QED
  BY <1>6, <1>8, <1>9, <1>10, <1>11, <1>12 DEF Sound

-----------------------------------------------------------------------------
(* sync_archives, with at most one archive that is in no row. *)

EntriesOf(all, there, repo) ==
  {[name |-> n, ts |-> all[n].ts] : n \in {m \in there : all[m].repo = repo}}

(* Of the archives there are in this store, at most one is in no row. *)
OneNew(c, all, there, repo) ==
  \A m, n \in there :
    all[m].repo = repo /\ all[n].repo = repo /\ ~HasRow(c, m) /\ ~HasRow(c, n) => m = n

KeepsThose(d, c, there) == \A n \in there : HasRow(c, n) => HasRow(d, n)

(* Making the rows of a store match its archives leaves what reading in *)
(* order gives.                                                         *)
THEOREM SyncedSound ==
  ASSUME NEW c, NEW all \in Seq(Archive), Sound(c, all), \A n \in DOMAIN all : all[n].ts = n,
         NEW there \in SUBSET (DOMAIN all), NEW repo \in Repos, OneNew(c, all, there, repo),
         NEW entries, entries = EntriesOf(all, there, repo)
  PROVE  Sound(Synced(c, repo, entries), all) /\ KeepsThose(Synced(c, repo, entries), c, there)
<1> DEFINE names == {e.name : e \in entries}
           gone == {s \in In(c, repo) : c.rows[s].name \notin names}
           tidy == Removed(c, gone)
           known == {tidy.rows[s].name : s \in In(tidy, repo)}
           newcomers == {e \in entries : e.name \notin known}
<1>1. Synced(c, repo, entries) = IF newcomers = {} \/ ~Anchored(tidy) THEN tidy
                                 ELSE SlottedIn(tidy, repo, newcomers)
  BY DEF Synced
<1>2. \A e \in entries : /\ e.name \in there /\ e.name \in DOMAIN all /\ all[e.name].repo = repo
                         /\ e.ts = e.name /\ e = [name |-> e.name, ts |-> e.name]
  <2>1. SUFFICES ASSUME NEW e \in entries
                 PROVE  /\ e.name \in there /\ e.name \in DOMAIN all /\ all[e.name].repo = repo
                        /\ e.ts = e.name /\ e = [name |-> e.name, ts |-> e.name]
    OBVIOUS
  <2>2. PICK n \in there : all[n].repo = repo /\ e = [name |-> n, ts |-> all[n].ts]
    BY DEF EntriesOf
  <2>3. n \in DOMAIN all /\ all[n].ts = n
    OBVIOUS
  <2> QED
    BY <2>2, <2>3
<1>3. \A n \in there : all[n].repo = repo => n \in names
  <2>1. SUFFICES ASSUME NEW n \in there, all[n].repo = repo PROVE n \in names
    OBVIOUS
  <2>2. PICK e \in entries : e = [name |-> n, ts |-> all[n].ts]
    BY <2>1 DEF EntriesOf
  <2>3. e.name = n
    BY <2>2
  <2> QED
    BY <2>3
<1>4. \A s \in DOMAIN c.rows : c.rows[s].name \in DOMAIN all /\ c.rows[s].repo = all[c.rows[s].name].repo
  BY DEF Sound, Fits
<1>5. \A s \in gone : s \in DOMAIN c.rows /\ c.rows[s].repo = repo /\ c.rows[s].name \notin names
  BY DEF In
<1> HIDE DEF names, gone
<1>6. Sound(tidy, all) /\ HasRest(tidy, c, gone)
  BY RemovedSound
<1>7. PICK t : t = tidy
  OBVIOUS
<1>8. /\ \A i \in DOMAIN t.rows : \E s \in DOMAIN c.rows \ gone : t.rows[i] = c.rows[s]
      /\ \A s \in DOMAIN c.rows \ gone : \E i \in DOMAIN t.rows : t.rows[i] = c.rows[s]
  BY <1>6, <1>7 DEF HasRest
<1>9. known = {t.rows[s].name : s \in In(t, repo)}
  BY <1>7
<1> HIDE DEF tidy
<1>10. ASSUME NEW n \in there, HasRow(c, n) PROVE HasRow(t, n)
  <2>1. PICK s \in DOMAIN c.rows : c.rows[s].name = n
    BY <1>10 DEF HasRow
  <2>2. s \notin gone
    BY <1>3, <1>4, <1>5, <2>1
  <2>3. PICK i \in DOMAIN t.rows : t.rows[i] = c.rows[s]
    BY <1>8, <2>2
  <2> QED
    BY <2>1, <2>3 DEF HasRow
<1>11. ASSUME NEW e \in newcomers PROVE ~HasRow(c, e.name)
  <2>1. SUFFICES ASSUME NEW s \in DOMAIN c.rows, c.rows[s].name = e.name PROVE FALSE
    BY DEF HasRow
  <2>2. e \in entries /\ e.name \notin known
    OBVIOUS
  <2>3. s \notin gone /\ c.rows[s].repo = repo
    BY <1>2, <1>3, <1>4, <1>5, <2>1, <2>2
  <2>4. PICK i \in DOMAIN t.rows : t.rows[i] = c.rows[s]
    BY <1>8, <2>3
  <2>5. i \in In(t, repo) /\ t.rows[i].name = e.name
    BY <2>1, <2>3, <2>4 DEF In
  <2> QED
    BY <1>9, <2>2, <2>5
<1>12. KeepsThose(t, c, there)
  BY <1>10 DEF KeepsThose
<1>13. CASE newcomers = {} \/ ~Anchored(t)
  BY <1>1, <1>6, <1>7, <1>12, <1>13
<1>14. ASSUME NEW e \in newcomers PROVE newcomers = {e}
  <2>1. ASSUME NEW f \in newcomers PROVE f = e
    <3>1. e \in entries /\ f \in entries /\ ~HasRow(c, e.name) /\ ~HasRow(c, f.name)
      BY <1>11, <2>1
    <3>2. e.name = f.name
      BY <1>2, <3>1 DEF OneNew
    <3> QED
      BY <1>2, <3>1, <3>2
  <2> QED
    BY <1>14, <2>1
<1>15. CASE newcomers # {} /\ Anchored(t)
  <2>1. PICK e : e \in newcomers /\ newcomers = {e}
    BY <1>14, <1>15
  <2>2. e \in entries
    BY <2>1
  <2>3. Synced(c, repo, entries) = SlottedIn(t, repo, {e})
    BY <1>1, <1>7, <1>15, <2>1
  <2>4. \A i \in DOMAIN t.rows : t.rows[i].name # e.name
    <3>1. ~HasRow(c, e.name)
      BY <1>11, <2>1
    <3> QED
      BY <1>8, <3>1 DEF HasRow
  <2>5. /\ Sound(t, all) /\ e.name \in DOMAIN all /\ e.ts = e.name /\ all[e.name].repo = repo
    BY <1>2, <1>6, <1>7, <2>2
  <2>6. PICK d : d = SlottedIn(t, repo, {e})
    OBVIOUS
  <2>7. Sound(d, all) /\ HasOneMore(d, t, NewRow(e.name, e.ts, repo))
    BY <2>4, <2>5, <2>6, SlottedSound
  <2>8. \A n : HasRow(t, n) => HasRow(d, n)
    BY <2>7 DEF HasOneMore, HasRow
  <2>9. KeepsThose(d, c, there)
    BY <1>10, <2>8 DEF KeepsThose
  <2> QED
    BY <2>3, <2>6, <2>7, <2>9
<1> QED
  BY <1>7, <1>13, <1>15

-----------------------------------------------------------------------------
(* The inductive invariant.  It holds while the spool has taken nothing, with *)
(* one cataloguing job at most, a clock that does not step back, bookkeeping   *)
(* that jobs wait for and one archive at a time that is in no row.             *)

Orderly ==
  /\ Newcomers <= 1 /\ \A i, k \in Indexer : i = k
  /\ {"clock steps back", "catch-up overlaps"} \cap Circumstances = {}

(* Archives are dated by the order they were made in, and show what they list. *)
MadeFits(all) ==
  \A n \in DOMAIN all :
    /\ all[n].ts = n /\ all[n].repo # "spool"
    /\ all[n].repo \in {"primary", "fs-snapshot"} => all[n].shows = all[n].listing
    /\ all[n].repo = "snapper" => DOMAIN all[n].listing \subseteq SnapperScope

Awaited(c, s, n) == s \in DOMAIN c.rows /\ c.rows[s].name = n /\ c.rows[s].pending
Archived(j, all, repo) == j.name \in DOMAIN all /\ all[j.name].repo = repo

(* What the job carries from one lock region to the next is still so. *)
JobFits(j, c, all) ==
  /\ j.step \in {"append", "ingest", "prune", "reconcile"} => j.kind = "Backup"
  /\ j.kind = "Backup" => Archived(j, all, "primary")
  /\ j.kind = "Snapshot" => Archived(j, all, "fs-snapshot")
  /\ j.kind = "Snapper" => /\ j.step = "walk" /\ Archived(j, all, "snapper")
                           /\ \E s \in DOMAIN c.rows : Awaited(c, s, j.name)
  /\ j.step = "append" \/ (j.kind = "Snapshot" /\ j.step = "walk") =>
       \A s \in DOMAIN c.rows : c.rows[s].name < j.name
  /\ j.step = "ingest" => Awaited(c, j.seq, j.name)
  /\ j.kind = "Offline" => j.step \in {"room", "create"}
  /\ j.kind = "Snapshot" /\ j.step = "remove" => j.gone \subseteq In(c, "fs-snapshot")

(* A cataloguing job's list is of rows that wait, each in it once. *)
TodoFits(todo, c) ==
  /\ \A k \in DOMAIN todo : Awaited(c, todo[k].seq, todo[k].name)
  /\ \A k, l \in DOMAIN todo : todo[k].seq = todo[l].seq => k = l
IndexFits(x, c) == \A i \in Indexer : x[i].step = "ingest" => TodoFits(x[i].todo, c)

(* The bookkeeping's list is of snapshots, where they are. *)
CatchFits(u, c) ==
  /\ u.spooled = {} /\ u.step \in {"none", "read", "snapshots"}
  /\ u.step = "snapshots" => u.snapshots \subseteq In(c, "fs-snapshot")

Busy(x) == \E i \in Indexer : x[i].step # "none"
Owes(u) == u.owed > 0 \/ u.step # "none"

(* The job, the cataloguing jobs and the bookkeeping do not run together. *)
OneAtATime(j, x, u) == (j # NoJob => ~Busy(x) /\ ~Owes(u)) /\ (Busy(x) => ~Owes(u))

(* At most one archive that a sync_archives would slot in. *)
NotYet(n, c, all, j) ==
  /\ all[n].repo \in {"primary", "snapper"} /\ ~HasRow(c, n)
  /\ j.step = "append" => n # j.name
FewLeft(c, all, there, j) ==
  \A m, n \in there : NotYet(m, c, all, j) /\ NotYet(n, c, all, j) => m = n

Orders ==
  /\ TypeOK /\ MadeFits(made) /\ Sound(cat, made)
  /\ JobFits(job, cat, made) /\ IndexFits(index, cat) /\ CatchFits(catchUp, cat)
  /\ OneAtATime(job, index, catchUp) /\ FewLeft(cat, made, present, job)

-----------------------------------------------------------------------------
(* What an action leaves as it was. *)

(* No job carries nothing. *)
LEMMA NoJobFits ==
  ASSUME NEW c, NEW all
  PROVE  JobFits(NoJob, c, all) /\ NoJob \in Job /\ NoJob.step = "none" /\ NoJob.kind = "none"
<1>1. NoJob.step = "none" /\ NoJob.kind = "none"
  BY DEF NoJob
<1>2. JobFits(NoJob, c, all)
  BY <1>1 DEF JobFits
<1>3. Nothing \in Listing
  <2>1. Nothing \in [{} -> Content] /\ {} \in SUBSET Path
    BY DEF Nothing
  <2> QED
    BY <2>1 DEF Listing
<1>4. NoJob \in Job
  <2>1. 0 \in 0 .. MaxArchives /\ 0 \in Nat /\ {} \in SUBSET Nat
    BY CataloguingAssumption
  <2> QED
    BY <1>3, <2>1 DEF NoJob, Job
<1> QED
  BY <1>1, <1>2, <1>4

(* A job with another step is not at rest. *)
LEMMA AtWork ==
  ASSUME NEW j, j.step # "none" \/ j.kind # "none"
  PROVE  j # NoJob
BY NoJobFits

(* What a job carries stays so when archives are made. *)
LEMMA JobStays ==
  ASSUME NEW j, NEW c, NEW all, NEW then, JobFits(j, c, all),
         DOMAIN all \subseteq DOMAIN then, \A n \in DOMAIN all : then[n].repo = all[n].repo
  PROVE  JobFits(j, c, then)
BY DEF JobFits, Archived

(* Nobody has a list when no cataloguing job runs. *)
LEMMA IdleFits ==
  ASSUME NEW x, NEW c, ~Busy(x)
  PROVE  IndexFits(x, c)
BY DEF Busy, IndexFits

(* The bookkeeping has no list when nothing is owed. *)
LEMMA PaidFits ==
  ASSUME NEW u, NEW c, NEW d, CatchFits(u, c), ~Owes(u)
  PROVE  CatchFits(u, d)
BY DEF Owes, CatchFits

(* Anything goes with a job at rest, or when the others are. *)
LEMMA RestingAlone ==
  ASSUME NEW x, NEW u
  PROVE  /\ ~Busy(x) => OneAtATime(NoJob, x, u)
         /\ ~Owes(u) => OneAtATime(NoJob, x, u)
         /\ \A j : ~Busy(x) /\ ~Owes(u) => OneAtATime(j, x, u)
BY DEF OneAtATime

(* Of the archives that a sync_archives would slot in, none loses its row. *)
KeepsLate(d, c, all, there) ==
  \A n \in there : all[n].repo \in {"primary", "snapper"} /\ HasRow(c, n) => HasRow(d, n)

(* Nothing more is left out when no archive loses its row. *)
LEMMA FewerLeft ==
  ASSUME NEW c, NEW all, NEW there \in SUBSET (DOMAIN all), NEW j, FewLeft(c, all, there, j),
         NEW d, NEW then, NEW here \in SUBSET there, SameRepos(then, all),
         KeepsLate(d, c, all, there),
         NEW k, j.step = "append" => k = j \/ HasRow(d, j.name)
  PROVE  FewLeft(d, then, here, k)
<1>1. ASSUME NEW n \in here, NotYet(n, d, then, k) PROVE NotYet(n, c, all, j)
  <2>1. n \in there /\ all[n].repo = then[n].repo /\ then[n].repo \in {"primary", "snapper"} /\ ~HasRow(d, n)
    BY <1>1 DEF SameRepos, NotYet
  <2>2. ~HasRow(c, n)
    BY <2>1 DEF KeepsLate
  <2>3. j.step = "append" => n # j.name
    BY <1>1, <2>1 DEF NotYet
  <2> QED
    BY <2>1, <2>2, <2>3 DEF NotYet
<1> QED
  BY <1>1 DEF FewLeft

(* One archive at most is in no row. *)
LEMMA FewUnlisted ==
  ASSUME TypeOK, Orderly, Cardinality(Unlisted) <= Newcomers
  PROVE  \A m, n \in Unlisted : m = n
<1>1. PICK n \in Nat : n = Len(made) /\ present \in SUBSET (1 .. n)
  BY DEF TypeOK
<1>2. IsFiniteSet(Unlisted)
  <2>1. Unlisted \in SUBSET (1 .. n)
    BY <1>1 DEF Unlisted
  <2>2. IsFiniteSet(1 .. n)
    BY FS_Interval
  <2> QED
    BY <2>1, <2>2, FS_Subset
<1>3. Cardinality(Unlisted) \in Nat /\ Cardinality(Unlisted) <= 1
  <2>1. Newcomers \in Nat /\ Newcomers <= 1
    BY CataloguingAssumption DEF Orderly
  <2>2. Cardinality(Unlisted) \in Nat
    BY <1>2, FS_CardinalityType
  <2> QED
    BY <2>1, <2>2
<1>4. ASSUME NEW a \in Unlisted, NEW b \in Unlisted, a # b PROVE FALSE
  <2> DEFINE R == Unlisted \ {a}
  <2>1. IsFiniteSet(R) /\ Cardinality(R) = Cardinality(Unlisted) - 1
    BY <1>2, FS_RemoveElement
  <2>2. Cardinality(R) \in Nat
    BY <2>1, FS_CardinalityType
  <2>3. Cardinality(R) = 0
    BY <1>3, <2>1, <2>2
  <2>4. R = {}
    BY <2>1, <2>3, FS_EmptySet
  <2> QED
    BY <1>4, <2>4
<1> QED
  BY <1>4

-----------------------------------------------------------------------------
(* What the steps of each of the three have in common. *)

(* The invariant of the next state, from its parts. *)
LEMMA OrdersNext ==
  ASSUME made' \in Seq(Archive), Len(made') <= MaxArchives,
         present' \subseteq DOMAIN made', completed' \subseteq DOMAIN made',
         job' \in Job, index' \in [Indexer -> IndexJob], catchUp' \in CatchUp,
         MadeFits(made'), Sound(cat', made'), JobFits(job', cat', made'),
         IndexFits(index', cat'), CatchFits(catchUp', cat'),
         OneAtATime(job', index', catchUp'), FewLeft(cat', made', present', job')
  PROVE  Orders'
<1>1. cat' \in [rows: Seq(Row), versions: SUBSET Version]
  BY SoundType
<1>2. TypeOK'
  BY <1>1 DEF TypeOK
<1> QED
  BY <1>2 DEF Orders

(* The parts of the invariant. *)
LEMMA OrdersNow ==
  ASSUME Orders
  PROVE  /\ made \in Seq(Archive) /\ Len(made) <= MaxArchives
         /\ present \subseteq DOMAIN made /\ completed \subseteq DOMAIN made
         /\ job \in Job /\ index \in [Indexer -> IndexJob] /\ catchUp \in CatchUp
         /\ MadeFits(made) /\ Sound(cat, made) /\ JobFits(job, cat, made)
         /\ IndexFits(index, cat) /\ CatchFits(catchUp, cat)
         /\ OneAtATime(job, index, catchUp) /\ FewLeft(cat, made, present, job)
BY DEF Orders, TypeOK

(* A catalogue that does not change keeps its rows. *)
LEMMA KeepsItself ==
  ASSUME NEW c, NEW all, NEW there
  PROVE  SameRepos(all, all) /\ KeepsLate(c, c, all, there)
BY DEF SameRepos, KeepsLate

(* A step of the job that runs. *)
LEMMA JobGoesOn ==
  ASSUME Orders, job # NoJob, index' = index,
         catchUp' = catchUp \/ (job' = NoJob /\ catchUp' \in CatchUp /\ CatchFits(catchUp', cat')),
         completed' \subseteq DOMAIN made, present' \subseteq present,
         made' \in Seq(Archive), Len(made') <= MaxArchives, SameRepos(made', made), MadeFits(made'),
         Sound(cat', made'), KeepsLate(cat', cat, made, present),
         job' \in Job, JobFits(job', cat', made'), job.step = "append" => HasRow(cat', job.name)
  PROVE  Orders'
<1>1. /\ DOMAIN made' = DOMAIN made /\ present \subseteq DOMAIN made
      /\ index' \in [Indexer -> IndexJob] /\ catchUp' \in CatchUp
  BY OrdersNow DEF SameRepos
<1>2. ~Busy(index') /\ ~Owes(catchUp)
  BY OrdersNow DEF OneAtATime
<1>3. IndexFits(index', cat') /\ CatchFits(catchUp', cat')
  BY <1>2, OrdersNow, IdleFits, PaidFits
<1>4. OneAtATime(job', index', catchUp')
  BY <1>2, RestingAlone
<1>5. FewLeft(cat', made', present', job')
  BY <1>1, OrdersNow, FewerLeft
<1> QED
  BY <1>1, <1>3, <1>4, <1>5, OrdersNext

(* A step of the job that leaves the catalogue alone. *)
LEMMA JobMoves ==
  ASSUME Orders, job # NoJob, UNCHANGED <<cat, made, completed, index, catchUp>>,
         present' \subseteq present, job' \in Job, JobFits(job', cat, made), job.step # "append"
  PROVE  Orders'
<1>1. KeepsLate(cat', cat, made, present) /\ SameRepos(made', made)
  BY KeepsItself
<1> QED
  BY <1>1, OrdersNow, JobGoesOn

(* A step of the job that writes the catalogue. *)
LEMMA JobWrites ==
  ASSUME Orders, job # NoJob, UNCHANGED <<made, present, completed, index, catchUp>>,
         Sound(cat', made), KeepsLate(cat', cat, made, present),
         job' \in Job, JobFits(job', cat', made), job.step = "append" => HasRow(cat', job.name)
  PROVE  Orders'
<1>1. SameRepos(made', made)
  BY KeepsItself
<1> QED
  BY <1>1, OrdersNow, JobGoesOn

(* A step of a cataloguing job. *)
LEMMA IndexGoesOn ==
  ASSUME Orders, job = NoJob, ~Owes(catchUp), UNCHANGED <<made, present, completed, job, catchUp>>,
         Sound(cat', made), KeepsLate(cat', cat, made, present),
         index' \in [Indexer -> IndexJob], IndexFits(index', cat')
  PROVE  Orders'
<1>1. SameRepos(made', made) /\ present \subseteq DOMAIN made
  BY KeepsItself, OrdersNow
<1>2. CatchFits(catchUp', cat') /\ OneAtATime(job', index', catchUp')
  BY OrdersNow, PaidFits, RestingAlone
<1>3. JobFits(job', cat', made')
  BY NoJobFits
<1>4. FewLeft(cat', made', present', job')
  BY <1>1, OrdersNow, FewerLeft
<1> QED
  BY <1>2, <1>3, <1>4, OrdersNow, OrdersNext

(* A step of the bookkeeping. *)
LEMMA CatchUpGoesOn ==
  ASSUME Orders, Owes(catchUp), UNCHANGED <<made, completed, job, index>>,
         present' \subseteq present, Sound(cat', made), KeepsLate(cat', cat, made, present),
         catchUp' \in CatchUp, CatchFits(catchUp', cat')
  PROVE  Orders'
<1>1. SameRepos(made', made) /\ present \subseteq DOMAIN made
  BY KeepsItself, OrdersNow
<1>2. job = NoJob /\ ~Busy(index)
  BY OrdersNow DEF OneAtATime
<1>3. IndexFits(index', cat') /\ OneAtATime(job', index', catchUp')
  BY <1>2, OrdersNow, IdleFits, RestingAlone
<1>4. JobFits(job', cat', made')
  BY <1>2, NoJobFits
<1>5. FewLeft(cat', made', present', job')
  BY <1>1, OrdersNow, FewerLeft
<1> QED
  BY <1>3, <1>4, <1>5, OrdersNow, OrdersNext

(* A job that leaves what it made to whoever comes next. *)
LEMMA AllStop ==
  ASSUME Orders, Orderly, Cardinality(Unlisted) <= Newcomers, job' = NoJob,
         UNCHANGED <<cat, made, present, completed>>, index' \in [Indexer -> IndexJob],
         catchUp' \in CatchUp, IndexFits(index', cat), CatchFits(catchUp', cat),
         OneAtATime(NoJob, index', catchUp')
  PROVE  Orders'
<1>1. ASSUME NEW n \in present, NotYet(n, cat, made, NoJob) PROVE n \in Unlisted
  BY <1>1 DEF NotYet, HasRow, Unlisted, Names
<1>2. \A m, n \in Unlisted : m = n
  BY FewUnlisted DEF Orders
<1>3. FewLeft(cat, made, present, NoJob)
  BY <1>1, <1>2 DEF FewLeft
<1> QED
  BY <1>3, OrdersNow, NoJobFits, OrdersNext

(* A job starts only when none runs and nothing is owed. *)
LEMMA StartsAlone ==
  ASSUME Orderly, NEW kind, MayStart(kind)
  PROVE  /\ job = NoJob /\ ~Owes(catchUp)
         /\ MayStartAlone(kind) => ~Busy(index)
BY DEF Orderly, MayStart, MayStartAlone, Indexing, CatchingUp, May, Owes, Busy

(* A job that starts. *)
LEMMA JobStarts ==
  ASSUME Orders, Orderly, NEW kind, MayStartAlone(kind), UNCHANGED <<index, catchUp, completed>>,
         made' \in Seq(Archive), Len(made') <= MaxArchives, DOMAIN made \subseteq DOMAIN made',
         present' \subseteq DOMAIN made', MadeFits(made'), Sound(cat', made'),
         job' \in Job, JobFits(job', cat', made'), FewLeft(cat', made', present', job')
  PROVE  Orders'
<1>1. job = NoJob /\ ~Owes(catchUp) /\ ~Busy(index)
  BY StartsAlone DEF MayStartAlone
<1>2. IndexFits(index', cat') /\ CatchFits(catchUp', cat') /\ OneAtATime(job', index', catchUp')
  BY <1>1, OrdersNow, IdleFits, PaidFits, RestingAlone
<1>3. completed' \subseteq DOMAIN made'
  BY OrdersNow
<1> QED
  BY <1>2, <1>3, OrdersNow, OrdersNext

(* One more archive, the newest. *)
LEMMA OneMore ==
  ASSUME Orders, Orderly, NEW repo \in Repos \ {"spool"}, NEW ts \in Timestamps, NEW files \in Listing,
         repo = "snapper" => DOMAIN files \subseteq SnapperScope, Makes(repo, ts, files, files)
  PROVE  /\ made' \in Seq(Archive) /\ Len(made') <= MaxArchives /\ DOMAIN made \subseteq DOMAIN made'
         /\ present' \subseteq DOMAIN made' /\ MadeFits(made') /\ Sound(cat, made')
         /\ \A n \in DOMAIN made : made'[n] = made[n]
         /\ NextName \in DOMAIN made' /\ NextName \in 1 .. MaxArchives /\ made'[NextName].repo = repo
         /\ \A n \in DOMAIN made : n < NextName
<1>1. PICK n \in Nat : n = Len(made) /\ DOMAIN made = 1 .. n /\ NextName = n + 1 /\ n + 1 <= MaxArchives
  BY OrdersNow DEF Makes, NextName
<1>2. ts = n + 1
  BY <1>1 DEF Orderly, Timestamps, May
<1>3. PICK a : a = [repo |-> repo, ts |-> ts, listing |-> files, shows |-> files]
  OBVIOUS
<1>4. a \in Archive /\ a.repo = repo /\ a.ts = n + 1 /\ a.listing = files /\ a.shows = files
  BY <1>2, <1>3 DEF Archive
<1>5. made' = Append(made, a) /\ present' = present \cup {n + 1}
  BY <1>1, <1>3 DEF Makes
<1>6. made \in Seq(Archive) /\ MadeFits(made) /\ Sound(cat, made) /\ present \subseteq 1 .. n
  BY <1>1, OrdersNow
<1>7. /\ made' \in Seq(Archive) /\ Len(made') = n + 1 /\ DOMAIN made' = 1 .. n + 1 /\ made'[n + 1] = a
      /\ \A i \in 1 .. n : made'[i] = made[i]
  BY <1>1, <1>4, <1>5, <1>6
<1>8. \A i \in 1 .. n + 1 : i \in 1 .. n \/ i = n + 1
  OBVIOUS
<1>9. MadeFits(made')
  <2>1. repo # "spool" /\ (a.repo \in {"primary", "fs-snapshot"} => a.shows = a.listing)
    BY <1>4
  <2> QED
    BY <1>1, <1>4, <1>6, <1>7, <1>8, <2>1 DEF MadeFits
<1>10. Sound(cat, made')
  BY <1>4, <1>5, <1>6, SoundOnceMade
<1>11. n + 1 \in 1 .. MaxArchives /\ n + 1 \in 1 .. n + 1
  BY <1>1, CataloguingAssumption
<1>12. \A i \in 1 .. n : i < n + 1 /\ i \in 1 .. n + 1
  OBVIOUS
<1> QED
  BY <1>1, <1>4, <1>5, <1>6, <1>7, <1>9, <1>10, <1>11, <1>12

-----------------------------------------------------------------------------
(* The steps of a backup. *)

Kind == {"none", "Backup", "Offline", "Snapshot", "Snapper"}
Step == {"none", "room", "evict", "create", "append", "ingest", "prune", "reconcile",
         "walk", "expire", "remove"}

(* The fields of a job. *)
LEMMA JobsAre ==
  ASSUME NEW j \in Job
  PROVE  /\ j.kind \in Kind /\ j.step \in Step /\ j.name \in 0 .. MaxArchives /\ j.seq \in Nat
         /\ j.gone \in SUBSET Nat /\ j.listing \in Listing /\ j.shows \in Listing
         /\ j = [kind |-> j.kind, step |-> j.step, name |-> j.name, seq |-> j.seq, gone |-> j.gone,
                 listing |-> j.listing, shows |-> j.shows]
BY DEF Job, Kind, Step

NewJob(kind, step, name) == [NoJob EXCEPT !.kind = kind, !.step = step, !.name = name]

(* A job that has just started. *)
LEMMA NewJobIs ==
  ASSUME NEW kind \in Kind, NEW step \in Step, NEW name \in 0 .. MaxArchives
  PROVE  /\ NewJob(kind, step, name) \in Job /\ NewJob(kind, step, name).kind = kind
         /\ NewJob(kind, step, name).step = step /\ NewJob(kind, step, name).name = name
<1>1. NoJob \in Job
  BY NoJobFits
<1>2. \A k \in Job : LET m == [k EXCEPT !.kind = kind, !.step = step, !.name = name]
                    IN  m \in Job /\ m.kind = kind /\ m.step = step /\ m.name = name
  BY DEF Job, Kind, Step
<1> QED
  BY <1>1, <1>2 DEF NewJob

(* A job at another step. *)
LEMMA StepIs ==
  ASSUME NEW j \in Job, NEW step \in Step, NEW k, k = [j EXCEPT !.step = step]
  PROVE  /\ k \in Job /\ k.step = step /\ k.kind = j.kind /\ k.name = j.name /\ k.seq = j.seq
         /\ k.gone = j.gone
BY DEF Job, Kind, Step

(* Borg writes an archive. *)
LEMMA BackupCreatesKeeps ==
  ASSUME Orders, Orderly, NEW files \in Listing, NEW ts \in Timestamps, BackupCreates(files, ts)
  PROVE  Orders'
<1>1. /\ MayStartAlone("Backup") /\ Makes("primary", ts, files, files)
      /\ job' = [NoJob EXCEPT !.kind = "Backup", !.step = "append", !.name = NextName]
      /\ UNCHANGED <<cat, completed, index, catchUp>>
  BY DEF BackupCreates
<1>2. /\ made' \in Seq(Archive) /\ Len(made') <= MaxArchives /\ DOMAIN made \subseteq DOMAIN made'
      /\ present' \subseteq DOMAIN made' /\ MadeFits(made') /\ Sound(cat, made')
      /\ \A n \in DOMAIN made : made'[n] = made[n]
      /\ NextName \in DOMAIN made' /\ NextName \in 1 .. MaxArchives /\ made'[NextName].repo = "primary"
      /\ \A n \in DOMAIN made : n < NextName
  <2>1. "primary" \in Repos \ {"spool"} /\ "primary" # "snapper"
    BY DEF Repos
  <2> QED
    BY <1>1, <2>1, OneMore
<1>3. NextName \in 0 .. MaxArchives
  BY <1>2, CataloguingAssumption
<1>4. job' \in Job /\ job'.kind = "Backup" /\ job'.step = "append" /\ job'.name = NextName
  <2>1. "Backup" \in Kind /\ "append" \in Step
    BY DEF Kind, Step
  <2>2. job' = NewJob("Backup", "append", NextName)
    BY <1>1 DEF NewJob
  <2> QED
    BY <1>3, <2>1, <2>2, NewJobIs
<1>5. JobFits(job', cat, made')
  <2>1. \A s \in DOMAIN cat.rows : cat.rows[s].name < NextName
    BY <1>2, OrdersNow DEF Sound, Fits
  <2>2. Archived(job', made', "primary")
    BY <1>2, <1>4 DEF Archived
  <2> QED
    BY <1>4, <2>1, <2>2, Zenon DEF JobFits
<1>6. FewLeft(cat, made', present', job')
  <2>1. job = NoJob /\ job.step = "none"
    BY <1>1, StartsAlone, NoJobFits DEF MayStartAlone
  <2>2. present' = present \cup {NextName}
    BY <1>1 DEF Makes
  <2>3. ASSUME NEW n \in present', NotYet(n, cat, made', job') PROVE n \in present /\ NotYet(n, cat, made, job)
    <3>1. n \in present
      BY <1>4, <2>2, <2>3 DEF NotYet
    <3> QED
      BY <1>2, <2>1, <2>3, <3>1, OrdersNow DEF NotYet
  <2> QED
    BY <2>3, OrdersNow DEF FewLeft
<1> QED
  BY <1>1, <1>2, <1>4, <1>5, <1>6, JobStarts

(* The row of an archive that was made. *)
LEMMA RowForIs ==
  ASSUME Orders, NEW n \in DOMAIN made
  PROVE  /\ RowFor(n) \in Row /\ RowFor(n).pending /\ RowFor(n).name = n
         /\ RowFor(n).ts = n /\ RowFor(n).repo = made[n].repo
<1>1. n \in Nat /\ made[n].ts = n /\ made[n].repo \in Repos
  <2>1. made[n] \in Archive /\ n \in Nat
    BY OrdersNow
  <2> QED
    BY <2>1, OrdersNow DEF MadeFits, Archive
<1> QED
  BY <1>1 DEF RowFor, NewRow, Row, NoMark

(* A row at the end for what the job has made. *)
LEMMA AppendsOne ==
  ASSUME Orders, NEW n \in DOMAIN made, \A s \in DOMAIN cat.rows : cat.rows[s].name < n,
         NEW d, d = Appended(cat, RowFor(n))
  PROVE  /\ Sound(d, made) /\ KeepsLate(d, cat, made, present) /\ HasRow(d, n)
         /\ Len(cat.rows) + 1 \in Nat /\ Awaited(d, Len(cat.rows) + 1, n)
         /\ d.rows = Append(cat.rows, RowFor(n))
<1>1. PICK row \in Row : /\ row = RowFor(n) /\ row.pending /\ row.name = n
                         /\ row.ts = n /\ row.repo = made[n].repo
  BY RowForIs
<1>2. PICK rows \in Seq(Row), k \in Nat : rows = cat.rows /\ k = Len(rows) /\ DOMAIN rows = 1 .. k
  BY RowsAre, OrdersNow DEF Sound
<1>3. Sound(d, made) /\ d.rows = Append(rows, row)
  <2>1. Sound(cat, made)
    BY OrdersNow
  <2> QED
    BY <1>1, <1>2, <2>1, AppendedSound
<1>4. DOMAIN d.rows = 1 .. k + 1 /\ d.rows[k + 1] = row /\ \A s \in 1 .. k : d.rows[s] = rows[s]
  BY <1>2, <1>3
<1>5. k + 1 \in 1 .. k + 1 /\ \A s \in 1 .. k : s \in 1 .. k + 1
  OBVIOUS
<1>6. Awaited(d, k + 1, n) /\ HasRow(d, n)
  BY <1>1, <1>4, <1>5 DEF Awaited, HasRow
<1>7. KeepsLate(d, cat, made, present)
  BY <1>2, <1>4, <1>5 DEF KeepsLate, HasRow
<1> QED
  BY <1>1, <1>2, <1>3, <1>6, <1>7

(* The archive gets its row. *)
LEMMA JobAppendsKeeps ==
  ASSUME Orders, JobAppends
  PROVE  Orders'
<1>1. /\ job.step = "append" /\ cat' = Appended(cat, RowFor(job.name))
      /\ job' = [job EXCEPT !.step = "ingest", !.seq = Len(cat.rows) + 1]
      /\ UNCHANGED <<made, present, completed, index, catchUp>>
  BY DEF JobAppends
<1>2. job.kind = "Backup" /\ Archived(job, made, "primary") /\ \A s \in DOMAIN cat.rows : cat.rows[s].name < job.name
  BY <1>1, OrdersNow DEF JobFits
<1>3. /\ Sound(cat', made) /\ KeepsLate(cat', cat, made, present) /\ HasRow(cat', job.name)
      /\ Len(cat.rows) + 1 \in Nat /\ Awaited(cat', Len(cat.rows) + 1, job.name)
  BY <1>1, <1>2, AppendsOne DEF Archived
<1>4. /\ job' \in Job /\ job'.kind = "Backup" /\ job'.step = "ingest" /\ job'.name = job.name
      /\ job'.seq = Len(cat.rows) + 1
  <2>1. \A j \in Job, s \in Nat : LET k == [j EXCEPT !.step = "ingest", !.seq = s]
          IN  k \in Job /\ k.kind = j.kind /\ k.step = "ingest" /\ k.name = j.name /\ k.seq = s
    BY DEF Job
  <2> QED
    BY ZenonT(60), <1>1, <1>2, <1>3, <2>1, OrdersNow
<1>5. JobFits(job', cat', made)
  BY <1>2, <1>3, <1>4, Zenon DEF JobFits, Archived
<1> QED
  BY <1>1, <1>3, <1>4, <1>5, AtWork, JobWrites

(* Reading takes no row out. *)
LEMMA ReadKeepsAll ==
  ASSUME NEW d, NEW c, NEW s, IsRead(d, c, s), NEW all, NEW there
  PROVE  KeepsLate(d, c, all, there) /\ \A n : HasRow(d, n) <=> HasRow(c, n)
BY DEF IsRead, KeepsLate, HasRow

(* The backup's own listing is read. *)
LEMMA BackupIngestsKeeps ==
  ASSUME Orders, BackupIngests
  PROVE  Orders'
<1>1. /\ job.kind = "Backup" /\ job.step = "ingest"
      /\ cat' = Ingested(cat, job.seq, made[job.name].listing)
      /\ job' = [job EXCEPT !.step = "prune"]
      /\ UNCHANGED <<made, present, completed, index, catchUp>>
  BY DEF BackupIngests, JobDoes
<1>2. Archived(job, made, "primary") /\ Awaited(cat, job.seq, job.name)
  BY <1>1, OrdersNow DEF JobFits
<1>3. made[job.name].listing = made[job.name].shows
  BY <1>2, OrdersNow DEF Archived, MadeFits
<1>4. Sound(cat', made) /\ IsRead(cat', cat, job.seq)
  <2>1. PICK s \in DOMAIN cat.rows : s = job.seq /\ cat.rows[s].name = job.name /\ cat.rows[s].pending
    BY <1>2 DEF Awaited
  <2>2. made \in Seq(Archive) /\ Sound(cat, made)
    BY OrdersNow
  <2> QED
    BY <1>1, <1>3, <2>1, <2>2, IngestedSound
<1>5. job' \in Job /\ job'.kind = "Backup" /\ job'.step = "prune" /\ job'.name = job.name
  BY <1>1, OrdersNow, StepIs DEF Step
<1>6. JobFits(job', cat', made)
  BY <1>2, <1>5, Zenon DEF JobFits, Archived
<1>7. KeepsLate(cat', cat, made, present)
  BY <1>4, ReadKeepsAll
<1> QED
  BY <1>1, <1>4, <1>5, <1>6, <1>7, AtWork, JobWrites

(* The listing does not finish. *)
LEMMA ListingFailsKeeps ==
  ASSUME Orders, ListingFails
  PROVE  Orders'
<1>1. /\ job.step = "ingest" /\ job.kind = "Backup" /\ job' = [job EXCEPT !.step = "prune"]
      /\ UNCHANGED <<cat, made, present, completed, index, catchUp>>
  BY OrdersNow DEF ListingFails, JobFits
<1>2. Archived(job, made, "primary")
  BY <1>1, OrdersNow DEF JobFits
<1>3. job' \in Job /\ job'.kind = "Backup" /\ job'.step = "prune" /\ job'.name = job.name
  BY <1>1, OrdersNow, StepIs DEF Step
<1>4. JobFits(job', cat, made)
  BY <1>2, <1>3, Zenon DEF JobFits, Archived
<1> QED
  BY <1>1, <1>3, <1>4, AtWork, JobMoves

(* An older backup is pruned. *)
LEMMA BackupPrunesKeeps ==
  ASSUME Orders, NEW n \in DOMAIN made, BackupPrunes(n)
  PROVE  Orders'
<1>1. /\ job.step = "prune" /\ job.kind = "Backup" /\ job' = [job EXCEPT !.step = "reconcile"]
      /\ present' \subseteq present
      /\ UNCHANGED <<cat, made, completed, index, catchUp>>
  BY DEF BackupPrunes, JobDoes
<1>2. Archived(job, made, "primary")
  BY <1>1, OrdersNow DEF JobFits
<1>3. job' \in Job /\ job'.kind = "Backup" /\ job'.step = "reconcile" /\ job'.name = job.name
  BY <1>1, OrdersNow, StepIs DEF Step
<1>4. JobFits(job', cat, made)
  BY <1>2, <1>3, Zenon DEF JobFits, Archived
<1> QED
  BY <1>1, <1>3, <1>4, AtWork, JobMoves

(* The rows of a store that may have one archive in no row, reconciled. *)
LEMMA SyncsOne ==
  ASSUME Orders, job.step # "append", NEW repo \in {"primary", "snapper"},
         NEW d, d = Synced(cat, repo, Entries(repo))
  PROVE  Sound(d, made) /\ KeepsLate(d, cat, made, present)
<1>1. Entries(repo) = EntriesOf(made, present, repo)
  BY DEF Entries, EntriesOf
<1>2. OneNew(cat, made, present, repo)
  <2>1. ASSUME NEW m \in present, NEW n \in present, made[m].repo = repo, made[n].repo = repo,
               ~HasRow(cat, m), ~HasRow(cat, n)
        PROVE  m = n
    <3>1. NotYet(m, cat, made, job) /\ NotYet(n, cat, made, job)
      BY <2>1 DEF NotYet
    <3> QED
      BY <3>1, OrdersNow DEF FewLeft
  <2> QED
    BY <2>1 DEF OneNew
<1>3. repo \in Repos /\ \A n \in DOMAIN made : made[n].ts = n
  BY OrdersNow DEF Repos, MadeFits
<1>4. made \in Seq(Archive) /\ Sound(cat, made) /\ present \in SUBSET (DOMAIN made)
  BY OrdersNow
<1>5. Sound(d, made) /\ KeepsThose(d, cat, present)
  BY <1>1, <1>2, <1>3, <1>4, SyncedSound
<1> QED
  BY <1>5 DEF KeepsThose, KeepsLate

(* One more backup to keep the books for. *)
LEMMA OwesOne ==
  ASSUME NEW u \in CatchUp, NEW c, CatchFits(u, c), ~Owes(u), NEW d,
         NEW v, v = [u EXCEPT !.owed = @ + 1]
  PROVE  v \in CatchUp /\ CatchFits(v, d)
<1>1. v \in CatchUp /\ v.step = u.step /\ v.spooled = u.spooled
  BY DEF CatchUp
<1>2. u.step = "none" /\ u.spooled = {}
  BY DEF CatchFits, Owes
<1> QED
  BY <1>1, <1>2, Zenon DEF CatchFits

(* A backup finishes. *)
LEMMA BackupFinishesKeeps ==
  ASSUME Orders, job.kind = "Backup", job.step \in {"prune", "reconcile"}, BackupFinishes,
         Sound(cat', made), KeepsLate(cat', cat, made, present)
  PROVE  Orders'
<1>1. /\ job' = NoJob /\ completed' = completed \cup {job.name}
      /\ catchUp' = [catchUp EXCEPT !.owed = @ + 1] /\ UNCHANGED <<made, present, index>>
  BY DEF BackupFinishes, JobEnds
<1>2. job # NoJob
  BY AtWork
<1>3. ~Owes(catchUp) /\ catchUp \in CatchUp /\ CatchFits(catchUp, cat)
  BY <1>2, OrdersNow DEF OneAtATime
<1>4. catchUp' \in CatchUp /\ CatchFits(catchUp', cat')
  BY <1>1, <1>3, OwesOne
<1>5. completed' \subseteq DOMAIN made
  BY <1>1, OrdersNow DEF JobFits, Archived
<1>6. job' \in Job /\ JobFits(job', cat', made)
  BY <1>1, NoJobFits
<1>7. SameRepos(made', made) /\ job.step # "append"
  BY <1>1, KeepsItself
<1> QED
  BY <1>1, <1>2, <1>4, <1>5, <1>6, <1>7, OrdersNow, JobGoesOn

(* A backup finishes, with or without reconciling. *)
LEMMA BackupEndsKeeps ==
  ASSUME Orders, BackupReconciles \/ BackupSkipsReconcile
  PROVE  Orders'
<1>1. job.kind = "Backup" /\ job.step \in {"prune", "reconcile"} /\ BackupFinishes
  BY DEF BackupReconciles, BackupSkipsReconcile
<1>2. Sound(cat', made) /\ KeepsLate(cat', cat, made, present)
  <2>1. CASE BackupReconciles
    <3>1. cat' = Synced(cat, "primary", Entries("primary")) /\ job.step # "append"
      BY <1>1, <2>1 DEF BackupReconciles
    <3> QED
      BY <3>1, SyncsOne
  <2>2. CASE BackupSkipsReconcile
    <3>1. cat' = cat
      BY <2>2 DEF BackupSkipsReconcile
    <3> QED
      BY <3>1, OrdersNow, KeepsItself
  <2> QED
    BY <2>1, <2>2
<1> QED
  BY <1>1, <1>2, BackupFinishesKeeps

(* A job is cancelled. *)
LEMMA JobStopsKeeps ==
  ASSUME Orders, Orderly, JobStops
  PROVE  Orders'
<1>1. /\ job' = NoJob /\ Cardinality(Unlisted) <= Newcomers /\ job # NoJob
      /\ UNCHANGED <<cat, made, present, completed, index, catchUp>>
  BY AtWork DEF JobStops, JobEnds
<1>2. ~Busy(index) /\ ~Owes(catchUp)
  BY <1>1, OrdersNow DEF OneAtATime
<1>3. OneAtATime(NoJob, index', catchUp')
  BY <1>1, <1>2, RestingAlone
<1>4. /\ index' \in [Indexer -> IndexJob] /\ catchUp' \in CatchUp
      /\ IndexFits(index', cat) /\ CatchFits(catchUp', cat)
  BY <1>1, OrdersNow
<1> QED
  BY <1>1, <1>3, <1>4, AllStop

-----------------------------------------------------------------------------
(* The steps of a cataloguing job. *)

(* The rows are made to match the destination. *)
LEMMA IndexSyncsKeeps ==
  ASSUME Orders, Orderly, NEW i \in Indexer, IndexSyncs(i)
  PROVE  Orders'
<1>1. /\ MayStart("Index") /\ cat' = Synced(cat, "primary", Entries("primary"))
      /\ index' = [index EXCEPT ![i].step = "read"]
      /\ UNCHANGED <<made, present, completed, job, catchUp>>
  BY DEF IndexSyncs
<1>2. job = NoJob /\ ~Owes(catchUp) /\ job.step # "append"
  BY <1>1, StartsAlone, NoJobFits
<1>3. Sound(cat', made) /\ KeepsLate(cat', cat, made, present)
  BY <1>1, <1>2, SyncsOne
<1>4. index' \in [Indexer -> IndexJob] /\ index'[i].step = "read"
  <2>1. \A x \in IndexJob : [x EXCEPT !.step = "read"] \in IndexJob /\ [x EXCEPT !.step = "read"].step = "read"
    BY DEF IndexJob
  <2> QED
    BY <1>1, <2>1, OrdersNow
<1>5. IndexFits(index', cat')
  BY <1>4 DEF Orderly, IndexFits
<1> QED
  BY <1>1, <1>2, <1>3, <1>4, <1>5, IndexGoesOn

(* A cataloguing job at work is alone. *)
LEMMA IndexAlone ==
  ASSUME Orders, NEW i \in Indexer, index[i].step # "none"
  PROVE  job = NoJob /\ ~Owes(catchUp)
BY OrdersNow DEF OneAtATime, Busy

Awaiting == [seq: Nat, name: Nat]

(* The fields of a cataloguing job. *)
LEMMA IndexJobs ==
  ASSUME NEW x \in IndexJob
  PROVE  x.todo \in Seq(Awaiting) /\ x = [step |-> x.step, todo |-> x.todo]
BY DEF IndexJob, Awaiting

(* What waits, as the job lists it. *)
LEMMA PendingFits ==
  ASSUME NEW c, c.rows \in Seq(Row)
  PROVE  Pending(c) \in Seq(Awaiting) /\ TodoFits(Pending(c), c)
<1>1. PICK rows \in Seq(Row), n \in Nat :
        /\ rows = c.rows /\ n = Len(rows) /\ DOMAIN rows = 1 .. n
        /\ \A s \in 1 .. n : rows[s].name \in Nat
  <2>1. \A r \in Row : r.name \in Nat
    BY DEF Row
  <2> HIDE DEF Row
  <2> QED
    BY <2>1
<1>2. PICK K : K = {s \in DOMAIN rows : rows[s].pending /\ rows[s].repo # "snapper"}
  OBVIOUS
<1>3. K \in SUBSET (1 .. n) /\ \A s \in K : s \in DOMAIN rows /\ rows[s].pending
  BY <1>1, <1>2
<1>4. IsFiniteSet(K) /\ Cardinality(K) \in Nat
  <2>1. IsFiniteSet(1 .. n)
    BY FS_Interval
  <2> QED
    BY <1>3, <2>1, FS_Subset, FS_CardinalityType
<1>5. PICK m, seqs : m \in Nat /\ m = Cardinality(K) /\ seqs = Falling(K)
  BY <1>4
<1>6. /\ DOMAIN seqs = 1 .. m /\ \A k \in 1 .. m : seqs[k] \in K
      /\ \A k, l \in 1 .. m : seqs[k] = seqs[l] => k = l
  <2>1. K \in SUBSET (1 .. n)
    BY <1>3
  <2>2. /\ DOMAIN Falling(K) = 1 .. m /\ \A k \in 1 .. m : Falling(K)[k] \in K
        /\ \A k, l \in 1 .. m : Falling(K)[k] = Falling(K)[l] => k = l
    BY <1>5, <2>1, DescendingIs
  <2> QED
    BY <1>5, <2>2
<1>7. NewestFirst(K) = seqs
  BY <1>5, OrderedIs
<1>8. PICK todo : todo = Pending(c)
  BY SMTT(30)
<1>9. todo = [k \in 1 .. m |-> [seq |-> seqs[k], name |-> rows[seqs[k]].name]]
  BY <1>1, <1>2, <1>6, <1>7, <1>8 DEF Pending
<1>10. /\ DOMAIN todo = 1 .. m
       /\ \A k \in 1 .. m : /\ todo[k] \in Awaiting
                            /\ todo[k].seq = seqs[k] /\ todo[k].name = rows[seqs[k]].name
  <2>1. \A k \in 1 .. m : seqs[k] \in 1 .. n
    BY <1>3, <1>6
  <2>2. \A k \in 1 .. m : seqs[k] \in Nat /\ rows[seqs[k]].name \in Nat
    BY <1>1, <2>1
  <2> QED
    BY <1>9, <2>2 DEF Awaiting
<1>11. todo \in Seq(Awaiting)
  <2>1. todo \in [1 .. m -> Awaiting]
    BY <1>9, <1>10
  <2>2. \A d \in Nat : \A f \in [1 .. d -> Awaiting] : f \in Seq(Awaiting)
    OBVIOUS
  <2> QED
    BY <1>5, <2>1, <2>2
<1>12. \A k \in 1 .. m : Awaited(c, todo[k].seq, todo[k].name)
  BY <1>1, <1>3, <1>6, <1>10 DEF Awaited
<1> QED
  BY <1>6, <1>8, <1>10, <1>11, <1>12 DEF TodoFits

(* The list of the one cataloguing job there may be. *)
LEMMA OnlyOneReads ==
  ASSUME Orderly, NEW x \in [Indexer -> IndexJob], NEW i \in Indexer, NEW todo, NEW c,
         todo \in Seq(Awaiting), TodoFits(todo, c),
         NEW y, y = [x EXCEPT ![i] = [step |-> "ingest", todo |-> todo]]
  PROVE  y \in [Indexer -> IndexJob] /\ IndexFits(y, c)
<1>1. [step |-> "ingest", todo |-> todo] \in IndexJob
  <2>1. [step |-> "ingest", todo |-> todo] \in [step: {"none", "read", "ingest"}, todo: Seq(Awaiting)]
    OBVIOUS
  <2> QED
    BY <2>1 DEF IndexJob, Awaiting
<1>2. y \in [Indexer -> IndexJob] /\ y[i].todo = todo
  BY <1>1
<1>3. \A k \in Indexer : y[k].todo = todo
  BY <1>2 DEF Orderly
<1> QED
  BY <1>2, <1>3 DEF IndexFits

(* What waits is listed. *)
LEMMA IndexReadsKeeps ==
  ASSUME Orders, Orderly, NEW i \in Indexer, IndexReads(i)
  PROVE  Orders'
<1>1. /\ index[i].step = "read"
      /\ index' = [index EXCEPT ![i] = [step |-> "ingest", todo |-> Pending(cat)]]
      /\ UNCHANGED <<cat, made, present, completed, job, catchUp>>
  BY DEF IndexReads
<1>2. job = NoJob /\ ~Owes(catchUp)
  BY <1>1, IndexAlone
<1>3. Pending(cat) \in Seq(Awaiting) /\ TodoFits(Pending(cat), cat)
  BY OrdersNow, PendingFits DEF Sound
<1>4. index' \in [Indexer -> IndexJob] /\ IndexFits(index', cat)
  <2>1. PICK x, todo : x \in [Indexer -> IndexJob] /\ x = index /\ todo = Pending(cat)
    BY OrdersNow
  <2>2. index' = [x EXCEPT ![i] = [step |-> "ingest", todo |-> todo]]
    BY <1>1, <2>1
  <2>3. todo \in Seq(Awaiting) /\ TodoFits(todo, cat)
    BY <1>3, <2>1
  <2> QED
    BY <2>1, <2>2, <2>3, OnlyOneReads
<1>5. Sound(cat', made) /\ KeepsLate(cat', cat, made, present)
  BY <1>1, OrdersNow, KeepsItself
<1> QED
  BY <1>1, <1>2, <1>4, <1>5, IndexGoesOn

(* With the first off the list, the rest still wait, whether it was read or not. *)
LEMMA RestFits ==
  ASSUME NEW todo \in Seq(Awaiting), todo # <<>>, NEW c, NEW d, TodoFits(todo, c),
         d = c \/ IsRead(d, c, Head(todo).seq)
  PROVE  /\ Tail(todo) \in Seq(Awaiting) /\ TodoFits(Tail(todo), d)
         /\ Awaited(c, Head(todo).seq, Head(todo).name)
<1>0. PICK n \in Nat : n = Len(todo) /\ DOMAIN todo = 1 .. n
  OBVIOUS
<1>1. PICK rest : n = Len(todo) /\ DOMAIN todo = 1 .. n /\ rest = Tail(todo)
  BY <1>0
<1>2. /\ n >= 1 /\ Head(todo) = todo[1] /\ rest \in Seq(Awaiting) /\ Len(rest) = n - 1
      /\ DOMAIN rest = 1 .. n - 1 /\ \A k \in 1 .. n - 1 : rest[k] = todo[k + 1]
  BY <1>1
<1>3. 1 \in 1 .. n /\ \A k \in 1 .. n - 1 : k + 1 \in 1 .. n /\ k + 1 # 1
  BY <1>2
<1>4. \A k, l \in 1 .. n - 1 : k + 1 = l + 1 => k = l
  OBVIOUS
<1>5. /\ \A k \in 1 .. n : Awaited(c, todo[k].seq, todo[k].name)
      /\ \A k, l \in 1 .. n : todo[k].seq = todo[l].seq => k = l
  BY <1>1 DEF TodoFits
<1>6. \A k \in 1 .. n - 1 : Awaited(d, rest[k].seq, rest[k].name)
  <2>1. SUFFICES ASSUME NEW k \in 1 .. n - 1 PROVE Awaited(d, rest[k].seq, rest[k].name)
    OBVIOUS
  <2>2. Awaited(c, rest[k].seq, rest[k].name) /\ rest[k].seq # Head(todo).seq
    BY <1>2, <1>3, <1>5
  <2> QED
    BY <2>2 DEF Awaited, IsRead
<1>7. \A k, l \in 1 .. n - 1 : rest[k].seq = rest[l].seq => k = l
  BY SMTT(30), <1>2, <1>3, <1>4, <1>5
<1>8. TodoFits(rest, d)
  BY <1>2, <1>6, <1>7 DEF TodoFits
<1> QED
  BY <1>1, <1>2, <1>3, <1>5, <1>8

(* The first is off the list, read or not. *)
LEMMA IndexNext ==
  ASSUME Orders, Orderly, NEW i \in Indexer, index[i].step = "ingest", index[i].todo # <<>>,
         index' = [index EXCEPT ![i].todo = Tail(@)], NEW d,
         d = cat \/ IsRead(d, cat, Head(index[i].todo).seq)
  PROVE  /\ index' \in [Indexer -> IndexJob] /\ IndexFits(index', d)
         /\ Awaited(cat, Head(index[i].todo).seq, Head(index[i].todo).name)
<1>1. PICK todo \in Seq(Awaiting), x \in [Indexer -> IndexJob] :
        /\ todo = index[i].todo /\ x = index /\ x[i] = [step |-> "ingest", todo |-> todo]
  <2>1. index \in [Indexer -> IndexJob] /\ index[i] \in IndexJob
    BY OrdersNow
  <2>2. index[i].todo \in Seq(Awaiting) /\ index[i] = [step |-> "ingest", todo |-> index[i].todo]
    BY <2>1, IndexJobs
  <2> QED
    BY <2>1, <2>2
<1>2. TodoFits(todo, cat)
  BY <1>1, OrdersNow DEF IndexFits
<1>3. /\ Tail(todo) \in Seq(Awaiting) /\ TodoFits(Tail(todo), d)
      /\ Awaited(cat, Head(todo).seq, Head(todo).name)
  BY <1>1, <1>2, RestFits
<1>4. PICK rest : rest = Tail(todo)
  OBVIOUS
<1>5. index' = [x EXCEPT ![i] = [step |-> "ingest", todo |-> rest]]
  <2>1. index' = [x EXCEPT ![i] = [x[i] EXCEPT !.todo = rest]]
    BY <1>1, <1>4
  <2>2. [x[i] EXCEPT !.todo = rest] = [step |-> "ingest", todo |-> rest]
    BY SMTT(30), <1>1
  <2> QED
    BY <2>1, <2>2
<1>6. rest \in Seq(Awaiting) /\ TodoFits(rest, d)
  BY SMTT(30), <1>3, <1>4
<1>7. index' \in [Indexer -> IndexJob] /\ IndexFits(index', d)
  BY ZenonT(60), <1>5, <1>6, OnlyOneReads
<1> QED
  BY <1>1, <1>3, <1>7

(* The next archive is read. *)
LEMMA IndexIngestsKeeps ==
  ASSUME Orders, Orderly, NEW i \in Indexer, IndexIngests(i)
  PROVE  Orders'
<1>1. PICK next :
        /\ next = Head(index[i].todo) /\ index[i].step = "ingest" /\ index[i].todo # <<>>
        /\ Listable(next.name) /\ cat' = Ingested(cat, next.seq, made[next.name].listing)
        /\ index' = [index EXCEPT ![i].todo = Tail(@)]
        /\ UNCHANGED <<made, present, completed, job, catchUp>>
  BY SMTT(30) DEF IndexIngests
<1>2. Awaited(cat, next.seq, next.name)
  BY ZenonT(60), <1>1, IndexNext
<1>3. next.name \in DOMAIN made /\ made[next.name].listing = made[next.name].shows
  BY SMTT(30), <1>1, OrdersNow DEF Listable, MadeFits
<1>4. Sound(cat', made) /\ IsRead(cat', cat, next.seq)
  <2>1. PICK s \in DOMAIN cat.rows : s = next.seq /\ cat.rows[s].name = next.name /\ cat.rows[s].pending
    BY SMTT(30), <1>2 DEF Awaited
  <2>2. made \in Seq(Archive) /\ Sound(cat, made)
    BY SMTT(30), OrdersNow
  <2> QED
    BY SMTT(30), <1>1, <1>3, <2>1, <2>2, IngestedSound
<1>5. index' \in [Indexer -> IndexJob] /\ IndexFits(index', cat')
  BY <1>1, <1>4, IndexNext
<1>6. KeepsLate(cat', cat, made, present)
  BY <1>4, ReadKeepsAll
<1>7. job = NoJob /\ ~Owes(catchUp)
  BY <1>1, IndexAlone
<1> QED
  BY ZenonT(60), <1>1, <1>4, <1>5, <1>6, <1>7, IndexGoesOn

(* The next archive is passed over. *)
LEMMA IndexPassesOverKeeps ==
  ASSUME Orders, Orderly, NEW i \in Indexer, IndexPassesOver(i)
  PROVE  Orders'
<1>1. /\ index[i].step = "ingest" /\ index[i].todo # <<>>
      /\ index' = [index EXCEPT ![i].todo = Tail(@)]
      /\ UNCHANGED <<cat, made, present, completed, job, catchUp>>
  BY DEF IndexPassesOver
<1>2. index' \in [Indexer -> IndexJob] /\ IndexFits(index', cat')
  BY <1>1, IndexNext
<1>3. Sound(cat', made) /\ KeepsLate(cat', cat, made, present)
  BY <1>1, OrdersNow, KeepsItself
<1>4. job = NoJob /\ ~Owes(catchUp)
  BY <1>1, IndexAlone
<1> QED
  BY <1>1, <1>2, <1>3, <1>4, IndexGoesOn

(* A cataloguing job at rest. *)
LEMMA RestingIs == Resting \in IndexJob /\ Resting.step = "none"
BY DEF Resting, IndexJob

(* A cataloguing job ends. *)
LEMMA IndexEndsKeeps ==
  ASSUME Orders, Orderly, NEW i \in Indexer, IndexEnds(i)
  PROVE  Orders'
<1>1. /\ index[i].step = "ingest" /\ index' = [index EXCEPT ![i] = Resting]
      /\ UNCHANGED <<cat, made, present, completed, job, catchUp>>
  BY DEF IndexEnds
<1>2. index' \in [Indexer -> IndexJob] /\ index'[i].step = "none"
  BY <1>1, OrdersNow, RestingIs
<1>3. IndexFits(index', cat')
  BY <1>2 DEF Orderly, IndexFits
<1>4. Sound(cat', made) /\ KeepsLate(cat', cat, made, present)
  BY <1>1, OrdersNow, KeepsItself
<1>5. job = NoJob /\ ~Owes(catchUp)
  BY <1>1, IndexAlone
<1> QED
  BY <1>1, <1>2, <1>3, <1>4, <1>5, IndexGoesOn

-----------------------------------------------------------------------------
(* The steps of the bookkeeping. *)

(* What only this computer has is marked. *)
LEMMA CatchUpMarksKeeps ==
  ASSUME Orders, CatchUpMarks
  PROVE  Orders'
<1>1. /\ catchUp.owed > 0 /\ cat' = MarkedExpirable(cat, Now)
      /\ catchUp' = [catchUp EXCEPT !.step = "read", !.owed = @ - 1, !.at = Now]
      /\ UNCHANGED <<made, present, completed, job, index>>
  BY DEF CatchUpMarks
<1>2. Now \in Nat /\ Sound(cat, made)
  BY OrdersNow DEF Now
<1>3. Sound(cat', made) /\ IsMarked(cat', cat)
  BY <1>1, <1>2, MarkedSound
<1>4. KeepsLate(cat', cat, made, present)
  BY <1>3 DEF IsMarked, KeepsLate, HasRow
<1>5. catchUp' \in CatchUp /\ catchUp'.step = "read" /\ catchUp'.spooled = catchUp.spooled
  <2>1. catchUp.owed \in Nat /\ catchUp.owed - 1 \in Nat /\ catchUp \in CatchUp
    BY <1>1, OrdersNow DEF CatchUp
  <2>2. \A u \in CatchUp, k, t \in Nat : LET v == [u EXCEPT !.step = "read", !.owed = k, !.at = t]
          IN  v \in CatchUp /\ v.step = "read" /\ v.spooled = u.spooled
    BY DEF CatchUp
  <2> QED
    BY ZenonT(60), <1>1, <1>2, <2>1, <2>2
<1>6. CatchFits(catchUp', cat')
  BY <1>5, OrdersNow, Zenon DEF CatchFits
<1>7. Owes(catchUp)
  BY <1>1 DEF Owes
<1> QED
  BY <1>1, <1>3, <1>4, <1>5, <1>6, <1>7, CatchUpGoesOn

(* No row is of the spool. *)
LEMMA NoSpool ==
  ASSUME Orders
  PROVE  In(cat, "spool") = {}
BY OrdersNow DEF Sound, Fits, MadeFits, In

(* What has expired is read, and the snapshots deleted. *)
LEMMA CatchUpReadsKeeps ==
  ASSUME Orders, NEW month, NEW day, CatchUpReads(month, day)
  PROVE  Orders'
<1> DEFINE marked == {s \in DOMAIN cat.rows : cat.rows[s].expirable # NoMark}
           snapshots == {s \in marked \cap In(cat, "fs-snapshot") : cat.rows[s].ts <= day}
           spooled == {s \in marked \cap In(cat, "spool") : cat.rows[s].expirable <= month}
           names == NamesAt(spooled)
<1>0. /\ snapshots \subseteq In(cat, "fs-snapshot") /\ spooled \subseteq In(cat, "spool")
      /\ names = NamesAt(spooled)
  OBVIOUS
<1>1. /\ catchUp.step = "read"
      /\ catchUp' = [catchUp EXCEPT !.snapshots = snapshots, !.spooled = spooled,
                       !.names = names, !.at = 0, !.step = "snapshots"]
      /\ present' \subseteq present
      /\ UNCHANGED <<cat, made, completed, job, index>>
  BY DEF CatchUpReads
<1> HIDE DEF marked, snapshots, spooled, names
<1>2. spooled = {} /\ names = {}
  BY <1>0, NoSpool DEF NamesAt
<1>3. snapshots \in SUBSET Nat
  <2>1. cat.rows \in Seq(Row)
    BY OrdersNow DEF Sound
  <2>2. DOMAIN cat.rows \subseteq Nat
    BY <2>1
  <2> QED
    BY <1>0, <2>2 DEF In
<1>4. catchUp' \in CatchUp /\ catchUp'.step = "snapshots" /\ catchUp'.spooled = {} /\ catchUp'.snapshots = snapshots
  <2>1. PICK u \in CatchUp, S \in SUBSET Nat : u = catchUp /\ S = snapshots
    BY <1>3, OrdersNow
  <2>2. PICK v : v = [u EXCEPT !.snapshots = S, !.spooled = {}, !.names = {}, !.at = 0, !.step = "snapshots"]
    OBVIOUS
  <2>3. v \in CatchUp /\ v.step = "snapshots" /\ v.spooled = {} /\ v.snapshots = S
    BY <2>2 DEF CatchUp
  <2>4. catchUp' = v
    BY <1>1, <1>2, <2>1, <2>2
  <2> QED
    BY <2>1, <2>3, <2>4
<1>5. CatchFits(catchUp', cat')
  BY <1>0, <1>1, <1>4, Zenon DEF CatchFits
<1>6. Sound(cat', made) /\ KeepsLate(cat', cat, made, present) /\ Owes(catchUp)
  BY <1>1, OrdersNow, KeepsItself DEF Owes
<1> QED
  BY <1>1, <1>4, <1>5, <1>6, CatchUpGoesOn

(* Rows of filesystem snapshots leave, and no others. *)
LEMMA SnapshotsLeave ==
  ASSUME Orders, NEW gone, gone \subseteq In(cat, "fs-snapshot"), NEW d, d = Removed(cat, gone)
  PROVE  Sound(d, made) /\ KeepsLate(d, cat, made, present)
<1>1. Sound(cat, made)
  BY OrdersNow
<1>2. Sound(d, made) /\ HasRest(d, cat, gone)
  BY <1>1, RemovedSound
<1>3. ASSUME NEW n \in present, made[n].repo \in {"primary", "snapper"}, HasRow(cat, n) PROVE HasRow(d, n)
  <2>1. PICK s \in DOMAIN cat.rows : cat.rows[s].name = n
    BY <1>3 DEF HasRow
  <2>2. cat.rows[s].repo = made[n].repo
    BY <1>1, <2>1 DEF Sound, Fits
  <2>3. s \notin gone
    BY <1>3, <2>2 DEF In
  <2>4. PICK k \in DOMAIN d.rows : d.rows[k] = cat.rows[s]
    BY <1>2, <2>3 DEF HasRest
  <2> QED
    BY <2>1, <2>4 DEF HasRow
<1> QED
  BY <1>2, <1>3 DEF KeepsLate

(* The snapshots' rows are removed. *)
LEMMA CatchUpRemovesSnapshotsKeeps ==
  ASSUME Orders, CatchUpRemovesSnapshots
  PROVE  Orders'
<1>1. /\ catchUp.step = "snapshots" /\ cat' = Removed(cat, catchUp.snapshots)
      /\ catchUp' = [catchUp EXCEPT !.snapshots = {},
                       !.step = IF catchUp.spooled = {} THEN "none" ELSE "delete"]
      /\ UNCHANGED <<made, present, completed, job, index>>
  BY DEF CatchUpRemovesSnapshots
<1>2. catchUp.spooled = {} /\ catchUp.snapshots \subseteq In(cat, "fs-snapshot")
  BY <1>1, OrdersNow DEF CatchFits
<1>3. Sound(cat', made) /\ KeepsLate(cat', cat, made, present)
  BY <1>1, <1>2, SnapshotsLeave
<1>4. catchUp' \in CatchUp /\ catchUp'.step = "none" /\ catchUp'.spooled = {}
  <2>1. \A u \in CatchUp : LET v == [u EXCEPT !.snapshots = {}, !.step = "none"]
          IN  v \in CatchUp /\ v.step = "none" /\ v.spooled = u.spooled
    BY DEF CatchUp
  <2> QED
    BY <1>1, <1>2, <2>1, OrdersNow
<1>5. CatchFits(catchUp', cat') /\ Owes(catchUp)
  BY <1>1, <1>4, Zenon DEF CatchFits, Owes
<1> QED
  BY <1>1, <1>3, <1>4, <1>5, CatchUpGoesOn

(* Nothing of the spool has been read as expired. *)
LEMMA NothingSpooled ==
  ASSUME Orders
  PROVE  ~CatchUpDeletes /\ ~CatchUpRemovesSpooled
BY OrdersNow DEF CatchFits, CatchUpDeletes, CatchUpRemovesSpooled

-----------------------------------------------------------------------------
(* The steps of a job that fills the spool, as far as the first archive in it. *)

(* What the catalogue shows is a listing. *)
LEMMA ShownIsListing ==
  ASSUME Orders, NEW s \in Nat
  PROVE  Shown(cat, s) \in Listing
<1>1. PICK rows, n, H :
        /\ rows \in Seq(Row) /\ n \in Nat /\ rows = cat.rows /\ n = Len(rows) /\ H = Held(rows, Shows(made))
        /\ cat.versions = Reference(rows, Shows(made))
  BY OrdersNow DEF Sound
<1>2. H \in Spreads(n) /\ cat.versions = Timeline(H)
  BY <1>1, HeldIs, ReferenceIs
<1>3. \A p \in Path, k, l \in Content : s \in H[p][k] /\ s \in H[p][l] => k = l
  <2>1. \A p \in Path, k \in Content : s \in H[p][k] => Holds(rows, Shows(made), s, p, k)
    BY <1>1, HeldIs
  <2>2. \A p, k, l : Holds(rows, Shows(made), s, p, k) /\ Holds(rows, Shows(made), s, p, l) => k = l
    BY DEF Holds
  <2> QED
    BY <2>1, <2>2
<1> QED
  BY <1>1, <1>2, <1>3, ShownIs

(* Contents for some paths are a listing. *)
LEMMA IntoListing ==
  ASSUME NEW S \in SUBSET Path, NEW f, f \in [S -> Content]
  PROVE  f \in Listing
BY DEF Listing

(* The newest catalogued archive is at a seq, or there is none. *)
LEMMA LatestIsSeq ==
  ASSUME Orders
  PROVE  LatestCatalogued(cat) \in Nat
<1>1. PICK n \in Nat : DOMAIN cat.rows = 1 .. n
  BY RowsAre, OrdersNow DEF Sound
<1>2. PICK S : S = {0} \cup {s \in DOMAIN cat.rows : ~cat.rows[s].pending}
  OBVIOUS
<1>3. S \in SUBSET (0 .. n) /\ S # {}
  BY <1>1, <1>2
<1>4. PICK l : l = Max(S) /\ l \in S
  BY <1>3, GreatestOfSome
<1>5. l \in Nat
  BY <1>3, <1>4
<1> QED
  BY <1>2, <1>4, <1>5 DEF LatestCatalogued

(* What changed since the newest catalogued archive is worked out. *)
LEMMA OfflineDiffsKeeps ==
  ASSUME Orders, Orderly, NEW files \in Listing, OfflineDiffs(files)
  PROVE  Orders'
<1> DEFINE was == Shown(cat, LatestCatalogued(cat))
           paths == {p \in DOMAIN files : ~(p \in DOMAIN was /\ was[p] = files[p])}
           changed == [p \in paths |-> files[p]]
           then == [p \in paths \cup DOMAIN was |-> IF p \in paths THEN files[p] ELSE was[p]]
<1>1. /\ MayStartAlone("Offline")
      /\ job' = [NoJob EXCEPT !.kind = "Offline", !.step = "room", !.listing = changed, !.shows = then]
      /\ UNCHANGED <<cat, made, present, completed, index, catchUp>>
  BY DEF OfflineDiffs
<1>2. was \in Listing
  BY LatestIsSeq, ShownIsListing
<1>3. changed \in Listing /\ then \in Listing
  <2>1. /\ DOMAIN files \in SUBSET Path /\ \A p \in DOMAIN files : files[p] \in Content
        /\ DOMAIN was \in SUBSET Path /\ \A p \in DOMAIN was : was[p] \in Content
    BY <1>2, ListingIs
  <2> HIDE DEF was
  <2>2. paths \in SUBSET Path /\ paths \subseteq DOMAIN files
    BY <2>1
  <2>3. changed \in [paths -> Content] /\ then \in [paths \cup DOMAIN was -> Content]
    BY <2>1, <2>2
  <2>4. paths \cup DOMAIN was \in SUBSET Path
    BY <2>1, <2>2
  <2> HIDE DEF paths, changed, then
  <2> QED
    BY <2>2, <2>3, <2>4, IntoListing
<1> HIDE DEF was, paths, changed, then
<1>4. job' \in Job /\ job'.kind = "Offline" /\ job'.step = "room"
  <2>1. PICK a \in Listing, b \in Listing : a = changed /\ b = then
    BY <1>3
  <2>2. PICK k : k = [NoJob EXCEPT !.kind = "Offline", !.step = "room", !.listing = a, !.shows = b]
    OBVIOUS
  <2>3. k \in Job /\ k.kind = "Offline" /\ k.step = "room"
    <3>1. \A j \in Job : LET m == [j EXCEPT !.kind = "Offline", !.step = "room", !.listing = a, !.shows = b]
            IN  m \in Job /\ m.kind = "Offline" /\ m.step = "room"
      BY DEF Job
    <3> QED
      BY <2>2, <3>1, NoJobFits
  <2>4. job' = k
    BY <1>1, <2>1, <2>2
  <2> QED
    BY <2>3, <2>4
<1>5. JobFits(job', cat', made')
  BY <1>4, Zenon DEF JobFits
<1>6. job = NoJob /\ job.step # "append"
  BY <1>1, StartsAlone, NoJobFits DEF MayStartAlone
<1>7. FewLeft(cat', made', present', job')
  BY <1>1, <1>6, OrdersNow, KeepsItself, FewerLeft
<1> QED
  BY <1>1, <1>4, <1>5, <1>7, OrdersNow, JobStarts

(* There is room in an empty spool. *)
LEMMA OfflinePlansKeeps ==
  ASSUME Orders, NEW k, OfflinePlans(k)
  PROVE  Orders'
<1> DEFINE spool == In(cat, "spool")
           oldest == {s \in spool : Cardinality({r \in spool : r <= s}) <= k}
<1>1. /\ job.kind = "Offline" /\ job.step = "room" /\ k \in 0 .. Cardinality(spool)
      /\ job' = [job EXCEPT !.gone = oldest, !.step = IF k = 0 THEN "create" ELSE "evict"]
      /\ UNCHANGED <<cat, made, present, completed, index, catchUp>>
  BY DEF OfflinePlans, JobDoes
<1>2. spool = {} /\ oldest = {}
  BY NoSpool
<1>3. k = 0
  <2>1. Cardinality({}) = 0
    BY FS_EmptySet
  <2> QED
    BY <1>1, <1>2, <2>1
<1> HIDE DEF spool, oldest
<1>4. job' \in Job /\ job'.kind = "Offline" /\ job'.step = "create"
  <2>1. \A j \in Job : LET m == [j EXCEPT !.gone = {}, !.step = "create"]
          IN  m \in Job /\ m.kind = j.kind /\ m.step = "create"
    BY DEF Job
  <2>2. job' = [job EXCEPT !.gone = {}, !.step = "create"]
    BY <1>1, <1>2, <1>3
  <2> QED
    BY <1>1, <2>1, <2>2, OrdersNow
<1>5. JobFits(job', cat, made)
  BY <1>4, Zenon DEF JobFits
<1> QED
  BY <1>1, <1>4, <1>5, AtWork, JobMoves

(* What follows has an archive in the spool, or makes one. *)
LEMMA NothingInSpool ==
  ASSUME Orders
  PROVE  ~OfflineHolds /\ ~OfflineEvicts /\ ~OfflineRemoves /\ ~OfflineIngests
<1>1. ~OfflineHolds
  BY NoSpool DEF OfflineHolds
<1> QED
  BY <1>1, OrdersNow DEF JobFits, JobDoes, OfflineEvicts, OfflineRemoves, OfflineIngests

(* The spool takes an archive. *)
LEMMA OfflineCreatesDeltas ==
  ASSUME Orders, NEW ts, OfflineCreates(ts)
  PROVE  HasDeltas'
<1>1. PICK n, a : n \in Nat /\ n = Len(made) /\ a.repo = "spool" /\ made' = Append(made, a)
  <2>1. made' = Append(made, [repo |-> "spool", ts |-> ts, listing |-> job.listing, shows |-> job.shows])
    BY DEF OfflineCreates, Makes
  <2> QED
    BY <2>1, OrdersNow
<1>2. made \in Seq(Archive)
  BY OrdersNow
<1>3. made'[n + 1] = a /\ n + 1 \in DOMAIN made'
  BY <1>1, <1>2
<1> QED
  BY <1>1, <1>3 DEF HasDeltas

-----------------------------------------------------------------------------
(* The steps of a job that takes filesystem snapshots. *)

(* A filesystem snapshot is taken. *)
LEMMA SnapshotTakesKeeps ==
  ASSUME Orders, Orderly, NEW files \in Listing, NEW ts \in Timestamps, SnapshotTakes(files, ts)
  PROVE  Orders'
<1>1. /\ MayStartAlone("Snapshot") /\ Makes("fs-snapshot", ts, files, files)
      /\ job' = [NoJob EXCEPT !.kind = "Snapshot", !.step = "walk", !.name = NextName]
      /\ UNCHANGED <<cat, completed, index, catchUp>>
  BY DEF SnapshotTakes
<1>2. /\ made' \in Seq(Archive) /\ Len(made') <= MaxArchives /\ DOMAIN made \subseteq DOMAIN made'
      /\ present' \subseteq DOMAIN made' /\ MadeFits(made') /\ Sound(cat, made')
      /\ \A n \in DOMAIN made : made'[n] = made[n]
      /\ NextName \in DOMAIN made' /\ NextName \in 1 .. MaxArchives /\ made'[NextName].repo = "fs-snapshot"
      /\ \A n \in DOMAIN made : n < NextName
  <2>1. "fs-snapshot" \in Repos \ {"spool"} /\ "fs-snapshot" # "snapper"
    BY DEF Repos
  <2> QED
    BY <1>1, <2>1, OneMore
<1>3. NextName \in 0 .. MaxArchives
  BY <1>2, CataloguingAssumption
<1>4. job' \in Job /\ job'.kind = "Snapshot" /\ job'.step = "walk" /\ job'.name = NextName
  <2>1. "Snapshot" \in Kind /\ "walk" \in Step
    BY DEF Kind, Step
  <2>2. job' = NewJob("Snapshot", "walk", NextName)
    BY <1>1 DEF NewJob
  <2> QED
    BY <1>3, <2>1, <2>2, NewJobIs
<1>5. JobFits(job', cat, made')
  <2>1. \A s \in DOMAIN cat.rows : cat.rows[s].name < NextName
    BY <1>2, OrdersNow DEF Sound, Fits
  <2>2. Archived(job', made', "fs-snapshot")
    BY <1>2, <1>4 DEF Archived
  <2> QED
    BY <1>4, <2>1, <2>2, Zenon DEF JobFits
<1>6. FewLeft(cat, made', present', job')
  <2>1. job = NoJob /\ job.step = "none"
    BY <1>1, StartsAlone, NoJobFits DEF MayStartAlone
  <2>2. present' = present \cup {NextName}
    BY <1>1 DEF Makes
  <2>3. ASSUME NEW n \in present', NotYet(n, cat, made', job') PROVE n \in present /\ NotYet(n, cat, made, job)
    <3>1. n \in present
      BY <1>2, <2>2, <2>3 DEF NotYet
    <3> QED
      BY <1>2, <2>1, <2>3, <3>1, OrdersNow DEF NotYet
  <2> QED
    BY <2>3, OrdersNow DEF FewLeft
<1> QED
  BY <1>1, <1>2, <1>4, <1>5, <1>6, JobStarts

(* Two steps that keep rows keep them. *)
LEMMA KeepsInTurn ==
  ASSUME NEW b, NEW c, NEW d, NEW all, NEW there, KeepsLate(c, b, all, there), \A n : HasRow(d, n) <=> HasRow(c, n)
  PROVE  KeepsLate(d, b, all, there)
BY DEF KeepsLate

(* The snapshot gets its row and is read. *)
LEMMA SnapshotIngestsKeeps ==
  ASSUME Orders, SnapshotIngests
  PROVE  Orders'
<1>1. PICK appended :
        /\ job.kind = "Snapshot" /\ job.step = "walk" /\ appended = Appended(cat, RowFor(job.name))
        /\ cat' = Ingested(appended, Len(appended.rows), made[job.name].listing)
        /\ job' = [job EXCEPT !.step = "expire"]
        /\ UNCHANGED <<made, present, completed, index, catchUp>>
  BY DEF SnapshotIngests, JobDoes
<1>2. Archived(job, made, "fs-snapshot") /\ \A s \in DOMAIN cat.rows : cat.rows[s].name < job.name
  BY <1>1, OrdersNow DEF JobFits
<1>3. /\ Sound(appended, made) /\ KeepsLate(appended, cat, made, present)
      /\ Awaited(appended, Len(cat.rows) + 1, job.name)
      /\ appended.rows = Append(cat.rows, RowFor(job.name))
  BY <1>1, <1>2, AppendsOne DEF Archived
<1>4. Len(appended.rows) = Len(cat.rows) + 1
  <2>1. cat.rows \in Seq(Row) /\ RowFor(job.name) \in Row
    BY <1>2, OrdersNow, RowForIs DEF Sound, Archived
  <2> QED
    BY <1>3, <2>1
<1>5. made[job.name].listing = made[job.name].shows
  BY <1>2, OrdersNow DEF Archived, MadeFits
<1>6. Sound(cat', made) /\ IsRead(cat', appended, Len(appended.rows))
  <2>1. PICK s \in DOMAIN appended.rows :
          s = Len(appended.rows) /\ appended.rows[s].name = job.name /\ appended.rows[s].pending
    BY <1>3, <1>4 DEF Awaited
  <2>2. made \in Seq(Archive)
    BY OrdersNow
  <2>3. PICK listing : listing = made[appended.rows[s].name].shows /\ cat' = Ingested(appended, s, listing)
    BY <1>1, <1>5, <2>1
  <2> QED
    BY <1>3, <2>1, <2>2, <2>3, IngestedSound
<1>7. KeepsLate(cat', cat, made, present)
  BY <1>3, <1>6, ReadKeepsAll, KeepsInTurn
<1>8. job' \in Job /\ job'.kind = "Snapshot" /\ job'.step = "expire" /\ job'.name = job.name
  BY <1>1, OrdersNow, StepIs DEF Step
<1>9. JobFits(job', cat', made)
  BY <1>2, <1>8, Zenon DEF JobFits, Archived
<1> QED
  BY <1>1, <1>6, <1>7, <1>8, <1>9, AtWork, JobWrites

(* Old snapshots are deleted. *)
LEMMA SnapshotExpiresKeeps ==
  ASSUME Orders, NEW n, SnapshotExpires(n)
  PROVE  Orders'
<1> DEFINE old == {s \in In(cat, "fs-snapshot") : cat.rows[s].ts <= n}
<1>1. /\ job.kind = "Snapshot" /\ job.step = "expire" /\ present' \subseteq present
      /\ job' = [job EXCEPT !.step = "remove", !.gone = old]
      /\ UNCHANGED <<cat, made, completed, index, catchUp>>
  BY DEF SnapshotExpires, JobDoes
<1>2. old \subseteq In(cat, "fs-snapshot")
  OBVIOUS
<1> HIDE DEF old
<1>3. PICK S \in SUBSET Nat : S = old
  <2>1. cat.rows \in Seq(Row)
    BY OrdersNow DEF Sound
  <2>2. DOMAIN cat.rows \subseteq Nat
    BY <2>1
  <2> QED
    BY <1>2, <2>2 DEF In
<1>4. /\ job' \in Job /\ job'.kind = "Snapshot" /\ job'.step = "remove" /\ job'.name = job.name
      /\ job'.gone = S
  <2>1. \A j \in Job : LET m == [j EXCEPT !.step = "remove", !.gone = S]
          IN  m \in Job /\ m.kind = j.kind /\ m.step = "remove" /\ m.name = j.name /\ m.gone = S
    BY DEF Job
  <2> QED
    BY <1>1, <1>3, <2>1, OrdersNow
<1>5. Archived(job, made, "fs-snapshot")
  BY <1>1, OrdersNow DEF JobFits
<1>6. JobFits(job', cat, made)
  BY <1>2, <1>3, <1>4, <1>5, Zenon DEF JobFits, Archived
<1> QED
  BY <1>1, <1>4, <1>6, AtWork, JobMoves

(* Old snapshots' rows are removed. *)
LEMMA SnapshotRemovesKeeps ==
  ASSUME Orders, SnapshotRemoves
  PROVE  Orders'
<1>1. /\ job.kind = "Snapshot" /\ job.step = "remove" /\ cat' = Removed(cat, job.gone) /\ job' = NoJob
      /\ UNCHANGED <<made, present, completed, index, catchUp>>
  BY DEF SnapshotRemoves, JobDoes, JobEnds
<1>2. job.gone \subseteq In(cat, "fs-snapshot")
  BY <1>1, OrdersNow DEF JobFits
<1>3. Sound(cat', made) /\ KeepsLate(cat', cat, made, present)
  BY <1>1, <1>2, SnapshotsLeave
<1>4. job' \in Job /\ JobFits(job', cat', made) /\ job.step # "append"
  BY <1>1, NoJobFits
<1> QED
  BY <1>1, <1>3, <1>4, AtWork, JobWrites

-----------------------------------------------------------------------------
(* The steps of Snapper, and of the job that reads what it has taken. *)

(* Snapper takes a snapshot. *)
LEMMA SnapperTakesKeeps ==
  ASSUME Orders, Orderly, NEW files \in Listing, NEW ts \in Timestamps, SnapperTakes(files, ts)
  PROVE  Orders'
<1>1. /\ Cardinality(Unlisted) < Newcomers /\ DOMAIN files \subseteq SnapperScope
      /\ Makes("snapper", ts, files, files) /\ UNCHANGED <<cat, completed, job, index, catchUp>>
  BY DEF SnapperTakes
<1>2. /\ made' \in Seq(Archive) /\ Len(made') <= MaxArchives /\ DOMAIN made \subseteq DOMAIN made'
      /\ present' \subseteq DOMAIN made' /\ MadeFits(made') /\ Sound(cat, made')
      /\ \A n \in DOMAIN made : made'[n] = made[n]
  <2>1. "snapper" \in Repos \ {"spool"}
    BY DEF Repos
  <2> QED
    BY <1>1, <2>1, OneMore
<1>3. Unlisted = {}
  <2>1. PICK n \in Nat : DOMAIN made = 1 .. n
    BY OrdersNow
  <2>2. Unlisted \in SUBSET (1 .. n)
    BY <2>1, OrdersNow DEF Unlisted
  <2>3. IsFiniteSet(Unlisted) /\ Cardinality(Unlisted) \in Nat
    <3>1. IsFiniteSet(1 .. n)
      BY FS_Interval
    <3>2. IsFiniteSet(Unlisted)
      BY <2>2, <3>1, FS_Subset
    <3> QED
      BY <3>2, FS_CardinalityType
  <2>4. Newcomers \in Nat /\ Newcomers <= 1
    BY CataloguingAssumption DEF Orderly
  <2>5. Cardinality(Unlisted) = 0
    BY <1>1, <2>3, <2>4
  <2> QED
    BY <2>3, <2>5, FS_EmptySet
<1>4. FewLeft(cat, made', present', job)
  <2>1. present' = present \cup {NextName}
    BY <1>1 DEF Makes
  <2>2. ASSUME NEW n \in present', NotYet(n, cat, made', job) PROVE n = NextName
    BY <1>3, <2>1, <2>2 DEF NotYet, HasRow, Unlisted, Names
  <2> QED
    BY <2>2 DEF FewLeft
<1>5. JobFits(job, cat, made')
  BY <1>2, OrdersNow, JobStays
<1>6. completed \subseteq DOMAIN made'
  BY <1>2, OrdersNow
<1> QED
  BY <1>1, <1>2, <1>4, <1>5, <1>6, OrdersNow, OrdersNext

(* Snapper deletes a snapshot. *)
LEMMA SnapperDeletesKeeps ==
  ASSUME Orders, NEW n, SnapperDeletes(n)
  PROVE  Orders'
<1>1. present' \subseteq present /\ UNCHANGED <<cat, made, completed, job, index, catchUp>>
  BY DEF SnapperDeletes
<1>2. FewLeft(cat, made, present', job)
  BY <1>1, OrdersNow, KeepsItself, FewerLeft
<1>3. present' \subseteq DOMAIN made
  BY <1>1, OrdersNow
<1> QED
  BY <1>1, <1>2, <1>3, OrdersNow, OrdersNext

(* The rows are made to match Snapper's snapshots, and one that waits is *)
(* picked.                                                               *)
LEMMA SnapperSyncsKeeps ==
  ASSUME Orders, Orderly, SnapperSyncs
  PROVE  Orders'
<1>1. PICK d, unread :
        /\ MayStartAlone("Snapper") /\ d = cat' /\ d = Synced(cat, "snapper", Entries("snapper"))
        /\ unread = PendingIn(d, "snapper")
        /\ job' = IF unread = {} THEN NoJob
                  ELSE [NoJob EXCEPT !.kind = "Snapper", !.step = "walk", !.name = d.rows[Max(unread)].name]
        /\ UNCHANGED <<made, present, completed, index, catchUp>>
  BY DEF SnapperSyncs
<1>2. job = NoJob /\ job.step # "append"
  BY <1>1, StartsAlone, NoJobFits DEF MayStartAlone
<1>3. Sound(d, made) /\ KeepsLate(d, cat, made, present)
  BY <1>1, <1>2, SyncsOne
<1>4. FewLeft(d, made, present, job')
  BY <1>2, <1>3, OrdersNow, KeepsItself, FewerLeft
<1>5. job' \in Job /\ JobFits(job', d, made)
  <2>1. CASE unread = {}
    BY <1>1, <2>1, NoJobFits
  <2>2. CASE unread # {}
    <3>1. PICK n \in Nat : DOMAIN d.rows = 1 .. n
      BY <1>3, RowsAre DEF Sound
    <3>2. \A s \in unread : s \in 1 .. n /\ d.rows[s].repo = "snapper" /\ d.rows[s].pending
      BY <1>1, <3>1 DEF PendingIn, In
    <3>3. unread \in SUBSET (0 .. n)
      BY <3>2
    <3>4. PICK s \in unread : s = Max(unread)
      BY <2>2, <3>3, GreatestOfSome
    <3>5. PICK name : name = d.rows[s].name
      OBVIOUS
    <3>6. name \in DOMAIN made /\ made[name].repo = "snapper" /\ Awaited(d, s, name) /\ s \in DOMAIN d.rows
      BY <1>3, <3>1, <3>2, <3>5 DEF Sound, Fits, Awaited
    <3>7. name \in 0 .. MaxArchives
      <4>1. made \in Seq(Archive) /\ Len(made) <= MaxArchives /\ MaxArchives \in Nat
        BY OrdersNow, CataloguingAssumption
      <4> QED
        BY <3>6, <4>1
    <3>8. job' = NewJob("Snapper", "walk", name)
      BY <1>1, <2>2, <3>4, <3>5 DEF NewJob
    <3>9. job' \in Job /\ job'.kind = "Snapper" /\ job'.step = "walk" /\ job'.name = name
      <4>1. "Snapper" \in Kind /\ "walk" \in Step
        BY DEF Kind, Step
      <4> QED
        BY <3>7, <3>8, <4>1, NewJobIs
    <3>10. Archived(job', made, "snapper") /\ \E t \in DOMAIN d.rows : Awaited(d, t, job'.name)
      BY <3>6, <3>9 DEF Archived
    <3> QED
      BY <3>9, <3>10, Zenon DEF JobFits
  <2> QED
    BY <2>1, <2>2
<1> QED
  BY <1>1, <1>3, <1>4, <1>5, OrdersNow, JobStarts

(* A snapshot of Snapper's is read, where it is now. *)
LEMMA SnapperReadsKeeps ==
  ASSUME Orders, SnapperReads
  PROVE  Orders'
<1> DEFINE at == SeqNamed(cat, "snapper", job.name)
           inside == made[job.name].listing
<1>1. job.kind = "Snapper" /\ job.step = "walk" /\ job' = NoJob /\ UNCHANGED <<present, completed, index, catchUp>>
  BY DEF SnapperReads, JobDoes, JobEnds
<1>2. PICK name \in DOMAIN made, s \in DOMAIN cat.rows :
        /\ name = job.name /\ made[name].repo = "snapper" /\ cat.rows[s].name = name /\ cat.rows[s].pending
  BY <1>1, OrdersNow DEF JobFits, Archived, Awaited
<1>3. PICK n \in Nat : DOMAIN cat.rows = 1 .. n
  BY RowsAre, OrdersNow DEF Sound
<1>4. at = {s}
  <2>1. cat.rows[s].repo = "snapper"
    BY <1>2, OrdersNow DEF Sound, Fits
  <2>2. ASSUME NEW t \in DOMAIN cat.rows, cat.rows[t].name = name PROVE t = s
    <3>1. \A a, b \in 1 .. n : a < b => cat.rows[a].name < cat.rows[b].name
      BY <1>3, OrdersNow DEF Sound, Fits, InOrder
    <3>2. name \in Nat
      BY OrdersNow
    <3>3. ~(name < name)
      BY <3>2
    <3>4. s < t \/ t < s \/ s = t
      BY <1>3
    <3> QED
      BY <1>2, <1>3, <2>2, <3>1, <3>3, <3>4
  <2> QED
    BY <1>2, <2>1, <2>2 DEF SeqNamed, In
<1>5. Max(at) = s
  <2>1. at \in SUBSET (0 .. n) /\ at # {}
    BY SMTT(30), <1>3, <1>4
  <2>2. Max(at) \in at
    BY <2>1, GreatestOfSome
  <2> QED
    BY <1>4, <2>2
<1>6. PICK shows :
        /\ shows = ScopedAt(cat, s, inside, SnapperScope)
        /\ cat' = ScopedIngested(cat, s, inside, SnapperScope)
        /\ made' = [made EXCEPT ![job.name].shows = shows]
  <2>1. at # {}
    BY <1>4
  <2> QED
    BY <1>5, <2>1 DEF SnapperReads, ScopedAt, Scoped
<1>7. inside \in Listing /\ DOMAIN inside \subseteq SnapperScope
  <2>1. made[name] \in Archive
    BY <1>2, OrdersNow
  <2>2. made[name].listing \in Listing
    BY <2>1 DEF Archive
  <2> QED
    BY <1>2, <2>2, OrdersNow DEF MadeFits
<1>8. Sound(cat', made') /\ IsRead(cat', cat, s) /\ shows \in Listing
  <2>1. PICK listing \in Listing : listing = inside /\ DOMAIN listing \subseteq SnapperScope
    BY <1>7
  <2>2. made' = [made EXCEPT ![cat.rows[s].name].shows = shows]
    BY <1>2, <1>6
  <2>3. SnapperScope \in SUBSET Path /\ made \in Seq(Archive) /\ Sound(cat, made)
    BY CataloguingAssumption, OrdersNow
  <2> HIDE DEF inside
  <2>4. PICK then : then = made'
    OBVIOUS
  <2>5. shows = ScopedAt(cat, s, listing, SnapperScope)
    BY <1>6, <2>1
  <2>6. /\ Sound(ScopedIngested(cat, s, listing, SnapperScope), then)
        /\ IsRead(ScopedIngested(cat, s, listing, SnapperScope), cat, s) /\ shows \in Listing
    BY <1>2, <2>1, <2>2, <2>3, <2>4, <2>5, ScopedSound
  <2> QED
    BY <1>6, <2>1, <2>4, <2>6
<1>9. /\ made' \in Seq(Archive) /\ Len(made') = Len(made) /\ DOMAIN made' = DOMAIN made
      /\ \A k \in DOMAIN made : /\ made'[k].repo = made[k].repo /\ made'[k].ts = made[k].ts
                                /\ made'[k].listing = made[k].listing
                                /\ k # name => made'[k].shows = made[k].shows
  <2>0. PICK a \in Archive : a = made[name]
    BY <1>2, OrdersNow
  <2>1. PICK b : a = made[name] /\ b = [a EXCEPT !.shows = shows]
    BY <2>0
  <2>2. b \in Archive /\ b.repo = a.repo /\ b.ts = a.ts /\ b.listing = a.listing
    BY <1>8, <2>1 DEF Archive
  <2>3. made' = [made EXCEPT ![name] = b]
    BY <1>2, <1>6, <2>1
  <2>4. made \in Seq(Archive)
    BY OrdersNow
  <2>5. made' \in Seq(Archive) /\ Len(made') = Len(made) /\ DOMAIN made' = DOMAIN made
    BY <2>2, <2>3, <2>4
  <2>6. \A k \in DOMAIN made : made'[k] = IF k = name THEN b ELSE made[k]
    BY <2>3, <2>4
  <2> QED
    BY <2>1, <2>2, <2>5, <2>6
<1>10. SameRepos(made', made)
  BY <1>9 DEF SameRepos
<1>11. MadeFits(made')
  <2>1. MadeFits(made)
    BY OrdersNow
  <2>2. \A k \in DOMAIN made : made[k].repo \in {"primary", "fs-snapshot"} => k # name
    BY <1>2
  <2> QED
    BY <1>9, <2>1, <2>2 DEF MadeFits
<1>12. KeepsLate(cat', cat, made, present)
  BY <1>8, ReadKeepsAll
<1>13. job' \in Job /\ JobFits(job', cat', made') /\ job.step # "append" /\ job # NoJob
  BY <1>1, NoJobFits, AtWork
<1>14. completed' \subseteq DOMAIN made /\ Len(made') <= MaxArchives
  BY <1>1, <1>9, OrdersNow
<1> QED
  BY <1>1, <1>8, <1>9, <1>10, <1>11, <1>12, <1>13, <1>14, JobGoesOn

-----------------------------------------------------------------------------
(* The daemon is killed. *)

(* The daemon as it comes back. *)
LEMMA Afresh ==
  /\ [i \in Indexer |-> Resting] \in [Indexer -> IndexJob]
  /\ ~Busy([i \in Indexer |-> Resting])
  /\ NotCatchingUp \in CatchUp /\ \A c : CatchFits(NotCatchingUp, c)
  /\ NotCatchingUp.step = "none" /\ ~Owes(NotCatchingUp)
<1>1. NotCatchingUp \in CatchUp /\ NotCatchingUp.step = "none" /\ NotCatchingUp.spooled = {} /\ NotCatchingUp.owed = 0
  BY DEF NotCatchingUp, CatchUp
<1>2. \A c : CatchFits(NotCatchingUp, c)
  BY <1>1, Zenon DEF CatchFits
<1>3. [i \in Indexer |-> Resting] \in [Indexer -> IndexJob] /\ ~Busy([i \in Indexer |-> Resting])
  BY RestingIs DEF Busy
<1>4. ~Owes(NotCatchingUp)
  BY <1>1 DEF Owes
<1> QED
  BY <1>1, <1>2, <1>3, <1>4

(* What a kill leaves. *)
LEMMA AfterKill ==
  ASSUME Killed, NEW c
  PROVE  /\ job' = NoJob /\ index' \in [Indexer -> IndexJob] /\ catchUp' \in CatchUp
         /\ IndexFits(index', c) /\ CatchFits(catchUp', c) /\ OneAtATime(NoJob, index', catchUp')
         /\ UNCHANGED <<made, present, completed>>
<1>1. /\ job' = NoJob /\ index' = [i \in Indexer |-> Resting] /\ catchUp' = NotCatchingUp
      /\ UNCHANGED <<made, present, completed>>
  BY DEF Killed, JobEnds
<1>2. ~Busy(index') /\ ~Owes(catchUp') /\ CatchFits(catchUp', c)
  BY <1>1, Afresh
<1> QED
  BY <1>1, <1>2, Afresh, IdleFits, RestingAlone

(* The daemon is killed. *)
LEMMA CrashKeeps ==
  ASSUME Orders, Orderly, Crash
  PROVE  Orders'
<1>1. Killed /\ Cardinality(Unlisted) <= Newcomers /\ UNCHANGED cat
  BY DEF Crash
<1> QED
  BY <1>1, AfterKill, AllStop

(* The daemon is killed between a snapshot's row and its listing. *)
LEMMA CrashInSnapshotKeeps ==
  ASSUME Orders, CrashInSnapshot
  PROVE  Orders'
<1>1. job.kind = "Snapshot" /\ job.step = "walk" /\ Killed /\ cat' = Appended(cat, RowFor(job.name))
  BY DEF CrashInSnapshot, JobDoes
<1>2. Archived(job, made, "fs-snapshot") /\ \A s \in DOMAIN cat.rows : cat.rows[s].name < job.name
  BY <1>1, OrdersNow DEF JobFits
<1>3. Sound(cat', made) /\ KeepsLate(cat', cat, made, present)
  BY <1>1, <1>2, AppendsOne DEF Archived
<1>4. /\ job' = NoJob /\ index' \in [Indexer -> IndexJob] /\ catchUp' \in CatchUp
      /\ IndexFits(index', cat') /\ CatchFits(catchUp', cat') /\ OneAtATime(NoJob, index', catchUp')
      /\ UNCHANGED <<made, present, completed>>
  BY <1>1, AfterKill
<1>5. FewLeft(cat', made, present, NoJob)
  <2>1. job.step # "append" /\ present \in SUBSET (DOMAIN made)
    BY <1>1, OrdersNow
  <2> QED
    BY <1>3, <2>1, OrdersNow, KeepsItself, FewerLeft
<1> QED
  BY <1>3, <1>4, <1>5, OrdersNow, NoJobFits, OrdersNext

-----------------------------------------------------------------------------
(* The catalogue is what reading every archive in order gives. *)

(* The invariant holds of an empty catalogue. *)
LEMMA OrdersInit ==
  ASSUME Init
  PROVE  Orders
<1>1. /\ cat = [rows |-> <<>>, versions |-> {}] /\ made = <<>> /\ present = {} /\ completed = {}
      /\ job = NoJob /\ index = [i \in Indexer |-> Resting] /\ catchUp = NotCatchingUp
  BY DEF Init, Empty
<1>2. Sound(cat, made)
  <2>1. cat.rows = <<>> /\ cat.versions = {} /\ IsCatalogue(cat) /\ cat.rows \in Seq(Row) /\ DOMAIN cat.rows = {}
    BY <1>1 DEF IsCatalogue
  <2>2. Reference(<<>>, Shows(made)) = {}
    BY DEF Reference
  <2> QED
    BY <2>1, <2>2 DEF Sound, Fits, InOrder
<1>3. made \in Seq(Archive) /\ Len(made) = 0 /\ DOMAIN made = {}
  BY <1>1
<1>4. TypeOK
  <2>1. cat \in [rows: Seq(Row), versions: SUBSET Version]
    BY <1>2, SoundType
  <2>2. Len(made) <= MaxArchives
    BY <1>3, CataloguingAssumption
  <2> QED
    BY <1>1, <1>3, <2>1, <2>2, Afresh, NoJobFits DEF TypeOK
<1>5. MadeFits(made) /\ FewLeft(cat, made, present, job)
  BY <1>1, <1>3 DEF MadeFits, FewLeft
<1>6. JobFits(job, cat, made) /\ IndexFits(index, cat) /\ CatchFits(catchUp, cat) /\ OneAtATime(job, index, catchUp)
  BY <1>1, NoJobFits, Afresh, IdleFits, RestingAlone
<1> QED
  BY <1>2, <1>4, <1>5, <1>6 DEF Orders

(* Every step keeps the invariant, unless the spool takes an archive. *)
LEMMA OrdersKept ==
  ASSUME Orders, Orderly, Next, ~HasDeltas'
  PROVE  Orders'
<1>1. CASE BackupSteps
  BY <1>1, BackupCreatesKeeps, JobAppendsKeeps, BackupIngestsKeeps, ListingFailsKeeps,
     BackupPrunesKeeps, BackupEndsKeeps, JobStopsKeeps DEF BackupSteps
<1>2. CASE IndexSteps
  BY <1>2, IndexSyncsKeeps, IndexReadsKeeps, IndexIngestsKeeps, IndexPassesOverKeeps, IndexEndsKeeps
     DEF IndexSteps
<1>3. CASE OfflineSteps
  BY <1>3, OfflineDiffsKeeps, OfflineCreatesDeltas, OfflinePlansKeeps, NothingInSpool DEF OfflineSteps
<1>4. CASE SnapshotSteps
  BY <1>4, SnapshotTakesKeeps, SnapshotIngestsKeeps, SnapshotRemovesKeeps, SnapshotExpiresKeeps
     DEF SnapshotSteps
<1>5. CASE SnapperSteps
  BY <1>5, SnapperTakesKeeps, SnapperDeletesKeeps, SnapperSyncsKeeps, SnapperReadsKeeps DEF SnapperSteps
<1>6. CASE CatchUpSteps
  BY <1>6, CatchUpMarksKeeps, CatchUpReadsKeeps, CatchUpRemovesSnapshotsKeeps, NothingSpooled DEF CatchUpSteps
<1> QED
  BY <1>1, <1>2, <1>3, <1>4, <1>5, <1>6, CrashKeeps, CrashInSnapshotKeeps DEF Next

(* Whatever it holds, the list of archives made is one, and only grows. *)
IsMade(all) ==
  \E S : /\ all \in Seq(S)
         /\ \A a \in S : a = [repo |-> a.repo, ts |-> a.ts, listing |-> a.listing, shows |-> a.shows]

(* Every step keeps the list of archives, and what is in it. *)
LEMMA MadeGrows ==
  ASSUME IsMade(made), Next
  PROVE  IsMade(made') /\ (HasDeltas => HasDeltas')
<1>1. PICK S : /\ made \in Seq(S)
               /\ \A a \in S : a = [repo |-> a.repo, ts |-> a.ts, listing |-> a.listing, shows |-> a.shows]
  BY DEF IsMade
<1>2. CASE made' = made
  BY <1>2 DEF HasDeltas
<1>3. ASSUME NEW repo, NEW ts, NEW listing, NEW shows, Makes(repo, ts, listing, shows)
      PROVE  IsMade(made') /\ (HasDeltas => HasDeltas')
  <2>1. PICK a : /\ a = [repo |-> repo, ts |-> ts, listing |-> listing, shows |-> shows]
                 /\ made' = Append(made, a)
    BY <1>3 DEF Makes
  <2>2. PICK T : T = S \cup {a}
    OBVIOUS
  <2>3. made \in Seq(T) /\ a \in T
    BY <1>1, <2>2
  <2>4. made' \in Seq(T) /\ \A i \in DOMAIN made : i \in DOMAIN made' /\ made'[i] = made[i]
    BY <2>1, <2>3
  <2>5. \A b \in T : b = [repo |-> b.repo, ts |-> b.ts, listing |-> b.listing, shows |-> b.shows]
    BY <1>1, <2>1, <2>2
  <2> QED
    BY <2>4, <2>5 DEF IsMade, HasDeltas
<1>4. ASSUME NEW name, NEW shows, made' = [made EXCEPT ![name].shows = shows]
      PROVE  IsMade(made') /\ (HasDeltas => HasDeltas')
  <2>1. CASE name \in DOMAIN made
    <3>1. PICK a \in S : a = made[name]
      BY <1>1, <2>1
    <3>2. PICK b : b = [a EXCEPT !.shows = shows]
      OBVIOUS
    <3>3. b = [repo |-> a.repo, ts |-> a.ts, listing |-> a.listing, shows |-> shows]
      <4>1. a = [repo |-> a.repo, ts |-> a.ts, listing |-> a.listing, shows |-> a.shows]
        BY <1>1
      <4> QED
        BY <3>2, <4>1
    <3>4. b.repo = a.repo /\ b = [repo |-> b.repo, ts |-> b.ts, listing |-> b.listing, shows |-> b.shows]
      BY <3>3
    <3>5. PICK T : T = S \cup {b}
      OBVIOUS
    <3>6. made \in Seq(T) /\ b \in T /\ made' = [made EXCEPT ![name] = b]
      BY <1>1, <1>4, <3>1, <3>2, <3>5
    <3>7. made' \in Seq(T) /\ DOMAIN made' = DOMAIN made
      BY <2>1, <3>6
    <3>8. \A i \in DOMAIN made : made'[i].repo = made[i].repo
      BY <2>1, <3>1, <3>4, <3>6
    <3>9. \A c \in T : c = [repo |-> c.repo, ts |-> c.ts, listing |-> c.listing, shows |-> c.shows]
      BY <1>1, <3>4, <3>5
    <3> QED
      BY <3>7, <3>8, <3>9 DEF IsMade, HasDeltas
  <2>2. CASE name \notin DOMAIN made
    <3>1. made' = made
      BY <1>1, <1>4, <2>2
    <3> QED
      BY <1>2, <3>1
  <2> QED
    BY <2>1, <2>2
<1>5. SnapperReads => made' = made \/ \E name, shows : made' = [made EXCEPT ![name].shows = shows]
  BY SMTT(30) DEF SnapperReads
<1>6. BackupSteps => made' = made \/ \E repo, ts, listing, shows : Makes(repo, ts, listing, shows)
  BY DEF BackupSteps, BackupCreates, JobAppends, BackupIngests, ListingFails, BackupPrunes,
         BackupReconciles, BackupSkipsReconcile, BackupFinishes, JobStops
<1>7. IndexSteps => made' = made
  BY DEF IndexSteps, IndexSyncs, IndexReads, IndexIngests, IndexPassesOver, IndexEnds
<1>8. OfflineSteps => made' = made \/ \E repo, ts, listing, shows : Makes(repo, ts, listing, shows)
  BY ZenonT(60) DEF OfflineSteps, OfflineDiffs, OfflineCreates, OfflinePlans, OfflineHolds, OfflineEvicts,
         OfflineRemoves, OfflineIngests
<1>9. SnapshotSteps => made' = made \/ \E repo, ts, listing, shows : Makes(repo, ts, listing, shows)
  BY ZenonT(60) DEF SnapshotSteps, SnapshotTakes, SnapshotIngests, SnapshotRemoves, SnapshotExpires
<1>10. SnapperSteps => SnapperReads \/ made' = made \/ \E repo, ts, listing, shows : Makes(repo, ts, listing, shows)
  BY SMTT(30) DEF SnapperSteps, SnapperTakes, SnapperDeletes, SnapperSyncs
<1>11. CatchUpSteps \/ Crash \/ CrashInSnapshot => made' = made
  BY DEF CatchUpSteps, CatchUpMarks, CatchUpReads, CatchUpRemovesSnapshots, CatchUpDeletes,
         CatchUpRemovesSpooled, Crash, CrashInSnapshot, Killed
<1>12. \/ made' = made \/ \E repo, ts, listing, shows : Makes(repo, ts, listing, shows)
       \/ \E name, shows : made' = [made EXCEPT ![name].shows = shows]
  BY <1>5, <1>6, <1>7, <1>8, <1>9, <1>10, <1>11, Zenon DEF Next
<1> QED
  BY <1>1, <1>2, <1>3, <1>4, <1>12

OrderInv == IsMade(made) /\ (~HasDeltas => Orders)

(* The invariant holds at first. *)
LEMMA OrderInvInit == Init => OrderInv
<1> SUFFICES ASSUME Init PROVE OrderInv
  OBVIOUS
<1>1. made \in Seq({})
  BY DEF Init
<1>2. IsMade(made)
  BY <1>1 DEF IsMade
<1> QED
  BY <1>2, OrdersInit DEF OrderInv

(* Every step keeps it. *)
LEMMA OrderInvKept == Orderly /\ OrderInv /\ [Next]_vars => OrderInv'
<1> SUFFICES ASSUME Orderly, OrderInv, [Next]_vars PROVE OrderInv'
  OBVIOUS
<1>1. CASE Next
  <2>1. IsMade(made') /\ (HasDeltas => HasDeltas')
    BY <1>1, MadeGrows DEF OrderInv
  <2>2. ~HasDeltas' => Orders'
    BY <1>1, <2>1, OrdersKept DEF OrderInv
  <2> QED
    BY <2>1, <2>2 DEF OrderInv
<1>2. CASE UNCHANGED vars
  <2>1. UNCHANGED <<cat, made, present, completed, job, index, catchUp>>
    BY <1>2 DEF vars
  <2>2. HasDeltas' <=> HasDeltas
    BY <2>1 DEF HasDeltas
  <2>3. Orders => Orders'
    BY <2>1, OrdersNow, OrdersNext
  <2> QED
    BY <2>1, <2>2, <2>3 DEF OrderInv
<1> QED
  BY <1>1, <1>2

(* What the catalogue shows is what each archive shows. *)
LEMMA OrderInvSafe == OrderInv => OrderSafety
<1>1. Shows(made) = What
  BY DEF Shows, What
<1> QED
  BY <1>1, OrdersNow DEF OrderInv, OrderSafety, CatalogueSafety, CatalogueIsReference, Orders, Sound

(* Whatever order archives are read in, and whatever is slotted in, taken out and *)
(* merged in between, the catalogue's intervals are those a from-scratch, in-order *)
(* ingest of the archives read so far would give: for as long as the spool has     *)
(* taken nothing, one archive at most is in no row, the clock does not step back    *)
(* and jobs wait for the bookkeeping (writer.rs, pipeline.rs).                      *)
THEOREM CatalogueInOrder ==
  ASSUME Orderly
  PROVE  Spec => []OrderSafety
<1>1. Init => OrderInv
  BY OrderInvInit
<1>2. OrderInv /\ [Next]_vars => OrderInv'
  BY OrderInvKept
<1>3. OrderInv => OrderSafety
  BY OrderInvSafe
<1> QED
  BY <1>1, <1>2, <1>3, PTL DEF Spec

-----------------------------------------------------------------------------
(* A machine whose local protection is filesystem snapshots: the spool takes *)
(* nothing, and the invariant holds of every state.                          *)

Steady == Orders /\ job.kind # "Offline"

(* Nothing of what fills the spool happens. *)
LEMMA NothingOffline ==
  ASSUME Steady, "Offline" \notin Kinds
  PROVE  ~OfflineSteps
<1>1. job.kind # "Offline"
  BY DEF Steady
<1>2. ASSUME NEW files, OfflineDiffs(files) PROVE FALSE
  <2>1. MayStartAlone("Offline")
    BY <1>2 DEF OfflineDiffs
  <2> QED
    BY <2>1 DEF MayStartAlone, MayStart
<1>3. ASSUME NEW ts, OfflineCreates(ts) PROVE FALSE
  BY <1>1, <1>3 DEF OfflineCreates, JobDoes
<1>4. ASSUME NEW k, OfflinePlans(k) PROVE FALSE
  <2>1. JobDoes("Offline", "room")
    BY <1>4 DEF OfflinePlans
  <2> QED
    BY <1>1, <2>1 DEF JobDoes
<1>5. OfflineHolds \/ OfflineEvicts \/ OfflineRemoves \/ OfflineIngests => \E step : JobDoes("Offline", step)
  BY Zenon DEF OfflineHolds, OfflineEvicts, OfflineRemoves, OfflineIngests
<1>6. ~\E step : JobDoes("Offline", step)
  BY <1>1 DEF JobDoes
<1> QED
  BY <1>2, <1>3, <1>4, <1>5, <1>6, Zenon DEF OfflineSteps

(* What a step leaves the job at. *)
Early == {"append", "ingest", "prune", "reconcile", "walk", "expire"}

(* A step that has nothing to do with a job's list. *)
Aside == UNCHANGED <<cat, job, index, catchUp>> /\ (present' \subseteq present \/ present' = present \cup {NextName})

(* A job goes on, starts, ends, expires snapshots, or lets others work. *)
LEMMA JobNext ==
  ASSUME Steady, Orderly, "Offline" \notin Kinds, Next
  PROVE  \/ job' = NoJob
         \/ job'.kind # "Offline" /\ job'.step \in Early
         \/ \E n : SnapshotExpires(n)
         \/ Aside
<1>0. Orders /\ job.kind # "Offline" /\ job \in Job
  BY OrdersNow DEF Steady
<1>1. CASE BackupSteps
  <2>0. ASSUME NEW step \in Early, NEW seq, NEW j, \/ j = [job EXCEPT !.step = step]
                                                   \/ j = [job EXCEPT !.step = step, !.seq = seq]
        PROVE  j.kind # "Offline" /\ j.step \in Early
    BY <1>0, <2>0 DEF Job
  <2>1. ASSUME NEW step \in Early, NEW seq, \/ job' = [job EXCEPT !.step = step]
                                            \/ job' = [job EXCEPT !.step = step, !.seq = seq]
        PROVE  job'.kind # "Offline" /\ job'.step \in Early
    BY <2>0, <2>1, Zenon
  <2>2. \A files, ts : BackupCreates(files, ts) => job'.kind # "Offline" /\ job'.step \in Early
    BY SMTT(30) DEF BackupCreates, NoJob, Early
  <2>a. {"ingest", "prune", "reconcile"} \subseteq Early
    BY DEF Early
  <2>3. ASSUME JobAppends PROVE job'.kind # "Offline" /\ job'.step \in Early
    <3>1. job' = [job EXCEPT !.step = "ingest", !.seq = Len(cat.rows) + 1]
      BY <2>3 DEF JobAppends
    <3> QED
      BY <2>1, <2>a, <3>1
  <2>4. ASSUME BackupIngests PROVE job'.kind # "Offline" /\ job'.step \in Early
    <3>1. job' = [job EXCEPT !.step = "prune"]
      BY <2>4 DEF BackupIngests
    <3> QED
      BY <2>1, <2>a, <3>1
  <2>5. ASSUME ListingFails PROVE job' = NoJob \/ (job'.kind # "Offline" /\ job'.step \in Early)
    <3>1. job' = [job EXCEPT !.step = "prune"] \/ job' = NoJob
      BY <2>5 DEF ListingFails, JobEnds
    <3> QED
      BY <2>1, <2>a, <3>1
  <2>6. ASSUME NEW n, BackupPrunes(n) PROVE job'.kind # "Offline" /\ job'.step \in Early
    <3>1. job' = [job EXCEPT !.step = "reconcile"]
      BY <2>6 DEF BackupPrunes
    <3> QED
      BY <2>1, <2>a, <3>1
  <2>7. BackupReconciles \/ BackupSkipsReconcile \/ JobStops => job' = NoJob
    BY DEF BackupReconciles, BackupSkipsReconcile, BackupFinishes, JobStops, JobEnds
  <2> QED
    BY <1>1, <2>2, <2>3, <2>4, <2>5, <2>6, <2>7, Zenon DEF BackupSteps
<1>2. CASE IndexSteps
  <2>0. PICK i \in Indexer : IndexSyncs(i) \/ IndexReads(i) \/ IndexIngests(i) \/ IndexPassesOver(i) \/ IndexEnds(i)
    BY <1>2 DEF IndexSteps
  <2>1. job' = job
    BY <2>0, ZenonT(30) DEF IndexSyncs, IndexReads, IndexIngests, IndexPassesOver, IndexEnds
  <2>2. job = NoJob
    <3>0. IndexSyncs(i) \/ index[i].step = "read" \/ index[i].step = "ingest"
      BY <2>0, ZenonT(30) DEF IndexReads, IndexIngests, IndexPassesOver, IndexEnds
    <3>1. IndexSyncs(i) \/ index[i].step # "none"
      BY <3>0
    <3>2. IndexSyncs(i) => job = NoJob
      BY StartsAlone DEF IndexSyncs
    <3> QED
      BY <1>0, <3>1, <3>2, IndexAlone
  <2> QED
    BY <2>1, <2>2
<1>3. CASE SnapshotSteps
  <2>1. \A files, ts : SnapshotTakes(files, ts) => job'.kind # "Offline" /\ job'.step \in Early
    BY SMTT(30) DEF SnapshotTakes, NoJob, Early
  <2>2. SnapshotIngests => job'.kind # "Offline" /\ job'.step \in Early
    BY <1>0 DEF SnapshotIngests, Job, Early
  <2>3. SnapshotRemoves => job' = NoJob
    BY DEF SnapshotRemoves, JobEnds
  <2> QED
    BY <1>3, <2>1, <2>2, <2>3, Zenon DEF SnapshotSteps
<1>4. CASE SnapperSteps
  <2>1. \A files, ts : SnapperTakes(files, ts) => Aside
    BY DEF SnapperTakes, Makes, Aside
  <2>2. \A n : SnapperDeletes(n) => Aside
    BY DEF SnapperDeletes, Aside
  <2>3. SnapperSyncs => job' = NoJob \/ (job'.kind # "Offline" /\ job'.step \in Early)
    BY SMTT(30) DEF SnapperSyncs, NoJob, Early
  <2>4. SnapperReads => job' = NoJob
    BY DEF SnapperReads, JobEnds
  <2> QED
    BY <1>4, <2>1, <2>2, <2>3, <2>4, Zenon DEF SnapperSteps
<1>5. CASE CatchUpSteps
  <2>1. \A month, day : CatchUpReads(month, day) => job' = job /\ catchUp.step = "read"
    BY ZenonT(30) DEF CatchUpReads
  <2>2. CatchUpMarks => job' = job /\ catchUp.owed > 0
    BY ZenonT(30) DEF CatchUpMarks
  <2>3. CatchUpRemovesSnapshots => job' = job /\ catchUp.step = "snapshots"
    BY ZenonT(30) DEF CatchUpRemovesSnapshots
  <2>4. ~CatchUpDeletes /\ ~CatchUpRemovesSpooled
    BY <1>0, NothingSpooled
  <2>5. job' = job /\ Owes(catchUp)
    BY <1>5, <2>1, <2>2, <2>3, <2>4, SMTT(30) DEF CatchUpSteps, Owes
  <2> QED
    BY <1>0, <2>5, OrdersNow DEF OneAtATime
<1>6. Crash \/ CrashInSnapshot => job' = NoJob
  BY DEF Crash, CrashInSnapshot, Killed, JobEnds
<1> QED
  BY <1>1, <1>2, <1>3, <1>4, <1>5, <1>6, NothingOffline, Zenon DEF Next

(* The invariant holds at first. *)
LEMMA SteadyInit == Init => Steady
BY OrdersInit, NoJobFits DEF Init, Steady

(* Every step keeps it. *)
LEMMA SteadyKept ==
  ASSUME Steady, Orderly, "Offline" \notin Kinds, Next
  PROVE  Steady'
<1>0. Orders /\ job \in Job /\ job.kind # "Offline"
  BY OrdersNow DEF Steady
<1>1. ~OfflineSteps
  BY NothingOffline
<1>2. Orders'
  <2>1. CASE BackupSteps
    BY <1>0, <2>1, BackupCreatesKeeps, JobAppendsKeeps, BackupIngestsKeeps, ListingFailsKeeps,
       BackupPrunesKeeps, BackupEndsKeeps, JobStopsKeeps DEF BackupSteps
  <2>2. CASE IndexSteps
    BY <1>0, <2>2, IndexSyncsKeeps, IndexReadsKeeps, IndexIngestsKeeps, IndexPassesOverKeeps, IndexEndsKeeps
       DEF IndexSteps
  <2>3. CASE SnapshotSteps
    BY <1>0, <2>3, SnapshotTakesKeeps, SnapshotIngestsKeeps, SnapshotRemovesKeeps, SnapshotExpiresKeeps
       DEF SnapshotSteps
  <2>4. CASE SnapperSteps
    BY <1>0, <2>4, SnapperTakesKeeps, SnapperDeletesKeeps, SnapperSyncsKeeps, SnapperReadsKeeps DEF SnapperSteps
  <2>5. CASE CatchUpSteps
    BY <1>0, <2>5, CatchUpMarksKeeps, CatchUpReadsKeeps, CatchUpRemovesSnapshotsKeeps, NothingSpooled
       DEF CatchUpSteps
  <2> QED
    BY <1>0, <1>1, <2>1, <2>2, <2>3, <2>4, <2>5, CrashKeeps, CrashInSnapshotKeeps DEF Next
<1>3. job'.kind # "Offline"
  <2>1. \A n : SnapshotExpires(n) => job'.kind = job.kind
    <3>1. \A j \in Job : \A S : [j EXCEPT !.step = "remove", !.gone = S].kind = j.kind
      BY DEF Job
    <3> QED
      BY <1>0, <3>1, Zenon DEF SnapshotExpires
  <2>2. NoJob.kind # "Offline"
    BY NoJobFits
  <2> QED
    BY <1>0, <2>1, <2>2, JobNext DEF Aside
<1> QED
  BY <1>2, <1>3 DEF Steady

(* A step of nothing keeps it. *)
LEMMA SteadyStays ==
  ASSUME Steady, UNCHANGED vars
  PROVE  Steady'
<1>1. UNCHANGED <<cat, made, present, completed, job, index, catchUp>>
  BY DEF vars
<1>2. Orders'
  BY <1>1, OrdersNow, OrdersNext DEF Steady
<1> QED
  BY <1>1, <1>2 DEF Steady

-----------------------------------------------------------------------------
(* A row leaves the catalogue only when its archive has left its store. *)

(* No archive that is still there loses its row. *)
RowsStay(d, c, there) == \A n \in there : HasRow(c, n) => HasRow(d, n)

LeftStore(seqs, c, there) == \A s \in seqs : c.rows[s].name \notin there

(* What a job or the bookkeeping is about to take out of the catalogue has left *)
(* its store.                                                                   *)
GoneIsGone ==
  /\ job.kind = "Snapshot" /\ job.step = "remove" => LeftStore(job.gone, cat, present)
  /\ catchUp.step = "snapshots" => LeftStore(catchUp.snapshots, cat, present)

(* Taking those out takes nothing that is still there. *)
LEMMA RestStays ==
  ASSUME Orders, NEW gone, LeftStore(gone, cat, present), NEW d, d = Removed(cat, gone)
  PROVE  RowsStay(d, cat, present)
<1>1. HasRest(d, cat, gone)
  BY OrdersNow, RemovedSound
<1>2. ASSUME NEW n \in present, HasRow(cat, n) PROVE HasRow(d, n)
  <2>1. PICK s \in DOMAIN cat.rows : cat.rows[s].name = n
    BY <1>2 DEF HasRow
  <2>2. s \notin gone
    BY <1>2, <2>1 DEF LeftStore
  <2>3. PICK k \in DOMAIN d.rows : d.rows[k] = cat.rows[s]
    BY <1>1, <2>2 DEF HasRest
  <2> QED
    BY <2>1, <2>3 DEF HasRow
<1> QED
  BY <1>2 DEF RowsStay

(* Reconciling takes nothing that is still there. *)
LEMMA SyncStays ==
  ASSUME Orders, job.step # "append", NEW repo \in {"primary", "snapper"},
         NEW d, d = Synced(cat, repo, Entries(repo))
  PROVE  RowsStay(d, cat, present)
<1>1. Entries(repo) = EntriesOf(made, present, repo)
  BY DEF Entries, EntriesOf
<1>2. OneNew(cat, made, present, repo)
  <2>1. ASSUME NEW m \in present, NEW n \in present, made[m].repo = repo, made[n].repo = repo,
               ~HasRow(cat, m), ~HasRow(cat, n)
        PROVE  m = n
    <3>1. NotYet(m, cat, made, job) /\ NotYet(n, cat, made, job)
      BY <2>1 DEF NotYet
    <3> QED
      BY <3>1, OrdersNow DEF FewLeft
  <2> QED
    BY <2>1 DEF OneNew
<1>3. repo \in Repos /\ \A n \in DOMAIN made : made[n].ts = n
  BY OrdersNow DEF Repos, MadeFits
<1>4. made \in Seq(Archive) /\ Sound(cat, made) /\ present \in SUBSET (DOMAIN made)
  BY OrdersNow
<1>5. KeepsThose(d, cat, present)
  BY <1>1, <1>2, <1>3, <1>4, SyncedSound
<1> QED
  BY <1>5 DEF KeepsThose, RowsStay

(* A row at the end takes nothing. *)
LEMMA AppendStays ==
  ASSUME Orders, NEW n \in DOMAIN made, \A s \in DOMAIN cat.rows : cat.rows[s].name < n,
         NEW d, d = Appended(cat, RowFor(n))
  PROVE  \A m : HasRow(cat, m) => HasRow(d, m)
<1>1. PICK rows \in Seq(Row), k \in Nat : rows = cat.rows /\ k = Len(rows) /\ DOMAIN rows = 1 .. k
  BY RowsAre, OrdersNow DEF Sound
<1>2. d.rows = Append(rows, RowFor(n)) /\ RowFor(n) \in Row
  BY <1>1, AppendsOne, RowForIs
<1>3. DOMAIN d.rows = 1 .. k + 1 /\ \A s \in 1 .. k : d.rows[s] = rows[s]
  BY <1>1, <1>2
<1>4. \A s \in 1 .. k : s \in 1 .. k + 1
  OBVIOUS
<1> QED
  BY <1>1, <1>3, <1>4 DEF HasRow

(* No step takes the row of an archive that is still there, but for those that *)
(* take out what has expired.                                                  *)
LEMMA StepTakes ==
  ASSUME Steady, Orderly, "Offline" \notin Kinds, Next
  PROVE  cat' = cat \/ RowsStay(cat', cat, present') \/ SnapshotRemoves \/ CatchUpRemovesSnapshots
<1>0. Orders
  BY DEF Steady
<1>1. ASSUME JobAppends PROVE RowsStay(cat', cat, present')
  <2>1. job.step = "append" /\ cat' = Appended(cat, RowFor(job.name))
    BY <1>1 DEF JobAppends
  <2>2. job.name \in DOMAIN made /\ \A s \in DOMAIN cat.rows : cat.rows[s].name < job.name
    BY <1>0, <2>1, OrdersNow DEF JobFits, Archived
  <2> QED
    BY <1>0, <2>1, <2>2, AppendStays DEF RowsStay
<1>2. ASSUME BackupIngests PROVE RowsStay(cat', cat, present')
  <2>1. /\ job.kind = "Backup" /\ job.step = "ingest"
        /\ cat' = Ingested(cat, job.seq, made[job.name].listing)
    BY <1>2 DEF BackupIngests, JobDoes
  <2>2. Archived(job, made, "primary") /\ Awaited(cat, job.seq, job.name)
    BY <1>0, <2>1, OrdersNow DEF JobFits
  <2>3. made[job.name].listing = made[job.name].shows
    BY <1>0, <2>2, OrdersNow DEF Archived, MadeFits
  <2>4. PICK s \in DOMAIN cat.rows : s = job.seq /\ cat.rows[s].name = job.name /\ cat.rows[s].pending
    BY <2>2 DEF Awaited
  <2>5. made \in Seq(Archive) /\ Sound(cat, made)
    BY <1>0, OrdersNow
  <2>6. IsRead(cat', cat, job.seq)
    BY <2>1, <2>3, <2>4, <2>5, IngestedSound
  <2> QED
    BY <2>6, ReadKeepsAll DEF RowsStay
<1>3. ASSUME BackupReconciles PROVE RowsStay(cat', cat, present')
  <2>1. /\ cat' = Synced(cat, "primary", Entries("primary")) /\ present' = present
        /\ job.step \in {"prune", "reconcile"}
    BY <1>3 DEF BackupReconciles, BackupFinishes
  <2> QED
    BY <1>0, <2>1, SyncStays
<1>4. ASSUME NEW i \in Indexer, IndexSyncs(i) PROVE RowsStay(cat', cat, present')
  <2>1. /\ cat' = Synced(cat, "primary", Entries("primary")) /\ present' = present /\ MayStart("Index")
    BY SMTT(30), <1>4 DEF IndexSyncs
  <2>2. job.step # "append"
    BY SMTT(30), <2>1, StartsAlone, NoJobFits
  <2> QED
    BY <1>0, <2>1, <2>2, SyncStays
<1>5. ASSUME NEW i \in Indexer, IndexIngests(i) PROVE RowsStay(cat', cat, present')
  <2>1. PICK next :
          /\ next = Head(index[i].todo) /\ index[i].step = "ingest" /\ index[i].todo # <<>>
          /\ Listable(next.name) /\ cat' = Ingested(cat, next.seq, made[next.name].listing)
          /\ index' = [index EXCEPT ![i].todo = Tail(@)]
    BY SMTT(30), <1>5 DEF IndexIngests
  <2>2. Awaited(cat, next.seq, next.name)
    BY <1>0, <2>1, IndexNext
  <2>3. next.name \in DOMAIN made /\ made[next.name].listing = made[next.name].shows
    BY <1>0, <2>1, OrdersNow DEF Listable, MadeFits
  <2>4. PICK s \in DOMAIN cat.rows : s = next.seq /\ cat.rows[s].name = next.name /\ cat.rows[s].pending
    BY SMTT(30), <2>2 DEF Awaited
  <2>5. made \in Seq(Archive) /\ Sound(cat, made)
    BY SMTT(30), <1>0, OrdersNow
  <2>6. IsRead(cat', cat, next.seq)
    BY <2>1, <2>3, <2>4, <2>5, IngestedSound
  <2> QED
    BY <2>6, ReadKeepsAll DEF RowsStay
<1>6. ASSUME SnapshotIngests PROVE RowsStay(cat', cat, present')
  <2>1. PICK appended :
          /\ job.kind = "Snapshot" /\ job.step = "walk" /\ appended = Appended(cat, RowFor(job.name))
          /\ cat' = Ingested(appended, Len(appended.rows), made[job.name].listing)
    BY <1>6 DEF SnapshotIngests, JobDoes
  <2>2. job.name \in DOMAIN made /\ \A s \in DOMAIN cat.rows : cat.rows[s].name < job.name
    BY <1>0, <2>1, OrdersNow DEF JobFits, Archived
  <2>3. \A m : HasRow(cat, m) => HasRow(appended, m)
    BY <1>0, <2>1, <2>2, AppendStays
  <2>4. /\ Sound(appended, made) /\ Awaited(appended, Len(cat.rows) + 1, job.name)
        /\ appended.rows = Append(cat.rows, RowFor(job.name))
    BY <1>0, <2>1, <2>2, AppendsOne
  <2>5. Len(appended.rows) = Len(cat.rows) + 1
    <3>1. cat.rows \in Seq(Row) /\ RowFor(job.name) \in Row
      BY <1>0, <2>2, OrdersNow, RowForIs DEF Sound
    <3> QED
      BY <2>4, <3>1
  <2>6. made[job.name].listing = made[job.name].shows
    BY <1>0, <2>1, OrdersNow DEF JobFits, Archived, MadeFits
  <2>7. PICK s \in DOMAIN appended.rows :
          s = Len(appended.rows) /\ appended.rows[s].name = job.name /\ appended.rows[s].pending
    BY <2>4, <2>5 DEF Awaited
  <2>8. PICK listing : listing = made[appended.rows[s].name].shows /\ cat' = Ingested(appended, s, listing)
    BY <2>1, <2>6, <2>7
  <2>9. made \in Seq(Archive)
    BY <1>0, OrdersNow
  <2>10. IsRead(cat', appended, s)
    BY <2>4, <2>7, <2>8, <2>9, IngestedSound
  <2>11. \A m : HasRow(cat', m) <=> HasRow(appended, m)
    BY <2>10, ReadKeepsAll
  <2> QED
    BY <2>3, <2>11 DEF RowsStay
<1>8. ASSUME SnapperSyncs PROVE RowsStay(cat', cat, present')
  <2>1. cat' = Synced(cat, "snapper", Entries("snapper")) /\ present' = present /\ MayStartAlone("Snapper")
    BY <1>8 DEF SnapperSyncs
  <2>2. job.step # "append"
    BY <2>1, StartsAlone, NoJobFits DEF MayStartAlone
  <2> QED
    BY <1>0, <2>1, <2>2, SyncStays
<1>9. ASSUME SnapperReads, cat' # cat PROVE RowsStay(cat', cat, present')
  <2>1. PICK s, listing : cat' = ScopedIngested(cat, s, listing, SnapperScope)
    BY <1>9 DEF SnapperReads
  <2>2. \A m : HasRow(cat, m) => HasRow(cat', m)
    <3>1. DOMAIN cat'.rows = DOMAIN cat.rows /\ \A k \in DOMAIN cat.rows : cat'.rows[k].name = cat.rows[k].name
      <4>1. PICK rows, versions : rows = cat.rows /\ cat' = Browsable(cat, s, versions)
        BY <2>1 DEF ScopedIngested
      <4>2. rows \in Seq(Row)
        BY <1>0, <4>1, OrdersNow DEF Sound
      <4>3. cat'.rows = [k \in DOMAIN rows |-> IF k = s THEN [rows[k] EXCEPT !.pending = FALSE] ELSE rows[k]]
        BY <4>1 DEF Browsable
      <4>4. \A k \in DOMAIN rows : [rows[k] EXCEPT !.pending = FALSE].name = rows[k].name
        <5>1. \A k \in DOMAIN rows : rows[k] \in Row
          BY <4>2
        <5>2. \A x \in Row : [x EXCEPT !.pending = FALSE].name = x.name
          BY DEF Row
        <5> HIDE DEF Row
        <5> QED
          BY <5>1, <5>2
      <4> QED
        BY <4>1, <4>3, <4>4
    <3> QED
      BY <3>1 DEF HasRow
  <2> QED
    BY <2>2 DEF RowsStay
<1>10. ASSUME CatchUpMarks PROVE RowsStay(cat', cat, present')
  <2>1. cat' = MarkedExpirable(cat, Now) /\ Now \in Nat /\ Sound(cat, made)
    BY <1>0, <1>10, OrdersNow DEF CatchUpMarks, Now
  <2>2. IsMarked(cat', cat)
    BY <2>1, MarkedSound
  <2> QED
    BY <2>2 DEF IsMarked, RowsStay, HasRow
<1>12. ASSUME CrashInSnapshot PROVE RowsStay(cat', cat, present')
  <2>1. job.kind = "Snapshot" /\ job.step = "walk" /\ cat' = Appended(cat, RowFor(job.name))
    BY <1>12 DEF CrashInSnapshot, JobDoes
  <2>2. job.name \in DOMAIN made /\ \A s \in DOMAIN cat.rows : cat.rows[s].name < job.name
    BY <1>0, <2>1, OrdersNow DEF JobFits, Archived
  <2> QED
    BY <1>0, <2>1, <2>2, AppendStays DEF RowsStay
<1>13. BackupSteps => JobAppends \/ BackupIngests \/ BackupReconciles \/ cat' = cat
  BY ZenonT(60) DEF BackupSteps, BackupCreates, ListingFails, BackupPrunes, BackupSkipsReconcile, JobStops
<1>14. IndexSteps => cat' = cat \/ \E i \in Indexer : IndexSyncs(i) \/ IndexIngests(i)
  BY ZenonT(60) DEF IndexSteps, IndexReads, IndexPassesOver, IndexEnds
<1>15. SnapshotSteps => SnapshotIngests \/ SnapshotRemoves \/ cat' = cat
  BY ZenonT(60) DEF SnapshotSteps, SnapshotTakes, SnapshotExpires
<1>16. SnapperSteps => SnapperSyncs \/ SnapperReads \/ cat' = cat
  BY ZenonT(60) DEF SnapperSteps, SnapperTakes, SnapperDeletes
<1>17. CatchUpSteps => CatchUpMarks \/ CatchUpRemovesSnapshots \/ CatchUpRemovesSpooled \/ cat' = cat
  BY ZenonT(60) DEF CatchUpSteps, CatchUpReads, CatchUpDeletes
<1>18. Crash => cat' = cat
  BY ZenonT(60) DEF Crash
<1> QED
  BY <1>0, <1>1, <1>2, <1>3, <1>4, <1>5, <1>6, <1>8, <1>9, <1>10, <1>12, <1>13, <1>14,
     <1>15, <1>16, <1>17, <1>18, NothingOffline, NothingSpooled, ZenonT(60) DEF Next

(* With those gone from their store, no step does. *)
LEMMA StepStays ==
  ASSUME Steady, GoneIsGone, Orderly, "Offline" \notin Kinds, Next
  PROVE  cat' = cat \/ RowsStay(cat', cat, present')
<1>0. Orders
  BY DEF Steady
<1>1. ASSUME SnapshotRemoves PROVE RowsStay(cat', cat, present')
  <2>1. job.kind = "Snapshot" /\ job.step = "remove" /\ cat' = Removed(cat, job.gone) /\ present' = present
    BY <1>1 DEF SnapshotRemoves, JobDoes
  <2> QED
    BY <1>0, <2>1, RestStays DEF GoneIsGone
<1>2. ASSUME CatchUpRemovesSnapshots PROVE RowsStay(cat', cat, present')
  <2>1. catchUp.step = "snapshots" /\ cat' = Removed(cat, catchUp.snapshots) /\ present' = present
    BY <1>2 DEF CatchUpRemovesSnapshots
  <2> QED
    BY <1>0, <2>1, RestStays DEF GoneIsGone
<1> QED
  BY <1>1, <1>2, StepTakes

(* A new archive is in no row. *)
LEMMA NewInNoRow ==
  ASSUME Orders, NEW s \in DOMAIN cat.rows
  PROVE  cat.rows[s].name # NextName
<1>1. PICK n \in Nat : n = Len(made) /\ DOMAIN made = 1 .. n /\ NextName = n + 1
  BY OrdersNow DEF NextName
<1>2. cat.rows[s].name \in 1 .. n
  BY <1>1, OrdersNow DEF Sound, Fits
<1> QED
  BY <1>1, <1>2

(* What has left its store does not come back. *)
LEMMA StaysGone ==
  ASSUME Orders, NEW seqs, seqs \subseteq In(cat, "fs-snapshot"), LeftStore(seqs, cat, present), Aside
  PROVE  LeftStore(seqs, cat', present')
<1>1. seqs \subseteq DOMAIN cat.rows /\ cat' = cat
  BY DEF In, Aside
<1>2. \A s \in seqs : cat.rows[s].name # NextName
  BY <1>1, NewInNoRow
<1> QED
  BY <1>1, <1>2 DEF LeftStore, Aside

(* Without failures, a store that is asked to remove archives removes them. *)
LEMMA Unstuck ==
  ASSUME "removal fails" \notin Circumstances, NEW names, NEW stuck \in Stuck(names)
  PROVE  stuck = {}
BY ZenonT(30) DEF Stuck, May

(* What the bookkeeping is at after a step. *)
LEMMA CatchUpNext ==
  ASSUME Steady, Orderly, "Offline" \notin Kinds, Next
  PROVE  \/ catchUp'.step # "snapshots"
         \/ \E month, day : CatchUpReads(month, day)
         \/ Aside
<1>0. Orders
  BY DEF Steady
<1>1. SUFFICES ASSUME catchUp'.step = "snapshots", ~\E month, day : CatchUpReads(month, day)
               PROVE  Aside
  OBVIOUS
<1>2. job' = NoJob /\ ~Busy(index')
  <2>1. Orders'
    BY SteadyKept DEF Steady
  <2>2. OneAtATime(job', index', catchUp')
    BY <2>1 DEF Orders
  <2>3. Owes(catchUp')
    BY <1>1 DEF Owes
  <2> QED
    BY <2>2, <2>3 DEF OneAtATime
<1>3. ASSUME catchUp' = catchUp, job # NoJob \/ Busy(index) \/ ~Owes(catchUp) PROVE FALSE
  BY <1>0, <1>1, <1>3, OrdersNow DEF OneAtATime, Owes
<1>4. ~CatchUpMarks /\ ~CatchUpRemovesSnapshots
  <2>1. \A u \in CatchUp : \A a, b : [u EXCEPT !.step = "read", !.owed = a, !.at = b].step = "read"
    BY DEF CatchUp
  <2>2. \A u \in CatchUp : \A a, b : [u EXCEPT !.snapshots = a, !.step = b].step = b
    BY DEF CatchUp
  <2>3. catchUp \in CatchUp
    BY <1>0, OrdersNow
  <2>4. ~CatchUpMarks
    <3>1. ASSUME CatchUpMarks PROVE catchUp' = [catchUp EXCEPT !.step = "read", !.owed = @ - 1, !.at = Now]
      BY <3>1 DEF CatchUpMarks
    <3>2. ASSUME CatchUpMarks PROVE catchUp'.step = "read"
      BY <2>1, <2>3, <3>1, <3>2, ZenonT(30)
    <3> QED
      BY <1>1, <3>2
  <2>5. ~CatchUpRemovesSnapshots
    <3>1. ASSUME CatchUpRemovesSnapshots
          PROVE  \E b \in {"none", "delete"} : catchUp' = [catchUp EXCEPT !.snapshots = {}, !.step = b]
      BY <3>1 DEF CatchUpRemovesSnapshots
    <3>2. ASSUME CatchUpRemovesSnapshots PROVE catchUp'.step \in {"none", "delete"}
      <4>1. PICK b \in {"none", "delete"} : catchUp' = [catchUp EXCEPT !.snapshots = {}, !.step = b]
        BY <3>1, <3>2
      <4>2. catchUp'.step = b
        BY <2>2, <2>3, <4>1, ZenonT(30)
      <4> QED
        BY <4>1, <4>2
    <3> QED
      BY <1>1, <3>2
  <2> QED
    BY <2>4, <2>5
<1>5. ~CatchUpSteps
  BY <1>0, <1>1, <1>4, NothingSpooled, Zenon DEF CatchUpSteps
<1>6. ~BackupFinishes \/ job.step \notin {"prune", "reconcile"}
  <2>1. ASSUME BackupFinishes, job.step \in {"prune", "reconcile"} PROVE FALSE
    <3>1. catchUp' = [catchUp EXCEPT !.owed = @ + 1] /\ job # NoJob
      BY <2>1, AtWork DEF BackupFinishes
    <3>2. ~Owes(catchUp) /\ catchUp \in CatchUp
      BY <1>0, <3>1, OrdersNow DEF OneAtATime
    <3>3. \A u \in CatchUp : \A a : [u EXCEPT !.owed = a].step = u.step
      BY DEF CatchUp
    <3> QED
      BY <1>1, <3>1, <3>2, <3>3 DEF Owes
  <2> QED
    BY <2>1
<1>7. ~BackupSteps
  <2>1. \A files, ts : BackupCreates(files, ts) => MayStartAlone("Backup") /\ catchUp' = catchUp
    BY ZenonT(30) DEF BackupCreates
  <2>2. JobAppends => job.step = "append" /\ catchUp' = catchUp
    BY ZenonT(30) DEF JobAppends
  <2>3. BackupIngests => job.step = "ingest" /\ catchUp' = catchUp
    BY ZenonT(30) DEF BackupIngests, JobDoes
  <2>4. ListingFails => job.step = "ingest" /\ catchUp' = catchUp
    BY ZenonT(30) DEF ListingFails
  <2>5. \A n : BackupPrunes(n) => job.step = "prune" /\ catchUp' = catchUp
    BY ZenonT(30) DEF BackupPrunes, JobDoes
  <2>6. ~BackupReconciles /\ ~BackupSkipsReconcile
    BY <1>6, ZenonT(30) DEF BackupReconciles, BackupSkipsReconcile
  <2>7. JobStops => job.step \in {"append", "ingest", "prune"} /\ catchUp' = catchUp
    BY ZenonT(30) DEF JobStops
  <2>8. job.step \in {"append", "ingest", "prune"} => job # NoJob
    BY AtWork
  <2>9. MayStartAlone("Backup") => ~Owes(catchUp)
    BY StartsAlone DEF MayStartAlone
  <2> QED
    BY <1>3, <2>1, <2>2, <2>3, <2>4, <2>5, <2>6, <2>7, <2>8, <2>9 DEF BackupSteps
<1>8. ~IndexSteps
  <2>1. ASSUME NEW i \in Indexer, IndexSyncs(i) PROVE FALSE
    <3>1. MayStart("Index") /\ catchUp' = catchUp
      BY <2>1 DEF IndexSyncs
    <3> QED
      BY <1>3, <3>1, StartsAlone
  <2>2. ASSUME NEW i \in Indexer, IndexReads(i) \/ IndexIngests(i) \/ IndexPassesOver(i) \/ IndexEnds(i)
        PROVE  FALSE
    <3>1. index[i].step \in {"read", "ingest"} /\ catchUp' = catchUp
      BY <2>2, ZenonT(30) DEF IndexReads, IndexIngests, IndexPassesOver, IndexEnds
    <3>2. Busy(index)
      BY <3>1 DEF Busy
    <3> QED
      BY <1>3, <3>1, <3>2
  <2> QED
    BY <2>1, <2>2 DEF IndexSteps
<1>9. ~SnapshotSteps
  <2>1. \A files, ts : SnapshotTakes(files, ts) => MayStartAlone("Snapshot") /\ catchUp' = catchUp
    BY ZenonT(30) DEF SnapshotTakes
  <2>2. SnapshotIngests => job.kind = "Snapshot" /\ catchUp' = catchUp
    BY ZenonT(30) DEF SnapshotIngests, JobDoes
  <2>3. SnapshotRemoves => job.kind = "Snapshot" /\ catchUp' = catchUp
    BY ZenonT(30) DEF SnapshotRemoves, JobDoes
  <2>4. \A n : SnapshotExpires(n) => job.kind = "Snapshot" /\ catchUp' = catchUp
    BY ZenonT(30) DEF SnapshotExpires, JobDoes
  <2>5. job.kind = "Snapshot" => job # NoJob
    BY AtWork
  <2>6. MayStartAlone("Snapshot") => ~Owes(catchUp)
    BY StartsAlone DEF MayStartAlone
  <2> QED
    BY <1>3, <2>1, <2>2, <2>3, <2>4, <2>5, <2>6 DEF SnapshotSteps
<1>10. SnapperSteps => Aside
  <2>1. \A files, ts : SnapperTakes(files, ts) => Aside
    BY DEF SnapperTakes, Makes, Aside
  <2>2. \A n : SnapperDeletes(n) => Aside
    BY DEF SnapperDeletes, Aside
  <2>3. SnapperSyncs => MayStartAlone("Snapper") /\ catchUp' = catchUp
    BY ZenonT(30) DEF SnapperSyncs
  <2>4. MayStartAlone("Snapper") => ~Owes(catchUp)
    BY StartsAlone DEF MayStartAlone
  <2>5. SnapperReads => job.kind = "Snapper" /\ catchUp' = catchUp
    BY ZenonT(30) DEF SnapperReads, JobDoes
  <2>6. job.kind = "Snapper" => job # NoJob
    BY AtWork
  <2> QED
    BY <1>3, <2>1, <2>2, <2>3, <2>4, <2>5, <2>6 DEF SnapperSteps
<1>11. ~Crash /\ ~CrashInSnapshot
  <2>1. Crash \/ CrashInSnapshot => catchUp' = NotCatchingUp
    BY ZenonT(30) DEF Crash, CrashInSnapshot, Killed
  <2> QED
    BY <1>1, <2>1, Afresh
<1> QED
  BY <1>5, <1>7, <1>8, <1>9, <1>10, <1>11, NothingOffline, Zenon DEF Next

(* What has been read as old is deleted there and then. *)
LEMMA OldLeaves ==
  ASSUME Orders, NEW old, NEW stuck \in Stuck(NamesAt(old)), "removal fails" \notin Circumstances,
         present' = present \ (NamesAt(old) \ stuck), cat' = cat
  PROVE  LeftStore(old, cat', present')
<1>1. stuck = {}
  BY Unstuck
<1> QED
  BY <1>1 DEF LeftStore, NamesAt

(* Every step keeps what is to be taken out gone. *)
LEMMA GoneStaysGone ==
  ASSUME Steady, GoneIsGone, Orderly, "Offline" \notin Kinds, "removal fails" \notin Circumstances, Next
  PROVE  GoneIsGone'
<1>0. Orders
  BY DEF Steady
<1>1. ASSUME job'.kind = "Snapshot", job'.step = "remove" PROVE LeftStore(job'.gone, cat', present')
  <2>1. CASE Aside
    <3>1. job' = job /\ job.gone \subseteq In(cat, "fs-snapshot") /\ LeftStore(job.gone, cat, present)
      BY <1>0, <1>1, <2>1, OrdersNow DEF Aside, GoneIsGone, JobFits
    <3>2. LeftStore(job.gone, cat', present')
      BY <1>0, <2>1, <3>1, StaysGone
    <3> QED
      BY <3>1, <3>2
  <2>2. ASSUME NEW n, SnapshotExpires(n) PROVE LeftStore(job'.gone, cat', present')
    <3>1. PICK old :
            /\ job' = [job EXCEPT !.step = "remove", !.gone = old] /\ cat' = cat
            /\ \E stuck \in Stuck(NamesAt(old)) : present' = present \ (NamesAt(old) \ stuck)
      BY <2>2 DEF SnapshotExpires
    <3>2. LeftStore(old, cat', present')
      BY <1>0, <3>1, OldLeaves
    <3>3. job'.gone = old
      <4>1. \A j \in Job : \A S : [j EXCEPT !.step = "remove", !.gone = S].gone = S
        BY DEF Job
      <4>2. job \in Job
        BY <1>0, OrdersNow
      <4> QED
        BY <3>1, <4>1, <4>2, Zenon
    <3> QED
      BY <3>2, <3>3
  <2>3. job' # NoJob /\ job'.step \notin Early
    BY <1>1, NoJobFits DEF Early
  <2> QED
    BY <2>1, <2>2, <2>3, JobNext
<1>2. ASSUME catchUp'.step = "snapshots" PROVE LeftStore(catchUp'.snapshots, cat', present')
  <2>1. CASE Aside
    <3>1. /\ catchUp' = catchUp /\ catchUp.snapshots \subseteq In(cat, "fs-snapshot")
          /\ LeftStore(catchUp.snapshots, cat, present)
      BY <1>0, <1>2, <2>1, OrdersNow DEF Aside, GoneIsGone, CatchFits
    <3>2. LeftStore(catchUp.snapshots, cat', present')
      BY <1>0, <2>1, <3>1, StaysGone
    <3> QED
      BY <3>1, <3>2
  <2>2. ASSUME NEW month, NEW day, CatchUpReads(month, day) PROVE LeftStore(catchUp'.snapshots, cat', present')
    <3>1. PICK old, spooled, names :
            /\ catchUp' = [catchUp EXCEPT !.snapshots = old, !.spooled = spooled, !.names = names,
                             !.at = 0, !.step = "snapshots"]
            /\ cat' = cat
            /\ \E stuck \in Stuck(NamesAt(old)) : present' = present \ (NamesAt(old) \ stuck)
      BY <2>2 DEF CatchUpReads
    <3>2. LeftStore(old, cat', present')
      BY <1>0, <3>1, OldLeaves
    <3>3. catchUp'.snapshots = old
      <4>1. PICK u \in CatchUp : u = catchUp
        BY <1>0, OrdersNow
      <4>2. PICK v : v = [u EXCEPT !.snapshots = old, !.spooled = spooled, !.names = names,
                            !.at = 0, !.step = "snapshots"]
        OBVIOUS
      <4>3. v.snapshots = old
        BY <4>2 DEF CatchUp
      <4> QED
        BY <3>1, <4>1, <4>2, <4>3
    <3> QED
      BY ZenonT(60), <3>2, <3>3
  <2> QED
    BY <1>2, <2>1, <2>2, CatchUpNext
<1> QED
  BY <1>1, <1>2 DEF GoneIsGone

RowsInv == Steady /\ GoneIsGone

(* A row leaves the catalogue only when its archive has left its store: an expiry, *)
(* a reconciling and a prune never take another archive's row by acting on a       *)
(* position read before, on a machine whose local protection is filesystem         *)
(* snapshots and whose snapshots can be deleted (pipeline.rs, service/mod.rs).      *)
THEOREM RowsGoWithTheirArchives ==
  ASSUME Orderly, "Offline" \notin Kinds, "removal fails" \notin Circumstances
  PROVE  Spec => DropsOnlyWhatIsGone
<1>1. Init => RowsInv
  <2> SUFFICES ASSUME Init PROVE RowsInv
    OBVIOUS
  <2>1. job.step = "none" /\ catchUp.step = "none"
    BY NoJobFits, Afresh DEF Init
  <2> QED
    BY <2>1, SteadyInit DEF RowsInv, GoneIsGone
<1>2. RowsInv /\ [Next]_vars => RowsInv'
  <2> SUFFICES ASSUME RowsInv, [Next]_vars PROVE RowsInv'
    OBVIOUS
  <2>1. CASE Next
    BY <2>1, SteadyKept, GoneStaysGone DEF RowsInv
  <2>2. CASE UNCHANGED vars
    <3>1. GoneIsGone'
      BY <2>2 DEF vars, RowsInv, GoneIsGone, LeftStore
    <3> QED
      BY <2>2, <3>1, SteadyStays DEF RowsInv
  <2> QED
    BY <2>1, <2>2
<1>3. RowsInv /\ [Next]_vars => [\A n \in Names(cat) \ Names(cat)' : n \notin present']_vars
  <2> SUFFICES ASSUME RowsInv, Next PROVE \A n \in Names(cat) \ Names(cat)' : n \notin present'
    OBVIOUS
  <2>1. cat' = cat \/ RowsStay(cat', cat, present')
    BY StepStays DEF RowsInv
  <2>2. \A n : (n \in Names(cat) <=> HasRow(cat, n)) /\ (n \in Names(cat)' <=> HasRow(cat', n))
    BY DEF Names, HasRow
  <2> QED
    BY <2>1, <2>2 DEF RowsStay
<1> QED
  BY <1>1, <1>2, <1>3, PTL DEF Spec, DropsOnlyWhatIsGone

-----------------------------------------------------------------------------
(* A cataloguing job that comes to its end has left nothing it could read. *)

(* Every row that waits, of an archive the destination has, is on the list. *)
Complete(todo, c, all, there) ==
  \A s \in DOMAIN c.rows :
    c.rows[s].pending /\ c.rows[s].name \in there /\ all[c.rows[s].name].repo = "primary"
      => \E k \in DOMAIN todo : todo[k].seq = s

AllToRead == \A i \in Indexer : index[i].step = "ingest" => Complete(index[i].todo, cat, made, present)

(* The list that is made of what waits has all of it. *)
LEMMA PendingCovers ==
  ASSUME NEW c, NEW all, NEW there, c.rows \in Seq(Row), Fits(c.rows, all)
  PROVE  Complete(Pending(c), c, all, there)
<1>1. PICK rows \in Seq(Row), n \in Nat : rows = c.rows /\ n = Len(rows) /\ DOMAIN rows = 1 .. n
  OBVIOUS
<1>2. PICK K : K = {s \in DOMAIN rows : rows[s].pending /\ rows[s].repo # "snapper"}
  OBVIOUS
<1>3. K \in SUBSET (1 .. n)
  BY <1>1, <1>2
<1>4. IsFiniteSet(K) /\ Cardinality(K) \in Nat
  <2>1. IsFiniteSet(1 .. n)
    BY FS_Interval
  <2> QED
    BY <1>3, <2>1, FS_Subset, FS_CardinalityType
<1>5. PICK m, seqs : m \in Nat /\ m = Cardinality(K) /\ seqs = Falling(K)
  BY <1>4
<1>6. DOMAIN seqs = 1 .. m /\ \A s \in K : \E k \in 1 .. m : seqs[k] = s
  <2>1. DOMAIN Falling(K) = 1 .. m /\ \A s \in K : \E k \in 1 .. m : Falling(K)[k] = s
    BY ZenonT(60), <1>3, <1>5, DescendingIs
  <2> QED
    BY <1>5, <2>1
<1>7. NewestFirst(K) = seqs
  BY <1>5, OrderedIs
<1>8. PICK todo : todo = Pending(c)
  BY SMTT(30)
<1>9. todo = [k \in 1 .. m |-> [seq |-> seqs[k], name |-> rows[seqs[k]].name]]
  BY ZenonT(60), <1>1, <1>2, <1>6, <1>7, <1>8 DEF Pending
<1>10. DOMAIN todo = 1 .. m /\ \A k \in 1 .. m : todo[k].seq = seqs[k]
  BY <1>9
<1>11. ASSUME NEW s \in DOMAIN rows, rows[s].pending, all[rows[s].name].repo = "primary"
       PROVE  \E k \in DOMAIN todo : todo[k].seq = s
  <2>1. rows[s].repo # "snapper"
    BY <1>1, <1>11 DEF Fits
  <2>2. s \in K
    BY <1>2, <1>11, <2>1
  <2> QED
    BY <1>6, <1>10, <2>2
<1>12. Complete(todo, c, all, there)
  BY <1>1, <1>11 DEF Complete
<1> QED
  BY <1>8, <1>12

(* The rest of the list has all that waits when the first has been read, or *)
(* could not be.                                                            *)
LEMMA RestCovers ==
  ASSUME NEW todo \in Seq(Awaiting), todo # <<>>, NEW c, NEW d, NEW all, NEW there, Complete(todo, c, all, there),
         \/ IsRead(d, c, Head(todo).seq)
         \/ /\ d = c /\ c.rows[Head(todo).seq].name = Head(todo).name
            /\ ~(Head(todo).name \in there /\ all[Head(todo).name].repo = "primary")
  PROVE  Complete(Tail(todo), d, all, there)
<1>1. PICK n \in Nat : n = Len(todo) /\ DOMAIN todo = 1 .. n
  OBVIOUS
<1>2. PICK rest : rest = Tail(todo)
  OBVIOUS
<1>3. /\ Head(todo) = todo[1] /\ DOMAIN rest = 1 .. n - 1
      /\ \A k \in 1 .. n - 1 : rest[k] = todo[k + 1]
  BY <1>1, <1>2
<1>4. \A k \in 1 .. n : k = 1 \/ (k - 1 \in 1 .. n - 1 /\ (k - 1) + 1 = k)
  BY <1>1
<1>5. ASSUME NEW s \in DOMAIN d.rows, d.rows[s].pending, d.rows[s].name \in there,
             all[d.rows[s].name].repo = "primary"
      PROVE  \E k \in DOMAIN rest : rest[k].seq = s
  <2>1. /\ s \in DOMAIN c.rows /\ c.rows[s].pending /\ c.rows[s].name = d.rows[s].name
        /\ s # Head(todo).seq
    BY <1>5 DEF IsRead
  <2>2. PICK k \in DOMAIN todo : todo[k].seq = s
    BY <1>5, <2>1 DEF Complete
  <2>3. k # 1
    BY <1>3, <2>1, <2>2
  <2>4. k - 1 \in 1 .. n - 1 /\ (k - 1) + 1 = k
    BY <1>1, <1>4, <2>2, <2>3
  <2>5. PICK l \in 1 .. n - 1 : l + 1 = k
    BY <2>4
  <2>6. l \in DOMAIN rest /\ rest[l].seq = s
    BY <1>3, <2>2, <2>5
  <2> QED
    BY <2>6
<1> QED
  BY <1>2, <1>5 DEF Complete

(* What may happen while a cataloguing job goes through its list. *)
LEMMA WhileIndexing ==
  ASSUME Steady, Orderly, "Offline" \notin Kinds, Next, NEW i \in Indexer, index'[i].step = "ingest"
  PROVE  \/ IndexReads(i) \/ IndexIngests(i) \/ IndexPassesOver(i)
         \/ \E files \in Listing, ts \in Timestamps : SnapperTakes(files, ts)
         \/ \E n : SnapperDeletes(n)
<1>0. Orders /\ index \in [Indexer -> IndexJob]
  BY OrdersNow DEF Steady
<1>1. ASSUME index' = index, job # NoJob \/ Owes(catchUp) \/ ~Busy(index) PROVE FALSE
  <2>1. Busy(index)
    BY <1>1 DEF Busy
  <2> QED
    BY <1>0, <1>1, <2>1, OrdersNow DEF OneAtATime
<1>2. \A kind : MayStartAlone(kind) => ~Busy(index)
  BY StartsAlone DEF MayStartAlone
<1>3. ~BackupSteps
  <2>1. \A files, ts : BackupCreates(files, ts) => MayStartAlone("Backup") /\ index' = index
    BY ZenonT(30) DEF BackupCreates
  <2>2. JobAppends => job.step = "append" /\ index' = index
    BY ZenonT(30) DEF JobAppends
  <2>3. BackupIngests => job.step = "ingest" /\ index' = index
    BY ZenonT(30) DEF BackupIngests, JobDoes
  <2>4. ListingFails => job.step = "ingest" /\ index' = index
    BY ZenonT(30) DEF ListingFails
  <2>5. \A n : BackupPrunes(n) => job.step = "prune" /\ index' = index
    BY ZenonT(30) DEF BackupPrunes, JobDoes
  <2>6. BackupReconciles \/ BackupSkipsReconcile => job.kind = "Backup" /\ index' = index
    BY ZenonT(30) DEF BackupReconciles, BackupSkipsReconcile, BackupFinishes
  <2>7. JobStops => job.step \in {"append", "ingest", "prune"} /\ index' = index
    BY ZenonT(30) DEF JobStops
  <2>8. job.step \in {"append", "ingest", "prune"} \/ job.kind = "Backup" => job # NoJob
    BY AtWork
  <2> QED
    BY <1>1, <1>2, <2>1, <2>2, <2>3, <2>4, <2>5, <2>6, <2>7, <2>8 DEF BackupSteps
<1>4. IndexSteps => IndexReads(i) \/ IndexIngests(i) \/ IndexPassesOver(i)
  <2>1. ASSUME NEW k \in Indexer, IndexSyncs(k) PROVE FALSE
    <3>1. index' = [index EXCEPT ![k].step = "read"] /\ k = i
      BY <2>1 DEF IndexSyncs, Orderly
    <3>2. \A x \in IndexJob : [x EXCEPT !.step = "read"].step = "read"
      BY DEF IndexJob
    <3>3. index'[i].step = "read"
      BY <1>0, <3>1, <3>2
    <3> QED
      BY <3>3
  <2>2. ASSUME NEW k \in Indexer, IndexEnds(k) PROVE FALSE
    <3>1. index' = [index EXCEPT ![k] = Resting] /\ k = i
      BY <2>2 DEF IndexEnds, Orderly
    <3>2. index'[i].step = "none"
      BY <1>0, <3>1, RestingIs
    <3> QED
      BY <3>2
  <2>3. \A k \in Indexer : k = i
    BY DEF Orderly
  <2> QED
    BY <2>1, <2>2, <2>3, Zenon DEF IndexSteps
<1>5. ~SnapshotSteps
  <2>1. \A files, ts : SnapshotTakes(files, ts) => MayStartAlone("Snapshot") /\ index' = index
    BY ZenonT(30) DEF SnapshotTakes
  <2>2. SnapshotIngests \/ SnapshotRemoves => job.kind = "Snapshot" /\ index' = index
    BY ZenonT(30) DEF SnapshotIngests, SnapshotRemoves, JobDoes
  <2>3. \A n : SnapshotExpires(n) => job.kind = "Snapshot" /\ index' = index
    BY ZenonT(30) DEF SnapshotExpires, JobDoes
  <2>4. job.kind = "Snapshot" => job # NoJob
    BY AtWork
  <2> QED
    BY <1>1, <1>2, <2>1, <2>2, <2>3, <2>4 DEF SnapshotSteps
<1>6. ~SnapperSyncs /\ ~SnapperReads
  <2>1. SnapperSyncs => MayStartAlone("Snapper") /\ index' = index
    BY ZenonT(30) DEF SnapperSyncs
  <2>2. SnapperReads => job.kind = "Snapper" /\ index' = index
    BY ZenonT(30) DEF SnapperReads, JobDoes
  <2>3. job.kind = "Snapper" => job # NoJob
    BY AtWork
  <2> QED
    BY <1>1, <1>2, <2>1, <2>2, <2>3
<1>7. ~CatchUpSteps
  <2>1. \A month, day : CatchUpReads(month, day) => index' = index /\ catchUp.step = "read"
    BY ZenonT(30) DEF CatchUpReads
  <2>2. CatchUpMarks => index' = index /\ catchUp.owed > 0
    BY ZenonT(30) DEF CatchUpMarks
  <2>3. CatchUpRemovesSnapshots => index' = index /\ catchUp.step = "snapshots"
    BY ZenonT(30) DEF CatchUpRemovesSnapshots
  <2>4. ~CatchUpDeletes /\ ~CatchUpRemovesSpooled
    BY <1>0, NothingSpooled
  <2>5. catchUp.step = "read" \/ catchUp.owed > 0 \/ catchUp.step = "snapshots" => Owes(catchUp)
    BY DEF Owes
  <2> QED
    BY <1>1, <2>1, <2>2, <2>3, <2>4, <2>5, Zenon DEF CatchUpSteps
<1>8. ~Crash /\ ~CrashInSnapshot
  <2>1. Crash \/ CrashInSnapshot => index' = [k \in Indexer |-> Resting]
    BY ZenonT(30) DEF Crash, CrashInSnapshot, Killed
  <2> QED
    BY <2>1, RestingIs
<1> QED
  BY <1>3, <1>4, <1>5, <1>6, <1>7, <1>8, NothingOffline, Zenon DEF Next, SnapperSteps

(* Every step keeps the list complete. *)
LEMMA AllToReadKept ==
  ASSUME Steady, AllToRead, Orderly, "Offline" \notin Kinds, "listing fails" \notin Circumstances, Next
  PROVE  AllToRead'
<1>0. Orders /\ index \in [Indexer -> IndexJob]
  BY OrdersNow DEF Steady
<1> SUFFICES ASSUME NEW i \in Indexer, index'[i].step = "ingest"
             PROVE  Complete(index'[i].todo, cat', made', present')
  BY DEF AllToRead
<1>1. ASSUME IndexReads(i) PROVE Complete(index'[i].todo, cat', made', present')
  <2>1. index' = [index EXCEPT ![i] = [step |-> "ingest", todo |-> Pending(cat)]]
        /\ UNCHANGED <<cat, made, present>>
    BY <1>1 DEF IndexReads
  <2>2. index'[i].todo = Pending(cat)
    BY <1>0, <2>1
  <2>3. Complete(Pending(cat), cat, made, present)
    BY <1>0, OrdersNow, PendingCovers DEF Sound
  <2> QED
    BY <2>1, <2>2, <2>3
<1>2. ASSUME index[i].step = "ingest", index[i].todo # <<>>, index' = [index EXCEPT ![i].todo = Tail(@)]
      PROVE  /\ index[i].todo \in Seq(Awaiting) /\ Complete(index[i].todo, cat, made, present)
             /\ index'[i].todo = Tail(index[i].todo)
             /\ Awaited(cat, Head(index[i].todo).seq, Head(index[i].todo).name)
  <2>1. index[i] \in IndexJob
    BY <1>0
  <2>2. \A x \in IndexJob : \A t : [x EXCEPT !.todo = t].todo = t
    BY DEF IndexJob
  <2>3. index'[i] = [index[i] EXCEPT !.todo = Tail(index[i].todo)]
    BY <1>0, <1>2
  <2>4. index'[i].todo = Tail(index[i].todo)
    BY ZenonT(60), <2>1, <2>2, <2>3
  <2>5. Awaited(cat, Head(index[i].todo).seq, Head(index[i].todo).name)
    BY ZenonT(60), <1>0, <1>2, IndexNext
  <2> QED
    BY <1>2, <2>1, <2>4, <2>5, IndexJobs DEF AllToRead
<1>3. ASSUME IndexIngests(i) PROVE Complete(index'[i].todo, cat', made', present')
  <2>1. PICK next :
          /\ next = Head(index[i].todo) /\ index[i].step = "ingest" /\ index[i].todo # <<>>
          /\ Listable(next.name) /\ cat' = Ingested(cat, next.seq, made[next.name].listing)
          /\ index' = [index EXCEPT ![i].todo = Tail(@)] /\ UNCHANGED <<made, present>>
    BY <1>3 DEF IndexIngests
  <2>2. Awaited(cat, next.seq, next.name)
    BY <1>2, <2>1
  <2>3. next.name \in DOMAIN made /\ made[next.name].listing = made[next.name].shows
    BY <1>0, <2>1, OrdersNow DEF Listable, MadeFits
  <2>4. PICK s \in DOMAIN cat.rows : s = next.seq /\ cat.rows[s].name = next.name /\ cat.rows[s].pending
    BY ZenonT(60), <2>2 DEF Awaited
  <2>5. made \in Seq(Archive) /\ Sound(cat, made)
    BY ZenonT(60), <1>0, OrdersNow
  <2>6. IsRead(cat', cat, next.seq)
    BY ZenonT(60), <2>1, <2>3, <2>4, <2>5, IngestedSound
  <2>7. Complete(Tail(index[i].todo), cat', made, present)
    BY <1>2, <2>1, <2>6, RestCovers
  <2> QED
    BY <1>2, <2>1, <2>7
<1>4. ASSUME IndexPassesOver(i) PROVE Complete(index'[i].todo, cat', made', present')
  <2>1. /\ index[i].step = "ingest" /\ index[i].todo # <<>>
        /\ index' = [index EXCEPT ![i].todo = Tail(@)] /\ UNCHANGED <<cat, made, present>>
    BY <1>4 DEF IndexPassesOver
  <2>2. ~Listable(Head(index[i].todo).name)
    BY <1>4, Zenon DEF IndexPassesOver, May
  <2>3. /\ cat.rows[Head(index[i].todo).seq].name = Head(index[i].todo).name
        /\ ~(Head(index[i].todo).name \in present /\ made[Head(index[i].todo).name].repo = "primary")
    BY <1>2, <2>1, <2>2 DEF Awaited, Listable
  <2>4. Complete(Tail(index[i].todo), cat, made, present)
    BY <1>2, <2>1, <2>3, RestCovers
  <2> QED
    BY <1>2, <2>1, <2>4
<1>5. ASSUME UNCHANGED <<cat, index>>, \A n \in DOMAIN made : made'[n].repo = made[n].repo,
             present' \subseteq present \/ present' = present \cup {NextName}
      PROVE  Complete(index'[i].todo, cat', made', present')
  <2>1. Complete(index[i].todo, cat, made, present)
    BY <1>5 DEF AllToRead
  <2>2. \A s \in DOMAIN cat.rows : cat.rows[s].name # NextName /\ cat.rows[s].name \in DOMAIN made
    BY <1>0, NewInNoRow, OrdersNow DEF Sound, Fits
  <2> QED
    BY <1>5, <2>1, <2>2 DEF Complete
<1>6. ASSUME NEW files \in Listing, NEW ts \in Timestamps, SnapperTakes(files, ts)
      PROVE  Complete(index'[i].todo, cat', made', present')
  <2>1. DOMAIN files \subseteq SnapperScope /\ Makes("snapper", ts, files, files) /\ UNCHANGED <<cat, index>>
    BY <1>6 DEF SnapperTakes
  <2>2. \A n \in DOMAIN made : made'[n] = made[n]
    <3>1. "snapper" \in Repos \ {"spool"}
      BY DEF Repos
    <3> QED
      BY <1>0, <2>1, <3>1, OneMore
  <2>3. present' = present \cup {NextName}
    BY <2>1 DEF Makes
  <2> QED
    BY <1>5, <2>1, <2>2, <2>3
<1>7. ASSUME NEW n, SnapperDeletes(n) PROVE Complete(index'[i].todo, cat', made', present')
  <2>1. UNCHANGED <<cat, index, made>> /\ present' \subseteq present
    BY <1>7 DEF SnapperDeletes
  <2> QED
    BY <1>5, <2>1
<1> QED
  BY <1>1, <1>3, <1>4, <1>6, <1>7, WhileIndexing

(* An empty list is complete only when nothing waits. *)
LEMMA NoneCovers ==
  ASSUME NEW c, NEW all, NEW there, Complete(<<>>, c, all, there), NEW s \in DOMAIN c.rows
  PROVE  ~(c.rows[s].pending /\ c.rows[s].name \in there /\ all[c.rows[s].name].repo = "primary")
BY DEF Complete

ReadInv == Steady /\ AllToRead

(* When a cataloguing job comes to its end, no archive the destination has is left *)
(* waiting to be read, whatever jobs were cut short before it, on a machine whose   *)
(* local protection is filesystem snapshots and as long as Borg finishes the        *)
(* listings it starts (catch_up).                                                   *)
THEOREM NothingLeftToRead ==
  ASSUME Orderly, "Offline" \notin Kinds, "listing fails" \notin Circumstances
  PROVE  Spec => IndexLeavesNothing
<1>1. Init => ReadInv
  <2> SUFFICES ASSUME Init PROVE ReadInv
    OBVIOUS
  <2>1. \A i \in Indexer : index[i].step = "none"
    BY RestingIs DEF Init
  <2> QED
    BY <2>1, SteadyInit DEF ReadInv, AllToRead
<1>2. ReadInv /\ [Next]_vars => ReadInv'
  <2> SUFFICES ASSUME ReadInv, [Next]_vars PROVE ReadInv'
    OBVIOUS
  <2>1. CASE Next
    BY <2>1, SteadyKept, AllToReadKept DEF ReadInv
  <2>2. CASE UNCHANGED vars
    <3>1. AllToRead'
      BY <2>2 DEF vars, ReadInv, AllToRead
    <3> QED
      BY <2>2, <3>1, SteadyStays DEF ReadInv
  <2> QED
    BY <2>1, <2>2
<1>3. ReadInv /\ [Next]_vars =>
        [\A i \in Indexer : IndexCompletes(i) =>
           \A k \in DOMAIN Pending(cat) : ~Listable(Pending(cat)[k].name)]_vars
  <2> SUFFICES ASSUME ReadInv, NEW i \in Indexer, IndexCompletes(i), NEW k \in DOMAIN Pending(cat),
                      Listable(Pending(cat)[k].name)
               PROVE  FALSE
    OBVIOUS
  <2>1. PICK todo, name, s : todo = Pending(cat) /\ name = todo[k].name /\ s = todo[k].seq
    OBVIOUS
  <2>2. cat.rows \in Seq(Row)
    BY OrdersNow DEF ReadInv, Steady, Sound
  <2>3. Awaited(cat, s, name)
    BY <2>1, <2>2, PendingFits DEF TodoFits
  <2>4. Complete(<<>>, cat, made, present)
    BY DEF IndexCompletes, ReadInv, AllToRead
  <2>5. name \in present /\ made[name].repo = "primary"
    BY <2>1, Zenon DEF Listable
  <2>6. s \in DOMAIN cat.rows /\ cat.rows[s].name = name /\ cat.rows[s].pending
    BY <2>3, Zenon DEF Awaited
  <2> QED
    BY <2>4, <2>5, <2>6, NoneCovers, ZenonT(30)
<1> QED
  BY <1>1, <1>2, <1>3, PTL DEF Spec, IndexLeavesNothing

-----------------------------------------------------------------------------
(* The clock of a local snapshot, when no archive is ever in no row for long *)
(* enough that a sync_archives would slot it in.                             *)

(* Each row is one that was there, with the clock it had if that was started, *)
(* or is of an archive that was in no row.                                    *)
KeepsClocks(d, c) ==
  \A t \in DOMAIN d.rows :
    \/ ~HasRow(c, d.rows[t].name)
    \/ \E s \in DOMAIN c.rows :
         /\ d.rows[t].name = c.rows[s].name
         /\ c.rows[s].expirable # NoMark => d.rows[t].expirable = c.rows[s].expirable

(* A name is in one row. *)
LEMMA OneRowEach ==
  ASSUME NEW c, NEW all, Sound(c, all), NEW s \in DOMAIN c.rows, NEW t \in DOMAIN c.rows,
         c.rows[s].name = c.rows[t].name
  PROVE  s = t
<1>1. PICK n \in Nat, rows \in Seq(Row) : rows = c.rows /\ DOMAIN rows = 1 .. n
  BY RowsAre DEF Sound
<1>2. \A a, b \in 1 .. n : a < b => rows[a].name < rows[b].name
  BY <1>1 DEF Sound, Fits, InOrder
<1>3. rows[s].name \in Nat
  <2>1. \A r \in Row : r.name \in Nat
    BY DEF Row
  <2>2. rows[s] \in Row
    BY <1>1
  <2> HIDE DEF Row
  <2> QED
    BY <2>1, <2>2
<1>4. ~(rows[s].name < rows[s].name)
  BY <1>3
<1>5. s < t \/ t < s \/ s = t
  BY <1>1
<1> QED
  BY <1>1, <1>2, <1>4, <1>5

(* So what happens to its row happens to its clock. *)
LEMMA ClocksAre ==
  ASSUME NEW c, NEW all, Sound(c, all), NEW d, KeepsClocks(d, c), NEW s \in DOMAIN c.rows,
         c.rows[s].expirable # NoMark, NEW t \in DOMAIN d.rows, d.rows[t].name = c.rows[s].name
  PROVE  d.rows[t].expirable = c.rows[s].expirable
<1>1. HasRow(c, d.rows[t].name)
  BY DEF HasRow
<1>2. PICK r \in DOMAIN c.rows :
        /\ d.rows[t].name = c.rows[r].name
        /\ c.rows[r].expirable # NoMark => d.rows[t].expirable = c.rows[r].expirable
  BY <1>1 DEF KeepsClocks
<1>3. r = s
  BY <1>2, OneRowEach
<1> QED
  BY <1>2, <1>3

(* Reading changes no name and no clock. *)
LEMMA BrowsableRows ==
  ASSUME NEW c, c.rows \in Seq(Row), NEW s, NEW versions, NEW d, d = Browsable(c, s, versions)
  PROVE  /\ DOMAIN d.rows = DOMAIN c.rows
         /\ \A k \in DOMAIN c.rows : d.rows[k].name = c.rows[k].name /\ d.rows[k].expirable = c.rows[k].expirable
<1>0. PICK rows : rows = c.rows
  OBVIOUS
<1>1. rows \in Seq(Row) /\ rows = c.rows
  BY <1>0
<1>2. d.rows = [k \in DOMAIN rows |-> IF k = s THEN [rows[k] EXCEPT !.pending = FALSE] ELSE rows[k]]
  BY <1>1 DEF Browsable
<1>3. \A x \in Row : [x EXCEPT !.pending = FALSE].name = x.name /\ [x EXCEPT !.pending = FALSE].expirable = x.expirable
  BY DEF Row
<1> HIDE DEF Row
<1>4. \A k \in DOMAIN rows : rows[k] \in Row
  BY <1>1
<1> QED
  BY <1>1, <1>2, <1>3, <1>4

(* So it changes no clock. *)
LEMMA BrowsableClocks ==
  ASSUME NEW c, c.rows \in Seq(Row), NEW s, NEW versions, NEW d, d = Browsable(c, s, versions)
  PROVE  KeepsClocks(d, c)
<1>1. /\ DOMAIN d.rows = DOMAIN c.rows
      /\ \A k \in DOMAIN c.rows : d.rows[k].name = c.rows[k].name /\ d.rows[k].expirable = c.rows[k].expirable
  BY BrowsableRows
<1> QED
  BY <1>1 DEF KeepsClocks

(* A row at the end changes no other. *)
LEMMA AppendClocks ==
  ASSUME Orders, NEW n \in DOMAIN made, \A s \in DOMAIN cat.rows : cat.rows[s].name < n,
         NEW d, d = Appended(cat, RowFor(n))
  PROVE  KeepsClocks(d, cat) /\ d.rows \in Seq(Row)
<1>1. PICK rows \in Seq(Row), k \in Nat : rows = cat.rows /\ k = Len(rows) /\ DOMAIN rows = 1 .. k
  BY RowsAre, OrdersNow DEF Sound
<1>2. PICK row \in Row : row = RowFor(n) /\ row.name = n
  BY RowForIs
<1>3. d.rows = Append(rows, row)
  BY <1>1, <1>2, AppendsOne
<1>4. DOMAIN d.rows = 1 .. k + 1 /\ d.rows[k + 1] = row /\ \A s \in 1 .. k : d.rows[s] = rows[s]
  BY <1>1, <1>3
<1>5. \A s \in 1 .. k + 1 : s \in 1 .. k \/ s = k + 1
  OBVIOUS
<1>6. ~HasRow(cat, n)
  <2>1. n \in Nat /\ ~(n < n)
    BY OrdersNow
  <2> QED
    BY <2>1 DEF HasRow
<1>7. d.rows \in Seq(Row)
  <2>1. \A q \in Seq(Row), r \in Row : Append(q, r) \in Seq(Row)
    OBVIOUS
  <2> QED
    BY <1>1, <1>2, <1>3, <2>1
<1>8. ASSUME NEW t \in 1 .. k PROVE d.rows[t] = cat.rows[t] /\ t \in DOMAIN cat.rows
  BY <1>1, <1>4
<1> QED
  BY <1>2, <1>4, <1>5, <1>6, <1>7, <1>8 DEF KeepsClocks

(* What is left of the rows is as it was. *)
LEMMA RemovedClocks ==
  ASSUME Orders, NEW gone, NEW d, d = Removed(cat, gone)
  PROVE  KeepsClocks(d, cat)
<1>1. HasRest(d, cat, gone)
  BY SMTT(30), OrdersNow, RemovedSound
<1> QED
  BY <1>1 DEF HasRest, KeepsClocks

(* Every archive that a sync_archives would slot in has its row. *)
NoneLeft == \A n \in present : ~NotYet(n, cat, made, job)

(* So reconciling only takes rows out. *)
LEMMA SyncClocks ==
  ASSUME Orders, NoneLeft, job.step # "append", NEW repo \in {"primary", "snapper"},
         NEW d, d = Synced(cat, repo, Entries(repo))
  PROVE  KeepsClocks(d, cat)
<1> DEFINE names == {e.name : e \in Entries(repo)}
           gone == {s \in In(cat, repo) : cat.rows[s].name \notin names}
           tidy == Removed(cat, gone)
           known == {tidy.rows[s].name : s \in In(tidy, repo)}
           newcomers == {e \in Entries(repo) : e.name \notin known}
<1>1. d = IF newcomers = {} \/ ~Anchored(tidy) THEN tidy ELSE SlottedIn(tidy, repo, newcomers)
  BY DEF Synced
<1>2. ASSUME NEW e \in Entries(repo) PROVE e.name \in known
  <2>1. PICK n \in present : e.name = n /\ made[n].repo = repo
    BY DEF Entries
  <2>2. HasRow(cat, n)
    BY <2>1 DEF NoneLeft, NotYet
  <2>3. PICK s \in DOMAIN cat.rows : cat.rows[s].name = n
    BY <2>2 DEF HasRow
  <2>4. cat.rows[s].repo = repo
    BY <2>1, <2>3, OrdersNow DEF Sound, Fits
  <2>5. n \in names
    BY <2>1
  <2>6. s \notin gone
    BY <2>3, <2>5
  <2>7. HasRest(tidy, cat, gone)
    BY OrdersNow, RemovedSound
  <2>8. PICK k \in DOMAIN tidy.rows : tidy.rows[k] = cat.rows[s]
    BY <2>6, <2>7 DEF HasRest
  <2> HIDE DEF tidy, names, gone
  <2>9. k \in In(tidy, repo)
    BY SMTT(30), <2>4, <2>8 DEF In
  <2> QED
    BY <2>1, <2>3, <2>8, <2>9
<1>3. newcomers = {}
  BY <1>2
<1> HIDE DEF names, gone, newcomers
<1>4. d = Removed(cat, gone)
  BY <1>1, <1>3
<1> QED
  BY SMTT(30), <1>4, RemovedClocks

(* No step stops a clock that has started, or starts it again. *)
LEMMA StepClocks ==
  ASSUME Steady, NoneLeft, Orderly, "Offline" \notin Kinds, Next
  PROVE  cat' = cat \/ KeepsClocks(cat', cat)
<1>0. Orders /\ cat.rows \in Seq(Row)
  BY OrdersNow DEF Steady, Sound
<1>1. ASSUME JobAppends PROVE KeepsClocks(cat', cat)
  <2>1. job.step = "append" /\ cat' = Appended(cat, RowFor(job.name))
    BY <1>1 DEF JobAppends
  <2>2. job.name \in DOMAIN made /\ \A s \in DOMAIN cat.rows : cat.rows[s].name < job.name
    BY <1>0, <2>1, OrdersNow DEF JobFits, Archived
  <2> QED
    BY <1>0, <2>1, <2>2, AppendClocks
<1>2. ASSUME BackupIngests PROVE KeepsClocks(cat', cat)
  <2>1. \E s, versions : cat' = Browsable(cat, s, versions)
    BY <1>2 DEF BackupIngests, Ingested
  <2> QED
    BY <1>0, <2>1, BrowsableClocks
<1>3. ASSUME BackupReconciles PROVE KeepsClocks(cat', cat)
  <2>1. cat' = Synced(cat, "primary", Entries("primary")) /\ job.step \in {"prune", "reconcile"}
    BY <1>3 DEF BackupReconciles
  <2> QED
    BY <1>0, <2>1, SyncClocks
<1>4. ASSUME NEW i \in Indexer, IndexSyncs(i) PROVE KeepsClocks(cat', cat)
  <2>1. cat' = Synced(cat, "primary", Entries("primary")) /\ MayStart("Index")
    BY <1>4 DEF IndexSyncs
  <2>2. job.step # "append"
    BY SMTT(30), <2>1, StartsAlone, NoJobFits
  <2> QED
    BY <1>0, <2>1, <2>2, SyncClocks
<1>5. ASSUME NEW i \in Indexer, IndexIngests(i) PROVE KeepsClocks(cat', cat)
  <2>1. \E s, versions : cat' = Browsable(cat, s, versions)
    BY <1>5 DEF IndexIngests, Ingested
  <2> QED
    BY SMTT(30), <1>0, <2>1, BrowsableClocks
<1>6. ASSUME SnapshotIngests PROVE KeepsClocks(cat', cat)
  <2>1. PICK appended :
          /\ job.kind = "Snapshot" /\ job.step = "walk" /\ appended = Appended(cat, RowFor(job.name))
          /\ cat' = Ingested(appended, Len(appended.rows), made[job.name].listing)
    BY <1>6 DEF SnapshotIngests, JobDoes
  <2>2. job.name \in DOMAIN made /\ \A s \in DOMAIN cat.rows : cat.rows[s].name < job.name
    BY <1>0, <2>1, OrdersNow DEF JobFits, Archived
  <2>3. KeepsClocks(appended, cat) /\ appended.rows \in Seq(Row)
    BY <1>0, <2>1, <2>2, AppendClocks
  <2>4. PICK s, versions : cat' = Browsable(appended, s, versions)
    BY <2>1 DEF Ingested
  <2>5. PICK d : d = cat' /\ d = Browsable(appended, s, versions)
    BY <2>4
  <2>6. /\ DOMAIN d.rows = DOMAIN appended.rows
        /\ \A k \in DOMAIN appended.rows : /\ d.rows[k].name = appended.rows[k].name
                                           /\ d.rows[k].expirable = appended.rows[k].expirable
    BY <2>3, <2>5, BrowsableRows
  <2>7. KeepsClocks(d, cat)
    BY <2>3, <2>6 DEF KeepsClocks
  <2> QED
    BY <2>5, <2>7
<1>7. ASSUME SnapshotRemoves \/ CatchUpRemovesSnapshots PROVE KeepsClocks(cat', cat)
  <2>1. \E gone : cat' = Removed(cat, gone)
    BY <1>7 DEF SnapshotRemoves, CatchUpRemovesSnapshots
  <2> QED
    BY <1>0, <2>1, RemovedClocks
<1>8. ASSUME SnapperSyncs PROVE KeepsClocks(cat', cat)
  <2>1. cat' = Synced(cat, "snapper", Entries("snapper")) /\ MayStartAlone("Snapper")
    BY <1>8 DEF SnapperSyncs
  <2>2. job.step # "append"
    BY <2>1, StartsAlone, NoJobFits DEF MayStartAlone
  <2> QED
    BY <1>0, <2>1, <2>2, SyncClocks
<1>9. ASSUME SnapperReads, cat' # cat PROVE KeepsClocks(cat', cat)
  <2>1. PICK s, listing : cat' = ScopedIngested(cat, s, listing, SnapperScope)
    BY <1>9 DEF SnapperReads
  <2>2. \E versions : cat' = Browsable(cat, s, versions)
    BY <2>1 DEF ScopedIngested
  <2> QED
    BY <1>0, <2>2, BrowsableClocks
<1>10. ASSUME CatchUpMarks PROVE KeepsClocks(cat', cat)
  <2>1. PICK at, rows : rows = cat.rows /\ cat' = MarkedExpirable(cat, at)
    BY <1>10 DEF CatchUpMarks
  <2>2. cat'.rows = [s \in DOMAIN rows |->
                       IF rows[s].repo \in LocalRepos /\ rows[s].expirable = NoMark
                       THEN [rows[s] EXCEPT !.expirable = at] ELSE rows[s]]
    <3>1. IsCatalogue(cat)
      BY <1>0, OrdersNow DEF Sound
    <3>2. PICK versions : cat = [rows |-> rows, versions |-> versions]
      BY <2>1, <3>1 DEF IsCatalogue
    <3> QED
      BY <2>1, <3>2 DEF MarkedExpirable
  <2>3. \A s \in DOMAIN rows : rows[s] \in Row
    BY <1>0, <2>1
  <2>4. \A x \in Row : [x EXCEPT !.expirable = at].name = x.name
    BY DEF Row
  <2> HIDE DEF Row
  <2>5. DOMAIN cat'.rows = DOMAIN rows /\ \A s \in DOMAIN rows : cat'.rows[s].name = rows[s].name
    BY <2>2, <2>3, <2>4
  <2>6. \A s \in DOMAIN rows : rows[s].expirable # NoMark => cat'.rows[s] = rows[s]
    BY <2>2
  <2> QED
    BY <2>1, <2>5, <2>6 DEF KeepsClocks
<1>12. ASSUME CrashInSnapshot PROVE KeepsClocks(cat', cat)
  <2>1. job.kind = "Snapshot" /\ job.step = "walk" /\ cat' = Appended(cat, RowFor(job.name))
    BY <1>12 DEF CrashInSnapshot, JobDoes
  <2>2. job.name \in DOMAIN made /\ \A s \in DOMAIN cat.rows : cat.rows[s].name < job.name
    BY <1>0, <2>1, OrdersNow DEF JobFits, Archived
  <2> QED
    BY <1>0, <2>1, <2>2, AppendClocks
<1>13. BackupSteps => JobAppends \/ BackupIngests \/ BackupReconciles \/ cat' = cat
  BY ZenonT(60) DEF BackupSteps, BackupCreates, ListingFails, BackupPrunes, BackupSkipsReconcile, JobStops
<1>14. IndexSteps => cat' = cat \/ \E i \in Indexer : IndexSyncs(i) \/ IndexIngests(i)
  BY ZenonT(60) DEF IndexSteps, IndexReads, IndexPassesOver, IndexEnds
<1>15. SnapshotSteps => SnapshotIngests \/ SnapshotRemoves \/ cat' = cat
  BY ZenonT(60) DEF SnapshotSteps, SnapshotTakes, SnapshotExpires
<1>16. SnapperSteps => SnapperSyncs \/ SnapperReads \/ cat' = cat
  BY ZenonT(60) DEF SnapperSteps, SnapperTakes, SnapperDeletes
<1>17. CatchUpSteps => CatchUpMarks \/ CatchUpRemovesSnapshots \/ CatchUpRemovesSpooled \/ cat' = cat
  BY ZenonT(60) DEF CatchUpSteps, CatchUpReads, CatchUpDeletes
<1>18. Crash => cat' = cat
  BY ZenonT(60) DEF Crash
<1> QED
  BY <1>0, <1>1, <1>2, <1>3, <1>4, <1>5, <1>6, <1>7, <1>8, <1>9, <1>10, <1>12, <1>13, <1>14,
     <1>15, <1>16, <1>17, <1>18, NothingOffline, NothingSpooled, ZenonT(60) DEF Next

(* No archive that a sync_archives would slot in loses its row. *)
LEMMA StepKeepsLate ==
  ASSUME Steady, Orderly, "Offline" \notin Kinds, Next, present' \subseteq present
  PROVE  \A n \in present' : made[n].repo \in {"primary", "snapper"} /\ HasRow(cat, n) => HasRow(cat', n)
<1>0. Orders
  BY DEF Steady
<1>1. ASSUME NEW gone, gone \subseteq In(cat, "fs-snapshot"), cat' = Removed(cat, gone)
      PROVE  KeepsLate(cat', cat, made, present)
  BY <1>0, <1>1, SnapshotsLeave
<1>2. ASSUME SnapshotRemoves PROVE KeepsLate(cat', cat, made, present)
  <2>1. job.kind = "Snapshot" /\ job.step = "remove" /\ cat' = Removed(cat, job.gone)
    BY <1>2 DEF SnapshotRemoves, JobDoes
  <2>2. job.gone \subseteq In(cat, "fs-snapshot")
    BY <1>0, <2>1, OrdersNow DEF JobFits
  <2> QED
    BY <1>1, <2>1, <2>2
<1>3. ASSUME CatchUpRemovesSnapshots PROVE KeepsLate(cat', cat, made, present)
  <2>1. catchUp.step = "snapshots" /\ cat' = Removed(cat, catchUp.snapshots)
    BY <1>3 DEF CatchUpRemovesSnapshots
  <2>2. catchUp.snapshots \subseteq In(cat, "fs-snapshot")
    BY <1>0, <2>1, OrdersNow DEF CatchFits
  <2> QED
    BY <1>1, <2>1, <2>2
<1>4. cat' = cat \/ RowsStay(cat', cat, present') \/ KeepsLate(cat', cat, made, present)
  BY <1>2, <1>3, StepTakes
<1> QED
  BY <1>4 DEF RowsStay, KeepsLate

(* No archive in no row, no archive to slot in. *)
LEMMA NoneUnlisted ==
  ASSUME Orders, Newcomers = 0
  PROVE  /\ Cardinality(Unlisted) <= Newcomers => Unlisted = {}
         /\ ~(Cardinality(Unlisted) < Newcomers)
<1>1. PICK n \in Nat : DOMAIN made = 1 .. n
  BY OrdersNow
<1>2. Unlisted \in SUBSET (1 .. n)
  BY <1>1, OrdersNow DEF Unlisted
<1>3. IsFiniteSet(Unlisted) /\ Cardinality(Unlisted) \in Nat
  <2>1. IsFiniteSet(1 .. n)
    BY FS_Interval
  <2>2. IsFiniteSet(Unlisted)
    BY <1>2, <2>1, FS_Subset
  <2> QED
    BY <2>2, FS_CardinalityType
<1>4. Cardinality(Unlisted) <= Newcomers => Cardinality(Unlisted) = 0
  BY <1>3
<1>5. ~(Cardinality(Unlisted) < Newcomers)
  BY <1>3
<1> QED
  BY <1>3, <1>4, <1>5, FS_EmptySet

(* Every step keeps every such archive in its row. *)
LEMMA NoneLeftKept ==
  ASSUME Steady, NoneLeft, Orderly, Newcomers = 0, "Offline" \notin Kinds, Next
  PROVE  NoneLeft'
<1>0. Orders
  BY DEF Steady
<1>1. ASSUME UNCHANGED <<cat, made, present>>, Unlisted = {} PROVE NoneLeft'
  BY <1>1 DEF NoneLeft, NotYet, HasRow, Unlisted, Names
<1>2. ASSUME present' \subseteq present, \A n \in DOMAIN made : made'[n].repo = made[n].repo,
             job.step = "append" => job' = job \/ HasRow(cat', job.name)
      PROVE  NoneLeft'
  <2> SUFFICES ASSUME NEW n \in present', NotYet(n, cat', made', job') PROVE FALSE
    BY DEF NoneLeft
  <2>1. n \in present /\ n \in DOMAIN made
    BY <1>0, <1>2, OrdersNow
  <2>2. made[n].repo \in {"primary", "snapper"} /\ ~HasRow(cat', n)
    BY <1>2, <2>1 DEF NotYet
  <2>3. ~HasRow(cat, n)
    BY <1>2, <2>2, StepKeepsLate
  <2>4. job.step = "append" /\ n = job.name
    BY <2>1, <2>2, <2>3 DEF NoneLeft, NotYet
  <2> QED
    BY <1>2, <2>2, <2>4 DEF NotYet
<1>3. ASSUME NEW files \in Listing, NEW ts \in Timestamps, BackupCreates(files, ts) PROVE NoneLeft'
  <2>1. /\ MayStartAlone("Backup") /\ Makes("primary", ts, files, files) /\ cat' = cat
        /\ job' = [NoJob EXCEPT !.kind = "Backup", !.step = "append", !.name = NextName]
    BY <1>3 DEF BackupCreates
  <2>2. job'.step = "append" /\ job'.name = NextName
    BY <2>1 DEF NoJob
  <2>3. \A n \in DOMAIN made : made'[n] = made[n]
    <3>1. "primary" \in Repos \ {"spool"} /\ "primary" # "snapper"
      BY DEF Repos
    <3> QED
      BY <1>0, <2>1, <3>1, OneMore
  <2>4. job.step # "append"
    BY <2>1, StartsAlone, NoJobFits DEF MayStartAlone
  <2>5. ASSUME NEW n \in present, NotYet(n, cat', made', job') PROVE FALSE
    <3>1. n \in DOMAIN made
      BY <1>0, OrdersNow
    <3>2. NotYet(n, cat, made, job)
      BY <2>1, <2>3, <2>4, <2>5, <3>1 DEF NotYet
    <3> QED
      BY <3>2 DEF NoneLeft
  <2>6. present' = present \cup {NextName}
    BY <2>1 DEF Makes
  <2>7. ~NotYet(NextName, cat', made', job')
    BY <2>2 DEF NotYet
  <2> QED
    BY <2>5, <2>6, <2>7 DEF NoneLeft
<1>4. ASSUME NEW files \in Listing, NEW ts \in Timestamps, SnapshotTakes(files, ts) PROVE NoneLeft'
  <2>1. MayStartAlone("Snapshot") /\ Makes("fs-snapshot", ts, files, files) /\ cat' = cat
    BY <1>4 DEF SnapshotTakes
  <2>2. /\ made'[NextName].repo = "fs-snapshot" /\ \A n \in DOMAIN made : made'[n] = made[n]
    <3>1. "fs-snapshot" \in Repos \ {"spool"} /\ "fs-snapshot" # "snapper"
      BY DEF Repos
    <3> QED
      BY <1>0, <2>1, <3>1, OneMore
  <2>3. job.step # "append"
    BY <2>1, StartsAlone, NoJobFits DEF MayStartAlone
  <2>4. ASSUME NEW n \in present, NotYet(n, cat', made', job') PROVE FALSE
    <3>1. n \in DOMAIN made
      BY <1>0, OrdersNow
    <3>2. NotYet(n, cat, made, job)
      BY <2>1, <2>2, <2>3, <2>4, <3>1 DEF NotYet
    <3> QED
      BY <3>2 DEF NoneLeft
  <2>5. present' = present \cup {NextName}
    BY <2>1 DEF Makes
  <2>6. ~NotYet(NextName, cat', made', job')
    BY <2>2 DEF NotYet
  <2> QED
    BY <2>4, <2>5, <2>6 DEF NoneLeft
<1>5. ASSUME JobAppends PROVE NoneLeft'
  <2>1. job.step = "append" /\ cat' = Appended(cat, RowFor(job.name)) /\ UNCHANGED <<made, present>>
    BY <1>5 DEF JobAppends
  <2>2. job.name \in DOMAIN made /\ \A s \in DOMAIN cat.rows : cat.rows[s].name < job.name
    BY <1>0, <2>1, OrdersNow DEF JobFits, Archived
  <2>3. HasRow(cat', job.name)
    BY <1>0, <2>1, <2>2, AppendsOne
  <2> QED
    BY <1>2, <2>1, <2>3
<1>6. ASSUME JobStops \/ Crash PROVE NoneLeft'
  <2>1. Cardinality(Unlisted) <= Newcomers /\ UNCHANGED <<cat, made, present>>
    BY <1>6, ZenonT(30) DEF JobStops, Crash, Killed
  <2> QED
    BY <1>0, <1>1, <2>1, NoneUnlisted
<1>7. ASSUME BackupSteps PROVE NoneLeft'
  <2>1. BackupIngests => job.step = "ingest" /\ UNCHANGED <<made, present>>
    BY ZenonT(30) DEF BackupIngests, JobDoes
  <2>2. ListingFails => job.step = "ingest" /\ UNCHANGED <<made, present>>
    BY ZenonT(30) DEF ListingFails
  <2>3. \A n : BackupPrunes(n) => job.step = "prune" /\ made' = made /\ present' \subseteq present
    BY DEF BackupPrunes, JobDoes
  <2>4. BackupReconciles \/ BackupSkipsReconcile => job.step \in {"prune", "reconcile"} /\ UNCHANGED <<made, present>>
    BY ZenonT(30) DEF BackupReconciles, BackupSkipsReconcile, BackupFinishes
  <2>5. job.step \in {"ingest", "prune", "reconcile"} => job.step # "append"
    OBVIOUS
  <2>6. job.step \in {"ingest", "prune", "reconcile"} /\ made' = made /\ present' \subseteq present => NoneLeft'
    BY <1>2, <2>5
  <2> QED
    BY <1>3, <1>5, <1>6, <1>7, <2>1, <2>2, <2>3, <2>4, <2>6 DEF BackupSteps
<1>8. ASSUME IndexSteps PROVE NoneLeft'
  <2>1. UNCHANGED <<made, present, job>>
    BY <1>8, ZenonT(60) DEF IndexSteps, IndexSyncs, IndexReads, IndexIngests, IndexPassesOver, IndexEnds
  <2> QED
    BY <1>2, <2>1
<1>9. ASSUME SnapshotSteps PROVE NoneLeft'
  <2>1. SnapshotIngests \/ SnapshotRemoves => job.kind = "Snapshot" /\ UNCHANGED <<made, present>>
    BY ZenonT(30) DEF SnapshotIngests, SnapshotRemoves, JobDoes
  <2>2. \A n : SnapshotExpires(n) => job.kind = "Snapshot" /\ made' = made /\ present' \subseteq present
    BY DEF SnapshotExpires, JobDoes
  <2>3. job.kind = "Snapshot" => job.step # "append"
    BY <1>0, OrdersNow DEF JobFits
  <2>4. job.kind = "Snapshot" /\ made' = made /\ present' \subseteq present => NoneLeft'
    BY <1>2, <2>3
  <2> QED
    BY <1>4, <1>9, <2>1, <2>2, <2>4 DEF SnapshotSteps
<1>10. ASSUME SnapperSteps PROVE NoneLeft'
  <2>1. \A files, ts : ~SnapperTakes(files, ts)
    BY <1>0, NoneUnlisted DEF SnapperTakes
  <2>2. \A n : SnapperDeletes(n) => UNCHANGED <<made, job>> /\ present' \subseteq present
    BY DEF SnapperDeletes
  <2>3. SnapperSyncs => MayStartAlone("Snapper") /\ UNCHANGED <<made, present>>
    BY ZenonT(30) DEF SnapperSyncs
  <2>4. MayStartAlone("Snapper") => job.step # "append"
    BY StartsAlone, NoJobFits DEF MayStartAlone
  <2>5. ASSUME SnapperReads PROVE NoneLeft'
    <3>1. job.kind = "Snapper" /\ job.step = "walk" /\ present' = present
      BY <2>5, ZenonT(30) DEF SnapperReads, JobDoes
    <3>2. made' = made \/ \E name, shows : made' = [made EXCEPT ![name].shows = shows]
      BY <2>5, SMTT(30) DEF SnapperReads
    <3>3. \A n \in DOMAIN made : made'[n].repo = made[n].repo
      <4>1. made \in Seq(Archive)
        BY <1>0, OrdersNow
      <4>2. ASSUME NEW name, NEW shows, made' = [made EXCEPT ![name].shows = shows], NEW n \in DOMAIN made
            PROVE  made'[n].repo = made[n].repo
        <5>1. made'[n] = IF n = name THEN [made[n] EXCEPT !.shows = shows] ELSE made[n]
          BY <4>1, <4>2
        <5>2. PICK a \in Archive : a = made[n]
          BY <4>1
        <5>3. [a EXCEPT !.shows = shows].repo = a.repo
          BY DEF Archive
        <5> QED
          BY <5>1, <5>2, <5>3
      <4> QED
        BY <3>2, <4>2
    <3> QED
      BY <1>2, <3>1, <3>3
  <2> QED
    BY <1>2, <1>10, <2>1, <2>2, <2>3, <2>4, <2>5 DEF SnapperSteps
<1>11. ASSUME CatchUpSteps PROVE NoneLeft'
  <2>1. UNCHANGED <<made, job>>
    BY <1>11, ZenonT(60) DEF CatchUpSteps, CatchUpMarks, CatchUpReads, CatchUpRemovesSnapshots, CatchUpDeletes,
                             CatchUpRemovesSpooled
  <2>2. CatchUpMarks \/ CatchUpRemovesSnapshots => present' = present
    BY ZenonT(30) DEF CatchUpMarks, CatchUpRemovesSnapshots
  <2>3. \A month, day : CatchUpReads(month, day) => present' \subseteq present
    BY DEF CatchUpReads
  <2>4. present' \subseteq present
    BY <1>0, <1>11, <2>2, <2>3, NothingSpooled DEF CatchUpSteps
  <2> QED
    BY <1>2, <2>1, <2>4
<1>12. ASSUME CrashInSnapshot PROVE NoneLeft'
  <2>1. job.step = "walk" /\ UNCHANGED <<made, present>>
    BY <1>12, ZenonT(30) DEF CrashInSnapshot, Killed, JobDoes
  <2> QED
    BY <1>2, <2>1
<1> QED
  BY <1>6, <1>7, <1>8, <1>9, <1>10, <1>11, <1>12, NothingOffline, Zenon DEF Next

ClockInv == Steady /\ NoneLeft

(* The clock of a local snapshot, once a catch-up has started it, is never stopped *)
(* or started again for as long as the snapshot is in the catalogue, when no        *)
(* archive comes to be that is left in no row (mark_caught_up, pipeline.rs).        *)
THEOREM ClockIsKept ==
  ASSUME Orderly, Newcomers = 0, "Offline" \notin Kinds
  PROVE  Spec => ClockStartsOnce
<1>1. Init => ClockInv
  <2> SUFFICES ASSUME Init PROVE ClockInv
    OBVIOUS
  <2>1. present = {}
    BY DEF Init
  <2> QED
    BY <2>1, SteadyInit DEF ClockInv, NoneLeft
<1>2. ClockInv /\ [Next]_vars => ClockInv'
  <2> SUFFICES ASSUME ClockInv, [Next]_vars PROVE ClockInv'
    OBVIOUS
  <2>1. CASE Next
    BY <2>1, SteadyKept, NoneLeftKept DEF ClockInv
  <2>2. CASE UNCHANGED vars
    <3>1. NoneLeft'
      BY <2>2 DEF vars, ClockInv, NoneLeft
    <3> QED
      BY <2>2, <3>1, SteadyStays DEF ClockInv
  <2> QED
    BY <2>1, <2>2
<1>3. ClockInv /\ [Next]_vars =>
        [\A s \in DOMAIN cat.rows : cat.rows[s].expirable # NoMark
           => \A t \in DOMAIN cat'.rows : cat'.rows[t].name = cat.rows[s].name
                => cat'.rows[t].expirable = cat.rows[s].expirable]_vars
  <2> SUFFICES ASSUME ClockInv, Next, NEW s \in DOMAIN cat.rows, cat.rows[s].expirable # NoMark,
                      NEW t \in DOMAIN cat'.rows, cat'.rows[t].name = cat.rows[s].name
               PROVE  cat'.rows[t].expirable = cat.rows[s].expirable
    OBVIOUS
  <2>1. Sound(cat, made)
    BY OrdersNow DEF ClockInv, Steady
  <2>2. CASE cat' = cat
    BY <2>1, <2>2, OneRowEach
  <2>3. CASE KeepsClocks(cat', cat)
    BY <2>1, <2>3, ClocksAre
  <2> QED
    BY <2>2, <2>3, StepClocks DEF ClockInv
<1> QED
  BY <1>1, <1>2, <1>3, PTL DEF Spec, ClockStartsOnce
=============================================================================
