---------------------------- MODULE WindowProofs ----------------------------
(***************************************************************************)
(* The window, proved: whatever the person does, however the catalogue is  *)
(* changed and renumbered, and in whatever order answers come, once all is *)
(* answered the window shows what the backup it names holds.               *)
(*                                                                         *)
(* The argument is about what is on its way.  Either the catalogue will be *)
(* loaded once more (Coming), or every answer that is on its way is what   *)
(* would be answered now, and the last one that was asked for is the one   *)
(* that will be shown.  What could not be read is not answered: then the   *)
(* pane says so, the list is not taken for the folder's, or the window has *)
(* been told that the backups could not be loaded.                         *)
(***************************************************************************)
EXTENDS Window, WellFoundedInduction, TLAPS

-----------------------------------------------------------------------------
(* Numbers and sequences. *)

(* Numbers have a least. *)
LEMMA LeastOfSome ==
  ASSUME NEW S \in SUBSET Nat, S # {}
  PROVE  Min(S) \in S /\ \A n \in S : Min(S) <= n
<1>1. PICK l \in S : \A m \in S : ~(<<m, l>> \in OpToRel(<, Nat))
  BY NatLessThanWellFounded, WFMin
<1>2. ASSUME NEW m \in S PROVE l <= m
  <2>1. ~(m < l)
    BY <1>1 DEF OpToRel
  <2> QED
    BY <2>1
<1> QED
  BY <1>2 DEF Min

(* Numbers that are bounded have a greatest. *)
LEMMA GreatestOfSome ==
  ASSUME NEW n \in Nat, NEW S \in SUBSET (0 .. n), S # {}
  PROVE  Max(S) \in S /\ \A m \in S : m <= Max(S)
<1> DEFINE T == {n - m : m \in S}
<1>1. T \in SUBSET Nat /\ T # {}
  <2>1. \A m \in S : n - m \in Nat
    OBVIOUS
  <2> QED
    BY <2>1
<1>2. PICK m \in S : Min(T) = n - m
  BY <1>1, LeastOfSome
<1>3. \A k \in S : n - m <= n - k
  BY <1>1, <1>2, LeastOfSome
<1>4. \A k \in S : k <= m
  BY <1>3
<1> QED
  BY <1>4 DEF Max

LEMMA RangeIs ==
  ASSUME NEW S, NEW s \in Seq(S)
  PROVE  /\ \A x : x \in ToSet(s) <=> \E i \in 1 .. Len(s) : x = s[i]
         /\ Len(s) \in Nat /\ DOMAIN s = 1 .. Len(s)
<1>1. DOMAIN s = 1 .. Len(s) /\ Len(s) \in Nat
  OBVIOUS
<1> QED
  BY <1>1, Zenon DEF ToSet

LEMMA RangeOfAppend ==
  ASSUME NEW S, NEW s \in Seq(S), NEW e \in S
  PROVE  /\ ToSet(Append(s, e)) = ToSet(s) \cup {e}
         /\ Append(s, e) \in Seq(S) /\ Len(Append(s, e)) = Len(s) + 1
         /\ \A i \in 1 .. Len(s) : Append(s, e)[i] = s[i]
         /\ Append(s, e)[Len(s) + 1] = e
<1>1. /\ Append(s, e) \in Seq(S) /\ Len(Append(s, e)) = Len(s) + 1 /\ Len(s) \in Nat
      /\ DOMAIN s = 1 .. Len(s) /\ DOMAIN Append(s, e) = 1 .. Len(s) + 1
      /\ \A i \in 1 .. Len(s) : Append(s, e)[i] = s[i]
      /\ Append(s, e)[Len(s) + 1] = e
  OBVIOUS
<1>2. ASSUME NEW x \in ToSet(Append(s, e)) PROVE x \in ToSet(s) \cup {e}
  <2>1. PICK i \in 1 .. Len(s) + 1 : x = Append(s, e)[i]
    BY <1>1, <1>2 DEF ToSet
  <2>2. CASE i = Len(s) + 1
    BY <1>1, <2>1, <2>2
  <2>3. CASE i \in 1 .. Len(s)
    BY <1>1, <2>1, <2>3 DEF ToSet
  <2> QED
    BY <1>1, <2>2, <2>3
<1>3. ASSUME NEW x \in ToSet(s) \cup {e} PROVE x \in ToSet(Append(s, e))
  <2>1. CASE x = e
    <3>1. Len(s) + 1 \in DOMAIN Append(s, e)
      BY <1>1
    <3> QED
      BY <1>1, <2>1, <3>1 DEF ToSet
  <2>2. CASE x \in ToSet(s)
    <3>1. PICK i \in 1 .. Len(s) : x = s[i]
      BY <1>1, <2>2 DEF ToSet
    <3>2. i \in DOMAIN Append(s, e) /\ Append(s, e)[i] = x
      BY <1>1, <3>1
    <3> QED
      BY <3>2 DEF ToSet
  <2> QED
    BY <1>3, <2>1, <2>2
<1> QED
  BY <1>1, <1>2, <1>3

LEMMA RangeOfTail ==
  ASSUME NEW S, NEW s \in Seq(S), s # <<>>
  PROVE  /\ ToSet(s) = {Head(s)} \cup ToSet(Tail(s)) /\ Head(s) = s[1]
         /\ Head(s) \in S /\ Tail(s) \in Seq(S) /\ Len(Tail(s)) = Len(s) - 1
         /\ \A i \in 1 .. Len(s) - 1 : Tail(s)[i] = s[i + 1]
<1>1. /\ Head(s) \in S /\ Tail(s) \in Seq(S) /\ Len(Tail(s)) = Len(s) - 1
      /\ Len(s) \in Nat \ {0} /\ Head(s) = s[1]
      /\ DOMAIN s = 1 .. Len(s) /\ DOMAIN Tail(s) = 1 .. Len(s) - 1
      /\ \A i \in 1 .. Len(s) - 1 : Tail(s)[i] = s[i + 1]
  OBVIOUS
<1>2. ASSUME NEW x \in ToSet(s) PROVE x \in {Head(s)} \cup ToSet(Tail(s))
  <2>1. PICK i \in 1 .. Len(s) : x = s[i]
    BY <1>1, <1>2 DEF ToSet
  <2>2. CASE i = 1
    BY <1>1, <2>1, <2>2
  <2>3. CASE i # 1
    <3>1. i - 1 \in 1 .. Len(s) - 1 /\ (i - 1) + 1 = i
      BY <1>1, <2>1, <2>3
    <3>2. i - 1 \in DOMAIN Tail(s) /\ Tail(s)[i - 1] = x
      BY <1>1, <2>1, <3>1
    <3> QED
      BY <3>2 DEF ToSet
  <2> QED
    BY <2>2, <2>3
<1>3. ASSUME NEW x \in {Head(s)} \cup ToSet(Tail(s)) PROVE x \in ToSet(s)
  <2>1. CASE x = Head(s)
    <3>1. 1 \in DOMAIN s
      BY <1>1
    <3> QED
      BY <1>1, <2>1, <3>1 DEF ToSet
  <2>2. CASE x \in ToSet(Tail(s))
    <3>1. PICK i \in 1 .. Len(s) - 1 : x = Tail(s)[i]
      BY <1>1, <2>2 DEF ToSet
    <3>2. i + 1 \in DOMAIN s /\ s[i + 1] = x
      BY <1>1, <3>1
    <3> QED
      BY <3>2 DEF ToSet
  <2> QED
    BY <1>3, <2>1, <2>2
<1> QED
  BY <1>1, <1>2, <1>3

LEMMA RangeOfBoth ==
  ASSUME NEW S, NEW s \in Seq(S), NEW t \in Seq(S)
  PROVE  ToSet(s \o t) = ToSet(s) \cup ToSet(t) /\ s \o t \in Seq(S)
<1>1. /\ s \o t \in Seq(S) /\ Len(s) \in Nat /\ Len(t) \in Nat
      /\ DOMAIN s = 1 .. Len(s) /\ DOMAIN t = 1 .. Len(t)
      /\ DOMAIN (s \o t) = 1 .. Len(s) + Len(t)
      /\ \A i \in 1 .. Len(s) : (s \o t)[i] = s[i]
      /\ \A i \in 1 .. Len(t) : (s \o t)[Len(s) + i] = t[i]
  OBVIOUS
<1>2. ASSUME NEW x \in ToSet(s \o t) PROVE x \in ToSet(s) \cup ToSet(t)
  <2>1. PICK i \in 1 .. Len(s) + Len(t) : x = (s \o t)[i]
    BY <1>1, <1>2 DEF ToSet
  <2>2. CASE i \in 1 .. Len(s)
    BY <1>1, <2>1, <2>2 DEF ToSet
  <2>3. CASE i \notin 1 .. Len(s)
    <3>1. i - Len(s) \in 1 .. Len(t) /\ Len(s) + (i - Len(s)) = i
      BY <1>1, <2>1, <2>3
    <3>2. i - Len(s) \in DOMAIN t /\ t[i - Len(s)] = x
      BY <1>1, <2>1, <3>1
    <3> QED
      BY <3>2 DEF ToSet
  <2> QED
    BY <2>2, <2>3
<1>3. ASSUME NEW x \in ToSet(s) \cup ToSet(t) PROVE x \in ToSet(s \o t)
  <2>1. CASE x \in ToSet(s)
    <3>1. PICK i \in 1 .. Len(s) : x = s[i]
      BY <1>1, <2>1 DEF ToSet
    <3>2. i \in DOMAIN (s \o t) /\ (s \o t)[i] = x
      BY <1>1, <3>1
    <3> QED
      BY <3>2 DEF ToSet
  <2>2. CASE x \in ToSet(t)
    <3>1. PICK i \in 1 .. Len(t) : x = t[i]
      BY <1>1, <2>2 DEF ToSet
    <3>2. Len(s) + i \in DOMAIN (s \o t) /\ (s \o t)[Len(s) + i] = x
      BY <1>1, <3>1
    <3> QED
      BY <3>2 DEF ToSet
  <2> QED
    BY <1>3, <2>1, <2>2
<1> QED
  BY <1>1, <1>2, <1>3

LEMMA RangeOfFew ==
  /\ ToSet(<<>>) = {}
  /\ \A x : ToSet(<<x>>) = {x}
  /\ \A S : <<>> \in Seq(S)
  /\ \A S : \A x \in S : <<x>> \in Seq(S)
<1>1. ToSet(<<>>) = {}
  BY DEF ToSet
<1>2. ASSUME NEW x PROVE ToSet(<<x>>) = {x}
  BY DEF ToSet
<1>3. ASSUME NEW S PROVE <<>> \in Seq(S)
  OBVIOUS
<1>4. ASSUME NEW S, NEW x \in S PROVE <<x>> \in Seq(S)
  OBVIOUS
<1> QED
  BY <1>1, <1>2, <1>3, <1>4, Zenon

LEMMA InsertedEntries ==
  ASSUME NEW S, NEW s \in Seq(S), NEW e \in S, NEW i \in 1 .. Len(s) + 1
  PROVE  /\ InsertAt(s, i, e) \in Seq(S) /\ Len(InsertAt(s, i, e)) = Len(s) + 1
         /\ \A k \in 1 .. i - 1 : InsertAt(s, i, e)[k] = s[k]
         /\ \A k \in i .. Len(s) : InsertAt(s, i, e)[k + 1] = s[k]
<1> DEFINE l == SubSeq(s, 1, i - 1)
           r == SubSeq(s, i, Len(s))
           m == l \o <<e>>
<1>0. Len(s) \in Nat /\ i \in Nat
  OBVIOUS
<1>1. l \in Seq(S) /\ Len(l) = i - 1 /\ \A k \in 1 .. i - 1 : l[k] = s[k]
  BY <1>0
<1>2. r \in Seq(S) /\ Len(r) = Len(s) - i + 1 /\ \A k \in 1 .. Len(s) - i + 1 : r[k] = s[i + k - 1]
  BY <1>0
<1>3. <<e>> \in Seq(S) /\ Len(<<e>>) = 1
  OBVIOUS
<1> HIDE DEF l, r
<1>4. m \in Seq(S) /\ Len(m) = i /\ \A k \in 1 .. i - 1 : m[k] = s[k]
  BY <1>0, <1>1, <1>3
<1> HIDE DEF m
<1>5. /\ m \o r \in Seq(S) /\ Len(m \o r) = Len(s) + 1
      /\ \A k \in 1 .. i : (m \o r)[k] = m[k]
      /\ \A k \in 1 .. Len(r) : (m \o r)[i + k] = r[k]
  <2>1. m \in Seq(S) /\ r \in Seq(S) /\ Len(m) = i /\ Len(r) \in Nat
    BY <1>2, <1>4
  <2>2. /\ m \o r \in Seq(S) /\ Len(m \o r) = i + Len(r)
        /\ \A k \in 1 .. i : (m \o r)[k] = m[k]
        /\ \A k \in 1 .. Len(r) : (m \o r)[i + k] = r[k]
    BY <1>0, <2>1
  <2>3. i + Len(r) = Len(s) + 1
    BY <1>0, <1>2
  <2> QED
    BY <2>2, <2>3
<1>6. ASSUME NEW k \in i .. Len(s) PROVE (m \o r)[k + 1] = s[k]
  <2>1. k - i + 1 \in 1 .. Len(r) /\ i + (k - i + 1) = k + 1 /\ i + (k - i + 1) - 1 = k
    BY <1>0, <1>2
  <2> DEFINE j == k - i + 1
  <2>4. j \in 1 .. Len(r) /\ i + j = k + 1
    BY <2>1
  <2> HIDE DEF j, r
  <2>5. (m \o r)[i + j] = r[j]
    BY <1>5, <2>4
  <2>2. (m \o r)[k + 1] = r[k - i + 1]
    BY <2>4, <2>5 DEF j
  <2>3. r[k - i + 1] = s[k]
    BY <1>2, <2>1
  <2> QED
    BY <2>2, <2>3
<1>7. InsertAt(s, i, e) = m \o r
  BY DEF InsertAt, m, l, r
<1> QED
  BY <1>0, <1>4, <1>5, <1>6, <1>7

-----------------------------------------------------------------------------
(* What the window and its queues are made of. *)

ArchiveList == {a \in Seq(Archive) : Len(a) <= MaxArchives}
ListingOf == [folder: Places, generation: Nat, seqs: SUBSET Seqs]
ViewOf ==
  [archives: ArchiveList, generation: Nat, listing: ListingOf, showAll: BOOLEAN,
   seq: 0 .. MaxArchives, folder: Folders, selected: [folder: Places, held: Nat]]
PaneOf == [wanted: Nat, picked: BOOLEAN, shows: Shown]
LeftOf == [moves : 0 .. Moves, changes : 0 .. Changes]

Query ==
  [kind: {"load"}, folder: Folders]
    \cup [kind: {"listing"}, folder: Folders, generation: Nat]
    \cup [kind: {"folder"}, folder: Folders, seq: Seqs, wanted: Nat]
    \cup [kind: {"change"}, folder: Folders, seq: Seqs, newer: BOOLEAN]
AnswerTo(q) ==
  CASE q.kind = "load"    -> [archives: ArchiveList, seqs: SUBSET Seqs]
    [] q.kind = "listing" -> [seqs: SUBSET Seqs]
    [] q.kind = "folder"  -> [held: Nat]
    [] q.kind = "change"  -> [seq: 0 .. MaxArchives]
Reply ==
  {r \in [q: Query, answer: {Error} \cup UNION {AnswerTo(q) : q \in Query}] :
     r.answer = Error \/ r.answer \in AnswerTo(r.q)}

Typed ==
  /\ holds \in Histories /\ made \in Seqs
  /\ catalogue \in Seq(Archive) /\ Len(catalogue) <= made
  /\ following \in BOOLEAN /\ view \in ViewOf
  /\ \A f \in Folders : listings[f] = Unknown \/ listings[f] \in SUBSET Seqs
  /\ listings \in [Folders -> SUBSET (0 .. MaxArchives)]
  /\ asked \in Seq(Query) /\ answered \in Seq(Reply)
  /\ overview \in Seq(ArchiveList) /\ Len(overview) <= 2 /\ failed \subseteq Query
  /\ painting \subseteq [wanted: Nat, shows: Shown]
  /\ pane \in PaneOf /\ preview \in [name: 0 .. MaxArchives, folder: Places]
  /\ left \in LeftOf
  /\ news \in Nat /\ news + left.changes <= Changes

LEMMA QueryFields ==
  ASSUME NEW q \in Query
  PROVE  /\ q.kind \in Kinds /\ q.folder \in Folders
         /\ q.kind = "listing" => q.generation \in Nat
         /\ q.kind = "folder" => q.seq \in Seqs /\ q.wanted \in Nat
         /\ q.kind = "change" => q.seq \in Seqs /\ q.newer \in BOOLEAN
BY DEF Query, Kinds

LEMMA QueriesAre ==
  ASSUME NEW f \in Folders
  PROVE  /\ [kind |-> "load", folder |-> f] \in Query
         /\ \A g \in Nat : [kind |-> "listing", folder |-> f, generation |-> g] \in Query
         /\ \A s \in Seqs, w \in Nat :
              [kind |-> "folder", folder |-> f, seq |-> s, wanted |-> w] \in Query
         /\ \A s \in Seqs, n \in BOOLEAN :
              [kind |-> "change", folder |-> f, seq |-> s, newer |-> n] \in Query
<1>1. [kind |-> "load", folder |-> f] \in Query
  BY DEF Query
<1>2. ASSUME NEW g \in Nat
      PROVE  [kind |-> "listing", folder |-> f, generation |-> g] \in Query
  BY DEF Query
<1>3. ASSUME NEW s \in Seqs, NEW w \in Nat
      PROVE  [kind |-> "folder", folder |-> f, seq |-> s, wanted |-> w] \in Query
  BY DEF Query
<1>4. ASSUME NEW s \in Seqs, NEW n \in BOOLEAN
      PROVE  [kind |-> "change", folder |-> f, seq |-> s, newer |-> n] \in Query
  BY DEF Query
<1> QED
  BY <1>1, <1>2, <1>3, <1>4

LEMMA ReplyFields ==
  ASSUME NEW r \in Reply
  PROVE  /\ r.q \in Query /\ r.q.kind \in Kinds
         /\ r.answer # Error =>
              /\ r.q.kind = "load" => r.answer.archives \in ArchiveList /\ r.answer.seqs \in SUBSET Seqs
              /\ r.q.kind = "listing" => r.answer.seqs \in SUBSET Seqs
              /\ r.q.kind = "folder" => r.answer.held \in Nat
              /\ r.q.kind = "change" => r.answer.seq \in 0 .. MaxArchives
<1>0. r.q \in Query /\ (r.answer = Error \/ r.answer \in AnswerTo(r.q))
  BY DEF Reply
<1>2. r.q.kind \in Kinds
  BY <1>0, QueryFields
<1>a. SUFFICES ASSUME r.answer # Error
               PROVE  /\ r.q.kind = "load" =>
                           r.answer.archives \in ArchiveList /\ r.answer.seqs \in SUBSET Seqs
                      /\ r.q.kind = "listing" => r.answer.seqs \in SUBSET Seqs
                      /\ r.q.kind = "folder" => r.answer.held \in Nat
                      /\ r.q.kind = "change" => r.answer.seq \in 0 .. MaxArchives
  BY <1>0, <1>2
<1>1. r.q \in Query /\ r.answer \in AnswerTo(r.q)
  BY <1>0, <1>a
<1>3. CASE r.q.kind = "load"
  <2>1. AnswerTo(r.q) = [archives: ArchiveList, seqs: SUBSET Seqs]
    BY <1>3 DEF AnswerTo
  <2> QED
    BY <1>1, <1>2, <1>3, <2>1
<1>4. CASE r.q.kind = "listing"
  <2>1. AnswerTo(r.q) = [seqs: SUBSET Seqs]
    BY <1>4 DEF AnswerTo
  <2> QED
    BY <1>1, <1>2, <1>4, <2>1
<1>5. CASE r.q.kind = "folder"
  <2>1. AnswerTo(r.q) = [held: Nat]
    BY <1>5 DEF AnswerTo
  <2> QED
    BY <1>1, <1>2, <1>5, <2>1
<1>6. CASE r.q.kind = "change"
  <2>1. AnswerTo(r.q) = [seq: 0 .. MaxArchives]
    BY <1>6 DEF AnswerTo
  <2> QED
    BY <1>1, <1>2, <1>6, <2>1
<1> QED
  BY <1>2, <1>3, <1>4, <1>5, <1>6 DEF Kinds

LEMMA RepliesAre ==
  ASSUME NEW q \in Query, NEW a, a = Error \/ a \in AnswerTo(q)
  PROVE  [q |-> q, answer |-> a] \in Reply
<1>1. a \in {Error} \cup UNION {AnswerTo(p) : p \in Query}
  OBVIOUS
<1> QED
  BY <1>1 DEF Reply

LEMMA ViewFields ==
  ASSUME NEW v \in ViewOf
  PROVE  /\ v.archives \in ArchiveList /\ v.generation \in Nat /\ v.listing \in ListingOf
         /\ v.showAll \in BOOLEAN /\ v.seq \in 0 .. MaxArchives /\ v.folder \in Folders
         /\ v.selected \in [folder: Places, held: Nat]
         /\ v.listing.folder \in Places /\ v.listing.generation \in Nat
         /\ v.listing.seqs \in SUBSET Seqs
         /\ Len(v.archives) \in Nat /\ Len(v.archives) <= MaxArchives
         /\ DOMAIN v.archives = 1 .. Len(v.archives) /\ DOMAIN v.archives \subseteq Seqs
<1>1. /\ v.archives \in ArchiveList /\ v.generation \in Nat /\ v.listing \in ListingOf
      /\ v.showAll \in BOOLEAN /\ v.seq \in 0 .. MaxArchives /\ v.folder \in Folders
      /\ v.selected \in [folder: Places, held: Nat]
  BY DEF ViewOf
<1>2. /\ v.listing.folder \in Places /\ v.listing.generation \in Nat
      /\ v.listing.seqs \in SUBSET Seqs
  BY <1>1 DEF ListingOf
<1>3. v.archives \in Seq(Archive) /\ Len(v.archives) <= MaxArchives
  BY <1>1 DEF ArchiveList
<1>4. Len(v.archives) \in Nat /\ DOMAIN v.archives = 1 .. Len(v.archives)
  BY <1>3
<1>5. MaxArchives \in Nat
  BY WindowAssumption
<1>6. DOMAIN v.archives \subseteq Seqs
  BY <1>3, <1>4, <1>5 DEF Seqs
<1> QED
  BY <1>1, <1>2, <1>3, <1>4, <1>6

LEMMA ViewIs ==
  ASSUME NEW v \in ViewOf
  PROVE  /\ \A n \in 0 .. MaxArchives : [v EXCEPT !.seq = n] \in ViewOf
         /\ \A b \in BOOLEAN : [v EXCEPT !.showAll = b] \in ViewOf
         /\ \A l \in ListingOf : [v EXCEPT !.listing = l] \in ViewOf
         /\ \A x \in [folder: Places, held: Nat] : [v EXCEPT !.selected = x] \in ViewOf
         /\ \A f \in Folders : [v EXCEPT !.folder = f] \in ViewOf
<1>1. ASSUME NEW n \in 0 .. MaxArchives PROVE [v EXCEPT !.seq = n] \in ViewOf
  BY DEF ViewOf
<1>2. ASSUME NEW b \in BOOLEAN PROVE [v EXCEPT !.showAll = b] \in ViewOf
  BY DEF ViewOf
<1>3. ASSUME NEW l \in ListingOf PROVE [v EXCEPT !.listing = l] \in ViewOf
  BY DEF ViewOf
<1>4. ASSUME NEW x \in [folder: Places, held: Nat] PROVE [v EXCEPT !.selected = x] \in ViewOf
  BY DEF ViewOf
<1>5. ASSUME NEW f \in Folders PROVE [v EXCEPT !.folder = f] \in ViewOf
  BY DEF ViewOf
<1> QED
  BY <1>1, <1>2, <1>3, <1>4, <1>5

-----------------------------------------------------------------------------
(* What is read of the catalogue. *)

LEMMA BoundsAre ==
  /\ MaxArchives \in Nat /\ MaxArchives > 1 /\ Start \in Folders /\ Moves \in Nat
  /\ Changes \in Nat
  /\ Seqs = 1 .. MaxArchives
BY WindowAssumption DEF Seqs

LEMMA ListFields ==
  ASSUME NEW a \in ArchiveList
  PROVE  /\ Len(a) \in Nat /\ Len(a) <= MaxArchives /\ DOMAIN a = 1 .. Len(a)
         /\ DOMAIN a \subseteq Seqs /\ a \in Seq(Archive)
         /\ \A s \in DOMAIN a : a[s] \in Archive /\ a[s].name \in Seqs /\ a[s].catalogued \in BOOLEAN
<1>1. a \in Seq(Archive) /\ Len(a) <= MaxArchives
  BY DEF ArchiveList
<1>2. Len(a) \in Nat /\ DOMAIN a = 1 .. Len(a) /\ \A s \in DOMAIN a : a[s] \in Archive
  BY <1>1
<1>3. DOMAIN a \subseteq Seqs
  BY <1>1, <1>2, BoundsAre
<1> QED
  BY <1>1, <1>2, <1>3 DEF Archive

LEMMA CatalogueIs == Typed => catalogue \in ArchiveList
BY BoundsAre DEF Typed, ArchiveList

(* Of backups of which some are catalogued there is a newest that is. *)
LEMMA NewestIs ==
  ASSUME NEW a \in ArchiveList
  PROVE  /\ Catalogued(a) \subseteq DOMAIN a
         /\ Catalogued(a) # {} => /\ Max(Catalogued(a)) \in Catalogued(a)
                                  /\ \A s \in Catalogued(a) : s <= Max(Catalogued(a))
<1>1. Catalogued(a) \subseteq DOMAIN a
  BY DEF Catalogued
<1>2. MaxArchives \in Nat /\ Catalogued(a) \subseteq 0 .. MaxArchives
  BY <1>1, ListFields, BoundsAre
<1>3. ASSUME Catalogued(a) # {}
      PROVE  /\ Max(Catalogued(a)) \in Catalogued(a)
             /\ \A s \in Catalogued(a) : s <= Max(Catalogued(a))
  BY <1>2, <1>3, GreatestOfSome
<1> QED
  BY <1>1, <1>3

LEMMA FolderAtIs ==
  ASSUME Typed, NEW f \in Folders, NEW s
  PROVE  /\ FolderAt(f, s) \in Nat
         /\ FolderAt(f, s) # 0 => s \in Catalogued(catalogue)
         /\ s \in Catalogued(catalogue) => FolderAt(f, s) = holds[f][catalogue[s].name]
<1>1. catalogue \in ArchiveList
  BY CatalogueIs
<1>2. CASE s \notin DOMAIN catalogue
  BY <1>2 DEF FolderAt, Catalogued
<1>3. CASE s \in DOMAIN catalogue
  <2>1. catalogue[s].name \in Seqs
    BY <1>1, <1>3, ListFields
  <2>2. holds[f] \in [1 .. MaxArchives -> Nat]
    BY SMTT(30), WindowAssumption DEF Typed
  <2>3. holds[f][catalogue[s].name] \in Nat
    BY <2>1, <2>2 DEF Seqs
  <2>4. FolderAt(f, s) = IF catalogue[s].catalogued THEN holds[f][catalogue[s].name] ELSE 0
    BY <1>3 DEF FolderAt, Held
  <2> QED
    BY <1>3, <2>3, <2>4 DEF Catalogued
<1> QED
  BY <1>2, <1>3

LEMMA ListedSinceIs ==
  ASSUME NEW found \in ArchiveList, NEW f \in Folders
  PROVE  ListedSince(found, f) \in SUBSET Seqs
<1>1. MaxArchives \in Nat
  BY BoundsAre
<1>2. CASE Catalogued(found) = {}
  BY <1>2 DEF ListedSince
<1>3. CASE Catalogued(found) # {}
  <2> DEFINE n == Max(Catalogued(found))
  <2>1. n \in Seqs
    BY <1>1, <1>3, NewestIs, ListFields
  <2>2. ListedSince(found, f) \subseteq {n} \cup 1 .. n - 1
    BY <1>3 DEF ListedSince
  <2>3. 1 .. n - 1 \subseteq Seqs
    BY <1>1, <2>1 DEF Seqs
  <2> QED
    BY <2>1, <2>2, <2>3
<1> QED
  BY <1>2, <1>3

LEMMA ListedForIs ==
  ASSUME Typed, NEW f \in Folders
  PROVE  ListedFor(f) \in SUBSET Seqs
BY CatalogueIs, ListedSinceIs DEF ListedFor

(* What a listing holds, when there is something to list. *)
LEMMA ListedForHolds ==
  ASSUME Typed, NEW f \in Folders, Catalogued(catalogue) # {},
         NEW n, n = Max(Catalogued(catalogue))
  PROVE  /\ n \in ListedFor(f)
         /\ \A s \in 1 .. n - 1 :
              FolderAt(f, s) # 0 /\ FolderAt(f, s + 1) # FolderAt(f, s) => s \in ListedFor(f)
<1>1. ListedFor(f) = {n} \cup {s \in 1 .. n - 1 :
                                 FolderAt(f, s) # 0 /\ FolderAt(f, s + 1) # FolderAt(f, s)}
  BY Zenon DEF ListedFor, ListedSince
<1> QED
  BY <1>1

LEMMA NextChangeIs ==
  ASSUME Typed, NEW f \in Folders, NEW s \in Seqs, NEW newer \in BOOLEAN
  PROVE  NextChange(f, s, newer) \in {0} \cup DOMAIN catalogue
<1>1. catalogue \in ArchiveList /\ MaxArchives \in Nat
  BY CatalogueIs, BoundsAre
<1>2. PICK found \in SUBSET (DOMAIN catalogue) :
        NextChange(f, s, newer) =
          IF found = {} THEN 0 ELSE IF newer THEN Min(found) ELSE Max(found)
  BY Zenon DEF NextChange
<1>3. found \in SUBSET Nat /\ found \in SUBSET (0 .. MaxArchives)
  BY <1>1, ListFields, BoundsAre
<1>4. ASSUME found # {} PROVE Min(found) \in found
  BY <1>3, <1>4, LeastOfSome
<1>5. ASSUME found # {} PROVE Max(found) \in found
  BY <1>1, <1>3, <1>5, GreatestOfSome
<1>6. CASE found = {}
  BY <1>2, <1>6
<1>7. CASE found # {}
  <2>1. NextChange(f, s, newer) = Min(found) \/ NextChange(f, s, newer) = Max(found)
    BY <1>2, <1>7
  <2> QED
    BY <1>4, <1>5, <1>7, <2>1
<1> QED
  BY <1>6, <1>7

(* What is answered. *)
Answer(q) ==
  CASE q.kind = "load"    -> [archives |-> catalogue, seqs |-> ListedFor(q.folder)]
    [] q.kind = "listing" -> [seqs |-> ListedFor(q.folder)]
    [] q.kind = "folder"  -> [held |-> FolderAt(q.folder, q.seq)]
    [] q.kind = "change"  -> [seq |-> NextChange(q.folder, q.seq, q.newer)]

LEMMA AnswerIs ==
  ASSUME NEW q \in Query
  PROVE  /\ q.kind = "load" =>
              Answer(q).archives = catalogue /\ Answer(q).seqs = ListedFor(q.folder)
         /\ q.kind = "listing" => Answer(q).seqs = ListedFor(q.folder)
         /\ q.kind = "folder" => Answer(q).held = FolderAt(q.folder, q.seq)
         /\ q.kind = "change" => Answer(q).seq = NextChange(q.folder, q.seq, q.newer)
<1>1. q.kind \in Kinds
  BY QueryFields
<1>2. CASE q.kind = "load"
  <2>1. Answer(q) = [archives |-> catalogue, seqs |-> ListedFor(q.folder)]
    BY <1>2 DEF Answer
  <2> QED
    BY <1>2, <2>1
<1>3. CASE q.kind = "listing"
  <2>1. Answer(q) = [seqs |-> ListedFor(q.folder)]
    BY <1>3 DEF Answer
  <2> QED
    BY <1>3, <2>1
<1>4. CASE q.kind = "folder"
  <2>1. Answer(q) = [held |-> FolderAt(q.folder, q.seq)]
    BY <1>4 DEF Answer
  <2> QED
    BY <1>4, <2>1
<1>5. CASE q.kind = "change"
  <2>1. Answer(q) = [seq |-> NextChange(q.folder, q.seq, q.newer)]
    BY <1>5 DEF Answer
  <2> QED
    BY <1>5, <2>1
<1> QED
  BY <1>1, <1>2, <1>3, <1>4, <1>5 DEF Kinds

LEMMA AnswerFits ==
  ASSUME Typed, NEW q \in Query
  PROVE  Answer(q) \in AnswerTo(q)
<1>1. q.kind \in Kinds /\ q.folder \in Folders
  BY QueryFields
<1>2. CASE q.kind = "load"
  <2>1. Answer(q) = [archives |-> catalogue, seqs |-> ListedFor(q.folder)]
    BY <1>2 DEF Answer
  <2>2. AnswerTo(q) = [archives: ArchiveList, seqs: SUBSET Seqs]
    BY <1>2 DEF AnswerTo
  <2> QED
    BY <1>1, <2>1, <2>2, CatalogueIs, ListedForIs
<1>3. CASE q.kind = "listing"
  <2>1. Answer(q) = [seqs |-> ListedFor(q.folder)]
    BY <1>3 DEF Answer
  <2>2. AnswerTo(q) = [seqs: SUBSET Seqs]
    BY <1>3 DEF AnswerTo
  <2> QED
    BY <1>1, <2>1, <2>2, ListedForIs
<1>4. CASE q.kind = "folder"
  <2>1. Answer(q) = [held |-> FolderAt(q.folder, q.seq)]
    BY <1>4 DEF Answer
  <2>2. AnswerTo(q) = [held: Nat]
    BY <1>4 DEF AnswerTo
  <2> QED
    BY <1>1, <2>1, <2>2, FolderAtIs
<1>5. CASE q.kind = "change"
  <2>1. Answer(q) = [seq |-> NextChange(q.folder, q.seq, q.newer)]
    BY <1>5 DEF Answer
  <2>2. AnswerTo(q) = [seq: 0 .. MaxArchives]
    BY <1>5 DEF AnswerTo
  <2>3. q.seq \in Seqs /\ q.newer \in BOOLEAN
    BY <1>5, QueryFields
  <2>4. NextChange(q.folder, q.seq, q.newer) \in {0} \cup DOMAIN catalogue
    BY <1>1, <2>3, NextChangeIs
  <2>5. DOMAIN catalogue \subseteq Seqs
    BY CatalogueIs, ListFields
  <2>6. {0} \cup DOMAIN catalogue \subseteq 0 .. MaxArchives
    BY <2>5, BoundsAre
  <2> QED
    BY <2>1, <2>2, <2>4, <2>6
<1> QED
  BY <1>1, <1>2, <1>3, <1>4, <1>5 DEF Kinds

-----------------------------------------------------------------------------
(* What becomes of a view. *)

\* Everything of v but the place it looks at, and what is selected and shown there.
Keeps(w, v) ==
  /\ w.archives = v.archives /\ w.generation = v.generation
  /\ w.folder = v.folder /\ w.listing = v.listing

LEMMA LandingIs ==
  ASSUME NEW v \in ViewOf, NEW s \in Seqs
  PROVE  /\ Landing(v, s) = s \/ Landing(v, s) \in Catalogued(v.archives)
         /\ Landing(v, s) \in Seqs
<1>1. v.archives \in ArchiveList /\ MaxArchives \in Nat
  BY ViewFields, BoundsAre
<1>2. Catalogued(v.archives) \subseteq DOMAIN v.archives /\ DOMAIN v.archives \subseteq Seqs
  BY <1>1, NewestIs, ListFields
<1>3. PICK listed \in SUBSET Catalogued(v.archives) :
        \E newer \in SUBSET listed :
          \/ Landing(v, s) = s
          \/ newer # {} /\ Landing(v, s) = Min(newer)
          \/ listed # {} /\ Landing(v, s) = Max(listed)
  <2> DEFINE listed == v.listing.seqs \cap Catalogued(v.archives)
             newer  == {t \in listed : t > s}
  <2>1. Landing(v, s) = IF v.showAll \/ ~ListingIsCurrent(v) \/ s \in v.listing.seqs THEN s
                        ELSE IF newer # {} THEN Min(newer)
                        ELSE IF listed # {} THEN Max(listed) ELSE s
    BY Zenon DEF Landing
  <2>2. listed \in SUBSET Catalogued(v.archives) /\ newer \in SUBSET listed
    OBVIOUS
  <2> HIDE DEF listed, newer
  <2>3. \/ Landing(v, s) = s
        \/ newer # {} /\ Landing(v, s) = Min(newer)
        \/ listed # {} /\ Landing(v, s) = Max(listed)
    BY <2>1
  <2> QED
    BY <2>2, <2>3, Zenon
<1>4. PICK newer \in SUBSET listed :
          \/ Landing(v, s) = s
          \/ newer # {} /\ Landing(v, s) = Min(newer)
          \/ listed # {} /\ Landing(v, s) = Max(listed)
  BY <1>3
<1>5. /\ newer \in SUBSET Nat /\ listed \in SUBSET (0 .. MaxArchives)
      /\ Catalogued(v.archives) \subseteq Seqs
  BY <1>1, <1>2, BoundsAre
<1>6. ASSUME newer # {} PROVE Min(newer) \in newer
  BY <1>5, <1>6, LeastOfSome
<1>7. ASSUME listed # {} PROVE Max(listed) \in listed
  BY <1>1, <1>5, <1>7, GreatestOfSome
<1>8. Landing(v, s) = s \/ Landing(v, s) \in Catalogued(v.archives)
  <2>1. CASE Landing(v, s) = s
    BY <2>1
  <2>2. CASE newer # {} /\ Landing(v, s) = Min(newer)
    BY <1>6, <2>2
  <2>3. CASE listed # {} /\ Landing(v, s) = Max(listed)
    BY <1>7, <2>3
  <2> QED
    BY <1>4, <2>1, <2>2, <2>3
<1> QED
  BY <1>5, <1>8

LEMMA SeqsAre ==
  ASSUME NEW n \in 0 .. MaxArchives
  PROVE  n # 0 => n \in Seqs
BY BoundsAre

LEMMA SettleIs ==
  ASSUME NEW v \in ViewOf
  PROVE  /\ Settle(v) \in ViewOf /\ Keeps(Settle(v), v)
         /\ Settle(v).selected = v.selected /\ Settle(v).showAll = v.showAll
         /\ Settle(v).seq = 0 <=> v.seq = 0
         /\ v.seq \in DOMAIN v.archives => Settle(v).seq \in DOMAIN v.archives
<1>1. CASE v.seq = 0
  BY <1>1 DEF Settle, Keeps
<1>2. CASE v.seq # 0
  <2>1. PICK n : n = Landing(v, v.seq)
    OBVIOUS
  <2>2. v.seq \in Seqs
    BY <1>2, SeqsAre, ViewFields
  <2>3. n \in Seqs /\ (n = v.seq \/ n \in Catalogued(v.archives))
    BY <2>1, <2>2, LandingIs
  <2>4. n \in 0 .. MaxArchives /\ n # 0
    BY <2>3, BoundsAre
  <2>5. Settle(v) = [v EXCEPT !.seq = n]
    BY <1>2, <2>1 DEF Settle
  <2>6. Settle(v) \in ViewOf
    BY <2>4, <2>5, ViewIs
  <2>7. /\ Settle(v).seq = n /\ Settle(v).selected = v.selected /\ Settle(v).showAll = v.showAll
        /\ Keeps(Settle(v), v)
    BY <2>5 DEF ViewOf, Keeps
  <2>8. Catalogued(v.archives) \subseteq DOMAIN v.archives
    BY DEF Catalogued
  <2> QED
    BY <1>2, <2>3, <2>4, <2>6, <2>7, <2>8
<1> QED
  BY <1>1, <1>2

LEMMA AdoptIs ==
  ASSUME NEW v \in ViewOf, NEW seqs \in SUBSET Seqs
  PROVE  /\ Adopt(v, seqs) \in ViewOf
         /\ Adopt(v, seqs).archives = v.archives /\ Adopt(v, seqs).generation = v.generation
         /\ Adopt(v, seqs).folder = v.folder /\ Adopt(v, seqs).selected = v.selected
         /\ Adopt(v, seqs).listing.folder = v.folder
         /\ Adopt(v, seqs).listing.generation = v.generation
         /\ Adopt(v, seqs).listing.seqs = seqs
         /\ ListingIsCurrent(Adopt(v, seqs))
         /\ Adopt(v, seqs).seq = 0 <=> v.seq = 0
         /\ v.seq \in DOMAIN v.archives => Adopt(v, seqs).seq \in DOMAIN v.archives
<1>1. PICK l : l = [folder |-> v.folder, generation |-> v.generation, seqs |-> seqs]
  OBVIOUS
<1>2. v.folder \in Folders /\ v.generation \in Nat
  BY ViewFields
<1>3. l \in ListingOf
  BY <1>1, <1>2 DEF ListingOf, Places
<1>4. PICK w : w = [v EXCEPT !.listing = l]
  OBVIOUS
<1>5. w \in ViewOf
  BY <1>3, <1>4, ViewIs
<1>6. /\ w.archives = v.archives /\ w.generation = v.generation /\ w.folder = v.folder
      /\ w.selected = v.selected /\ w.seq = v.seq /\ w.listing = l
  BY <1>4 DEF ViewOf
<1>7. Adopt(v, seqs) = Settle(w)
  BY <1>1, <1>4 DEF Adopt
<1>8. l.folder = v.folder /\ l.generation = v.generation /\ l.seqs = seqs
  BY <1>1
<1> QED
  BY <1>5, <1>6, <1>7, <1>8, SettleIs DEF Keeps, ListingIsCurrent

-----------------------------------------------------------------------------
(* Where a backup that is not listed lands, all it holds is held. *)
LEMMA LandsOnTheSame ==
  ASSUME Typed, NEW v \in ViewOf, v.archives = catalogue,
         ListingIsCurrent(v), v.listing.seqs = ListedFor(v.folder),
         NEW s \in Catalogued(catalogue), FolderAt(v.folder, s) # 0
  PROVE  FolderAt(v.folder, Landing(v, s)) = FolderAt(v.folder, s)
<1> DEFINE f == v.folder
           n == Max(Catalogued(catalogue))
           listed == ListedFor(f) \cap Catalogued(catalogue)
           newer == {t \in listed : t > s}
<1>0. catalogue \in ArchiveList /\ f \in Folders /\ MaxArchives \in Nat
  BY CatalogueIs, ViewFields, BoundsAre
<1>1. Catalogued(catalogue) \subseteq Seqs /\ Catalogued(catalogue) # {}
  BY <1>0, NewestIs, ListFields
<1>2. n \in Catalogued(catalogue) /\ s <= n
  BY <1>0, <1>1, NewestIs
<1>3. n \in ListedFor(f)
  BY <1>0, <1>1, ListedForHolds
<1>4. \A t \in 1 .. n - 1 :
        FolderAt(f, t) # 0 /\ FolderAt(f, t + 1) # FolderAt(f, t) => t \in ListedFor(f)
  BY <1>0, <1>1, ListedForHolds
<1>5. Landing(v, s) = IF v.showAll \/ s \in ListedFor(f) THEN s
                      ELSE IF newer # {} THEN Min(newer)
                      ELSE IF listed # {} THEN Max(listed) ELSE s
  BY Zenon DEF Landing
<1>6. CASE v.showAll \/ s \in ListedFor(f)
  BY <1>5, <1>6
<1>7. CASE ~(v.showAll \/ s \in ListedFor(f))
  <2>1. s \in Nat /\ s > 0 /\ n \in Nat /\ s < n
    BY <1>1, <1>2, <1>3, <1>7 DEF Seqs
  <2>2. n \in newer
    BY <1>2, <1>3, <2>1
  <2>3. newer \in SUBSET Nat /\ newer # {}
    BY <1>1, <2>2 DEF Seqs
  <2>4. PICK m \in newer : Landing(v, s) = m /\ \A t \in newer : m <= t
    BY <1>5, <1>7, <2>3, LeastOfSome
  <2>5. m \in Nat /\ s < m /\ m <= n
    BY <2>2, <2>3, <2>4
  <2> DEFINE B == {t \in s .. m : FolderAt(f, t) # FolderAt(f, s)}
  <2>6. SUFFICES ASSUME B # {} PROVE FALSE
    <3>1. m \in s .. m
      BY <2>1, <2>5
    <3> QED
      BY <2>4, <2>6, <3>1
  <2>7. B \in SUBSET Nat
    BY <2>1, <2>5
  <2>8. PICK b \in B : \A t \in B : b <= t
    BY <2>6, <2>7, LeastOfSome
  <2>9. b \in s .. m /\ FolderAt(f, b) # FolderAt(f, s)
    BY <2>8
  <2>10. b # s /\ b - 1 \in s .. m /\ (b - 1) + 1 = b /\ b - 1 < b /\ b - 1 \in 1 .. n - 1
    BY <2>1, <2>5, <2>9
  <2>11. FolderAt(f, b - 1) = FolderAt(f, s)
    <3>1. b - 1 \notin B
      BY <2>1, <2>8, <2>9, <2>10
    <3> QED
      BY <2>10, <3>1
  <2>12. b - 1 \in ListedFor(f)
    BY <1>4, <2>9, <2>10, <2>11
  <2>13. b - 1 \in Catalogued(catalogue)
    BY <1>0, <2>11, FolderAtIs
  <2>14. CASE b - 1 = s
    BY <1>7, <2>12, <2>14
  <2>15. CASE b - 1 > s
    <3>1. b - 1 \in newer
      BY <2>12, <2>13, <2>15
    <3> QED
      BY <2>1, <2>4, <2>5, <2>9, <2>10, <3>1
  <2> QED
    BY <2>1, <2>5, <2>9, <2>10, <2>14, <2>15
<1> QED
  BY <1>6, <1>7

-----------------------------------------------------------------------------
(* What is on its way. *)

Queries == ToSet(asked)
Replies == ToSet(answered)

\* The catalogue has changed, or will be read again, as far as the worker knows.
Due == news > 0 \/ \E q \in Queries : q.kind = "load"
\* Or what was read of it is on its way, or it could not be read.
Coming == Due \/ (\E r \in Replies : r.q.kind = "load") \/ Unloaded

\* There is always something to look at.
Browsable ==
  /\ Catalogued(catalogue) # {}
  /\ \A r \in Replies : r.q.kind = "load" /\ r.answer # Error => Catalogued(r.answer.archives) # {}

\* What the worker has found of the catalogue is so, unless it is asked for again.
OverviewStands ==
  overview # <<>> =>
    /\ asked # <<>>
    /\ \A n \in 1 .. Len(overview) : Catalogued(overview[n]) # {}
    /\ \/ \A n \in 1 .. Len(overview) : overview[n] = catalogue
       \/ news > 0
       \/ \E i \in 2 .. Len(asked) : asked[i].kind = "load"

\* An answer is what would be answered now, unless the catalogue comes after it,
\* or there is none.
AnswersStand ==
  Due \/ \A i \in 1 .. Len(answered) : \A r \in Reply :
    answered[i] = r =>
      \/ \E j \in 1 .. Len(answered) : j > i /\ answered[j].q.kind = "load"
      \/ r.answer = Error \/ r.answer = Answer(r.q)

\* Nothing is viewed, and no other backup asked for, until the first catalogue has
\* come.
Begun ==
  /\ view.seq = 0 <=> view.generation = 0
  /\ view.seq = 0 =>
       /\ view.archives = <<>> /\ pane.shows = Nothing /\ pane.wanted = 0
       /\ \A q \in Queries : q.kind # "change"
       /\ \A r \in Replies : r.q.kind # "change"
       /\ \/ \E q \in Queries : q.kind = "load"
          \/ \E r \in Replies : r.q.kind = "load"
          \/ Unloaded

\* What the window knows is so, unless the catalogue comes.
Known ==
  /\ view.archives = catalogue /\ view.seq \in DOMAIN catalogue
  /\ \A f \in Folders : listings[f] = Unknown \/ listings[f] = ListedFor(f)
  /\ view.listing.folder \in Folders /\ view.listing.generation = view.generation
       => view.listing.seqs = ListedFor(view.listing.folder)
KnownInv == ~Coming => Known

\* The listing of the folder viewed is there or comes, or could not be read.
AsksNow(q) == q.kind = "listing" /\ q.folder = view.folder /\ q.generation = view.generation
ListComes ==
  \/ view.generation = 0 \/ ListingIsCurrent(view)
  \/ \E q \in Queries : AsksNow(q)
  \/ \E r \in Replies : AsksNow(r.q)
  \/ \E q \in failed : AsksNow(q)

\* What was asked for last is of the folder and the backup viewed.
Fits(q) ==
  q.kind = "folder" =>
    /\ q.wanted \in Nat /\ 0 < q.wanted /\ q.wanted <= pane.wanted
    /\ q.wanted = pane.wanted => q.folder = view.folder /\ q.seq = view.seq
FitsPane(p) ==
  /\ 0 < p.wanted /\ p.wanted <= pane.wanted
  /\ p.wanted = pane.wanted => p.shows.folder = view.folder /\ p.shows.seq = view.seq
LastFits ==
  /\ \A q \in Queries : Fits(q)
  /\ \A r \in Replies : Fits(r.q)
  /\ \A p \in painting : FitsPane(p)

\* And it is there or comes, or the pane says that it could not be read.
Latest(q) == q.kind = "folder" /\ q.wanted = pane.wanted
PaneComes ==
  /\ \A p \in painting :
       p.wanted = pane.wanted => p.shows.held = FolderAt(view.folder, view.seq)
  /\ \/ \E q \in Queries : Latest(q)
     \/ \E r \in Replies : Latest(r.q)
     \/ \E p \in painting : p.wanted = pane.wanted
     \/ /\ pane.shows.folder = view.folder /\ pane.shows.seq = view.seq
        /\ pane.shows.held = FolderAt(view.folder, view.seq)
     \/ pane.shows = Unreadable /\ \E q \in failed : Latest(q)
PaneInv == ~Coming => PaneComes

WindowInv ==
  /\ Typed /\ Browsable /\ OverviewStands /\ AnswersStand /\ Begun /\ KnownInv
  /\ ListComes /\ LastFits /\ PaneInv

LEMMA QueuesAre ==
  ASSUME Typed
  PROVE  Queries \subseteq Query /\ Replies \subseteq Reply
<1>1. asked \in Seq(Query) /\ answered \in Seq(Reply)
  BY DEF Typed
<1>2. \A q \in ToSet(asked) : q \in Query
  BY <1>1, RangeIs
<1>3. \A r \in ToSet(answered) : r \in Reply
  BY <1>1, RangeIs
<1> QED
  BY <1>2, <1>3 DEF Queries, Replies

(* What all this comes to, once it is quiet. *)
LEMMA WindowIsSafe ==
  ASSUME WindowInv
  PROVE  WindowSafety
<1>1. TypeOK
  <2>1. /\ holds \in Histories /\ made \in Seqs /\ catalogue \in Seq(Archive) /\ Len(catalogue) <= made
        /\ following \in BOOLEAN /\ listings \in [Folders -> SUBSET (0 .. MaxArchives)]
        /\ pane.wanted \in Nat /\ pane.picked \in BOOLEAN /\ pane.shows \in Shown
        /\ preview \in [name: 0 .. MaxArchives, folder: Places]
        /\ left \in LeftOf
    BY DEF WindowInv, Typed, PaneOf, LeftOf
  <2>2. news \in 0 .. Changes
    <3>1. left.changes \in 0 .. Changes /\ news \in Nat /\ news + left.changes <= Changes
      BY DEF WindowInv, Typed, LeftOf
    <3> QED
      BY <3>1, BoundsAre
  <2>3. view \in ViewOf
    BY DEF WindowInv, Typed
  <2>4. /\ view.archives \in Seq(Archive) /\ view.generation \in Nat /\ view.showAll \in BOOLEAN
        /\ view.seq \in 0 .. MaxArchives /\ view.folder \in Folders
        /\ view.listing \in [folder: Places, generation: Nat, seqs: SUBSET Seqs]
        /\ view.selected \in [folder: Places, held: Nat]
    BY <2>3, ViewFields DEF ArchiveList, ListingOf
  <2>5. \A i \in DOMAIN asked : asked[i].kind \in Kinds
    <3>1. asked \in Seq(Query)
      BY DEF WindowInv, Typed
    <3>2. \A i \in DOMAIN asked : asked[i] \in Query
      BY <3>1
    <3> QED
      BY <3>2, QueryFields
  <2>7. overview \in Seq(Seq(Archive)) /\ Len(overview) <= 2
    <3>1. overview \in Seq(ArchiveList) /\ Len(overview) <= 2
      BY DEF WindowInv, Typed
    <3>2. ArchiveList \subseteq Seq(Archive)
      BY DEF ArchiveList
    <3> QED
      BY <3>1, <3>2
  <2>8. \A q \in failed : q.kind \in Kinds
    BY QueryFields DEF WindowInv, Typed
  <2>6. \A p \in painting : p.wanted \in 1 .. pane.wanted /\ p.shows \in Shown
    <3> SUFFICES ASSUME NEW p \in painting
                 PROVE  p.wanted \in 1 .. pane.wanted /\ p.shows \in Shown
      OBVIOUS
    <3>1. p \in [wanted: Nat, shows: Shown] /\ 0 < p.wanted /\ p.wanted <= pane.wanted
      BY DEF WindowInv, Typed, LastFits, FitsPane
    <3> QED
      BY <2>1, <3>1
  <2> QED
    BY <2>1, <2>2, <2>4, <2>5, <2>6, <2>7, <2>8 DEF TypeOK, LeftOf
<1>2. SUFFICES ASSUME Quiet, ~Unloaded
               PROVE  PaneIsTheBackup /\ ListIsTheFolders /\ LandingHoldsIt
  BY <1>1 DEF WindowSafety, PaneIsTheBackup, ListIsTheFolders, LandingHoldsIt
<1>3. Queries = {} /\ Replies = {} /\ painting = {} /\ news = 0
  BY <1>2, RangeOfFew DEF Quiet, Queries, Replies
<1>4. ~Coming
  BY <1>2, <1>3 DEF Coming, Due
<1>5. Known /\ PaneComes
  BY <1>4 DEF WindowInv, KnownInv, PaneInv
<1>6. view.seq # 0 /\ view.generation # 0
  BY <1>2, <1>3 DEF WindowInv, Begun
<1>7. view \in ViewOf /\ Typed
  BY DEF WindowInv, Typed
<1>8. PaneIsTheBackup
  <2>1. \/ /\ pane.shows.folder = view.folder /\ pane.shows.seq = view.seq
           /\ pane.shows.held = FolderAt(view.folder, view.seq)
        \/ /\ pane.shows = Unreadable
           /\ \E q \in failed : q.kind = "folder" /\ q.wanted = pane.wanted
    BY <1>3, <1>5 DEF PaneComes, Latest
  <2>2. view.seq \in DOMAIN catalogue /\ view.archives = catalogue
    BY <1>5 DEF Known
  <2>3. Reading(view) = catalogue[view.seq].name
    BY <2>2 DEF Reading
  <2>4. catalogue[view.seq].name \in Seqs
    BY <1>7, <2>2, CatalogueIs, ListFields
  <2>5. Reading(view) # 0
    BY <2>3, <2>4, BoundsAre
  <2> QED
    BY <1>6, <2>1, <2>3, <2>5 DEF PaneIsTheBackup
<1>9. \/ ListingIsCurrent(view) /\ view.listing.seqs = ListedFor(view.folder)
      \/ /\ ~ListingIsCurrent(view)
         /\ \E q \in failed : /\ q.kind = "listing" /\ q.folder = view.folder
                               /\ q.generation = view.generation
  <2>1. ListingIsCurrent(view) \/ \E q \in failed : AsksNow(q)
    BY <1>3, <1>6 DEF WindowInv, ListComes
  <2>2. view.folder \in Folders
    BY <1>7, ViewFields
  <2>3. CASE ListingIsCurrent(view)
    BY <1>5, <2>2, <2>3 DEF Known, ListingIsCurrent
  <2>4. CASE ~ListingIsCurrent(view)
    BY <2>1, <2>4 DEF AsksNow
  <2> QED
    BY <2>3, <2>4
<1>10. LandingHoldsIt
  <2> SUFFICES ASSUME NEW s \in Catalogued(catalogue), FolderAt(view.folder, s) # 0
               PROVE  FolderAt(view.folder, Landing(view, s)) = FolderAt(view.folder, s)
    BY DEF LandingHoldsIt
  <2>1. view.archives = catalogue
    BY <1>5 DEF Known
  <2>2. CASE ListingIsCurrent(view)
    BY <1>7, <1>9, <2>1, <2>2, LandsOnTheSame
  <2>3. CASE ~ListingIsCurrent(view)
    <3>1. Landing(view, s) = s
      BY <2>3 DEF Landing
    <3> QED
      BY <3>1
  <2> QED
    BY <2>2, <2>3
<1> QED
  BY <1>8, <1>9, <1>10 DEF ListIsTheFolders

-----------------------------------------------------------------------------
(* How it begins. *)
LEMMA WindowBegins ==
  ASSUME Init
  PROVE  WindowInv
<1>0. MaxArchives \in Nat /\ MaxArchives > 1 /\ Start \in Folders /\ Seqs = 1 .. MaxArchives
  BY BoundsAre
<1>1. /\ made = MaxArchives - 1 /\ made \in Seqs
      /\ catalogue = [i \in 1 .. made |-> [name |-> i, catalogued |-> TRUE]]
  BY <1>0 DEF Init
<1>2. catalogue \in Seq(Archive) /\ Len(catalogue) = made /\ DOMAIN catalogue = 1 .. made
  <2>1. \A i \in 1 .. made : [name |-> i, catalogued |-> TRUE] \in Archive
    BY <1>0, <1>1 DEF Archive
  <2>2. catalogue \in [1 .. made -> Archive]
    BY <1>1, <2>1
  <2>3. made \in Nat
    BY <1>0, <1>1
  <2> QED
    BY <2>2, <2>3
<1>3. 1 \in Catalogued(catalogue)
  <2>1. 1 \in 1 .. made /\ catalogue[1].catalogued
    BY <1>0, <1>1
  <2> QED
    BY <1>2, <2>1 DEF Catalogued
<1>4. view = [archives |-> <<>>, generation |-> 0, listing |-> NoListing, showAll |-> FALSE,
              seq |-> 0, folder |-> Start, selected |-> NoFile]
  BY DEF Init
<1>5. view \in ViewOf
  <2>1. <<>> \in ArchiveList
    BY <1>0 DEF ArchiveList
  <2>2. NoListing \in ListingOf
    BY DEF NoListing, ListingOf, Places
  <2>3. NoFile \in [folder: Places, held: Nat]
    BY DEF NoFile, Places
  <2>4. 0 \in 0 .. MaxArchives
    BY <1>0
  <2> QED
    BY <1>0, <1>4, <2>1, <2>2, <2>3, <2>4 DEF ViewOf
<1>6. PICK q : q = [kind |-> "load", folder |-> Start]
  OBVIOUS
<1>7. asked = <<q>> /\ q \in Query /\ q.kind = "load"
  BY <1>0, <1>6, QueriesAre DEF Init
<1>8. Queries = {q} /\ asked \in Seq(Query)
  BY <1>7, RangeOfFew DEF Queries
<1>9. Replies = {} /\ answered \in Seq(Reply) /\ answered = <<>>
  BY RangeOfFew DEF Init, Replies
<1>10. pane = [wanted |-> 0, picked |-> FALSE, shows |-> Nothing]
  BY DEF Init
<1>11. pane \in PaneOf
  <2>1. Nothing \in Shown
    BY <1>0 DEF Nothing, Shown, Places
  <2> QED
    BY <1>10, <2>1 DEF PaneOf
<1>12. Typed
  <2>1. preview \in [name: 0 .. MaxArchives, folder: Places]
    <3>1. Blank \in [name: 0 .. MaxArchives, folder: Places]
      BY <1>0 DEF Blank, Places
    <3> QED
      BY <3>1 DEF Init
  <2>2. /\ listings \in [Folders -> SUBSET (0 .. MaxArchives)]
        /\ \A f \in Folders : listings[f] = Unknown \/ listings[f] \in SUBSET Seqs
    <3>1. Unknown \in SUBSET (0 .. MaxArchives)
      BY <1>0 DEF Unknown
    <3> QED
      BY <3>1 DEF Init
  <2>3. left \in LeftOf /\ news \in Nat
        /\ news + left.changes <= Changes
    BY BoundsAre DEF Init, LeftOf
  <2>4. holds \in Histories /\ following \in BOOLEAN /\ painting = {}
    BY DEF Init
  <2>5. Len(catalogue) <= made
    BY <1>0, <1>1, <1>2
  <2>6. overview \in Seq(ArchiveList) /\ Len(overview) <= 2 /\ failed \subseteq Query
    BY DEF Init
  <2> QED
    BY <1>1, <1>2, <1>5, <1>8, <1>9, <1>11, <2>1, <2>2, <2>3, <2>4, <2>5, <2>6 DEF Typed
<1>13. Due /\ Coming
  BY <1>7, <1>8 DEF Due, Coming
<1>14. Browsable /\ OverviewStands
  BY <1>3, <1>9 DEF Browsable, OverviewStands, Init
<1>15. AnswersStand /\ KnownInv /\ PaneInv
  BY <1>13 DEF AnswersStand, KnownInv, PaneInv
<1>16. Begun
  BY <1>4, <1>7, <1>8, <1>9, <1>10 DEF Begun
<1>17. ListComes
  BY <1>4 DEF ListComes
<1>18. LastFits
  <2>1. painting = {}
    BY DEF Init
  <2> QED
    BY <1>7, <1>8, <1>9, <2>1 DEF LastFits, Fits
<1> QED
  BY <1>12, <1>14, <1>15, <1>16, <1>17, <1>18 DEF WindowInv

-----------------------------------------------------------------------------
(* What the parts of a step do. *)

LEMMA ListingAsks ==
  ASSUME NEW v \in ViewOf
  PROVE  /\ Listing(v) \in Seq(Query)
         /\ \A q \in ToSet(Listing(v)) : q \in Query /\ q.kind = "listing"
         /\ ~ListingIsCurrent(v) =>
              \E q \in ToSet(Listing(v)) :
                q.kind = "listing" /\ q.folder = v.folder /\ q.generation = v.generation
<1>1. PICK l : l = [kind |-> "listing", folder |-> v.folder, generation |-> v.generation]
  OBVIOUS
<1>2. v.folder \in Folders /\ v.generation \in Nat
  BY ViewFields
<1>3. l \in Query /\ l.kind = "listing" /\ l.folder = v.folder /\ l.generation = v.generation
  BY <1>1, <1>2, QueriesAre
<1>4. CASE ListingIsCurrent(v)
  <2>1. Listing(v) = <<>>
    BY <1>4 DEF Listing, AsksListing
  <2> QED
    BY <1>4, <2>1, RangeOfFew
<1>5. CASE ~ListingIsCurrent(v)
  <2>1. Listing(v) = <<l>>
    BY <1>1, <1>5 DEF Listing, AsksListing
  <2>2. ToSet(Listing(v)) = {l} /\ Listing(v) \in Seq(Query)
    BY <1>3, <2>1, RangeOfFew
  <2> QED
    BY <1>3, <2>2
<1> QED
  BY <1>4, <1>5

LEMMA PreviewIs ==
  ASSUME NEW v \in ViewOf, Typed, PreviewRefreshes(v) \/ PreviewHears(v)
  PROVE  preview' \in [name: 0 .. MaxArchives, folder: Places]
<1>1. PICK n : n = Reading(v)
  OBVIOUS
<1>2. v.archives \in ArchiveList /\ v.selected.folder \in Places
  BY ViewFields
<1>3. n \in 0 .. MaxArchives
  <2>1. CASE v.seq \in DOMAIN v.archives
    <3>1. v.archives[v.seq].name \in Seqs
      BY <1>2, <2>1, ListFields
    <3> QED
      BY <1>1, <2>1, <3>1, BoundsAre DEF Reading
  <2>2. CASE v.seq \notin DOMAIN v.archives
    BY <1>1, <2>2, BoundsAre DEF Reading
  <2> QED
    BY <2>1, <2>2
<1>4. CASE PreviewRefreshes(v)
  <2>1. preview' = Blank \/ preview' = [name |-> n, folder |-> v.selected.folder]
    BY <1>1, <1>4 DEF PreviewRefreshes
  <2>2. Blank \in [name: 0 .. MaxArchives, folder: Places]
    BY BoundsAre DEF Blank, Places
  <2>3. [name |-> n, folder |-> v.selected.folder] \in [name: 0 .. MaxArchives, folder: Places]
    BY <1>2, <1>3
  <2> QED
    BY <2>1, <2>2, <2>3
<1>5. CASE ~PreviewRefreshes(v)
  <2>1. preview' = preview
    BY <1>5 DEF PreviewHears
  <2> QED
    BY <2>1 DEF Typed
<1> QED
  BY <1>4, <1>5

\* What is asked is asked after what has been.
Grows ==
  /\ Len(asked) <= Len(asked')
  /\ \A i \in 1 .. Len(asked) : asked'[i] = asked[i]

LEMMA ReloadsDoes ==
  ASSUME Typed, NEW v \in ViewOf, NEW more \in Seq(Query), Reloads(v, more)
  PROVE  /\ view' \in ViewOf /\ Keeps(view', v) /\ view'.seq = v.seq
         /\ pane' \in PaneOf /\ asked' \in Seq(Query) /\ Grows
         /\ Queries \subseteq Queries' /\ ToSet(more) \subseteq Queries'
         /\ v.seq = 0 => /\ pane'.shows = Nothing /\ pane'.wanted = pane.wanted
                         /\ Queries' = Queries \cup ToSet(more)
         /\ v.seq # 0 => /\ pane'.wanted = pane.wanted + 1
                         /\ \E q \in Queries' :
                              /\ q.kind = "folder" /\ q.folder = v.folder /\ q.seq = v.seq
                              /\ q.wanted = pane.wanted + 1
                              /\ Queries' = Queries \cup {q} \cup ToSet(more)
<1>1. asked \in Seq(Query) /\ pane \in PaneOf /\ pane.wanted \in Nat
  BY DEF Typed, PaneOf
<1>2. v.folder \in Folders /\ v.seq \in 0 .. MaxArchives
  BY ViewFields
<1>3. CASE v.seq = 0
  <2>1. /\ pane' = [pane EXCEPT !.shows = Nothing, !.picked = FALSE]
        /\ view' = (IF pane.picked THEN [v EXCEPT !.selected = NoFile] ELSE v)
        /\ asked' = asked \o more
    BY <1>3 DEF Reloads
  <2>2. NoFile \in [folder: Places, held: Nat] /\ Nothing \in Shown
    BY BoundsAre DEF NoFile, Nothing, Shown, Places
  <2>3. view' \in ViewOf /\ Keeps(view', v) /\ view'.seq = v.seq
    <3>1. CASE pane.picked
      <4>1. PICK w : w = [v EXCEPT !.selected = NoFile]
        OBVIOUS
      <4>2. w \in ViewOf
        BY <2>2, <4>1, ViewIs
      <4>3. Keeps(w, v) /\ w.seq = v.seq
        BY <4>1 DEF ViewOf, Keeps
      <4> QED
        BY <2>1, <3>1, <4>1, <4>2, <4>3
    <3>2. CASE ~pane.picked
      BY <2>1, <3>2 DEF Keeps
    <3> QED
      BY <3>1, <3>2
  <2>4. pane' \in PaneOf /\ pane'.shows = Nothing /\ pane'.wanted = pane.wanted
    BY <1>1, <2>1, <2>2 DEF PaneOf
  <2>5. asked' \in Seq(Query) /\ Queries' = Queries \cup ToSet(more)
    BY <1>1, <2>1, RangeOfBoth DEF Queries
  <2>6. Grows
    BY <1>1, <2>1 DEF Grows
  <2> QED
    BY <1>3, <2>3, <2>4, <2>5, <2>6
<1>4. CASE v.seq # 0
  <2>0. PICK n \in Nat : n = pane.wanted + 1
    BY <1>1
  <2>1. PICK q : q = [kind |-> "folder", folder |-> v.folder, seq |-> v.seq, wanted |-> n]
    OBVIOUS
  <2>a. PICK one : one = <<q>>
    OBVIOUS
  <2>2. /\ pane' = [pane EXCEPT !.wanted = n] /\ view' = v
        /\ asked' = (asked \o one) \o more
    BY <1>4, <2>0, <2>1, <2>a DEF Reloads
  <2>3. v.seq \in Seqs
    BY <1>2, <1>4, SeqsAre
  <2>4. /\ q \in Query /\ q.kind = "folder" /\ q.folder = v.folder /\ q.seq = v.seq
        /\ q.wanted = n
    BY <1>2, <2>1, <2>3, QueriesAre
  <2>5. one \in Seq(Query) /\ ToSet(one) = {q}
    BY <2>4, <2>a, RangeOfFew
  <2>b. PICK so : so = asked \o one
    OBVIOUS
  <2>6. so \in Seq(Query) /\ ToSet(so) = ToSet(asked) \cup {q}
    BY <1>1, <2>5, <2>b, RangeOfBoth
  <2>7. asked' \in Seq(Query) /\ ToSet(asked') = ToSet(asked) \cup {q} \cup ToSet(more)
    <3>1. asked' = so \o more
      BY <2>2, <2>b
    <3>2. ToSet(so \o more) = ToSet(so) \cup ToSet(more) /\ so \o more \in Seq(Query)
      BY <2>6, RangeOfBoth
    <3> QED
      BY <2>6, <3>1, <3>2
  <2>8. Queries' = Queries \cup {q} \cup ToSet(more)
    BY <2>7 DEF Queries
  <2>9. pane' \in PaneOf /\ pane'.wanted = pane.wanted + 1
    <3>1. pane \in PaneOf /\ pane' = [pane EXCEPT !.wanted = n]
      BY <1>1, <2>2
    <3>2. pane' \in PaneOf /\ pane'.wanted = n
      BY <3>1 DEF PaneOf
    <3> QED
      BY <2>0, <3>2
  <2>10. view' \in ViewOf /\ Keeps(view', v) /\ view'.seq = v.seq
    BY <2>2 DEF Keeps
  <2>11. q \in Queries'
    BY <2>8
  <2>12. Grows
    <3>1. Len(asked) <= Len(so) /\ \A i \in 1 .. Len(asked) : so[i] = asked[i] /\ i \in 1 .. Len(so)
      BY <1>1, <2>5, <2>b
    <3>2. Len(so) <= Len(so \o more) /\ \A i \in 1 .. Len(so) : (so \o more)[i] = so[i]
      BY <2>6
    <3>3. asked' = so \o more /\ Len(asked) \in Nat /\ Len(so) \in Nat /\ Len(asked') \in Nat
      BY <1>1, <2>2, <2>6, <2>7, <2>b
    <3> QED
      BY <3>1, <3>2, <3>3 DEF Grows
  <2> QED
    BY <1>4, <2>0, <2>4, <2>7, <2>8, <2>9, <2>10, <2>11, <2>12
<1> QED
  BY <1>3, <1>4

(* What was asked before a reload is superseded by it. *)
LEMMA ReloadSupersedes ==
  ASSUME Typed, LastFits, NEW v \in ViewOf, NEW more \in Seq(Query), Reloads(v, more),
         \A q \in ToSet(more) : q.kind # "folder",
         Replies' \subseteq Replies, painting' \subseteq painting,
         v.seq = 0 => pane.wanted = 0
  PROVE  LastFits' /\ (v.seq # 0 => PaneComes')
<1>1. /\ Keeps(view', v) /\ view'.seq = v.seq /\ pane.wanted \in Nat
  BY ReloadsDoes DEF Typed, PaneOf
<1>2. view'.folder = v.folder
  BY <1>1 DEF Keeps
<1>3. Queries \subseteq Query /\ Replies \subseteq Reply
  BY QueuesAre
<1>4. CASE v.seq = 0
  <2>1. pane'.wanted = 0 /\ pane.wanted = 0 /\ Queries' = Queries \cup ToSet(more)
    BY <1>4, ReloadsDoes
  <2>2. ASSUME NEW q \in Query, Fits(q) PROVE q.kind # "folder"
    BY <2>1, <2>2 DEF Fits
  <2>3. ASSUME NEW q \in Queries' PROVE q.kind # "folder"
    BY <1>3, <2>1, <2>2, <2>3 DEF LastFits
  <2>4. ASSUME NEW r \in Replies' PROVE r.q.kind # "folder"
    <3>1. r \in Replies /\ r.q \in Query
      BY <1>3, <2>4, ReplyFields
    <3> QED
      BY <2>2, <3>1 DEF LastFits
  <2>5. ASSUME NEW p \in painting' PROVE FALSE
    <3>1. p \in painting /\ p \in [wanted: Nat, shows: Shown]
      BY <2>5 DEF Typed
    <3> QED
      BY <2>1, <3>1 DEF LastFits, FitsPane
  <2>6. LastFits'
    BY <2>3, <2>4, <2>5 DEF LastFits, Fits
  <2> QED
    BY <1>4, <2>6
<1>5. CASE v.seq # 0
  <2>1. pane'.wanted = pane.wanted + 1
    BY <1>5, ReloadsDoes
  <2>2. PICK n \in Queries' :
          /\ n.kind = "folder" /\ n.folder = v.folder /\ n.seq = v.seq
          /\ n.wanted = pane.wanted + 1
          /\ Queries' = Queries \cup {n} \cup ToSet(more)
    BY <1>5, ReloadsDoes
  <2>3. ASSUME NEW q, Fits(q) PROVE Fits(q)'
    BY <1>1, <2>1, <2>3 DEF Fits
  <2>4. Fits(n)'
    BY <1>1, <1>2, <2>1, <2>2 DEF Fits
  <2>5. ASSUME NEW q \in Queries' PROVE Fits(q)'
    <3>1. CASE q \in Queries
      BY <2>3, <3>1 DEF LastFits
    <3>2. CASE q = n
      BY <2>4, <3>2
    <3>3. CASE q \in ToSet(more)
      BY <3>3 DEF Fits
    <3> QED
      BY <2>2, <2>5, <3>1, <3>2, <3>3
  <2>6. ASSUME NEW r \in Replies' PROVE Fits(r.q)'
    BY <2>3, <2>6 DEF LastFits
  <2>7. ASSUME NEW p \in painting' PROVE FitsPane(p)' /\ p.wanted # pane'.wanted
    <3>1. p \in painting /\ p \in [wanted: Nat, shows: Shown]
      BY <2>7 DEF Typed
    <3>2. p.wanted \in Nat /\ 0 < p.wanted /\ p.wanted <= pane.wanted
      BY <3>1 DEF LastFits, FitsPane
    <3> QED
      BY <1>1, <2>1, <3>2 DEF FitsPane
  <2>8. LastFits'
    BY <2>5, <2>6, <2>7 DEF LastFits
  <2>9. PaneComes'
    <3>1. Latest(n)'
      BY <2>1, <2>2 DEF Latest
    <3> QED
      BY <2>2, <2>7, <3>1 DEF PaneComes
  <2> QED
    BY <2>8, <2>9
<1> QED
  BY <1>4, <1>5

(* Nothing of the pane changes, and nothing that it waits for goes. *)
LEMMA PaneWaits ==
  ASSUME LastFits, UNCHANGED <<holds, catalogue, painting>>, pane'.wanted = pane.wanted,
         view'.folder = view.folder, view'.seq = view.seq,
         \A q \in Queries' : q \in Queries \/ q.kind # "folder",
         Replies' \subseteq Replies
  PROVE  LastFits'
<1>1. ASSUME NEW q, Fits(q) PROVE Fits(q)'
  BY <1>1 DEF Fits
<1>2. ASSUME NEW q \in Queries' PROVE Fits(q)'
  <2>1. CASE q \in Queries
    BY <1>1, <2>1 DEF LastFits
  <2>2. CASE q.kind # "folder"
    BY <2>2 DEF Fits
  <2> QED
    BY <1>2, <2>1, <2>2
<1>3. ASSUME NEW r \in Replies' PROVE Fits(r.q)'
  BY <1>1, <1>3 DEF LastFits
<1>4. ASSUME NEW p \in painting' PROVE FitsPane(p)'
  <2>1. p \in painting
    BY <1>4
  <2> QED
    BY <2>1 DEF LastFits, FitsPane
<1> QED
  BY <1>2, <1>3, <1>4 DEF LastFits

LEMMA FolderAtStays ==
  ASSUME UNCHANGED <<holds, catalogue>>, NEW f, NEW s
  PROVE  FolderAt(f, s)' = FolderAt(f, s)
BY DEF FolderAt, Held

LEMMA ListedForStays ==
  ASSUME UNCHANGED <<holds, catalogue>>, NEW f
  PROVE  ListedFor(f)' = ListedFor(f)
<1>1. \A s : FolderAt(f, s)' = FolderAt(f, s)
  BY FolderAtStays
<1> QED
  BY <1>1 DEF ListedFor, ListedSince, FolderAt, Held

LEMMA AnswerStays ==
  ASSUME UNCHANGED <<holds, catalogue>>, NEW q
  PROVE  Answer(q)' = Answer(q)
BY DEF Answer, ListedFor, ListedSince, FolderAt, Held, NextChange

LEMMA PaneStays ==
  ASSUME PaneComes, UNCHANGED <<holds, catalogue, painting, pane>>,
         view'.folder = view.folder, view'.seq = view.seq, Queries \subseteq Queries', failed \subseteq failed',
         \A r \in Replies : r.q.kind = "folder" => r \in Replies'
  PROVE  PaneComes'
<1>1. FolderAt(view.folder, view.seq)' = FolderAt(view.folder, view.seq)
  BY DEF FolderAt, Held
<1>2. \A q : Latest(q) <=> Latest(q)'
  BY DEF Latest
<1>3. \A p \in painting' :
        p.wanted = pane'.wanted => p.shows.held = FolderAt(view.folder, view.seq)'
  BY <1>1 DEF PaneComes
<1>4. CASE \E q \in Queries : Latest(q)
  BY <1>2, <1>3, <1>4 DEF PaneComes
<1>5. CASE \E r \in Replies : Latest(r.q)
  <2>1. PICK r \in Replies : Latest(r.q)
    BY <1>5
  <2>2. r \in Replies' /\ Latest(r.q)'
    BY <2>1 DEF Latest
  <2> QED
    BY <1>3, <2>2 DEF PaneComes
<1>6. CASE \E p \in painting : p.wanted = pane.wanted
  BY <1>3, <1>6 DEF PaneComes
<1>7. CASE /\ pane.shows.folder = view.folder /\ pane.shows.seq = view.seq
           /\ pane.shows.held = FolderAt(view.folder, view.seq)
  BY <1>1, <1>3, <1>7 DEF PaneComes
<1>8. CASE pane.shows = Unreadable /\ \E q \in failed : Latest(q)
  BY <1>2, <1>3, <1>8 DEF PaneComes
<1> QED
  BY <1>4, <1>5, <1>6, <1>7, <1>8 DEF PaneComes

(* A move within the folder. *)
LEMMA LandsDoes ==
  ASSUME Typed, LastFits, Begun, NEW v \in ViewOf, Lands(v),
         v.folder = view.folder, v.seq = 0 <=> view.seq = 0,
         UNCHANGED <<holds, catalogue, painting, failed>>, Replies' \subseteq Replies,
         \A r \in Replies : r.q.kind = "folder" => r \in Replies'
  PROVE  /\ view' \in ViewOf /\ Keeps(view', v) /\ view'.seq = v.seq
         /\ pane' \in PaneOf /\ asked' \in Seq(Query) /\ Grows
         /\ preview' \in [name: 0 .. MaxArchives, folder: Places]
         /\ Queries \subseteq Queries' /\ \A q \in Queries' : q \in Queries \/ q.kind = "folder"
         /\ LastFits' /\ (PaneComes => PaneComes')
         /\ v.seq = 0 => UNCHANGED pane
<1>1. preview' \in [name: 0 .. MaxArchives, folder: Places]
  <2>1. PreviewHears(v)
    BY DEF Lands
  <2> QED
    BY <2>1, PreviewIs
<1>2. CASE v.seq # view.seq
  <2>1. Reloads(v, <<>>)
    BY <1>2 DEF Lands
  <2>2. <<>> \in Seq(Query) /\ ToSet(<<>>) = {}
    BY RangeOfFew
  <2>3. v.seq # 0 /\ painting' \subseteq painting
    BY <1>2
  <2>4. /\ view' \in ViewOf /\ Keeps(view', v) /\ view'.seq = v.seq
        /\ pane' \in PaneOf /\ asked' \in Seq(Query) /\ Grows /\ Queries \subseteq Queries'
    BY <2>1, <2>2, ReloadsDoes
  <2>5. \A q \in Queries' : q \in Queries \/ q.kind = "folder"
    BY ZenonT(60), <2>1, <2>2, <2>3, ReloadsDoes
  <2>6. LastFits' /\ PaneComes'
    BY <2>1, <2>2, <2>3, ReloadSupersedes
  <2> QED
    BY <1>1, <2>3, <2>4, <2>5, <2>6
<1>3. CASE v.seq = view.seq
  <2>1. view' = v /\ UNCHANGED <<pane, asked>>
    BY <1>3 DEF Lands
  <2>2. Keeps(view', v) /\ view'.seq = view.seq /\ view'.folder = view.folder
    BY <1>3, <2>1 DEF Keeps
  <2>3. Queries' = Queries /\ pane'.wanted = pane.wanted
    BY <2>1 DEF Queries
  <2>4. LastFits'
    BY <2>2, <2>3, PaneWaits
  <2>5. PaneComes => PaneComes'
    BY <2>1, <2>2, <2>3, PaneStays
  <2>6. pane' \in PaneOf /\ asked' \in Seq(Query) /\ Grows
    BY <2>1 DEF Typed, Grows
  <2> QED
    BY <1>1, <1>3, <2>1, <2>2, <2>3, <2>4, <2>5, <2>6
<1> QED
  BY <1>2, <1>3

(* Where answers are neither got nor given. *)
LEMMA AnswersWait ==
  ASSUME AnswersStand, UNCHANGED <<holds, catalogue, answered>>, Due => Due'
  PROVE  AnswersStand'
<1>1. CASE Due
  BY <1>1 DEF AnswersStand
<1>2. CASE ~Due
  <2>1. \A i \in 1 .. Len(answered) : \A r \in Reply :
          answered[i] = r =>
            \/ \E j \in 1 .. Len(answered) : j > i /\ answered[j].q.kind = "load"
            \/ r.answer = Error \/ r.answer = Answer(r.q)
    BY <1>2 DEF AnswersStand
  <2>2. \A q : Answer(q)' = Answer(q)
    BY AnswerStays
  <2> QED
    BY <2>1, <2>2 DEF AnswersStand
<1> QED
  BY <1>1, <1>2

(* What is heard of was the first that was answered. *)
Heard == answered # <<>> /\ answered' = Tail(answered)
LEMMA HeardIs ==
  ASSUME Typed, Heard
  PROVE  /\ Head(answered) \in Reply /\ Head(answered) \in Replies
         /\ Head(answered) = answered[1] /\ answered # <<>>
         /\ Replies = {Head(answered)} \cup Replies' /\ Replies' \subseteq Replies
         /\ answered' \in Seq(Reply) /\ answered' = Tail(answered)
<1>1. answered # <<>> /\ answered' = Tail(answered)
  BY DEF Heard
<1>2. answered \in Seq(Reply)
  BY DEF Typed
<1> QED
  BY <1>1, <1>2, RangeOfTail DEF Replies

(* An answer that is got was the first. *)
LEMMA GetsDoes ==
  ASSUME Typed, NEW kind, Gets(kind)
  PROVE  /\ Head(answered) \in Reply /\ Head(answered) \in Replies /\ Head(answered).q.kind = kind
         /\ Head(answered).answer # Error /\ Heard
         /\ Replies = {Head(answered)} \cup Replies' /\ Replies' \subseteq Replies
         /\ answered' \in Seq(Reply)
<1>1. Heard /\ Head(answered).q.kind = kind /\ Head(answered).answer # Error
  BY DEF Gets, Heard
<1> QED
  BY <1>1, HeardIs

LEMMA AnswersGot ==
  ASSUME Typed, AnswersStand, Heard, UNCHANGED <<holds, catalogue>>, Due => Due'
  PROVE  /\ AnswersStand'
         /\ ~Due /\ (\A r \in Replies' : r.q.kind # "load") =>
              Head(answered).answer \in {Error, Answer(Head(answered).q)}
<1>1. /\ answered \in Seq(Reply) /\ answered # <<>> /\ answered' = Tail(answered)
      /\ Head(answered) = answered[1]
  BY HeardIs DEF Typed
<1>2. /\ Len(answered') = Len(answered) - 1 /\ Len(answered) \in Nat /\ Len(answered) > 0
      /\ \A i \in 1 .. Len(answered) - 1 : answered'[i] = answered[i + 1]
  BY <1>1
<1>3. CASE Due
  BY <1>3 DEF AnswersStand
<1>4. CASE ~Due
  <2>1. \A i \in 1 .. Len(answered) : \A r \in Reply :
          answered[i] = r =>
            \/ \E j \in 1 .. Len(answered) : j > i /\ answered[j].q.kind = "load"
            \/ r.answer = Error \/ r.answer = Answer(r.q)
    BY <1>4 DEF AnswersStand
  <2>2. ASSUME NEW i \in 1 .. Len(answered'), NEW r \in Reply, answered'[i] = r,
               ~(r.answer = Error \/ r.answer = Answer(r.q)')
        PROVE  \E j \in 1 .. Len(answered') : j > i /\ answered'[j].q.kind = "load"
    <3>1. i + 1 \in 1 .. Len(answered) /\ answered[i + 1] = r
      BY <1>2, <2>2
    <3>2. Answer(r.q)' = Answer(r.q)
      BY AnswerStays
    <3>3. PICK j \in 1 .. Len(answered) : j > i + 1 /\ answered[j].q.kind = "load"
      BY <2>1, <2>2, <3>1, <3>2
    <3>4. j - 1 \in 1 .. Len(answered') /\ j - 1 > i /\ (j - 1) + 1 = j
      BY <1>2, <3>3
    <3>5. answered'[j - 1] = answered[j]
      BY <1>2, <3>4
    <3> QED
      BY <3>3, <3>4, <3>5
  <2>3. AnswersStand'
    BY <2>2 DEF AnswersStand
  <2>4. ASSUME \A r \in Replies' : r.q.kind # "load"
        PROVE  Head(answered).answer \in {Error, Answer(Head(answered).q)}
    <3>1. ASSUME NEW j \in 1 .. Len(answered), j > 1 PROVE answered[j].q.kind # "load"
      <4>1. j - 1 \in 1 .. Len(answered') /\ answered'[j - 1] = answered[j]
        <5>1. j - 1 \in 1 .. Len(answered) - 1 /\ (j - 1) + 1 = j
          BY <1>2, <3>1
        <5> QED
          BY <1>2, <5>1
      <4>2. answered[j] \in Replies'
        <5>1. answered' \in Seq(Reply)
          BY HeardIs
        <5>2. \E i \in 1 .. Len(answered') : answered[j] = answered'[i]
          BY <4>1
        <5> QED
          BY <5>1, <5>2, RangeIs DEF Replies
      <4> QED
        BY <2>4, <4>2
    <3>2. 1 \in 1 .. Len(answered) /\ answered[1] \in Reply
      BY <1>1, <1>2
    <3>3. ~ \E j \in 1 .. Len(answered) : j > 1 /\ answered[j].q.kind = "load"
      BY <3>1
    <3>4. answered[1].answer \in {Error, Answer(answered[1].q)}
      BY <2>1, <3>2, <3>3
    <3> QED
      BY <1>1, <3>4
  <2> QED
    BY <1>4, <2>3, <2>4
<1> QED
  BY <1>3, <1>4

(* The parts of the invariant that a step leaves alone. *)
LEMMA BegunStays ==
  ASSUME Begun, view'.seq = 0 <=> view.seq = 0, view'.generation = view.generation,
         view.seq = 0 => /\ view'.archives = view.archives
                         /\ pane'.shows = Nothing /\ pane'.wanted = 0
                         /\ \A q \in Queries' : q \in Queries \/ q.kind # "change",
         Replies' \subseteq Replies,
         \A q \in Queries : q.kind = "load" => q \in Queries',
         \A r \in Replies : r.q.kind = "load" => r \in Replies',
         failed \subseteq failed'
  PROVE  Begun'
<1>1. Unloaded => Unloaded'
  BY DEF Unloaded
<1> QED
  BY <1>1 DEF Begun

LEMMA KnownStays ==
  ASSUME Known, UNCHANGED <<holds, catalogue>>,
         view'.archives = view.archives, view'.generation = view.generation,
         view'.seq \in DOMAIN catalogue,
         \A f \in Folders : \/ listings'[f] = listings[f]
                            \/ listings'[f] = Unknown \/ listings'[f] = ListedFor(f),
         \/ view'.listing = view.listing
         \/ view'.listing.folder \in Folders =>
              view'.listing.seqs = ListedFor(view'.listing.folder)
  PROVE  Known'
<1>1. \A f : ListedFor(f)' = ListedFor(f)
  BY ListedForStays
<1>2. \A f \in Folders : listings'[f] = Unknown \/ listings'[f] = ListedFor(f)'
  <2> SUFFICES ASSUME NEW f \in Folders
               PROVE  listings'[f] = Unknown \/ listings'[f] = ListedFor(f)'
    OBVIOUS
  <2>1. listings[f] = Unknown \/ listings[f] = ListedFor(f)
    BY DEF Known
  <2> QED
    BY <1>1, <2>1
<1>3. ASSUME view'.listing.folder \in Folders, view'.listing.generation = view'.generation
      PROVE  \A f \in Folders :
               f = view'.listing.folder => view'.listing.seqs = ListedFor(f)'
  <2> SUFFICES ASSUME NEW f \in Folders, f = view'.listing.folder
               PROVE  view'.listing.seqs = ListedFor(f)'
    OBVIOUS
  <2>1. view'.listing.seqs = ListedFor(f)
    <3>1. CASE view'.listing = view.listing
      BY <1>3, <3>1 DEF Known
    <3>2. CASE view'.listing.seqs = ListedFor(view'.listing.folder)
      BY <3>2
    <3> QED
      BY <1>3, <3>1, <3>2
  <2> QED
    BY <1>1, <2>1
<1>4. view'.archives = catalogue' /\ view'.seq \in DOMAIN catalogue'
  BY DEF Known
<1> QED
  BY <1>2, <1>3, <1>4, Zenon DEF Known

LEMMA ListStays ==
  ASSUME ListComes, Keeps(view', view),
         \A q \in Queries : q.kind = "listing" => q \in Queries',
         \A r \in Replies : r.q.kind = "listing" => r \in Replies',
         failed \subseteq failed'
  PROVE  ListComes'
<1>1. /\ view'.folder = view.folder /\ view'.generation = view.generation
      /\ view'.listing = view.listing
  BY DEF Keeps
<1>2. \A q : AsksNow(q)' <=> AsksNow(q)
  BY <1>1 DEF AsksNow
<1>3. CASE view.generation = 0 \/ ListingIsCurrent(view)
  BY <1>1, <1>3 DEF ListComes, ListingIsCurrent
<1>4. CASE \E q \in Queries : AsksNow(q)
  <2>1. PICK q \in Queries : AsksNow(q)
    BY <1>4
  <2>2. q \in Queries'
    BY <2>1 DEF AsksNow
  <2> QED
    BY <1>2, <2>1, <2>2 DEF ListComes
<1>5. CASE \E r \in Replies : AsksNow(r.q)
  <2>1. PICK r \in Replies : AsksNow(r.q)
    BY <1>5
  <2>2. r \in Replies'
    BY <2>1 DEF AsksNow
  <2>3. AsksNow(r.q)'
    BY <1>2, <2>1
  <2> QED
    BY <2>2, <2>3 DEF ListComes
<1>6. CASE \E q \in failed : AsksNow(q)
  BY <1>2, <1>6 DEF ListComes
<1> QED
  BY <1>3, <1>4, <1>5, <1>6 DEF ListComes

LEMMA ComingStays ==
  ASSUME news' = news,
         \A q \in Queries : q.kind = "load" => q \in Queries',
         \A r \in Replies : r.q.kind = "load" => r \in Replies',
         failed \subseteq failed'
  PROVE  (Due => Due') /\ (Coming => Coming')
<1>1. Unloaded => Unloaded'
  BY DEF Unloaded
<1> QED
  BY <1>1 DEF Due, Coming

(* What the worker has found stands while more is asked. *)
LEMMA OverviewStays ==
  ASSUME Typed, OverviewStands, UNCHANGED <<catalogue, overview>>, Grows,
         asked' \in Seq(Query),
         news > 0 => news' > 0 \/ \E i \in Len(asked) + 1 .. Len(asked') : asked'[i].kind = "load"
  PROVE  OverviewStands'
<1> SUFFICES ASSUME overview # <<>> PROVE OverviewStands'
  BY DEF OverviewStands
<1>1. /\ asked # <<>> /\ asked \in Seq(Query) /\ Len(asked) \in Nat \ {0} /\ Len(asked') \in Nat
      /\ Len(asked) <= Len(asked') /\ \A i \in 1 .. Len(asked) : asked'[i] = asked[i]
  BY DEF OverviewStands, Typed, Grows
<1>2. \A n \in 1 .. Len(overview') : Catalogued(overview[n])' # {}
  BY DEF OverviewStands, Catalogued
<1>3. asked' # <<>>
  BY <1>1
<1>4. CASE \A n \in 1 .. Len(overview) : overview[n] = catalogue
  BY <1>2, <1>3, <1>4 DEF OverviewStands
<1>5. CASE news > 0
  <2>1. CASE news' > 0
    BY <1>2, <1>3, <2>1 DEF OverviewStands
  <2>2. CASE \E i \in Len(asked) + 1 .. Len(asked') : asked'[i].kind = "load"
    <3>1. \E i \in 2 .. Len(asked') : asked'[i].kind = "load"
      BY <1>1, <2>2
    <3> QED
      BY <1>2, <1>3, <3>1 DEF OverviewStands
  <2> QED
    BY <1>5, <2>1, <2>2
<1>6. CASE \E i \in 2 .. Len(asked) : asked[i].kind = "load"
  <2>1. \E i \in 2 .. Len(asked') : asked'[i].kind = "load"
    BY <1>1, <1>6
  <2> QED
    BY <1>2, <1>3, <2>1 DEF OverviewStands
<1> QED
  BY <1>4, <1>5, <1>6 DEF OverviewStands

-----------------------------------------------------------------------------
(* The steps. *)

(* The query the worker is on is answered, or fails. *)
LEMMA AnswersKeeps ==
  ASSUME WindowInv, NEW x, Answers(x), NEW q, q = Head(asked), x = Error \/ x \in AnswerTo(q),
         x = Error \/ Due' \/ x = Answer(q),
         x # Error /\ q.kind = "load" => Catalogued(x.archives) # {},
         left' \in LeftOf, left'.changes = left.changes
  PROVE  WindowInv'
<1>0. /\ Typed /\ Browsable /\ OverviewStands /\ AnswersStand /\ Begun /\ KnownInv
      /\ ListComes /\ LastFits /\ PaneInv
  BY DEF WindowInv
<1>2. PICK r : r = [q |-> q, answer |-> x]
  OBVIOUS
<1>3. /\ asked # <<>> /\ asked' = Tail(asked) /\ answered' = Append(answered, r)
      /\ overview' = <<>>
      /\ UNCHANGED <<daemon, following, view, listings, failed, painting, pane, preview>>
  BY <1>2, Zenon DEF Answers
<1>4. /\ UNCHANGED <<holds, catalogue, made, news, following, view, listings>>
      /\ UNCHANGED <<failed, painting, pane, preview>>
  BY <1>3 DEF daemon
<1>5. q \in Query /\ Queries = {q} \cup Queries' /\ asked' \in Seq(Query)
  BY <1>0, <1>3, RangeOfTail DEF Typed, Queries
<1>6. r \in Reply /\ r.q = q /\ r.answer = x
  BY <1>2, <1>5, RepliesAre
<1>7. /\ Replies' = Replies \cup {r} /\ answered' \in Seq(Reply)
      /\ Len(answered') = Len(answered) + 1 /\ Len(answered) \in Nat
      /\ \A i \in 1 .. Len(answered) : answered'[i] = answered[i]
      /\ answered'[Len(answered) + 1] = r
  BY <1>0, <1>3, <1>6, RangeOfAppend DEF Typed, Replies
<1>8. Typed' /\ OverviewStands'
  <2>1. overview' \in Seq(ArchiveList) /\ Len(overview') <= 2
    BY <1>3
  <2> QED
    BY <1>0, <1>3, <1>4, <1>5, <1>7, <2>1 DEF Typed, OverviewStands
<1>9. Browsable'
  <2>1. \A p \in Replies' :
          p.q.kind = "load" /\ p.answer # Error => Catalogued(p.answer.archives) # {}
    BY <1>0, <1>6, <1>7 DEF Browsable
  <2> QED
    BY <1>0, <1>4, <2>1 DEF Browsable, Catalogued
<1>10. AnswersStand'
  <2> SUFFICES ASSUME ~Due', NEW i \in 1 .. Len(answered'), NEW a \in Reply, answered'[i] = a
               PROVE  \/ \E j \in 1 .. Len(answered') : j > i /\ answered'[j].q.kind = "load"
                      \/ a.answer = Error \/ a.answer = Answer(a.q)'
    BY DEF AnswersStand
  <2>1. Answer(a.q)' = Answer(a.q)
    BY <1>4, AnswerStays
  <2>2. CASE i = Len(answered) + 1
    BY <1>6, <1>7, <2>1, <2>2
  <2>3. CASE i \in 1 .. Len(answered)
    <3>1. answered[i] = a
      BY <1>7, <2>3
    <3>2. CASE q.kind = "load"
      <4>1. Len(answered) + 1 \in 1 .. Len(answered') /\ Len(answered) + 1 > i
        BY <1>7, <2>3
      <4> QED
        BY <1>6, <1>7, <3>2, <4>1
    <3>3. CASE q.kind # "load"
      <4>1. ~Due
        BY <1>4, <1>5, <3>3 DEF Due
      <4>2. \/ \E j \in 1 .. Len(answered) : j > i /\ answered[j].q.kind = "load"
            \/ a.answer = Error \/ a.answer = Answer(a.q)
        BY <1>0, <2>3, <3>1, <4>1 DEF AnswersStand
      <4>3. CASE \E j \in 1 .. Len(answered) : j > i /\ answered[j].q.kind = "load"
        <5>1. PICK j \in 1 .. Len(answered) : j > i /\ answered[j].q.kind = "load"
          BY <4>3
        <5>2. j \in 1 .. Len(answered') /\ answered'[j].q.kind = "load"
          BY <1>7, <5>1
        <5> QED
          BY <5>1, <5>2
      <4> QED
        BY <2>1, <4>2, <4>3
    <3> QED
      BY <3>2, <3>3
  <2> QED
    BY <1>7, <2>2, <2>3
<1>11. Coming => Coming'
  <2>1. CASE news > 0
    BY <1>4, <2>1 DEF Coming, Due
  <2>2. CASE \E p \in Queries : p.kind = "load"
    <3>1. PICK p \in Queries : p.kind = "load"
      BY <2>2
    <3>2. CASE p = q
      BY <1>6, <1>7, <3>1, <3>2 DEF Coming
    <3>3. CASE p # q
      BY <1>5, <3>1, <3>3 DEF Coming, Due
    <3> QED
      BY <3>2, <3>3
  <2>3. CASE \E a \in Replies : a.q.kind = "load"
    BY <1>7, <2>3 DEF Coming
  <2>4. CASE Unloaded
    BY <1>4, <2>4 DEF Coming, Unloaded
  <2> QED
    BY <2>1, <2>2, <2>3, <2>4 DEF Coming, Due
<1>12. Begun'
  <2>1. CASE view.seq # 0
    BY <1>0, <1>4, <2>1 DEF Begun
  <2>2. CASE view.seq = 0
    <3>1. \/ \E p \in Queries' : p.kind = "load"
          \/ \E a \in Replies' : a.q.kind = "load"
          \/ Unloaded'
      <4>1. CASE \E p \in Queries : p.kind = "load"
        <5>1. PICK p \in Queries : p.kind = "load"
          BY <4>1
        <5> QED
          BY <1>5, <1>6, <1>7, <5>1
      <4>2. CASE \E a \in Replies : a.q.kind = "load"
        BY <1>7, <4>2
      <4>3. CASE Unloaded
        BY <1>4, <4>3 DEF Unloaded
      <4> QED
        BY <1>0, <2>2, <4>1, <4>2, <4>3 DEF Begun
    <3>2. q.kind # "change" /\ \A p \in Queries' : p.kind # "change"
      BY <1>0, <1>5, <2>2 DEF Begun
    <3>3. \A a \in Replies' : a.q.kind # "change"
      BY <1>0, <1>6, <1>7, <2>2, <3>2 DEF Begun
    <3> QED
      BY <1>0, <1>4, <2>2, <3>1, <3>2, <3>3 DEF Begun
  <2> QED
    BY <2>1, <2>2
<1>13. KnownInv'
  <2> SUFFICES ASSUME ~Coming' PROVE Known'
    BY DEF KnownInv
  <2>1. Known
    BY <1>0, <1>11 DEF KnownInv
  <2>2. view.seq \in DOMAIN catalogue
    BY <2>1 DEF Known
  <2> QED
    BY <1>4, <2>1, <2>2, KnownStays
<1>14. ListComes'
  <2>1. \A p : AsksNow(p)' <=> AsksNow(p)
    BY <1>4 DEF AsksNow
  <2>2. CASE \E p \in Queries : AsksNow(p)
    <3>1. PICK p \in Queries : AsksNow(p)
      BY <2>2
    <3>2. CASE p = q
      <4>1. r \in Replies' /\ AsksNow(r.q)'
        BY <1>6, <1>7, <2>1, <3>1, <3>2
      <4> QED
        BY <4>1 DEF ListComes
    <3>3. CASE p # q
      <4>1. p \in Queries' /\ AsksNow(p)'
        BY <1>5, <2>1, <3>1, <3>3
      <4> QED
        BY <4>1 DEF ListComes
    <3> QED
      BY <3>2, <3>3
  <2>3. CASE \E a \in Replies : AsksNow(a.q)
    <3>1. PICK a \in Replies : AsksNow(a.q)
      BY <2>3
    <3>2. a \in Replies' /\ AsksNow(a.q)'
      BY <1>7, <2>1, <3>1
    <3> QED
      BY <3>2 DEF ListComes
  <2>4. CASE view.generation = 0 \/ ListingIsCurrent(view)
    BY <1>4, <2>4 DEF ListComes, ListingIsCurrent
  <2>5. CASE \E p \in failed : AsksNow(p)
    BY <1>4, <2>1, <2>5 DEF ListComes
  <2> QED
    BY <1>0, <2>2, <2>3, <2>4, <2>5 DEF ListComes
<1>15. LastFits'
  <2>1. \A p : Fits(p) => Fits(p)'
    BY <1>4 DEF Fits
  <2>2. \A p \in painting' : FitsPane(p)'
    BY <1>0, <1>4 DEF LastFits, FitsPane
  <2>3. \A p \in Queries' : Fits(p)'
    BY <1>0, <1>5, <2>1 DEF LastFits
  <2>4. \A a \in Replies' : Fits(a.q)'
    <3> SUFFICES ASSUME NEW a \in Replies' PROVE Fits(a.q)'
      OBVIOUS
    <3>1. Fits(a.q)
      BY <1>0, <1>5, <1>6, <1>7 DEF LastFits
    <3> QED
      BY <2>1, <3>1
  <2> QED
    BY <2>2, <2>3, <2>4 DEF LastFits
<1>16. PaneInv'
  <2> SUFFICES ASSUME ~Coming' PROVE PaneComes'
    BY DEF PaneInv
  <2>1. PaneComes
    BY <1>0, <1>11 DEF PaneInv
  <2>2. CASE Latest(q)
    <3>1. r \in Replies' /\ Latest(r.q)'
      BY <1>4, <1>6, <1>7, <2>2 DEF Latest
    <3>2. \A p \in painting' :
            p.wanted = pane'.wanted => p.shows.held = FolderAt(view.folder, view.seq)'
      BY <1>4, <2>1 DEF PaneComes, FolderAt, Held
    <3> QED
      BY <3>1, <3>2 DEF PaneComes
  <2>3. CASE ~Latest(q)
    <3>1. \A p : Latest(p)' <=> Latest(p)
      BY <1>4 DEF Latest
    <3>2. \A p \in painting' :
            p.wanted = pane'.wanted => p.shows.held = FolderAt(view.folder, view.seq)'
      BY <1>4, <2>1 DEF PaneComes, FolderAt, Held
    <3>3. CASE \E p \in Queries : Latest(p)
      BY <1>5, <2>3, <3>1, <3>2, <3>3 DEF PaneComes
    <3>4. CASE \E a \in Replies : Latest(a.q)
      <4>1. PICK a \in Replies : Latest(a.q)
        BY <3>4
      <4>2. a \in Replies' /\ Latest(a.q)'
        BY <1>7, <3>1, <4>1
      <4> QED
        BY <3>2, <4>2 DEF PaneComes
    <3>5. CASE \E p \in painting : p.wanted = pane.wanted
      BY <1>4, <3>2, <3>5 DEF PaneComes
    <3>6. CASE /\ pane.shows.folder = view.folder /\ pane.shows.seq = view.seq
               /\ pane.shows.held = FolderAt(view.folder, view.seq)
      BY <1>4, <3>2, <3>6 DEF PaneComes, FolderAt, Held
    <3>7. CASE pane.shows = Unreadable /\ \E p \in failed : Latest(p)
      BY <1>4, <3>1, <3>2, <3>7 DEF PaneComes
    <3> QED
      BY <2>1, <3>3, <3>4, <3>5, <3>6, <3>7 DEF PaneComes
  <2> QED
    BY <2>2, <2>3
<1> QED
  BY <1>8, <1>9, <1>10, <1>12, <1>13, <1>14, <1>15, <1>16 DEF WindowInv

LEMMA ReadsKeeps ==
  ASSUME WindowInv, Reads
  PROVE  WindowInv'
<1>0. Typed /\ Browsable /\ OverviewStands
  BY DEF WindowInv
<1>1. PICK q : q = Head(asked)
  OBVIOUS
<1>2. PICK x : x = CASE q.kind = "load"    -> [archives |-> overview[1],
                                                seqs |-> ListedSince(overview[2], q.folder)]
                     [] q.kind = "listing" -> [seqs |-> ListedSince(overview[1], q.folder)]
                     [] q.kind = "folder"  -> [held |-> FolderAt(q.folder, q.seq)]
                     [] q.kind = "change"  -> [seq |-> NextChange(q.folder, q.seq, q.newer)]
  OBVIOUS
<1>3. asked # <<>> /\ Len(overview) = Before(q) /\ left' = left /\ Answers(x)
  BY <1>1, <1>2, Zenon DEF Reads
<1>4. asked' = Tail(asked) /\ news' = news
  BY <1>3 DEF Answers, daemon
<1>5. asked \in Seq(Query) /\ q \in Query /\ q.kind \in Kinds /\ q.folder \in Folders
  BY <1>0, <1>1, <1>3, QueryFields DEF Typed
<1>6. left' \in LeftOf /\ left'.changes = left.changes
  BY <1>0, <1>3 DEF Typed
<1>7. ASSUME Len(overview) > 0
      PROVE  /\ \A n \in 1 .. Len(overview) :
                  overview[n] \in ArchiveList /\ Catalogued(overview[n]) # {}
             /\ Due' \/ \A n \in 1 .. Len(overview) : overview[n] = catalogue
  <2>0. overview \in Seq(ArchiveList) /\ overview # <<>>
    BY <1>0, <1>7 DEF Typed
  <2>1. \A n \in 1 .. Len(overview) : overview[n] \in ArchiveList
    BY <2>0
  <2>2. CASE \E i \in 2 .. Len(asked) : asked[i].kind = "load"
    <3>1. PICK i \in 2 .. Len(asked) : asked[i].kind = "load"
      BY <2>2
    <3>2. i - 1 \in 1 .. Len(asked') /\ asked'[i - 1] = asked[i] /\ asked' \in Seq(Query)
      BY <1>3, <1>4, <1>5
    <3>3. asked[i] \in Queries'
      <4>1. \E k \in 1 .. Len(asked') : asked[i] = asked'[k]
        BY <3>2
      <4> QED
        BY <3>2, <4>1, RangeIs DEF Queries
    <3> QED
      BY <1>0, <2>0, <2>1, <3>1, <3>3 DEF OverviewStands, Due
  <2> QED
    BY <1>0, <1>4, <2>0, <2>1, <2>2 DEF OverviewStands, Due
<1>8. CASE q.kind = "load"
  <2>1. /\ x = [archives |-> overview[1], seqs |-> ListedSince(overview[2], q.folder)]
        /\ Len(overview) = 2
    BY <1>2, <1>3, <1>8 DEF Before
  <2>2. AnswerTo(q) = [archives: ArchiveList, seqs: SUBSET Seqs]
    BY <1>8 DEF AnswerTo
  <2>3. Answer(q) = [archives |-> catalogue, seqs |-> ListedFor(q.folder)]
    BY <1>8 DEF Answer
  <2>4. x \in AnswerTo(q) /\ x.archives = overview[1]
    BY <1>5, <1>7, <2>1, <2>2, ListedSinceIs
  <2>5. Due' \/ x = Answer(q)
    BY <1>7, <2>1, <2>3 DEF ListedFor
  <2>6. Catalogued(x.archives) # {}
    BY <1>7, <2>1, <2>4
  <2> QED
    BY <1>1, <1>3, <1>6, <2>4, <2>5, <2>6, AnswersKeeps
<1>9. CASE q.kind = "listing"
  <2>1. x = [seqs |-> ListedSince(overview[1], q.folder)] /\ Len(overview) = 1
    BY <1>2, <1>3, <1>9 DEF Before
  <2>2. AnswerTo(q) = [seqs: SUBSET Seqs]
    BY <1>9 DEF AnswerTo
  <2>3. Answer(q) = [seqs |-> ListedFor(q.folder)]
    BY <1>9 DEF Answer
  <2>4. x \in AnswerTo(q)
    BY <1>5, <1>7, <2>1, <2>2, ListedSinceIs
  <2>5. Due' \/ x = Answer(q)
    BY <1>7, <2>1, <2>3 DEF ListedFor
  <2>6. q.kind # "load"
    BY <1>9
  <2> QED
    BY <1>1, <1>3, <1>6, <2>4, <2>5, <2>6, AnswersKeeps
<1>10. CASE q.kind \in {"folder", "change"}
  <2>1. x = Answer(q)
    BY <1>2, <1>10 DEF Answer
  <2>2. x \in AnswerTo(q)
    BY <1>0, <1>5, <2>1, AnswerFits
  <2>3. q.kind # "load"
    BY <1>10
  <2> QED
    BY <1>1, <1>3, <1>6, <2>1, <2>2, <2>3, AnswersKeeps
<1> QED
  BY <1>5, <1>8, <1>9, <1>10 DEF Kinds

LEMMA DoesIs ==
  ASSUME Typed, Does
  PROVE  left' \in LeftOf /\ left'.changes = left.changes
<1>1. PICK n : n = left.moves - 1
  OBVIOUS
<1>2. left \in LeftOf /\ Moves \in Nat
  BY BoundsAre DEF Typed
<1>3. left' = [left EXCEPT !.moves = n] /\ left.moves > 0
  BY <1>1 DEF Does
<1>4. n \in 0 .. Moves
  BY <1>1, <1>2, <1>3 DEF LeftOf
<1> QED
  BY <1>2, <1>3, <1>4 DEF LeftOf

LEMMA FailsKeeps ==
  ASSUME WindowInv, Fails
  PROVE  WindowInv'
<1>1. Typed /\ Does /\ Answers(Error)
  BY DEF WindowInv, Fails
<1>2. left' \in LeftOf /\ left'.changes = left.changes
  BY <1>1, DoesIs
<1>3. PICK q : q = Head(asked)
  OBVIOUS
<1> QED
  BY <1>1, <1>2, <1>3, AnswersKeeps

(* The worker reads which backups there are, and is not done with the query. *)
LEMMA BeginsKeeps ==
  ASSUME WindowInv, Begins
  PROVE  WindowInv'
<1>0. /\ Typed /\ Browsable /\ OverviewStands /\ AnswersStand /\ Begun /\ KnownInv
      /\ ListComes /\ LastFits /\ PaneInv
  BY DEF WindowInv
<1>1. /\ asked # <<>> /\ Len(overview) < 2 /\ overview' = Append(overview, catalogue)
      /\ UNCHANGED <<holds, catalogue, made, news, following, view, listings, asked, answered>>
      /\ UNCHANGED <<failed, painting, pane, preview, left>>
  BY DEF Begins, Before, daemon
<1>2. Queries' = Queries /\ Replies' = Replies
  BY <1>1 DEF Queries, Replies
<1>3. catalogue \in ArchiveList
  BY <1>0, CatalogueIs
<1>a. /\ overview' \in Seq(ArchiveList) /\ Len(overview') <= 2 /\ Len(overview) \in Nat
      /\ Len(overview') = Len(overview) + 1
      /\ \A n \in 1 .. Len(overview) : overview'[n] = overview[n]
      /\ overview'[Len(overview) + 1] = catalogue
  BY <1>0, <1>1, <1>3 DEF Typed
<1>4. Typed'
  <2>1. overview' \in Seq(ArchiveList) /\ Len(overview') <= 2
    BY <1>a
  <2> QED
    BY <1>0, <1>1, <2>1 DEF Typed
<1>5. Browsable'
  BY <1>0, <1>1, <1>2 DEF Browsable, Catalogued
<1>6. OverviewStands'
  <2>1. ASSUME NEW n \in 1 .. Len(overview')
        PROVE  \/ overview'[n] = catalogue
               \/ n \in 1 .. Len(overview) /\ overview # <<>> /\ overview'[n] = overview[n]
    BY <1>0, <1>a DEF Typed
  <2>2. \A n \in 1 .. Len(overview') : Catalogued(overview'[n]) # {}
    BY <1>0, <2>1 DEF Browsable, OverviewStands
  <2>3. \/ \A n \in 1 .. Len(overview') : overview'[n] = catalogue
        \/ news > 0
        \/ \E i \in 2 .. Len(asked) : asked[i].kind = "load"
    BY <1>0, <2>1 DEF OverviewStands
  <2>4. \A n \in 1 .. Len(overview') : Catalogued(overview[n])' # {}
    BY <2>2 DEF Catalogued
  <2> QED
    BY <1>1, <2>3, <2>4 DEF OverviewStands
<1>7. (Due => Due') /\ (Coming => Coming')
  BY <1>1, <1>2, ComingStays
<1>8. AnswersStand'
  BY <1>0, <1>1, <1>7, AnswersWait
<1>9. Begun'
  BY <1>0, <1>1, <1>2, BegunStays DEF Begun
<1>10. KnownInv'
  <2> SUFFICES ASSUME ~Coming' PROVE Known'
    BY DEF KnownInv
  <2>1. Known
    BY <1>0, <1>7 DEF KnownInv
  <2>2. view'.seq \in DOMAIN catalogue
    BY <1>1, <2>1 DEF Known
  <2> QED
    BY <1>1, <2>1, <2>2, KnownStays
<1>11. ListComes'
  <2>1. Keeps(view', view)
    BY <1>1 DEF Keeps
  <2> QED
    BY <1>0, <1>1, <1>2, <2>1, ListStays
<1>12. LastFits'
  BY <1>0, <1>1, <1>2, PaneWaits
<1>13. PaneInv'
  <2> SUFFICES ASSUME ~Coming' PROVE PaneComes'
    BY DEF PaneInv
  <2>1. PaneComes
    BY <1>0, <1>7 DEF PaneInv
  <2> QED
    BY <1>1, <1>2, <2>1, PaneStays
<1> QED
  BY <1>4, <1>5, <1>6, <1>8, <1>9, <1>10, <1>11, <1>12, <1>13 DEF WindowInv

LEMMA GetsCatalogueKeeps ==
  ASSUME WindowInv, GetsCatalogue
  PROVE  WindowInv'
<1>0. /\ Typed /\ Browsable /\ OverviewStands /\ AnswersStand /\ Begun /\ KnownInv
      /\ ListComes /\ LastFits /\ PaneInv
  BY DEF WindowInv
<1>1. PICK h : h = Head(answered)
  OBVIOUS
<1>2. PICK g \in Nat : g = view.generation + 1 /\ g # 0
  <2>1. view \in ViewOf
    BY <1>0 DEF Typed
  <2>2. view.generation \in Nat
    BY <2>1, ViewFields
  <2> QED
    BY <2>2
<1>3. PICK l : l = [folder |-> h.q.folder, generation |-> g, seqs |-> h.answer.seqs]
  OBVIOUS
<1>4. PICK n : n = IF view.seq \in DOMAIN h.answer.archives THEN view.seq
                   ELSE IF Catalogued(h.answer.archives) = {} THEN 0
                   ELSE Max(Catalogued(h.answer.archives))
  OBVIOUS
<1>5. PICK w : w = [view EXCEPT !.archives = h.answer.archives, !.generation = g,
                                !.listing = l, !.seq = n]
  OBVIOUS
<1>6. PICK v : v = Settle(w)
  OBVIOUS
<1>7. /\ Gets("load")
      /\ listings' = [f \in Folders |-> IF f = h.q.folder THEN h.answer.seqs ELSE Unknown]
      /\ failed' = {} /\ Reloads(v, Listing(v)) /\ PreviewHears(v)
      /\ UNCHANGED <<daemon, following, overview, painting, left>>
  <2>1. [view EXCEPT !.archives = h.answer.archives, !.generation = @ + 1,
                      !.listing = [folder |-> h.q.folder, generation |-> view.generation + 1,
                                   seqs |-> h.answer.seqs],
                      !.seq = IF @ \in DOMAIN h.answer.archives THEN @
                              ELSE IF Catalogued(h.answer.archives) = {} THEN 0
                              ELSE Max(Catalogued(h.answer.archives))] = w
    BY <1>2, <1>3, <1>4, <1>5
  <2> QED
    BY <1>1, <1>6, <2>1 DEF GetsCatalogue
<1>8. /\ UNCHANGED <<holds, catalogue, made, news, following, overview, painting, left>>
  BY <1>7 DEF daemon
<1>9. /\ h \in Reply /\ h \in Replies /\ h.q.kind = "load" /\ h.answer # Error /\ answered' \in Seq(Reply)
      /\ Replies = {h} \cup Replies' /\ Replies' \subseteq Replies
  BY <1>0, <1>1, <1>7, GetsDoes
<1>10. /\ h.q \in Query /\ h.q.folder \in Folders /\ h.answer.archives \in ArchiveList
       /\ h.answer.seqs \in SUBSET Seqs /\ Catalogued(h.answer.archives) # {}
  BY <1>0, <1>9, ReplyFields, QueryFields DEF Browsable
<1>11. n \in DOMAIN h.answer.archives /\ n \in Seqs /\ n # 0 /\ n \in 0 .. MaxArchives
  <2>1. Catalogued(h.answer.archives) \subseteq DOMAIN h.answer.archives
    BY <1>10, NewestIs
  <2>2. Max(Catalogued(h.answer.archives)) \in Catalogued(h.answer.archives)
    BY <1>10, NewestIs
  <2>3. n \in DOMAIN h.answer.archives
    BY <1>4, <1>10, <2>1, <2>2
  <2>4. n \in Seqs
    BY <1>10, <2>3, ListFields
  <2> QED
    BY <2>3, <2>4, BoundsAre
<1>12. l \in ListingOf /\ l.folder = h.q.folder /\ l.generation = g /\ l.seqs = h.answer.seqs
  BY <1>2, <1>3, <1>10 DEF ListingOf, Places
<1>13. view \in ViewOf
  BY <1>0 DEF Typed
<1>14. /\ w \in ViewOf /\ w.archives = h.answer.archives /\ w.generation = g /\ w.listing = l
       /\ w.seq = n /\ w.folder = view.folder
  BY <1>2, <1>5, <1>10, <1>11, <1>12, <1>13 DEF ViewOf
<1>15. /\ v \in ViewOf /\ v.archives = h.answer.archives /\ v.generation = g /\ v.listing = l
       /\ v.folder = view.folder /\ v.seq # 0 /\ v.seq \in DOMAIN h.answer.archives
  BY <1>6, <1>11, <1>14, SettleIs DEF Keeps
<1>16. /\ Listing(v) \in Seq(Query)
       /\ \A q \in ToSet(Listing(v)) : q \in Query /\ q.kind = "listing"
  BY <1>15, ListingAsks
<1>17. /\ view' \in ViewOf /\ Keeps(view', v) /\ view'.seq = v.seq
       /\ pane' \in PaneOf /\ asked' \in Seq(Query) /\ Grows
       /\ Queries \subseteq Queries' /\ ToSet(Listing(v)) \subseteq Queries'
       /\ pane'.wanted = pane.wanted + 1
  BY <1>0, <1>7, <1>15, <1>16, ReloadsDoes
<1>18. /\ view'.archives = h.answer.archives /\ view'.generation = g
       /\ view'.folder = view.folder /\ view'.listing = l
  BY <1>15, <1>17 DEF Keeps
<1>19. /\ listings' \in [Folders -> SUBSET (0 .. MaxArchives)]
       /\ \A f \in Folders : listings'[f] = Unknown \/ listings'[f] \in SUBSET Seqs
       /\ \A f \in Folders : listings'[f] = Unknown
                             \/ (f = h.q.folder /\ listings'[f] = h.answer.seqs)
  <2>1. Unknown \in SUBSET (0 .. MaxArchives) /\ h.answer.seqs \in SUBSET (0 .. MaxArchives)
    BY <1>10, BoundsAre DEF Unknown
  <2> QED
    BY <1>7, <1>10, <2>1
<1>20. Typed'
  <2>1. preview' \in [name: 0 .. MaxArchives, folder: Places]
    BY <1>0, <1>7, <1>15, PreviewIs
  <2> QED
    BY <1>0, <1>7, <1>8, <1>9, <1>17, <1>19, <2>1 DEF Typed
<1>21. Browsable'
  BY <1>0, <1>8, <1>9 DEF Browsable, Catalogued
<1>a. OverviewStands'
  BY <1>0, <1>8, <1>17, OverviewStays
<1>b. Heard
  BY <1>0, <1>7, GetsDoes
<1>22. Due => Due'
  BY <1>8, <1>17 DEF Due
<1>23. AnswersStand'
  BY <1>0, <1>8, <1>22, <1>b, AnswersGot
<1>24. Begun'
  <2>1. view'.seq # 0 /\ view'.generation # 0
    BY <1>2, <1>15, <1>17, <1>18
  <2> QED
    BY <2>1 DEF Begun
<1>25. KnownInv'
  <2> SUFFICES ASSUME ~Coming' PROVE Known'
    BY DEF KnownInv
  <2>1. ~Due /\ \A r \in Replies' : r.q.kind # "load"
    BY <1>22 DEF Coming
  <2>2. h.answer = Answer(h.q)
    BY <1>0, <1>1, <1>8, <1>9, <1>22, <1>b, <2>1, AnswersGot
  <2>3. h.answer.archives = catalogue /\ h.answer.seqs = ListedFor(h.q.folder)
    BY <1>9, <1>10, <2>2, AnswerIs
  <2>4. \A f : ListedFor(f)' = ListedFor(f)
    BY <1>8, ListedForStays
  <2>5. view'.archives = catalogue' /\ view'.seq \in DOMAIN catalogue'
    BY <1>8, <1>15, <1>17, <1>18, <2>3
  <2>6. \A f \in Folders : listings'[f] = Unknown \/ listings'[f] = ListedFor(f)'
    BY <1>19, <2>3, <2>4
  <2>7. \A f \in Folders : f = view'.listing.folder => view'.listing.seqs = ListedFor(f)'
    BY <1>12, <1>18, <2>3, <2>4
  <2> QED
    BY <2>5, <2>6, <2>7, Zenon DEF Known
<1>26. ListComes'
  <2>1. CASE ListingIsCurrent(v)
    <3>1. ListingIsCurrent(view)'
      BY <1>17, <2>1 DEF Keeps, ListingIsCurrent
    <3> QED
      BY <3>1 DEF ListComes
  <2>2. CASE ~ListingIsCurrent(v)
    <3>1. PICK q \in ToSet(Listing(v)) :
            q.kind = "listing" /\ q.folder = v.folder /\ q.generation = v.generation
      BY <1>15, <2>2, ListingAsks
    <3>2. q \in Queries' /\ AsksNow(q)'
      BY <1>15, <1>17, <1>18, <3>1 DEF AsksNow
    <3> QED
      BY <3>2 DEF ListComes
  <2> QED
    BY <2>1, <2>2
<1>27. LastFits' /\ PaneComes'
  <2>1. \A q \in ToSet(Listing(v)) : q.kind # "folder"
    BY <1>16
  <2> QED
    BY <1>0, <1>7, <1>8, <1>9, <1>15, <1>16, <2>1, ReloadSupersedes
<1> QED
  BY <1>20, <1>21, <1>a, <1>23, <1>24, <1>25, <1>26, <1>27 DEF WindowInv, PaneInv

LEMMA GetsListingKeeps ==
  ASSUME WindowInv, GetsListing
  PROVE  WindowInv'
<1>0. /\ Typed /\ Browsable /\ OverviewStands /\ AnswersStand /\ Begun /\ KnownInv
      /\ ListComes /\ LastFits /\ PaneInv
  BY DEF WindowInv
<1>1. PICK h : h = Head(answered)
  OBVIOUS
<1>2. PICK seqs : seqs = h.answer.seqs
  OBVIOUS
<1>3. /\ Gets("listing")
      /\ IF AnswersNow(h.q)
         THEN listings' = [listings EXCEPT ![h.q.folder] = seqs] /\ Lands(Adopt(view, seqs))
         ELSE UNCHANGED <<listings, view, asked, pane, preview>>
      /\ UNCHANGED <<daemon, following, overview, failed, painting, left>>
  BY <1>1, <1>2 DEF GetsListing
<1>4. UNCHANGED <<holds, catalogue, made, news, following, overview, failed, painting, left>>
  BY <1>3 DEF daemon
<1>5. /\ h \in Reply /\ h \in Replies /\ h.q.kind = "listing" /\ h.answer # Error /\ answered' \in Seq(Reply)
      /\ Replies = {h} \cup Replies' /\ Replies' \subseteq Replies
  BY <1>0, <1>1, <1>3, GetsDoes
<1>6. h.q \in Query /\ h.q.folder \in Folders /\ seqs \in SUBSET Seqs
  BY <1>2, <1>5, ReplyFields, QueryFields
<1>7. \A r \in Replies : r.q.kind # "listing" => r \in Replies'
  BY <1>5
<1>8. view \in ViewOf /\ pane \in PaneOf
  BY <1>0 DEF Typed
<1>9. Browsable'
  BY <1>0, <1>4, <1>5 DEF Browsable, Catalogued
<1>b. Heard
  BY <1>0, <1>3, GetsDoes
<1>10. CASE ~AnswersNow(h.q)
  <2>1. UNCHANGED <<listings, view, asked, pane, preview>>
    BY <1>3, <1>10
  <2>2. Queries' = Queries
    BY <2>1 DEF Queries
  <2>3. (Due => Due') /\ (Coming => Coming')
    BY <1>4, <1>7, <2>2, ComingStays
  <2>4. Typed' /\ OverviewStands'
    <3>1. Grows
      BY <2>1 DEF Grows
    <3>2. Typed'
      BY <1>0, <1>4, <1>5, <2>1 DEF Typed
    <3> QED
      BY <1>0, <1>4, <3>1, <3>2, OverviewStays DEF Typed
  <2>5. AnswersStand'
    BY <1>0, <1>4, <1>b, <2>3, AnswersGot
  <2>6. Begun'
    BY <1>0, <1>4, <1>5, <1>7, <2>1, <2>2, BegunStays DEF Begun
  <2>7. KnownInv'
    <3> SUFFICES ASSUME ~Coming' PROVE Known'
      BY DEF KnownInv
    <3>1. Known
      BY <1>0, <2>3 DEF KnownInv
    <3>2. view'.seq \in DOMAIN catalogue
      BY <2>1, <3>1 DEF Known
    <3> QED
      BY <1>4, <2>1, <3>1, <3>2, KnownStays
  <2>8. ListComes'
    <3>1. \A q : AsksNow(q)' <=> AsksNow(q)
      BY <2>1 DEF AsksNow
    <3>2. ~AsksNow(h.q)
      BY <1>10 DEF AsksNow, AnswersNow
    <3>3. CASE \E r \in Replies : AsksNow(r.q)
      <4>1. PICK r \in Replies : AsksNow(r.q)
        BY <3>3
      <4>2. r \in Replies' /\ AsksNow(r.q)'
        BY <1>5, <3>1, <3>2, <4>1
      <4> QED
        BY <4>2 DEF ListComes
    <3>4. CASE \E q \in Queries : AsksNow(q)
      BY <2>2, <3>1, <3>4 DEF ListComes
    <3>5. CASE view.generation = 0 \/ ListingIsCurrent(view)
      BY <2>1, <3>5 DEF ListComes, ListingIsCurrent
    <3>6. CASE \E q \in failed : AsksNow(q)
      BY <1>4, <3>1, <3>6 DEF ListComes
    <3> QED
      BY <1>0, <3>3, <3>4, <3>5, <3>6 DEF ListComes
  <2>9. LastFits'
    BY <1>0, <1>4, <1>5, <2>1, <2>2, PaneWaits
  <2>10. PaneInv'
    <3> SUFFICES ASSUME ~Coming' PROVE PaneComes'
      BY DEF PaneInv
    <3>1. PaneComes
      BY <1>0, <2>3 DEF PaneInv
    <3> QED
      BY <1>4, <1>7, <2>1, <2>2, <3>1, PaneStays
  <2> QED
    BY <1>9, <2>4, <2>5, <2>6, <2>7, <2>8, <2>9, <2>10 DEF WindowInv
<1>11. CASE AnswersNow(h.q)
  <2>1. PICK v : v = Adopt(view, seqs)
    OBVIOUS
  <2>2. listings' = [listings EXCEPT ![h.q.folder] = seqs] /\ Lands(v)
    BY <1>3, <1>11, <2>1
  <2>3. h.q.folder = view.folder
    BY <1>11 DEF AnswersNow
  <2>4. /\ v \in ViewOf /\ v.archives = view.archives /\ v.generation = view.generation
        /\ v.folder = view.folder /\ (v.seq = 0 <=> view.seq = 0)
        /\ v.listing.folder = view.folder /\ v.listing.seqs = seqs
        /\ ListingIsCurrent(v)
        /\ view.seq \in DOMAIN view.archives => v.seq \in DOMAIN view.archives
    BY <1>6, <1>8, <2>1, AdoptIs
  <2>5. /\ view' \in ViewOf /\ Keeps(view', v) /\ view'.seq = v.seq
        /\ pane' \in PaneOf /\ asked' \in Seq(Query) /\ Grows
        /\ preview' \in [name: 0 .. MaxArchives, folder: Places]
        /\ Queries \subseteq Queries' /\ \A q \in Queries' : q \in Queries \/ q.kind = "folder"
        /\ LastFits' /\ (PaneComes => PaneComes')
        /\ v.seq = 0 => UNCHANGED pane
    BY <1>0, <1>4, <1>5, <1>7, <2>2, <2>4, LandsDoes
  <2>6. /\ view'.archives = view.archives /\ view'.generation = view.generation
        /\ view'.folder = view.folder /\ view'.listing = v.listing
    BY <2>4, <2>5 DEF Keeps
  <2>7. (Due => Due') /\ (Coming => Coming')
    BY <1>4, <1>7, <2>5, ComingStays
  <2>8. Typed'
    <3>1. /\ listings' \in [Folders -> SUBSET (0 .. MaxArchives)]
          /\ \A f \in Folders : listings'[f] = Unknown \/ listings'[f] \in SUBSET Seqs
      <4>1. seqs \in SUBSET (0 .. MaxArchives)
        BY <1>6, BoundsAre
      <4> QED
        BY <1>0, <1>6, <2>2, <4>1 DEF Typed
    <3> QED
      BY <1>0, <1>4, <1>5, <2>5, <3>1 DEF Typed
  <2>9. AnswersStand' /\ OverviewStands'
    BY <1>0, <1>4, <1>b, <2>5, <2>7, AnswersGot, OverviewStays
  <2>10. Begun'
    <3>1. \A q \in Queries : q.kind = "load" => q \in Queries'
      BY <2>5
    <3>2. \A r \in Replies : r.q.kind = "load" => r \in Replies'
      BY <1>7
    <3>3. view.seq = 0 => /\ view'.archives = view.archives
                          /\ pane'.shows = Nothing /\ pane'.wanted = 0
                          /\ \A q \in Queries' : q \in Queries \/ q.kind # "change"
      BY <1>0, <2>4, <2>5, <2>6 DEF Begun
    <3>4. view'.seq = 0 <=> view.seq = 0
      BY <2>4, <2>5
    <3> QED
      BY <1>0, <1>4, <1>5, <2>6, <3>1, <3>2, <3>3, <3>4, BegunStays
  <2>11. KnownInv'
    <3> SUFFICES ASSUME ~Coming' PROVE Known'
      BY DEF KnownInv
    <3>1. Known
      BY <1>0, <2>7 DEF KnownInv
    <3>2. view'.seq \in DOMAIN catalogue
      BY <2>4, <2>5, <3>1 DEF Known
    <3>3. ~Due /\ \A r \in Replies' : r.q.kind # "load"
      BY <2>7 DEF Coming
    <3>4. h.answer = Answer(h.q)
      BY <1>0, <1>1, <1>4, <1>5, <1>b, <2>7, <3>3, AnswersGot
    <3>5. seqs = ListedFor(h.q.folder)
      BY <1>2, <1>5, <1>6, <3>4, AnswerIs
    <3>6. view'.listing.folder \in Folders => view'.listing.seqs = ListedFor(view'.listing.folder)
      BY <2>3, <2>4, <2>6, <3>5
    <3>7. \A f \in Folders : \/ listings'[f] = listings[f]
                             \/ listings'[f] = Unknown \/ listings'[f] = ListedFor(f)
      BY <1>0, <1>6, <2>2, <3>5 DEF Typed
    <3> QED
      BY <1>4, <2>6, <3>1, <3>2, <3>6, <3>7, KnownStays
  <2>12. ListComes'
    <3>1. ListingIsCurrent(view)'
      BY <2>4, <2>5 DEF Keeps, ListingIsCurrent
    <3> QED
      BY <3>1 DEF ListComes
  <2>13. PaneInv'
    BY <1>0, <2>5, <2>7 DEF PaneInv
  <2> QED
    BY <1>9, <2>5, <2>8, <2>9, <2>10, <2>11, <2>12, <2>13 DEF WindowInv
<1> QED
  BY <1>10, <1>11

LEMMA GetsFolderKeeps ==
  ASSUME WindowInv, GetsFolder
  PROVE  WindowInv'
<1>0. /\ Typed /\ Browsable /\ OverviewStands /\ AnswersStand /\ Begun /\ KnownInv
      /\ ListComes /\ LastFits /\ PaneInv
  BY DEF WindowInv
<1>1. PICK h : h = Head(answered)
  OBVIOUS
<1>2. PICK s : s = [folder |-> h.q.folder, seq |-> h.q.seq, held |-> h.answer.held]
  OBVIOUS
<1>3. PICK p : p = [wanted |-> h.q.wanted, shows |-> s]
  OBVIOUS
<1>4. /\ Gets("folder")
      /\ painting' = IF Wanted(h.q.wanted) THEN painting \cup {p} ELSE painting
      /\ UNCHANGED <<daemon, following, view, listings, asked, overview, failed, pane, preview,
                     left>>
  BY <1>1, <1>2, <1>3 DEF GetsFolder
<1>5. UNCHANGED <<holds, catalogue, made, news, following, view, listings, asked, overview,
                  failed, pane, preview, left>>
  BY <1>4 DEF daemon
<1>6. /\ h \in Reply /\ h \in Replies /\ h.q.kind = "folder" /\ h.answer # Error /\ answered' \in Seq(Reply)
      /\ Replies = {h} \cup Replies' /\ Replies' \subseteq Replies
  BY <1>0, <1>1, <1>4, GetsDoes
<1>7. /\ h.q \in Query /\ h.q.folder \in Folders /\ h.q.seq \in Seqs /\ h.q.wanted \in Nat
      /\ h.answer.held \in Nat
  BY <1>6, ReplyFields, QueryFields
<1>8. \A r \in Replies : r.q.kind # "folder" => r \in Replies'
  BY <1>6
<1>9. Queries' = Queries
  BY <1>5 DEF Queries
<1>10. /\ s \in Shown /\ s.folder = h.q.folder /\ s.seq = h.q.seq /\ s.held = h.answer.held
       /\ p \in [wanted: Nat, shows: Shown] /\ p.wanted = h.q.wanted /\ p.shows = s
  <2>1. h.q.seq \in 0 .. MaxArchives
    BY <1>7, BoundsAre
  <2>2. s \in Shown
    BY <1>2, <1>7, <2>1 DEF Shown, Places
  <2> QED
    BY <1>2, <1>3, <1>7, <2>2
<1>11. Typed'
  <2>1. painting' \subseteq [wanted: Nat, shows: Shown]
    BY <1>0, <1>4, <1>10 DEF Typed
  <2> QED
    BY <1>0, <1>5, <1>6, <2>1 DEF Typed
<1>12. Browsable'
  BY <1>0, <1>5, <1>6 DEF Browsable, Catalogued
<1>13. (Due => Due') /\ (Coming => Coming')
  BY <1>5, <1>8, <1>9, ComingStays
<1>b. Heard
  BY <1>0, <1>4, GetsDoes
<1>14. AnswersStand' /\ OverviewStands'
  <2>1. Grows /\ asked' \in Seq(Query)
    BY <1>0, <1>5 DEF Grows, Typed
  <2> QED
    BY <1>0, <1>5, <1>13, <1>b, <2>1, AnswersGot, OverviewStays
<1>15. Begun'
  BY <1>0, <1>5, <1>6, <1>8, <1>9, BegunStays DEF Begun
<1>16. KnownInv'
  <2> SUFFICES ASSUME ~Coming' PROVE Known'
    BY DEF KnownInv
  <2>1. Known
    BY <1>0, <1>13 DEF KnownInv
  <2>2. view'.seq \in DOMAIN catalogue
    BY <1>5, <2>1 DEF Known
  <2> QED
    BY <1>5, <2>1, <2>2, KnownStays
<1>17. ListComes'
  <2>1. Keeps(view', view)
    BY <1>5 DEF Keeps
  <2> QED
    BY <1>0, <1>5, <1>8, <1>9, <2>1, ListStays
<1>18. Fits(h.q)
  BY <1>0, <1>6 DEF LastFits
<1>19. LastFits'
  <2>1. \A q : Fits(q) => Fits(q)'
    BY <1>5 DEF Fits
  <2>2. \A q \in Queries' : Fits(q)'
    BY <1>0, <1>9, <2>1 DEF LastFits
  <2>3. \A r \in Replies' : Fits(r.q)'
    BY <1>0, <1>6, <2>1 DEF LastFits
  <2>4. ASSUME NEW o \in painting' PROVE FitsPane(o)'
    <3>1. CASE o \in painting
      BY <1>0, <1>5, <3>1 DEF LastFits, FitsPane
    <3>2. CASE o = p
      BY <1>5, <1>6, <1>10, <1>18, <3>2 DEF Fits, FitsPane
    <3> QED
      BY <1>4, <2>4, <3>1, <3>2
  <2> QED
    BY <2>2, <2>3, <2>4 DEF LastFits
<1>20. PaneInv'
  <2> SUFFICES ASSUME ~Coming' PROVE PaneComes'
    BY DEF PaneInv
  <2>1. PaneComes
    BY <1>0, <1>13 DEF PaneInv
  <2>2. ~Due /\ \A r \in Replies' : r.q.kind # "load"
    BY <1>13 DEF Coming
  <2>3. h.answer = Answer(h.q)
    BY <1>0, <1>1, <1>5, <1>6, <1>13, <1>b, <2>2, AnswersGot
  <2>4. h.answer.held = FolderAt(h.q.folder, h.q.seq)
    BY <1>6, <1>7, <2>3, AnswerIs
  <2>5. FolderAt(view.folder, view.seq)' = FolderAt(view.folder, view.seq)
    BY <1>5 DEF FolderAt, Held
  <2>6. ASSUME NEW o \in painting', o.wanted = pane'.wanted
        PROVE  o.shows.held = FolderAt(view.folder, view.seq)'
    <3>1. CASE o \in painting
      BY <1>5, <2>1, <2>5, <2>6, <3>1 DEF PaneComes
    <3>2. CASE o = p
      <4>1. h.q.folder = view.folder /\ h.q.seq = view.seq
        BY <1>5, <1>6, <1>10, <1>18, <2>6, <3>2 DEF Fits
      <4> QED
        BY <1>10, <2>4, <2>5, <3>2, <4>1
    <3> QED
      BY <1>4, <2>6, <3>1, <3>2
  <2>7. \A q : Latest(q)' <=> Latest(q)
    BY <1>5 DEF Latest
  <2>8. CASE \E q \in Queries : Latest(q)
    BY <1>9, <2>6, <2>7, <2>8 DEF PaneComes
  <2>9. CASE \E r \in Replies : Latest(r.q)
    <3>1. PICK r \in Replies : Latest(r.q)
      BY <2>9
    <3>2. CASE r = h
      <4>1. p \in painting' /\ p.wanted = pane'.wanted
        BY <1>4, <1>5, <1>10, <3>1, <3>2 DEF Latest, Wanted
      <4> QED
        BY <2>6, <4>1 DEF PaneComes
    <3>3. CASE r # h
      <4>1. r \in Replies' /\ Latest(r.q)'
        BY <1>6, <2>7, <3>1, <3>3
      <4> QED
        BY <2>6, <4>1 DEF PaneComes
    <3> QED
      BY <3>2, <3>3
  <2>10. CASE \E o \in painting : o.wanted = pane.wanted
    <3>1. \E o \in painting' : o.wanted = pane'.wanted
      BY <1>4, <1>5, <2>10
    <3> QED
      BY <2>6, <3>1 DEF PaneComes
  <2>11. CASE /\ pane.shows.folder = view.folder /\ pane.shows.seq = view.seq
              /\ pane.shows.held = FolderAt(view.folder, view.seq)
    BY <1>5, <2>5, <2>6, <2>11 DEF PaneComes
  <2>12. CASE pane.shows = Unreadable /\ \E q \in failed : Latest(q)
    BY <1>5, <2>6, <2>7, <2>12 DEF PaneComes
  <2> QED
    BY <2>1, <2>8, <2>9, <2>10, <2>11, <2>12 DEF PaneComes
<1> QED
  BY <1>11, <1>12, <1>14, <1>15, <1>16, <1>17, <1>19, <1>20 DEF WindowInv

(* A move within the folder, from what the window knows. *)
LEMMA LandingKeeps ==
  ASSUME WindowInv, NEW v \in ViewOf, Lands(v), Keeps(v, view),
         v.seq = 0 <=> view.seq = 0,
         Known /\ (Due => Due') /\ ~Coming' => v.seq \in DOMAIN catalogue,
         UNCHANGED <<daemon, following, listings, overview, failed, painting>>,
         answered' \in Seq(Reply), Replies' \subseteq Replies,
         \A r \in Replies : r.q.kind # "change" => r \in Replies',
         (Due => Due') => AnswersStand',
         left' \in LeftOf, left'.changes = left.changes
  PROVE  WindowInv'
<1>0. /\ Typed /\ Browsable /\ OverviewStands /\ AnswersStand /\ Begun /\ KnownInv
      /\ ListComes /\ LastFits /\ PaneInv
  BY DEF WindowInv
<1>1. UNCHANGED <<holds, catalogue, made, news, following, listings, overview, failed, painting>>
  BY DEF daemon
<1>2. \A r \in Replies :
        r.q.kind = "load" \/ r.q.kind = "listing" \/ r.q.kind = "folder" => r \in Replies'
  OBVIOUS
<1>3. v.folder = view.folder
  BY DEF Keeps
<1>4. /\ view' \in ViewOf /\ Keeps(view', v) /\ view'.seq = v.seq
      /\ pane' \in PaneOf /\ asked' \in Seq(Query) /\ Grows
      /\ preview' \in [name: 0 .. MaxArchives, folder: Places]
      /\ Queries \subseteq Queries' /\ \A q \in Queries' : q \in Queries \/ q.kind = "folder"
      /\ LastFits' /\ (PaneComes => PaneComes')
      /\ v.seq = 0 => UNCHANGED pane
  BY <1>0, <1>1, <1>2, <1>3, LandsDoes
<1>5. Keeps(view', view)
  BY <1>4 DEF Keeps
<1>6. /\ view'.archives = view.archives /\ view'.generation = view.generation
      /\ view'.listing = view.listing
  BY <1>5 DEF Keeps
<1>7. \A q \in Queries : q \in Queries'
  BY <1>4
<1>8. (Due => Due') /\ (Coming => Coming')
  BY <1>1, <1>2, <1>7, ComingStays
<1>9. Typed'
  BY <1>0, <1>1, <1>4 DEF Typed
<1>10. Browsable'
  BY <1>0, <1>1 DEF Browsable, Catalogued
<1>11. AnswersStand' /\ OverviewStands'
  BY <1>0, <1>1, <1>4, <1>8, OverviewStays
<1>12. Begun'
  <2>1. view.seq = 0 => /\ view'.archives = view.archives
                        /\ pane'.shows = Nothing /\ pane'.wanted = 0
                        /\ \A q \in Queries' : q \in Queries \/ q.kind # "change"
    BY <1>0, <1>4, <1>6 DEF Begun
  <2>2. view'.seq = 0 <=> view.seq = 0
    BY <1>4
  <2> QED
    BY <1>0, <1>2, <1>6, <1>7, <2>1, <2>2, BegunStays
<1>13. KnownInv'
  <2> SUFFICES ASSUME ~Coming' PROVE Known'
    BY DEF KnownInv
  <2>1. Known
    BY <1>0, <1>8 DEF KnownInv
  <2>2. view'.seq \in DOMAIN catalogue
    BY <1>4, <1>8, <2>1
  <2> QED
    BY <1>1, <1>6, <2>1, <2>2, KnownStays
<1>14. ListComes'
  BY <1>0, <1>2, <1>5, <1>7, ListStays
<1>15. PaneInv'
  BY <1>0, <1>4, <1>8 DEF PaneInv
<1> QED
  BY <1>4, <1>9, <1>10, <1>11, <1>12, <1>13, <1>14, <1>15 DEF WindowInv

LEMMA GetsChangeKeeps ==
  ASSUME WindowInv, GetsChange
  PROVE  WindowInv'
<1>0. /\ Typed /\ Browsable /\ OverviewStands /\ AnswersStand /\ Begun /\ KnownInv
      /\ ListComes /\ LastFits /\ PaneInv
  BY DEF WindowInv
<1>1. PICK h : h = Head(answered)
  OBVIOUS
<1>2. /\ Gets("change")
      /\ IF h.answer.seq = 0 THEN UNCHANGED <<view, pane, asked, preview>>
         ELSE Lands([view EXCEPT !.seq = Landing(view, h.answer.seq)])
      /\ UNCHANGED <<daemon, following, listings, overview, failed, painting, left>>
  BY <1>1 DEF GetsChange
<1>3. UNCHANGED <<holds, catalogue, made, news, following, listings, overview, failed, painting,
                  left>>
  BY <1>2 DEF daemon
<1>4. /\ h \in Reply /\ h \in Replies /\ h.q.kind = "change" /\ h.answer # Error /\ answered' \in Seq(Reply)
      /\ Replies = {h} \cup Replies' /\ Replies' \subseteq Replies
  BY <1>0, <1>1, <1>2, GetsDoes
<1>5. /\ h.q \in Query /\ h.q.folder \in Folders /\ h.q.seq \in Seqs /\ h.q.newer \in BOOLEAN
      /\ h.answer.seq \in 0 .. MaxArchives
  BY <1>4, ReplyFields, QueryFields
<1>6. \A r \in Replies : r.q.kind # "change" => r \in Replies'
  BY <1>4
<1>b. Heard
  BY <1>0, <1>2, GetsDoes
<1>7. (Due => Due') => AnswersStand'
  BY <1>0, <1>3, <1>b, AnswersGot
<1>8. view \in ViewOf
  BY <1>0 DEF Typed
<1>9. view.seq # 0
  BY <1>0, <1>4 DEF Begun
<1>10. CASE h.answer.seq = 0
  <2>1. UNCHANGED <<view, pane, asked, preview>>
    BY <1>2, <1>10
  <2>2. Lands(view)
    BY <2>1 DEF Lands, PreviewHears, PreviewFollows
  <2>3. Keeps(view, view)
    BY DEF Keeps
  <2>4. Known => view.seq \in DOMAIN catalogue
    BY DEF Known
  <2>5. left' \in LeftOf /\ left'.changes = left.changes
    BY <1>0, <1>3 DEF Typed
  <2>6. UNCHANGED <<daemon, following, listings, overview, failed, painting>>
    BY <1>2
  <2> QED
    BY <1>4, <1>6, <1>7, <1>8, <2>2, <2>3, <2>4, <2>5, <2>6, LandingKeeps
<1>11. CASE h.answer.seq # 0
  <2>1. PICK n : n = Landing(view, h.answer.seq)
    OBVIOUS
  <2>2. PICK v : v = [view EXCEPT !.seq = n]
    OBVIOUS
  <2>3. h.answer.seq \in Seqs
    BY <1>5, <1>11, SeqsAre
  <2>4. n \in Seqs /\ (n = h.answer.seq \/ n \in Catalogued(view.archives))
    BY <1>8, <2>1, <2>3, LandingIs
  <2>5. n \in 0 .. MaxArchives /\ n # 0
    BY <2>4, BoundsAre
  <2>6. v \in ViewOf /\ Keeps(v, view) /\ v.seq = n
    <3>1. v \in ViewOf
      BY <1>8, <2>2, <2>5, ViewIs
    <3> QED
      BY <1>8, <2>2, <3>1 DEF ViewOf, Keeps
  <2>7. Lands(v)
    BY <1>2, <1>11, <2>1, <2>2
  <2>8. ASSUME Known, (Due => Due'), ~Coming' PROVE v.seq \in DOMAIN catalogue
    <3>1. ~Due /\ \A r \in Replies' : r.q.kind # "load"
      BY <2>8 DEF Coming
    <3>2. h.answer = Answer(h.q)
      BY <1>0, <1>1, <1>3, <1>4, <1>b, <2>8, <3>1, AnswersGot
    <3>3. h.answer.seq = NextChange(h.q.folder, h.q.seq, h.q.newer)
      BY <1>4, <1>5, <3>2, AnswerIs
    <3>4. h.answer.seq \in DOMAIN catalogue
      BY <1>0, <1>5, <1>11, <3>3, NextChangeIs
    <3>5. view.archives = catalogue
      BY <2>8 DEF Known
    <3>6. Catalogued(view.archives) \subseteq DOMAIN catalogue
      BY <3>5 DEF Catalogued
    <3> QED
      BY <2>4, <2>6, <3>4, <3>6
  <2>9. left' \in LeftOf /\ left'.changes = left.changes
    BY <1>0, <1>3 DEF Typed
  <2>10. UNCHANGED <<daemon, following, listings, overview, failed, painting>>
    BY <1>2
  <2> QED
    BY <1>4, <1>6, <1>7, <1>9, <2>5, <2>6, <2>7, <2>8, <2>9, <2>10, LandingKeeps
<1> QED
  BY <1>10, <1>11

(* Another folder, or the same once more, from what the window knows. *)
LEMMA ReloadKeeps ==
  ASSUME WindowInv, NEW v \in ViewOf, NEW more \in Seq(Query), Reloads(v, more),
         PreviewRefreshes(v), v.archives = view.archives, v.generation = view.generation,
         v.seq = 0 <=> view.seq = 0,
         Known => v.seq \in DOMAIN catalogue,
         \/ v.listing = view.listing
         \/ Known => v.listing.seqs = ListedFor(v.listing.folder),
         \A q \in ToSet(more) : q.kind = "listing",
         \/ Keeps(v, view) \/ ListingIsCurrent(v)
         \/ \E q \in ToSet(more) :
              q.kind = "listing" /\ q.folder = v.folder /\ q.generation = v.generation,
         UNCHANGED <<daemon, listings, answered, overview, failed, painting>>, following' \in BOOLEAN,
         left' \in LeftOf, left'.changes = left.changes
  PROVE  WindowInv'
<1>0. /\ Typed /\ Browsable /\ OverviewStands /\ AnswersStand /\ Begun /\ KnownInv
      /\ ListComes /\ LastFits /\ PaneInv
  BY DEF WindowInv
<1>1. UNCHANGED <<holds, catalogue, made, news, listings, answered, overview, failed, painting>>
  BY DEF daemon
<1>2. Replies' = Replies /\ painting' \subseteq painting
  BY <1>1 DEF Replies
<1>3. /\ view' \in ViewOf /\ Keeps(view', v) /\ view'.seq = v.seq
      /\ pane' \in PaneOf /\ asked' \in Seq(Query) /\ Grows
      /\ Queries \subseteq Queries' /\ ToSet(more) \subseteq Queries'
  BY <1>0, ReloadsDoes
<1>4. /\ view'.archives = view.archives /\ view'.generation = view.generation
      /\ view'.listing = v.listing /\ view'.folder = v.folder
  BY <1>3 DEF Keeps
<1>5. \A q \in Queries : q \in Queries'
  BY <1>3
<1>6. (Due => Due') /\ (Coming => Coming')
  BY <1>1, <1>2, <1>5, ComingStays
<1>7. Typed'
  <2>1. preview' \in [name: 0 .. MaxArchives, folder: Places]
    BY <1>0, PreviewIs
  <2> QED
    BY <1>0, <1>1, <1>3, <2>1 DEF Typed
<1>8. Browsable'
  BY <1>0, <1>1, <1>2 DEF Browsable, Catalogued
<1>9. AnswersStand' /\ OverviewStands'
  BY <1>0, <1>1, <1>3, <1>6, AnswersWait, OverviewStays
<1>10. Begun'
  <2>1. ASSUME view.seq = 0
        PROVE  /\ view'.archives = view.archives
               /\ pane'.shows = Nothing /\ pane'.wanted = 0
               /\ \A q \in Queries' : q \in Queries \/ q.kind # "change"
    <3>1. /\ pane'.shows = Nothing /\ pane'.wanted = pane.wanted
          /\ Queries' = Queries \cup ToSet(more)
      BY <1>0, <2>1, ReloadsDoes
    <3> QED
      BY <1>0, <1>4, <2>1, <3>1 DEF Begun
  <2>2. view'.seq = 0 <=> view.seq = 0
    BY <1>3
  <2> QED
    BY <1>0, <1>2, <1>4, <1>5, <2>1, <2>2, BegunStays
<1>11. KnownInv'
  <2> SUFFICES ASSUME ~Coming' PROVE Known'
    BY DEF KnownInv
  <2>1. Known
    BY <1>0, <1>6 DEF KnownInv
  <2>2. view'.seq \in DOMAIN catalogue
    BY <1>3, <2>1
  <2> QED
    BY <1>1, <1>4, <2>1, <2>2, KnownStays
<1>12. ListComes'
  <2>1. CASE Keeps(v, view)
    <3>1. Keeps(view', view)
      BY <1>3, <2>1 DEF Keeps
    <3> QED
      BY <1>0, <1>2, <1>5, <3>1, ListStays
  <2>2. CASE ListingIsCurrent(v)
    <3>1. ListingIsCurrent(view)'
      BY <1>3, <2>2 DEF Keeps, ListingIsCurrent
    <3> QED
      BY <3>1 DEF ListComes
  <2>3. CASE \E q \in ToSet(more) :
               q.kind = "listing" /\ q.folder = v.folder /\ q.generation = v.generation
    <3>1. PICK q \in ToSet(more) :
            q.kind = "listing" /\ q.folder = v.folder /\ q.generation = v.generation
      BY <2>3
    <3>2. q \in Queries' /\ AsksNow(q)'
      BY <1>3, <3>1 DEF Keeps, AsksNow
    <3> QED
      BY <3>2 DEF ListComes
  <2> QED
    BY <2>1, <2>2, <2>3
<1>13. LastFits' /\ (v.seq # 0 => PaneComes')
  <2>1. \A q \in ToSet(more) : q.kind # "folder"
    OBVIOUS
  <2>2. v.seq = 0 => pane.wanted = 0
    BY <1>0 DEF Begun
  <2> QED
    BY <1>0, <1>2, <2>1, <2>2, ReloadSupersedes
<1>14. PaneInv'
  <2>1. CASE v.seq # 0
    BY <1>13, <2>1 DEF PaneInv
  <2>2. CASE v.seq = 0
    <3>1. Coming
      BY <1>0, <2>2 DEF Begun, Coming, Due
    <3> QED
      BY <1>6, <3>1 DEF PaneInv
  <2> QED
    BY <2>1, <2>2
<1> QED
  BY <1>7, <1>8, <1>9, <1>10, <1>11, <1>12, <1>13, <1>14 DEF WindowInv

LEMMA ConnectsKeeps ==
  ASSUME WindowInv, Connects
  PROVE  WindowInv'
<1>1. /\ following' = TRUE /\ Reloads(view, <<>>) /\ PreviewRefreshes(view)
      /\ UNCHANGED <<daemon, listings, answered, overview, failed, painting, left>>
  BY DEF Connects
<1>2. view \in ViewOf /\ left \in LeftOf
  BY DEF WindowInv, Typed
<1>3. <<>> \in Seq(Query) /\ ToSet(<<>>) = {}
  BY RangeOfFew
<1>4. Keeps(view, view)
  BY DEF Keeps
<1>5. Known => view.seq \in DOMAIN catalogue
  BY DEF Known
<1>6. left' \in LeftOf /\ left'.changes = left.changes
      /\ following' \in BOOLEAN
  BY <1>1, <1>2
<1>7. UNCHANGED <<daemon, listings, answered, overview, failed, painting>>
  BY <1>1
<1>8. \A q \in ToSet(<<>>) : q.kind = "listing"
  BY <1>3
<1> QED
  BY <1>1, <1>2, <1>3, <1>4, <1>5, <1>6, <1>7, <1>8, ReloadKeeps

LEMMA OpensKeeps ==
  ASSUME WindowInv, NEW folder \in Folders, Opens(folder)
  PROVE  WindowInv'
<1>0. Typed /\ view \in ViewOf
  BY DEF WindowInv, Typed
<1>1. PICK t : t = [view EXCEPT !.folder = folder, !.selected = NoFile]
  OBVIOUS
<1>2. PICK v : v = IF listings[folder] # Unknown THEN Adopt(t, listings[folder]) ELSE Settle(t)
  OBVIOUS
<1>3. /\ Does /\ Reloads(v, Listing(v)) /\ PreviewRefreshes(v)
      /\ UNCHANGED <<daemon, following, listings, answered, overview, failed, painting>>
  BY <1>1, <1>2 DEF Opens
<1>4. /\ t \in ViewOf /\ t.archives = view.archives /\ t.generation = view.generation
      /\ t.listing = view.listing /\ t.seq = view.seq /\ t.folder = folder
  <2>1. NoFile \in [folder: Places, held: Nat]
    BY DEF NoFile, Places
  <2> QED
    BY <1>0, <1>1, <2>1 DEF ViewOf
<1>5. /\ v \in ViewOf /\ v.archives = view.archives /\ v.generation = view.generation
      /\ v.folder = folder /\ (v.seq = 0 <=> view.seq = 0)
      /\ view.seq \in DOMAIN view.archives => v.seq \in DOMAIN view.archives
  <2>1. CASE listings[folder] # Unknown
    <3>1. listings[folder] \in SUBSET Seqs /\ v = Adopt(t, listings[folder])
      BY <1>0, <1>2, <2>1 DEF Typed
    <3> QED
      BY <1>4, <3>1, AdoptIs
  <2>2. CASE listings[folder] = Unknown
    <3>1. v = Settle(t)
      BY <1>2, <2>2
    <3> QED
      BY <1>4, <3>1, SettleIs DEF Keeps
  <2> QED
    BY <2>1, <2>2
<1>6. \/ v.listing = view.listing
      \/ Known => v.listing.seqs = ListedFor(v.listing.folder)
  <2>1. CASE listings[folder] # Unknown
    <3>1. listings[folder] \in SUBSET Seqs /\ v = Adopt(t, listings[folder])
      BY <1>0, <1>2, <2>1 DEF Typed
    <3>2. v.listing.folder = folder /\ v.listing.seqs = listings[folder]
      BY <1>4, <3>1, AdoptIs
    <3>3. Known => listings[folder] = ListedFor(folder)
      BY <2>1 DEF Known
    <3> QED
      BY <3>2, <3>3
  <2>2. CASE listings[folder] = Unknown
    <3>1. v = Settle(t)
      BY <1>2, <2>2
    <3> QED
      BY <1>4, <3>1, SettleIs DEF Keeps
  <2> QED
    BY <2>1, <2>2
<1>7. Known => v.seq \in DOMAIN catalogue
  BY <1>5 DEF Known
<1>8. /\ Listing(v) \in Seq(Query)
      /\ \A q \in ToSet(Listing(v)) : q.kind = "listing"
      /\ ~ListingIsCurrent(v) =>
           \E q \in ToSet(Listing(v)) :
             q.kind = "listing" /\ q.folder = v.folder /\ q.generation = v.generation
  BY <1>5, ListingAsks
<1>9. left' \in LeftOf /\ left'.changes = left.changes
  BY <1>0, <1>3, DoesIs
<1>10. following' \in BOOLEAN /\ UNCHANGED <<daemon, listings, answered, overview, failed,
                                             painting>>
  BY <1>0, <1>3 DEF Typed
<1> QED
  BY <1>3, <1>5, <1>6, <1>7, <1>8, <1>9, <1>10, ReloadKeeps

LEMMA RepliesWait ==
  ASSUME WindowInv, UNCHANGED <<daemon, answered>>
  PROVE  /\ answered' \in Seq(Reply) /\ Replies' = Replies /\ Replies' \subseteq Replies
         /\ \A r \in Replies : r \in Replies'
         /\ (Due => Due') => AnswersStand'
<1>1. UNCHANGED <<holds, catalogue, answered>> /\ AnswersStand
  BY DEF WindowInv, daemon
<1>2. answered' \in Seq(Reply)
  BY DEF WindowInv, Typed
<1>3. Replies' = Replies
  BY DEF Replies
<1> QED
  BY <1>1, <1>2, <1>3, AnswersWait

LEMMA ViewsKeeps ==
  ASSUME WindowInv, NEW seq \in Seqs, Views(seq)
  PROVE  WindowInv'
<1>0. Typed /\ view \in ViewOf /\ Begun
  BY DEF WindowInv, Typed
<1>1. PICK n : n = Landing(view, seq)
  OBVIOUS
<1>2. PICK v : v = [view EXCEPT !.seq = n]
  OBVIOUS
<1>3. /\ seq \in Listed(view) /\ Does /\ Lands(v)
      /\ UNCHANGED <<daemon, following, listings, answered, overview, failed, painting>>
  BY <1>1, <1>2 DEF Views
<1>4. seq \in DOMAIN view.archives
  BY <1>3 DEF Listed
<1>5. n \in Seqs /\ (n = seq \/ n \in Catalogued(view.archives))
  BY <1>0, <1>1, LandingIs
<1>6. n \in 0 .. MaxArchives /\ n # 0 /\ n \in DOMAIN view.archives
  BY <1>4, <1>5, BoundsAre DEF Catalogued
<1>7. v \in ViewOf /\ Keeps(v, view) /\ v.seq = n
  <2>1. v \in ViewOf
    BY <1>0, <1>2, <1>6, ViewIs
  <2> QED
    BY <1>0, <1>2, <2>1 DEF ViewOf, Keeps
<1>8. view.seq # 0
  BY <1>0, <1>4 DEF Begun
<1>9. left' \in LeftOf /\ left'.changes = left.changes
  BY <1>0, <1>3, DoesIs
<1>10. Known => v.seq \in DOMAIN catalogue
  BY <1>6, <1>7 DEF Known
<1>11. UNCHANGED <<daemon, following, listings, overview, failed, painting>>
  BY <1>3
<1> QED
  BY <1>3, <1>6, <1>7, <1>8, <1>9, <1>10, <1>11, RepliesWait, LandingKeeps

LEMMA ShowsAllKeeps ==
  ASSUME WindowInv, ShowsAll
  PROVE  WindowInv'
<1>0. Typed /\ view \in ViewOf
  BY DEF WindowInv, Typed
<1>1. PICK b : b = ~view.showAll
  OBVIOUS
<1>2. PICK t : t = [view EXCEPT !.showAll = b]
  OBVIOUS
<1>3. PICK v : v = Settle(t)
  OBVIOUS
<1>4. /\ Does /\ Lands(v)
      /\ UNCHANGED <<daemon, following, listings, answered, overview, failed, painting>>
  BY <1>1, <1>2, <1>3 DEF ShowsAll
<1>5. t \in ViewOf /\ Keeps(t, view) /\ t.seq = view.seq
  <2>1. b \in BOOLEAN
    BY <1>1
  <2>2. t \in ViewOf
    BY <1>0, <1>2, <2>1, ViewIs
  <2> QED
    BY <1>0, <1>2, <2>2 DEF ViewOf, Keeps
<1>6. /\ v \in ViewOf /\ Keeps(v, view) /\ (v.seq = 0 <=> view.seq = 0)
      /\ view.seq \in DOMAIN view.archives => v.seq \in DOMAIN view.archives
  BY <1>3, <1>5, SettleIs DEF Keeps
<1>7. left' \in LeftOf /\ left'.changes = left.changes
  BY <1>0, <1>4, DoesIs
<1>8. Known => v.seq \in DOMAIN catalogue
  BY <1>6 DEF Known
<1>9. UNCHANGED <<daemon, following, listings, overview, failed, painting>>
  BY <1>4
<1> QED
  BY <1>4, <1>6, <1>7, <1>8, <1>9, RepliesWait, LandingKeeps

LEMMA GoesToHitKeeps ==
  ASSUME WindowInv, NEW folder \in Folders, NEW seq \in Seqs, GoesToHit(folder, seq)
  PROVE  WindowInv'
<1>0. Typed /\ view \in ViewOf /\ Begun
  BY DEF WindowInv, Typed
<1>1. PICK t : t = [view EXCEPT !.folder = folder]
  OBVIOUS
<1>2. PICK m : m = IF folder = view.folder THEN view
                   ELSE IF listings[folder] # Unknown THEN Adopt(t, listings[folder])
                   ELSE Settle(t)
  OBVIOUS
<1>3. PICK n : n = Landing(m, seq)
  OBVIOUS
<1>4. PICK x : x = [folder |-> folder, held |-> holds[folder][view.archives[seq].name]]
  OBVIOUS
<1>5. PICK v : v = [m EXCEPT !.seq = n, !.selected = x]
  OBVIOUS
<1>6. /\ seq \in DOMAIN view.archives /\ Does
      /\ IF folder # view.folder THEN Reloads(v, Listing(v)) /\ PreviewRefreshes(v) ELSE Lands(v)
      /\ UNCHANGED <<daemon, following, listings, answered, overview, failed, painting>>
  BY <1>1, <1>2, <1>3, <1>4, <1>5 DEF GoesToHit
<1>7. /\ t \in ViewOf /\ t.archives = view.archives /\ t.generation = view.generation
      /\ t.listing = view.listing /\ t.seq = view.seq /\ t.folder = folder
  BY <1>0, <1>1 DEF ViewOf
<1>8. /\ m \in ViewOf /\ m.archives = view.archives /\ m.generation = view.generation
      /\ m.folder = folder
      /\ \/ m.listing = view.listing
         \/ Known => m.listing.seqs = ListedFor(m.listing.folder)
      /\ folder = view.folder => m = view
  <2>1. CASE folder = view.folder
    BY <1>0, <1>2, <2>1
  <2>2. CASE folder # view.folder /\ listings[folder] # Unknown
    <3>1. listings[folder] \in SUBSET Seqs /\ m = Adopt(t, listings[folder])
      BY <1>0, <1>2, <2>2 DEF Typed
    <3>2. /\ m.listing.folder = folder /\ m.listing.seqs = listings[folder]
          /\ m \in ViewOf /\ m.archives = view.archives /\ m.generation = view.generation
          /\ m.folder = folder
      BY <1>7, <3>1, AdoptIs
    <3>3. Known => listings[folder] = ListedFor(folder)
      BY <2>2 DEF Known
    <3> QED
      BY <2>2, <3>2, <3>3
  <2>3. CASE folder # view.folder /\ listings[folder] = Unknown
    <3>1. m = Settle(t)
      BY <1>2, <2>3
    <3> QED
      BY <1>7, <2>3, <3>1, SettleIs DEF Keeps
  <2> QED
    BY <2>1, <2>2, <2>3
<1>9. n \in Seqs /\ (n = seq \/ n \in Catalogued(view.archives))
  BY <1>3, <1>8, LandingIs
<1>10. n \in 0 .. MaxArchives /\ n # 0 /\ n \in DOMAIN view.archives
  BY <1>6, <1>9, BoundsAre DEF Catalogued
<1>11. x \in [folder: Places, held: Nat]
  <2>1. view.archives[seq].name \in Seqs
    BY <1>0, <1>6, ViewFields, ListFields
  <2>2. holds[folder] \in [1 .. MaxArchives -> Nat]
    BY SMTT(30), <1>0, WindowAssumption DEF Typed
  <2>3. holds[folder][view.archives[seq].name] \in Nat
    BY <2>1, <2>2 DEF Seqs
  <2> QED
    BY <1>4, <2>3 DEF Places
<1>12. v \in ViewOf /\ Keeps(v, m) /\ v.seq = n
  BY <1>5, <1>8, <1>10, <1>11 DEF ViewOf, Keeps
<1>13. /\ v.archives = view.archives /\ v.generation = view.generation /\ v.folder = folder
       /\ v.listing = m.listing
  BY <1>8, <1>12 DEF Keeps
<1>14. view.seq # 0
  BY <1>0, <1>6 DEF Begun
<1>15. left' \in LeftOf /\ left'.changes = left.changes
  BY <1>0, <1>6, DoesIs
<1>16. Known => v.seq \in DOMAIN catalogue
  BY <1>10, <1>12 DEF Known
<1>17. UNCHANGED <<daemon, following, listings, overview, failed, painting>>
       /\ UNCHANGED <<daemon, listings, answered, overview, failed,
                      painting>> /\ following' \in BOOLEAN
  BY <1>0, <1>6 DEF Typed
<1>18. CASE folder = view.folder
  <2>1. Lands(v) /\ Keeps(v, view)
    BY <1>6, <1>8, <1>12, <1>18
  <2>2. UNCHANGED <<daemon, answered>>
    BY <1>6
  <2> QED
    BY <1>10, <1>12, <1>14, <1>15, <1>16, <1>17, <2>1, <2>2, RepliesWait, LandingKeeps
<1>19. CASE folder # view.folder
  <2>1. Reloads(v, Listing(v)) /\ PreviewRefreshes(v)
    BY <1>6, <1>19
  <2>2. /\ Listing(v) \in Seq(Query)
        /\ \A q \in ToSet(Listing(v)) : q.kind = "listing"
        /\ ~ListingIsCurrent(v) =>
             \E q \in ToSet(Listing(v)) :
               q.kind = "listing" /\ q.folder = v.folder /\ q.generation = v.generation
    BY <1>12, ListingAsks
  <2>3. \/ v.listing = view.listing
        \/ Known => v.listing.seqs = ListedFor(v.listing.folder)
    BY <1>8, <1>13
  <2> QED
    BY <1>10, <1>12, <1>13, <1>14, <1>15, <1>16, <1>17, <2>1, <2>2, <2>3, ReloadKeeps
<1> QED
  BY <1>18, <1>19


(* The disk has answered for what the pane has read. *)
LEMMA PaintsKeeps ==
  ASSUME WindowInv, NEW p \in painting, Paints(p)
  PROVE  WindowInv'
<1>0. /\ Typed /\ Browsable /\ OverviewStands /\ AnswersStand /\ Begun /\ KnownInv
      /\ ListComes /\ LastFits /\ PaneInv
  BY DEF WindowInv
<1>1. PICK keeps \in BOOLEAN : keeps = (p.shows.held # 0 /\ view.selected # NoFile)
  OBVIOUS
<1>2. PICK x : x = IF keeps THEN [folder |-> view.folder, held |-> p.shows.held]
                   ELSE IF p.shows.held # 0 \/ pane.picked THEN NoFile ELSE view.selected
  OBVIOUS
<1>3. PICK v : v = [view EXCEPT !.selected = x]
  OBVIOUS
<1>4. /\ painting' = painting \ {p}
      /\ IF ~Wanted(p.wanted) THEN UNCHANGED <<view, pane, preview>>
         ELSE /\ pane' = [pane EXCEPT !.shows = p.shows, !.picked = keeps]
              /\ view' = v /\ PreviewHears(v)
      /\ UNCHANGED <<daemon, following, listings, asked, answered, overview, failed, left>>
  BY <1>1, <1>2, <1>3 DEF Paints
<1>5. UNCHANGED <<holds, catalogue, made, news, following, listings, asked, answered, overview,
                  failed, left>>
  BY <1>4 DEF daemon
<1>6. Queries' = Queries /\ Replies' = Replies
  BY <1>5 DEF Queries, Replies
<1>7. /\ p \in [wanted: Nat, shows: Shown] /\ p.wanted \in Nat /\ p.shows \in Shown
      /\ p.shows.held \in Nat
  BY <1>0 DEF Typed, Shown
<1>8. view \in ViewOf /\ pane \in PaneOf /\ pane.wanted \in Nat
  BY <1>0 DEF Typed, PaneOf
<1>9. FitsPane(p)
  BY <1>0 DEF LastFits
<1>10. view.seq # 0
  BY <1>0, <1>7, <1>8, <1>9 DEF Begun, FitsPane
<1>11. x \in [folder: Places, held: Nat]
  <2>1. view.folder \in Folders /\ view.selected \in [folder: Places, held: Nat]
    BY <1>8, ViewFields
  <2>2. NoFile \in [folder: Places, held: Nat]
    BY DEF NoFile, Places
  <2>3. [folder |-> view.folder, held |-> p.shows.held] \in [folder: Places, held: Nat]
    BY <1>7, <2>1 DEF Places
  <2> QED
    BY <1>2, <2>1, <2>2, <2>3
<1>12. v \in ViewOf /\ Keeps(v, view) /\ v.seq = view.seq
  <2>1. v \in ViewOf
    BY <1>3, <1>8, <1>11, ViewIs
  <2> QED
    BY <1>3, <1>8, <2>1 DEF ViewOf, Keeps
<1>13. /\ view' \in ViewOf /\ Keeps(view', view) /\ view'.seq = view.seq
       /\ pane' \in PaneOf /\ pane'.wanted = pane.wanted
       /\ preview' \in [name: 0 .. MaxArchives, folder: Places]
  <2>1. CASE ~Wanted(p.wanted)
    BY <1>0, <1>4, <1>8, <2>1 DEF Keeps, Typed
  <2>2. CASE Wanted(p.wanted)
    <3>1. pane' = [pane EXCEPT !.shows = p.shows, !.picked = keeps]
          /\ view' = v /\ PreviewHears(v)
      BY <1>4, <2>2
    <3>2. pane' \in PaneOf /\ pane'.wanted = pane.wanted
      BY <1>7, <1>8, <3>1 DEF PaneOf
    <3>3. preview' \in [name: 0 .. MaxArchives, folder: Places]
      BY <1>0, <1>12, <3>1, PreviewIs
    <3> QED
      BY <1>12, <3>1, <3>2, <3>3
  <2> QED
    BY <2>1, <2>2
<1>14. /\ view'.archives = view.archives /\ view'.generation = view.generation
       /\ view'.folder = view.folder /\ view'.listing = view.listing
  BY <1>13 DEF Keeps
<1>15. Typed'
  <2>1. painting' \subseteq [wanted: Nat, shows: Shown]
    BY <1>0, <1>4 DEF Typed
  <2> QED
    BY <1>0, <1>5, <1>13, <2>1 DEF Typed
<1>16. Browsable'
  BY <1>0, <1>5, <1>6 DEF Browsable, Catalogued
<1>17. (Due => Due') /\ (Coming => Coming')
  BY <1>5, <1>6, ComingStays
<1>18. AnswersStand' /\ OverviewStands'
  <2>1. Grows /\ asked' \in Seq(Query)
    BY <1>0, <1>5 DEF Grows, Typed
  <2> QED
    BY <1>0, <1>5, <1>17, <2>1, AnswersWait, OverviewStays
<1>19. Begun'
  <2>1. view'.seq # 0 /\ view'.generation # 0
    BY <1>0, <1>10, <1>13, <1>14 DEF Begun
  <2> QED
    BY <2>1 DEF Begun
<1>20. KnownInv'
  <2> SUFFICES ASSUME ~Coming' PROVE Known'
    BY DEF KnownInv
  <2>1. Known
    BY <1>0, <1>17 DEF KnownInv
  <2>2. view'.seq \in DOMAIN catalogue
    BY <1>13, <2>1 DEF Known
  <2> QED
    BY <1>5, <1>14, <2>1, <2>2, KnownStays
<1>21. ListComes'
  BY <1>0, <1>5, <1>6, <1>13, ListStays
<1>22. LastFits'
  <2>1. \A q : Fits(q) => Fits(q)'
    BY <1>13, <1>14 DEF Fits
  <2>2. \A q \in Queries' : Fits(q)'
    BY <1>0, <1>6, <2>1 DEF LastFits
  <2>3. \A r \in Replies' : Fits(r.q)'
    BY <1>0, <1>6, <2>1 DEF LastFits
  <2>4. \A o \in painting' : FitsPane(o)'
    BY <1>0, <1>4, <1>13, <1>14 DEF LastFits, FitsPane
  <2> QED
    BY <2>2, <2>3, <2>4 DEF LastFits
<1>23. PaneInv'
  <2> SUFFICES ASSUME ~Coming' PROVE PaneComes'
    BY DEF PaneInv
  <2>1. PaneComes
    BY <1>0, <1>17 DEF PaneInv
  <2>2. FolderAt(view.folder, view.seq)' = FolderAt(view.folder, view.seq)
    BY <1>5, <1>13, <1>14 DEF FolderAt, Held
  <2>3. \A o \in painting' :
          o.wanted = pane'.wanted => o.shows.held = FolderAt(view.folder, view.seq)'
    BY <1>4, <1>13, <2>1, <2>2 DEF PaneComes
  <2>4. CASE Wanted(p.wanted)
    <3>1. pane' = [pane EXCEPT !.shows = p.shows, !.picked = keeps] /\ p.wanted = pane.wanted
      BY <1>4, <2>4 DEF Wanted
    <3>2. pane'.shows = p.shows
      BY <1>8, <3>1 DEF PaneOf
    <3>3. p.shows.folder = view.folder /\ p.shows.seq = view.seq
      BY <1>9, <3>1 DEF FitsPane
    <3>4. p.shows.held = FolderAt(view.folder, view.seq)
      BY <2>1, <3>1 DEF PaneComes
    <3> QED
      BY <1>13, <1>14, <2>2, <2>3, <3>2, <3>3, <3>4 DEF PaneComes
  <2>5. CASE ~Wanted(p.wanted)
    <3>1. UNCHANGED <<view, pane>> /\ p.wanted # pane.wanted
      BY <1>4, <2>5 DEF Wanted
    <3>2. \A q : Latest(q)' <=> Latest(q)
      BY <3>1 DEF Latest
    <3>3. CASE \E q \in Queries : Latest(q)
      BY <1>6, <2>3, <3>2, <3>3 DEF PaneComes
    <3>4. CASE \E r \in Replies : Latest(r.q)
      <4>1. PICK r \in Replies : Latest(r.q)
        BY <3>4
      <4>2. r \in Replies' /\ Latest(r.q)'
        BY <1>6, <3>2, <4>1
      <4> QED
        BY <2>3, <4>2 DEF PaneComes
    <3>5. CASE \E o \in painting : o.wanted = pane.wanted
      <4>1. \E o \in painting' : o.wanted = pane'.wanted
        BY <1>4, <3>1, <3>5
      <4> QED
        BY <2>3, <4>1 DEF PaneComes
    <3>6. CASE /\ pane.shows.folder = view.folder /\ pane.shows.seq = view.seq
               /\ pane.shows.held = FolderAt(view.folder, view.seq)
      BY <2>2, <2>3, <3>1, <3>6 DEF PaneComes
    <3>7. CASE pane.shows = Unreadable /\ \E q \in failed : Latest(q)
      BY <1>5, <2>3, <3>1, <3>2, <3>7 DEF PaneComes
    <3> QED
      BY <2>1, <3>3, <3>4, <3>5, <3>6, <3>7 DEF PaneComes
  <2> QED
    BY <2>4, <2>5
<1> QED
  BY <1>15, <1>16, <1>18, <1>19, <1>20, <1>21, <1>22, <1>23 DEF WindowInv

(* A query has failed: where nothing is shown for it, it is told and forgotten. *)
LEMMA GetsErrorKeeps ==
  ASSUME WindowInv, GetsError
  PROVE  WindowInv'
<1>0. /\ Typed /\ Browsable /\ OverviewStands /\ AnswersStand /\ Begun /\ KnownInv
      /\ ListComes /\ LastFits /\ PaneInv
  BY DEF WindowInv
<1>1. PICK h : h = Head(answered)
  OBVIOUS
<1>2. PICK shown \in BOOLEAN : shown = (h.q.kind = "folder" /\ Wanted(h.q.wanted))
  OBVIOUS
<1>3. PICK v : v = IF pane.picked THEN [view EXCEPT !.selected = NoFile] ELSE view
  OBVIOUS
<1>4. /\ answered # <<>> /\ h.answer = Error /\ answered' = Tail(answered)
      /\ failed' = failed \cup {h.q}
      /\ IF shown
         THEN /\ pane' = [pane EXCEPT !.shows = Unreadable, !.picked = FALSE]
              /\ view' = v /\ PreviewHears(v)
         ELSE UNCHANGED <<view, pane, preview>>
      /\ UNCHANGED <<daemon, following, listings, asked, overview, painting, left>>
  BY <1>1, <1>2, <1>3 DEF GetsError
<1>5. UNCHANGED <<holds, catalogue, made, news, following, listings, asked, overview, painting,
                  left>>
  BY <1>4 DEF daemon
<1>6. Heard
  BY <1>4 DEF Heard
<1>7. /\ h \in Reply /\ h \in Replies /\ answered' \in Seq(Reply)
      /\ Replies = {h} \cup Replies' /\ Replies' \subseteq Replies
  BY <1>0, <1>1, <1>6, HeardIs
<1>8. h.q \in Query /\ (h.q.kind = "folder" => h.q.wanted \in Nat)
  BY <1>7, ReplyFields, QueryFields
<1>9. Queries' = Queries /\ h.q \in failed' /\ failed \subseteq failed'
  BY <1>4, <1>5 DEF Queries
<1>10. view \in ViewOf /\ pane \in PaneOf /\ pane.wanted \in Nat
  BY <1>0 DEF Typed, PaneOf
<1>11. shown => view.seq # 0
  <2>1. shown => 0 < pane.wanted
    <3>1. Fits(h.q)
      BY <1>0, <1>7 DEF LastFits
    <3> QED
      BY <1>2, <1>10, <3>1 DEF Fits, Wanted
  <2>2. view.seq = 0 => pane.wanted = 0
    BY <1>0 DEF Begun
  <2> QED
    BY <2>1, <2>2
<1>12. v \in ViewOf /\ Keeps(v, view) /\ v.seq = view.seq
  <2>1. NoFile \in [folder: Places, held: Nat]
    BY DEF NoFile, Places
  <2>2. PICK w : w = [view EXCEPT !.selected = NoFile]
    OBVIOUS
  <2>3. w \in ViewOf
    BY <1>10, <2>1, <2>2, ViewIs
  <2>4. Keeps(w, view) /\ w.seq = view.seq
    BY <1>10, <2>2 DEF ViewOf, Keeps
  <2>5. v = w \/ v = view
    BY <1>3, <2>2
  <2> QED
    BY <1>10, <2>3, <2>4, <2>5 DEF Keeps
<1>13. /\ view' \in ViewOf /\ Keeps(view', view) /\ view'.seq = view.seq
       /\ pane' \in PaneOf /\ pane'.wanted = pane.wanted
       /\ preview' \in [name: 0 .. MaxArchives, folder: Places]
       /\ shown => pane'.shows = Unreadable
  <2>1. CASE ~shown
    BY <1>0, <1>4, <1>10, <2>1 DEF Keeps, Typed
  <2>2. CASE shown
    <3>1. pane' = [pane EXCEPT !.shows = Unreadable, !.picked = FALSE]
          /\ view' = v /\ PreviewHears(v)
      BY <1>4, <2>2
    <3>2. Unreadable \in Shown
      BY BoundsAre DEF Unreadable, Shown, Places
    <3>3. pane' \in PaneOf /\ pane'.wanted = pane.wanted /\ pane'.shows = Unreadable
      BY <1>10, <3>1, <3>2 DEF PaneOf
    <3>4. preview' \in [name: 0 .. MaxArchives, folder: Places]
      BY <1>0, <1>12, <3>1, PreviewIs
    <3> QED
      BY <1>12, <3>1, <3>3, <3>4
  <2> QED
    BY <2>1, <2>2
<1>14. /\ view'.archives = view.archives /\ view'.generation = view.generation
       /\ view'.folder = view.folder /\ view'.listing = view.listing
  BY <1>13 DEF Keeps
<1>15. Typed' /\ OverviewStands'
  <2>1. Grows /\ asked' \in Seq(Query)
    BY <1>0, <1>5 DEF Grows, Typed
  <2>2. Typed'
    BY <1>0, <1>4, <1>5, <1>7, <1>8, <1>13 DEF Typed
  <2> QED
    BY <1>0, <1>5, <2>1, <2>2, OverviewStays
<1>16. Browsable'
  BY <1>0, <1>5, <1>7 DEF Browsable, Catalogued
<1>17. (Due => Due') /\ (Coming => Coming')
  <2>1. Due => Due'
    BY <1>5, <1>9 DEF Due
  <2>a. \A q : q \in failed' /\ q.kind = "load" => Unloaded'
    BY DEF Unloaded
  <2>2. CASE Unloaded
    BY <1>9, <2>1, <2>2, <2>a DEF Unloaded, Coming
  <2>3. CASE \E r \in Replies : r.q.kind = "load"
    <3>1. PICK r \in Replies : r.q.kind = "load"
      BY <2>3
    <3>2. CASE r = h
      BY <1>9, <2>1, <2>a, <3>1, <3>2 DEF Coming
    <3>3. CASE r # h
      <4>1. r \in Replies'
        BY <1>7, <3>1, <3>3
      <4> QED
        BY <2>1, <3>1, <4>1 DEF Coming
    <3> QED
      BY <3>2, <3>3
  <2> QED
    BY <2>1, <2>2, <2>3 DEF Coming
<1>18. AnswersStand'
  BY <1>0, <1>5, <1>6, <1>17, AnswersGot
<1>19. Begun'
  <2>1. CASE view.seq # 0
    BY <1>0, <1>13, <1>14, <2>1 DEF Begun
  <2>2. CASE view.seq = 0
    <3>1. UNCHANGED <<view, pane>>
      BY <1>4, <1>11, <2>2
    <3>2. \/ \E q \in Queries' : q.kind = "load"
          \/ \E r \in Replies' : r.q.kind = "load"
          \/ Unloaded'
      BY <1>0, <1>7, <1>9, <2>2 DEF Begun, Unloaded
    <3> QED
      BY <1>0, <1>7, <1>9, <2>2, <3>1, <3>2 DEF Begun
  <2> QED
    BY <2>1, <2>2
<1>20. KnownInv'
  <2> SUFFICES ASSUME ~Coming' PROVE Known'
    BY DEF KnownInv
  <2>1. Known
    BY <1>0, <1>17 DEF KnownInv
  <2>2. view'.seq \in DOMAIN catalogue
    BY <1>13, <2>1 DEF Known
  <2> QED
    BY <1>5, <1>14, <2>1, <2>2, KnownStays
<1>21. ListComes'
  <2>1. \A q : AsksNow(q)' <=> AsksNow(q)
    BY <1>14 DEF AsksNow
  <2>2. CASE \E r \in Replies : AsksNow(r.q)
    <3>1. PICK r \in Replies : AsksNow(r.q)
      BY <2>2
    <3>2. CASE r = h
      <4>1. h.q \in failed' /\ AsksNow(h.q)'
        BY <1>9, <2>1, <3>1, <3>2
      <4> QED
        BY <4>1 DEF ListComes
    <3>3. CASE r # h
      <4>1. r \in Replies' /\ AsksNow(r.q)'
        BY <1>7, <2>1, <3>1, <3>3
      <4> QED
        BY <4>1 DEF ListComes
    <3> QED
      BY <3>2, <3>3
  <2>3. CASE \E q \in Queries : AsksNow(q)
    BY <1>9, <2>1, <2>3 DEF ListComes
  <2>4. CASE \E q \in failed : AsksNow(q)
    BY <1>9, <2>1, <2>4 DEF ListComes
  <2>5. CASE view.generation = 0 \/ ListingIsCurrent(view)
    BY <1>14, <2>5 DEF ListComes, ListingIsCurrent
  <2> QED
    BY <1>0, <2>2, <2>3, <2>4, <2>5 DEF ListComes
<1>22. LastFits'
  BY <1>0, <1>5, <1>7, <1>9, <1>13, <1>14, PaneWaits
<1>23. PaneInv'
  <2> SUFFICES ASSUME ~Coming' PROVE PaneComes'
    BY DEF PaneInv
  <2>1. PaneComes
    BY <1>0, <1>17 DEF PaneInv
  <2>2. FolderAt(view.folder, view.seq)' = FolderAt(view.folder, view.seq)
    BY <1>5, <1>13, <1>14 DEF FolderAt, Held
  <2>3. \A o \in painting' :
          o.wanted = pane'.wanted => o.shows.held = FolderAt(view.folder, view.seq)'
    BY <1>5, <1>13, <2>1, <2>2 DEF PaneComes
  <2>4. \A q : Latest(q)' <=> Latest(q)
    BY <1>13 DEF Latest
  <2>5. CASE shown
    <3>1. Latest(h.q)' /\ pane'.shows = Unreadable
      BY <1>2, <1>13, <2>5 DEF Latest, Wanted
    <3> QED
      BY <1>9, <2>3, <3>1 DEF PaneComes
  <2>6. CASE ~shown
    <3>1. UNCHANGED pane /\ ~Latest(h.q)
      BY <1>2, <1>4, <2>6 DEF Latest, Wanted
    <3>2. CASE \E q \in Queries : Latest(q)
      BY <1>9, <2>3, <2>4, <3>2 DEF PaneComes
    <3>3. CASE \E r \in Replies : Latest(r.q)
      <4>1. PICK r \in Replies : Latest(r.q)
        BY <3>3
      <4>2. r \in Replies' /\ Latest(r.q)'
        BY <1>7, <2>4, <3>1, <4>1
      <4> QED
        BY <2>3, <4>2 DEF PaneComes
    <3>4. CASE \E o \in painting : o.wanted = pane.wanted
      BY <1>5, <2>3, <3>1, <3>4 DEF PaneComes
    <3>5. CASE /\ pane.shows.folder = view.folder /\ pane.shows.seq = view.seq
               /\ pane.shows.held = FolderAt(view.folder, view.seq)
      BY <1>13, <1>14, <2>2, <2>3, <3>1, <3>5 DEF PaneComes
    <3>6. CASE pane.shows = Unreadable /\ \E q \in failed : Latest(q)
      BY <1>9, <2>3, <2>4, <3>1, <3>6 DEF PaneComes
    <3> QED
      BY <2>1, <3>2, <3>3, <3>4, <3>5, <3>6 DEF PaneComes
  <2> QED
    BY <2>5, <2>6
<1> QED
  BY <1>15, <1>16, <1>18, <1>19, <1>20, <1>21, <1>22, <1>23 DEF WindowInv

LEMMA PicksKeeps ==
  ASSUME WindowInv, Picks
  PROVE  WindowInv'
<1>0. /\ Typed /\ Browsable /\ OverviewStands /\ AnswersStand /\ Begun /\ KnownInv
      /\ ListComes /\ LastFits /\ PaneInv
  BY DEF WindowInv
<1>1. PICK x : x = [folder |-> view.folder, held |-> pane.shows.held]
  OBVIOUS
<1>2. PICK v : v = [view EXCEPT !.selected = x]
  OBVIOUS
<1>3. /\ Does /\ pane' = [pane EXCEPT !.picked = TRUE] /\ view' = v /\ PreviewHears(v)
      /\ UNCHANGED <<daemon, following, listings, asked, answered, overview, failed, painting>>
  BY <1>1, <1>2 DEF Picks
<1>4. UNCHANGED <<holds, catalogue, made, news, following, listings, asked, answered, overview,
                  failed, painting>>
  BY <1>3 DEF daemon
<1>5. Queries' = Queries /\ Replies' = Replies
  BY <1>4 DEF Queries, Replies
<1>6. view \in ViewOf /\ pane \in PaneOf /\ pane.shows \in Shown
  BY <1>0 DEF Typed, PaneOf
<1>7. x \in [folder: Places, held: Nat]
  <2>1. view.folder \in Folders /\ pane.shows.held \in Nat
    BY <1>6, ViewFields DEF Shown
  <2> QED
    BY <1>1, <2>1 DEF Places
<1>8. view' \in ViewOf /\ Keeps(view', view) /\ view'.seq = view.seq
  <2>1. v \in ViewOf
    BY <1>2, <1>6, <1>7, ViewIs
  <2> QED
    BY <1>2, <1>3, <1>6, <2>1 DEF ViewOf, Keeps
<1>9. pane' \in PaneOf /\ pane'.wanted = pane.wanted /\ pane'.shows = pane.shows
  BY <1>3, <1>6 DEF PaneOf
<1>10. /\ view'.archives = view.archives /\ view'.generation = view.generation
       /\ view'.folder = view.folder /\ view'.listing = view.listing
  BY <1>8 DEF Keeps
<1>11. Typed'
  <2>1. preview' \in [name: 0 .. MaxArchives, folder: Places]
    BY <1>0, <1>3, <1>8, PreviewIs
  <2>2. left' \in LeftOf /\ left'.changes = left.changes
    BY <1>0, <1>3, DoesIs
  <2> QED
    BY <1>0, <1>4, <1>8, <1>9, <2>1, <2>2 DEF Typed
<1>12. Browsable'
  BY <1>0, <1>4, <1>5 DEF Browsable, Catalogued
<1>13. (Due => Due') /\ (Coming => Coming')
  BY <1>4, <1>5, ComingStays
<1>14. AnswersStand' /\ OverviewStands'
  <2>1. Grows /\ asked' \in Seq(Query)
    BY <1>0, <1>4 DEF Grows, Typed
  <2> QED
    BY <1>0, <1>4, <1>13, <2>1, AnswersWait, OverviewStays
<1>15. Begun'
  BY <1>0, <1>4, <1>5, <1>8, <1>9, <1>10, BegunStays DEF Begun
<1>16. KnownInv'
  <2> SUFFICES ASSUME ~Coming' PROVE Known'
    BY DEF KnownInv
  <2>1. Known
    BY <1>0, <1>13 DEF KnownInv
  <2>2. view'.seq \in DOMAIN catalogue
    BY <1>8, <2>1 DEF Known
  <2> QED
    BY <1>4, <1>10, <2>1, <2>2, KnownStays
<1>17. ListComes'
  BY <1>0, <1>4, <1>5, <1>8, ListStays
<1>18. LastFits'
  BY <1>0, <1>4, <1>5, <1>8, <1>9, <1>10, PaneWaits
<1>19. PaneInv'
  <2> SUFFICES ASSUME ~Coming' PROVE PaneComes'
    BY DEF PaneInv
  <2>1. PaneComes
    BY <1>0, <1>13 DEF PaneInv
  <2>2. FolderAt(view.folder, view.seq)' = FolderAt(view.folder, view.seq)
    BY <1>4, <1>8, <1>10 DEF FolderAt, Held
  <2> QED
    BY <1>4, <1>5, <1>8, <1>9, <1>10, <2>1, <2>2 DEF PaneComes, Latest
<1> QED
  BY <1>11, <1>12, <1>14, <1>15, <1>16, <1>17, <1>18, <1>19 DEF WindowInv

(* The catalogue, or the next change, is asked for. *)
LEMMA AskingKeeps ==
  ASSUME WindowInv, NEW q \in Query, asked' = Append(asked, q),
         q.kind = "load" \/ (q.kind = "change" /\ view.seq # 0),
         q.kind = "load" \/ news' = news,
         UNCHANGED <<holds, catalogue, made, following, view, listings, answered, overview,
                     failed, painting, pane, preview>>,
         left' \in LeftOf,
         news' \in Nat, news' + left'.changes <= Changes
  PROVE  WindowInv'
<1>0. /\ Typed /\ Browsable /\ OverviewStands /\ AnswersStand /\ Begun /\ KnownInv
      /\ ListComes /\ LastFits /\ PaneInv
  BY DEF WindowInv
<1>1. Queries' = Queries \cup {q} /\ asked' \in Seq(Query) /\ Replies' = Replies
  BY <1>0, RangeOfAppend DEF Typed, Queries, Replies
<1>2. UNCHANGED <<holds, catalogue, answered, overview, failed, painting, pane, view, listings>>
  OBVIOUS
<1>3. Typed'
  BY <1>0, <1>1 DEF Typed
<1>4. Browsable'
  BY <1>0, <1>1, <1>2 DEF Browsable, Catalogued
<1>5. (Due => Due') /\ (Coming => Coming')
  <2>1. CASE q.kind = "load"
    BY <1>1, <2>1 DEF Due, Coming
  <2>2. CASE news' = news
    BY <1>1, <1>2, <2>2 DEF Due, Coming, Unloaded
  <2> QED
    BY <2>1, <2>2
<1>6. AnswersStand' /\ OverviewStands'
  <2>1. /\ asked \in Seq(Query) /\ Len(asked) \in Nat /\ Len(asked') = Len(asked) + 1
        /\ asked'[Len(asked) + 1] = q /\ \A i \in 1 .. Len(asked) : asked'[i] = asked[i]
    BY <1>0, RangeOfAppend DEF Typed
  <2>2. Grows
    BY <2>1 DEF Grows
  <2>3. news > 0 => news' > 0 \/ \E i \in Len(asked) + 1 .. Len(asked') : asked'[i].kind = "load"
    BY <2>1
  <2> QED
    BY <1>0, <1>1, <1>2, <1>5, <2>2, <2>3, AnswersWait, OverviewStays
<1>7. Begun'
  <2>1. view.seq = 0 => /\ view'.archives = view.archives
                        /\ pane'.shows = Nothing /\ pane'.wanted = 0
                        /\ \A o \in Queries' : o \in Queries \/ o.kind # "change"
    BY <1>0, <1>1, <1>2 DEF Begun
  <2> QED
    BY <1>0, <1>1, <1>2, <2>1, BegunStays
<1>8. KnownInv'
  <2> SUFFICES ASSUME ~Coming' PROVE Known'
    BY DEF KnownInv
  <2>1. Known
    BY <1>0, <1>5 DEF KnownInv
  <2>2. view'.seq \in DOMAIN catalogue
    BY <1>2, <2>1 DEF Known
  <2> QED
    BY <1>2, <2>1, <2>2, KnownStays
<1>9. ListComes'
  <2>1. Keeps(view', view)
    BY <1>2 DEF Keeps
  <2> QED
    BY <1>0, <1>1, <2>1, ListStays
<1>10. LastFits'
  <2>1. \A o \in Queries' : o \in Queries \/ o.kind # "folder"
    BY <1>1
  <2> QED
    BY <1>0, <1>1, <1>2, <2>1, PaneWaits
<1>11. PaneInv'
  <2> SUFFICES ASSUME ~Coming' PROVE PaneComes'
    BY DEF PaneInv
  <2>1. PaneComes
    BY <1>0, <1>5 DEF PaneInv
  <2> QED
    BY <1>1, <1>2, <2>1, PaneStays
<1> QED
  BY <1>3, <1>4, <1>6, <1>7, <1>8, <1>9, <1>10, <1>11 DEF WindowInv

LEMMA HearsOfBackupsKeeps ==
  ASSUME WindowInv, HearsOfBackups
  PROVE  WindowInv'
<1>1. PICK q : q = [kind |-> "load", folder |-> view.folder]
  OBVIOUS
<1>2. PICK n : n = news - 1
  OBVIOUS
<1>3. /\ news > 0 /\ news' = n /\ asked' = Append(asked, q)
      /\ UNCHANGED <<holds, catalogue, made, following, view, listings, answered, overview,
                     failed, painting, pane, preview, left>>
  BY <1>1, <1>2 DEF HearsOfBackups
<1>4. /\ view \in ViewOf /\ news \in Nat /\ news + left.changes <= Changes
      /\ left \in LeftOf
  BY DEF WindowInv, Typed
<1>5. q \in Query /\ q.kind = "load"
  BY <1>1, <1>4, ViewFields, QueriesAre
<1>6. n \in Nat /\ n + left.changes <= Changes
  BY <1>2, <1>3, <1>4, BoundsAre DEF LeftOf
<1>7. /\ left' \in LeftOf
      /\ news' \in Nat /\ news' + left'.changes <= Changes
  BY <1>3, <1>4, <1>6
<1>8. UNCHANGED <<holds, catalogue, made, following, view, listings, answered, overview, failed,
                  painting, pane, preview>>
  BY <1>3
<1> QED
  BY <1>3, <1>5, <1>7, <1>8, AskingKeeps

LEMMA AsksForChangeKeeps ==
  ASSUME WindowInv, NEW newer \in BOOLEAN, AsksForChange(newer)
  PROVE  WindowInv'
<1>1. PICK q : q = [kind |-> "change", folder |-> view.folder, seq |-> view.seq, newer |-> newer]
  OBVIOUS
<1>2. /\ view.seq # 0 /\ Does /\ asked' = Append(asked, q)
      /\ UNCHANGED <<daemon, following, view, listings, answered, overview, failed, painting,
                     pane, preview>>
  BY <1>1 DEF AsksForChange
<1>3. /\ Typed /\ view \in ViewOf /\ news \in Nat /\ news + left.changes <= Changes
  BY DEF WindowInv, Typed
<1>4. view.folder \in Folders /\ view.seq \in Seqs
  BY <1>2, <1>3, ViewFields, SeqsAre
<1>5. q \in Query /\ q.kind = "change"
  BY <1>1, <1>4, QueriesAre
<1>6. UNCHANGED <<holds, catalogue, made, news, following, view, listings, answered, overview,
                  failed, painting, pane, preview>>
  BY <1>2 DEF daemon
<1>7. left' \in LeftOf /\ left'.changes = left.changes
  BY <1>2, <1>3, DoesIs
<1>8. news' = news /\ news' \in Nat /\ news' + left'.changes <= Changes
  BY <1>3, <1>6, <1>7
<1>9. UNCHANGED <<holds, catalogue, made, following, view, listings, answered, overview, failed,
                  painting, pane, preview>>
  BY <1>6
<1> QED
  BY <1>2, <1>5, <1>7, <1>8, <1>9, AskingKeeps

(* The catalogue changes, and the window is told. *)
LEMMA ChangedKeeps ==
  ASSUME WindowInv, Circumstances = {}, NEW to \in ArchiveList, Changed(to, TRUE),
         made' \in Seqs, Len(to) <= made', Catalogued(to) # {}
  PROVE  WindowInv'
<1>0. /\ Typed /\ Browsable /\ OverviewStands /\ AnswersStand /\ Begun /\ KnownInv
      /\ ListComes /\ LastFits /\ PaneInv
  BY DEF WindowInv
<1>1. PICK n : n = left.changes - 1
  OBVIOUS
<1>2. PICK m : m = news + 1
  OBVIOUS
<1>3. /\ following /\ left.changes > 0 /\ left' = [left EXCEPT !.changes = n]
      /\ catalogue' = to /\ news' = m /\ UNCHANGED <<holds, window>>
  BY <1>1, <1>2 DEF Changed
<1>4. UNCHANGED <<holds, following, view, listings, asked, answered, overview, failed, painting,
                  pane, preview>>
  BY <1>3 DEF window
<1>5. Queries' = Queries /\ Replies' = Replies
  BY <1>4 DEF Queries, Replies
<1>6. /\ left \in LeftOf
      /\ news \in Nat /\ news + left.changes <= Changes
  BY <1>0 DEF Typed
<1>7. n \in 0 .. Changes /\ m \in Nat /\ m > 0 /\ m + n <= Changes
  <2>1. left.changes \in 0 .. Changes
    BY <1>6 DEF LeftOf
  <2> QED
    BY SMTT(30), <1>1, <1>2, <1>3, <1>6, <2>1, BoundsAre
<1>8. left' \in LeftOf /\ left'.changes = n
  BY <1>3, <1>6, <1>7 DEF LeftOf
<1>9. news' \in Nat /\ news' + left'.changes <= Changes /\ news' > 0
  BY <1>3, <1>7, <1>8
<1>10. Typed'
  <2>1. catalogue' \in Seq(Archive) /\ Len(catalogue') <= made'
    BY <1>3 DEF ArchiveList
  <2> QED
    BY <1>0, <1>4, <1>8, <1>9, <2>1 DEF Typed
<1>11. Browsable'
  BY <1>0, <1>3, <1>5 DEF Browsable, Catalogued
<1>a. OverviewStands'
  <2>1. overview # <<>> =>
          asked' # <<>> /\ \A k \in 1 .. Len(overview') : Catalogued(overview[k])' # {}
    BY <1>0, <1>4 DEF OverviewStands, Catalogued
  <2> QED
    BY <1>4, <1>9, <2>1 DEF OverviewStands
<1>12. Due' /\ Coming'
  BY <1>9 DEF Due, Coming
<1>13. AnswersStand' /\ KnownInv' /\ PaneInv'
  BY <1>12 DEF AnswersStand, KnownInv, PaneInv
<1>14. Begun'
  BY <1>0, <1>4, <1>5, BegunStays DEF Begun
<1>15. ListComes'
  <2>1. Keeps(view', view)
    BY <1>4 DEF Keeps
  <2> QED
    BY <1>0, <1>4, <1>5, <2>1, ListStays
<1>16. LastFits'
  BY <1>0, <1>4, <1>5 DEF LastFits, Fits, FitsPane
<1> QED
  BY <1>10, <1>11, <1>a, <1>13, <1>14, <1>15, <1>16 DEF WindowInv

LEMMA ArrivesKeeps ==
  ASSUME WindowInv, Circumstances = {}, NEW at \in Seqs, NEW yes \in BOOLEAN, Arrives(at, yes)
  PROVE  WindowInv'
<1>1. PICK a : a = [name |-> made + 1, catalogued |-> yes]
  OBVIOUS
<1>2. PICK to : to = InsertAt(catalogue, at, a)
  OBVIOUS
<1>3. /\ made + 1 \in Seqs /\ made' = made + 1 /\ at \in 1 .. Len(catalogue) + 1
      /\ Changed(to, TRUE)
  BY <1>1, <1>2 DEF Arrives
<1>4. /\ catalogue \in Seq(Archive) /\ Len(catalogue) <= made /\ made \in Seqs
      /\ Catalogued(catalogue) # {}
  BY DEF WindowInv, Typed, Browsable
<1>5. a \in Archive
  BY <1>1, <1>3 DEF Archive
<1>6. /\ to \in Seq(Archive) /\ Len(to) = Len(catalogue) + 1
      /\ \A k \in 1 .. at - 1 : to[k] = catalogue[k]
      /\ \A k \in at .. Len(catalogue) : to[k + 1] = catalogue[k]
  BY SMTT(30), <1>2, <1>3, <1>4, <1>5, InsertedEntries
<1>7. /\ Len(catalogue) \in Nat /\ DOMAIN catalogue = 1 .. Len(catalogue)
      /\ DOMAIN to = 1 .. Len(to)
  BY <1>4, <1>6
<1>8. made' \in Seqs /\ Len(to) <= made' /\ to \in ArchiveList
  <2>1. Len(to) <= made' /\ made' \in 1 .. MaxArchives /\ made' \in Seqs
    BY <1>3, <1>4, <1>6, <1>7, BoundsAre
  <2>2. Len(to) <= MaxArchives
    BY <1>6, <1>7, <2>1, BoundsAre
  <2> QED
    BY <1>6, <2>1, <2>2 DEF ArchiveList
<1>9. Catalogued(to) # {}
  <2>1. PICK k \in 1 .. Len(catalogue) : catalogue[k].catalogued
    BY <1>4, <1>7 DEF Catalogued
  <2>2. CASE k < at
    <3>1. k \in 1 .. at - 1 /\ k \in 1 .. Len(to)
      BY <1>3, <1>6, <1>7, <2>2
    <3>2. to[k].catalogued /\ k \in DOMAIN to
      BY <1>6, <1>7, <2>1, <3>1
    <3> QED
      BY <3>2 DEF Catalogued
  <2>3. CASE k >= at
    <3>1. k \in at .. Len(catalogue) /\ k + 1 \in 1 .. Len(to)
      BY <1>3, <1>6, <1>7, <2>3
    <3>2. to[k + 1].catalogued /\ k + 1 \in DOMAIN to
      BY <1>6, <1>7, <2>1, <3>1
    <3> QED
      BY <3>2 DEF Catalogued
  <2> QED
    BY <1>3, <1>7, <2>2, <2>3
<1> QED
  BY <1>3, <1>8, <1>9, ChangedKeeps

LEMMA IsCataloguedKeeps ==
  ASSUME WindowInv, Circumstances = {}, NEW seq \in Seqs, IsCatalogued(seq)
  PROVE  WindowInv'
<1>1. PICK to : to = [catalogue EXCEPT ![seq].catalogued = TRUE]
  OBVIOUS
<1>2. seq \in DOMAIN catalogue /\ Changed(to, TRUE) /\ made' = made
  BY <1>1 DEF IsCatalogued
<1>3. catalogue \in Seq(Archive) /\ Len(catalogue) <= made /\ made \in Seqs
  BY DEF WindowInv, Typed
<1>4. PICK a : a = [catalogue[seq] EXCEPT !.catalogued = TRUE]
  OBVIOUS
<1>5. a \in Archive /\ a.catalogued
  <2>1. catalogue[seq] \in Archive
    BY <1>2, <1>3
  <2> QED
    BY <1>4, <2>1 DEF Archive
<1>6. to = [catalogue EXCEPT ![seq] = a]
  BY <1>1, <1>4
<1>7. to \in Seq(Archive) /\ Len(to) = Len(catalogue) /\ DOMAIN to = DOMAIN catalogue /\ to[seq] = a
  BY <1>2, <1>3, <1>5, <1>6
<1>8. to \in ArchiveList /\ made' \in Seqs /\ Len(to) <= made'
  <2>1. Len(to) <= MaxArchives /\ Len(to) <= made' /\ made' \in Seqs
    BY <1>2, <1>3, <1>7, BoundsAre
  <2> QED
    BY <1>7, <2>1 DEF ArchiveList
<1>9. seq \in Catalogued(to)
  BY <1>2, <1>5, <1>7 DEF Catalogued
<1> QED
  BY <1>2, <1>8, <1>9, ChangedKeeps

LEMMA RemovesKeeps ==
  ASSUME WindowInv, Circumstances = {}, NEW seq \in Seqs, NEW told \in BOOLEAN, Removes(seq, told)
  PROVE  WindowInv'
<1>1. PICK to : to = RemoveAt(catalogue, seq)
  OBVIOUS
<1>2. seq \in DOMAIN catalogue /\ told = TRUE /\ Catalogued(to) # {} /\ made' = made
      /\ Changed(to, told)
  BY <1>1 DEF Removes
<1>3. Changed(to, TRUE)
  BY <1>2
<1>4. catalogue \in Seq(Archive) /\ Len(catalogue) <= made /\ made \in Seqs
  BY DEF WindowInv, Typed
<1>5. to \in Seq(Archive) /\ Len(to) \in Nat /\ Len(to) <= Len(catalogue)
  <2> DEFINE l == SubSeq(catalogue, 1, seq - 1)
             r == SubSeq(catalogue, seq + 1, Len(catalogue))
  <2>0. seq \in 1 .. Len(catalogue) /\ Len(catalogue) \in Nat
    BY <1>2, <1>4
  <2>1. l \in Seq(Archive) /\ Len(l) = seq - 1
    BY <1>4, <2>0
  <2>2. r \in Seq(Archive) /\ Len(r) = Len(catalogue) - seq
    BY <1>4, <2>0
  <2>3. to = l \o r
    BY <1>1 DEF RemoveAt
  <2> HIDE DEF l, r
  <2>4. l \o r \in Seq(Archive) /\ Len(l \o r) = Len(l) + Len(r)
    BY <2>1, <2>2
  <2> QED
    BY <2>0, <2>1, <2>2, <2>3, <2>4
<1>6. to \in ArchiveList /\ made' \in Seqs /\ Len(to) <= made'
  <2>1. Len(to) <= MaxArchives /\ Len(to) <= made' /\ made' \in Seqs
    BY <1>2, <1>4, <1>5, BoundsAre
  <2> QED
    BY <1>5, <2>1 DEF ArchiveList
<1> QED
  BY <1>2, <1>3, <1>6, ChangedKeeps

LEMMA WindowStays ==
  ASSUME WindowInv, UNCHANGED vars
  PROVE  WindowInv'
<1>1. UNCHANGED <<holds, catalogue, made, news, following, view, listings, asked, answered,
                  overview, failed>>
      /\ UNCHANGED <<overview, failed, painting, pane, preview, left>>
  BY DEF vars, daemon, window
<1>2. /\ Typed /\ Browsable /\ OverviewStands /\ AnswersStand /\ Begun /\ KnownInv
      /\ ListComes /\ LastFits /\ PaneInv
  BY DEF WindowInv
<1>3. view \in ViewOf /\ left \in LeftOf
  BY <1>2 DEF Typed
<1>4. Lands(view)
  BY <1>1 DEF Lands, PreviewHears, PreviewFollows
<1>5. Keeps(view, view)
  BY DEF Keeps
<1>6. UNCHANGED <<daemon, following, listings, overview, failed,
                  painting>> /\ UNCHANGED <<daemon, answered>>
  BY <1>1 DEF daemon
<1>7. Known => view.seq \in DOMAIN catalogue
  BY DEF Known
<1>8. left' \in LeftOf /\ left'.changes = left.changes
  BY <1>1, <1>3
<1> QED
  BY <1>3, <1>4, <1>5, <1>6, <1>7, <1>8, RepliesWait, LandingKeeps

-----------------------------------------------------------------------------
(* The window (state.rs, window.rs, ui/files.rs, follow_catalogue): with   *)
(* the changes of the catalogue announced to a window that is connected,   *)
(* and something left to browse, then, once every question is answered     *)
(* and unless the list of backups could not be read again, the pane shows  *)
(* the folder viewed as the backup of the name viewed holds it, the        *)
(* backups listed are the folder's as they are numbered now, and every     *)
(* backup left out of the list lands where all it holds is held; what      *)
(* could not be read says so in the pane and is not listed.  This is for   *)
(* any number of folders and backups, any history, and any number of       *)
(* moves, changes and failed queries, each read statement by statement     *)
(* while the catalogue changes in between.                                 *)
THEOREM WindowShowsTheBackup ==
  ASSUME Circumstances = {}
  PROVE  Spec => []WindowSafety
<1>1. Init => WindowInv
  BY WindowBegins
<1>2. ASSUME WindowInv, [Next]_vars
      PROVE  WindowInv'
  <2>1. CASE Begins \/ Reads \/ Fails
    BY <1>2, <2>1, BeginsKeeps, ReadsKeeps, FailsKeeps
  <2>10. CASE GetsCatalogue \/ GetsListing \/ GetsFolder \/ GetsChange \/ GetsError
    BY <1>2, <2>10, GetsCatalogueKeeps, GetsListingKeeps, GetsFolderKeeps, GetsChangeKeeps,
       GetsErrorKeeps
  <2>2. ASSUME NEW p \in painting, Paints(p) PROVE WindowInv'
    BY <1>2, <2>2, PaintsKeeps
  <2>3. CASE Connects \/ HearsOfBackups \/ ShowsAll \/ Picks
    BY <1>2, <2>3, ConnectsKeeps, HearsOfBackupsKeeps, ShowsAllKeeps, PicksKeeps
  <2>4. ASSUME NEW folder \in Folders, Opens(folder) PROVE WindowInv'
    BY <1>2, <2>4, OpensKeeps
  <2>5. ASSUME NEW folder \in Folders, NEW seq \in Seqs, GoesToHit(folder, seq) PROVE WindowInv'
    BY <1>2, <2>5, GoesToHitKeeps
  <2>6. ASSUME NEW seq \in Seqs, Views(seq) \/ IsCatalogued(seq) PROVE WindowInv'
    BY <1>2, <2>6, ViewsKeeps, IsCataloguedKeeps
  <2>7. ASSUME NEW newer \in BOOLEAN, AsksForChange(newer) PROVE WindowInv'
    BY <1>2, <2>7, AsksForChangeKeeps
  <2>8. ASSUME NEW at \in Seqs, NEW yes \in BOOLEAN, Arrives(at, yes) \/ Removes(at, yes)
        PROVE  WindowInv'
    BY <1>2, <2>8, ArrivesKeeps, RemovesKeeps
  <2>9. CASE UNCHANGED vars
    BY <1>2, <2>9, WindowStays
  <2> QED
    BY <1>2, <2>1, <2>2, <2>3, <2>4, <2>5, <2>6, <2>7, <2>8, <2>9, <2>10, Zenon DEF Next
<1>3. WindowInv => WindowSafety
  BY WindowIsSafe
<1> QED
  BY <1>1, <1>2, <1>3, PTL DEF Spec
=============================================================================
