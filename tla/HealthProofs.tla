---------------------------- MODULE HealthProofs ----------------------------
(***************************************************************************)
(* What the daemon says of backups is so, and is said in its time: proved  *)
(* for every set of failures, every length of the channel and of time, and *)
(* any number of jobs, calls and restarts.                                 *)
(***************************************************************************)
EXTENDS Health, TLAPS

USE HealthAssumption DEF HealthAssumption, None, Never, Times, Until, HealthFailure, Kind, Outcome, HealthState

-----------------------------------------------------------------------------
(* What the operators return. *)

LEMMA BlockingType == TypeOK => Blocking \in HealthFailure \cup {None}
BY DEF TypeOK, Blocking

LEMMA EvaluateType ==
  ASSUME TypeOK
  PROVE  /\ Evaluate \in Healths
         /\ Evaluate.state = "BROKEN" => Evaluate.reason \in HealthFailure
         /\ Evaluate.state = "AT_RISK" => IsStale
<1>1. Blocking \in HealthFailure \cup {None}
  BY BlockingType
<1> QED
  BY <1>1 DEF TypeOK, Evaluate, Healths, Reason

LEMMA AfterType ==
  ASSUME NEW failure \in HealthFailure \cup {None}, NEW kind, NEW outcome
  PROVE  After(failure, kind, outcome) \in HealthFailure \cup {None}
BY DEF After

(* A stretch without protection has begun before now. *)
LEMMA StaleSince ==
  ASSUME TypeOK, IsStale
  PROVE  ProtectedUntil \in 0 .. now /\ ProtectedUntil < now
BY SMTT(30) DEF TypeOK, IsStale, ProtectedUntil, Later

-----------------------------------------------------------------------------
(* The parts of the type invariant that the larger actions disturb. *)
TimesOK == now \in Times /\ last \in 0 .. now /\ dated \in 0 .. now /\ kept \in 0 .. now
SavedOK ==
  /\ saved \in [pause: Until, since: 0 .. now, notified: Notified]
  /\ saved.notified.at <= now /\ saved.notified.brokenAt <= now
  /\ saved.notified.since < saved.notified.at \/ saved.notified.at = Never
FactsOK ==
  /\ latched \in HealthFailure \cup {None} /\ held \in BOOLEAN /\ pause \in Until
  /\ reachable \in BOOLEAN /\ net \in BOOLEAN /\ attention \in BOOLEAN
  /\ open \in BOOLEAN /\ trouble \in HealthFailure \cup {None} /\ asked \in Until
LoopOK ==
  /\ channel \in Seq([kind: Kind, outcome: Outcome]) /\ Len(channel) <= Buffer
  /\ lagged \in BOOLEAN /\ loop \in {"idle", "marking", "assessing", "looked"}
  /\ wake \in BOOLEAN
SaidOK ==
  /\ {announced, heard} \subseteq Healths \cup {Unknown}
  /\ telling \subseteq [reason: Reason, replaces: BOOLEAN, read: BOOLEAN]
  /\ shown \in Reason /\ strays \subseteq Reason
BoundsOK ==
  /\ calls \in [Callers -> [at: {"idle", "pausing", "resuming"}, until: Until]]
  /\ ends \in Nat /\ left \in Nat
  /\ risk \in [count: Nat, at: Until, of: Until] /\ warned \in [Failures -> Until]

PartsOK == TimesOK /\ SavedOK /\ FactsOK /\ LoopOK /\ SaidOK /\ BoundsOK

LEMMA TypeParts == (TypeOK <=> PartsOK) /\ (TypeOK' <=> PartsOK')
BY DEF TypeOK, PartsOK, TimesOK, SavedOK, FactsOK, LoopOK, SaidOK, BoundsOK

LEMMA TypeInit == Init => TypeOK
<1> SUFFICES ASSUME Init PROVE TypeOK
  OBVIOUS
<1>1. saved \in [pause: Until, since: 0 .. now, notified: Notified]
  <2>1. NotNotified \in Notified
    BY DEF NotNotified, Notified
  <2> QED
    BY <2>1 DEF Init
<1>2. TimesOK /\ SavedOK
  BY <1>1 DEF Init, TimesOK, SavedOK, NotNotified
<1>3. FactsOK
  <2>1. Never \in Until
    OBVIOUS
  <2> QED
    BY Zenon, <2>1 DEF Init, FactsOK
<1>6. LoopOK
  <2>1. channel = <<>> /\ <<>> \in Seq([kind: Kind, outcome: Outcome]) /\ Len(<<>>) <= Buffer
    BY DEF Init
  <2>2. channel \in Seq([kind: Kind, outcome: Outcome]) /\ Len(channel) <= Buffer
    BY Zenon, <2>1
  <2> QED
    BY <2>2 DEF Init, LoopOK
<1>4. SaidOK
  BY DEF Init, SaidOK, Reason
<1>5. BoundsOK
  BY DEF Init, BoundsOK, NoCall
<1> QED
  BY <1>2, <1>3, <1>4, <1>5, <1>6, TypeParts DEF PartsOK

LEMMA TypeJobEnds ==
  ASSUME TypeOK, NEW kind \in Kind, NEW outcome \in Outcome, JobEnds(kind, outcome)
  PROVE  TypeOK'
<1>0. TimesOK /\ SavedOK /\ FactsOK /\ LoopOK /\ SaidOK /\ BoundsOK
  BY TypeParts DEF PartsOK
<1> USE DEF facts, disk, desktop
<1>1. TimesOK'
  <2>1. kept' \in {now, kept} /\ now' = now /\ last' = last
    BY DEF JobEnds
  <2>2. dated' \in {dated, now, now - 1}
    BY DEF JobEnds, Later
  <2>3. dated' # now - 1 \/ dated' \in Nat
    BY SMTT(30), <1>0 DEF JobEnds, Later, TimesOK
  <2> QED
    BY <1>0, <2>1, <2>2, <2>3 DEF TimesOK
<1>2. SavedOK'
  BY <1>0 DEF SavedOK, JobEnds
<1>3. FactsOK'
  BY <1>0 DEF FactsOK, JobEnds
<1>4. LoopOK'
  BY <1>0 DEF LoopOK, JobEnds
<1>5. SaidOK'
  BY <1>0 DEF SaidOK, JobEnds
<1>6. BoundsOK'
  BY SMTT(30), <1>0 DEF BoundsOK, JobEnds
<1> QED
  BY <1>1, <1>2, <1>3, <1>4, <1>5, <1>6, TypeParts DEF PartsOK

LEMMA TypeLoopHears ==
  ASSUME TypeOK, LoopHears
  PROVE  TypeOK'
<1>0. TimesOK /\ SavedOK /\ FactsOK /\ LoopOK /\ SaidOK /\ BoundsOK
  BY TypeParts DEF PartsOK
<1> USE DEF disk, desktop, remembered
<1>1. TimesOK'
  BY SMTT(30), <1>0 DEF TimesOK, LoopHears
<1>2. SavedOK'
  BY <1>0 DEF SavedOK, LoopHears
<1>3. FactsOK'
  <2>1. latched' \in HealthFailure \cup {None}
    BY <1>0, AfterType DEF FactsOK, LoopHears
  <2>2. held' \in BOOLEAN
    BY <1>0 DEF FactsOK, LoopHears
  <2> QED
    BY <1>0, <2>1, <2>2 DEF FactsOK, LoopHears
<1>4. LoopOK'
  BY <1>0 DEF LoopOK, LoopHears
<1>5. SaidOK' /\ BoundsOK'
  BY <1>0 DEF SaidOK, BoundsOK, LoopHears
<1> QED
  BY <1>1, <1>2, <1>3, <1>4, <1>5, TypeParts DEF PartsOK

LEMMA TypeLoopAssesses ==
  ASSUME TypeOK, LoopAssesses
  PROVE  TypeOK'
<1>0. TimesOK /\ SavedOK /\ FactsOK /\ LoopOK /\ SaidOK /\ BoundsOK
  BY TypeParts DEF PartsOK
<1> DEFINE h == Evaluate
           told == saved.notified
           begun == ProtectedUntil
           count == IF told.since = begun THEN told.count + 1 ELSE 1
           risky == [told EXCEPT !.since = begun, !.at = now, !.count = count]
           broken == [told EXCEPT !.reason = h.reason, !.brokenAt = now]
           note == [reason |-> h.reason, replaces |-> FALSE, read |-> FALSE]
<1>1. /\ h \in Healths
      /\ h.state = "BROKEN" => h.reason \in HealthFailure
      /\ h.state = "AT_RISK" => begun \in 0 .. now /\ begun < now
  BY EvaluateType, StaleSince
<1>2. /\ announced' = h /\ heard' \in {h, heard} /\ shown' \in {None, shown}
      /\ telling' \in {telling, telling \cup {note}}
      /\ saved' \in {saved, [saved EXCEPT !.notified = IF h.state = "AT_RISK" THEN risky ELSE broken]}
      /\ saved' # saved => h.state \in {"AT_RISK", "BROKEN"}
      /\ UNCHANGED <<now, facts, dated, channel, lagged, wake, strays, calls, ends, left,
                     trouble, kept, asked>>
      /\ loop' = "looked"
  BY Zenon DEF LoopAssesses
<1>3. warned' \in [Failures -> Until]
  <2>1. \/ warned' = warned
        \/ \E f \in Failures : warned' = [warned EXCEPT ![f] = now]
    BY Zenon DEF LoopAssesses
  <2>2. now \in Until /\ warned \in [Failures -> Until]
    BY <1>0 DEF BoundsOK, TimesOK, Until, Times
  <2> QED
    BY <2>1, <2>2
<1>4. risk' \in [count: Nat, at: Until, of: Until]
  BY SMTT(30), <1>0 DEF LoopAssesses, BoundsOK, TimesOK
<1> HIDE DEF h, begun
<1>5. SavedOK'
  <2>1. CASE saved' = saved
    BY <1>0, <1>2, <2>1 DEF SavedOK
  <2>2. CASE saved' # saved /\ h.state = "AT_RISK"
    <3>0. told \in Notified /\ told.count \in Nat /\ count \in Nat /\ now \in Until /\ begun \in Until
      BY <1>0, <1>1, <2>2 DEF SavedOK, TimesOK, Notified
    <3>1. risky \in Notified /\ risky.since = begun /\ risky.at = now
          /\ risky.brokenAt = told.brokenAt
      BY <3>0 DEF Notified
    <3>2. saved' = [saved EXCEPT !.notified = risky]
      BY <1>2, <2>2
    <3>3. saved'.pause = saved.pause /\ saved'.since = saved.since /\ saved'.notified = risky
      BY <1>0, <3>2 DEF SavedOK
    <3>4. saved' \in [pause: Until, since: 0 .. now, notified: Notified]
      BY <1>0, <3>1, <3>2 DEF SavedOK
    <3> HIDE DEF risky
    <3> QED
      BY <1>0, <1>1, <1>2, <2>2, <3>1, <3>3, <3>4 DEF SavedOK, TimesOK
  <2>3. CASE saved' # saved /\ h.state = "BROKEN"
    <3>0. told \in Notified /\ h.reason \in HealthFailure /\ now \in Until
      BY <1>0, <1>1, <2>3 DEF SavedOK, TimesOK
    <3>1. broken \in Notified /\ broken.since = told.since /\ broken.at = told.at
          /\ broken.brokenAt = now
      BY <3>0 DEF Notified
    <3>2. saved' = [saved EXCEPT !.notified = broken]
      BY <1>2, <2>3
    <3>3. saved'.pause = saved.pause /\ saved'.since = saved.since /\ saved'.notified = broken
      BY <1>0, <3>2 DEF SavedOK
    <3>4. saved' \in [pause: Until, since: 0 .. now, notified: Notified]
      BY <1>0, <3>1, <3>2 DEF SavedOK
    <3> HIDE DEF broken
    <3> QED
      BY <1>0, <1>1, <1>2, <2>3, <3>1, <3>3, <3>4 DEF SavedOK, TimesOK
  <2> QED
    BY <1>2, <2>1, <2>2, <2>3
<1>6. SaidOK'
  <2>1. h.reason \in Reason /\ None \in Reason
    BY <1>1 DEF Healths, Reason
  <2>2. note \in [reason: Reason, replaces: BOOLEAN, read: BOOLEAN]
    BY <2>1
  <2> HIDE DEF note
  <2> QED
    BY <1>0, <1>1, <1>2, <2>1, <2>2 DEF SaidOK
<1>7. TimesOK' /\ FactsOK' /\ LoopOK'
  BY <1>0, <1>2 DEF TimesOK, FactsOK, LoopOK, facts
<1>8. BoundsOK'
  BY <1>0, <1>2, <1>3, <1>4 DEF BoundsOK
<1> QED
  BY <1>5, <1>6, <1>7, <1>8, TypeParts DEF PartsOK

LEMMA TypeRestarts ==
  ASSUME TypeOK, NEW at \in Times, Restarts(at)
  PROVE  TypeOK'
<1>0. TimesOK /\ SavedOK /\ FactsOK /\ LoopOK /\ SaidOK /\ BoundsOK
  BY TypeParts DEF PartsOK
<1>1. /\ now' = at /\ at >= now /\ saved' = saved /\ last' = dated /\ dated' = dated
      /\ UNCHANGED <<kept, trouble, asked, calls, ends, risk, warned, reachable, net, attention, open>>
  BY DEF Restarts, Happens, Loads, remembered
<1>2. TimesOK'
  BY <1>0, <1>1 DEF TimesOK
<1>7. SavedOK'
  <2>1. 0 .. now \subseteq 0 .. at /\ now \in Nat /\ at \in Nat
    BY <1>0, <1>1 DEF TimesOK
  <2>2. saved \in [pause: Until, since: 0 .. at, notified: Notified]
    BY <1>0, <2>1 DEF SavedOK
  <2>3. saved.notified.at \in Nat /\ saved.notified.brokenAt \in Nat
    BY <1>0 DEF SavedOK, Notified
  <2> QED
    BY <1>0, <1>1, <2>1, <2>2, <2>3 DEF SavedOK
<1>3. FactsOK'
  <2>1. latched' = None /\ held' = FALSE /\ pause' \in {saved.pause, Never}
    BY DEF Restarts
  <2>2. saved.pause \in Until /\ Never \in Until
    BY <1>0 DEF SavedOK
  <2> QED
    BY <1>0, <1>1, <2>1, <2>2 DEF FactsOK
<1>4. LoopOK'
  <2>1. channel' = <<>> /\ lagged' = FALSE /\ loop' = "assessing" /\ wake' = FALSE
    BY DEF Restarts
  <2>2. <<>> \in Seq([kind: Kind, outcome: Outcome]) /\ Len(<<>>) <= Buffer
    OBVIOUS
  <2>3. channel' \in Seq([kind: Kind, outcome: Outcome]) /\ Len(channel') <= Buffer
    BY Zenon, <2>1, <2>2
  <2> QED
    BY <2>1, <2>3 DEF LoopOK
<1>5. SaidOK'
  <2>1. announced' = Unknown /\ heard' = heard /\ telling' = {} /\ shown' = None
        /\ strays' \in {strays, strays \cup {shown}}
    BY Zenon DEF Restarts
  <2> QED
    BY <1>0, <2>1 DEF SaidOK, Reason
<1>6. BoundsOK'
  BY <1>0, <1>1 DEF BoundsOK, Restarts, Happens
<1> QED
  BY <1>2, <1>3, <1>4, <1>5, <1>6, <1>7, TypeParts DEF PartsOK

LEMMA TypeCallEnds ==
  ASSUME TypeOK, NEW c \in Callers, CallEnds(c)
  PROVE  TypeOK'
<1>0. TimesOK /\ SavedOK /\ FactsOK /\ LoopOK /\ SaidOK /\ BoundsOK
  BY TypeParts DEF PartsOK
<1>1. calls[c].until \in Until
  BY <1>0 DEF BoundsOK
<1>2. SavedOK'
  <2>1. saved' = [saved EXCEPT !.pause = calls[c].until] /\ now' = now
    BY DEF CallEnds, Saves
  <2> QED
    BY <1>0, <1>1, <2>1 DEF SavedOK
<1>3. BoundsOK'
  BY <1>0 DEF BoundsOK, CallEnds, NoCall, remembered
<1>4. TimesOK' /\ FactsOK' /\ LoopOK' /\ SaidOK'
  BY SMTT(30), <1>0 DEF TimesOK, FactsOK, LoopOK, SaidOK, CallEnds, Wakes, facts, desktop,
      remembered
<1> QED
  BY <1>2, <1>3, <1>4, TypeParts DEF PartsOK

LEMMA TypeTimePasses ==
  ASSUME TypeOK, TimePasses
  PROVE  TypeOK'
<1>0. TimesOK /\ SavedOK /\ FactsOK /\ LoopOK /\ SaidOK /\ BoundsOK
  BY TypeParts DEF PartsOK
<1> USE DEF facts, disk, desktop, remembered
<1>1. TimesOK'
  BY <1>0 DEF TimesOK, TimePasses
<1>2. SavedOK'
  <2>1. 0 .. now \subseteq 0 .. now + 1 /\ now \in Nat
    BY <1>0 DEF TimesOK
  <2>2. saved \in [pause: Until, since: 0 .. now + 1, notified: Notified]
    BY <1>0, <2>1 DEF SavedOK
  <2>3. saved.notified.at \in Nat /\ saved.notified.brokenAt \in Nat
    BY <1>0 DEF SavedOK, Notified
  <2>4. saved' = saved /\ now' = now + 1
    BY DEF TimePasses
  <2> QED
    BY <1>0, <2>1, <2>2, <2>3, <2>4 DEF SavedOK
<1>3. FactsOK' /\ LoopOK' /\ SaidOK' /\ BoundsOK'
  BY SMTT(30), <1>0 DEF FactsOK, LoopOK, SaidOK, BoundsOK, TimePasses
<1> QED
  BY <1>1, <1>2, <1>3, TypeParts DEF PartsOK

LEMMA TypeStep == TypeOK /\ [Next]_vars => TypeOK'
<1> SUFFICES ASSUME TypeOK, [Next]_vars PROVE TypeOK'
  OBVIOUS
<1> USE DEF facts, disk, listening, desktop, remembered, Wakes, Happens
<1>0. TimesOK /\ SavedOK /\ FactsOK /\ LoopOK /\ SaidOK /\ BoundsOK
  BY TypeParts DEF PartsOK
<1>1. CASE LoopLags
  <2>1. TimesOK' /\ SavedOK'
    BY <1>0, <1>1 DEF TimesOK, SavedOK, LoopLags
  <2>2. FactsOK'
    BY <1>0, <1>1 DEF FactsOK, LoopLags
  <2>3. LoopOK'
    BY <1>0, <1>1 DEF LoopOK, LoopLags
  <2>4. SaidOK' /\ BoundsOK'
    BY <1>0, <1>1 DEF SaidOK, BoundsOK, LoopLags
  <2> QED
    BY <2>1, <2>2, <2>3, <2>4, TypeParts DEF PartsOK
<1>2. CASE LoopMarks
  BY SMTT(30), <1>2 DEF TypeOK, LoopMarks
<1>3. CASE LoopWakes
  <2>1. TimesOK' /\ SavedOK'
    BY <1>0, <1>3 DEF TimesOK, SavedOK, LoopWakes
  <2>2. FactsOK'
    BY <1>0, <1>3 DEF FactsOK, LoopWakes
  <2>3. LoopOK'
    BY <1>0, <1>3 DEF LoopOK, LoopWakes
  <2>4. SaidOK' /\ BoundsOK'
    BY <1>0, <1>3 DEF SaidOK, BoundsOK, LoopWakes
  <2> QED
    BY <2>1, <2>2, <2>3, <2>4, TypeParts DEF PartsOK
<1>4. CASE LoopTicks
  BY SMTT(30), <1>4 DEF TypeOK, LoopTicks
<1>5. CASE DestinationMoves
  BY SMTT(30), <1>5 DEF TypeOK, DestinationMoves
<1>6. CASE NetMoves
  BY SMTT(30), <1>6 DEF TypeOK, NetMoves
<1>7. CASE AttentionMoves
  BY SMTT(30), <1>7 DEF TypeOK, AttentionMoves
<1>8. CASE KeyringMoves
  BY SMTT(30), <1>8 DEF TypeOK, KeyringMoves
<1>9. CASE PassphraseIsGiven
  BY SMTT(30), <1>9 DEF TypeOK, PassphraseIsGiven, Resolved
<1>10. CASE DestinationIsNew
  <2>1. TimesOK' /\ SavedOK'
    BY SMTT(30), <1>0, <1>10 DEF TimesOK, SavedOK, DestinationIsNew
  <2>2. FactsOK'
    BY <1>0, <1>10 DEF FactsOK, DestinationIsNew
  <2>3. LoopOK'
    BY <1>0, <1>10 DEF LoopOK, DestinationIsNew
  <2>4. SaidOK' /\ BoundsOK'
    BY SMTT(30), <1>0, <1>10 DEF SaidOK, BoundsOK, DestinationIsNew
  <2> QED
    BY <2>1, <2>2, <2>3, <2>4, TypeParts DEF PartsOK
<1>11. ASSUME NEW found \in BOOLEAN, EngineConnects(found) PROVE TypeOK'
  <2>1. TimesOK' /\ SavedOK'
    BY <1>0, <1>11 DEF TimesOK, SavedOK, EngineConnects
  <2>2. FactsOK'
    BY <1>0, <1>11 DEF FactsOK, EngineConnects, Resolved
  <2>3. LoopOK'
    BY <1>0, <1>11 DEF LoopOK, EngineConnects, Resolved
  <2>4. SaidOK' /\ BoundsOK'
    BY <1>0, <1>11 DEF SaidOK, BoundsOK, EngineConnects
  <2> QED
    BY <2>1, <2>2, <2>3, <2>4, TypeParts DEF PartsOK
<1>12. ASSUME NEW c \in Callers, Resumes(c) PROVE TypeOK'
  BY SMTT(30), <1>12 DEF TypeOK, Resumes, CallBegins, NoCall
<1>13. ASSUME NEW c \in Callers, NEW until \in Until, Pauses(c, until) PROVE TypeOK'
  BY SMTT(30), <1>13 DEF TypeOK, Pauses, CallBegins, NoCall
<1>14. ASSUME NEW n \in telling, NoticeReads(n) PROVE TypeOK'
  <2>1. TimesOK' /\ SavedOK'
    BY <1>0, <1>14 DEF TimesOK, SavedOK, NoticeReads
  <2>2. FactsOK'
    BY <1>0, <1>14 DEF FactsOK, NoticeReads
  <2>3. LoopOK'
    BY <1>0, <1>14 DEF LoopOK, NoticeReads
  <2>4. SaidOK' /\ BoundsOK'
    BY <1>0, <1>14 DEF SaidOK, BoundsOK, NoticeReads
  <2> QED
    BY <2>1, <2>2, <2>3, <2>4, TypeParts DEF PartsOK
<1>15. ASSUME NEW n \in telling, NoticeShows(n) PROVE TypeOK'
  BY SMTT(30), <1>15 DEF TypeOK, NoticeShows
<1>16. CASE UNCHANGED vars
  BY SMTT(30), <1>16 DEF TypeOK, vars
<1> QED
  BY <1>1, <1>2, <1>3, <1>4, <1>5, <1>6, <1>7, <1>8, <1>9, <1>10, <1>11, <1>12, <1>13, <1>14,
     <1>15, <1>16, TypeJobEnds, TypeLoopHears, TypeLoopAssesses, TypeRestarts, TypeCallEnds,
     TypeTimePasses DEF Next

(* Every variable keeps to its type, in all circumstances. *)
THEOREM TypeCorrect == Spec => []TypeOK
BY TypeInit, TypeStep, PTL DEF Spec

-----------------------------------------------------------------------------
(* The latch.  Between an update's publication and the loop's turn to hear *)
(* it the latch lags behind the truth, by exactly what the channel holds:  *)
(* heard one after another, its updates lead from the one to the other.    *)
Leads(v, from, through, to) ==
  /\ v[0] = from /\ v[Len(through)] = to
  /\ \A i \in 1 .. Len(through) : v[i] = After(v[i - 1], through[i].kind, through[i].outcome)

Reachable(from, through, to) ==
  \E v \in [0 .. Len(through) -> HealthFailure \cup {None}] : Leads(v, from, through, to)

LatchCatchesUp == Reachable(latched, channel, trouble)

Undisturbed == Circumstances \cap {"lag", "side by side", "slow", "forgotten"} = {}

LEMMA EmptyLeads ==
  ASSUME NEW from \in HealthFailure \cup {None}, NEW to
  PROVE  Reachable(from, <<>>, to) <=> from = to
<1>1. ASSUME Reachable(from, <<>>, to) PROVE from = to
  BY <1>1 DEF Reachable, Leads
<1>2. ASSUME from = to PROVE Reachable(from, <<>>, to)
  <2> DEFINE v == [i \in 0 .. 0 |-> from]
  <2>1. v \in [0 .. Len(<<>>) -> HealthFailure \cup {None}] /\ Leads(v, from, <<>>, to)
    BY <1>2 DEF Leads
  <2> QED
    BY <2>1 DEF Reachable
<1> QED
  BY <1>1, <1>2

(* An update that is published is the last that leads to the truth. *)
LEMMA AppendLeads ==
  ASSUME NEW S, NEW q \in Seq(S), NEW u \in S, NEW from, NEW to \in HealthFailure \cup {None},
         Reachable(from, q, to)
  PROVE  Reachable(from, Append(q, u), After(to, u.kind, u.outcome))
<1>1. PICK v \in [0 .. Len(q) -> HealthFailure \cup {None}] : Leads(v, from, q, to)
  BY DEF Reachable
<1> DEFINE n == Len(q) + 1
           last2 == After(to, u.kind, u.outcome)
           w == [i \in 0 .. n |-> IF i = n THEN last2 ELSE v[i]]
<1>2. Len(q) \in Nat /\ Len(Append(q, u)) = n /\ Append(q, u)[n] = u
      /\ \A i \in 1 .. Len(q) : Append(q, u)[i] = q[i]
  OBVIOUS
<1>3. last2 \in HealthFailure \cup {None}
  BY AfterType
<1> HIDE DEF last2
<1>4. w \in [0 .. n -> HealthFailure \cup {None}]
  BY <1>2, <1>3
<1>5. w[0] = from /\ w[n] = last2 /\ w[n - 1] = to
  BY <1>1, <1>2 DEF Leads
<1>6. ASSUME NEW i \in 1 .. n
      PROVE  w[i] = After(w[i - 1], Append(q, u)[i].kind, Append(q, u)[i].outcome)
  <2>1. CASE i = n
    BY <1>2, <1>5, <2>1 DEF last2
  <2>2. CASE i # n
    <3>1. i \in 1 .. Len(q) /\ w[i] = v[i] /\ w[i - 1] = v[i - 1]
      BY <1>2, <2>2
    <3> QED
      BY <1>1, <1>2, <3>1 DEF Leads
  <2> QED
    BY <2>1, <2>2
<1>7. Leads(w, from, Append(q, u), last2)
  BY <1>2, <1>5, <1>6 DEF Leads
<1> QED
  BY <1>2, <1>4, <1>7 DEF Reachable, last2

(* The one that is heard is the first. *)
LEMMA TailLeads ==
  ASSUME NEW S, NEW q \in Seq(S), q # <<>>, NEW from, NEW to, Reachable(from, q, to)
  PROVE  Reachable(After(from, Head(q).kind, Head(q).outcome), Tail(q), to)
<1>1. PICK v \in [0 .. Len(q) -> HealthFailure \cup {None}] : Leads(v, from, q, to)
  BY DEF Reachable
<1> DEFINE n == Len(q) - 1
           w == [i \in 0 .. n |-> v[i + 1]]
<1>2. n \in Nat /\ Len(Tail(q)) = n /\ Head(q) = q[1]
      /\ \A i \in 1 .. n : Tail(q)[i] = q[i + 1]
  OBVIOUS
<1>3. w \in [0 .. n -> HealthFailure \cup {None}]
  BY <1>2
<1>4. w[0] = After(from, Head(q).kind, Head(q).outcome) /\ w[n] = to
  BY <1>1, <1>2 DEF Leads
<1>5. ASSUME NEW i \in 1 .. n
      PROVE  w[i] = After(w[i - 1], Tail(q)[i].kind, Tail(q)[i].outcome)
  <2>1. i + 1 \in 1 .. Len(q) /\ w[i] = v[i + 1] /\ w[i - 1] = v[(i + 1) - 1]
    BY <1>2
  <2> QED
    BY <1>1, <1>2, <2>1 DEF Leads
<1> QED
  BY ZenonT(60), <1>2, <1>3, <1>4, <1>5 DEF Leads, Reachable

(* What a success disproves is what a success is taken to prove. *)
LEMMA TroubleFollows ==
  ASSUME TypeOK, NEW kind \in Kind, NEW outcome \in Outcome, JobEnds(kind, outcome)
  PROVE  trouble' = After(trouble, kind, outcome)
<1>1. trouble \in HealthFailure \cup {None}
  BY DEF TypeOK
<1>2. trouble' = CASE outcome \in HealthFailure -> outcome
                   [] outcome = "completed" /\ trouble \in Disproves(kind) -> None
                   [] OTHER -> trouble
  BY DEF JobEnds
<1>3. trouble \in Disproves(kind) <=> trouble # None /\ Proves(kind, trouble)
  BY <1>1 DEF Disproves, Proves
<1> QED
  BY <1>2, <1>3 DEF After

LEMMA LatchInit == Init => LatchCatchesUp
BY EmptyLeads DEF Init, LatchCatchesUp

LEMMA LatchStep ==
  ASSUME TypeOK, Undisturbed, LatchCatchesUp, [Next]_vars
  PROVE  LatchCatchesUp'
<1> USE DEF LatchCatchesUp
<1>0. /\ channel \in Seq([kind: Kind, outcome: Outcome])
      /\ latched \in HealthFailure \cup {None} /\ trouble \in HealthFailure \cup {None}
      /\ latched' \in HealthFailure \cup {None}
  BY TypeStep DEF TypeOK
<1>e. channel = <<>> => latched = trouble
  BY <1>0, EmptyLeads
<1>s. UNCHANGED <<channel, latched, trouble>> => LatchCatchesUp'
  OBVIOUS
<1>1. ASSUME NEW kind \in Kind, NEW outcome \in Outcome, JobEnds(kind, outcome)
      PROVE  LatchCatchesUp'
  <2> DEFINE u == [kind |-> kind, outcome |-> outcome]
             kept2 == IF Len(channel) = Buffer THEN Tail(channel) ELSE channel
  <2>1. channel' = Append(kept2, u) /\ latched' = latched
    BY <1>1 DEF JobEnds, facts
  <2>2. kept2 \in Seq([kind: Kind, outcome: Outcome]) /\ Reachable(latched, kept2, trouble)
    <3>1. CASE Len(channel) = Buffer
      <4>1. Head(channel).outcome = "unexplained"
        BY <1>1, <3>1 DEF JobEnds, Undisturbed
      <4>2. channel # <<>> /\ Tail(channel) \in Seq([kind: Kind, outcome: Outcome])
        BY <1>0, <3>1
      <4>3. After(latched, Head(channel).kind, Head(channel).outcome) = latched
        BY <4>1 DEF After
      <4> QED
        BY <1>0, <3>1, <4>2, <4>3, TailLeads
    <3> QED
      BY <1>0, <3>1
  <2>3. trouble' = After(trouble, u.kind, u.outcome) /\ u \in [kind: Kind, outcome: Outcome]
    BY <1>1, TroubleFollows
  <2> HIDE DEF kept2, u
  <2> QED
    BY <1>0, <2>1, <2>2, <2>3, AppendLeads
<1>2. CASE LoopHears
  <2>1. /\ channel # <<>> /\ channel' = Tail(channel) /\ trouble' = trouble
        /\ latched' = After(latched, Head(channel).kind, Head(channel).outcome)
    BY <1>2 DEF LoopHears, remembered
  <2> QED
    BY <1>0, <2>1, TailLeads
<1>3. CASE LoopTicks
  <2>1. UNCHANGED <<channel, latched, trouble>>
        \/ (channel = <<>> /\ channel' = <<>> /\ latched = "PassphraseMissing" /\ latched' = None
            /\ trouble' = IF trouble = "PassphraseMissing" THEN None ELSE trouble)
    BY <1>3 DEF LoopTicks, SideBySide, Undisturbed
  <2> QED
    BY <1>0, <1>e, <1>s, <2>1, EmptyLeads
<1>4. CASE PassphraseIsGiven
  <2>1. channel = <<>> /\ channel' = <<>>
    BY <1>4 DEF PassphraseIsGiven, SideBySide, Undisturbed
  <2>2. latched = trouble => latched' = trouble'
    BY <1>4 DEF PassphraseIsGiven, Resolved
  <2> QED
    BY <1>0, <1>e, <2>1, <2>2, EmptyLeads
<1>5. ASSUME NEW found \in BOOLEAN, EngineConnects(found) PROVE LatchCatchesUp'
  <2>1. channel = <<>> /\ channel' = <<>>
    BY <1>5 DEF EngineConnects, SideBySide, Undisturbed
  <2>2. latched = trouble => latched' = trouble'
    BY <1>5 DEF EngineConnects, Resolved
  <2> QED
    BY <1>0, <1>e, <2>1, <2>2, EmptyLeads
<1>6. CASE DestinationIsNew
  <2>1. channel = <<>> /\ channel' = <<>> /\ latched' = trouble'
    BY <1>6 DEF DestinationIsNew, SideBySide, Undisturbed
  <2> QED
    BY <1>0, <2>1, EmptyLeads
<1>7. ASSUME NEW at \in Times, Restarts(at) PROVE LatchCatchesUp'
  <2>1. channel' = <<>> /\ latched' = None /\ trouble' = None
    BY <1>7 DEF Restarts, Undisturbed, remembered
  <2> QED
    BY <1>0, <2>1, EmptyLeads
<1>8. ASSUME \/ LoopLags \/ LoopMarks \/ LoopWakes \/ LoopAssesses
             \/ \E n \in telling : NoticeReads(n) \/ NoticeShows(n)
             \/ DestinationMoves \/ NetMoves \/ AttentionMoves \/ KeyringMoves
             \/ \E c \in Callers : Resumes(c) \/ CallEnds(c) \/ \E until \in Until : Pauses(c, until)
             \/ TimePasses \/ UNCHANGED vars
      PROVE  UNCHANGED <<channel, latched, trouble>>
  BY <1>8 DEF LoopLags, LoopMarks, LoopWakes, LoopAssesses, NoticeReads, NoticeShows,
       DestinationMoves, NetMoves, AttentionMoves, KeyringMoves, Resumes, Pauses, CallBegins,
       CallEnds, TimePasses, vars, facts, listening, remembered
<1> QED
  BY <1>s, <1>1, <1>2, <1>3, <1>4, <1>5, <1>6, <1>7, <1>8 DEF Next

-----------------------------------------------------------------------------
(* The screen.  While a notice is on its way the loop rests where it       *)
(* looked, and so what is shown was alarming when last looked at.          *)
ScreenFollows ==
  /\ shown # None => Alarming(announced)
  /\ telling # {} => loop = "looked" /\ Alarming(announced)

LEMMA ScreenInit == Init => ScreenFollows
BY DEF Init, ScreenFollows

LEMMA ScreenStep ==
  ASSUME TypeOK, Undisturbed, ScreenFollows, [Next]_vars
  PROVE  ScreenFollows'
<1> USE DEF ScreenFollows, Prompt, Undisturbed
<1>1. CASE LoopAssesses
  <2> DEFINE h == Evaluate
  <2>1. /\ telling = {} /\ announced' = h /\ loop' = "looked"
        /\ shown' = IF Moved(h) /\ Over(h) THEN None ELSE shown
        /\ telling' # telling => h.state \in {"AT_RISK", "BROKEN"}
    BY <1>1 DEF LoopAssesses
  <2> HIDE DEF h
  <2> QED
    BY <2>1 DEF Moved, Over, Alarming
<1>2. ASSUME NEW n \in telling, NoticeReads(n) PROVE ScreenFollows'
  BY ZenonT(60), <1>2 DEF NoticeReads, listening, Alarming
<1>3. ASSUME NEW n \in telling, NoticeShows(n) PROVE ScreenFollows'
  BY ZenonT(60), <1>3 DEF NoticeShows, listening, Alarming
<1>4. ASSUME NEW at \in Times, Restarts(at) PROVE ScreenFollows'
  BY ZenonT(60), <1>4 DEF Restarts
<1>5. ASSUME \/ \E kind \in Kind, outcome \in Outcome : JobEnds(kind, outcome)
             \/ LoopHears \/ LoopLags \/ LoopMarks \/ LoopWakes \/ LoopTicks
             \/ DestinationMoves \/ NetMoves \/ AttentionMoves \/ KeyringMoves
             \/ PassphraseIsGiven \/ DestinationIsNew \/ \E found \in BOOLEAN : EngineConnects(found)
             \/ \E c \in Callers : Resumes(c) \/ CallEnds(c) \/ \E until \in Until : Pauses(c, until)
             \/ TimePasses \/ UNCHANGED vars
      PROVE  /\ UNCHANGED <<telling, shown, announced>>
             /\ telling # {} => loop' = loop
  BY <1>5 DEF JobEnds, LoopHears, LoopLags, LoopMarks, LoopWakes, LoopTicks, AtRest, Happens,
       DestinationMoves, NetMoves, AttentionMoves, KeyringMoves, PassphraseIsGiven,
       DestinationIsNew, EngineConnects, Resumes, Pauses, CallBegins, CallEnds, TimePasses,
       Settled, vars, listening, desktop
<1> QED
  BY <1>1, <1>2, <1>3, <1>4, <1>5 DEF Next, Alarming

-----------------------------------------------------------------------------
(* The pause.  A call that is between memory and disk carries what was     *)
(* asked last, and there is one at a time.                                 *)
OnNow(until) == IF until > now THEN until ELSE Never

PauseFollows ==
  /\ OnNow(pause) = OnNow(asked)
  /\ (\A c \in Callers : calls[c] = NoCall) => OnNow(saved.pause) = OnNow(asked)
  /\ \A c \in Callers : calls[c] # NoCall =>
       calls[c].until = asked /\ \A d \in Callers \ {c} : calls[d] = NoCall

(* What runs out at one time has run out at any later one. *)
LEMMA RunOutStays ==
  ASSUME NEW t \in Nat, NEW u \in Nat, t <= u, NEW a \in Nat, NEW b \in Nat,
         (IF a > t THEN a ELSE 0) = (IF b > t THEN b ELSE 0)
  PROVE  (IF a > u THEN a ELSE 0) = (IF b > u THEN b ELSE 0)
OBVIOUS

LEMMA PauseInit == Init => PauseFollows
BY DEF Init, PauseFollows, OnNow

LEMMA PauseStep ==
  ASSUME TypeOK, Undisturbed, PauseFollows, [Next]_vars
  PROVE  PauseFollows'
<1>0. /\ now \in Nat /\ pause \in Nat /\ asked \in Nat
      /\ saved \in [pause: Until, since: 0 .. now, notified: Notified] /\ saved.pause \in Nat
      /\ calls \in [Callers -> [at: {"idle", "pausing", "resuming"}, until: Until]]
  <2>0. LastTime \in Nat
    OBVIOUS
  <2>1. now \in Nat /\ Until \subseteq Nat
    <3>1. now \in 1 .. LastTime
      BY DEF TypeOK
    <3> QED
      BY <2>0, <3>1
  <2>2. /\ pause \in Until /\ asked \in Until
        /\ saved \in [pause: Until, since: 0 .. now, notified: Notified]
        /\ calls \in [Callers -> [at: {"idle", "pausing", "resuming"}, until: Until]]
    BY DEF TypeOK
  <2>3. saved.pause \in Until
    BY <2>2
  <2> QED
    BY <2>1, <2>2, <2>3
<1>s. UNCHANGED <<now, pause, asked, calls>> /\ saved'.pause = saved.pause => PauseFollows'
  BY DEF PauseFollows, OnNow
<1>1. ASSUME NEW c \in Callers, NEW at \in {"pausing", "resuming"}, NEW until \in Until,
             CallBegins(c, at, until)
      PROVE  PauseFollows'
  <2>1. /\ now' = now /\ pause' = until /\ asked' = until
        /\ calls' = [calls EXCEPT ![c] = [at |-> at, until |-> until]]
        /\ \A d \in Callers : calls[d] = NoCall
    BY <1>1 DEF CallBegins, SideBySide, Undisturbed
  <2>2. calls'[c] = [at |-> at, until |-> until] /\ \A d \in Callers \ {c} : calls'[d] = NoCall
    BY <1>0, <2>1
  <2>3. calls'[c] # NoCall /\ calls'[c].until = until
    <3>1. calls'[c].at = at /\ calls'[c].until = until /\ NoCall.at = "idle"
      BY <2>2 DEF NoCall
    <3>2. at # "idle"
      OBVIOUS
    <3> QED
      BY <3>1, <3>2
  <2>4. OnNow(pause)' = OnNow(asked)'
    BY <2>1 DEF OnNow
  <2>5. ~\A d \in Callers : calls'[d] = NoCall
    BY <2>3
  <2>6. ASSUME NEW d \in Callers, calls'[d] # NoCall
        PROVE  calls'[d].until = asked' /\ \A e \in Callers \ {d} : calls'[e] = NoCall
    <3>1. d = c
      BY <2>2, <2>6
    <3> QED
      BY <3>1, <2>1, <2>2, <2>3
  <2> QED
    BY <2>4, <2>5, <2>6 DEF PauseFollows
<1>2. ASSUME NEW c \in Callers, Resumes(c) PROVE PauseFollows'
  <2>1. Never \in Until
    <3>1. LastTime \in Nat
      OBVIOUS
    <3> QED
      BY <3>1
  <2> QED
    BY <1>1, <1>2, <2>1 DEF Resumes
<1>3. ASSUME NEW c \in Callers, NEW until \in Until, Pauses(c, until) PROVE PauseFollows'
  BY <1>1, <1>3 DEF Pauses
<1>4. ASSUME NEW c \in Callers, CallEnds(c) PROVE PauseFollows'
  <2>1. /\ UNCHANGED <<now, pause, asked>> /\ calls[c] # NoCall
        /\ saved' = [saved EXCEPT !.pause = calls[c].until]
        /\ calls' = [calls EXCEPT ![c] = NoCall]
    BY <1>4 DEF CallEnds, Saves, facts, remembered
  <2>2. saved'.pause = asked
    BY <1>0, <2>1 DEF PauseFollows
  <2>3. \A d \in Callers : calls'[d] = NoCall
    BY <1>0, <2>1 DEF PauseFollows
  <2> QED
    BY <2>1, <2>2, <2>3 DEF PauseFollows, OnNow
<1>5. CASE TimePasses
  <2>1. now' = now + 1 /\ UNCHANGED <<pause, asked, saved, calls>>
    BY <1>5 DEF TimePasses, facts, disk, remembered
  <2>2. ASSUME NEW a \in Nat, OnNow(a) = OnNow(asked)
        PROVE  (IF a > now + 1 THEN a ELSE Never) = (IF asked > now + 1 THEN asked ELSE Never)
    BY <1>0, <2>2, RunOutStays DEF OnNow
  <2>3. OnNow(pause)' = OnNow(asked)'
    BY <1>0, <2>1, <2>2 DEF PauseFollows, OnNow
  <2>4. OnNow(saved.pause) = OnNow(asked) => OnNow(saved.pause)' = OnNow(asked)'
    BY <1>0, <2>1, <2>2 DEF OnNow
  <2> QED
    BY <2>1, <2>3, <2>4 DEF PauseFollows
<1>6. ASSUME NEW at \in Times, Restarts(at) PROVE PauseFollows'
  <2>1. /\ now' = at /\ UNCHANGED <<asked, calls>> /\ saved' = saved
        /\ pause' = IF saved.pause > at THEN saved.pause ELSE Never
        /\ \A c \in Callers : calls[c] = NoCall
    BY <1>6 DEF Restarts, Loads, remembered
  <2>2. at \in Nat /\ now <= at
    <3>1. at \in now .. LastTime
      BY <1>6 DEF Restarts
    <3>2. LastTime \in Nat
      OBVIOUS
    <3> QED
      BY <1>0, <3>1, <3>2
  <2>3. OnNow(saved.pause) = OnNow(asked)
    BY <2>1 DEF PauseFollows
  <2>4. OnNow(saved.pause)' = OnNow(asked)'
    BY <1>0, <2>1, <2>2, <2>3, RunOutStays DEF OnNow
  <2>5. OnNow(pause)' = OnNow(saved.pause)'
    BY <1>0, <2>1, <2>2 DEF OnNow, Never
  <2> QED
    BY <2>1, <2>4, <2>5 DEF PauseFollows
<1>7. CASE LoopAssesses
  <2>1. UNCHANGED <<now, pause, asked, calls>>
    BY SMTT(30), <1>7 DEF LoopAssesses, facts
  <2>2. saved'.pause = saved.pause
    BY SMTT(30), <1>0, <1>7 DEF LoopAssesses
  <2> QED
    BY <1>s, <2>1, <2>2
<1>8. CASE DestinationIsNew
  BY SMTT(30), <1>0, <1>s, <1>8 DEF DestinationIsNew
<1>9. ASSUME \/ \E kind \in Kind, outcome \in Outcome : JobEnds(kind, outcome)
             \/ LoopHears \/ LoopLags \/ LoopMarks \/ LoopWakes \/ LoopTicks
             \/ \E n \in telling : NoticeReads(n) \/ NoticeShows(n)
             \/ DestinationMoves \/ NetMoves \/ AttentionMoves \/ KeyringMoves
             \/ PassphraseIsGiven \/ \E found \in BOOLEAN : EngineConnects(found)
             \/ UNCHANGED vars
      PROVE  UNCHANGED <<now, pause, asked, calls, saved>>
  BY <1>9 DEF JobEnds, LoopHears, LoopLags, LoopMarks, LoopWakes, LoopTicks, NoticeReads,
       NoticeShows, DestinationMoves, NetMoves, AttentionMoves, KeyringMoves,
       PassphraseIsGiven, EngineConnects, vars, facts, disk, remembered
<1> QED
  BY <1>s, <1>2, <1>3, <1>4, <1>5, <1>6, <1>7, <1>8, <1>9 DEF Next

-----------------------------------------------------------------------------
(* What is said of the backups is so, whatever jobs end, calls are made    *)
(* and restarts come, unless one of the circumstances intervenes that the  *)
(* README names.                                                           *)
THEOREM HealthIsSafe ==
  ASSUME Undisturbed
  PROVE  Spec => []HealthSafety
<1> DEFINE IInv == TypeOK /\ LatchCatchesUp /\ ScreenFollows /\ PauseFollows
<1>1. Init => IInv
  BY TypeInit, LatchInit, ScreenInit, PauseInit
<1>2. IInv /\ [Next]_vars => IInv'
  BY TypeStep, LatchStep, ScreenStep, PauseStep
<1>3. IInv => HealthSafety
  <2> SUFFICES ASSUME IInv PROVE HealthSafety
    OBVIOUS
  <2>1. LatchIsTrue
    BY EmptyLeads DEF TypeOK, LatchIsTrue, LatchCatchesUp
  <2>2. ScreenHasNothingFixed
    BY DEF ScreenHasNothingFixed, ScreenFollows
  <2>3. PauseIsKept
    BY DEF PauseIsKept, PauseFollows, OnNow
  <2> QED
    BY <2>1, <2>2, <2>3 DEF HealthSafety
<1> QED
  BY <1>1, <1>2, <1>3, PTL DEF Spec
-----------------------------------------------------------------------------
(* The notices.  A person is told of one failure at most once in the       *)
(* repeat time, though the daemon remembers only the last failure it told  *)
(* of: of a failure told of within that time either nothing is left, in    *)
(* the facts and in the channel, or it is the one that is remembered.      *)
Updates == {channel[i] : i \in DOMAIN channel}
Coming(f) == \E u \in Updates : Stops(u.outcome) = f
Pending(f) == latched = f \/ (held /\ f = "LocalDiskFull") \/ Coming(f)
Recently(f) == warned[f] # Never /\ now - warned[f] < BrokenRepeat

OneComes == \A f, g \in HealthFailure : Coming(f) /\ Coming(g) => f = g
HeldAlone == held => \A f \in HealthFailure : Coming(f) => f = "LocalDiskFull"

WarnedLast ==
  /\ \A f \in Failures : warned[f] # Never =>
       saved.notified.reason \in HealthFailure /\ warned[f] <= saved.notified.brokenAt
  /\ \A f \in Failures : saved.notified.reason = f =>
       warned[f] = saved.notified.brokenAt /\ warned[f] # Never

ToldIfPending == \A f \in Failures : Recently(f) /\ Pending(f) => saved.notified.reason = f

NoneBehind ==
  \A f \in Failures : Recently(f) /\ latched # None /\ latched # f =>
    /\ ~Coming(f) /\ ~(held /\ f = "LocalDiskFull")
    /\ loop # "assessing" => saved.notified.reason = latched

WarnInv == OneComes /\ HeldAlone /\ WarnedLast /\ ToldIfPending /\ NoneBehind

(* Of a stretch without protection the daemon remembers when it began, and *)
(* by that which stretch it told of: once nothing is left to hear, what it *)
(* takes for the beginning is when there last was protection.              *)
Success(u) == u.outcome = "completed" /\ u.kind \in {"Backup", "Offline"}

Dated ==
  /\ (\E u \in Updates : Success(u)) => dated = now
  /\ (\A u \in Updates : ~Success(u)) => last = dated
  /\ kept = Later(dated, saved.since) /\ kept # Never

ToldInOrder ==
  saved.notified.since # Never =>
    /\ saved.notified.count >= 1 /\ saved.notified.at # Never
    /\ saved.notified.count >= 2 => saved.notified.at >= saved.notified.since + AtRiskSecond

RiskIs ==
  /\ risk.at = Never => risk.of = Never
  /\ risk.at # Never => risk.of < risk.at /\ risk.at <= now
  /\ risk.at # Never /\ risk.of = kept => saved.notified.since = kept /\ risk.at <= saved.notified.at

RiskInv == Dated /\ ToldInOrder /\ RiskIs

OneAtATime == Circumstances \cap {"lag", "in turns", "long"} = {}

(* What the steps start from. *)
LEMMA NoticeTypes ==
  ASSUME TypeOK
  PROVE  /\ now \in Nat /\ now >= 1 /\ last \in Nat /\ last <= now /\ dated \in Nat /\ dated <= now
         /\ kept \in Nat /\ kept <= now
         /\ saved \in [pause: Until, since: 0 .. now, notified: Notified]
         /\ saved.since \in Nat /\ saved.since <= now
         /\ saved.notified \in Notified
         /\ saved.notified.since \in Nat /\ saved.notified.count \in Nat
         /\ saved.notified.at \in Nat /\ saved.notified.brokenAt \in Nat
         /\ saved.notified.at <= now /\ saved.notified.brokenAt <= now
         /\ saved.notified.reason \in HealthFailure \cup {None}
         /\ risk \in [count: Nat, at: Until, of: Until] /\ risk.at \in Nat /\ risk.of \in Nat
         /\ warned \in [Failures -> Until] /\ \A f \in Failures : warned[f] \in Nat
         /\ latched \in HealthFailure \cup {None} /\ held \in BOOLEAN
         /\ channel \in Seq([kind: Kind, outcome: Outcome])
<1>1. TimesOK /\ SavedOK /\ BoundsOK
  BY TypeParts DEF PartsOK
<1>2. now \in Nat /\ now >= 1 /\ last \in Nat /\ last <= now /\ dated \in Nat /\ dated <= now
      /\ kept \in Nat /\ kept <= now
  BY <1>1 DEF TimesOK
<1>3. saved \in [pause: Until, since: 0 .. now, notified: Notified]
  BY <1>1 DEF SavedOK
<1>4. saved.since \in 0 .. now /\ saved.notified \in Notified
  BY <1>3
<1>5. /\ saved.notified.since \in Until /\ saved.notified.count \in Nat
      /\ saved.notified.at \in Until /\ saved.notified.brokenAt \in Until
      /\ saved.notified.reason \in HealthFailure \cup {None}
  BY <1>4 DEF Notified
<1>6. LastTime \in Nat
  OBVIOUS
<1>7. Until \subseteq Nat
  BY <1>6
<1>8. risk \in [count: Nat, at: Until, of: Until] /\ warned \in [Failures -> Until]
  BY <1>1 DEF BoundsOK
<1>9. risk.at \in Nat /\ risk.of \in Nat /\ \A f \in Failures : warned[f] \in Nat
  BY <1>7, <1>8
<1>10. saved.notified.at <= now /\ saved.notified.brokenAt <= now
  BY <1>1 DEF SavedOK
<1>11. saved.since \in Nat /\ saved.since <= now
  BY <1>2, <1>4
<1>12. /\ saved.notified.since \in Nat /\ saved.notified.at \in Nat /\ saved.notified.brokenAt \in Nat
  BY <1>5, <1>7
<1>13. /\ latched \in HealthFailure \cup {None} /\ held \in BOOLEAN
       /\ channel \in Seq([kind: Kind, outcome: Outcome])
  BY DEF TypeOK
<1> QED
  BY ZenonT(60), <1>2, <1>3, <1>4, <1>5, <1>8, <1>9, <1>10, <1>11, <1>12, <1>13

(* What an end adds to the channel, and what the loop takes from it. *)
LEMMA UpdatesGrow ==
  ASSUME TypeOK, OneAtATime, NEW kind \in Kind, NEW outcome \in Outcome, JobEnds(kind, outcome)
  PROVE  \E u \in [kind: Kind, outcome: Outcome] :
           /\ u.kind = kind /\ u.outcome = outcome /\ u \in Updates'
           /\ Updates' \subseteq Updates \cup {u}
           /\ \A v \in Updates : v \in Updates' \/ v.outcome = "unexplained"
<1> DEFINE u == [kind |-> kind, outcome |-> outcome]
           rest == IF Len(channel) = Buffer THEN Tail(channel) ELSE channel
<1>1. channel \in Seq([kind: Kind, outcome: Outcome]) /\ u \in [kind: Kind, outcome: Outcome]
  BY NoticeTypes
<1>2. channel' = Append(rest, u)
  BY DEF JobEnds
<1>3. Len(channel) = Buffer => Head(channel).outcome = "unexplained"
  BY DEF JobEnds, OneAtATime
<1>4. /\ rest \in Seq([kind: Kind, outcome: Outcome])
      /\ \A i \in DOMAIN rest : \E j \in DOMAIN channel : rest[i] = channel[j]
      /\ \A j \in DOMAIN channel : channel[j].outcome = "unexplained" \/ \E i \in DOMAIN rest : rest[i] = channel[j]
  <2>1. CASE Len(channel) = Buffer
    <3>1. channel # <<>> /\ rest = Tail(channel)
      BY <1>1, <2>1
    <3>2. /\ rest \in Seq([kind: Kind, outcome: Outcome]) /\ Len(rest) = Len(channel) - 1
          /\ \A i \in 1 .. Len(rest) : rest[i] = channel[i + 1]
          /\ Head(channel) = channel[1] /\ DOMAIN rest = 1 .. Len(rest)
          /\ DOMAIN channel = 1 .. Len(channel) /\ Len(channel) \in Nat
      BY <1>1, <3>1
    <3> HIDE DEF rest, u
    <3>3. ASSUME NEW i \in DOMAIN rest PROVE \E j \in DOMAIN channel : rest[i] = channel[j]
      <4>1. i + 1 \in DOMAIN channel /\ rest[i] = channel[i + 1]
        BY <3>2
      <4> QED
        BY <4>1
    <3>4. ASSUME NEW j \in DOMAIN channel, channel[j].outcome # "unexplained"
          PROVE  \E i \in DOMAIN rest : rest[i] = channel[j]
      <4>1. j # 1
        BY <1>3, <2>1, <3>2, <3>4
      <4>2. j - 1 \in DOMAIN rest /\ (j - 1) + 1 = j
        BY <3>2, <4>1
      <4>3. rest[j - 1] = channel[j]
        BY <3>2, <4>2
      <4> QED
        BY <4>2, <4>3
    <3> QED
      BY <3>2, <3>3, <3>4
  <2>2. CASE Len(channel) # Buffer
    BY <1>1, <2>2
  <2> QED
    BY <2>1, <2>2
<1> HIDE DEF rest, u
<1>5. /\ DOMAIN channel' = 1 .. Len(rest) + 1 /\ DOMAIN rest = 1 .. Len(rest) /\ Len(rest) \in Nat
      /\ channel'[Len(rest) + 1] = u /\ \A i \in 1 .. Len(rest) : channel'[i] = rest[i]
  BY <1>1, <1>2, <1>4
<1>6. u \in Updates'
  <2>1. Len(rest) + 1 \in DOMAIN channel'
    BY <1>5
  <2> QED
    BY <1>5, <2>1 DEF Updates
<1>7. Updates' \subseteq Updates \cup {u}
  <2> SUFFICES ASSUME NEW i \in DOMAIN channel' PROVE channel'[i] \in Updates \cup {u}
    BY DEF Updates
  <2>1. CASE i = Len(rest) + 1
    BY <1>5, <2>1
  <2>2. CASE i # Len(rest) + 1
    <3>1. i \in DOMAIN rest /\ channel'[i] = rest[i]
      BY <1>5, <2>2
    <3> QED
      BY <1>4, <3>1 DEF Updates
  <2> QED
    BY <2>1, <2>2
<1>8. ASSUME NEW v \in Updates, v.outcome # "unexplained" PROVE v \in Updates'
  <2>1. PICK j \in DOMAIN channel : v = channel[j]
    BY DEF Updates
  <2>2. PICK i \in DOMAIN rest : rest[i] = channel[j]
    BY <1>4, <1>8, <2>1
  <2>3. i \in DOMAIN channel' /\ channel'[i] = v
    BY <1>5, <2>1, <2>2
  <2> QED
    BY <2>3 DEF Updates
<1>9. u \in [kind: Kind, outcome: Outcome] /\ u.kind = kind /\ u.outcome = outcome
  BY <1>1 DEF u
<1> QED
  BY <1>6, <1>7, <1>8, <1>9

LEMMA HeadIsOne == ASSUME NEW S, NEW q \in Seq(S), q # <<>> PROVE Head(q) \in S
OBVIOUS

LEMMA UpdatesShrink ==
  ASSUME TypeOK, channel # <<>>, channel' = Tail(channel)
  PROVE  /\ Head(channel) \in Updates /\ Head(channel) \in [kind: Kind, outcome: Outcome]
         /\ Updates' \subseteq Updates
         /\ Updates \subseteq Updates' \cup {Head(channel)}
<1>1. channel \in Seq([kind: Kind, outcome: Outcome])
  BY NoticeTypes
<1>2. /\ DOMAIN channel = 1 .. Len(channel) /\ Len(channel) \in Nat \ {0} /\ Head(channel) = channel[1]
      /\ DOMAIN Tail(channel) = 1 .. Len(channel) - 1
      /\ \A i \in 1 .. Len(channel) - 1 : Tail(channel)[i] = channel[i + 1]
  BY <1>1
<1>3. Head(channel) \in Updates /\ Head(channel) \in [kind: Kind, outcome: Outcome]
  <2>1. 1 \in DOMAIN channel
    BY <1>2
  <2>2. Head(channel) \in [kind: Kind, outcome: Outcome]
    BY <1>1, HeadIsOne
  <2> QED
    BY <1>2, <2>1, <2>2 DEF Updates
<1>4. Updates' \subseteq Updates
  <2> SUFFICES ASSUME NEW i \in DOMAIN channel' PROVE channel'[i] \in Updates
    BY DEF Updates
  <2>1. i + 1 \in DOMAIN channel /\ channel'[i] = channel[i + 1]
    BY <1>2
  <2> QED
    BY <2>1 DEF Updates
<1>5. Updates \subseteq Updates' \cup {Head(channel)}
  <2> SUFFICES ASSUME NEW j \in DOMAIN channel, j # 1 PROVE channel[j] \in Updates'
    BY <1>2 DEF Updates
  <2>1. j - 1 \in DOMAIN channel' /\ (j - 1) + 1 = j
    BY <1>2
  <2>2. channel'[j - 1] = channel[j]
    BY <1>2, <2>1
  <2> QED
    BY <2>1, <2>2 DEF Updates
<1> QED
  BY <1>3, <1>4, <1>5

(* A failure is put in the channel, or found, when nothing recent is       *)
(* another.                                                                *)
LEMMA InTurnMeans ==
  ASSUME OneAtATime, NEW outcome, InTurn(outcome), Stops(outcome) \in HealthFailure
  PROVE  /\ \A f \in Failures : f # Stops(outcome) => warned[f] = Never \/ now - warned[f] >= BrokenRepeat
         /\ saved.notified.reason \in HealthFailure /\ saved.notified.reason # Stops(outcome)
              => now - saved.notified.brokenAt >= BrokenRepeat
         /\ \A u \in Updates : Stops(u.outcome) \in HealthFailure => Stops(u.outcome) = Stops(outcome)
         /\ loop = "assessing" => latched \notin HealthFailure \/ latched = Stops(outcome)
         /\ held => Stops(outcome) = "LocalDiskFull"
<1> HIDE DEF HealthFailure
<1>1. "in turns" \notin Circumstances /\ Failures \subseteq HealthFailure
  <2>1. "in turns" \notin Circumstances
    BY Zenon DEF OneAtATime
  <2> QED
    BY <2>1
<1>2. LET this  == Stops(outcome)
          other == HealthFailure \ {this}
      IN /\ \A f \in Failures \cap other : warned[f] = Never \/ now - warned[f] >= BrokenRepeat
         /\ saved.notified.reason \in other => now - saved.notified.brokenAt >= BrokenRepeat
         /\ \A i \in DOMAIN channel : Stops(channel[i].outcome) \notin other
         /\ loop = "assessing" => latched \notin other
         /\ held => this = "LocalDiskFull"
  BY Zenon, <1>1 DEF InTurn
<1>3. \A f \in Failures : f # Stops(outcome) => warned[f] = Never \/ now - warned[f] >= BrokenRepeat
  BY Zenon, <1>1, <1>2
<1>4. \A u \in Updates : Stops(u.outcome) \in HealthFailure => Stops(u.outcome) = Stops(outcome)
  <2> SUFFICES ASSUME NEW u \in Updates, Stops(u.outcome) \in HealthFailure
               PROVE  Stops(u.outcome) = Stops(outcome)
    OBVIOUS
  <2>1. PICK i \in DOMAIN channel : u = channel[i]
    BY Zenon DEF Updates
  <2>2. Stops(channel[i].outcome) \notin HealthFailure \ {Stops(outcome)}
    BY Zenon, <1>2
  <2> QED
    BY Zenon, <2>1, <2>2
<1>5. /\ saved.notified.reason \in HealthFailure /\ saved.notified.reason # Stops(outcome)
           => now - saved.notified.brokenAt >= BrokenRepeat
      /\ loop = "assessing" => latched \notin HealthFailure \/ latched = Stops(outcome)
      /\ held => Stops(outcome) = "LocalDiskFull"
  BY Zenon, <1>2
<1> QED
  BY Zenon, <1>3, <1>4, <1>5

(* Nobody was told of another failure lately, then; and of this one only   *)
(* if it is the one that is remembered.                                    *)
LEMMA NothingElseRecent ==
  ASSUME TypeOK, OneAtATime, WarnedLast, NEW outcome, InTurn(outcome), Stops(outcome) \in HealthFailure,
         NEW f \in Failures, Recently(f)
  PROVE  f = Stops(outcome) /\ saved.notified.reason = f
<1>1. now \in Nat /\ warned[f] \in Nat /\ saved.notified.brokenAt \in Nat /\ BrokenRepeat \in Nat
  BY NoticeTypes
<1>2. f = Stops(outcome)
  <2>1. f # Stops(outcome) => warned[f] = Never \/ now - warned[f] >= BrokenRepeat
    BY InTurnMeans
  <2> QED
    BY <1>1, <2>1 DEF Recently
<1>3. saved.notified.reason \in HealthFailure /\ warned[f] <= saved.notified.brokenAt
  BY DEF Recently, WarnedLast
<1>4. saved.notified.reason # f => now - saved.notified.brokenAt >= BrokenRepeat
  BY <1>2, <1>3, InTurnMeans
<1> QED
  BY <1>1, <1>2, <1>3, <1>4 DEF Recently

LEMMA StopsIs == \A outcome \in Outcome :
  /\ outcome \in HealthFailure => Stops(outcome) = outcome
  /\ outcome = "held" => Stops(outcome) = "LocalDiskFull"
  /\ outcome \in {"completed", "unexplained"} => Stops(outcome) \notin HealthFailure
BY DEF Stops

LEMMA WarnInit == Init => WarnInv
<1> SUFFICES ASSUME Init PROVE WarnInv
  OBVIOUS
<1>1. /\ channel = <<>> /\ latched = None /\ held = FALSE /\ saved.notified = NotNotified
      /\ \A f \in Failures : warned[f] = Never
  BY DEF Init
<1>2. Updates = {}
  BY <1>1 DEF Updates
<1>3. saved.notified.reason = None /\ None \notin HealthFailure /\ Failures \subseteq HealthFailure
  BY <1>1 DEF NotNotified
<1> QED
  BY Zenon, <1>1, <1>2, <1>3 DEF WarnInv, OneComes, HeldAlone, WarnedLast, ToldIfPending,
      NoneBehind, Coming, Recently

(* What takes nothing in and tells of nothing keeps all of it. *)
LEMMA WarnKeeps ==
  ASSUME TypeOK, WarnInv, now' \in Nat, now' >= now, Updates' \subseteq Updates,
         latched' \in {latched, None}, held' \in {held, FALSE}, warned' = warned,
         saved'.notified = saved.notified,
         latched' = latched /\ latched # None => loop' \in {loop, "assessing"} \/ loop = "looked" 
  PROVE  WarnInv'
<1>1. now \in Nat /\ \A f \in Failures : warned[f] \in Nat
  BY NoticeTypes
<1>2. ASSUME NEW f \in Failures, Recently(f)' PROVE Recently(f)
  <2>1. warned[f] \in Nat /\ BrokenRepeat \in Nat
    BY <1>1
  <2> QED
    BY <1>1, <1>2, <2>1 DEF Recently
<1>3. ASSUME NEW f, Coming(f)' PROVE Coming(f)
  BY <1>3 DEF Coming
<1>4. OneComes'
  BY <1>3 DEF WarnInv, OneComes
<1>5. HeldAlone'
  BY <1>3 DEF WarnInv, HeldAlone
<1>6. WarnedLast'
  BY DEF WarnInv, WarnedLast
<1>7. ToldIfPending'
  <2> SUFFICES ASSUME NEW f \in Failures, Recently(f)', Pending(f)'
               PROVE  saved'.notified.reason = f
    BY DEF ToldIfPending
  <2>1. f # None
    OBVIOUS
  <2>2. Recently(f)
    BY <1>2
  <2>3. CASE latched' = f
    <3>1. latched = f
      BY <2>1, <2>3
    <3> QED
      BY <2>2, <3>1 DEF WarnInv, ToldIfPending, Pending
  <2>4. CASE held' /\ f = "LocalDiskFull"
    <3>1. held /\ f = "LocalDiskFull"
      BY <2>4
    <3> QED
      BY <2>2, <3>1 DEF WarnInv, ToldIfPending, Pending
  <2>5. CASE Coming(f)'
    BY <1>3, <2>2, <2>5 DEF WarnInv, ToldIfPending, Pending
  <2> QED
    BY <2>3, <2>4, <2>5 DEF Pending
<1>8. NoneBehind'
  <2> SUFFICES ASSUME NEW f \in Failures, Recently(f)', latched' # None, latched' # f
               PROVE  /\ ~Coming(f)' /\ ~(held' /\ f = "LocalDiskFull")
                      /\ loop' # "assessing" => saved'.notified.reason = latched'
    BY DEF NoneBehind
  <2>1. Recently(f) /\ latched' = latched
    BY <1>2
  <2>2. /\ ~Coming(f) /\ ~(held /\ f = "LocalDiskFull")
        /\ loop # "assessing" => saved.notified.reason = latched
    BY <2>1 DEF WarnInv, NoneBehind
  <2>3. ~Coming(f)'
    BY <1>3, <2>2
  <2>4. ~(held' /\ f = "LocalDiskFull")
    BY <2>2
  <2>5. loop' # "assessing" => loop # "assessing"
    BY <2>1
  <2> QED
    BY <2>1, <2>2, <2>3, <2>4, <2>5
<1> QED
  BY <1>4, <1>5, <1>6, <1>7, <1>8 DEF WarnInv

LEMMA WarnJobEnds ==
  ASSUME TypeOK, OneAtATime, WarnInv, NEW kind \in Kind, NEW outcome \in Outcome, JobEnds(kind, outcome)
  PROVE  WarnInv'
<1>1. PICK u \in [kind: Kind, outcome: Outcome] :
        u.kind = kind /\ u.outcome = outcome /\ Updates' \subseteq Updates \cup {u}
  BY UpdatesGrow
<1>2. /\ UNCHANGED <<now, latched, held, saved, loop, warned>>
      /\ InTurn(outcome)
  BY DEF JobEnds, facts
<1>3. CASE Stops(outcome) \notin HealthFailure
  <2>1. ASSUME NEW f \in HealthFailure, Coming(f)' PROVE Coming(f)
    <3>1. PICK v \in Updates' : Stops(v.outcome) = f
      BY <2>1 DEF Coming
    <3>2. v # u
      BY <1>1, <1>3, <3>1
    <3> QED
      BY <1>1, <3>1, <3>2 DEF Coming
  <2>2. Failures \subseteq HealthFailure
    OBVIOUS
  <2>3. \A f \in Failures : Recently(f)' <=> Recently(f)
    BY <1>2 DEF Recently
  <2>4. OneComes'
    BY <2>1 DEF WarnInv, OneComes
  <2>5. HeldAlone'
    BY <1>2, <2>1 DEF WarnInv, HeldAlone
  <2>6. WarnedLast'
    BY <1>2 DEF WarnInv, WarnedLast
  <2>7. ToldIfPending'
    <3> SUFFICES ASSUME NEW f \in Failures, Recently(f)', Pending(f)'
                 PROVE  saved'.notified.reason = f
      BY DEF ToldIfPending
    <3>1. Recently(f)
      BY <2>3
    <3>2. Pending(f)
      BY <1>2, <2>1, <2>2 DEF Pending
    <3> QED
      BY <1>2, <3>1, <3>2 DEF WarnInv, ToldIfPending
  <2>8. NoneBehind'
    <3> SUFFICES ASSUME NEW f \in Failures, Recently(f)', latched' # None, latched' # f
                 PROVE  /\ ~Coming(f)' /\ ~(held' /\ f = "LocalDiskFull")
                        /\ loop' # "assessing" => saved'.notified.reason = latched'
      BY DEF NoneBehind
    <3>1. /\ ~Coming(f) /\ ~(held /\ f = "LocalDiskFull")
          /\ loop # "assessing" => saved.notified.reason = latched
      BY <1>2, <2>3 DEF WarnInv, NoneBehind
    <3>2. ~Coming(f)'
      BY ZenonT(60), <2>1, <2>2, <3>1
    <3> QED
      BY <1>2, <3>1, <3>2
  <2> QED
    BY <2>4, <2>5, <2>6, <2>7, <2>8 DEF WarnInv
<1>4. CASE Stops(outcome) \in HealthFailure
  <2>1. ASSUME NEW f \in HealthFailure, Coming(f)' PROVE f = Stops(outcome)
    <3>1. PICK v \in Updates' : Stops(v.outcome) = f
      BY <2>1 DEF Coming
    <3>2. CASE v = u
      BY <1>1, <3>1, <3>2
    <3>3. CASE v # u
      <4>1. v \in Updates
        BY <1>1, <3>3
      <4> QED
        BY <1>2, <1>4, <3>1, <4>1, InTurnMeans
    <3> QED
      BY <3>2, <3>3
  <2>2. ASSUME NEW f \in Failures, Recently(f)'
        PROVE  f = Stops(outcome) /\ saved.notified.reason = f
    <3>1. Recently(f)
      BY <1>2, <2>2 DEF Recently
    <3> QED
      BY <1>2, <1>4, <3>1, NothingElseRecent DEF WarnInv
  <2>3. OneComes'
    BY <2>1 DEF OneComes
  <2>4. HeldAlone'
    <3>1. held => Stops(outcome) = "LocalDiskFull"
      BY <1>2, <1>4, InTurnMeans
    <3> QED
      BY <1>2, <2>1, <3>1 DEF HeldAlone
  <2>5. WarnedLast'
    BY <1>2 DEF WarnInv, WarnedLast
  <2>6. ToldIfPending'
    BY <1>2, <2>2 DEF ToldIfPending
  <2>7. NoneBehind'
    <3> SUFFICES ASSUME NEW f \in Failures, Recently(f)', latched' # None, latched' # f PROVE FALSE
      BY DEF NoneBehind
    <3>1. f = Stops(outcome) /\ saved.notified.reason = f
      BY <2>2
    <3>2. latched \in HealthFailure /\ latched # f
      BY <1>2, NoticeTypes
    <3>3. loop # "assessing"
      BY <1>2, <1>4, <3>1, <3>2, InTurnMeans
    <3>4. Recently(f)
      BY <1>2 DEF Recently
    <3>5. saved.notified.reason = latched
      BY <1>2, <3>3, <3>4 DEF WarnInv, NoneBehind
    <3> QED
      BY <3>1, <3>2, <3>5
  <2> QED
    BY <2>3, <2>4, <2>5, <2>6, <2>7 DEF WarnInv
<1> QED
  BY <1>3, <1>4

LEMMA WarnLoopHears ==
  ASSUME TypeOK, OneAtATime, WarnInv, LoopHears
  PROVE  WarnInv'
<1> DEFINE kind == Head(channel).kind
           outcome == Head(channel).outcome
<1>1. /\ channel # <<>> /\ channel' = Tail(channel)
      /\ latched' = After(latched, kind, outcome)
      /\ held' = CASE kind = "Offline" /\ outcome \in {"completed", "held"} -> outcome = "held"
                   [] kind = "Backup" /\ outcome = "completed" -> FALSE
                   [] OTHER -> held
      /\ UNCHANGED <<now, saved, warned>>
      /\ loop' = "assessing" \/ (kind = "Backup" /\ outcome = "completed")
  BY DEF LoopHears, disk, remembered
<1>2. /\ Head(channel) \in Updates /\ Updates' \subseteq Updates
      /\ kind \in Kind /\ outcome \in Outcome
  BY <1>1, UpdatesShrink
<1> HIDE DEF kind
<1>3. latched \in HealthFailure \cup {None} /\ held \in BOOLEAN
  BY NoticeTypes
<1>4. ASSUME NEW f, Coming(f)' PROVE Coming(f)
  BY <1>2, <1>4 DEF Coming
<1>5. Coming(Stops(outcome))
  BY <1>2 DEF Coming
<1> HIDE DEF outcome
<1>6. \/ outcome \in HealthFailure /\ latched' = outcome /\ Stops(outcome) = outcome /\ held' = held
      \/ outcome = "completed" /\ latched' \in {latched, None} /\ held' \in {held, FALSE}
         /\ (kind = "Backup" => latched' = None)
      \/ outcome = "held" /\ latched' = latched /\ Stops(outcome) = "LocalDiskFull"
         /\ held' \in {held, TRUE}
      \/ outcome = "unexplained" /\ latched' = latched /\ held' = held
  <2>1. CASE outcome \in HealthFailure
    <3>1. outcome \notin {"completed", "held"}
      BY <2>1
    <3> QED
      BY <1>1, <2>1, <3>1, StopsIs, <1>2 DEF After
  <2>2. CASE outcome = "completed"
    <3>1. outcome \notin HealthFailure /\ outcome # "held"
      BY <2>2
    <3>2. latched' = IF latched # None /\ Proves(kind, latched) THEN None ELSE latched
      BY <1>1, <2>2, <3>1 DEF After
    <3>3. kind = "Backup" => latched' = None
      BY <3>2 DEF Proves
    <3>4. held' \in {held, FALSE}
      BY <1>1, <2>2, <3>1
    <3> QED
      BY <2>2, <3>2, <3>3, <3>4
  <2>3. CASE outcome = "held"
    <3>1. outcome \notin HealthFailure /\ outcome # "completed"
      BY <2>3
    <3>2. latched' = latched
      BY <1>1, <3>1 DEF After
    <3>3. held' \in {held, TRUE}
      BY <1>1, <2>3, <3>1
    <3> QED
      BY <1>2, <2>3, <3>2, <3>3, StopsIs
  <2>4. CASE outcome = "unexplained"
    <3>1. outcome \notin HealthFailure /\ outcome \notin {"completed", "held"}
      BY <2>4
    <3> QED
      BY <1>1, <2>4, <3>1 DEF After
  <2> QED
    BY <1>2, <2>1, <2>2, <2>3, <2>4
<1>7. CASE (outcome = "completed" /\ latched' \in {latched, None} /\ held' \in {held, FALSE}
            /\ (kind = "Backup" => latched' = None))
           \/ (outcome = "unexplained" /\ latched' = latched /\ held' = held)
  <2>1. latched' = latched /\ latched # None => loop' \in {loop, "assessing"} \/ loop = "looked"
    BY <1>1, <1>7
  <2>2. now' \in Nat /\ now' >= now
    BY SMTT(30), <1>1, NoticeTypes
  <2>3. latched' \in {latched, None} /\ held' \in {held, FALSE}
    BY <1>7
  <2>4. warned' = warned /\ saved'.notified = saved.notified
    BY <1>1
  <2> QED
    BY <1>2, <2>1, <2>2, <2>3, <2>4, WarnKeeps
<1>8. CASE (outcome \in HealthFailure /\ latched' = outcome /\ Stops(outcome) = outcome /\ held' = held)
           \/ (outcome = "held" /\ latched' = latched /\ Stops(outcome) = "LocalDiskFull"
               /\ held' \in {held, TRUE})
  <2>0. Stops(outcome) \in HealthFailure /\ loop' = "assessing" /\ Failures \subseteq HealthFailure
    BY <1>1, <1>8
  <2>1. ASSUME NEW f \in HealthFailure, Coming(f) PROVE f = Stops(outcome)
    BY <1>5, <2>0, <2>1 DEF WarnInv, OneComes
  <2>2. \A f \in Failures : Recently(f)' <=> Recently(f)
    BY <1>1 DEF Recently
  <2>3. OneComes'
    BY <1>4 DEF WarnInv, OneComes
  <2>4. HeldAlone'
    <3> SUFFICES ASSUME held', NEW f \in HealthFailure, Coming(f)' PROVE f = "LocalDiskFull"
      BY DEF HeldAlone
    <3>1. f = Stops(outcome)
      BY <1>4, <2>1
    <3>2. CASE held
      BY <1>4, <3>2 DEF WarnInv, HeldAlone
    <3>3. CASE ~held
      BY <1>8, <3>1, <3>3
    <3> QED
      BY <3>2, <3>3
  <2>5. WarnedLast'
    BY <1>1 DEF WarnInv, WarnedLast
  <2>6. ASSUME NEW f \in Failures, Recently(f)', Pending(f)' PROVE Pending(f)
    <3>1. CASE latched' = f
      BY <1>5, <1>8, <3>1 DEF Pending
    <3>2. CASE held' /\ f = "LocalDiskFull"
      BY <1>5, <1>8, <3>2 DEF Pending
    <3>3. CASE Coming(f)'
      BY <1>4, <3>3 DEF Pending
    <3> QED
      BY <2>6, <3>1, <3>2, <3>3 DEF Pending
  <2>7. ToldIfPending'
    BY <1>1, <2>2, <2>6 DEF WarnInv, ToldIfPending
  <2>8. NoneBehind'
    <3> SUFFICES ASSUME NEW f \in Failures, Recently(f)', latched' # None, latched' # f
                 PROVE  ~Coming(f)' /\ ~(held' /\ f = "LocalDiskFull")
      BY <2>0 DEF NoneBehind
    <3>1. CASE outcome \in HealthFailure /\ latched' = outcome /\ Stops(outcome) = outcome /\ held' = held
      <4>1. ~Coming(f)'
        BY <1>4, <2>0, <2>1, <3>1
      <4>2. ~(held' /\ f = "LocalDiskFull")
        BY <1>5, <2>0, <3>1 DEF WarnInv, HeldAlone
      <4> QED
        BY <4>1, <4>2
    <3>2. CASE outcome = "held" /\ latched' = latched /\ Stops(outcome) = "LocalDiskFull"
      <4>1. ~Coming(f)
        BY <2>2, <3>2 DEF WarnInv, NoneBehind
      <4> QED
        BY <1>4, <1>5, <3>2, <4>1
    <3> QED
      BY <1>8, <3>1, <3>2
  <2> QED
    BY <2>3, <2>4, <2>5, <2>7, <2>8 DEF WarnInv
<1> QED
  BY <1>6, <1>7, <1>8

LEMMA BlockingIs ==
  ASSUME TypeOK, NEW f \in HealthFailure, Blocking = f
  PROVE  latched = f \/ (latched = None /\ held /\ f = "LocalDiskFull")
BY NoticeTypes DEF Blocking

(* What a look tells of, and what the tellings become by it. *)
LEMMA LookTells ==
  ASSUME TypeOK, LoopAssesses
  PROVE  /\ UNCHANGED <<now, latched, held, last, dated, channel, kept>> /\ loop' = "looked"
         /\ saved'.since = saved.since /\ saved'.notified \in Notified
         /\ \/ /\ Blocking \in HealthFailure
               /\ BrokenIsDue(saved.notified, Blocking)
               /\ saved'.notified.reason = Blocking /\ saved'.notified.brokenAt = now
               /\ saved'.notified.since = saved.notified.since
               /\ saved'.notified.count = saved.notified.count
               /\ saved'.notified.at = saved.notified.at
               /\ warned' = IF Blocking \in Failures THEN [warned EXCEPT ![Blocking] = now] ELSE warned
               /\ risk' = risk
            \/ /\ Blocking = None /\ IsStale /\ RiskIsDue(saved.notified, ProtectedUntil)
               /\ saved'.notified.reason = saved.notified.reason
               /\ saved'.notified.brokenAt = saved.notified.brokenAt
               /\ saved'.notified.since = ProtectedUntil /\ saved'.notified.at = now
               /\ saved'.notified.count = (IF saved.notified.since = ProtectedUntil
                                           THEN saved.notified.count + 1 ELSE 1)
               /\ warned' = warned
               /\ risk' = IF channel = <<>>
                          THEN [count |-> (IF risk.of = kept THEN risk.count ELSE 0) + 1, at |-> now, of |-> kept]
                          ELSE risk
            \/ /\ Blocking = None \/ ~BrokenIsDue(saved.notified, Blocking)
               /\ saved' = saved /\ warned' = warned /\ risk' = risk
<1> DEFINE h == Evaluate
           told == saved.notified
           begun == ProtectedUntil
           tells == \/ h.state = "AT_RISK" /\ RiskIsDue(told, begun)
                    \/ h.state = "BROKEN" /\ BrokenIsDue(told, h.reason)
           count == IF told.since = begun THEN told.count + 1 ELSE 1
           risky == [told EXCEPT !.since = begun, !.at = now, !.count = count]
           broken == [told EXCEPT !.reason = h.reason, !.brokenAt = now]
<1>0. /\ UNCHANGED <<now, latched, held, last, dated, channel, kept>> /\ loop' = "looked"
  BY DEF LoopAssesses, facts
<1>1. /\ saved' = IF tells THEN [saved EXCEPT !.notified = IF h.state = "AT_RISK" THEN risky ELSE broken]
                  ELSE saved
      /\ warned' = IF tells /\ h.state = "BROKEN" /\ h.reason \in Failures
                   THEN [warned EXCEPT ![h.reason] = now] ELSE warned
      /\ risk' = IF tells /\ h.state = "AT_RISK" /\ channel = <<>>
                 THEN [count |-> (IF risk.of = kept THEN risk.count ELSE 0) + 1, at |-> now, of |-> kept]
                 ELSE risk
  BY Zenon DEF LoopAssesses
<1>2. Blocking \in HealthFailure \cup {None}
  BY BlockingType
<1>3. h.state = "BROKEN" <=> Blocking # None
  BY <1>2 DEF Evaluate
<1>4. h.state = "BROKEN" => h.reason = Blocking
  BY <1>2 DEF Evaluate
<1>5. h.state = "AT_RISK" => Blocking = None /\ IsStale
  BY <1>2 DEF Evaluate
<1>6. /\ saved \in [pause: Until, since: 0 .. now, notified: Notified] /\ told \in Notified
      /\ told.count \in Nat /\ now \in Until
  <2>1. now \in Until
    BY DEF TypeOK
  <2> QED
    BY <2>1, NoticeTypes
<1> HIDE DEF h, told, begun, tells
<1>7. CASE tells /\ h.state = "BROKEN"
  <2>1. h.reason = Blocking /\ Blocking \in HealthFailure /\ BrokenIsDue(told, Blocking)
    BY <1>2, <1>3, <1>4, <1>7 DEF tells
  <2>2. saved' = [saved EXCEPT !.notified = broken]
    BY <1>1, <1>7
  <2>3. /\ broken \in Notified /\ broken.since = told.since /\ broken.at = told.at
        /\ broken.count = told.count /\ broken.reason = Blocking /\ broken.brokenAt = now
    BY <1>6, <2>1 DEF Notified
  <2> HIDE DEF broken
  <2>4. saved'.since = saved.since /\ saved'.notified = broken
    BY <1>6, <2>2
  <2>5. /\ warned' = IF Blocking \in Failures THEN [warned EXCEPT ![Blocking] = now] ELSE warned
        /\ risk' = risk
    BY <1>1, <1>7, <2>1
  <2> QED
    BY <1>0, <2>1, <2>3, <2>4, <2>5 DEF told
<1>8. CASE tells /\ h.state # "BROKEN"
  <2>1. h.state = "AT_RISK" /\ Blocking = None /\ IsStale /\ RiskIsDue(told, begun)
    BY <1>5, <1>8 DEF tells
  <2>2. saved' = [saved EXCEPT !.notified = risky]
    BY <1>1, <1>8, <2>1
  <2>0. begun \in Until /\ count \in Nat
    <3>1. begun \in 0 .. now
      BY <2>1, StaleSince DEF begun
    <3> QED
      BY <1>6, <3>1
  <2> HIDE DEF count
  <2>3. /\ risky \in Notified /\ risky.since = begun /\ risky.at = now /\ risky.count = count
        /\ risky.reason = told.reason /\ risky.brokenAt = told.brokenAt
    BY <1>6, <2>0 DEF Notified
  <2> HIDE DEF risky
  <2>4. saved'.since = saved.since /\ saved'.notified = risky
    BY <1>6, <2>2
  <2>5. warned' = warned
    BY <1>1, <1>8
  <2>6. risk' = IF channel = <<>>
                THEN [count |-> (IF risk.of = kept THEN risk.count ELSE 0) + 1, at |-> now, of |-> kept]
                ELSE risk
    BY <1>1, <1>8, <2>1
  <2> QED
    BY <1>0, <2>1, <2>3, <2>4, <2>5, <2>6 DEF told, begun, count
<1>9. CASE ~tells
  <2>1. Blocking = None \/ ~BrokenIsDue(told, Blocking)
    BY <1>3, <1>4, <1>9 DEF tells
  <2>2. saved' = saved /\ warned' = warned /\ risk' = risk
    BY <1>1, <1>9
  <2> QED
    BY <1>0, <1>6, <2>1, <2>2 DEF told
<1> QED
  BY <1>7, <1>8, <1>9

LEMMA WarnLoopAssesses ==
  ASSUME TypeOK, WarnInv, LoopAssesses
  PROVE  /\ WarnInv'
         /\ \A f \in Failures : warned'[f] # warned[f] /\ warned[f] # Never
                                  => warned'[f] - warned[f] >= BrokenRepeat
<1> DEFINE b == Blocking
           told == saved.notified
           then == saved'.notified
<1>1. /\ UNCHANGED <<now, latched, held, channel>> /\ loop' = "looked"
      /\ \/ /\ b \in HealthFailure /\ BrokenIsDue(told, b) /\ then.reason = b /\ then.brokenAt = now
            /\ warned' = IF b \in Failures THEN [warned EXCEPT ![b] = now] ELSE warned
         \/ /\ b = None \/ ~BrokenIsDue(told, b)
            /\ then.reason = told.reason /\ then.brokenAt = told.brokenAt /\ warned' = warned
  <2>1. b = None => b \notin HealthFailure
    OBVIOUS
  <2> QED
    BY LookTells
<1>2. /\ now \in Nat /\ now >= 1 /\ BrokenRepeat \in Nat \ {0} /\ Failures \subseteq HealthFailure
      /\ \A f \in Failures : warned[f] \in Nat
      /\ warned \in [Failures -> Until] /\ told.brokenAt \in Nat /\ told.brokenAt <= now
      /\ latched \in HealthFailure \cup {None} /\ held \in BOOLEAN
  BY NoticeTypes
<1>b. b \in HealthFailure \cup {None}
  BY BlockingType
<1>c. b \in HealthFailure => latched = b \/ (latched = None /\ held /\ b = "LocalDiskFull")
  BY BlockingIs
<1>l. latched # None => b = latched
  BY DEF Blocking
<1> HIDE DEF b, then, told
<1>3. \A f : Coming(f)' <=> Coming(f)
  BY <1>1 DEF Coming, Updates
<1>4. ASSUME NEW f \in Failures, f # b PROVE warned'[f] = warned[f]
  BY <1>1, <1>2, <1>4
<1>5. ASSUME NEW f \in Failures, f # b, Recently(f)' PROVE Recently(f)
  BY <1>1, <1>4, <1>5 DEF Recently
<1>6. OneComes' /\ HeldAlone'
  BY <1>1, <1>3 DEF WarnInv, OneComes, HeldAlone
<1>7. WarnedLast'
  <2>1. CASE b \in HealthFailure /\ then.reason = b /\ then.brokenAt = now
             /\ warned' = IF b \in Failures THEN [warned EXCEPT ![b] = now] ELSE warned
    <3>1. ASSUME NEW f \in Failures, warned'[f] # Never PROVE warned'[f] <= now
      <4>1. CASE f = b
        <5>1. warned'[f] = now
          BY <1>2, <2>1, <4>1
        <5> QED
          BY <1>2, <5>1
      <4>2. CASE f # b
        <5>1. warned'[f] = warned[f] /\ warned[f] <= told.brokenAt
          BY <1>4, <3>1, <4>2 DEF WarnInv, WarnedLast, told
        <5> QED
          BY <1>2, <5>1
      <4> QED
        BY <4>1, <4>2
    <3>2. ASSUME NEW f \in Failures, then.reason = f PROVE warned'[f] = now /\ now # Never
      BY <1>2, <2>1, <3>2
    <3> QED
      BY <2>1, <3>1, <3>2 DEF WarnedLast, then
  <2>2. CASE then.reason = told.reason /\ then.brokenAt = told.brokenAt /\ warned' = warned
    BY <2>2 DEF WarnInv, WarnedLast, then, told
  <2> QED
    BY <1>1, <2>1, <2>2
<1>8. ToldIfPending'
  <2> SUFFICES ASSUME NEW f \in Failures, Recently(f)', Pending(f)' PROVE then.reason = f
    BY DEF ToldIfPending, then
  <2>0. Pending(f)
    BY <1>1, <1>3 DEF Pending
  <2>1. CASE b \in HealthFailure /\ then.reason = b
    <3>1. CASE f = b
      BY <2>1, <3>1
    <3>2. CASE f # b
      <4>1. Recently(f)
        BY <1>5, <3>2
      <4>2. CASE latched # None
        <5>1. latched # f
          BY <1>l, <3>2, <4>2
        <5>2. ~Coming(f) /\ ~(held /\ f = "LocalDiskFull")
          BY <4>1, <4>2, <5>1 DEF WarnInv, NoneBehind
        <5> QED
          BY <2>0, <5>1, <5>2 DEF Pending
      <4>3. CASE latched = None
        <5>1. held /\ b = "LocalDiskFull" /\ f # None
          BY <1>2, <1>c, <2>1, <4>3
        <5>2. ~Coming(f)
          BY <1>2, <3>2, <5>1 DEF WarnInv, HeldAlone
        <5> QED
          BY <2>0, <3>2, <4>3, <5>1, <5>2 DEF Pending
      <4> QED
        BY <4>2, <4>3
    <3> QED
      BY <3>1, <3>2
  <2>2. CASE then.reason = told.reason /\ warned' = warned
    <3>1. Recently(f)
      BY <1>1, <2>2 DEF Recently
    <3> QED
      BY <2>0, <2>2, <3>1 DEF WarnInv, ToldIfPending, told
  <2> QED
    BY <1>1, <2>1, <2>2
<1>9. NoneBehind'
  <2> SUFFICES ASSUME NEW f \in Failures, Recently(f)', latched' # None, latched' # f
               PROVE  ~Coming(f)' /\ ~(held' /\ f = "LocalDiskFull") /\ then.reason = latched
    BY <1>1 DEF NoneBehind, then
  <2>1. f # b /\ b = latched /\ latched # None /\ latched \in HealthFailure
    BY <1>1, <1>2, <1>l
  <2>2. Recently(f)
    BY <1>5, <2>1
  <2>3. ~Coming(f) /\ ~(held /\ f = "LocalDiskFull")
    BY <2>1, <2>2 DEF WarnInv, NoneBehind
  <2>4. then.reason = latched
    <3>1. CASE then.reason = b
      BY <2>1, <3>1
    <3>2. CASE then.reason = told.reason /\ ~BrokenIsDue(told, b)
      BY <2>1, <3>2 DEF BrokenIsDue
    <3> QED
      BY <1>1, <2>1, <3>1, <3>2
  <2> QED
    BY <1>1, <1>3, <2>3, <2>4
<1>10. ASSUME NEW f \in Failures, warned'[f] # warned[f], warned[f] # Never
       PROVE  warned'[f] - warned[f] >= BrokenRepeat
  <2>1. f = b /\ BrokenIsDue(told, b) /\ b \in HealthFailure
    BY <1>1, <1>4, <1>10
  <2>2. warned' = [warned EXCEPT ![f] = now]
    BY <1>1, <1>10, <2>1
  <2>3. warned'[f] = now /\ warned[f] \in Nat
    BY <1>2, <2>2
  <2>4. ~Recently(f)
    <3> SUFFICES ASSUME Recently(f) PROVE FALSE
      OBVIOUS
    <3>1. Pending(f)
      BY <1>c, <2>1 DEF Pending
    <3>2. told.reason = f
      BY <3>1 DEF WarnInv, ToldIfPending, told
    <3>3. warned[f] = told.brokenAt /\ warned[f] # Never
      BY <3>2 DEF WarnInv, WarnedLast, told
    <3> QED
      BY <2>1, <3>2, <3>3 DEF BrokenIsDue, Recently
  <2> QED
    BY <1>2, <1>10, <2>3, <2>4 DEF Recently
<1> QED
  BY <1>6, <1>7, <1>8, <1>9, <1>10 DEF WarnInv

LEMMA WarnEngineLost ==
  ASSUME TypeOK, OneAtATime, WarnInv, EngineConnects(FALSE)
  PROVE  WarnInv'
<1>1. /\ InTurn("BorgMissing") /\ latched' = "BorgMissing"
      /\ UNCHANGED <<now, held, saved, channel, loop, warned>>
  BY DEF EngineConnects, disk
<1>2. Stops("BorgMissing") = "BorgMissing" /\ "BorgMissing" \in HealthFailure
  BY DEF Stops
<1>3. ASSUME NEW f \in Failures, Recently(f)'
      PROVE  f = "BorgMissing" /\ saved.notified.reason = f
  <2>1. Recently(f)
    BY <1>1, <1>3 DEF Recently
  <2> QED
    BY <1>1, <1>2, <2>1, NothingElseRecent DEF WarnInv
<1>4. \A f : Coming(f)' <=> Coming(f)
  BY <1>1 DEF Coming, Updates
<1>5. OneComes' /\ HeldAlone'
  BY <1>1, <1>4 DEF WarnInv, OneComes, HeldAlone
<1>6. WarnedLast'
  BY <1>1 DEF WarnInv, WarnedLast
<1>7. ToldIfPending'
  BY <1>1, <1>3 DEF ToldIfPending
<1>8. NoneBehind'
  BY <1>1, <1>3 DEF NoneBehind
<1> QED
  BY <1>5, <1>6, <1>7, <1>8 DEF WarnInv

LEMMA WarnStep ==
  ASSUME TypeOK, OneAtATime, WarnInv, [Next]_vars
  PROVE  WarnInv'
<1>0. /\ saved \in [pause: Until, since: 0 .. now, notified: Notified] /\ now \in Nat
      /\ latched \in HealthFailure \cup {None} /\ held \in BOOLEAN
  BY NoticeTypes
<1>1. ASSUME NEW kind \in Kind, NEW outcome \in Outcome, JobEnds(kind, outcome) PROVE WarnInv'
  BY <1>1, WarnJobEnds
<1>2. CASE LoopHears
  BY <1>2, WarnLoopHears
<1>3. CASE LoopAssesses
  BY <1>3, WarnLoopAssesses
<1>4. ASSUME NEW found \in BOOLEAN, EngineConnects(found) PROVE WarnInv'
  <2>1. CASE found = FALSE
    BY <1>4, <2>1, WarnEngineLost
  <2>2. CASE found = TRUE
    <3>1. /\ UNCHANGED <<now, held, saved, channel, loop, warned>> /\ latched' \in {latched, None}
      BY <1>4, <2>2 DEF EngineConnects, Resolved, disk
    <3>2. Updates' \subseteq Updates
      BY <3>1 DEF Updates
    <3> QED
      BY <1>0, <3>1, <3>2, WarnKeeps
  <2> QED
    BY <2>1, <2>2
<1>k. ASSUME now' \in Nat, now' >= now, channel' = channel \/ channel' = <<>>,
             latched' \in {latched, None}, held' \in {held, FALSE}, warned' = warned,
             saved'.notified = saved.notified,
             latched' = None \/ loop' \in {loop, "assessing"} \/ loop = "looked"
      PROVE  WarnInv'
  <2>1. Updates' \subseteq Updates
    BY <1>k DEF Updates
  <2>2. latched' = latched /\ latched # None => loop' \in {loop, "assessing"} \/ loop = "looked"
    BY <1>k
  <2> QED
    BY <1>k, <2>1, <2>2, WarnKeeps
<1>5. CASE LoopLags \/ LoopMarks \/ LoopWakes \/ LoopTicks
  <2>1. /\ UNCHANGED <<now, channel, held, warned, saved>> /\ latched' \in {latched, None}
        /\ loop' \in {loop, "assessing"}
    BY <1>5 DEF LoopLags, LoopMarks, LoopWakes, LoopTicks, facts, disk, remembered
  <2> QED
    BY <1>0, <1>k, <2>1
<1>6. CASE \/ \E n \in telling : NoticeReads(n) \/ NoticeShows(n)
           \/ DestinationMoves \/ NetMoves \/ AttentionMoves \/ KeyringMoves
           \/ \E c \in Callers : Resumes(c) \/ \E until \in Until : Pauses(c, until)
           \/ UNCHANGED vars
  <2>1. UNCHANGED <<now, channel, latched, held, warned, saved, loop>>
    BY <1>6 DEF NoticeReads, NoticeShows, DestinationMoves, NetMoves, AttentionMoves,
        KeyringMoves,
         Resumes, Pauses, CallBegins, vars, facts, disk, listening, remembered
  <2> QED
    BY SMTT(30), <1>0, <1>k, <2>1
<1>7. CASE PassphraseIsGiven \/ DestinationIsNew
  <2>1. UNCHANGED <<now, channel, held, warned, loop>> /\ latched' \in {latched, None}
    BY <1>7 DEF PassphraseIsGiven, DestinationIsNew, Resolved
  <2>2. saved'.notified = saved.notified
    BY SMTT(30), <1>0, <1>7 DEF PassphraseIsGiven, DestinationIsNew, disk
  <2> QED
    BY <1>0, <1>k, <2>1, <2>2
<1>8. ASSUME NEW c \in Callers, CallEnds(c) PROVE WarnInv'
  <2>1. UNCHANGED <<now, channel, latched, held, warned, loop>>
        /\ saved' = [saved EXCEPT !.pause = Saves(c)]
    BY <1>8 DEF CallEnds, facts, remembered
  <2>2. saved'.notified = saved.notified
    BY <1>0, <2>1
  <2> QED
    BY <1>0, <1>k, <2>1, <2>2
<1>9. CASE TimePasses
  <2>1. UNCHANGED <<channel, latched, held, warned, saved>> /\ now' = now + 1 /\ loop = "looked"
    BY <1>9 DEF TimePasses, Settled, facts, disk, remembered
  <2> QED
    BY <1>0, <1>k, <2>1
<1>10. ASSUME NEW at \in Times, Restarts(at) PROVE WarnInv'
  <2>1. /\ channel' = <<>> /\ latched' = None /\ held' = FALSE /\ saved' = saved /\ warned' = warned
        /\ now' = at /\ at \in now .. LastTime
    BY <1>10 DEF Restarts, Loads, remembered
  <2>2. now' \in Nat /\ now' >= now
    <3>1. LastTime \in Nat
      BY SMTT(30)
    <3> QED
      BY <1>0, <2>1, <3>1
  <2> QED
    BY <1>k, <2>1, <2>2
<1> QED
  BY <1>1, <1>2, <1>3, <1>4, <1>5, <1>6, <1>7, <1>8, <1>9, <1>10 DEF Next

(* Only a look tells. *)
LEMMA OnlyLooksTell ==
  ASSUME [Next]_vars, ~LoopAssesses
  PROVE  UNCHANGED <<warned, risk>>
BY DEF Next, JobEnds, LoopHears, LoopLags, LoopMarks, LoopWakes, LoopTicks, NoticeReads,
    NoticeShows,
  DestinationMoves, NetMoves, AttentionMoves, KeyringMoves, PassphraseIsGiven, DestinationIsNew,
  EngineConnects, Resumes, Pauses, CallBegins, CallEnds, TimePasses, Restarts, vars, remembered
-----------------------------------------------------------------------------
LEMMA RiskInit == Init => RiskInv
<1> SUFFICES ASSUME Init PROVE RiskInv
  OBVIOUS
<1>1. /\ channel = <<>> /\ now = 1 /\ last = 1 /\ dated = 1 /\ kept = 1
      /\ saved = [pause |-> Never, since |-> 1, notified |-> NotNotified]
      /\ risk = [count |-> 0, at |-> Never, of |-> Never]
  BY DEF Init
<1>2. Updates = {}
  BY <1>1 DEF Updates
<1>3. saved.since = 1 /\ saved.notified.since = Never /\ risk.at = Never /\ risk.of = Never
  BY <1>1 DEF NotNotified
<1> QED
  BY <1>1, <1>2, <1>3 DEF RiskInv, Dated, ToldInOrder, RiskIs, Later

(* When there last was protection, as the daemon has it. *)
LEMMA KeptIsBegun ==
  ASSUME TypeOK, Dated, \A u \in Updates : ~Success(u)
  PROVE  ProtectedUntil = kept
BY DEF Dated, ProtectedUntil, Later

(* What brings no update and tells of nothing keeps all of it. *)
LEMMA RiskKeeps ==
  ASSUME TypeOK, RiskInv, now' \in Nat, now' = now \/ (now' >= now /\ channel = <<>>),
         channel' \in {channel, <<>>}, dated' = dated,
         \/ last' = last /\ channel' = channel
         \/ last' = dated /\ channel' = <<>>,
         kept' = kept, saved'.since = saved.since, saved'.notified = saved.notified, risk' = risk
  PROVE  RiskInv'
<1>0. now \in Nat /\ risk.at \in Nat /\ risk.of \in Nat
  BY NoticeTypes
<1>1. Updates' \subseteq Updates
  BY DEF Updates
<1>2. channel' = channel => Updates' = Updates
  BY DEF Updates
<1>3. channel' = <<>> => Updates' = {}
  BY DEF Updates
<1>4. Dated'
  <2>1. ASSUME \E u \in Updates' : Success(u) PROVE dated' = now'
    <3>1. channel' = channel /\ channel # <<>>
      BY <1>3, <2>1
    <3> QED
      BY <1>2, <2>1, <3>1 DEF RiskInv, Dated
  <2>2. ASSUME \A u \in Updates' : ~Success(u) PROVE last' = dated'
    BY <1>2, <2>2 DEF RiskInv, Dated
  <2>3. kept' = Later(dated, saved.since)' /\ kept' # Never
    BY DEF RiskInv, Dated, Later
  <2> QED
    BY <2>1, <2>2, <2>3 DEF Dated
<1>5. ToldInOrder'
  BY DEF RiskInv, ToldInOrder
<1>6. RiskIs'
  BY <1>0 DEF RiskInv, RiskIs
<1> QED
  BY <1>4, <1>5, <1>6 DEF RiskInv

LEMMA RiskJobEnds ==
  ASSUME TypeOK, OneAtATime, RiskInv, NEW kind \in Kind, NEW outcome \in Outcome, JobEnds(kind, outcome)
  PROVE  RiskInv'
<1>1. PICK u \in [kind: Kind, outcome: Outcome] :
        /\ u.kind = kind /\ u.outcome = outcome /\ u \in Updates'
        /\ Updates' \subseteq Updates \cup {u}
        /\ \A v \in Updates : v \in Updates' \/ v.outcome = "unexplained"
  BY UpdatesGrow
<1>2. /\ UNCHANGED <<now, last, saved, risk>>
      /\ \/ Success(u) /\ kept' = now /\ dated' = Later(dated, now)
         \/ ~Success(u) /\ UNCHANGED <<kept, dated>>
  <2>1. UNCHANGED <<now, last, saved, risk>>
    BY DEF JobEnds, facts
  <2>2. "long" \notin Circumstances
    BY Zenon DEF OneAtATime
  <2>3. IF kind \in {"Backup", "Offline"} /\ outcome = "completed"
        THEN kept' = now /\ \E at \in {now} : dated' = Later(dated, at)
        ELSE UNCHANGED <<kept, dated>>
    BY Zenon, <2>2 DEF JobEnds
  <2> QED
    BY <1>1, <2>1, <2>3 DEF Success
<1>3. /\ now \in Nat /\ now >= 1 /\ dated \in Nat /\ dated <= now /\ saved.since \in Nat
      /\ saved.since <= now /\ risk.at \in Nat /\ risk.of \in Nat
  BY NoticeTypes
<1>4. ToldInOrder'
  BY <1>2 DEF RiskInv, ToldInOrder
<1>5. CASE Success(u) /\ kept' = now /\ dated' = Later(dated, now)
  <2>1. dated' = now
    BY <1>3, <1>5 DEF Later
  <2>2. kept' = Later(dated, saved.since)' /\ kept' # Never
    BY <1>2, <1>3, <1>5, <2>1 DEF Later
  <2>3. Dated'
    BY <1>1, <1>2, <1>5, <2>1, <2>2 DEF Dated
  <2>4. RiskIs'
    BY <1>2, <1>3, <1>5 DEF RiskInv, RiskIs
  <2> QED
    BY <1>4, <2>3, <2>4 DEF RiskInv
<1>6. CASE ~Success(u) /\ UNCHANGED <<kept, dated>>
  <2>1. (\E v \in Updates' : Success(v)) => dated' = now'
    BY <1>1, <1>2, <1>6 DEF RiskInv, Dated
  <2>2. ASSUME \A v \in Updates' : ~Success(v) PROVE last' = dated'
    <3>1. \A v \in Updates : ~Success(v)
      BY <1>1, <2>2 DEF Success
    <3> QED
      BY <1>2, <1>6, <3>1 DEF RiskInv, Dated
  <2>3. Dated'
    BY <1>2, <1>6, <2>1, <2>2 DEF RiskInv, Dated, Later
  <2>4. RiskIs'
    BY <1>2, <1>6 DEF RiskInv, RiskIs
  <2> QED
    BY <1>4, <2>3, <2>4 DEF RiskInv
<1> QED
  BY <1>2, <1>5, <1>6

LEMMA RiskLoopHears ==
  ASSUME TypeOK, RiskInv, LoopHears
  PROVE  RiskInv'
<1>1. /\ channel # <<>> /\ channel' = Tail(channel)
      /\ last' = IF Success(Head(channel)) THEN now ELSE last
      /\ UNCHANGED <<now, saved, dated, kept, risk>>
  BY DEF LoopHears, Success, disk, remembered
<1>2. /\ Head(channel) \in Updates /\ Updates' \subseteq Updates
      /\ Updates \subseteq Updates' \cup {Head(channel)}
  BY <1>1, UpdatesShrink
<1>3. Dated'
  <2>1. (\E u \in Updates' : Success(u)) => dated' = now'
    BY <1>1, <1>2 DEF RiskInv, Dated
  <2>2. ASSUME \A u \in Updates' : ~Success(u) PROVE last' = dated'
    <3>1. CASE Success(Head(channel))
      BY <1>1, <1>2, <3>1 DEF RiskInv, Dated
    <3>2. CASE ~Success(Head(channel))
      BY <1>1, <1>2, <2>2, <3>2 DEF RiskInv, Dated
    <3> QED
      BY <3>1, <3>2
  <2> QED
    BY <1>1, <2>1, <2>2 DEF RiskInv, Dated, Later
<1>4. ToldInOrder' /\ RiskIs'
  BY <1>1 DEF RiskInv, ToldInOrder, RiskIs
<1> QED
  BY <1>3, <1>4 DEF RiskInv

(* When the second of a stretch, or a later one, is due.                   *)
LEMMA DueAgain ==
  ASSUME TypeOK, ToldInOrder, RiskIsDue(saved.notified, saved.notified.since),
         saved.notified.since # Never
  PROVE  /\ now >= saved.notified.since + AtRiskSecond
         /\ saved.notified.at >= saved.notified.since + AtRiskSecond => now >= saved.notified.at + AtRiskRepeat
<1> DEFINE told == saved.notified
<1>1. /\ now \in Nat /\ told.since \in Nat /\ told.at \in Nat /\ told.count \in Nat
      /\ AtRiskSecond \in Nat /\ AtRiskRepeat \in Nat \ {0}
  BY NoticeTypes
<1>2. told.count >= 1 /\ told.at # Never /\ (told.count >= 2 => told.at >= told.since + AtRiskSecond)
  BY DEF ToldInOrder
<1>3. now >= NextNotice(told, told.since)
  BY <1>2 DEF RiskIsDue
<1> HIDE DEF told
<1>4. CASE told.at >= told.since + AtRiskSecond
  <2>1. NextNotice(told, told.since) = told.at + AtRiskRepeat
    BY <1>1, <1>4 DEF NextNotice
  <2> QED
    BY <1>1, <1>3, <1>4, <2>1 DEF told
<1>5. CASE told.at < told.since + AtRiskSecond
  <2>1. told.count = 1
    BY <1>1, <1>2, <1>5
  <2>2. NextNotice(told, told.since) = told.since + AtRiskSecond
    BY <1>5, <2>1 DEF NextNotice
  <2> QED
    BY <1>1, <1>3, <1>5, <2>2 DEF told
<1> QED
  BY <1>1, <1>4, <1>5

LEMMA RiskLoopAssesses ==
  ASSUME TypeOK, RiskInv, LoopAssesses
  PROVE  /\ RiskInv'
         /\ risk' # risk /\ risk'.of = risk.of =>
              /\ risk'.at >= risk.of + AtRiskSecond
              /\ risk.at >= risk.of + AtRiskSecond => risk'.at - risk.at >= AtRiskRepeat
<1> DEFINE told == saved.notified
           then == saved'.notified
           begun == ProtectedUntil
<1>1. /\ UNCHANGED <<now, last, dated, channel, kept>> /\ saved'.since = saved.since
      /\ \/ /\ then.since = told.since /\ then.count = told.count /\ then.at = told.at /\ risk' = risk
         \/ /\ IsStale /\ RiskIsDue(told, begun)
            /\ then.since = begun /\ then.at = now
            /\ then.count = (IF told.since = begun THEN told.count + 1 ELSE 1)
            /\ risk' = IF channel = <<>>
                       THEN [count |-> (IF risk.of = kept THEN risk.count ELSE 0) + 1, at |-> now, of |-> kept]
                       ELSE risk
  BY LookTells
<1>2. /\ now \in Nat /\ now >= 1 /\ told.since \in Nat /\ told.at \in Nat /\ told.count \in Nat
      /\ told.at <= now /\ risk.at \in Nat /\ risk.of \in Nat /\ AtRiskSecond \in Nat
      /\ AtRiskRepeat \in Nat \ {0} /\ kept \in Nat /\ dated \in Nat /\ saved.since \in Nat
      /\ saved.since <= now
  BY NoticeTypes
<1>3. Updates' = Updates
  BY <1>1 DEF Updates
<1>4. Dated'
  BY <1>1, <1>3 DEF RiskInv, Dated, Later
<1>5. CASE then.since = told.since /\ then.count = told.count /\ then.at = told.at /\ risk' = risk
  <2>1. ToldInOrder'
    BY <1>5 DEF RiskInv, ToldInOrder
  <2>2. RiskIs'
    BY <1>1, <1>5 DEF RiskInv, RiskIs
  <2> QED
    BY <1>4, <1>5, <2>1, <2>2 DEF RiskInv
<1>6. CASE /\ IsStale /\ RiskIsDue(told, begun)
           /\ then.since = begun /\ then.at = now
           /\ then.count = (IF told.since = begun THEN told.count + 1 ELSE 1)
           /\ risk' = IF channel = <<>>
                      THEN [count |-> (IF risk.of = kept THEN risk.count ELSE 0) + 1, at |-> now, of |-> kept]
                      ELSE risk
  <2>1. begun \in Nat /\ begun < now
    BY <1>2, <1>6, StaleSince
  <2>2. begun # Never
    BY <1>6 DEF IsStale
  <2>3. told.since = begun =>
          /\ now >= begun + AtRiskSecond
          /\ told.at >= begun + AtRiskSecond => now >= told.at + AtRiskRepeat
          /\ told.count >= 1
    <3> SUFFICES ASSUME told.since = begun
                 PROVE  /\ now >= told.since + AtRiskSecond
                        /\ told.at >= told.since + AtRiskSecond => now >= told.at + AtRiskRepeat
                        /\ told.count >= 1
      OBVIOUS
    <3>1. RiskIsDue(told, told.since) /\ told.since # Never
      BY <1>6, <2>2
    <3>2. told.count >= 1
      BY <3>1 DEF RiskInv, ToldInOrder
    <3> QED
      BY <3>1, <3>2, DueAgain DEF RiskInv
  <2>4. ToldInOrder'
    <3>1. then.count >= 1 /\ then.at # Never
      BY <1>2, <1>6, <2>3
    <3>2. then.count >= 2 => then.at >= then.since + AtRiskSecond
      BY <1>2, <1>6, <2>3
    <3> QED
      BY <3>1, <3>2 DEF ToldInOrder
  <2>5. kept < now => begun = kept
    <3> SUFFICES ASSUME kept < now PROVE begun = kept
      OBVIOUS
    <3>1. dated # now
      BY <1>2 DEF RiskInv, Dated, Later
    <3> QED
      BY <3>1, KeptIsBegun DEF RiskInv, Dated
  <2>6. channel = <<>> => begun = kept
    <3> SUFFICES ASSUME channel = <<>> PROVE begun = kept
      OBVIOUS
    <3>1. Updates = {}
      BY DEF Updates
    <3> QED
      BY <3>1, KeptIsBegun DEF RiskInv
  <2>7. CASE channel = <<>>
    <3>1. risk'.at = now /\ risk'.of = kept
      BY <1>6, <2>7
    <3>2. RiskIs'
      BY <1>1, <1>2, <1>6, <2>1, <2>6, <2>7, <3>1 DEF RiskIs
    <3>3. ASSUME risk'.of = risk.of
          PROVE  /\ risk'.at >= risk.of + AtRiskSecond
                 /\ risk.at >= risk.of + AtRiskSecond => risk'.at - risk.at >= AtRiskRepeat
      <4>1. risk.of = kept /\ kept # Never
        BY <3>1, <3>3 DEF RiskInv, Dated
      <4>2. risk.at # Never /\ told.since = kept /\ risk.at <= told.at
        BY <4>1 DEF RiskInv, RiskIs
      <4> QED
        BY SMTT(30), <1>2, <2>3, <2>6, <2>7, <3>1, <4>1, <4>2
    <3> QED
      BY <1>4, <2>4, <3>2, <3>3 DEF RiskInv
  <2>8. CASE channel # <<>>
    <3>1. risk' = risk
      BY <1>6, <2>8
    <3>2. ASSUME risk.at # Never, risk.of = kept
          PROVE  then.since = kept /\ risk.at <= then.at
      <4>1. risk.of < risk.at /\ risk.at <= now
        BY <3>2 DEF RiskInv, RiskIs
      <4>2. kept < now
        BY <1>2, <3>2, <4>1
      <4> QED
        BY <1>6, <2>5, <4>1, <4>2
    <3>3. RiskIs'
      BY <1>1, <3>1, <3>2 DEF RiskInv, RiskIs
    <3> QED
      BY <1>4, <2>4, <3>1, <3>3 DEF RiskInv
  <2> QED
    BY <2>7, <2>8
<1> QED
  BY <1>1, <1>5, <1>6

LEMMA RiskStep ==
  ASSUME TypeOK, OneAtATime, RiskInv, [Next]_vars
  PROVE  RiskInv'
<1>0. /\ saved \in [pause: Until, since: 0 .. now, notified: Notified] /\ now \in Nat /\ now >= 1
      /\ dated \in Nat /\ dated <= now /\ risk.at \in Nat /\ risk.of \in Nat
  BY NoticeTypes
<1>1. ASSUME NEW kind \in Kind, NEW outcome \in Outcome, JobEnds(kind, outcome) PROVE RiskInv'
  BY <1>1, RiskJobEnds
<1>2. CASE LoopHears
  BY <1>2, RiskLoopHears
<1>3. CASE LoopAssesses
  BY <1>3, RiskLoopAssesses
<1>4. CASE DestinationIsNew
  <2>1. /\ UNCHANGED <<now, last, dated, channel, risk>> /\ kept' = now
        /\ saved' = [saved EXCEPT !.since = now]
    BY <1>4 DEF DestinationIsNew
  <2>2. saved'.since = now /\ saved'.notified = saved.notified
    BY <1>0, <2>1
  <2>3. Updates' = Updates
    BY SMTT(30), <2>1 DEF Updates
  <2>4. kept' = Later(dated, saved.since)' /\ kept' # Never
    BY SMTT(30), <1>0, <2>1, <2>2 DEF Later
  <2>5. Dated'
    BY <2>1, <2>3, <2>4 DEF RiskInv, Dated
  <2>6. ToldInOrder'
    BY <2>2 DEF RiskInv, ToldInOrder
  <2>7. RiskIs'
    BY <1>0, <2>1 DEF RiskInv, RiskIs
  <2> QED
    BY <2>5, <2>6, <2>7 DEF RiskInv
<1>5. CASE \/ LoopLags \/ LoopMarks \/ LoopWakes \/ LoopTicks
           \/ \E n \in telling : NoticeReads(n) \/ NoticeShows(n)
           \/ DestinationMoves \/ NetMoves \/ AttentionMoves \/ KeyringMoves
           \/ PassphraseIsGiven \/ \E found \in BOOLEAN : EngineConnects(found)
           \/ \E c \in Callers : Resumes(c) \/ \E until \in Until : Pauses(c, until)
           \/ UNCHANGED vars
  <2>1. UNCHANGED <<now, channel, last, dated, saved, kept, risk>>
    BY <1>5 DEF LoopLags, LoopMarks, LoopWakes, LoopTicks, NoticeReads, NoticeShows,
        DestinationMoves,
         NetMoves, AttentionMoves, KeyringMoves, PassphraseIsGiven, EngineConnects,
         Resumes, Pauses, CallBegins, vars, facts, disk, listening, remembered
  <2> QED
    BY SMTT(30), <1>0, <2>1, RiskKeeps
<1>8. ASSUME NEW c \in Callers, CallEnds(c) PROVE RiskInv'
  <2>1. UNCHANGED <<now, channel, last, dated, kept, risk>> /\ saved' = [saved EXCEPT !.pause = Saves(c)]
    BY <1>8 DEF CallEnds, facts, remembered
  <2>2. saved'.notified = saved.notified /\ saved'.since = saved.since
    BY <1>0, <2>1
  <2> QED
    BY <1>0, <2>1, <2>2, RiskKeeps
<1>9. CASE TimePasses
  <2>1. UNCHANGED <<channel, last, dated, saved, kept, risk>> /\ now' = now + 1 /\ channel = <<>>
    BY <1>9 DEF TimePasses, Settled, facts, disk, remembered
  <2> QED
    BY <1>0, <2>1, RiskKeeps
<1>10. ASSUME NEW at \in Times, Restarts(at) PROVE RiskInv'
  <2>1. /\ channel' = <<>> /\ last' = dated /\ saved' = saved
        /\ UNCHANGED <<dated, kept, risk>> /\ now' = at /\ at \in now .. LastTime
    BY <1>10 DEF Restarts, Loads, remembered
  <2>2. now' \in Nat /\ now' >= now
    <3>1. LastTime \in Nat
      BY Zenon
    <3> QED
      BY <1>0, <2>1, <3>1
  <2>3. Updates' = {}
    BY <2>1 DEF Updates
  <2>4. Dated'
    BY <2>1, <2>3 DEF RiskInv, Dated, Later
  <2>5. ToldInOrder' /\ RiskIs'
    BY <1>0, <2>1, <2>2 DEF RiskInv, ToldInOrder, RiskIs
  <2> QED
    BY <2>4, <2>5 DEF RiskInv
<1> QED
  BY <1>1, <1>2, <1>3, <1>4, <1>5, <1>8, <1>9, <1>10 DEF Next

(* The promise of the notices: as long as no update is lost, no backup is  *)
(* dated to when it began, and two failures do not alternate within the    *)
(* time one is repeated after, nobody is told of one failure again, or of  *)
(* one stretch without protection, before its time; whatever restarts and  *)
(* calls come between, however slow the desktop is, and whether protection *)
(* is late before the second notice's mark or, on a long schedule, after   *)
(* it (escalation.rs, health.rs's at_risk_after).                          *)
THEOREM NoticesAreRare ==
  ASSUME OneAtATime
  PROVE  Spec => NoticesKeepTheirDistance
<1> DEFINE IInv == TypeOK /\ WarnInv /\ RiskInv
           Broken == \A f \in Failures : warned'[f] # warned[f] /\ warned[f] # Never
                                           => warned'[f] - warned[f] >= BrokenRepeat
           Risky == risk' # risk /\ risk'.of = risk.of =>
                      /\ risk'.at >= risk.of + AtRiskSecond
                      /\ risk.at >= risk.of + AtRiskSecond => risk'.at - risk.at >= AtRiskRepeat
<1>1. Init => IInv
  BY TypeInit, WarnInit, RiskInit
<1>2. IInv /\ [Next]_vars => IInv'
  BY TypeStep, WarnStep, RiskStep
<1>3. IInv /\ [Next]_vars => Broken /\ Risky
  <2> SUFFICES ASSUME IInv, [Next]_vars PROVE Broken /\ Risky
    OBVIOUS
  <2>1. CASE LoopAssesses
    BY <2>1, WarnLoopAssesses, RiskLoopAssesses
  <2>2. CASE ~LoopAssesses
    BY <2>2, OnlyLooksTell
  <2> QED
    BY <2>1, <2>2
<1>4. Spec => [][Broken]_vars /\ [][Risky]_vars
  <2>1. IInv /\ [Next]_vars => [Broken]_vars /\ [Risky]_vars
    BY <1>3
  <2> QED
    BY <1>1, <1>2, <2>1, PTL DEF Spec
<1> QED
  BY <1>4 DEF NoticesKeepTheirDistance, BrokenAtMostDaily, RiskCadence
=============================================================================
