------------------------------- MODULE Health -------------------------------
(***************************************************************************)
(* What the daemon says about the backups: the failure it remembers, the   *)
(* state it computes from that and from other facts, the loop that hears   *)
(* of jobs and announces changes, the notices to the person, and the pause *)
(* (backtrackd/src/service/health.rs, escalation.rs, mod.rs, notify.rs).   *)
(*                                                                         *)
(* The loop is one task.  It hears of ended jobs over a broadcast channel  *)
(* that drops what is oldest when it is full, is woken by whatever changes *)
(* a fact, and looks every minute by itself; a unit of time here is longer *)
(* than that, so time passes once it has looked.                           *)
(***************************************************************************)
EXTENDS Integers, Sequences, FiniteSets, FiniteSetsExt

CONSTANTS
  Failures,    \* the blocking failures that occur
  AtRiskAfter, AtRiskSecond, AtRiskRepeat, BrokenRepeat, \* as in the code
  Buffer,      \* UPDATE_BUFFER
  Callers,     \* who may pause and resume
  LastTime,    \* bound: the time at the end
  Ends,        \* bound: the jobs that end
  Events,      \* bound: everything else that happens
  Circumstances \* which of these may happen: see Possible

HealthFailure == {"PassphraseMissing", "PassphraseWrong", "AuthExpired", "DestinationUnwritable",
                  "DestinationFull", "LocalDiskFull", "RepoCorrupt", "BorgMissing"}

Possible ==
  {"lag",          \* the channel drops an update that says something
   "side by side", \* calls overlap with each other and with what is in the channel
   "in turns",     \* two failures alternate within the time one is repeated after
   "slow",         \* the desktop is still being told while health moves on
   "long",         \* a backup is dated to when it began
   "forgotten"}    \* the daemon is restarted with a failure or a notice outstanding

ASSUME HealthAssumption ==
  /\ Failures \subseteq HealthFailure
  /\ {AtRiskAfter, AtRiskSecond, AtRiskRepeat, BrokenRepeat} \subseteq Nat \ {0}
  /\ Buffer \in Nat \ {0} /\ LastTime \in Nat \ {0} /\ Ends \in Nat /\ Events \in Nat
  /\ Circumstances \subseteq Possible

VARIABLES
  now,
  \* The facts.
  latched,   \* the failure that stops backups, as far as the daemon knows
  held,      \* spool_held
  pause,     \* until when
  reachable, \* destination_reachable
  net,       \* offline_protection_active
  last,      \* last_backup
  attention, \* something wants attention some time
  open,      \* the keyring can be read
  \* On disk.
  saved,     \* RuntimeState: the pause, the protection clock, and what was told
  dated,     \* the newest backup in the catalogue
  \* The loop.
  channel, lagged, loop,
  wake,      \* the permit of health_changed
  announced, \* the last health worked out
  heard,     \* the last a client was told
  \* The desktop.
  telling,   \* the notices on their way
  shown,     \* the notice the daemon knows to be on screen
  strays,    \* the others
  calls,     \* what each caller is in the middle of
  \* Bounds, and what the properties remember.
  ends, left,
  trouble,   \* the failure that stops backups
  kept,      \* when there last was protection
  asked,     \* until when the person wants a pause
  risk,      \* how many notices this stretch without protection has had, and the last
  warned     \* when the person was last told of each failure

facts == <<latched, held, pause, reachable, net, last, attention, open>>
disk == <<saved, dated>>
listening == <<channel, lagged, loop, wake, announced, heard>>
desktop == <<telling, shown, strays>>
remembered == <<trouble, kept, asked, risk, warned>>
vars == <<now, facts, disk, listening, desktop, calls, ends, left, remembered>>

-----------------------------------------------------------------------------
None == "none"
Never == 0
Times == 1 .. LastTime
Until == 0 .. LastTime + 1

Reason == HealthFailure \cup {None, "Paused", "DestinationAway", "NoRecentBackup", "Attention"}
HealthState == {"HEALTHY", "PROTECTED_LOCALLY", "PAUSED", "AT_RISK", "BROKEN", "DEGRADED"}
Healths == [state: HealthState, reason: Reason]
Unknown == [state |-> "none", reason |-> None]
Alarming(h) == h.state \in {"AT_RISK", "BROKEN"}

Kind == {"Backup", "Offline", "Check"}
Outcome == {"completed", "held", "unexplained"} \cup HealthFailure
Notified == [since: Until, count: Nat, at: Until, reason: HealthFailure \cup {None}, brokenAt: Until]
NotNotified == [since |-> Never, count |-> 0, at |-> Never, reason |-> None, brokenAt |-> Never]
NoCall == [at |-> "idle", until |-> Never]

TypeOK ==
  /\ now \in Times
  /\ latched \in HealthFailure \cup {None} /\ held \in BOOLEAN /\ pause \in Until
  /\ reachable \in BOOLEAN /\ net \in BOOLEAN /\ last \in 0 .. now /\ attention \in BOOLEAN
  /\ open \in BOOLEAN
  /\ saved \in [pause: Until, since: 0 .. now, notified: Notified]
  /\ saved.notified.at <= now /\ saved.notified.brokenAt <= now
  /\ saved.notified.since < saved.notified.at \/ saved.notified.at = Never
  /\ dated \in 0 .. now
  /\ channel \in Seq([kind: Kind, outcome: Outcome]) /\ Len(channel) <= Buffer
  /\ lagged \in BOOLEAN /\ loop \in {"idle", "marking", "assessing", "looked"}
  /\ wake \in BOOLEAN
  /\ {announced, heard} \subseteq Healths \cup {Unknown}
  /\ telling \subseteq [reason: Reason, replaces: BOOLEAN, read: BOOLEAN]
  /\ shown \in Reason /\ strays \subseteq Reason
  /\ calls \in [Callers -> [at: {"idle", "pausing", "resuming"}, until: Until]]
  /\ ends \in Nat /\ left \in Nat
  /\ trouble \in HealthFailure \cup {None} /\ kept \in 0 .. now /\ asked \in Until
  /\ risk \in [count: Nat, at: Until, of: Until] /\ warned \in [Failures -> Until]

-----------------------------------------------------------------------------
\* health.rs: the state, from the facts.

Later(a, b) == IF a > b THEN a ELSE b

ProtectedUntil == Later(last, saved.since)
IsStale == ProtectedUntil # Never /\ now - ProtectedUntil > AtRiskAfter
Blocking == IF latched # None THEN latched ELSE IF held THEN "LocalDiskFull" ELSE None

Evaluate ==
  CASE Blocking # None -> [state |-> "BROKEN", reason |-> Blocking]
    [] Blocking = None /\ pause > now -> [state |-> "PAUSED", reason |-> "Paused"]
    [] Blocking = None /\ pause <= now /\ IsStale -> [state |-> "AT_RISK", reason |-> "NoRecentBackup"]
    [] Blocking = None /\ pause <= now /\ ~IsStale /\ ~reachable /\ net ->
         [state |-> "PROTECTED_LOCALLY", reason |-> "DestinationAway"]
    [] OTHER -> IF attention THEN [state |-> "DEGRADED", reason |-> "Attention"]
                ELSE [state |-> "HEALTHY", reason |-> None]

\* escalation.rs: what is worth telling now.

\* Mutant: the second notice's time is every notice's time.
AlwaysSecond(told, since) == since + AtRiskSecond

NextNotice(told, since) ==
  IF told.count = 1 /\ told.at < since + AtRiskSecond THEN since + AtRiskSecond
  ELSE told.at + AtRiskRepeat

RiskIsDue(told, since) ==
  since # Never /\ (told.since = since /\ told.at # Never => now >= NextNotice(told, since))

BrokenIsDue(told, failure) ==
  ~(told.reason = failure /\ told.brokenAt # Never /\ now - told.brokenAt < BrokenRepeat)

-----------------------------------------------------------------------------
Init ==
  /\ now = 1
  /\ latched = None /\ held = FALSE /\ pause = Never /\ reachable = TRUE /\ net = TRUE
  /\ last = 1 /\ attention = FALSE /\ open = TRUE
  /\ saved = [pause |-> Never, since |-> 1, notified |-> NotNotified] /\ dated = 1
  /\ channel = <<>> /\ lagged = FALSE /\ loop = "assessing" /\ wake = FALSE
  /\ announced = Unknown /\ heard = Unknown
  /\ telling = {} /\ shown = None /\ strays = {}
  /\ calls = [c \in Callers |-> NoCall]
  /\ ends = 0 /\ left = Events
  /\ trouble = None /\ kept = 1 /\ asked = Never
  /\ risk = [count |-> 0, at |-> Never, of |-> Never] /\ warned = [f \in Failures |-> Never]

\* Unless the desktop is slow, it has been told before anything else goes on.
Prompt == "slow" \in Circumstances \/ telling = {}
Happens == Prompt /\ left > 0 /\ left' = left - 1
SideBySide == "side by side" \in Circumstances

\* What a success shows to be over.
\* Mutant: any backup shows that everything is.
ProvesAll(kind, failure) == TRUE

Proves(kind, failure) ==
  \/ kind = "Backup"
  \/ kind = "Offline" /\ failure \in {"PassphraseMissing", "PassphraseWrong", "BorgMissing", "LocalDiskFull"}
  \/ kind = "Check" /\ failure = "RepoCorrupt"

\* What a success of each kind went through, and so cannot be wrong any more.
Disproves(kind) ==
  CASE kind = "Backup" -> HealthFailure
    [] kind = "Offline" -> {"PassphraseMissing", "PassphraseWrong", "BorgMissing", "LocalDiskFull"}
    [] kind = "Check" -> {"RepoCorrupt"}

Outcomes(kind) ==
  IF kind = "Offline" THEN {"completed", "held", "unexplained"} \cup (Failures \cap Disproves(kind))
  ELSE {"completed", "unexplained"} \cup Failures

\* What the outcome leaves of a failure.
After(failure, kind, outcome) ==
  CASE outcome \in HealthFailure -> outcome
    [] outcome = "completed" -> IF failure # None /\ Proves(kind, failure) THEN None ELSE failure
    [] OTHER -> failure

\* A failure is not told of by turns with another: any other is told, and long ago.
Stops(outcome) == IF outcome = "held" THEN "LocalDiskFull" ELSE outcome

InTurn(outcome) ==
  LET this  == Stops(outcome)
      other == HealthFailure \ {this}
      told  == saved.notified
  IN \/ "in turns" \in Circumstances \/ this \notin HealthFailure
     \/ /\ \A f \in Failures \cap other : warned[f] = Never \/ now - warned[f] >= BrokenRepeat
        /\ told.reason \in other => now - told.brokenAt >= BrokenRepeat
        /\ \A i \in DOMAIN channel : Stops(channel[i].outcome) \notin other
        /\ loop = "assessing" => latched \notin other
        /\ held => this = "LocalDiskFull"

\* A job settles, and its update is published; what does not fit pushes the
\* oldest out.
JobEnds(kind, outcome) ==
  LET update == [kind |-> kind, outcome |-> outcome]
      full   == Len(channel) = Buffer
      began  == IF "long" \in Circumstances THEN {now, now - 1} \ {0} ELSE {now}
  IN /\ Prompt /\ ends < Ends /\ ends' = ends + 1
     /\ outcome \in Outcomes(kind) /\ InTurn(outcome)
     /\ full => "lag" \in Circumstances \/ Head(channel).outcome = "unexplained"
     /\ channel' = Append(IF full THEN Tail(channel) ELSE channel, update)
     /\ lagged' = (lagged \/ full)
     /\ trouble' = CASE outcome \in HealthFailure -> outcome
                     [] outcome = "completed" /\ trouble \in Disproves(kind) -> None
                     [] OTHER -> trouble
     /\ IF kind \in {"Backup", "Offline"} /\ outcome = "completed"
        THEN kept' = now /\ \E at \in began : dated' = Later(dated, at)
        ELSE UNCHANGED <<kept, dated>>
     /\ UNCHANGED <<now, facts, saved, loop, wake, announced, heard, desktop, calls, left,
                    asked, risk, warned>>

-----------------------------------------------------------------------------
\* The loop.

AtRest == Prompt /\ loop \in {"idle", "looked"}

\* job_ended and update_health, with the catalogue marked before the loop goes
\* on when the backup reached the destination.
LoopHears ==
  LET kind    == Head(channel).kind
      outcome == Head(channel).outcome
      success == outcome = "completed" /\ kind \in {"Backup", "Offline"}
  IN /\ AtRest /\ channel # <<>> /\ ~lagged
     /\ channel' = Tail(channel)
     /\ latched' = After(latched, kind, outcome)
     /\ last' = IF success THEN now ELSE last
     /\ held' = CASE kind = "Offline" /\ outcome \in {"completed", "held"} -> outcome = "held"
                  [] kind = "Backup" /\ success -> FALSE
                  [] OTHER -> held
     /\ loop' = IF kind = "Backup" /\ success THEN "marking" ELSE "assessing"
     /\ UNCHANGED <<now, pause, reachable, net, attention, open, disk, lagged, wake, announced,
                    heard, desktop, calls, ends, left, remembered>>

\* RecvError::Lagged: carry on.
LoopLags ==
  /\ AtRest /\ lagged
  /\ lagged' = FALSE
  /\ UNCHANGED <<now, facts, disk, channel, loop, wake, announced, heard, desktop, calls, ends,
                 left, remembered>>

\* after_catch_up.
LoopMarks ==
  /\ loop = "marking" /\ loop' = "assessing"
  /\ UNCHANGED <<now, facts, disk, channel, lagged, wake, announced, heard, desktop, calls, ends,
                 left, remembered>>

LoopWakes ==
  /\ AtRest /\ wake
  /\ wake' = FALSE /\ loop' = "assessing"
  /\ UNCHANGED <<now, facts, disk, channel, lagged, announced, heard, desktop, calls, ends,
                 left, remembered>>

\* The minute's tick: recheck_passphrase, then the look.
LoopTicks ==
  LET readable == latched = "PassphraseMissing" /\ open
  IN /\ AtRest
     /\ readable => SideBySide \/ channel = <<>>
     /\ latched' = IF readable THEN None ELSE latched
     /\ trouble' = IF readable /\ trouble = "PassphraseMissing" THEN None ELSE trouble
     /\ wake' = (wake \/ readable)
     /\ loop' = "assessing"
     /\ UNCHANGED <<now, held, pause, reachable, net, last, attention, open, disk, channel, lagged,
                    announced, heard, desktop, calls, ends, left, kept, asked, risk, warned>>

\* What takes a notice down.
Over(h) == ~Alarming(h)

\* Mutant: what neither alarms nor ends an alarm is not told.
AlarmMoved(h) == announced # h /\ (Alarming(h) \/ Alarming(announced))
Moved(h) == announced # h

\* reassess, and announce.
LoopAssesses ==
  LET h     == Evaluate
      told  == saved.notified
      since == ProtectedUntil
      tells == \/ h.state = "AT_RISK" /\ RiskIsDue(told, since)
               \/ h.state = "BROKEN" /\ BrokenIsDue(told, h.reason)
      same  == told.since = since
  IN /\ loop = "assessing" /\ loop' = "looked"
     /\ announced' = h
     /\ heard' = IF Moved(h) THEN h ELSE heard
     /\ shown' = IF Moved(h) /\ Over(h) THEN None ELSE shown
     /\ IF tells
        THEN /\ telling' = telling \cup {[reason |-> h.reason, replaces |-> FALSE, read |-> FALSE]}
             /\ saved' = [saved EXCEPT !.notified =
                  IF h.state = "AT_RISK"
                  THEN [@ EXCEPT !.since = since, !.at = now,
                                 !.count = IF same THEN told.count + 1 ELSE 1]
                  ELSE [@ EXCEPT !.reason = h.reason, !.brokenAt = now]]
        ELSE UNCHANGED <<telling, saved>>
     /\ warned' = IF tells /\ h.state = "BROKEN" /\ h.reason \in Failures
                  THEN [warned EXCEPT ![h.reason] = now] ELSE warned
     /\ risk' = IF tells /\ h.state = "AT_RISK" /\ channel = <<>>
                THEN [count |-> (IF risk.of = kept THEN risk.count ELSE 0) + 1, at |-> now, of |-> kept]
                ELSE risk
     /\ UNCHANGED <<now, facts, dated, channel, lagged, wake, strays, calls, ends, left,
                    trouble, kept, asked>>

\* The desktop, told by a task of its own: what the notice replaces is looked
\* up, and then it is shown.
NoticeReads(n) ==
  /\ n \in telling /\ ~n.read
  /\ telling' = (telling \ {n}) \cup {[n EXCEPT !.read = TRUE, !.replaces = shown # None]}
  /\ UNCHANGED <<now, facts, disk, listening, shown, strays, calls, ends, left, remembered>>

NoticeShows(n) ==
  /\ n \in telling /\ n.read
  /\ telling' = telling \ {n}
  /\ shown' = n.reason
  /\ strays' = IF n.replaces \/ shown = None THEN strays ELSE strays \cup {shown}
  /\ UNCHANGED <<now, facts, disk, listening, calls, ends, left, remembered>>

-----------------------------------------------------------------------------
\* What else changes the facts.

Wakes == wake' = TRUE

DestinationMoves ==
  /\ Happens /\ reachable' = ~reachable /\ Wakes
  /\ UNCHANGED <<now, latched, held, pause, net, last, attention, open, disk, channel, lagged, loop,
                 announced, heard, desktop, calls, ends, remembered>>

\* offline_broken; the net that comes up wakes nobody.
NetMoves ==
  /\ Happens /\ net' = ~net
  /\ wake' = (wake \/ net)
  /\ UNCHANGED <<now, latched, held, pause, reachable, last, attention, open, disk, channel, lagged,
                 loop, announced, heard, desktop, calls, ends, remembered>>

\* refresh_pending, counted off the loop.
AttentionMoves ==
  /\ Happens /\ attention' = ~attention /\ Wakes
  /\ UNCHANGED <<now, latched, held, pause, reachable, net, last, open, disk, channel, lagged, loop,
                 announced, heard, desktop, calls, ends, remembered>>

KeyringMoves ==
  /\ Happens /\ open' = ~open
  /\ UNCHANGED <<now, latched, held, pause, reachable, net, last, attention, disk, listening, desktop,
                 calls, ends, remembered>>

\* resolved.
Resolved(fixed) ==
  /\ latched' = IF latched \in fixed THEN None ELSE latched
  /\ wake' = (wake \/ latched \in fixed)
  /\ trouble' = IF trouble \in fixed THEN None ELSE trouble

PassphraseIsGiven ==
  /\ Happens /\ open' = TRUE
  /\ SideBySide \/ channel = <<>>
  /\ Resolved({"PassphraseMissing", "PassphraseWrong"})
  /\ UNCHANGED <<now, held, pause, reachable, net, last, attention, disk, channel, lagged, loop,
                 announced, heard, desktop, calls, ends, kept, asked, risk, warned>>

\* connect_engine.
EngineConnects(found) ==
  /\ Happens
  /\ SideBySide \/ channel = <<>>
  /\ IF found THEN Resolved({"BorgMissing"})
     ELSE /\ "BorgMissing" \in Failures /\ InTurn("BorgMissing")
          /\ latched' = "BorgMissing" /\ trouble' = "BorgMissing" /\ Wakes
  /\ UNCHANGED <<now, held, pause, reachable, net, last, attention, open, disk, channel, lagged, loop,
                 announced, heard, desktop, calls, ends, kept, asked, risk, warned>>

\* create_repository, import_repository.
DestinationIsNew ==
  /\ Happens
  /\ SideBySide \/ channel = <<>>
  /\ latched' = None /\ trouble' = None /\ Wakes
  /\ saved' = [saved EXCEPT !.since = now] /\ kept' = now
  /\ UNCHANGED <<now, held, pause, reachable, net, last, attention, open, dated, channel, lagged, loop,
                 announced, heard, desktop, calls, ends, asked, risk, warned>>

\* pause and resume: in memory, and then on disk.
CallBegins(c, at, until) ==
  /\ Happens
  /\ calls[c] = NoCall /\ (SideBySide \/ \A d \in Callers : calls[d] = NoCall)
  /\ pause' = until /\ asked' = until
  /\ calls' = [calls EXCEPT ![c] = [at |-> at, until |-> until]]
  /\ UNCHANGED <<now, latched, held, reachable, net, last, attention, open, disk, listening, desktop,
                 ends, trouble, kept, risk, warned>>

Pauses(c, until) == until > now /\ CallBegins(c, "pausing", until)
Resumes(c) == CallBegins(c, "resuming", Never)

Saves(c) == calls[c].until

CallEnds(c) ==
  /\ Prompt /\ calls[c] # NoCall
  /\ saved' = [saved EXCEPT !.pause = Saves(c)]
  /\ calls' = [calls EXCEPT ![c] = NoCall]
  /\ Wakes
  /\ UNCHANGED <<now, facts, dated, channel, lagged, loop, announced, heard, desktop, ends, left,
                 remembered>>

-----------------------------------------------------------------------------
\* Nothing that takes less than a minute is outstanding.
Settled ==
  /\ channel = <<>> /\ ~lagged /\ ~wake /\ loop = "looked"
  /\ \A c \in Callers : calls[c] = NoCall
  /\ Prompt

TimePasses ==
  /\ now < LastTime /\ Settled
  /\ now' = now + 1 /\ loop' = "idle"
  /\ UNCHANGED <<facts, disk, channel, lagged, wake, announced, heard, desktop, calls, ends, left,
                 remembered>>

\* RuntimeState::load_from.
Loads(s) == s

\* The daemon is restarted, now or later: adopt_state, seed_last_backup, and the
\* loop's first look.
Restarts(at) ==
  /\ Happens /\ at \in now .. LastTime
  /\ "forgotten" \in Circumstances \/ (trouble = None /\ ~held /\ shown = None /\ telling = {})
  /\ \A c \in Callers : calls[c] = NoCall
  /\ now' = at
  /\ latched' = None /\ held' = FALSE
  /\ saved' = Loads(saved)
  /\ pause' = IF saved.pause > at THEN saved.pause ELSE Never
  /\ last' = dated
  /\ channel' = <<>> /\ lagged' = FALSE /\ loop' = "assessing" /\ wake' = FALSE
  /\ announced' = Unknown
  /\ telling' = {} /\ shown' = None
  /\ strays' = IF shown = None THEN strays ELSE strays \cup {shown}
  /\ UNCHANGED <<reachable, net, attention, open, dated, heard, calls, ends, remembered>>

Next ==
  \/ \E kind \in Kind, outcome \in Outcome : JobEnds(kind, outcome)
  \/ LoopHears \/ LoopLags \/ LoopMarks \/ LoopWakes \/ LoopTicks \/ LoopAssesses
  \/ \E n \in telling : NoticeReads(n) \/ NoticeShows(n)
  \/ DestinationMoves \/ NetMoves \/ AttentionMoves \/ KeyringMoves
  \/ PassphraseIsGiven \/ DestinationIsNew \/ \E found \in BOOLEAN : EngineConnects(found)
  \/ \E c \in Callers : Resumes(c) \/ CallEnds(c) \/ \E until \in Until : Pauses(c, until)
  \/ TimePasses
  \/ \E at \in Times : Restarts(at)

Spec == Init /\ [][Next]_vars

\* The loop goes on, and the desktop answers or is given up on.
Fairness ==
  /\ WF_vars(LoopHears) /\ WF_vars(LoopLags) /\ WF_vars(LoopMarks) /\ WF_vars(LoopWakes)
  /\ WF_vars(LoopTicks) /\ WF_vars(LoopAssesses)
  /\ WF_vars(\E n \in telling : NoticeReads(n) \/ NoticeShows(n))

FairSpec == Spec /\ Fairness
-----------------------------------------------------------------------------
\* Properties.

\* Once it has heard all there is to hear, the daemon remembers a failure
\* exactly when that failure still stops backups: no success of the wrong kind
\* has cleared it and no older news has brought it back (update_health,
\* record_backup_success, resolved, the fan-out loop).
LatchIsTrue == loop \in {"idle", "looked"} /\ channel = <<>> /\ ~lagged => latched = trouble

\* Once the loop has looked and the desktop has been told, no notice of a
\* problem is on screen that is over: clicking one would open a fix for nothing
\* (reassess withdraws, notify.rs delivers in a task of its own).
ScreenHasNothingFixed ==
  loop = "looked" /\ channel = <<>> /\ ~wake /\ telling = {} /\ shown # None => Alarming(announced)
\* The screen has one notice about backups at most.
OneNotice == telling = {} => strays = {}

\* While no call is in the middle of it, the pause in memory, the pause on disk
\* and the pause last asked for are one, as far as they have not run out: a
\* restart neither forgets one nor brings one back (pause, resume, adopt_state).
PauseIsKept ==
  LET OnNow(until) == IF until > now THEN until ELSE Never
  IN (\A c \in Callers : calls[c] = NoCall) =>
       OnNow(pause) = OnNow(asked) /\ OnNow(saved.pause) = OnNow(asked)

\* A failure is told of again only when the repeat time has gone by, whatever
\* came between, a restart included (escalation.rs, RuntimeState.notified).
BrokenAtMostDaily ==
  [][\A f \in Failures : warned'[f] # warned[f] /\ warned[f] # Never
                           => warned'[f] - warned[f] >= BrokenRepeat]_vars

\* In one stretch without protection the second notice waits for its mark, and
\* from it on they are a week apart, restarts included (escalation.rs).
RiskCadence ==
  [][risk' # risk /\ risk'.of = risk.of =>
       /\ risk'.at >= risk.of + AtRiskSecond
       /\ risk.at >= risk.of + AtRiskSecond => risk'.at - risk.at >= AtRiskRepeat]_vars

\* Clients hear of every state that lasts, reason included, whether a job, a
\* fact or the clock brought it about (fan_out_signals, announce).
ClientsHear == []<>(heard = Evaluate)

\* What the daemon says of backups is so: what stops them, what is on screen about
\* it, and whether the person has paused them (update_health, reassess, pause).
HealthSafety == TypeOK /\ LatchIsTrue /\ ScreenHasNothingFixed /\ PauseIsKept

\* Nobody is told of one thing too often (escalation.rs).
NoticesKeepTheirDistance == BrokenAtMostDaily /\ RiskCadence
=============================================================================
