------------------------------- MODULE Asking -------------------------------
(***************************************************************************)
(* The conversation a restore is on the desktop: the copy is worked out,   *)
(* the person is asked, and what they answered is carried out, with an     *)
(* offer to undo it (backtrack-gtk/src/ui/restore.rs, conflict.rs,         *)
(* summary.rs), over a daemon that works in numbered jobs, tells of their  *)
(* end, and begins to number again when it is restarted                    *)
(* (backtrackd/src/restore.rs, service/mod.rs).                            *)
(*                                                                         *)
(* What a plan holds is the kind of each path in it; the moves themselves  *)
(* are Restore's.                                                          *)
(***************************************************************************)
EXTENDS Naturals, Sequences, FiniteSets

CONSTANTS
  Paths,
  Previews,   \* the plans there may be, each the kind of every path
  Restores,   \* 1 .. n, bound: the restores the person starts
  Toggles,    \* bound: ticks by hand and bulk buttons, over all restores
  MaxJob,     \* bound: jobs one daemon is given
  Restarts,   \* bound: of the daemon
  Circumstances

Kind == {"identical", "only in backup", "conflict", "type changed", "missing"}
Possible ==
  {"soon",     \* the next restore begins while the last one's toast is up
   "restart",  \* the daemon is restarted while an answer of its is awaited
   "cancel"}   \* somebody cancels one of the jobs

ASSUME AskingAssumption ==
  /\ Previews \subseteq [Paths -> Kind]
  /\ Restores \subseteq Nat \ {0} /\ Toggles \in Nat /\ MaxJob \in Nat /\ Restarts \in Nat
  /\ Circumstances \subseteq Possible

VARIABLES
  jobs,     \* the daemon's: 1 .. n, this life's
  plans,    \* Restores: by the job that prepared it, with whether it was carried out
  flow,     \* run and run_elsewhere, and busy when it is not idle
  ticked,   \* review's
  undoable, \* the restore the Undo button would undo
  toasts,   \* the toasts with an Undo, the first on screen
  undos,    \* the undoings under way, each by the toast it was pressed on
  used,     \* how many restores were started
  toggled, restarts,
  \* What the properties remember of each restore.
  asked,    \* what the screen said would become of each path when it was answered
  did,      \* what became of it
  byHand,   \* the rows ticked by hand since the list was put up
  undone    \* <<the restore the toast was about, the restore undone>>

screen == <<flow, ticked, undoable, toasts, undos>>
bounds == <<used, toggled, restarts>>
ghosts == <<asked, did, byHand, undone>>
vars == <<jobs, plans, screen, bounds, ghosts>>

-----------------------------------------------------------------------------
None == 0
Job == 1 .. MaxJob
Outcome == {"running", "completed", "failed", "cancelled"}
Fate == {"leave", "replace", "keep both", "add"}
Blanket == {"replace", "keep-both", "skip"}
Named == [Paths -> {"replace", "skip", "unnamed"}]
Unnamed == [p \in Paths |-> "unnamed"]
AnyPreview == CHOOSE v \in Previews : TRUE
Untouched == [p \in Paths |-> "leave"]

\* `of' is the restore a job works for: one of the person's, or another caller's.
JobRecord ==
  [kind: {"prepare", "execute", "into", "undo", "other"}, of: Nat, plan: Nat,
   blanket: Blanket, named: Named, over: BOOLEAN]
PlanRecord == [of: Nat, preview: Previews, staged: BOOLEAN, logged: BOOLEAN]
Waits == {"preparing", "executing", "bringing"}
Flow == [at: {"idle", "previewing", "conflict", "summary", "review"} \cup Waits,
         of: Nat, single: BOOLEAN, plan: Nat, view: Previews, wait: Nat, got: Outcome]
Idle == [at |-> "idle", of |-> None, single |-> FALSE, plan |-> None, view |-> AnyPreview,
         wait |-> None, got |-> "running"]

TypeOK ==
  /\ jobs \in Seq(JobRecord) /\ Len(jobs) <= MaxJob
  /\ DOMAIN plans \subseteq Job /\ \A j \in DOMAIN plans : plans[j] \in PlanRecord
  /\ flow \in Flow /\ ticked \subseteq Paths /\ byHand \subseteq Paths
  /\ undoable \in [plan: Nat, of: Nat] /\ toasts \in Seq(Restores)
  /\ \A u \in undos : u \in [plan: Nat, of: Nat, toast: Restores, wait: Nat, got: Outcome]
  /\ used \in Nat /\ toggled \in 0 .. Toggles /\ restarts \in 0 .. Restarts
  /\ asked \in [Restores -> [Paths -> Fate]] /\ did \in [Restores -> [Paths -> Fate]]

NotUndoable == [plan |-> None, of |-> None]

Init ==
  /\ jobs = <<>> /\ plans = <<>>
  /\ flow = Idle /\ ticked = {} /\ undoable = NotUndoable /\ toasts = <<>> /\ undos = {}
  /\ used = 0 /\ toggled = 0 /\ restarts = 0
  /\ asked = [r \in Restores |-> Untouched] /\ did = [r \in Restores |-> Untouched]
  /\ byHand = {} /\ undone = {}

-----------------------------------------------------------------------------
\* The daemon.

Submitted(kind, of, plan, blanket, named) ==
  /\ Len(jobs) < MaxJob
  /\ jobs' = Append(jobs, [kind |-> kind, of |-> of, plan |-> plan, blanket |-> blanket,
                           named |-> named, over |-> FALSE])
Plain(kind, of) == Submitted(kind, of, None, "skip", Unnamed)

\* JobFinished, which reaches a stream opened before the job was started.
Told(j, outcome) ==
  /\ flow' = IF flow.wait = j /\ flow.at \in Waits /\ flow.got = "running"
             THEN [flow EXCEPT !.got = outcome] ELSE flow
  /\ undos' = {IF u.wait = j /\ u.got = "running" THEN [u EXCEPT !.got = outcome] ELSE u : u \in undos}
Ended == [kind |-> "other", of |-> None, plan |-> None, blanket |-> "skip", named |-> Unnamed,
          over |-> TRUE]
JobEnds(j, outcome) ==
  /\ jobs' = [jobs EXCEPT ![j] = Ended]
  /\ Told(j, outcome)
Running(j, kind) == j \in DOMAIN jobs /\ ~jobs[j].over /\ jobs[j].kind = kind

With(f, k, v) == [x \in DOMAIN f \cup {k} |-> IF x = k THEN v ELSE f[x]]
Without(f, k) == [x \in DOMAIN f \ {k} |-> f[x]]

\* prepare: the copy is extracted and compared.  A cancelled one may be through all the same.
Prepares(j) ==
  /\ Running(j, "prepare")
  /\ \/ /\ \E v \in Previews :
             plans' = With(plans, j, [of |-> jobs[j].of, preview |-> v,
                                      staged |-> TRUE, logged |-> FALSE])
        /\ \E o \in {"completed", "cancelled"} :
             (o = "cancelled" => "cancel" \in Circumstances) /\ JobEnds(j, o)
     \/ JobEnds(j, "failed") /\ UNCHANGED plans
  /\ UNCHANGED <<ticked, undoable, toasts, bounds, ghosts>>

\* Decisions::for_path and named, as execute reads them.
Decided(kind, blanket, named) ==
  CASE kind = "only in backup" -> "replace"
    [] kind = "type changed"   -> IF named = "unnamed" THEN "skip" ELSE named
    [] kind = "conflict"       -> IF named = "unnamed" THEN blanket ELSE named
    [] kind \in {"identical", "missing"} -> "skip"

Fated(kind, decision) ==
  IF decision = "skip" THEN "leave"
  ELSE IF kind = "only in backup" THEN "add"
  ELSE IF decision = "replace" THEN "replace" ELSE "keep both"

\* start_execute: what was prepared is carried out and its log kept; its copy
\* has served its purpose either way.
Executes(j) ==
  LET p == jobs[j].plan
      v == plans[p].preview
  IN /\ Running(j, "execute")
     /\ \/ /\ p \in DOMAIN plans
           /\ plans' = [plans EXCEPT ![p].logged = TRUE, ![p].staged = FALSE]
           /\ did' = [did EXCEPT ![plans[p].of] =
                        [x \in Paths |-> Fated(v[x], Decided(v[x], jobs[j].blanket, jobs[j].named[x]))]]
           /\ JobEnds(j, "completed")
        \/ /\ plans' = IF p \in DOMAIN plans THEN [plans EXCEPT ![p].staged = FALSE] ELSE plans
           /\ JobEnds(j, "failed") /\ UNCHANGED did
     /\ UNCHANGED <<ticked, undoable, toasts, bounds, asked, byHand, undone>>

\* start_undo, and anything else the daemon does: a backup, another client's restore.
Works(j) ==
  /\ Running(j, "undo") \/ Running(j, "other") \/ Running(j, "into")
  /\ \/ /\ jobs[j].kind = "undo"
        /\ undone' = undone \cup {<<u.toast, jobs[j].of>> : u \in {x \in undos : x.wait = j}}
        /\ JobEnds(j, "completed")
     \/ jobs[j].kind # "undo" /\ JobEnds(j, "completed") /\ UNCHANGED undone
     \/ JobEnds(j, "failed") /\ UNCHANGED undone
  /\ UNCHANGED <<plans, ticked, undoable, toasts, bounds, asked, did, byHand>>

\* Only with what numbers jobs begin again can another's job be taken for one's own.
Others ==
  /\ restarts > 0 /\ flow.at \in Waits /\ Plain("other", None)
  /\ UNCHANGED <<plans, screen, bounds, ghosts>>

\* What was prepared goes with the daemon, and sweep_staging clears it.
Awaited == flow.at \in Waits \/ undos # {}
DaemonRestarts ==
  /\ restarts < Restarts /\ restarts' = restarts + 1
  /\ Awaited => "restart" \in Circumstances
  /\ jobs' = <<>> /\ plans' = <<>>
  /\ UNCHANGED <<screen, used, toggled, ghosts>>

-----------------------------------------------------------------------------
\* Restores: one run at a time.

Over == flow' = Idle
Says(toast) == toasts' = Append(toasts, toast)

\* start: of what is selected, a file or a folder.
Starts(single) ==
  /\ flow.at = "idle" /\ used + 1 \in Restores
  /\ "soon" \notin Circumstances => toasts = <<>> /\ undos = {}
  /\ used' = used + 1
  /\ Plain("prepare", used')
  /\ flow' = [Idle EXCEPT !.at = "preparing", !.of = used', !.single = single, !.wait = Len(jobs')]
  /\ UNCHANGED <<plans, ticked, undoable, toasts, undos, toggled, restarts, ghosts>>

\* start_elsewhere: a folder was picked, and there is nothing to ask.
StartsElsewhere ==
  /\ flow.at = "idle" /\ used + 1 \in Restores
  /\ "soon" \notin Circumstances => toasts = <<>> /\ undos = {}
  /\ used' = used + 1
  /\ Plain("into", used')
  /\ flow' = [Idle EXCEPT !.at = "bringing", !.of = used', !.wait = Len(jobs')]
  /\ UNCHANGED <<plans, ticked, undoable, toasts, undos, toggled, restarts, ghosts>>

BroughtElsewhere ==
  /\ flow.at = "bringing" /\ flow.got # "running"
  /\ Over
  /\ UNCHANGED <<jobs, plans, ticked, undoable, toasts, undos, bounds, ghosts>>

Prepared ==
  /\ flow.at = "preparing" /\ flow.got # "running"
  /\ IF flow.got = "completed"
     THEN flow' = [flow EXCEPT !.at = "previewing", !.plan = flow.wait, !.wait = None, !.got = "running"]
     ELSE Over
  /\ UNCHANGED <<jobs, plans, ticked, undoable, toasts, undos, bounds, ghosts>>

Carries(blanket, named) ==
  IF flow.plan \in DOMAIN plans
  THEN /\ Submitted("execute", flow.of, flow.plan, blanket, named)
       /\ flow' = [flow EXCEPT !.at = "executing", !.wait = Len(jobs')]
  ELSE Over /\ UNCHANGED jobs

Discards == plans' = Without(plans, flow.plan)

\* What the screen says, for every path, of an answer for what clashes.
Promised(v, clash) ==
  [p \in Paths |-> CASE v[p] = "only in backup" -> "add"
                     [] v[p] = "conflict" -> clash
                     [] v[p] \in {"identical", "type changed", "missing"} -> "leave"]

\* get_restore_preview, and decide as far as its first dialog.
Decides ==
  LET held == flow.plan \in DOMAIN plans
      v    == plans[flow.plan].preview
      Some(kind) == {p \in Paths : v[p] = kind} # {}
      Asks == Some("conflict") \/ Some("type changed")
  IN /\ flow.at = "previewing"
     /\ \/ /\ ~held /\ Over
           /\ UNCHANGED <<jobs, plans, asked, byHand>>
        \/ /\ held /\ (Some("missing") \/ (~Asks /\ ~Some("only in backup")))
           /\ Over /\ Discards
           /\ UNCHANGED <<jobs, asked, byHand>>
        \/ /\ held /\ ~Some("missing") /\ ~Asks /\ Some("only in backup")
           /\ Carries("replace", Unnamed)
           /\ asked' = [asked EXCEPT ![flow.of] = Promised(v, "leave")]
           /\ UNCHANGED <<plans, byHand>>
        \/ /\ held /\ ~Some("missing") /\ Asks
           /\ flow' = [flow EXCEPT !.view = v, !.at =
                IF /\ flow.single /\ ~Some("type changed")
                   /\ Cardinality({p \in Paths : v[p] = "conflict"}) = 1
                THEN "conflict" ELSE "summary"]
           /\ UNCHANGED <<jobs, plans, asked, byHand>>
     /\ UNCHANGED <<ticked, undoable, toasts, undos, bounds, did, undone>>

\* A dialog is of the preview that was read.
View == flow.view

BacksOut ==
  /\ flow.at \in {"conflict", "summary"}
  /\ Over /\ Discards
  /\ UNCHANGED <<jobs, ticked, undoable, toasts, undos, bounds, ghosts>>

AnswersAll(blanket) ==
  /\ flow.at \in {"conflict", "summary"} /\ blanket \in {"keep-both", "replace"}
  /\ Carries(blanket, Unnamed)
  /\ asked' = [asked EXCEPT ![flow.of] =
                 Promised(View, IF blanket = "replace" THEN "replace" ELSE "keep both")]
  /\ UNCHANGED <<plans, ticked, undoable, toasts, undos, bounds, did, byHand, undone>>

\* The rows of the review list.
Rows == {p \in Paths : View[p] \in {"conflict", "type changed"}}
MayTick == {p \in Paths : View[p] = "conflict"}

PutsUpList ==
  /\ flow.at = "summary"
  /\ flow' = [flow EXCEPT !.at = "review"]
  /\ ticked' = MayTick /\ byHand' = {}
  /\ UNCHANGED <<jobs, plans, undoable, toasts, undos, bounds, asked, did, undone>>

Ticks(p) ==
  /\ flow.at = "review" /\ p \in Rows /\ toggled < Toggles
  /\ toggled' = toggled + 1
  /\ ticked' = IF p \in ticked THEN ticked \ {p} ELSE ticked \cup {p}
  /\ byHand' = IF p \in ticked THEN byHand \ {p} ELSE byHand \cup {p}
  /\ UNCHANGED <<jobs, plans, flow, undoable, toasts, undos, used, restarts, asked, did, undone>>

\* select_buttons: unticking reaches every row, ticking only what is safe.
SelectsAll ==
  /\ flow.at = "review" /\ toggled < Toggles
  /\ toggled' = toggled + 1
  /\ ticked' = ticked \cup MayTick
  /\ UNCHANGED <<jobs, plans, flow, undoable, toasts, undos, used, restarts, ghosts>>
SelectsNone ==
  /\ flow.at = "review" /\ toggled < Toggles
  /\ toggled' = toggled + 1
  /\ ticked' = {} /\ byHand' = {}
  /\ UNCHANGED <<jobs, plans, flow, undoable, toasts, undos, used, restarts, asked, did, undone>>

GoesBack ==
  /\ flow.at = "review"
  /\ flow' = [flow EXCEPT !.at = "summary"] /\ ticked' = {}
  /\ UNCHANGED <<jobs, plans, undoable, toasts, undos, bounds, ghosts>>

\* Every row is answered by name; the blanket has nothing left to cover.
AnswersEach ==
  /\ flow.at = "review"
  /\ Carries("skip", [p \in Paths |-> IF p \notin Rows THEN "unnamed"
                                      ELSE IF p \in ticked THEN "replace" ELSE "skip"])
  /\ asked' = [asked EXCEPT ![flow.of] =
                 [p \in Paths |-> IF p \in Rows /\ p \in ticked THEN "replace"
                                  ELSE Promised(View, "leave")[p]]]
  /\ ticked' = {}
  /\ UNCHANGED <<plans, undoable, toasts, undos, bounds, did, byHand, undone>>

\* Mutant: a restore that failed leaves the busy flag set.
ExecutedAndBusy ==
  /\ flow.at = "executing" /\ flow.got = "completed"
  /\ Over
  /\ undoable' = [plan |-> flow.plan, of |-> flow.of] /\ Says(flow.of)
  /\ UNCHANGED <<jobs, plans, ticked, undos, bounds, ghosts>>

\* Carried out, or not: what it did can be undone from its toast.
Executed ==
  /\ flow.at = "executing" /\ flow.got # "running"
  /\ Over
  /\ IF flow.got = "completed"
     THEN undoable' = [plan |-> flow.plan, of |-> flow.of] /\ Says(flow.of)
     ELSE UNCHANGED <<undoable, toasts>>
  /\ UNCHANGED <<jobs, plans, ticked, undos, bounds, ghosts>>

\* Toasts wait for one another; each goes by itself.
ToastGoes ==
  /\ toasts # <<>> /\ toasts' = Tail(toasts)
  /\ UNCHANGED <<jobs, plans, flow, ticked, undoable, undos, bounds, ghosts>>

\* undo, pressed on the toast on screen: whatever undoable holds.
PressesUndo ==
  /\ toasts # <<>> /\ toasts' = Tail(toasts)
  /\ IF undoable.plan \in DOMAIN plans /\ plans[undoable.plan].logged
     THEN /\ Submitted("undo", undoable.of, undoable.plan, "skip", Unnamed)
          /\ undos' = undos \cup {[plan |-> undoable.plan, of |-> undoable.of, toast |-> Head(toasts),
                                   wait |-> Len(jobs'), got |-> "running"]}
     ELSE UNCHANGED <<jobs, undos>>
  /\ UNCHANGED <<plans, flow, ticked, undoable, bounds, ghosts>>

Undone(u) ==
  /\ u.got # "running"
  /\ undos' = undos \ {u}
  /\ undoable' = IF u.got = "completed" THEN NotUndoable ELSE undoable
  /\ UNCHANGED <<jobs, plans, flow, ticked, toasts, bounds, ghosts>>

-----------------------------------------------------------------------------
Daemon == \E j \in Job : Prepares(j) \/ Executes(j) \/ Works(j)
App ==
  \/ BroughtElsewhere \/ Prepared \/ Decides \/ Executed
  \/ \E u \in undos : Undone(u)
Person ==
  \/ \E s \in BOOLEAN : Starts(s)
  \/ StartsElsewhere \/ BacksOut \/ PutsUpList \/ SelectsAll \/ SelectsNone \/ GoesBack
  \/ \E b \in Blanket : AnswersAll(b)
  \/ \E p \in Paths : Ticks(p)
  \/ AnswersEach \/ ToastGoes \/ PressesUndo

Next == Daemon \/ App \/ Person \/ Others \/ DaemonRestarts
Spec == Init /\ [][Next]_vars

\* Jobs end, and what waits for their end goes on; the person may leave a dialog up.
Fairness == WF_vars(Daemon) /\ WF_vars(App)
FairSpec == Spec /\ Fairness

-----------------------------------------------------------------------------
\* What a restore did to every path is what the dialog said it would when it
\* was answered, whether in one word or row by row (restore.rs, summary.rs).
DoesWhatItSaid == \A r \in Restores : did[r] # Untouched => did[r] = asked[r]

\* Nothing replaces a folder with a file, or the other way, unless its row
\* was ticked by hand in the list that was answered (summary.rs).
TypesChangeByHand ==
  flow.at = "executing" =>
    \A p \in Paths : (View[p] = "type changed" /\ did[flow.of][p] # "leave") => p \in byHand

\* An Undo undoes the restore its toast told of (restore.rs).
UndoesItsOwn == \A u \in undone : u[1] = u[2]

\* The toast on screen offers something: its restore is what Undo undoes.
OfferHolds ==
  toasts # <<>> /\ restarts = 0 => undoable.of = Head(toasts)

\* A restore told of as done was carried out (restore.rs).
SaysOnlyWhatIsDone == \A i \in DOMAIN toasts : did[toasts[i]] # Untouched \/ asked[toasts[i]] = Untouched

\* With nothing going on, nothing prepared is left to take up room (restore.rs).
LeavesNothingPrepared ==
  flow.at = "idle" => \A j \in DOMAIN plans : ~plans[j].staged

\* All of these.
AskingSafety ==
  /\ TypeOK /\ DoesWhatItSaid /\ TypesChangeByHand /\ UndoesItsOwn /\ OfferHolds
  /\ SaysOnlyWhatIsDone /\ LeavesNothingPrepared

\* Waiting for the daemon comes to an end, so that the next restore can begin.
Waiting == flow.at \in Waits
WaitingEnds == (Waiting ~> ~Waiting) /\ (undos # {} ~> undos = {})
=============================================================================
