----------------------------- MODULE Instances ------------------------------
(***************************************************************************)
(* The processes of the daemon: start-up, the bus name that only one of    *)
(* them can own, shutting down, leaving when nothing needs it, being       *)
(* started again, and the setting that starts it at login                  *)
(* (backtrackd/src/daemon.rs, background.rs, supervise.rs and the systemd  *)
(* unit).                                                                  *)
(*                                                                         *)
(* A process is started by the session, by a call that the bus activates   *)
(* it for, or by hand, and finds on disk what others have left or are      *)
(* still using: the directories restores are staged in, named for their    *)
(* job, and job numbers begin anew with each process.                      *)
(***************************************************************************)
EXTENDS Integers, FiniteSets

CONSTANTS
  Procs,          \* places a process can run in
  Supervised,     \* those that are started again after a failure
  LostIsRestarted,\* and are so after their bus went: the unit, not a Flatpak
  Jobs,           \* bound: restores prepared by one process
  Starts,         \* bound: processes ever started
  Events,         \* bound: things that happen to them
  Circumstances   \* what is allowed to happen, of those below
     \* "second"   one clears up while another holds a restore, or has done so
     \*            when another ends that held one
     \* "snapper"  Snapper's snapshots differ from the catalogue's at a start
     \* "bus"      one claims the name before another noticed it lost its bus
     \* "late"     a call arrives at a daemon that has decided to leave
     \* "beside"   the setting is changed while a change is under way

VARIABLES
  proc,       \* each process, and what it has in memory
  owner,      \* who owns the bus name, or 0
  staging,    \* for each job number, whose extraction is in its directory
  background, \* the setting "Run in background"
  unit,       \* what systemd says of starting the daemon at login
  byHand,     \* the unit was changed by hand since the daemon last looked
  applying,   \* changes of the unit that are under way in the owner
  window,     \* the application is open
  started,    \* the processes started so far, which numbers them
  events      \* what has happened so far
vars == <<proc, owner, staging, background, unit, byHand, applying, window, started, events>>

None == 0
Job == 1 .. Jobs
NoRestore == [of |-> 0, whole |-> FALSE]
Down == [at |-> "down", number |-> 0, jobs |-> [n \in Job |-> "none"], idle |-> 0,
         lost |-> FALSE, writes |-> FALSE]

At == {"down", "failed", "loading", "clearing", "claiming", "claimed", "up", "leaving"}
Process == [at : At, number : 0 .. Starts, jobs : [Job -> {"none", "extracting", "prepared", "over"}],
            idle : 0 .. 2, lost : BOOLEAN, writes : BOOLEAN]
UnitState == {"enabled", "disabled", "masked"}
Change == [wanted : BOOLEAN, step : {"ask", "set"}]

TypeOK ==
  /\ proc \in [Procs -> Process] /\ owner \in Procs \cup {None}
  /\ staging \in [Job -> [of : 0 .. Starts, whole : BOOLEAN]]
  /\ background \in BOOLEAN /\ unit \in UnitState /\ byHand \in BOOLEAN
  /\ applying \subseteq Change /\ window \in BOOLEAN
  /\ started \in 0 .. Starts /\ events \in 0 .. Events

May(what) == what \in Circumstances
Is(p, at) == proc[p].at = at
Serves(p) == proc[p].at \in {"claimed", "up", "leaving"}
Busy(p) == \E n \in Job : proc[p].jobs[n] = "extracting"
Holds(p) == \E n \in Job : proc[p].jobs[n] \in {"extracting", "prepared"}
Goes(p, at) == proc' = [proc EXCEPT ![p].at = at]

Init ==
  /\ proc = [p \in Procs |-> Down] /\ owner = None
  /\ staging = [n \in Job |-> NoRestore]
  /\ background = TRUE /\ unit = "disabled" /\ byHand = FALSE /\ applying = {}
  /\ window = FALSE /\ started = 0 /\ events = 0

Happens == events < Events /\ events' = events + 1
Settings == <<background, unit, byHand, applying>>
-----------------------------------------------------------------------------
(* Starting. *)

Begins(p) ==
  /\ started < Starts
  /\ started' = started + 1
  /\ proc' = [proc EXCEPT ![p] = [Down EXCEPT !.at = "loading", !.number = started + 1]]

\* The session, a call, or somebody at a terminal starts one.
Starting(p) ==
  /\ Is(p, "down") /\ Begins(p)
  /\ UNCHANGED <<owner, staging, Settings, window, events>>

\* Mutant: a failure is answered once.
RestartsOnce(p) ==
  /\ Is(p, "failed") /\ p \in Supervised /\ started < 2 /\ Begins(p)
  /\ UNCHANGED <<owner, staging, Settings, window, events>>

\* Restart=on-failure, or the supervisor's loop.
Restarts(p) ==
  /\ Is(p, "failed") /\ p \in Supervised /\ Begins(p)
  /\ UNCHANGED <<owner, staging, Settings, window, events>>

\* Config::load, open_index, connect_engine, seed_last_backup and
\* restore_persisted_state, none of which changes what others see.
Loads(p) ==
  /\ Is(p, "loading") /\ Goes(p, "clearing")
  /\ UNCHANGED <<owner, staging, Settings, window, started, events>>

\* sweep_staging, of every directory there is.
Clears(p) ==
  /\ Is(p, "clearing") /\ Goes(p, "claiming")
  /\ (\E q \in Procs : Holds(q)) => May("second")
  /\ staging' = [n \in Job |-> NoRestore]
  /\ UNCHANGED <<owner, Settings, window, started, events>>

\* snapper::watch, which is begun before the name is asked for.
LooksAtSnapper(p) ==
  /\ proc[p].at \in {"claiming", "claimed"} /\ ~ proc[p].writes
  /\ Is(p, "claiming") => May("snapper")
  /\ proc' = [proc EXCEPT ![p].writes = TRUE]
  /\ UNCHANGED <<owner, staging, Settings, window, started, events>>

\* Mutant: a name that is taken is taken over.
ClaimsAnyway(p) ==
  /\ Is(p, "claiming") /\ ~ proc[p].lost
  /\ (\E q \in Procs : proc[q].lost) => May("bus")
  /\ proc' = [proc EXCEPT ![p].at = "claimed"] /\ owner' = p
  /\ UNCHANGED <<staging, Settings, window, started, events>>

\* claim_name with DoNotQueue: the loser exits, and successfully.
Claims(p) ==
  /\ Is(p, "claiming") /\ ~ proc[p].lost
  /\ (\E q \in Procs : proc[q].lost) => May("bus")
  /\ IF owner = None
     THEN owner' = p /\ Goes(p, "claimed")
     ELSE proc' = [proc EXCEPT ![p] = Down] /\ UNCHANGED owner
  /\ UNCHANGED <<staging, Settings, window, started, events>>

\* Once it has the name: the scheduler, the reconciliation, and what the
\* setting says about starting at login.
Acts(p) ==
  /\ Is(p, "claimed") /\ (applying # {} => May("beside"))
  /\ proc' = [proc EXCEPT ![p].at = "up", ![p].writes = TRUE]
  /\ applying' = IF proc[p].lost THEN applying
                 ELSE applying \cup {[wanted |-> background, step |-> "ask"]}
  /\ UNCHANGED <<owner, staging, background, unit, byHand, window, started, events>>
-----------------------------------------------------------------------------
(* Restores, as far as their directories go. *)

Answers(p) ==
  /\ owner = p /\ Serves(p) /\ (Is(p, "leaving") => May("late"))

\* start_prepare: job numbers begin at one, and empty_staging empties what
\* is there.
Prepares(p) ==
  /\ Answers(p)
  /\ \E n \in Job :
       /\ proc[p].jobs[n] = "none" /\ \A m \in 1 .. n - 1 : proc[p].jobs[m] # "none"
       /\ proc' = [proc EXCEPT ![p].jobs[n] = "extracting"]
       /\ staging' = [staging EXCEPT ![n] = [of |-> proc[p].number, whole |-> FALSE]]
  /\ UNCHANGED <<owner, Settings, window, started, events>>

\* The extraction has come to its end, whatever has become of its directory.
IsPrepared(p) ==
  \E n \in Job :
    /\ proc[p].jobs[n] = "extracting"
    /\ proc' = [proc EXCEPT ![p].jobs[n] = "prepared"]
    /\ staging' = IF staging[n].of = proc[p].number
                  THEN [staging EXCEPT ![n].whole = TRUE] ELSE staging
    /\ UNCHANGED <<owner, Settings, window, started, events>>

\* The answer, the cancellation, or the failure: the directory goes.
IsOver(p) ==
  \E n \in Job :
    /\ proc[p].jobs[n] \in {"extracting", "prepared"}
    /\ proc' = [proc EXCEPT ![p].jobs[n] = "over"]
    /\ staging' = [staging EXCEPT ![n] = NoRestore]
    /\ UNCHANGED <<owner, Settings, window, started, events>>
-----------------------------------------------------------------------------
(* Ending.  What a process had in memory is gone, and the name with it. *)

Ends(p, at) ==
  /\ (owner = p /\ Holds(p) /\ \E q \in Procs : Is(q, "claiming")) => May("second")
  /\ proc' = [proc EXCEPT ![p] = [Down EXCEPT !.at = at]]
  /\ owner' = IF owner = p THEN None ELSE owner
  /\ applying' = IF owner = p THEN {} ELSE applying

Running(p) == proc[p].at \notin {"down", "failed"}

\* SIGTERM, SIGINT, or the program is uninstalled; or nothing is started again.
IsStopped(p) ==
  /\ ~ Is(p, "down") /\ Happens /\ Ends(p, "down")
  /\ UNCHANGED <<staging, background, unit, byHand, window, started>>

\* A crash, SIGKILL, or a start-up that cannot go on.
Fails(p) ==
  /\ Running(p) /\ Happens /\ Ends(p, IF p \in Supervised THEN "failed" ELSE "down")
  /\ UNCHANGED <<staging, background, unit, byHand, window, started>>

\* The session bus goes away, and another one takes its place.
BusGoes ==
  /\ owner # None /\ Happens /\ owner' = None /\ applying' = {}
  /\ proc' = [p \in Procs |-> IF Is(p, "claiming") \/ Serves(p)
                              THEN [proc[p] EXCEPT !.lost = TRUE] ELSE proc[p]]
  /\ UNCHANGED <<staging, background, unit, byHand, window, started>>

\* off_the_bus: it exits with BUS_LOST.  One that asks for the name fails.
NoticesBus(p) ==
  /\ proc[p].lost /\ ~ Is(p, "claimed")
  /\ Ends(p, IF p \in Supervised /\ (LostIsRestarted \/ Is(p, "claiming"))
             THEN "failed" ELSE "down")
  /\ UNCHANGED <<staging, background, unit, byHand, window, started, events>>

\* watch_for_idle: in the background, for a window, or for a job.
Needed(p) == background \/ window \/ Busy(p)

\* A look each minute; the second that finds nothing is the last.
LooksIdle(p) ==
  /\ Is(p, "up") /\ ~ proc[p].lost
  /\ IF Needed(p) THEN proc[p].idle # 0 /\ proc' = [proc EXCEPT ![p].idle = 0]
     ELSE proc' = [proc EXCEPT ![p].idle = @ + 1,
                               ![p].at = IF proc[p].idle > 0 THEN "leaving" ELSE @]
  /\ UNCHANGED <<owner, staging, Settings, window, started, events>>

Leaves(p) ==
  /\ Is(p, "leaving") /\ Ends(p, "down")
  /\ UNCHANGED <<staging, background, unit, byHand, window, started, events>>
-----------------------------------------------------------------------------
(* The window, the setting and the unit. *)

WindowMoves ==
  /\ Happens /\ ((\E p \in Procs : Is(p, "leaving")) => May("late"))
  /\ window' = ~ window
  /\ UNCHANGED <<proc, owner, staging, Settings, started>>

\* set_config: it is stored, and the unit is made to follow.
Sets ==
  /\ Happens
  /\ \E p \in Procs : Answers(p)
  /\ (applying # {} => May("beside"))
  /\ background' = ~ background
  /\ applying' = applying \cup {[wanted |-> background', step |-> "ask"]}
  /\ UNCHANGED <<proc, owner, staging, unit, byHand, window, started>>

\* What is left alone: it is so already, or a decision made by hand.
AsWanted(state, wanted) == (state = "enabled") = wanted \/ (wanted /\ state # "disabled")

\* reconcile: what systemd says, and then what it is told.
Reconciles(change) ==
  /\ change \in applying
  /\ CASE change.step = "ask" ->
            /\ applying' = (applying \ {change}) \cup
                 (IF AsWanted(unit, change.wanted) THEN {} ELSE {[change EXCEPT !.step = "set"]})
            /\ byHand' = FALSE /\ UNCHANGED unit
       [] change.step = "set" ->
            /\ applying' = applying \ {change}
            /\ unit' = IF change.wanted THEN "enabled" ELSE "disabled"
            /\ UNCHANGED byHand
  /\ UNCHANGED <<proc, owner, staging, background, window, started, events>>

UnitByHand ==
  /\ Happens /\ \E state \in UnitState \ {unit} : unit' = state
  /\ byHand' = TRUE
  /\ UNCHANGED <<proc, owner, staging, background, applying, window, started>>

Next ==
  \/ \E p \in Procs :
       \/ Starting(p) \/ Restarts(p) \/ Loads(p) \/ Clears(p) \/ LooksAtSnapper(p)
       \/ Claims(p) \/ Acts(p) \/ Prepares(p) \/ IsPrepared(p) \/ IsOver(p)
       \/ IsStopped(p) \/ Fails(p) \/ NoticesBus(p) \/ LooksIdle(p) \/ Leaves(p)
  \/ \E change \in Change : Reconciles(change)
  \/ BusGoes \/ WindowMoves \/ Sets \/ UnitByHand

Spec == Init /\ [][Next]_vars

(***************************************************************************)
(* systemd and the supervisor start a failed daemon again, and a process   *)
(* goes on with its start-up, its exit and its look for the bus.           *)
(***************************************************************************)
Fairness ==
  \A p \in Procs :
    /\ WF_vars(Restarts(p)) /\ WF_vars(Loads(p)) /\ WF_vars(Clears(p))
    /\ WF_vars(Claims(p)) /\ WF_vars(Acts(p)) /\ WF_vars(NoticesBus(p)) /\ WF_vars(Leaves(p))
FairSpec == Spec /\ Fairness
-----------------------------------------------------------------------------
\* Only the process that owns the name writes to the catalogue or acts on the
\* repository, and none does beside another (daemon.rs:25-29).
ActsAlone ==
  /\ \A p, q \in Procs : proc[p].writes /\ proc[q].writes => p = q
  /\ \A p \in Procs : proc[p].writes => owner = p \/ proc[p].lost

\* A restore that is prepared has its own extraction behind it, and all of
\* it: not what another process left, and not what another has swept away
\* (daemon.rs:173-178, restore.rs:117).
PreparedIsWhole ==
  \A p \in Procs, n \in Job :
    proc[p].jobs[n] = "prepared" => staging[n] = [of |-> proc[p].number, whole |-> TRUE]

\* What nobody holds is not left on the disk by a daemon that answers.
NothingIsLeftBehind ==
  \A p \in Procs, n \in Job :
    owner = p /\ staging[n].of # 0 => staging[n].of = proc[p].number

\* A daemon that leaves has nothing to do and nobody waiting (background.rs:363).
LeavesNothing == \A p \in Procs : Is(p, "leaving") => ~ Busy(p) /\ ~ window

\* Starting at login is as the setting says, once changes have been made and
\* unless somebody changed it since or masked it (background.rs:239, daemon.rs:302).
LoginFollows ==
  (\E p \in Procs : Is(p, "up") /\ owner = p) /\ applying = {} /\ ~ byHand =>
    unit = "masked" \/ ((unit = "enabled") = background)

\* One daemon acts at a time, on staging directories that are its own; it leaves
\* nothing undone, and starts at login as the person wants (daemon.rs,
\* background.rs).
ProcessSafety ==
  TypeOK /\ ActsAlone /\ PreparedIsWhole /\ NothingIsLeftBehind /\ LeavesNothing /\ LoginFollows

\* A daemon that fails is started again, until there is one that serves, or
\* it is told to stop (supervise.rs, the unit's Restart=on-failure).
ComesBack ==
  \A p \in Procs : Is(p, "failed") ~> (owner # None \/ Is(p, "down") \/ started = Starts)
=============================================================================
