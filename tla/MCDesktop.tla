----------------------------- MODULE MCDesktop -----------------------------
(***************************************************************************)
(* The desktop's conversations with the daemon, on small instances: a      *)
(* restore that is asked about, the restore of everything being watched,   *)
(* the welcome wizard, the preferences and the guided repair.  Each is a   *)
(* window of its own, so a behaviour is about one of them.                 *)
(***************************************************************************)
EXTENDS Asking

VARIABLES
  state, fate, clearing, asks, answers, open, last, heading, told, cancelled,
  dialog, work, watched, turns,                              \* of Following
  conf, repos, pages, before, choices, place, protect, import, inspecting,
  pressed, first, chosen, settled, others, touched, keysKept, saved,  \* of Wizard
  held, moving, calls, replies, kept, shown, home, facing, wanted, done, outer, \* of Preferences
  condition, listed, aside, server, queue, step, onScreen, called, heard, acts, \* of Repairing
  about                         \* which of them the behaviour is about

Plans ==
  {[p \in {1, 2} |-> pair[p]] : pair \in
     {<<"missing", "identical">>, <<"identical", "identical">>, <<"only in backup", "identical">>,
      <<"conflict", "only in backup">>, <<"conflict", "type changed">>}}

Watching == INSTANCE Following WITH Requests <- 2, Turns <- 5, Circumstances <- {}
Welcome == INSTANCE Wizard WITH
  Places <- {"a", "b", "c"}, Passes <- {"p", "q"}, Theirs <- "a", Turns <- 4, Circumstances <- {},
  work <- pressed, turns <- chosen
Settings == INSTANCE Preferences WITH
  Folders <- {"docs", "pics", "disk"}, InHome <- {"docs", "pics"}, Exclusions <- {"p", "q"},
  Changes <- 3, Others <- 2, Circumstances <- {}
Repairs == INSTANCE Repairing WITH
  Dialogs <- {1, 2}, Acts <- 7, Circumstances <- {}, open <- onScreen

watching == <<state, fate, clearing, asks, answers, open, last, heading, told, cancelled,
              dialog, work, watched, turns>>
welcome == <<conf, repos, pages, before, choices, place, protect, import, inspecting,
             pressed, first, chosen, settled, others, touched, keysKept, saved>>
settings == <<held, moving, calls, replies, kept, shown, home, facing, wanted, done, outer>>
repairs == <<condition, listed, aside, server, queue, step, onScreen, called, heard, acts>>

\* What a behaviour is not about begins in one way only, and stays there.
DesktopInit ==
  /\ about \in {"asking", "following", "wizard", "preferences", "repairing"}
  /\ Init
  /\ Watching!Init /\ (about # "following" => state = "stopped")
  /\ Welcome!Init
  /\ Settings!Init
  /\ Repairs!Init /\ (about # "repairing" => condition = "sound" /\ ~server)
  /\ about # "wizard" => conf.repo = "none" /\ repos = [p \in {"a", "b", "c"} |-> "none"]
DesktopNext ==
  /\ UNCHANGED about
  /\ \/ about = "asking" /\ Next /\ UNCHANGED <<watching, welcome, settings, repairs>>
     \/ about = "following" /\ Watching!Next /\ UNCHANGED <<vars, welcome, settings, repairs>>
     \/ about = "wizard" /\ Welcome!Next /\ UNCHANGED <<vars, watching, settings, repairs>>
     \/ about = "preferences" /\ Settings!Next /\ UNCHANGED <<vars, watching, welcome, repairs>>
     \/ about = "repairing" /\ Repairs!Next /\ UNCHANGED <<vars, watching, welcome, settings>>
\* What is fair of one has nothing to do where it is about another.
DesktopSpec ==
  /\ DesktopInit /\ [][DesktopNext]_<<vars, watching, welcome, settings, repairs, about>>
  /\ Fairness /\ Watching!Fairness /\ Welcome!Fairness /\ Settings!Fairness
  /\ Repairs!Fairness

\* What is said is done, and what is done is said, in each of the windows
\* (ui/restore.rs, ui/everything.rs, ui/wizard/, ui/prefs.rs,
\* ui/fix/repair.rs).
DesktopSafety ==
  /\ AskingSafety /\ Watching!FollowingSafety /\ Welcome!WizardSafety
  /\ Settings!PreferencesSafety /\ Repairs!RepairingSafety

\* What is taken away from the window of a whole restore is one that was not
\* through (everything.rs, confirm_cancel; mod.rs, cancel_recovery).
StopsWhatRuns == Watching!StopsWhatRuns

\* Whatever the windows wait for comes (restore.rs, everything.rs, first_backup.rs,
\* prefs.rs, repair.rs).
Waits1 == Waiting \/ Watching!Busy \/ Welcome!Working \/ Repairs!AtWork
Waits2 == undos # {} \/ Watching!Untold \/ Welcome!BackingUp \/ Settings!Unsettled
WaitingIsOver == (Waits1 ~> ~Waits1) /\ (Waits2 ~> ~Waits2)
=============================================================================
