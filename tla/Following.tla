----------------------------- MODULE Following -----------------------------
(***************************************************************************)
(* The window a restore of the whole computer is watched in                *)
(* (backtrack-gtk/src/ui/everything.rs): it holds nothing of its own but   *)
(* what it last drew, asks the daemon where the restore is every second    *)
(* and whenever a job ends, and has one button's work under way at a time. *)
(* The recovery it asks about is Recovery's; here only what is answered of *)
(* it (Recovery::status) and how it ended.                                 *)
(***************************************************************************)
EXTENDS Naturals, Sequences

CONSTANTS
  Requests,      \* bound: requests on their way at one time
  Turns,      \* bound: what the person, the disk and other clients do
  Circumstances

Possible ==
  {"elsewhere",  \* another client calls off the restore being watched
   "outlasted",  \* the question whether to stop is answered after the end
   "at once",    \* the end is handed over before the window has asked
   "restart"}    \* the daemon is restarted while a job is waited for

VARIABLES
  state,     \* RecoveryStatus.state
  fate,      \* how it ended, or that it has not
  clearing,  \* the job of cancel_recovery: what it is to do, and whether it has
  asks,      \* get_recovery calls not yet read
  answers,   \* those answered and not yet shown
  open,      \* the window is
  last,      \* what was drawn last
  heading,   \* what the window says
  told,      \* it has said that the restore was over
  cancelled, \* the restore was cancelled from here, and how
  dialog,    \* confirm_cancel's
  work,      \* the button's work under way, which is what busy is
  watched,   \* a run was drawn as running, and its end was while the window was open
  turns

daemon == <<state, fate, clearing>>
window == <<asks, answers, open, last, heading, told, cancelled, dialog, work>>
vars == <<daemon, window, watched, turns>>

-----------------------------------------------------------------------------
Restoring == {"running", "paused", "stopped"}
State == Restoring \cup {"review", "finished", "none"}
Ends == {"kept", "discarded"}
Works == {"nothing", "pause", "resume", "prepare review", "ask", "answer"} \cup Ends

TypeOK ==
  /\ state \in State /\ fate \in {"going", "back"} \cup Ends
  /\ clearing \in {"no", "cleared"} \cup Ends
  /\ asks \in 0 .. Requests /\ answers \in Seq(State) /\ asks + Len(answers) <= Requests
  /\ open \in BOOLEAN /\ last \in State \cup {"unread"}
  /\ heading \in State \cup Ends \cup {"unread"}
  /\ told \in BOOLEAN /\ cancelled \in Ends \cup {"no"} /\ dialog \in BOOLEAN
  /\ work \in Works /\ watched \in BOOLEAN /\ turns \in 0 .. Turns

Init ==
  /\ state \in Restoring /\ fate = "going" /\ clearing = "no"
  /\ asks = 0 /\ answers = <<>> /\ open = FALSE /\ last = "unread" /\ heading = "unread"
  /\ told = FALSE /\ cancelled = "no" /\ dialog = FALSE /\ work = "nothing"
  /\ watched = FALSE /\ turns = 0

Turn == turns < Turns /\ turns' = turns + 1

\* refresh: what is not asked for want of room will be asked by the next tick.
Refreshed == asks' = IF open /\ asks + Len(answers) < Requests THEN asks + 1 ELSE asks

-----------------------------------------------------------------------------
\* The daemon.

\* The window has drawn what there is, or need not have.
Drawn == asks = 0 /\ answers = <<>> /\ last = state

\* A run ends, with an error or with everything back; JobFinished is told.
RunEnds(s) ==
  /\ state = "running" /\ clearing = "no" /\ s \in {"stopped", "review", "finished"}
  /\ s = "stopped" => turns < Turns
  /\ turns' = IF s = "stopped" THEN turns + 1 ELSE turns
  /\ "outlasted" \in Circumstances \/ s = "stopped" \/ (~dialog /\ work \notin Ends)
  /\ state' = s /\ Refreshed
  /\ watched' = (s # "stopped" /\ open /\ last = "running")
  /\ UNCHANGED <<fate, clearing, answers, open, last, heading, told, cancelled, dialog, work>>

\* after_recovery: the record goes.
HandsOver ==
  /\ state = "finished" /\ clearing = "no"
  /\ "at once" \in Circumstances \/ ~open \/ last = state
  /\ state' = "none" /\ fate' = "back"
  /\ UNCHANGED <<clearing, window, watched, turns>>

\* cancel_recovery, from here or elsewhere: the job is cancelled, and another
\* puts things away and then ends.
Cancels(how) ==
  /\ state # "none" /\ clearing = "no"
  /\ clearing' = how
  /\ state' = IF state \in Restoring THEN "stopped" ELSE state
CancelledElsewhere(how) ==
  /\ open \/ work # "nothing" => "elsewhere" \in Circumstances
  /\ Turn
  /\ Cancels(how)
  /\ UNCHANGED <<fate, window, watched>>
Clears ==
  /\ clearing \in Ends
  /\ clearing' = "cleared" /\ state' = "none" /\ fate' = clearing
  /\ UNCHANGED <<window, watched, turns>>

\* The end of that job: run_job's answer, and one more reason to ask.
CancelEnds ==
  /\ clearing = "cleared" /\ clearing' = "no"
  /\ Refreshed
  /\ IF work \in Ends THEN cancelled' = work /\ work' = "nothing" ELSE UNCHANGED <<cancelled, work>>
  /\ UNCHANGED <<state, fate, answers, open, last, heading, told, dialog, watched, turns>>

\* What nobody waits for any more is not ended; a run begins again by itself.
DaemonRestarts ==
  /\ clearing # "no" \/ work # "nothing" => "restart" \in Circumstances
  /\ Turn
  /\ clearing' = "no"
  /\ state' = IF state = "stopped" THEN "running" ELSE state
  /\ UNCHANGED <<fate, window, watched>>

\* get_recovery is read; an answer may overtake the one before it.
Answers ==
  /\ asks > 0
  /\ asks' = asks - 1
  /\ answers' \in {Append(answers, state), <<state>> \o answers}
  /\ UNCHANGED <<daemon, open, last, heading, told, cancelled, dialog, work, watched, turns>>

-----------------------------------------------------------------------------
\* The window.

\* present, of a restore there is; what an earlier window knew went with it.
Opens ==
  /\ ~open /\ state # "none" /\ (clearing = "no" \/ "elsewhere" \in Circumstances) /\ asks = 0 /\ answers = <<>> /\ work = "nothing" /\ Turn
  /\ open' = TRUE /\ asks' = 1
  /\ last' = "unread" /\ heading' = "unread" /\ told' = FALSE /\ cancelled' = "no"
  /\ watched' = FALSE
  /\ UNCHANGED <<daemon, answers, dialog, work>>

\* watch: every second.
Asks ==
  /\ open /\ asks = 0 /\ answers = <<>>
  /\ asks' = 1
  /\ UNCHANGED <<daemon, answers, open, last, heading, told, cancelled, dialog, work, watched, turns>>

\* show_nothing_left.
NothingLeft == IF cancelled \in Ends THEN cancelled ELSE "none"

\* show: an end seen to come is said as well.
Shows ==
  /\ answers # <<>> /\ answers' = Tail(answers)
  /\ last' = Head(answers)
  /\ told' = (told \/ (last \in Restoring /\ last' \in {"finished", "review"}))
  /\ heading' = IF last' = "none" THEN NothingLeft ELSE last'
  /\ UNCHANGED <<daemon, asks, open, cancelled, dialog, work, watched, turns>>

Idle == open /\ work = "nothing" /\ ~dialog
Begins(w) == work' = w
\* work: the others wait for a button's work, and the daemon is asked after it.
Done == work' = "nothing" /\ Refreshed

PausesOrResumes ==
  /\ Idle /\ last \in {"running", "paused"} /\ Turn
  /\ Begins(IF last = "paused" THEN "resume" ELSE "pause")
  /\ UNCHANGED <<daemon, asks, answers, open, last, heading, told, cancelled, dialog, watched>>
\* pause_job of the job drawn, or resume_recovery; refused when it is not so any more.
PausedOrResumed ==
  /\ work \in {"pause", "resume"}
  /\ state' = CASE work = "pause" /\ state = "running" -> "paused"
                [] work = "resume" /\ state \in {"paused", "stopped"} /\ clearing = "no" -> "running"
                [] OTHER -> state
  /\ Done
  /\ UNCHANGED <<fate, clearing, answers, open, last, heading, told, cancelled, dialog, watched, turns>>

\* act, on Try Again and on Choose Which to Keep; otherwise the window goes.
TriesAgain ==
  /\ Idle /\ last = "stopped" /\ Turn
  /\ Begins("resume")
  /\ UNCHANGED <<daemon, asks, answers, open, last, heading, told, cancelled, dialog, watched>>
Reviews ==
  /\ Idle /\ last = "review" /\ Turn
  /\ Begins("prepare review")
  /\ UNCHANGED <<daemon, asks, answers, open, last, heading, told, cancelled, dialog, watched>>
Closes ==
  /\ open /\ Turn
  /\ open' = FALSE /\ dialog' = FALSE
  /\ UNCHANGED <<daemon, asks, answers, last, heading, told, cancelled, work, watched>>

\* prepare_recovery_review, get_restore_preview and summary::ask; then the answer is carried out.
ReviewIsPrepared ==
  /\ work = "prepare review"
  /\ IF state = "review" THEN work' = "ask" /\ UNCHANGED asks ELSE Done
  /\ UNCHANGED <<daemon, answers, open, last, heading, told, cancelled, dialog, watched, turns>>
ReviewIsAnswered(yes) ==
  /\ work = "ask"
  /\ IF yes THEN work' = "answer" /\ UNCHANGED asks ELSE Done
  /\ UNCHANGED <<daemon, answers, open, last, heading, told, cancelled, dialog, watched, turns>>
ReviewIsCarriedOut ==
  /\ work = "answer"
  /\ IF state = "review" /\ clearing = "no" THEN state' = "none" /\ fate' = "back" ELSE UNCHANGED <<state, fate>>
  /\ Done
  /\ UNCHANGED <<clearing, answers, open, last, heading, told, cancelled, dialog, watched, turns>>

\* Mutant: Cancel is offered for as long as there is anything.
ConfirmsWhenever ==
  /\ Idle /\ last \in State \ {"none"} /\ Turn
  /\ dialog' = TRUE
  /\ UNCHANGED <<daemon, asks, answers, open, last, heading, told, cancelled, work, watched>>

\* confirm_cancel, which is not work, and cancel_it.
Confirms ==
  /\ Idle /\ last \in Restoring /\ Turn
  /\ "outlasted" \in Circumstances \/ state \in Restoring
  /\ dialog' = TRUE
  /\ UNCHANGED <<daemon, asks, answers, open, last, heading, told, cancelled, work, watched>>
Declines ==
  /\ dialog /\ dialog' = FALSE
  /\ UNCHANGED <<daemon, asks, answers, open, last, heading, told, cancelled, work, watched, turns>>
\* Refused when there is nothing to stop.
Confirmed(how) ==
  /\ dialog /\ dialog' = FALSE
  /\ IF state = "none" THEN Done /\ UNCHANGED <<state, clearing>>
     ELSE /\ Begins(how) /\ UNCHANGED asks
          /\ IF clearing = "no" THEN Cancels(how) ELSE UNCHANGED <<state, clearing>>
  /\ UNCHANGED <<fate, answers, open, last, heading, told, cancelled, watched, turns>>

-----------------------------------------------------------------------------
Daemon ==
  \/ \E s \in State : RunEnds(s)
  \/ HandsOver \/ Clears \/ CancelEnds \/ Answers
WorkGoesOn == PausedOrResumed \/ ReviewIsPrepared \/ ReviewIsCarriedOut
App == Asks \/ Shows \/ WorkGoesOn
Person ==
  \/ Opens \/ PausesOrResumes \/ TriesAgain \/ Reviews \/ Closes \/ Confirms \/ Declines
  \/ \E how \in Ends : Confirmed(how) \/ CancelledElsewhere(how)
  \/ \E yes \in BOOLEAN : ReviewIsAnswered(yes)
  \/ DaemonRestarts
Next == Daemon \/ App \/ Person
Spec == Init /\ [][Next]_vars

\* The daemon and the window go on by themselves, and a dialog is answered.
Answered == Declines \/ \E yes \in BOOLEAN : ReviewIsAnswered(yes)
Fairness ==
  /\ WF_vars(HandsOver \/ Clears \/ CancelEnds) /\ WF_vars(Answers)
  /\ WF_vars(Asks \/ Shows) /\ WF_vars(WorkGoesOn \/ Answered)
FairSpec == Spec /\ Fairness

-----------------------------------------------------------------------------
Settled == open /\ asks = 0 /\ answers = <<>> /\ last = state /\ work = "nothing"

\* With every answer drawn, the window says how the restore is or how it ended:
\* never that files are back which were taken away (show, show_nothing_left).
SaysHowItIs ==
  Settled => IF state # "none" THEN heading = state
             ELSE heading = IF fate = "back" THEN "none" ELSE fate

\* A restore that was watched to its end is said to be over ("say so here as
\* well as on the desktop", everything.rs:271).
SaysWhenOver == Settled /\ watched /\ fate = "back" => told

FollowingSafety == TypeOK /\ SaysHowItIs /\ SaysWhenOver

\* What is taken away from here is a restore that was not through: its files were
\* not told of as back (confirm_cancel, cancel_recovery).
StopsWhatRuns ==
  [][work \notin Ends /\ work' \in Ends => state \in Restoring]_vars

\* A button's work is over some time, and the others are of use again (work);
\* and the end is shown for as long as somebody looks (watch).
Busy == work # "nothing"
Untold == open /\ fate # "going" /\ heading \notin {"none"} \cup Ends
FollowsToTheEnd == (Busy ~> ~Busy) /\ (Untold ~> ~Untold)
=============================================================================
