----------------------------- MODULE Repairing -----------------------------
(***************************************************************************)
(* The guided repair (backtrack-gtk/src/ui/fix/repair.rs) and what the     *)
(* daemon does for it: verify, repair and start_fresh.  The dialog checks  *)
(* the backups, offers a repair, checks that, and where nothing can be     *)
(* saved offers to put the backups aside and begin anew.  Closing it stops *)
(* nothing: a check or a repair that is under way carries on, and so does  *)
(* what the dialog does when it hears of its end.                          *)
(***************************************************************************)
EXTENDS Integers, Sequences, SequencesExt

CONSTANTS
  Dialogs, \* the times the dialog is opened
  Acts,    \* bound: what the person and the rest of the system do
  Circumstances

Possible ==
  {"stopped",   \* a check is cancelled, or the destination goes away under it
   "refused",   \* the check of a repair cannot begin
   "over",      \* the dialog is opened again while it is open
   "catalogue", \* the catalogue cannot be written once the backups are aside
   "restart"}   \* the daemon ends while the dialog waits for a job of it

VARIABLES
  condition,  \* of the repository: "sound", "damaged" or "hopeless"
  listed,     \* its backups are in the catalogue
  aside,      \* the condition it was put aside in, or "in use"
  server,     \* it is on a server, where it cannot be renamed
  queue,      \* the daemon's jobs: the first is running
  step, open, \* of each dialog
  called,     \* what a dialog has called and has no answer to
  heard,      \* how the job it waits for ended, if it did
  acts

vars == <<condition, listed, aside, server, queue, step, open, called, heard, acts>>

-----------------------------------------------------------------------------
Steps == {"not opened", "intro", "checking", "healthy", "offer", "repairing",
          "rechecking", "repaired", "unrecoverable"}
BusySteps == {"checking", "repairing", "rechecking"}
Job(d, what) == [of |-> d, what |-> what]
Others == 0 \* the owner of any other job
Idle == queue = <<>>

\* The dialog waits: for the answer to a call, or for the end of its job.
Busy(d) == step[d] \in BusySteps \/ called[d] # "nothing"
UnderWay(d) == called[d] # "nothing" \/ heard[d] # "nothing" \/ \E i \in DOMAIN queue : queue[i].of = d

TypeOK ==
  /\ condition \in {"sound", "damaged", "hopeless"} /\ listed \in BOOLEAN /\ server \in BOOLEAN
  /\ aside \in {"in use", "sound", "damaged", "hopeless"}
  /\ queue \in Seq([of : Dialogs \cup {Others}, what : {"check", "repair", "other"}])
  /\ step \in [Dialogs -> Steps] /\ open \in [Dialogs -> BOOLEAN]
  /\ called \in [Dialogs -> {"nothing", "verify", "repair", "start fresh"}]
  /\ heard \in [Dialogs -> {"nothing", "completed", "not completed"}] /\ acts \in 0 .. Acts

Init ==
  /\ condition \in {"sound", "damaged", "hopeless"} /\ listed = TRUE /\ aside = "in use"
  /\ server \in BOOLEAN /\ queue = <<>>
  /\ step = [d \in Dialogs |-> "not opened"] /\ open = [d \in Dialogs |-> FALSE]
  /\ called = [d \in Dialogs |-> "nothing"] /\ heard = [d \in Dialogs |-> "nothing"]
  /\ acts = 0

May == acts < Acts /\ acts' = acts + 1
Shows(d, s) == step' = [step EXCEPT ![d] = s]
Calls(d, what) == called' = [called EXCEPT ![d] = what]
Answered(d) == Calls(d, "nothing")

-----------------------------------------------------------------------------
\* The person, who is slower than an answer is.
Opens(d) ==
  /\ May /\ step[d] = "not opened" /\ aside = "in use"
  /\ "over" \in Circumstances \/ \A e \in Dialogs : ~open[e] /\ called[e] = "nothing"
  /\ Shows(d, "intro") /\ open' = [open EXCEPT ![d] = TRUE]
  /\ UNCHANGED <<condition, listed, aside, server, queue, called, heard>>

Closes(d) ==
  /\ open[d] /\ open' = [open EXCEPT ![d] = FALSE]
  /\ UNCHANGED <<condition, listed, aside, server, queue, step, called, heard, acts>>

\* The button that moves on.  Back Up Now and Choose a New Location close.
Advances(d) ==
  /\ May /\ open[d] /\ ~Busy(d)
  /\ \/ step[d] = "intro" /\ Shows(d, "checking") /\ Calls(d, "verify") /\ UNCHANGED <<open, queue>>
     \/ step[d] = "offer" /\ Shows(d, "repairing") /\ Calls(d, "repair") /\ UNCHANGED <<open, queue>>
     \/ /\ step[d] = "unrecoverable" /\ ~server /\ Calls(d, "start fresh")
        /\ UNCHANGED <<step, open, queue>>
     \/ /\ step[d] \in {"healthy", "repaired"} /\ open' = [open EXCEPT ![d] = FALSE]
        /\ queue' = Append(queue, Job(Others, "other")) /\ UNCHANGED <<step, called>>
     \/ /\ step[d] = "unrecoverable" /\ server /\ open' = [open EXCEPT ![d] = FALSE]
        /\ UNCHANGED <<step, called, queue>>
  /\ UNCHANGED <<condition, listed, aside, server, heard>>

\* The scheduler's jobs, or another client's.
OthersSubmit ==
  /\ May /\ queue' = Append(queue, Job(Others, "other"))
  /\ UNCHANGED <<condition, listed, aside, server, step, open, called, heard>>

-----------------------------------------------------------------------------
\* The daemon.

\* verify is queued behind whatever there is; repair is refused unless there
\* is nothing else.
Accepts(d) ==
  /\ \/ called[d] = "verify" /\ queue' = Append(queue, Job(d, "check"))
     \/ called[d] = "repair" /\ Idle /\ queue' = <<Job(d, "repair")>>
  /\ Answered(d)
  /\ UNCHANGED <<condition, listed, aside, server, step, open, heard, acts>>

\* A step could not begin: no engine can be made, other work is under way, or
\* there is nothing left to rename.
\* The dialog goes back to where the step was asked for.
Refuses(d) ==
  /\ \/ called[d] = "verify" /\ ("refused" \in Circumstances \/ step[d] # "rechecking") /\ May
     \/ called[d] = "repair" /\ IF Idle THEN May ELSE acts' = acts
     \/ /\ called[d] = "start fresh"
        /\ IF Idle /\ aside = "in use" THEN May ELSE acts' = acts
  /\ Shows(d, CASE step[d] = "checking" -> "intro"
                [] step[d] = "repairing" -> "offer"
                [] OTHER -> step[d])
  /\ Answered(d)
  /\ UNCHANGED <<condition, listed, aside, server, queue, open, heard>>

\* start_fresh: the repository is renamed, and then its backups are forgotten.
StartsFresh(d, written) ==
  /\ called[d] = "start fresh" /\ Idle /\ aside = "in use" /\ Answered(d)
  /\ aside' = condition
  /\ written \/ "catalogue" \in Circumstances
  /\ IF written THEN listed' = FALSE /\ open' = [open EXCEPT ![d] = FALSE]
                ELSE UNCHANGED <<listed, open>>
  /\ UNCHANGED <<condition, server, queue, step, heard, acts>>

Tell(d, how) == heard' = IF d = Others THEN heard ELSE [heard EXCEPT ![d] = how]

\* The running job ends: a check completes where the repository is sound, a
\* repair may complete without having repaired what is beyond it.
JobEnds ==
  /\ queue # <<>> /\ queue' = Tail(queue)
  /\ LET j == Head(queue) IN
     \/ j.what = "other" /\ UNCHANGED <<condition, heard>>
     \/ j.what = "check" /\ condition = "sound" /\ Tell(j.of, "completed") /\ UNCHANGED condition
     \/ /\ j.what = "check" /\ (condition # "sound" \/ "stopped" \in Circumstances)
        /\ Tell(j.of, "not completed") /\ UNCHANGED condition
     \/ /\ j.what = "repair" /\ Tell(j.of, "completed")
        /\ condition' = IF condition = "damaged" THEN "sound" ELSE condition
     \/ /\ j.what = "repair" /\ (condition = "hopeless" \/ "stopped" \in Circumstances)
        /\ Tell(j.of, "not completed") /\ UNCHANGED condition
  /\ UNCHANGED <<listed, aside, server, step, open, called, acts>>

\* The daemon ends, and its jobs with it; none of them is told to have ended.
DaemonEnds ==
  /\ May /\ ("restart" \in Circumstances \/ \A d \in Dialogs : ~UnderWay(d))
  /\ queue # <<>> /\ queue' = <<>>
  /\ UNCHANGED <<condition, listed, aside, server, step, open, called, heard>>

-----------------------------------------------------------------------------
\* The end of the job is heard of, whether the dialog is open or not.
Hears(d) ==
  /\ heard[d] # "nothing" /\ heard' = [heard EXCEPT ![d] = "nothing"]
  /\ LET well == heard[d] = "completed" IN
     \/ step[d] = "checking" /\ Shows(d, IF well THEN "healthy" ELSE "offer") /\ UNCHANGED called
     \/ step[d] = "rechecking" /\ UNCHANGED called
        /\ Shows(d, IF well THEN "repaired" ELSE "unrecoverable")
     \/ step[d] = "repairing" /\ well /\ Shows(d, "rechecking") /\ Calls(d, "verify")
     \/ step[d] = "repairing" /\ ~well /\ Shows(d, "unrecoverable") /\ UNCHANGED called
  /\ UNCHANGED <<condition, listed, aside, server, queue, open, acts>>

Answers(d) == Accepts(d) \/ Refuses(d) \/ \E b \in BOOLEAN : StartsFresh(d, b)

Next ==
  \/ \E d \in Dialogs : Opens(d) \/ Closes(d) \/ Advances(d) \/ Answers(d) \/ Hears(d)
  \/ OthersSubmit \/ JobEnds \/ DaemonEnds

\* Calls are answered, jobs end, and the main loop hears of it.
Fairness == WF_vars(JobEnds \/ \E d \in Dialogs : Answers(d) \/ Hears(d))
Spec == Init /\ [][Next]_vars /\ Fairness

-----------------------------------------------------------------------------
\* What an open dialog says of the backups is so (words).
SaysWhatWasFound ==
  \A d \in Dialogs : open[d] /\ aside = "in use" =>
    /\ step[d] = "offer" => condition # "sound"
    /\ step[d] \in {"healthy", "repaired"} => condition = "sound"
    /\ step[d] = "unrecoverable" => condition = "hopeless"

\* Only backups that cannot be repaired are put aside (start_fresh), and then
\* none of theirs is offered any more.
OnlyTheHopeless ==
  /\ aside \in {"in use", "hopeless"}
  /\ aside # "in use" => ~listed

\* A dialog that says it is at work has work under way (failed_to_start: "A
\* step could not begin: say why and let it be tried again").
StillUnderWay == \A d \in Dialogs : Busy(d) => UnderWay(d)

RepairingSafety == TypeOK /\ SaysWhatWasFound /\ OnlyTheHopeless /\ StillUnderWay

\* No dialog is at work for ever.
AtWork == \E d \in Dialogs : Busy(d)
=============================================================================
