---------------------------- MODULE BorgStreams -----------------------------
(***************************************************************************)
(* One Borg process and those that listen to it (backtrack-core/src/       *)
(* engine/borg: invoke.rs, mod.rs, classify.rs, logjson.rs; engine/job.rs; *)
(* backtrackd/src/pipeline.rs): the task that reads what it says, the      *)
(* stream of events, a file or a listing made of it, and how it is let go  *)
(* of.  Between Borg and its readers are pipes, which hold so much and     *)
(* then make Borg wait.                                                    *)
(*                                                                         *)
(* What Borg itself does is external.  It edits the repository's lock as   *)
(* it takes and gives it up, and killed then it leaves the lock behind.    *)
(***************************************************************************)
EXTENDS Naturals, Sequences, FiniteSets, SequencesExt

CONSTANTS
  Units,    \* what Borg has to tell: items of a listing, pieces of a file, files done
  Pipe,     \* what a pipe holds
  Channel,  \* the events a job's stream holds
  Circumstances

Possible ==
  {"cut",      \* Borg fails in a listing
   "crowded",  \* a job is called off while Borg waits for the pipe of its messages
   "shutdown", \* the daemon ends while a job is under way
   "garbled"}  \* a line of Borg's is not text

VARIABLES
  use,     \* what Borg was started for
  borg,    \* the process
  out,     \* how much of its output is in the pipe
  err,     \* the lines in the pipe of its messages
  reader,  \* the task that reads them: where it is, and the line it passes on
  heard,   \* the lines it keeps as evidence (errbuf, errors)
  stream,  \* the job's events on their way
  grace,   \* somebody waits for a Borg that was told to stop (CANCEL_GRACE)
  owner,   \* who wants the result: "waits", "lets go" or "done"
  got,     \* how much of it there is
  outcome, \* what it came to
  catalogued \* of a listing: "no", "rolled back" or "committed"

vars == <<use, borg, out, err, reader, heard, stream, grace, owner, got, outcome, catalogued>>

-----------------------------------------------------------------------------
\* A job with progress (spawn_streamed), a check or repair (spawn_check), a file
\* (spawn_stdout), a listing (list_archive), anything short (run_to_completion).
Uses == {"job", "check", "file", "listing", "command"}
Streamed == use \in {"job", "check"}
ToOutput == use \in {"file", "listing", "command"}

\* What may go wrong with Borg, and what it and ssh say then.
Says ==
  [PassphraseWrong |-> <<"passphrase">>, AuthFailed |-> <<"denied", "closed">>,
   DestinationUnwritable |-> <<"no lock for want of permission">>,
   RepoUnreachable |-> <<"closed">>, LockedByOther |-> <<"no lock">>,
   RepoCorrupt |-> <<"inconsistent">>, BorgFailed |-> <<"other">>]
Causes == DOMAIN Says

(***************************************************************************)
(* classify: the kinds of error are looked for one after another in all    *)
(* that was said.  A line may fit several: Borg, when it may not write,    *)
(* says that it could not take its lock.                                   *)
(***************************************************************************)
Fits ==
  [PassphraseWrong |-> {"passphrase"}, AuthFailed |-> {"denied"},
   DestinationUnwritable |-> {"no lock for want of permission"},
   RepoUnreachable |-> {"closed"},
   LockedByOther |-> {"no lock", "no lock for want of permission"},
   RepoCorrupt |-> {"inconsistent"}]
Order == <<"PassphraseWrong", "AuthFailed", "DestinationUnwritable", "RepoUnreachable",
           "LockedByOther", "RepoCorrupt">>
Classified(lines) ==
  LET found == {i \in DOMAIN Order : Fits[Order[i]] \cap lines # {}}
  IN IF found = {} THEN "BorgFailed" ELSE Order[Min(found)]

\* is_evidence: Borg's errors, and the words of ssh that it passes on as warnings.
FromSsh == {"denied"}
IsEvidence(line) == line \in FromSsh \cup UNION {ToSet(Says[c]) : c \in Causes}

\* classify_exit, and what is made of it: a warning is the normal end of all but
\* a check, where it is damage.
Verdict(code, lines) ==
  CASE code = "success" -> "ok"
    [] code = "warning" -> IF use = "check" THEN "RepoCorrupt" ELSE "ok"
    [] OTHER            -> Classified(lines)

-----------------------------------------------------------------------------
Runs == borg.at # "exited"
Kill(b) == [b EXCEPT !.at = "exited", !.code = "killed"]
RoomToSay == use = "listing" \/ Len(err) < Pipe
\* A line put into the pipe; a listing's messages are not kept.
Said(line) == IF use = "listing" THEN err ELSE Append(err, line)
HasReader == Streamed \/ use = "file"

Init ==
  /\ use \in Uses
  /\ borg = [at |-> "taking", wrote |-> 0, code |-> "none", cause |-> "none",
             saying |-> <<>>, told |-> FALSE, hung |-> FALSE]
  /\ out = 0 /\ err = <<>>
  /\ reader = [at |-> IF HasReader THEN "reading" ELSE "none", line |-> "none"]
  /\ heard = {} /\ stream = <<>> /\ grace = FALSE
  /\ owner = "waits" /\ got = 0 /\ outcome = "none" /\ catalogued = "no"

\* A command that has ended and was heard.
Over ==
  /\ use = "command"
  /\ borg = [at |-> "exited", wrote |-> 0, code |-> "error", cause |-> "told",
             saying |-> <<>>, told |-> TRUE, hung |-> FALSE]
  /\ out = 0 /\ err = <<>> /\ reader = [at |-> "none", line |-> "none"]
  /\ heard = {} /\ stream = <<>> /\ grace = FALSE
  /\ owner = "done" /\ got = 0 /\ outcome = "none" /\ catalogued = "no"

-----------------------------------------------------------------------------
(* Borg. *)
ours == <<use, reader, heard, stream, grace, owner, got, outcome, catalogued>>

TakesLock ==
  /\ borg.at = "taking" /\ ~borg.hung /\ ~borg.told
  /\ borg' = [borg EXCEPT !.at = "working"]
  /\ UNCHANGED <<ours, out, err>>

\* A unit of its output, or a line on a file that is done.  Nobody left to read
\* its output ends it (EPIPE).
Writes ==
  /\ borg.at = "working" /\ ~borg.hung /\ ~borg.told /\ borg.wrote < Units
  /\ IF ToOutput /\ owner = "lets go"
     THEN /\ borg' = [borg EXCEPT !.at = "giving up", !.code = "error", !.cause = "BorgFailed"]
          /\ UNCHANGED <<out, err>>
     ELSE /\ borg' = [borg EXCEPT !.wrote = @ + 1]
          /\ IF ToOutput THEN out < Pipe /\ out' = out + 1 /\ UNCHANGED err
             ELSE Len(err) < Pipe /\ err' = Append(err, "item") /\ UNCHANGED out
  /\ UNCHANGED ours

\* It has done what it was started for, perhaps with something to mention.
Finishes(code) ==
  /\ borg.at = "working" /\ ~borg.hung /\ ~borg.told /\ borg.wrote = Units
  /\ borg' = [borg EXCEPT !.at = "giving up", !.code = code]
  /\ UNCHANGED <<ours, out, err>>

Fails(cause) ==
  /\ borg.at \in {"taking", "working"} /\ ~borg.hung /\ ~borg.told
  /\ use = "listing" => "cut" \in Circumstances
  /\ borg' = [borg EXCEPT !.at = "failing", !.code = "error", !.cause = cause,
                          !.saying = Says[cause]]
  /\ UNCHANGED <<ours, out, err>>

SaysWhy ==
  /\ borg.at = "failing" /\ ~borg.hung
  /\ IF borg.saying = <<>>
     THEN borg' = [borg EXCEPT !.at = "giving up"] /\ UNCHANGED err
     ELSE RoomToSay /\ err' = Said(Head(borg.saying))
          /\ borg' = [borg EXCEPT !.saying = Tail(@)]
  /\ UNCHANGED <<ours, out>>

\* Told to stop it writes its checkpoint, and says so.
Stops ==
  /\ borg.told /\ borg.at \in {"taking", "working"} /\ ~borg.hung
  /\ RoomToSay /\ err' = Said("item")
  /\ borg' = [borg EXCEPT !.at = "giving up", !.code = "error", !.cause = "told"]
  /\ UNCHANGED <<ours, out>>

GivesUpLock ==
  /\ borg.at = "giving up" /\ ~borg.hung
  /\ borg' = [borg EXCEPT !.at = "exited"]
  /\ UNCHANGED <<ours, out, err>>

\* A server, or the disk under it, does not answer.
Hangs ==
  /\ Runs /\ ~borg.hung /\ borg' = [borg EXCEPT !.hung = TRUE]
  /\ UNCHANGED <<ours, out, err>>

-----------------------------------------------------------------------------
(* The task that reads its messages: spawn's, or the one of spawn_stdout. *)
process == <<use, borg, out, owner, got, outcome, catalogued>>

\* forward_line: what is evidence is kept, and the event is passed on.  After a
\* line that cannot be read the loop is left for what drains the rest, whatever
\* is asked meanwhile.
TakesLine(text) ==
  /\ reader.at \in {"reading", "draining"} /\ reader.line = "none" /\ err # <<>>
  /\ text \/ ("garbled" \in Circumstances /\ reader.at = "reading")
  /\ err' = Tail(err)
  /\ heard' = IF text /\ IsEvidence(Head(err)) THEN heard \cup {Head(err)} ELSE heard
  /\ reader' = IF text
                THEN IF Streamed THEN [reader EXCEPT !.line = Head(err)] ELSE reader
                ELSE [reader EXCEPT !.at = IF Streamed THEN "draining" ELSE "done"]
  /\ UNCHANGED <<process, stream, grace>>

\* The event is sent as soon as there is room, or dropped with the job.
PassesOn ==
  /\ reader.line # "none"
  /\ \/ owner = "lets go" /\ UNCHANGED stream
     \/ owner = "waits" /\ Len(stream) < Channel /\ stream' = Append(stream, "event")
  /\ reader' = [reader EXCEPT !.line = "none"]
  /\ UNCHANGED <<process, err, heard, grace>>

\* send_sigterm, and from then on only the exit is waited for.
LastWords == IF borg.at = "failing" THEN Len(borg.saying) ELSE 1
SeesCancel ==
  /\ Streamed /\ reader.at = "reading" /\ reader.line = "none" /\ owner = "lets go"
  /\ Runs => Len(err) + LastWords <= Pipe \/ "crowded" \in Circumstances
  /\ reader' = [reader EXCEPT !.at = "stopping"] /\ grace' = TRUE
  /\ borg' = [borg EXCEPT !.told = Runs]
  /\ UNCHANGED <<use, out, err, heard, stream, owner, got, outcome, catalogued>>

\* Nothing more comes: the exit is waited for, and says how it went.
SeesEnd ==
  /\ reader.at \in {"reading", "draining"} /\ reader.line = "none" /\ err = <<>> /\ ~Runs
  /\ reader' = [reader EXCEPT !.at = IF Streamed THEN "reporting" ELSE "done"]
  /\ UNCHANGED <<process, err, heard, stream, grace>>
SeesItStopped ==
  /\ reader.at = "stopping" /\ ~Runs
  /\ reader' = [reader EXCEPT !.at = "done"] /\ grace' = FALSE
  /\ UNCHANGED <<process, err, heard, stream>>

\* JobEvent::Finished, the last event.
Reports ==
  /\ reader.at = "reporting"
  /\ \/ owner = "lets go" /\ UNCHANGED stream
     \/ /\ owner = "waits" /\ Len(stream) < Channel
        /\ stream' = Append(stream, Verdict(borg.code, heard))
  /\ reader' = [reader EXCEPT !.at = "done"]
  /\ UNCHANGED <<process, err, heard, grace>>

(***************************************************************************)
(* Whoever told Borg to stop kills it when the grace is over.  It takes    *)
(* longer than its grace only if it hangs, or waits for a pipe that nobody *)
(* reads any more.                                                         *)
(***************************************************************************)
WaitsForThePipe ==
  /\ borg.at \in {"taking", "working"} \/ borg.saying # <<>>
  /\ ~RoomToSay /\ reader.at = "stopping"
GraceIsOver ==
  /\ grace /\ Runs /\ (borg.hung \/ WaitsForThePipe)
  /\ borg' = Kill(borg) /\ grace' = (reader.at = "stopping")
  /\ UNCHANGED <<use, out, err, reader, heard, stream, owner, got, outcome, catalogued>>

-----------------------------------------------------------------------------
(* The one who wants the result. *)
world == <<use, err, heard>>

\* A job's events, of which the registry and the pipeline take the last for
\* what the job came to (drive_measured, registry.rs).
TakesEvent ==
  /\ Streamed /\ owner = "waits" /\ stream # <<>>
  /\ stream' = Tail(stream)
  /\ IF Head(stream) = "event" THEN UNCHANGED <<owner, outcome>>
     ELSE owner' = "done" /\ outcome' = Head(stream)
  /\ UNCHANGED <<world, borg, out, reader, grace, got, catalogued>>

\* A piece of the file, an item of the listing, what the command prints.
TakesOutput ==
  /\ owner = "waits" /\ out > 0
  /\ out' = out - 1 /\ got' = got + 1
  /\ UNCHANGED <<world, borg, reader, stream, grace, owner, outcome, catalogued>>

\* What a command says is collected while it runs (output()).
Collects ==
  /\ use = "command" /\ err # <<>>
  /\ err' = Tail(err) /\ heard' = IF IsEvidence(Head(err)) THEN heard \cup {Head(err)} ELSE heard
  /\ UNCHANGED <<use, borg, out, reader, stream, grace, owner, got, outcome, catalogued>>

\* BorgStdout: the end of the output is not the end of the file, which is Borg's
\* to say.  A command's exit is looked at in the same way (finished).
HearsVerdict ==
  /\ use \in {"file", "command"} /\ owner = "waits" /\ out = 0 /\ ~Runs
  /\ IF use = "file" THEN reader.at = "done" ELSE err = <<>>
  /\ owner' = "done" /\ outcome' = Verdict(borg.code, heard)
  /\ UNCHANGED <<world, borg, out, reader, stream, grace, got, catalogued>>

\* A listing ends where the output does; the exit is awaited and not looked at.
\* Its last batch closes the ingest, which commits.
ListingEnds ==
  /\ use = "listing" /\ owner = "waits" /\ out = 0 /\ ~Runs
  /\ owner' = "done" /\ outcome' = "ok" /\ catalogued' = "committed"
  /\ UNCHANGED <<world, borg, out, reader, stream, grace, got>>

(***************************************************************************)
(* A job's stream is dropped, which its reader notices, unless the daemon  *)
(* ends and the reader with it (kill_on_drop); a file is not wanted any    *)
(* more, or an item of a listing cannot be read or finds the job called    *)
(* off, and Stopping tells Borg.  A listing that breaks off is rolled back *)
(* by the marker that follows it.                                          *)
(***************************************************************************)
LetsGo(shutdown) ==
  /\ use # "command" /\ owner = "waits" /\ (use = "listing" => out > 0)
  /\ shutdown => "shutdown" \in Circumstances /\ Streamed /\ Runs
  /\ owner' = "lets go" /\ stream' = <<>>
  /\ IF Streamed THEN UNCHANGED <<grace, out>>
     ELSE out' = 0 /\ grace' = Runs
  /\ borg' = IF shutdown THEN Kill(borg)
             ELSE IF Streamed THEN borg ELSE [borg EXCEPT !.told = Runs]
  /\ reader' = IF shutdown THEN [at |-> "done", line |-> "none"] ELSE reader
  /\ catalogued' = IF use = "listing" THEN "rolled back" ELSE catalogued
  /\ UNCHANGED <<world, got, outcome>>

-----------------------------------------------------------------------------
Borg ==
  \/ TakesLock \/ Writes \/ SaysWhy \/ Stops \/ GivesUpLock
  \/ \E code \in {"success", "warning"} : Finishes(code)
Reader ==
  \/ (\E text \in BOOLEAN : TakesLine(text)) \/ PassesOn \/ SeesCancel \/ SeesEnd \/ SeesItStopped \/ Reports
  \/ GraceIsOver
Owner == TakesEvent \/ TakesOutput \/ Collects \/ HearsVerdict \/ ListingEnds
Next ==
  \/ Borg \/ Reader \/ Owner
  \/ Hangs \/ \E shutdown \in BOOLEAN : LetsGo(shutdown)
  \/ \E cause \in Causes : Fails(cause)

\* Borg, unless it hangs, goes on; the runtime polls what can go on, and its timers.
Fairness == WF_vars(Borg) /\ WF_vars(Reader) /\ WF_vars(Owner)
Spec == Init /\ [][Next]_vars
FairSpec == Spec /\ Fairness

-----------------------------------------------------------------------------
TypeOK ==
  /\ use \in Uses /\ out \in 0 .. Pipe /\ Len(err) <= Pipe /\ Len(stream) <= Channel
  /\ borg.at \in {"taking", "working", "failing", "giving up", "exited"}
  /\ borg.code \in {"none", "success", "warning", "error", "killed"}
  /\ reader.at \in {"none", "reading", "draining", "stopping", "reporting", "done"}
  /\ owner \in {"waits", "lets go", "done"} /\ got \in 0 .. Units
  /\ outcome \in Causes \cup {"none", "ok"}

\* What is handed over as a success is what Borg did successfully, and all of it:
\* a file or a listing with less is not one (spawn_stdout, Batch), and a check
\* that ended with a warning is damage (spawn_check).
CleanEndIsWhole ==
  outcome = "ok" =>
    /\ borg.code = "success" \/ (borg.code = "warning" /\ use # "check")
    /\ ToOutput => got = Units

\* What is in the catalogue of an archive is all its listing, or nothing (Batch).
CommittedIsWhole == catalogued = "committed" => got = Units

\* A failure is named for what it was, by all that was said before the end: what
\* a server refuses is told from one that went away, and a place that cannot be
\* written to from one in use (classify.rs).
FailureIsNamed ==
  owner = "done" /\ borg.code = "error" /\ borg.cause \in Causes => outcome = borg.cause

\* Borg is killed only when it does not stop by itself (Stopping, spawn): killed
\* as it edits the lock it leaves the lock behind.
StopsByItself == borg.code = "killed" => borg.hung

\* A Borg that is let go of is told, or its reader will see to it next.
LetGoIsTold ==
  owner = "lets go" /\ Runs => borg.told \/ (Streamed /\ reader.at = "reading")

BorgSafety ==
  /\ TypeOK /\ CleanEndIsWhole /\ CommittedIsWhole /\ FailureIsNamed /\ StopsByItself
  /\ LetGoIsTold

\* Who waits for a Borg that does not hang hears how it ended, and one let go of
\* ends: neither waits for the other over a full pipe (spawn_stdout, forward_line).
Underway == (owner = "waits" /\ ~borg.hung) \/ (owner = "lets go" /\ Runs)
EndsAreHeard == Underway ~> ~Underway
=============================================================================
