---------------------------- MODULE PreviewCache ----------------------------
(***************************************************************************)
(* The files extracted for previews and comparisons: PreviewCache of       *)
(* backtrackd/src/service/preview.rs and its callers preview_file,         *)
(* cache_extraction (of compare_file) and clear_preview_cache.             *)
(*                                                                         *)
(* The calls run side by side on the runtime's threads and share nothing   *)
(* but the directory, so every look at it and every change of it is a step *)
(* of its own.  The modification times, by which the cache knows what was  *)
(* used last, are the order of `dir'.                                      *)
(***************************************************************************)
EXTENDS Integers, Sequences, FiniteSetsExt, SequencesExt

CONSTANTS
  Callers,        \* calls that can be under way at once
  Files,          \* pairs of an archive and a path; their hashes differ
  Size,           \* the bytes of each
  Capacity,       \* CAPACITY_BYTES
  Calls,          \* bound: calls ever made
  Restarts,       \* bound: times the daemon is stopped and started
  Circumstances   \* what is allowed to happen, of those below
     \* "together"  two calls look at the directory and make room at once
     \* "late"      a comparison's copy fails once it is written
     \* "kill"      the daemon is stopped before it has made room

TooMuch == Capacity + 1
Least(n) == Min({n, TooMuch})

VARIABLES
  dir,        \* the directory, what was modified longest ago first
  call,       \* what each caller is at
  made,       \* the calls made so far, which numbers the unfinished files
  restarts    \* the restarts so far
vars == <<dir, call, made, restarts>>

(***************************************************************************)
(* A file of the directory: an entry (part 0) or an extraction still being *)
(* written (part n, of the n-th call).                                     *)
(***************************************************************************)
Record == [file : Files, part : 0 .. Calls, bytes : Nat]
Is(r, f, n) == r.file = f /\ r.part = n
Holds(d, f, n) == \E i \in DOMAIN d : Is(d[i], f, n)
Without(d, f, n) == SelectSeq(d, LAMBDA r : ~ Is(r, f, n))
The(d, f, n) == d[CHOOSE i \in DOMAIN d : Is(d[i], f, n)]
Total(d) == FoldLeft(LAMBDA sum, r : sum + r.bytes, 0, d)

\* `others' are the bytes of what others have used since the call began, or
\* more than the cache has if it was being cleared, and no more is counted
\* than that; `over' are the bytes still too much.
NoCall == [step |-> "idle", kind |-> "clear", file |-> CHOOSE f \in Files : TRUE,
           part |-> 0, bytes |-> 0, scan |-> <<>>, over |-> 0, others |-> 0,
           got |-> "nothing"]

Steps == {"idle", "create", "write", "rename", "scan", "evict", "touch", "open"}
Call == [step : Steps, kind : {"preview", "compare", "clear"}, file : Files,
         part : 0 .. Calls, bytes : Nat, scan : Seq(Record), over : Int,
         others : 0 .. TooMuch, got : {"nothing", "whole", "cut", "gone", "failed"}]

TypeOK ==
  /\ dir \in Seq(Record) /\ call \in [Callers -> Call]
  /\ made \in 0 .. Calls /\ restarts \in 0 .. Restarts
  /\ \A i, j \in DOMAIN dir : Is(dir[i], dir[j].file, dir[j].part) => i = j

Does(c, step) == call[c].step = step
Goes(c, step) == [call EXCEPT ![c].step = step]
Under(c) == call[c].step # "idle"

\* A call is over, with what it got.
Ends(c, got) ==
  call' = [call EXCEPT ![c] = [NoCall EXCEPT !.got = got, !.kind = call[c].kind,
                                 !.file = call[c].file, !.others = call[c].others]]

\* A call that is between two awaits: nothing but the threads of the runtime
\* lets another one in that neither waits for the disk.
Busy(c) == \/ Does(c, "touch") \/ Does(c, "open")
           \/ Does(c, "evict") /\ call[c].kind # "clear"
OneAtATime == "together" \in Circumstances \/ \A c \in Callers : ~ Busy(c)

Init ==
  /\ dir = <<>>
  /\ call = [c \in Callers |-> NoCall]
  /\ made = 0 /\ restarts = 0
-----------------------------------------------------------------------------
\* The bytes that those under way use when a call for `f' begins; what was
\* used since the first of those at the same file began counts as well,
\* because the last of them to end gives the entry the time of its own copy.
Used(f) ==
  LET busy == {e \in Callers : Under(e)}
  IN  Least(FoldSet(LAMBDA e, sum : sum + Size[call[e].file], 0, busy)
            + Max({0} \cup {call[e].others : e \in {e \in busy : call[e].file = f}}))
Clearing == \E c \in Callers : Under(c) /\ call[c].kind = "clear"

\* Mutant: one name for all that extract a file.
PartialPathShared(n) == 1

\* partial_path: a name that no other extraction uses.
PartialPath(n) == n

\* preview_file and cache_extraction: the entry is there, or is to be
\* extracted.  The registry runs one comparison at a time.
Asks(c, kind, f) ==
  /\ ~ Under(c) /\ made < Calls /\ OneAtATime
  /\ kind = "compare" => \A d \in Callers : ~ (Under(d) /\ call[d].kind = "compare")
  /\ made' = made + 1
  /\ call' = [d \in Callers |->
       IF d = c
       THEN [NoCall EXCEPT !.kind = kind, !.file = f, !.part = PartialPath(made + 1),
               !.others = IF Clearing THEN TooMuch ELSE Used(f),
               !.step = CASE ~ Holds(dir, f, 0) -> "create"
                          [] Holds(dir, f, 0) /\ kind = "preview" -> "touch"
                          [] OTHER -> "idle"]
       ELSE IF Under(d) THEN [call[d] EXCEPT !.others = Least(@ + Size[f])] ELSE call[d]]
  /\ UNCHANGED <<dir, restarts>>

\* extract_stdout fails, or copying what it gives: the unfinished file goes,
\* but for one of a comparison that fails once it is written.
Fails(c) ==
  LET late == /\ "late" \in Circumstances /\ call[c].kind = "compare"
              /\ Does(c, "write") /\ call[c].bytes = Size[call[c].file]
  IN  /\ Does(c, "create") \/ Does(c, "write")
      /\ dir' = IF late THEN dir ELSE Without(dir, call[c].file, call[c].part)
      /\ Ends(c, "failed")
      /\ UNCHANGED <<made, restarts>>

\* File::create at partial_path: a name of this call alone.
Creates(c) ==
  LET f == call[c].file
      n == call[c].part
  IN  /\ Does(c, "create")
      /\ dir' = Append(Without(dir, f, n), [file |-> f, part |-> n, bytes |-> 0])
      /\ call' = Goes(c, "write")
      /\ UNCHANGED <<made, restarts>>

\* tokio::io::copy, a piece at a time, whether the file still has a name.
Writes(c) ==
  LET f == call[c].file
      n == call[c].part
  IN  /\ Does(c, "write") /\ call[c].bytes < Size[f]
      /\ dir' = IF Holds(dir, f, n)
                THEN Append(Without(dir, f, n),
                            [The(dir, f, n) EXCEPT !.bytes = call[c].bytes + 1])
                ELSE dir
      /\ call' = [call EXCEPT ![c].bytes = @ + 1]
      /\ UNCHANGED <<made, restarts>>

\* flush and sync_all at the end of it.
Written(c) ==
  /\ Does(c, "write") /\ call[c].bytes = Size[call[c].file]
  /\ call' = Goes(c, "rename")
  /\ UNCHANGED <<dir, made, restarts>>

\* An unfinished file takes the entry's name, and what had it is gone.
Renamed(d, f, n) ==
  LET rest == Without(d, f, 0)
  IN  [i \in DOMAIN rest |-> IF Is(rest[i], f, n) THEN [rest[i] EXCEPT !.part = 0] ELSE rest[i]]

\* rename over the entry: it keeps the time of its last write.
Renames(c) ==
  LET f == call[c].file
      n == call[c].part
  IN  /\ Does(c, "rename")
      /\ IF Holds(dir, f, n)
         THEN dir' = Renamed(dir, f, n) /\ call' = Goes(c, "scan")
         ELSE Ends(c, "gone") /\ UNCHANGED dir
      /\ UNCHANGED <<made, restarts>>

-----------------------------------------------------------------------------

\* sort_by_key on the modification time.
ByUse(d) == d

\* evict_to_fit: all that is in the directory is added up, the unfinished
\* too, and the longest unused go until the rest fits.
MakesRoom(c) ==
  /\ Does(c, "scan")
  /\ OneAtATime
  /\ IF Total(dir) <= Capacity
     THEN IF call[c].kind = "preview" THEN call' = Goes(c, "touch") ELSE Ends(c, "nothing")
     ELSE call' = [call EXCEPT ![c].step = "evict", ![c].scan = ByUse(dir),
                               ![c].over = Total(dir) - Capacity]
  /\ UNCHANGED <<dir, made, restarts>>

\* One remove_file.  What is not there any more makes no room.
Evicts(c) ==
  LET oldest == Head(call[c].scan)
  IN  /\ Does(c, "evict") /\ call[c].scan # <<>> /\ call[c].over > 0
      /\ dir' = Without(dir, oldest.file, oldest.part)
      /\ call' = [call EXCEPT ![c].scan = Tail(@),
                    ![c].over = IF Holds(dir, oldest.file, oldest.part)
                                THEN @ - oldest.bytes ELSE @]
      /\ UNCHANGED <<made, restarts>>

RoomIsMade(c) ==
  /\ Does(c, "evict") /\ (call[c].scan = <<>> \/ call[c].over <= 0)
  /\ IF call[c].kind = "preview"
     THEN call' = [call EXCEPT ![c].step = "touch", ![c].scan = <<>>, ![c].over = 0]
     ELSE Ends(c, "nothing")
  /\ UNCHANGED <<dir, made, restarts>>

\* clear: all that a look at the directory finds goes, one by one.
Clears(c) ==
  /\ ~ Under(c) /\ made < Calls
  /\ made' = made + 1
  /\ call' = [d \in Callers |->
       IF d = c
       THEN [NoCall EXCEPT !.step = "evict", !.scan = dir, !.over = Total(dir) + 1]
       ELSE IF Under(d) THEN [call[d] EXCEPT !.others = TooMuch] ELSE call[d]]
  /\ UNCHANGED <<dir, restarts>>

\* touch: used just now, if it is there.
Touches(c) ==
  LET f == call[c].file
  IN  /\ Does(c, "touch")
      /\ dir' = IF Holds(dir, f, 0) THEN Append(Without(dir, f, 0), The(dir, f, 0)) ELSE dir
      /\ call' = Goes(c, "open")
      /\ UNCHANGED <<made, restarts>>

\* File::open: from here on the caller has the file, whatever becomes of it.
Opens(c) ==
  LET f == call[c].file
  IN  /\ Does(c, "open")
      /\ Ends(c, CASE ~ Holds(dir, f, 0) -> "gone"
                   [] Holds(dir, f, 0) /\ The(dir, f, 0).bytes = Size[f] -> "whole"
                   [] OTHER -> "cut")
      /\ UNCHANGED <<dir, made, restarts>>

\* The daemon is stopped, with what it was extracting, and drop_empty clears
\* up before the next one takes calls.
Restart ==
  /\ restarts < Restarts
  /\ "kill" \in Circumstances \/ \A c \in Callers : call[c].step \notin {"scan", "evict"}
  /\ restarts' = restarts + 1
  /\ dir' = SelectSeq(dir, LAMBDA r : r.part = 0 /\ r.bytes > 0)
  /\ call' = [c \in Callers |-> NoCall]
  /\ UNCHANGED made

Next ==
  \/ \E c \in Callers, f \in Files, kind \in {"preview", "compare"} : Asks(c, kind, f)
  \/ \E c \in Callers :
       \/ Clears(c) \/ Fails(c) \/ Creates(c) \/ Writes(c) \/ Written(c)
       \/ Renames(c) \/ MakesRoom(c) \/ Evicts(c) \/ RoomIsMade(c)
       \/ Touches(c) \/ Opens(c)
  \/ Restart

Spec == Init /\ [][Next]_vars
-----------------------------------------------------------------------------
\* What is handed over for a file is the whole file, whatever was cancelled,
\* failed or killed while it was extracted, and however often at once
\* (service/mod.rs:3073, rename into place).
ServedIsWhole == \A c \in Callers : call[c].got # "cut"

\* A file that was extracted is there to be handed over, and one that was
\* found is, unless the others that were used meanwhile fill the cache with
\* it (preview.rs:96, partial_path; preview.rs:112, evict_to_fit).
GoneIfCrowdedOut ==
  \A c \in Callers :
    call[c].got = "gone" => call[c].others + Size[call[c].file] > Capacity

\* A preview that the engine gave every byte of is shown (preview.rs:115-117).
\* Not so of one that alone is larger than the cache.
ExtractedIsShown == \A c \in Callers : call[c].got # "gone"

\* When nothing is under way the cache is within its size (preview.rs:112).
QuietCacheFits == (\A c \in Callers : ~ Under(c)) => Total(dir) <= Capacity

\* A file handed over is whole, is there unless crowded out, and the cache keeps
\* its size, however calls and restarts fall (preview.rs, service/mod.rs:3073).
PreviewSafety == TypeOK /\ ServedIsWhole /\ GoneIfCrowdedOut /\ QuietCacheFits
=============================================================================
