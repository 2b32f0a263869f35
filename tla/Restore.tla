------------------------------ MODULE Restore ------------------------------
(***************************************************************************)
(* What a restore does to a person's files: the plan and its execution     *)
(* (backtrack-core/src/restore/plan.rs, classify.rs, execute.rs), the      *)
(* safety stash (stash.rs), and the jobs that prepare, carry out and undo  *)
(* a restore (backtrackd/src/restore.rs, service/mod.rs).                  *)
(*                                                                         *)
(* A file is a number: what the person wrote is counted from 1, what the   *)
(* backup of restore j holds is -j, and 0 is no file.  An action is one    *)
(* rename or one removal, which is what a crash, another job or the person *)
(* can come between.  Preparing is one step: it touches nothing, and what  *)
(* it saw is old by the time it is acted on however it is cut up.          *)
(***************************************************************************)
EXTENDS Integers, Sequences, FiniteSets, FiniteSetsExt, SequencesExt

CONSTANTS
  Paths,      \* 1 .. n: plans are walked in this order
  Jobs,       \* 1 .. m: the restores that are prepared
  Tasks,      \* bound: executions, undoings and put-backs, one task for each
  LastSecond, \* bound: the clock stops here
  Events,     \* bound: crashes, renames that fail, and what the person writes
  KeepFor,    \* KEEP_DAYS
  Grace,      \* EVICTION_GRACE
  MaxFiles,   \* MAX_BYTES, every file being as big as any other
  Folders,    \* which of the things the person writes are folders: one goes to
              \* the Trash and stays there, what comes out of it being a file
  Circumstances \* which of these may happen: see Possible

Possible ==
  {"meanwhile",   \* the person writes while a restore is held, not only before
   "again",       \* a restore is carried out more than once
   "side by side", \* two restores are prepared, or two tasks run, at one time
   "out of order", \* a restore is undone after something else, an undoing of it
                  \* included, moved its files
   "same second", \* two restores begin in one second
   "long",        \* seconds pass while a task runs
   "trash"}       \* files come out of the Trash

ASSUME RestoreAssumption ==
  /\ Paths \subseteq Nat \ {0} /\ Paths # {} /\ IsFiniteSet(Paths)
  /\ Jobs \subseteq Nat \ {0} /\ Tasks \subseteq Nat /\ IsFiniteSet(Tasks)
  /\ LastSecond \in Nat /\ Events \in Nat
  /\ KeepFor \in Nat /\ Grace \in Nat \ {0} /\ MaxFiles \in Nat
  /\ Folders \subseteq Nat /\ Circumstances \subseteq Possible

VARIABLES
  disk,    \* what is at each name: a path's own, and those Keep Both makes
  stash,   \* what is kept from each second, of each path
  trash,   \* what is in the Trash under each name a path's file takes there
  infos,   \* which of those names have a .trashinfo
  staging, \* the paths of each restore whose extracted copy is there
  plans,   \* Restores: what is held for each restore
  tasks,   \* the jobs that move files
  now,
  wrote,   \* how many things the person has written
  dear,    \* those the person did not get rid of and no expiry gave up
  mover,   \* which restore moved a path's file last, 0 for anything else
  left     \* of Events

files == <<disk, stash, trash, infos>>
ghosts == <<wrote, dear, mover>>
vars == <<disk, stash, trash, infos, staging, plans, tasks, now, wrote, dear, mover, left>>

-----------------------------------------------------------------------------
Nothing == 0
Names == Paths \X (0 .. Cardinality(Tasks) + 1)
Second == 0 .. LastSecond
Binned == Paths \X (1 .. 2)

Own(p) == <<p, 0>>
Folder(c) == c \in Folders

Classes == {"not asked", "identical", "only in backup", "conflict", "type changed"}
Decision == {"replace", "keep-both", "skip"}
Answer == [blanket: Decision, named: [Paths -> Decision \cup {"unnamed"}]]

\* An entry of a plan: `copy' is its name in the Trash, 0 for a staged one.
Entry == [class: Classes, there: BOOLEAN, copy: 0 .. 2]
Unasked == [class |-> "not asked", there |-> FALSE, copy |-> 0]

\* A Move of the log.
MoveRecord == [kind: {"arrived", "left trash"}, path: Paths, copy: 0 .. 2,
               displaced: {"nothing", "stashed", "renamed"}, to: Nat,
               after: Jobs \cup {0}]

\* `before' and `clean' are the model's: the files as the restore found them,
\* and whether it reported no failure.
Plan == [held: BOOLEAN, used: BOOLEAN, logged: BOOLEAN, clean: BOOLEAN, log: Seq(MoveRecord),
         entries: [Paths -> Entry], before: [Paths -> Int]]
Unprepared == [held |-> FALSE, used |-> FALSE, logged |-> FALSE, clean |-> FALSE,
               log |-> <<>>, entries |-> [p \in Paths |-> Unasked], before |-> [p \in Paths |-> Nothing]]

Task == [kind: {"unused", "execute", "undo", "put back", "over"},
         at: {"begin", "next", "displaced"}, job: Jobs \cup {0}, path: Nat,
         answer: Answer, entries: [Paths -> Entry], log: Seq(MoveRecord),
         second: Second, to: Nat, displaced: {"nothing", "stashed", "renamed"},
         failed: BOOLEAN, moved: [Binned -> 0 .. 2]]
AllSkipped == [blanket |-> "skip", named |-> [p \in Paths |-> "unnamed"]]
Unused == [kind |-> "unused", at |-> "begin", job |-> 0, path |-> 0, answer |-> AllSkipped,
           entries |-> [p \in Paths |-> Unasked], log |-> <<>>, second |-> 0, to |-> 0,
           displaced |-> "nothing", failed |-> FALSE, moved |-> [b \in Binned |-> 0]]

TypeOK ==
  /\ disk \in [Names -> Int] /\ stash \in [Second \X Paths -> Int]
  /\ trash \in [Binned -> Int] /\ infos \in [Binned -> BOOLEAN]
  /\ staging \in [Jobs -> SUBSET Paths]
  /\ plans \in [Jobs -> Plan] /\ tasks \in [Tasks -> Task]
  /\ now \in Second /\ wrote \in Nat /\ dear \subseteq 1 .. wrote
  /\ mover \in [Paths -> Jobs \cup {0}] /\ left \in Nat

\* Some of the paths have a file, and the Trash may hold one of the first.
Init ==
  \E there \in SUBSET Paths, binned \in SUBSET {Min(Paths)} :
    LET n == Max(Paths)
    IN /\ binned # {} => "trash" \in Circumstances
       /\ disk = [m \in Names |-> IF m[2] = 0 /\ m[1] \in there THEN m[1] ELSE Nothing]
       /\ stash = [s \in Second \X Paths |-> Nothing]
       /\ trash = [b \in Binned |-> IF b[1] \in binned /\ b[2] = 1 THEN n + 1 ELSE Nothing]
       /\ infos = [b \in Binned |-> b[1] \in binned /\ b[2] = 1]
       /\ staging = [j \in Jobs |-> {}]
       /\ plans = [j \in Jobs |-> Unprepared]
       /\ tasks = [t \in Tasks |-> Unused]
       /\ now = 0 /\ wrote = n + 1
       /\ dear = there \cup {n + 1 : p \in binned}
       /\ mover = [p \in Paths |-> 0]
       /\ left = Events

-----------------------------------------------------------------------------
\* Preparing.

\* classify.
Class(backup, there) ==
  IF there = Nothing THEN "only in backup"
  ELSE IF Folder(backup) # Folder(there) THEN "type changed"
  ELSE IF backup = there THEN "identical" ELSE "conflict"

\* What is restored at p: the Trash's copy where one was asked for.
Planned(j, p, copy) ==
  LET source == IF copy = 0 THEN -j ELSE trash[<<p, copy>>]
  IN [class |-> Class(source, disk[Own(p)]), there |-> disk[Own(p)] # Nothing, copy |-> copy]

Runs(t) == tasks[t].kind \notin {"unused", "over"}
Idle == \A t \in Tasks : ~Runs(t)

\* Nothing runs, and no other restore waits for its answers.
InTurn(j) ==
  \/ "side by side" \in Circumstances
  \/ Idle /\ \A k \in Jobs \ {j} : plans[k].held => plans[k].logged

\* prepare, from the extraction to Restores::keep.
Prepare(j, asked, binned) ==
  /\ ~plans[j].used
  /\ InTurn(j)
  /\ asked # {}
  /\ binned \subseteq {b \in Binned : b[1] \in asked /\ trash[b] # Nothing /\ ~Folder(trash[b])}
  /\ \A b, c \in binned : b[1] = c[1] => b = c
  /\ LET copy(p) == IF \E b \in binned : b[1] = p
                    THEN (CHOOSE b \in binned : b[1] = p)[2] ELSE 0
     IN /\ staging' = [staging EXCEPT ![j] = {p \in asked : copy(p) = 0}]
        /\ plans' = [plans EXCEPT ![j] =
             [Unprepared EXCEPT !.held = TRUE, !.used = TRUE,
                !.entries = [p \in Paths |-> IF p \in asked THEN Planned(j, p, copy(p))
                                                            ELSE Unasked]]]
  /\ UNCHANGED <<files, tasks, now, ghosts, left>>

\* discard_restore.
Discard(j) ==
  /\ plans[j].held
  /\ Idle \/ "side by side" \in Circumstances
  /\ plans' = [plans EXCEPT ![j] = [Unprepared EXCEPT !.used = TRUE]]
  /\ staging' = [staging EXCEPT ![j] = {}]
  /\ UNCHANGED <<files, tasks, now, ghosts, left>>

-----------------------------------------------------------------------------
\* The calls that start a task.

Starts(t, j) ==
  /\ tasks[t].kind = "unused"
  /\ \A u \in Tasks : u < t => tasks[u].kind # "unused"
  /\ InTurn(j)

FreshSecond ==
  "same second" \in Circumstances \/
  /\ \A p \in Paths : stash[<<now, p>>] = Nothing
  /\ \A t \in Tasks : Runs(t) => tasks[t].second # now

\* Nothing else has moved a file since the plan was first carried out.
StillTrue(j) ==
  "out of order" \in Circumstances \/
  \A p \in Paths : mover[p] = j \/ disk[Own(p)] = plans[j].before[p]

\* execute_restore; restore_files and restore_into are Prepare and this.
Execute(t, j, answer) ==
  /\ plans[j].held
  /\ plans[j].logged => "again" \in Circumstances /\ StillTrue(j)
  /\ Starts(t, j)
  /\ FreshSecond
  /\ tasks' = [tasks EXCEPT ![t] = [Unused EXCEPT !.kind = "execute", !.job = j,
                                                  !.answer = answer, !.second = now]]
  /\ UNCHANGED <<files, staging, plans, now, ghosts, left>>

Touched(log) == {log[i].path : i \in DOMAIN log}

\* undo_restore.
Undo(t, j) ==
  /\ plans[j].held /\ plans[j].logged
  /\ Starts(t, j)
  /\ "out of order" \in Circumstances \/ \A p \in Touched(plans[j].log) : mover[p] = j
  /\ tasks' = [tasks EXCEPT ![t] = [Unused EXCEPT !.kind = "undo", !.job = j]]
  /\ UNCHANGED <<files, staging, plans, now, ghosts, left>>

\* put_back_replaced, once find has found the entry.
PutBack(t, second, p) ==
  /\ stash[<<second, p>>] # Nothing /\ ~Folder(stash[<<second, p>>])
  /\ Starts(t, 0)
  /\ FreshSecond
  /\ tasks' = [tasks EXCEPT ![t] = [Unused EXCEPT !.kind = "put back", !.at = "next",
                                       !.path = p, !.second = now, !.to = second]]
  /\ UNCHANGED <<files, staging, plans, now, ghosts, left>>

-----------------------------------------------------------------------------
\* Carrying out.

\* What execute_watched does at p.  A change of type is never covered by the
\* blanket answer.
Decided(task, p) ==
  LET named == task.answer.named[p]
  IN CASE task.entries[p].class = "only in backup" -> "replace"
       [] task.entries[p].class = "type changed" -> IF named = "unnamed" THEN "skip" ELSE named
       [] task.entries[p].class = "conflict" -> IF named = "unnamed" THEN task.answer.blanket
                                                                     ELSE named
       [] OTHER -> "skip"

Beyond == Max(Paths) + 1

\* The first path from p on that something is to be done at.
NextFrom(task, p) == Min({q \in Paths : q >= p /\ Decided(task, q) # "skip"} \cup {Beyond})

Over(task) == [Unused EXCEPT !.kind = "over", !.failed = task.failed]
Goes(t, task) == tasks' = [tasks EXCEPT ![t] = task]
Happens == left > 0 /\ left' = left - 1

\* apply and check_space.
Begins(t) ==
  LET j     == tasks[t].job
      began == [tasks[t] EXCEPT !.at = "next", !.entries = plans[j].entries]
      ended == Over([tasks[t] EXCEPT !.failed = TRUE])
  IN /\ tasks[t].kind = "execute" /\ tasks[t].at = "begin"
     /\ \/ /\ plans[j].held
           /\ Goes(t, [began EXCEPT !.path = NextFrom(began, Min(Paths))])
           /\ plans' = [plans EXCEPT ![j].before = [p \in Paths |-> disk[Own(p)]]]
           /\ UNCHANGED <<staging, left>>
        \/ /\ ~plans[j].held
           /\ Goes(t, ended)
           /\ UNCHANGED <<plans, staging, left>>
        \/ /\ plans[j].held /\ Happens
           /\ Goes(t, ended)
           /\ staging' = [staging EXCEPT ![j] = {}]
           /\ UNCHANGED plans
     /\ UNCHANGED <<files, now, ghosts>>

\* On to the next path.
Past(task, failed) ==
  [task EXCEPT !.at = "next", !.displaced = "nothing", !.to = 0,
               !.path = NextFrom(task, task.path + 1), !.failed = @ \/ failed]

\* A rename puts a file in the place of a file, and fails on a folder.
Renames(from, over) == from # Nothing /\ (over = Nothing \/ (~Folder(from) /\ ~Folder(over)))

At(t, kind, at) == tasks[t].kind = kind /\ tasks[t].at = at

\* Mutant: the first name is taken for free.
FirstName(p) == 1

\* keep_both_name.
FreeName(p) == CHOOSE n \in 1 .. Cardinality(Tasks) + 1 :
                 disk[<<p, n>>] = Nothing /\ \A m \in 1 .. n - 1 : disk[<<p, m>>] # Nothing

\* apply, first half: what is there goes to the stash or to another name.
Displaces(t) ==
  LET task == tasks[t]
      p    == task.path
      here == disk[Own(p)]
      kept == <<task.second, p>>
  IN /\ At(t, "execute", "next") /\ p # Beyond /\ task.entries[p].there
     /\ \/ /\ Decided(task, p) = "replace" /\ Renames(here, stash[kept])
           /\ stash' = [stash EXCEPT ![kept] = here]
           /\ disk' = [disk EXCEPT ![Own(p)] = Nothing]
           /\ Goes(t, [task EXCEPT !.at = "displaced", !.displaced = "stashed", !.to = task.second])
           /\ UNCHANGED left
        \/ /\ Decided(task, p) = "keep-both" /\ here # Nothing
           /\ disk' = [disk EXCEPT ![Own(p)] = Nothing, ![<<p, FreeName(p)>>] = here]
           /\ Goes(t, [task EXCEPT !.at = "displaced", !.displaced = "renamed", !.to = FreeName(p)])
           /\ UNCHANGED <<stash, left>>
        \/ /\ IF here = Nothing \/ (Decided(task, p) = "replace" /\ ~Renames(here, stash[kept]))
              THEN UNCHANGED left ELSE Happens
           /\ Goes(t, Past(task, TRUE))
           /\ UNCHANGED <<disk, stash>>
     /\ UNCHANGED <<trash, infos, staging, plans, now, ghosts>>

\* apply, second half: the backup's copy, or the Trash's, takes the name.
Arrives(t) ==
  LET task   == tasks[t]
      p      == task.path
      copy   == task.entries[p].copy
      source == IF copy # 0 THEN trash[<<p, copy>>]
                ELSE IF p \in staging[task.job] THEN -task.job ELSE Nothing
      move   == [kind |-> "arrived", path |-> p, copy |-> copy,
                 displaced |-> task.displaced, to |-> task.to, after |-> mover[p]]
  IN /\ p # Beyond
     /\ At(t, "execute", "displaced") \/ (At(t, "execute", "next") /\ ~task.entries[p].there)
     /\ \/ /\ Renames(source, disk[Own(p)])
           /\ disk' = [disk EXCEPT ![Own(p)] = source]
           /\ IF copy = 0 THEN /\ staging' = [staging EXCEPT ![task.job] = @ \ {p}]
                               /\ UNCHANGED trash
                          ELSE /\ trash' = [trash EXCEPT ![<<p, copy>>] = Nothing]
                               /\ UNCHANGED staging
           /\ Goes(t, Past([task EXCEPT !.log = Append(@, move)], FALSE))
           /\ mover' = [mover EXCEPT ![p] = task.job]
           /\ UNCHANGED left
        \/ /\ IF Renames(source, disk[Own(p)]) THEN Happens ELSE UNCHANGED left
           /\ Goes(t, Past(task, TRUE))
           /\ UNCHANGED <<disk, trash, staging, mover>>
     /\ UNCHANGED <<stash, infos, plans, now, wrote, dear>>

\* The items of the Trash that the restore has emptied, with the .trashinfo
\* still to be taken.
Emptied(task) ==
  {p \in Paths : task.entries[p].copy # 0 /\ trash[<<p, task.entries[p].copy>>] = Nothing
                                         /\ infos[<<p, task.entries[p].copy>>]}

\* leave_trash for each, then Restores::record and clear_staging.
Ends(t) ==
  LET task == tasks[t]
      j    == task.job
      gone == SetToSeq(Emptied(task))
      leave(p) == [kind |-> "left trash", path |-> p, copy |-> task.entries[p].copy,
                   displaced |-> "nothing", to |-> 0, after |-> 0]
  IN /\ At(t, "execute", "next") /\ task.path = Beyond
     /\ infos' = [b \in Binned |-> infos[b] /\ ~(b[1] \in Emptied(task) /\ task.entries[b[1]].copy = b[2])]
     /\ plans' = IF ~plans[j].held THEN plans
                 ELSE [plans EXCEPT ![j].logged = TRUE, ![j].clean = ~task.failed,
                        ![j].log = task.log \o [i \in 1 .. Len(gone) |-> leave(gone[i])]]
     /\ staging' = [staging EXCEPT ![j] = {}]
     /\ Goes(t, Over(task))
     /\ UNCHANGED <<disk, stash, trash, now, ghosts, left>>

-----------------------------------------------------------------------------
\* Undoing: the log, newest move first.  `path' counts down the moves.

Undone(task) == task.log[task.path]

Earlier(task, failed) ==
  [task EXCEPT !.at = "next", !.path = @ - 1, !.failed = @ \/ failed]

\* Mutant: only what is in the stash comes back.
ThenTheStashed(task, move) ==
  IF move.displaced # "stashed" THEN Earlier(task, FALSE) ELSE [task EXCEPT !.at = "displaced"]

\* What was displaced comes back next, if anything was.
ThenTheDisplaced(task, move) ==
  IF move.displaced = "nothing" THEN Earlier(task, FALSE) ELSE [task EXCEPT !.at = "displaced"]

\* start_undo.
UndoBegins(t) ==
  LET task == tasks[t]
      log  == plans[task.job].log
  IN /\ At(t, "undo", "begin")
     /\ Goes(t, IF plans[task.job].held /\ plans[task.job].logged
                THEN [task EXCEPT !.at = "next", !.log = log, !.path = Len(log)]
                ELSE Over([task EXCEPT !.failed = TRUE]))
     /\ UNCHANGED <<files, staging, plans, now, ghosts, left>>

\* Added, and the first half of Replaced and KeptBoth: remove, whatever is there.
UndoRemoves(t) ==
  LET task == tasks[t]
      move == Undone(task)
  IN /\ At(t, "undo", "next") /\ task.path > 0
     /\ move.kind = "arrived" /\ move.copy = 0
     /\ \/ /\ disk' = [disk EXCEPT ![Own(move.path)] = Nothing]
           /\ mover' = [mover EXCEPT ![move.path] = move.after]
           /\ Goes(t, ThenTheDisplaced(task, move))
           /\ UNCHANGED left
        \/ /\ disk[Own(move.path)] # Nothing /\ Happens
           /\ Goes(t, Earlier(task, TRUE))
           /\ UNCHANGED <<disk, mover>>
     /\ UNCHANGED <<stash, trash, infos, staging, plans, now, wrote, dear>>

\* The second half: what was displaced comes back from where it went.
UndoReturns(t) ==
  LET task  == tasks[t]
      move  == Undone(task)
      p     == move.path
      kept  == <<move.to, p>>
      comes == IF move.displaced = "stashed" THEN stash[kept] ELSE disk[<<p, move.to>>]
  IN /\ At(t, "undo", "displaced")
     /\ \/ /\ Renames(comes, disk[Own(p)])
           /\ IF move.displaced = "stashed"
              THEN /\ stash' = [stash EXCEPT ![kept] = Nothing]
                   /\ disk' = [disk EXCEPT ![Own(p)] = comes]
              ELSE /\ disk' = [disk EXCEPT ![Own(p)] = comes, ![<<p, move.to>>] = Nothing]
                   /\ UNCHANGED stash
           /\ Goes(t, Earlier(task, FALSE))
           /\ UNCHANGED left
        \/ /\ IF Renames(comes, disk[Own(p)]) THEN Happens ELSE UNCHANGED left
           /\ Goes(t, Earlier(task, TRUE))
           /\ UNCHANGED <<disk, stash>>
     /\ UNCHANGED <<trash, infos, staging, plans, now, ghosts>>

FreeBin(p, free) == CHOOSE n \in 1 .. 2 : free[<<p, n>>] /\ \A m \in 1 .. n - 1 : ~free[<<p, m>>]

\* LeftTrash: into_trash and restore_info, under a name nothing else has.
UndoReenters(t) ==
  LET task == tasks[t]
      move == Undone(task)
      p    == move.path
      free == [b \in Binned |-> trash[b] = Nothing /\ ~infos[b]]
      name == <<p, FreeBin(p, free)>>
  IN /\ At(t, "undo", "next") /\ task.path > 0
     /\ move.kind = "left trash"
     /\ IF \E n \in 1 .. 2 : free[<<p, n>>]
        THEN /\ infos' = [infos EXCEPT ![name] = TRUE]
             /\ Goes(t, [Earlier(task, FALSE) EXCEPT !.moved[<<p, move.copy>>] = name[2]])
        ELSE /\ Goes(t, Earlier(task, TRUE))
             /\ UNCHANGED infos
     /\ UNCHANGED <<disk, stash, trash, staging, plans, now, ghosts, left>>

\* FromTrash: back_to_trash, beside whatever is there.
UndoTrashes(t) ==
  LET task == tasks[t]
      move == Undone(task)
      p    == move.path
      base == IF task.moved[<<p, move.copy>>] # 0 THEN task.moved[<<p, move.copy>>] ELSE move.copy
      name == IF trash[<<p, base>>] = Nothing THEN <<p, base>> ELSE <<p, 3 - base>>
  IN /\ At(t, "undo", "next") /\ task.path > 0
     /\ move.kind = "arrived" /\ move.copy # 0
     /\ IF disk[Own(p)] # Nothing /\ trash[name] = Nothing
        THEN /\ trash' = [trash EXCEPT ![name] = disk[Own(p)]]
             /\ disk' = [disk EXCEPT ![Own(p)] = Nothing]
             /\ mover' = [mover EXCEPT ![p] = move.after]
             /\ Goes(t, ThenTheDisplaced(task, move))
        ELSE /\ Goes(t, Earlier(task, TRUE))
             /\ UNCHANGED <<disk, trash, mover>>
     /\ UNCHANGED <<stash, infos, staging, plans, now, wrote, dear, left>>

UndoEnds(t) ==
  /\ At(t, "undo", "next") /\ tasks[t].path = 0
  /\ Goes(t, Over(tasks[t]))
  /\ UNCHANGED <<files, staging, plans, now, ghosts, left>>

-----------------------------------------------------------------------------
\* put_back: what is in the way goes to the stash in turn.

PutBackDisplaces(t) ==
  LET task == tasks[t]
      here == disk[Own(task.path)]
      kept == <<task.second, task.path>>
  IN /\ At(t, "put back", "next")
     /\ \/ /\ here = Nothing
           /\ Goes(t, [task EXCEPT !.at = "displaced"])
           /\ UNCHANGED <<disk, stash>>
        \/ /\ Renames(here, stash[kept])
           /\ stash' = [stash EXCEPT ![kept] = here]
           /\ disk' = [disk EXCEPT ![Own(task.path)] = Nothing]
           /\ Goes(t, [task EXCEPT !.at = "displaced"])
        \/ /\ here # Nothing /\ ~Renames(here, stash[kept])
           /\ Goes(t, Over([task EXCEPT !.failed = TRUE]))
           /\ UNCHANGED <<disk, stash>>
     /\ UNCHANGED <<trash, infos, staging, plans, now, ghosts, left>>

PutBackArrives(t) ==
  LET task == tasks[t]
      kept == <<task.to, task.path>>
      here == disk[Own(task.path)]
  IN /\ At(t, "put back", "displaced")
     /\ \/ /\ Renames(stash[kept], here)
           /\ disk' = [disk EXCEPT ![Own(task.path)] = stash[kept]]
           /\ stash' = [stash EXCEPT ![kept] = Nothing]
           /\ mover' = [mover EXCEPT ![task.path] = 0]
           /\ Goes(t, Over(task))
           /\ UNCHANGED left
        \/ /\ IF Renames(stash[kept], here) THEN Happens ELSE UNCHANGED left
           /\ Goes(t, Over([task EXCEPT !.failed = TRUE]))
           /\ UNCHANGED <<disk, stash, mover>>
     /\ UNCHANGED <<trash, infos, staging, plans, now, wrote, dear>>

-----------------------------------------------------------------------------
\* The stash's bounds.

Batches == {s \in Second : \E p \in Paths : stash[<<s, p>>] # Nothing}
FilesSince(s) == Cardinality({k \in Second \X Paths : k[1] >= s /\ stash[k] # Nothing
                                                     /\ now - k[1] <= KeepFor})

\* Mutant: the hour's grace is forgotten.
GivenUpAtOnce(max) ==
  {s \in Batches : now - s > KeepFor \/ FilesSince(s) > max}

\* expire: by age, and then the oldest while what is left is too much.
GivenUp(max) ==
  {s \in Batches : now - s > KeepFor \/ (FilesSince(s) > max /\ now - s >= Grace)}

\* keep_the_stash_bounded, and empty_stash with no room at all.
Expire(max) ==
  LET gone == {k \in Second \X Paths : k[1] \in GivenUp(max)}
  IN /\ GivenUp(max) # {}
     /\ stash' = [k \in Second \X Paths |-> IF k \in gone THEN Nothing ELSE stash[k]]
     /\ dear' = dear \ {stash[k] : k \in gone}
     /\ UNCHANGED <<disk, trash, infos, staging, plans, tasks, now, wrote, mover, left>>

-----------------------------------------------------------------------------
\* The person, the clock and the machine.

Quiet == "meanwhile" \in Circumstances \/ (Idle /\ \A j \in Jobs : ~plans[j].held)

PersonWrites(p) ==
  /\ Quiet /\ Happens
  /\ wrote' = wrote + 1
  /\ disk' = [disk EXCEPT ![Own(p)] = wrote + 1]
  /\ dear' = (dear \ {disk[Own(p)]}) \cup {wrote + 1}
  /\ mover' = [mover EXCEPT ![p] = 0]
  /\ UNCHANGED <<stash, trash, infos, staging, plans, tasks, now>>

PersonTrashes(p) ==
  /\ Quiet /\ "trash" \in Circumstances /\ disk[Own(p)] # Nothing
  /\ \E n \in 1 .. 2 : /\ trash[<<p, n>>] = Nothing /\ ~infos[<<p, n>>]
                       /\ trash' = [trash EXCEPT ![<<p, n>>] = disk[Own(p)]]
                       /\ infos' = [infos EXCEPT ![<<p, n>>] = TRUE]
  /\ disk' = [disk EXCEPT ![Own(p)] = Nothing]
  /\ mover' = [mover EXCEPT ![p] = 0]
  /\ UNCHANGED <<stash, staging, plans, tasks, now, wrote, dear, left>>

PersonEmptiesTrash ==
  /\ Quiet /\ \E b \in Binned : infos[b]
  /\ trash' = [b \in Binned |-> Nothing]
  /\ infos' = [b \in Binned |-> FALSE]
  /\ dear' = dear \ {trash[b] : b \in Binned}
  /\ UNCHANGED <<disk, stash, staging, plans, tasks, now, wrote, mover, left>>

SecondPasses ==
  /\ now < LastSecond
  /\ Idle \/ "long" \in Circumstances
  /\ now' = now + 1
  /\ UNCHANGED <<files, staging, plans, tasks, ghosts, left>>

\* The daemon is killed and started again: sweep_staging, and job ids that
\* begin again.
Crash ==
  /\ Happens
  /\ tasks' = [t \in Tasks |-> IF Runs(t) THEN Over([tasks[t] EXCEPT !.failed = TRUE]) ELSE tasks[t]]
  /\ plans' = [j \in Jobs |-> Unprepared]
  /\ staging' = [j \in Jobs |-> {}]
  /\ mover' = [p \in Paths |-> 0]
  /\ UNCHANGED <<files, now, wrote, dear>>

\* One answer for all, and at most one path answered by name.
Answers ==
  {[blanket |-> blanket, named |-> [p \in Paths |-> IF p = q THEN d ELSE "unnamed"]] :
     blanket \in Decision, q \in Paths, d \in Decision \cup {"unnamed"}}

Call(t) ==
  \/ \E j \in Jobs, answer \in Answers : Execute(t, j, answer)
  \/ \E j \in Jobs : Undo(t, j)
  \/ \E s \in Second, p \in Paths : PutBack(t, s, p)

Step(t) ==
  \/ Begins(t) \/ Displaces(t) \/ Arrives(t) \/ Ends(t)
  \/ UndoBegins(t) \/ UndoRemoves(t) \/ UndoReturns(t) \/ UndoReenters(t) \/ UndoTrashes(t)
  \/ UndoEnds(t)
  \/ PutBackDisplaces(t) \/ PutBackArrives(t)

Next ==
  \/ \E j \in Jobs, asked \in SUBSET Paths, binned \in SUBSET Binned : Prepare(j, asked, binned)
  \/ \E j \in Jobs : Discard(j)
  \/ \E t \in Tasks : Call(t) \/ Step(t)
  \/ \E max \in {0, MaxFiles} : Expire(max)
  \/ \E p \in Paths : PersonWrites(p) \/ PersonTrashes(p)
  \/ PersonEmptiesTrash \/ SecondPasses \/ Crash

Spec == Init /\ [][Next]_vars

-----------------------------------------------------------------------------
\* Whatever of the person's a restore, an undoing or a put-back moves, through
\* failures and crashes, is still somewhere: under its name or beside it, in
\* the stash, or in the Trash ("Nothing is overwritten in the ordinary
\* sense", execute.rs:14).
NothingLost ==
  \A c \in dear : \/ \E n \in Names : disk[n] = c
                  \/ \E k \in Second \X Paths : stash[k] = c
                  \/ \E b \in Binned : trash[b] = c

Finishes(t, kind) ==
  /\ Runs(t) /\ tasks[t].kind = kind
  /\ ~Runs(t)' /\ ~tasks[t]'.failed

\* An undoing that reports no failure, of a restore that reported none, leaves
\* every path the restore moved a file to as it found it ("Put everything a restore did back the way it was", execute.rs:353).
UndoPutsBack ==
  [][\A t \in Tasks : Finishes(t, "undo") /\ plans[tasks[t].job].clean =>
       \A p \in Paths :
         p \in Touched(plans[tasks[t].job].log) \/ mover[p] = tasks[t].job
         => disk'[Own(p)] = plans[tasks[t].job].before[p]]_vars

Answered(answer, p) == IF answer.named[p] = "unnamed" THEN answer.blanket ELSE answer.named[p]

\* A restore that reports no failure did to each path what was answered: the
\* backup's file where there was none, the answer where the two differ, a
\* change of type only where it was named, and nothing to what was not asked.
AnswersAreCarriedOut ==
  [][\A t \in Tasks : Finishes(t, "execute") =>
       LET task == tasks[t]
       IN \A p \in Paths :
            LET entry  == task.entries[p]
                was    == plans[task.job].before[p]
                backup == disk'[Own(p)] # was /\ (entry.copy = 0 => disk'[Own(p)] = -task.job)
            IN CASE entry.class = "only in backup" -> backup
                 [] entry.class \in {"not asked", "identical"} -> disk'[Own(p)] = was
                 [] entry.class = "type changed" /\ task.answer.named[p] = "unnamed" ->
                      disk'[Own(p)] = was
                 [] Answered(task.answer, p) = "skip" -> disk'[Own(p)] = was
                 [] Answered(task.answer, p) = "replace" ->
                      backup /\ stash[<<task.second, p>>] = was
                 [] OTHER -> backup /\ \E n \in Names : n[1] = p /\ n[2] > 0 /\ disk'[n] = was]_vars

\* A path is empty under a restore only in the middle of a move, or after one
\* that failed (execute.rs:6: "every path holds either the old file or the
\* new one at every instant").
EveryPathIsHeld ==
  \A t \in Tasks : Runs(t) /\ tasks[t].kind = "execute" /\ tasks[t].at # "begin" =>
    \A p \in Paths : plans[tasks[t].job].before[p] # Nothing => disk[Own(p)] # Nothing

\* A restore that ends, failures and all, has written down every path it
\* changed (execute.rs:15: "every move is written down, so the whole restore
\* can be reversed afterwards").
EveryMoveIsWrittenDown ==
  [][\A t \in Tasks :
       Runs(t) /\ tasks[t].kind = "execute" /\ tasks[t].at = "next" /\ ~Runs(t)'
         /\ plans'[tasks[t].job].logged
       => \A p \in Paths : disk'[Own(p)] # plans[tasks[t].job].before[p]
                            => p \in Touched(plans'[tasks[t].job].log)]_vars

\* What a restore in progress has put in the stash is not given up under it
\* (stash.rs:44: "An hour's grace makes that impossible").
GraceCoversTheRestore ==
  [][\A t \in Tasks, p \in Paths :
       Runs(t) /\ tasks[t].kind = "execute" /\ stash[<<tasks[t].second, p>>] # Nothing
         /\ tasks[t]' = tasks[t]
       => stash'[<<tasks[t].second, p>>] # Nothing]_vars

\* Nothing of the person's is lost in restores, undoings and put-backs of the same
\* paths, in any order (execute.rs, stash.rs).
RestoreSafety == TypeOK /\ NothingLost

\* A restore does what was answered, and undoing it puts back what was (execute,
\* undo).
DoneAndUndone == AnswersAreCarriedOut /\ UndoPutsBack
=============================================================================
