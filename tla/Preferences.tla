---------------------------- MODULE Preferences ----------------------------
(***************************************************************************)
(* The Preferences window (backtrack-gtk/src/ui/prefs.rs, exclusions.rs)   *)
(* and the settings it is about.  A control writes its setting the moment  *)
(* it is changed, and whatever came of that the configuration is read      *)
(* again and put on the screen; so is it whenever the window is come back  *)
(* to.  The daemon (set_config) reads, changes and stores the whole of it. *)
(*                                                                         *)
(* "battery" stands for every switch, list of choices and number; the      *)
(* passphrase's switch moves the passphrase before it is stored; the limit *)
(* on uploads need not be in the configuration at all; the folders and the *)
(* exclusions are lists that are written whole.  Other programs change     *)
(* settings too: backtrack config set, the main window, the wizard.        *)
(***************************************************************************)
EXTENDS Integers, Sequences, FiniteSets, SequencesExt

CONSTANTS
  Folders,    \* that can be backed up
  InHome,     \* those of them that are listed on a page of their own
  Exclusions, \* rows of the list of exclusions
  Changes,    \* bound: what the person does in the window
  Others,     \* bound: changes by other programs, refusals and restarts
  Circumstances

Possible ==
  {"quick",   \* a list is changed again before its last change has been read back,
              \* or anything while all is being reset
   "prompt",  \* the keyring asks the person, and the daemon goes on meanwhile
   "outside", \* another program changes a setting while the window is in front
   "page",    \* the folders under Home are not what their page was opened with
   "absent",  \* the limit on uploads has never been set
   "restart"} \* the daemon is restarted while it is being read, or has just been reset

VARIABLES
  held,    \* the daemon's configuration, which is what is on disk
  moving,  \* the set_config whose passphrase is being moved, or Nobody
  calls,   \* on their way to the daemon
  replies, \* on their way back
  kept,    \* the window's copy of the configuration
  shown,   \* what the controls say; of "include", the rows to be seen
  home,    \* the rows of the Home folder's page, or NotOpen
  facing,  \* "front", "away" (open behind another window) or "closed"
  wanted,  \* what was last asked of each setting, by whomever
  done, outer

daemon == <<held, moving>>
window == <<kept, shown, home, facing>>
vars == <<held, moving, calls, replies, kept, shown, home, facing, wanted, done, outer>>

-----------------------------------------------------------------------------
Absent == -1
Config ==
  [battery : BOOLEAN, remember : BOOLEAN, limit : {Absent, 0, 1},
   include : SUBSET Folders, exclude : SUBSET Exclusions]
Defaults ==
  [battery |-> FALSE, remember |-> TRUE, limit |-> Absent, include |-> {}, exclude |-> Exclusions]

\* What is drawn of a configuration: no limit and a limit of nothing are one.
Drawn(c) == [c EXCEPT !.limit = IF @ = Absent THEN 0 ELSE @]
Nobody == [what |-> "nobody"]
NotOpen == {"not open"}

Set(k, v) == [what |-> "set", key |-> k, value |-> v]
Get == [what |-> "get"]
Reset == [what |-> "reset"]
IsSet(c) == c.what = "set"
IsGet(c) == c.what = "get"
Sets(k) == {i \in DOMAIN calls : IsSet(calls[i]) /\ calls[i].key = k}
Reading == (\E i \in DOMAIN calls : IsGet(calls[i])) \/ (\E i \in DOMAIN replies : IsGet(replies[i]))

TypeOK ==
  /\ held \in Config /\ kept \in Config /\ shown \in Config /\ wanted \in Config
  /\ moving = Nobody \/ (moving.call.key = "remember" /\ moving.before \in Config)
  /\ home = NotOpen \/ home \subseteq InHome
  /\ facing \in {"front", "away", "closed"} /\ done \in 0 .. Changes /\ outer \in 0 .. Others

Init ==
  /\ held = [Defaults EXCEPT !.include = Folders,
                             !.limit = IF "absent" \in Circumstances THEN Absent ELSE 0]
  /\ moving = Nobody /\ calls = <<>> /\ replies = <<>>
  /\ kept = held /\ shown = Drawn(held) /\ wanted = held
  /\ home = NotOpen /\ facing = "front" /\ done = 0 /\ outer = 0

Resetting == Contains(calls \o replies, Reset)
Acts ==
  /\ facing = "front" /\ done < Changes /\ done' = done + 1
  /\ "quick" \in Circumstances \/ ~Resetting
Outer == outer < Others /\ outer' = outer + 1

\* Nothing is on its way to the daemon, in it or on its way back.
Settled == calls = <<>> /\ replies = <<>> /\ moving = Nobody

-----------------------------------------------------------------------------
\* The person.

\* write: sent at once, and listened for by a task of its own.
Writes(k, v) == calls' = Append(calls, Set(k, v))

\* A switch is turned: what it said is the only thing the change is made of.
Turns(k) ==
  LET v == IF k = "limit" THEN 1 - shown.limit ELSE ~shown[k] IN
  /\ Acts /\ home = NotOpen
  /\ shown' = [shown EXCEPT ![k] = v] /\ wanted' = [wanted EXCEPT ![k] = v]
  /\ Writes(k, v)
  /\ UNCHANGED <<held, moving, replies, kept, home, facing, outer>>

\* A folder's row is removed: the row goes, and what is written is the rest
\* of what the window last read.
Removes(f) ==
  /\ Acts /\ ("quick" \in Circumstances \/ Settled)
  /\ IF f \in InHome
     THEN f \in home /\ home' = home \ {f} /\ shown' = shown
     ELSE /\ home = NotOpen /\ f \in shown.include
          /\ home' = home /\ shown' = [shown EXCEPT !.include = @ \ {f}]
  /\ wanted' = [wanted EXCEPT !.include = @ \ {f}]
  /\ Writes("include", kept.include \ {f})
  /\ UNCHANGED <<held, moving, replies, kept, facing, outer>>

\* Folders are chosen in a dialog and added to what the window last read.
Adds(f) ==
  /\ Acts /\ ("quick" \in Circumstances \/ Settled)
  /\ home = NotOpen /\ f \notin kept.include
  /\ wanted' = [wanted EXCEPT !.include = @ \cup {f}]
  /\ Writes("include", kept.include \cup {f})
  /\ UNCHANGED <<held, moving, replies, kept, shown, home, facing, outer>>

\* A row of the exclusions is removed, or one typed in: the editor goes by
\* its own list, which reading the configuration replaces.
Excludes(p) ==
  /\ Acts /\ home = NotOpen /\ ("quick" \in Circumstances \/ (~Reading /\ replies = <<>>))
  /\ LET Changed(s) == IF p \in s THEN s \ {p} ELSE s \cup {p}
         Meant(s) == IF p \in shown.exclude THEN s \ {p} ELSE s \cup {p} IN
     /\ shown' = [shown EXCEPT !.exclude = Changed(@)]
     /\ wanted' = [wanted EXCEPT !.exclude = Meant(@)]
     /\ Writes("exclude", Changed(shown.exclude))
  /\ UNCHANGED <<held, moving, replies, kept, home, facing, outer>>

\* The page of the folders under Home is made when it is opened, and not again.
OpensHome ==
  /\ facing = "front" /\ home = NotOpen /\ kept.include \cap InHome # {}
  /\ "page" \in Circumstances \/ Settled
  /\ home' = kept.include \cap InHome
  /\ UNCHANGED <<held, moving, calls, replies, kept, shown, facing, wanted, done, outer>>

LeavesHome ==
  /\ facing = "front" /\ home # NotOpen /\ home' = NotOpen
  /\ UNCHANGED <<held, moving, calls, replies, kept, shown, facing, wanted, done, outer>>

GoesAway ==
  /\ Acts /\ facing' = "away"
  /\ UNCHANGED <<held, moving, calls, replies, kept, shown, home, wanted, outer>>

\* Coming back reads everything again.
ComesBack ==
  /\ facing = "away" /\ facing' = "front" /\ calls' = Append(calls, Get)
  /\ UNCHANGED <<held, moving, replies, kept, shown, home, wanted, done, outer>>

\* Reset All Settings, confirmed.
Resets ==
  /\ Acts /\ home = NotOpen
  /\ wanted' = Defaults /\ calls' = Append(calls, Reset)
  /\ UNCHANGED <<held, moving, replies, kept, shown, home, facing, outer>>

-----------------------------------------------------------------------------
\* The daemon.

\* store_config: the whole configuration, on disk and then in memory.
Stores(c) == held' = c

\* config_set: a key the configuration does not write is taken for a typo.
Known(k) == k = "limit" => held.limit # Absent

\* A write that is refused is no longer wanted, unless another follows it.
\* Reset is refused by nothing here, and follows everything.
Dropped(k, later) == IF later THEN wanted ELSE [wanted EXCEPT ![k] = held[k]]

\* A call is taken up.  One that changes whether the passphrase is remembered
\* has read the configuration and now waits for the keyring.
TakesUp ==
  /\ calls # <<>> /\ ("prompt" \in Circumstances \/ moving = Nobody)
  /\ LET c == Head(calls) IN
     /\ calls' = Tail(calls)
     /\ \/ /\ IsGet(c) /\ replies' = Append(replies, [what |-> "get", config |-> held])
           /\ UNCHANGED <<held, moving>>
        \/ /\ c.what = "reset" /\ Stores(Defaults) /\ replies' = Append(replies, c)
           /\ UNCHANGED moving
        \/ /\ IsSet(c) /\ c.key = "remember" /\ c.value # held.remember
           /\ moving = Nobody /\ moving' = [call |-> c, before |-> held, what |-> "moving"]
           /\ UNCHANGED <<held, replies>>
        \/ /\ IsSet(c) /\ ~(c.key = "remember" /\ c.value # held.remember)
           /\ IF Known(c.key) THEN Stores([held EXCEPT ![c.key] = c.value]) ELSE UNCHANGED held
           /\ replies' = Append(replies, [what |-> "set"]) /\ UNCHANGED moving
  /\ UNCHANGED <<window, wanted, done, outer>>

\* The disk is full, or the value is not one: nothing is stored.
Refuses ==
  /\ Outer /\ calls # <<>> /\ moving = Nobody
  /\ LET c == Head(calls) IN
     /\ IsSet(c) /\ ("page" \in Circumstances \/ c.key # "include" \/ home = NotOpen)
     /\ calls' = Tail(calls) /\ replies' = Append(replies, [what |-> "set"])
     /\ wanted' = Dropped(c.key, \E i \in 2 .. Len(calls) : ~IsGet(calls[i]) /\
                                    (IsSet(calls[i]) => calls[i].key = c.key))
  /\ UNCHANGED <<daemon, window, done>>

\* The passphrase has moved, or the keyring would not; what is stored is the
\* configuration that was read before.
Moved(refused) ==
  /\ moving # Nobody /\ moving' = Nobody
  /\ IF refused
     THEN Outer /\ held' = held /\ wanted' = Dropped("remember", Sets("remember") # {} \/ Contains(calls, Reset))
     ELSE /\ Stores([moving.before EXCEPT !.remember = moving.call.value])
          /\ UNCHANGED <<wanted, outer>>
  /\ replies' = Append(replies, [what |-> "set"])
  /\ UNCHANGED <<calls, window, done>>

\* Another program's set_config, beside none of the window's.
SetElsewhere(k, v) ==
  /\ Outer /\ ("outside" \in Circumstances \/ (facing # "front" /\ Settled))
  /\ "page" \in Circumstances \/ k # "include" \/ home = NotOpen
  /\ v # held[k] /\ Stores([held EXCEPT ![k] = v]) /\ wanted' = [wanted EXCEPT ![k] = v]
  /\ UNCHANGED <<moving, calls, replies, window, done>>

\* The daemon ends and is started again by the next call.  A write that was
\* not answered is told to have failed, and the configuration read again; a
\* reading that was not is given up.
DaemonRestarts ==
  /\ Outer /\ ("restart" \in Circumstances \/ ~(Reading \/ Resetting))
  /\ "page" \in Circumstances \/ home = NotOpen
  /\ LET Writing(c) == IsSet(c) IN
     calls' = [i \in 1 .. Len(SelectSeq(calls, Writing)) + Len(SelectSeq(replies, Writing))
                          + (IF moving = Nobody THEN 0 ELSE 1) |-> Get]
  /\ replies' = <<>> /\ moving' = Nobody /\ wanted' = held
  /\ UNCHANGED <<held, window, done>>

-----------------------------------------------------------------------------
\* A reply is read.  Filling the controls in writes nothing (loading), and
\* the rows that were hidden are made anew; the page under Home is not.
Answered ==
  /\ replies # <<>> /\ replies' = Tail(replies)
  /\ LET r == Head(replies) IN
     \/ /\ IsSet(r) /\ calls' = Append(calls, Get) /\ UNCHANGED window
     \/ /\ IsGet(r) /\ kept' = r.config /\ shown' = Drawn(r.config) /\ UNCHANGED <<calls, home, facing>>
     \/ /\ r = Reset /\ facing' = "closed" /\ home' = NotOpen /\ UNCHANGED <<calls, kept, shown>>
  /\ UNCHANGED <<daemon, wanted, done, outer>>

Next ==
  \/ \E k \in {"battery", "remember", "limit"} : Turns(k)
  \/ \E f \in Folders : Removes(f) \/ Adds(f)
  \/ \E p \in Exclusions : Excludes(p)
  \/ OpensHome \/ LeavesHome \/ GoesAway \/ ComesBack \/ Resets
  \/ TakesUp \/ Refuses \/ \E b \in BOOLEAN : Moved(b)
  \/ SetElsewhere("battery", ~held.battery)
  \/ \E f \in Folders : SetElsewhere("include", held.include \ {f})
  \/ DaemonRestarts \/ Answered

\* The daemon takes up what it is asked and the keyring answers; the main
\* loop reads every reply.
Fairness == WF_vars(TakesUp \/ Moved(FALSE) \/ Answered)
Spec == Init /\ [][Next]_vars /\ Fairness

-----------------------------------------------------------------------------
\* Once nothing is on its way the window in front says what the daemon holds
\* (prefs.rs, write: "show what the daemon now holds either way").
ShownIsHeld ==
  Settled /\ facing = "front" =>
    kept = held /\ shown = Drawn(held) /\ home \in {NotOpen, held.include \cap InHome}

\* And the daemon holds of each setting what was last asked of it and not
\* refused: no change is undone by another (write, set_config).
LastWordHolds == Settled => held = wanted

PreferencesSafety == TypeOK /\ ShownIsHeld /\ LastWordHolds

\* What was changed is read back in the end (write, reload).
Unsettled == ~Settled
=============================================================================
