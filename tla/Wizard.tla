------------------------------- MODULE Wizard -------------------------------
(***************************************************************************)
(* The welcome wizard (backtrack-gtk/src/ui/wizard/, model/wizard.rs): what *)
(* to back up, where to, and with which passphrase are held on its pages   *)
(* until a repository is created, adopted, or the changes are saved; then   *)
(* they are written to the daemon one call at a time, while the pages may  *)
(* go on changing under the calls.                                         *)
(*                                                                         *)
(* A place is the repository it means (Destination::repository).           *)
(***************************************************************************)
EXTENDS Integers, Sequences, FiniteSets

CONSTANTS
  Places,   \* where backups may go
  Passes,   \* what may be typed as a passphrase
  Theirs,   \* the place a computer already backing up backs up to
  Turns,    \* bound: choices made, calls that fail, windows opened
  Circumstances

Possible ==
  {"leaves",   \* Back, or closing, while a button's work is under way
   "swaps",    \* another place is chosen while one is inspected
   "returns",  \* the old place is chosen again after another was set up or adopted
   "typing",   \* the passphrase is edited while the repository is created
   "refused",  \* the repository cannot be created after the choices are written
   "wrong",    \* a passphrase that does not open the backups to be adopted
   "partial",  \* one of several writes fails
   "beside",   \* a setting is changed elsewhere while the wizard is open
   "restart"}  \* the daemon goes during the first backup

\* The settings: the folders, how often, and whether to remember the passphrase.
Include == 1
Frequency == 2
Remember == 3
Settings == 1 .. 3
None == "none"

VARIABLES
  conf,       \* the daemon's: its repository and its settings
  repos,      \* Places -> the passphrase of the repository there, or None
  pages,      \* the navigation stack, empty while the window is closed
  before,     \* the configuration a second run started from
  choices,    \* Choices
  place,      \* destination: its repository, and whether it is the one kept
  protect,    \* Protect
  import,     \* Import
  inspecting, \* the destination being asked about, and how far that is
  work,       \* the pressed button's calls, which is what busy is
  first,      \* the first backup, as its page has it
  turns,
  \* What the properties remember.
  settled,    \* the settings as the last thing that went through left them
  others,     \* the settings as they were but for the wizard
  touched,    \* the settings changed in the wizard since it was opened
  keysKept,   \* the repositories whose key was saved or printed
  saved       \* "Save Changes" closed the window

daemon == <<conf, repos>>
held == <<before, choices, place, protect, import>>
ghosts == <<settled, others, touched, keysKept, saved>>
vars == <<daemon, pages, held, inspecting, work, first, turns, ghosts>>

-----------------------------------------------------------------------------
Values == [Settings -> BOOLEAN]
Fresh == [k \in Settings |-> FALSE]
Conf == [repo: Places \cup {None}, set: Values]
NoConf == [repo |-> None, set |-> Fresh]
NoPlace == [repo |-> None, current |-> FALSE]
NothingDone == [pass |-> None, confirm |-> None, created |-> None, kept |-> FALSE]
NoImport == [repo |-> None, adopting |-> FALSE]
NotInspecting == [repo |-> None, at |-> "no", finding |-> FALSE]
NoWork == [kind |-> "none", step |-> "none", repo |-> None, pass |-> None, want |-> Fresh,
           todo |-> {}, wrote |-> FALSE, adopting |-> FALSE]
Page == {"welcome", "what", "where", "protect", "import", "passphrase", "first"}
Step == {"none", "read", "write", "setup", "export", "save", "finish", "remember", "import", "done"}

TypeOK ==
  /\ conf \in Conf /\ repos \in [Places -> Passes \cup {None}]
  /\ pages \in Seq(Page) /\ before \in Conf /\ choices \in Values
  /\ place \in [repo: Places \cup {None}, current: BOOLEAN]
  /\ protect \in [pass: Passes \cup {None}, confirm: Passes \cup {None},
                  created: Places \cup {None}, kept: BOOLEAN]
  /\ import \in [repo: Places \cup {None}, adopting: BOOLEAN]
  /\ inspecting \in [repo: Places \cup {None}, at: {"no", "asked", "move", "offer"}, finding: BOOLEAN]
  /\ work \in [kind: {"none", "keep", "finish", "open"}, step: Step, repo: Places \cup {None},
               pass: Passes \cup {None}, want: Values, todo: SUBSET Settings,
               wrote: BOOLEAN, adopting: BOOLEAN]
  /\ first \in {"none", "running", "completed", "failed", "lost"}
  /\ turns \in 0 .. Turns /\ keysKept \subseteq Places

\* Before any backup here, or backing up to Theirs; a place may hold another
\* computer's backups.  Which of the passphrases they have makes no difference.
OldPass == CHOOSE p \in Passes : TRUE
Init ==
  /\ conf \in {NoConf, [repo |-> Theirs, set |-> Fresh]}
  /\ repos \in [Places -> {OldPass, None}]
  /\ Cardinality({p \in Places : repos[p] = None}) >= 1
  /\ conf.repo # None => repos[conf.repo] # None
  /\ pages = <<>> /\ before = NoConf /\ choices = Fresh /\ place = NoPlace
  /\ protect = NothingDone /\ import = NoImport /\ inspecting = NotInspecting
  /\ work = NoWork /\ first = "none" /\ turns = 0
  /\ settled = conf.set /\ others = conf.set /\ touched = {} /\ keysKept = {} /\ saved = FALSE

Turn == turns < Turns /\ turns' = turns + 1
Closed == pages = <<>>
Top == IF Closed THEN "closed" ELSE pages[Len(pages)]
\* A page that is on the stack is not pushed again.
Pushed(page) ==
  IF page \in {pages[i] : i \in DOMAIN pages} THEN pages ELSE Append(pages, page)
Working == work.kind # "none"
Asking == inspecting.at \in {"move", "offer"}   \* over the page

-----------------------------------------------------------------------------
\* The pages.

Again == before.repo # None
DestinationChanged == Again /\ place # NoPlace /\ ~place.current
Creating == ~Again \/ DestinationChanged
Editable == protect.created = None
Ready == protect.pass # None /\ protect.pass = protect.confirm

\* present, at the Welcome page or, from Storage, at where backups go.
Opens(page) ==
  /\ Closed /\ ~Working /\ Turn
  /\ page = "where" => conf.repo # None
  /\ pages' = IF page = "where" THEN <<"welcome", "where">> ELSE <<"welcome">>
  /\ before' = IF conf.repo = None THEN NoConf ELSE conf
  /\ choices' = IF conf.repo = None THEN Fresh ELSE conf.set
  /\ place' = IF conf.repo = None THEN NoPlace ELSE [repo |-> conf.repo, current |-> TRUE]
  /\ protect' = NothingDone /\ import' = NoImport
  /\ settled' = conf.set /\ others' = conf.set /\ touched' = {} /\ saved' = FALSE
  /\ UNCHANGED <<daemon, inspecting, work, first, keysKept>>

Goes(to) == pages' = to /\ UNCHANGED <<daemon, inspecting, work, first, turns, ghosts>>
GetsStarted ==
  /\ Top = "welcome" /\ ~Asking /\ Goes(Pushed("what")) /\ UNCHANGED held
Imports ==
  /\ Top = "welcome" /\ ~Again /\ ~Asking /\ Goes(Pushed("import"))
  /\ import' = NoImport /\ UNCHANGED <<before, choices, place, protect>>
ChoosesWhere ==
  /\ Top = "what" /\ ~Asking /\ Goes(Pushed("where")) /\ UNCHANGED held
Back ==
  /\ Len(pages) > 1 /\ Top # "first" /\ ~Asking
  /\ Working => "leaves" \in Circumstances
  /\ Goes(SubSeq(pages, 1, Len(pages) - 1)) /\ UNCHANGED held
Closes ==
  /\ ~Closed /\ ~Asking
  /\ Working => "leaves" \in Circumstances
  /\ pages' = <<>> /\ inspecting' = NotInspecting
  /\ UNCHANGED <<daemon, held, work, first, turns, ghosts>>

\* A choice, on the page that has it.
Flips(k) ==
  /\ ~Asking /\ Turn
  /\ \/ k = Include /\ Top = "what"
     \/ k = Frequency /\ Top = "protect"
     \/ k = Remember /\ ((Top = "protect" /\ Creating /\ Editable) \/ Top = "passphrase")
  /\ choices' = [choices EXCEPT ![k] = ~@] /\ touched' = touched \cup {k}
  /\ UNCHANGED <<daemon, pages, before, place, protect, import, inspecting, work, first,
                 settled, others, keysKept, saved>>

\* choose.
Chooses(p) ==
  /\ Top = "where" /\ ~Asking /\ Turn
  /\ p.current => Again /\ p.repo = before.repo
  /\ p.current /\ (protect.created # None \/ conf.repo # before.repo) => "returns" \in Circumstances
  /\ inspecting # NotInspecting /\ p # place => "swaps" \in Circumstances
  /\ place' = p
  /\ UNCHANGED <<daemon, pages, before, choices, protect, import, inspecting, work, first, ghosts>>

\* show_drives: what was chosen and has been unplugged is no longer a choice.
Unplugged ==
  /\ ~Closed /\ place # NoPlace /\ ~place.current /\ Turn
  /\ place' = NoPlace
  /\ UNCHANGED <<daemon, pages, before, choices, protect, import, inspecting, work, first, ghosts>>

\* go_on, which asks first what is there, and found on the import page.
GoesOn ==
  /\ Top = "where" /\ place # NoPlace /\ inspecting = NotInspecting
  /\ IF place.current THEN pages' = Pushed("protect") /\ UNCHANGED inspecting
     ELSE inspecting' = [repo |-> place.repo, at |-> "asked", finding |-> FALSE] /\ UNCHANGED pages
  /\ UNCHANGED <<daemon, held, work, first, turns, ghosts>>
Finds(p) ==
  /\ Top = "import" /\ inspecting = NotInspecting
  /\ inspecting' = [repo |-> p, at |-> "asked", finding |-> TRUE]
  /\ UNCHANGED <<daemon, pages, held, work, first, turns, ghosts>>

\* Mutant: what was done for another repository goes on counting.
ArrivesAsItWas ==
  /\ inspecting' = NotInspecting
  /\ pages' = Pushed("protect") /\ UNCHANGED <<protect, import>>

\* retarget: what was done for another repository does not count for this one.
Arrives ==
  /\ inspecting' = NotInspecting
  /\ protect' = IF protect.created = inspecting.repo THEN protect
                ELSE [protect EXCEPT !.created = None, !.kept = FALSE]
  /\ pages' = Pushed("protect") /\ UNCHANGED import
\* What is there is to be adopted, its passphrase asked for.
Adopts(adopting) ==
  /\ inspecting' = NotInspecting
  /\ import' = [repo |-> inspecting.repo, adopting |-> adopting]
  /\ pages' = Pushed("passphrase") /\ UNCHANGED protect
StaysThere == inspecting' = NotInspecting /\ UNCHANGED <<pages, protect, import>>
\* confirm_move and offer_existing.
Puts(question) == inspecting' = [inspecting EXCEPT !.at = question] /\ UNCHANGED <<pages, protect, import>>

Inspected ==
  LET empty == repos[inspecting.repo] = None IN
  /\ inspecting.at = "asked"
  /\ \/ ~empty /\ inspecting.finding /\ Adopts(FALSE)
     \/ ~empty /\ ~inspecting.finding /\ Puts("offer")
     \/ empty /\ inspecting.finding /\ StaysThere
     \/ empty /\ ~inspecting.finding /\ Again /\ Puts("move")
     \/ empty /\ ~inspecting.finding /\ ~Again /\ Arrives
  /\ UNCHANGED <<daemon, before, choices, place, work, first, turns, ghosts>>
\* Files of somebody else's, nowhere to write, or out of reach.
InspectedInVain ==
  /\ inspecting.at = "asked" /\ Turn /\ StaysThere
  /\ UNCHANGED <<daemon, before, choices, place, work, first, ghosts>>
Answers(yes) ==
  /\ Asking
  /\ IF ~yes THEN StaysThere ELSE IF inspecting.at = "move" THEN Arrives ELSE Adopts(TRUE)
  /\ UNCHANGED <<daemon, before, choices, place, work, first, turns, ghosts>>

\* typed: both fields, alike or not.
Types(pass, confirm) ==
  /\ Top = "protect" /\ Creating /\ Editable /\ ~Asking /\ Turn
  /\ Working => "typing" \in Circumstances
  /\ protect' = [protect EXCEPT !.pass = pass, !.confirm = confirm]
  /\ UNCHANGED <<daemon, pages, before, choices, place, import, inspecting, work, first, ghosts>>

-----------------------------------------------------------------------------
\* The buttons, and the calls each of them makes.

Presses(w) ==
  /\ ~Working /\ ~Asking /\ work' = w
  /\ UNCHANGED <<daemon, pages, held, inspecting, first, turns, ghosts>>

\* keep: for the repository chosen now, which is created when it has not been.
PressesKeep ==
  /\ Top = "protect" /\ place # NoPlace
  /\ Creating => ~Editable \/ Ready
  /\ Presses([NoWork EXCEPT !.kind = "keep", !.repo = place.repo, !.pass = protect.pass,
               !.step = IF Creating /\ protect.created # place.repo THEN "read" ELSE "export"])
\* finish.
PressesStart ==
  /\ Top = "protect"
  /\ Creating => protect.created # None /\ protect.kept
  /\ Presses([NoWork EXCEPT !.kind = "finish", !.step = "read"])
\* open_backups.
PressesOpen(pass) ==
  /\ Top = "passphrase" /\ import # NoImport
  /\ \/ pass = repos[import.repo] \/ conf.set[Remember] = choices[Remember]
     \/ "wrong" \in Circumstances
  /\ Presses([NoWork EXCEPT !.kind = "open", !.step = "remember", !.repo = import.repo,
               !.pass = pass, !.adopting = import.adopting, !.want = choices])

\* changes: what differs from what the daemon holds now.
Changes == {k \in Settings : conf.set[k] # choices[k]}
Least(S) == CHOOSE k \in S : \A l \in S : k <= l
AfterWrites(w) ==
  IF w.todo # {} THEN "write"
  ELSE CASE w.kind = "keep" -> "setup" [] w.kind = "finish" -> "finish" [] w.kind = "open" -> "done"
Onward(w) == [w EXCEPT !.step = AfterWrites(w)]

\* apply_choices: get_config, and a set_config for each.
Reads ==
  /\ work.step = "read"
  /\ work' = Onward([work EXCEPT !.want = choices, !.todo = Changes])
  /\ UNCHANGED <<daemon, pages, held, inspecting, first, turns, ghosts>>
Writes ==
  LET k == Least(work.todo) IN
  /\ work.step = "write"
  /\ conf' = [conf EXCEPT !.set[k] = work.want[k]]
  /\ work' = Onward([work EXCEPT !.todo = @ \ {k}, !.wrote = TRUE])
  /\ UNCHANGED <<repos, pages, held, inspecting, first, turns, ghosts>>

Settles == settled' = conf'.set

\* setup_repo: refused where there is one already, and for reasons of its own.
SetsUp ==
  /\ work.step = "setup" /\ repos[work.repo] = None
  /\ repos' = [repos EXCEPT ![work.repo] = work.pass]
  /\ conf' = [conf EXCEPT !.repo = work.repo] /\ Settles
  /\ protect' = [protect EXCEPT !.created = work.repo, !.kept = FALSE]
  /\ work' = [work EXCEPT !.step = "export"]
  /\ UNCHANGED <<pages, before, choices, place, import, inspecting, first, turns,
                 others, touched, keysKept, saved>>
\* A call that fails ends the button's work, with the reason in a toast.
Fails ==
  /\ \/ /\ work.step = "setup"
        /\ repos[work.repo] # None \/ ~work.wrote \/ "refused" \in Circumstances
        /\ turns' = IF turns < Turns THEN turns + 1 ELSE turns
     \/ work.step \in {"export", "read", "remember"} /\ Turn
     \/ work.step = "import" /\ (~work.wrote \/ "wrong" \in Circumstances) /\ Turn
     \/ work.step = "write" /\ (~work.wrote \/ "partial" \in Circumstances) /\ Turn
  /\ work' = NoWork
  /\ UNCHANGED <<daemon, pages, held, inspecting, first, ghosts>>

Exports ==
  /\ work.step = "export" /\ work' = [work EXCEPT !.step = "save", !.repo = conf.repo]
  /\ UNCHANGED <<daemon, pages, held, inspecting, first, turns, ghosts>>
\* The file chooser or the print dialog; kept, if anything was created.
Keeps(yes) ==
  /\ work.step = "save" /\ work' = NoWork
  /\ IF yes THEN /\ keysKept' = keysKept \cup {work.repo}
                 /\ protect' = [protect EXCEPT !.kept = @ \/ protect.created # None]
     ELSE UNCHANGED <<keysKept, protect>>
  /\ UNCHANGED <<daemon, pages, before, choices, place, import, inspecting, first, turns,
                 settled, others, touched, saved>>

\* The end of finish: saved and closed, or the first backup is started.
Finishes ==
  /\ work.step = "finish" /\ work' = NoWork
  /\ IF Creating
     THEN \/ pages' = Pushed("first") /\ first' = "running" /\ UNCHANGED <<turns, saved>>
          \/ Turn /\ UNCHANGED <<pages, first, saved>>
     ELSE pages' = <<>> /\ saved' = TRUE /\ UNCHANGED <<first, turns>>
  /\ settled' = conf.set
  /\ UNCHANGED <<daemon, held, inspecting, others, touched, keysKept>>

\* open_backups: where the passphrase is kept is settled first.
Remembers ==
  /\ work.step = "remember"
  /\ conf' = [conf EXCEPT !.set[Remember] = work.want[Remember]]
  /\ work' = [work EXCEPT !.step = "import", !.wrote = conf' # conf]
  /\ UNCHANGED <<repos, pages, held, inspecting, first, turns, ghosts>>
\* import_repo, which refuses a passphrase that does not open it.
ImportsRepo ==
  /\ work.step = "import"
  /\ IF work.pass = repos[work.repo]
     THEN /\ conf' = [conf EXCEPT !.repo = work.repo] /\ Settles
          /\ work' = [work EXCEPT !.step = IF work.adopting THEN "read" ELSE "done", !.wrote = FALSE]
     ELSE work' = NoWork /\ UNCHANGED <<conf, settled>>
  /\ UNCHANGED <<repos, pages, held, inspecting, first, turns, others, touched, keysKept, saved>>
\* The timeline is opened, or everything offered; the wizard goes.
Opened ==
  /\ work.step = "done" /\ work' = NoWork
  /\ pages' = <<>> /\ settled' = conf.set
  /\ UNCHANGED <<daemon, held, inspecting, first, turns, others, touched, keysKept, saved>>

\* first_backup: the page waits for the end of the job it was given.
BackupEnds(outcome) ==
  /\ first = "running" /\ first' = outcome
  /\ outcome = "lost" => "restart" \in Circumstances
  /\ UNCHANGED <<daemon, pages, held, inspecting, work, turns, ghosts>>
Retries ==
  /\ Top = "first" /\ first = "failed" /\ Turn
  /\ \/ first' = "running" /\ UNCHANGED pages
     \/ first' = "none" /\ pages' = SubSeq(pages, 1, Len(pages) - 1)
  /\ UNCHANGED <<daemon, held, inspecting, work, ghosts>>
Browses ==
  /\ Top = "first" /\ first = "completed" /\ pages' = <<>>
  /\ UNCHANGED <<daemon, held, inspecting, work, first, turns, ghosts>>

\* Preferences, or another client.
ChangesElsewhere(k) ==
  /\ Turn /\ ~Working /\ (Closed \/ "beside" \in Circumstances)
  /\ conf' = [conf EXCEPT !.set[k] = ~@]
  /\ settled' = [settled EXCEPT ![k] = ~@] /\ others' = [others EXCEPT ![k] = ~@]
  /\ UNCHANGED <<repos, pages, held, inspecting, work, first, touched, keysKept, saved>>

-----------------------------------------------------------------------------
Calls ==
  \/ Reads \/ Writes \/ SetsUp \/ Exports \/ Finishes \/ Remembers \/ ImportsRepo \/ Opened
Person ==
  \/ \E page \in {"welcome", "where"} : Opens(page)
  \/ GetsStarted \/ Imports \/ ChoosesWhere \/ Back \/ Closes \/ Unplugged \/ GoesOn
  \/ \E k \in Settings : Flips(k) \/ ChangesElsewhere(k)
  \/ \E p \in Places : Finds(p) \/ \E c \in BOOLEAN : Chooses([repo |-> p, current |-> c])
  \/ \E yes \in BOOLEAN : Answers(yes) \/ Keeps(yes)
  \/ \E p, c \in Passes : Types(p, c)
  \/ \E p \in Passes : PressesOpen(p)
  \/ PressesKeep \/ PressesStart \/ Retries \/ Browses
Ends == \E o \in {"completed", "failed", "lost"} : BackupEnds(o)
Next == Calls \/ Fails \/ Inspected \/ InspectedInVain \/ Ends \/ Person
Spec == Init /\ [][Next]_vars

\* Calls are answered, a dialog is too, and a backup ends.
Fairness ==
  /\ WF_vars(Calls \/ Fails \/ \E yes \in BOOLEAN : Keeps(yes)) /\ WF_vars(Ends)
FairSpec == Spec /\ Fairness

-----------------------------------------------------------------------------
\* What is started on the last page, or saved there, is backups to the place
\* chosen, and none are started before the key of just that repository has
\* been saved or printed (protect.rs, Protect::can_start).
StartsWhereItSays ==
  (Top = "first" \/ saved) /\ place # NoPlace =>
    conf.repo = place.repo /\ (Top = "first" => conf.repo \in keysKept)

\* With no button at work, the settings are as the last thing that went
\* through left them: nothing was written on the way to what failed, or by a
\* wizard that was left ("A wizard closed halfway leaves the settings as it
\* found them", wizard/mod.rs:9).
NothingHalfDone == ~Working => conf.set = settled

\* The passphrase on the page is the one the repository was created with
\* ("a change shown on screen that the repository never heard about would be a
\* lie", model/wizard.rs:456).
PassphraseIsTheRepositorys ==
  Top = "protect" /\ protect.created # None => repos[protect.created] = protect.pass

\* A second run leaves what was not changed in it as others have it
\* (model/wizard.rs:119, changes).
OthersSettingsStay ==
  Again => \A k \in Settings \ touched : conf.set[k] = others[k]

\* All of these.
WizardSafety ==
  TypeOK /\ StartsWhereItSays /\ NothingHalfDone /\ PassphraseIsTheRepositorys /\ OthersSettingsStay

\* A button's work is over some time, and the first backup is shown to end.
BackingUp == first \in {"running", "lost"}
WizardEnds == (Working ~> ~Working) /\ (BackingUp ~> ~BackingUp)
=============================================================================
