---------------------------- MODULE Passphrases ----------------------------
(***************************************************************************)
(* Where the backups' passphrase is: in the key of the repository, in the  *)
(* key of the local safety net, which is given the same one, in the        *)
(* keyring and in the daemon's memory (backtrack-core/src/secret,          *)
(* backtrackd/src/service/mod.rs).                                         *)
(*                                                                         *)
(* A call is a task of its own: every Borg command and every use of the    *)
(* keyring is a step in it, which may fail, and after which others go on.  *)
(* A repository is named by its place, as the keyring names it.            *)
(***************************************************************************)
EXTENDS Integers, FiniteSets

CONSTANTS
  Repos,       \* places a repository may be at
  Passes,      \* passphrases
  Callers,     \* who calls
  Calls,       \* bound: the calls
  Events,      \* bound: what fails, and what happens besides calls
  Circumstances \* which of these may happen: see Possible

Possible ==
  {"side by side", \* calls overlap, with each other and with a local backup
   "refuses",      \* the person leaves a locked keyring locked
   "half done",    \* what would undo or carry over fails
   "crash",        \* the daemon stops in the middle of a call
   "same place",   \* the destination in use is imported or created again
   "unread",       \* the passphrase cannot be read when a new destination comes
   "by hand",      \* the destination is set as a setting, over a safety net
   "reset",        \* the settings are reset, over a safety net
   "locked",       \* remembering is switched off while the keyring is locked
   "old key"}      \* a recovery key of an older passphrase is put back

None == "none"

ASSUME PassphrasesAssumption ==
  /\ Repos # {} /\ Passes # {} /\ None \notin Repos \cup Passes /\ Calls \in Nat /\ Events \in Nat
  /\ Circumstances \subseteq Possible

VARIABLES
  repoKey,  \* what opens the repository at each place
  exported, \* what opened it when its recovery key was saved
  spoolKey, \* what opens the local safety net
  keyring,  \* what the keyring has for each repository
  open,     \* the keyring is unlocked
  config,   \* on disk: the destination, and whether to remember
  held,     \* SessionSecretStore: in memory
  remember, \* SessionSecretStore's own flag
  engine,   \* the repository the daemon has an engine for
  spoolFor, \* the repository whose passphrase the safety net's engine reads
  calls, callsLeft, left

keys == <<repoKey, exported, spoolKey>>
store == <<keyring, open, held, remember>>
daemon == <<config, engine, spoolFor>>
vars == <<keys, store, daemon, calls, callsLeft, left>>

Op == {"change", "setup", "import", "unlock", "setting"}
At == {"rekeying", "rekeying spool", "undoing", "storing", "opening", "carrying", "importing key",
       "trying", "remembering", "saving", "keeping"}
Idle == [op |-> "idle"]
Call == [op: Op, at: At, repo: Repos, pass: Passes \cup {None}, old: Passes \cup {None},
         remember: BOOLEAN]

TypeOK ==
  /\ repoKey \in [Repos -> Passes \cup {None}] /\ exported \in [Repos -> Passes \cup {None}]
  /\ spoolKey \in Passes \cup {None}
  /\ keyring \in [Repos -> Passes \cup {None}] /\ open \in BOOLEAN
  /\ config \in [repo: Repos \cup {None}, remember: BOOLEAN]
  /\ held \in [Repos -> Passes \cup {None}] /\ remember \in BOOLEAN
  /\ engine \in Repos \cup {None} /\ spoolFor \in Repos \cup {None}
  /\ calls \in [Callers -> Call \cup {Idle}]
  /\ \A c \in Callers : calls[c].op = "change" => calls[c].old # None
  /\ callsLeft \in 0 .. Calls /\ left \in 0 .. Events

AtRest == \A c \in Callers : calls[c] = Idle

\* SessionSecretStore::get.
Get(repo) ==
  IF held[repo] # None THEN held[repo] ELSE IF open THEN keyring[repo] ELSE None

Reads(repo) == Get(repo) # None

\* The first run of the wizard is a call like any other.
Init ==
  /\ repoKey \in [Repos -> {None} \cup Passes] /\ exported = [r \in Repos |-> None]
  /\ spoolKey = None
  /\ keyring = [r \in Repos |-> None] /\ open = TRUE
  /\ config = [repo |-> None, remember |-> TRUE]
  /\ held = [r \in Repos |-> None] /\ remember = TRUE
  /\ engine = None /\ spoolFor = None
  /\ calls = [c \in Callers |-> Idle] /\ callsLeft = Calls /\ left = Events

Happens == left > 0 /\ left' = left - 1
Alone == "side by side" \in Circumstances \/ AtRest

-----------------------------------------------------------------------------
\* The steps calls are made of.

Begins(c, call) ==
  /\ calls[c] = Idle /\ Alone
  /\ callsLeft > 0 /\ callsLeft' = callsLeft - 1
  /\ calls' = [calls EXCEPT ![c] = call]

Goes(c, at) == calls' = [calls EXCEPT ![c].at = at]
Ends(c) == calls' = [calls EXCEPT ![c] = Idle]
In(c, op, at) == calls[c] # Idle /\ calls[c].op \in op /\ calls[c].at = at

\* A locked keyring asks the person, who opens it or does not.
Opens(takes) ==
  /\ open \/ "refuses" \in Circumstances \/ takes
  /\ open => takes
  /\ open' = takes

InKeyring(pass) == IF remember THEN pass ELSE None

\* SessionSecretStore::set.
Keeps(repo, pass, takes) ==
  /\ Opens(takes)
  /\ IF takes
     THEN /\ keyring' = [keyring EXCEPT ![repo] = InKeyring(pass)]
          /\ held' = [held EXCEPT ![repo] = pass]
     ELSE UNCHANGED <<keyring, held>>
  /\ UNCHANGED remember

\* Mutant: switching it off does not keep what it takes out of the keyring.
HoldsNothing(repo) == held[repo]
\* What is in memory once remembering is off.
Holds(repo) == IF held[repo] # None THEN held[repo] ELSE keyring[repo]

\* SessionSecretStore::set_remember, for the destination.  What cannot be read is
\* taken for missing, a locked keyring's included, and then nothing is deleted.
Remembers(repo, on, takes) ==
  /\ remember' = on
  /\ IF on
     THEN /\ UNCHANGED held
          /\ IF held[repo] = None THEN UNCHANGED <<keyring, open>> /\ takes
             ELSE /\ Opens(takes)
                  /\ keyring' = IF takes THEN [keyring EXCEPT ![repo] = held[repo]] ELSE keyring
     ELSE IF Get(repo) = None
     THEN /\ open \/ keyring[repo] = None \/ "locked" \in Circumstances
          /\ takes /\ UNCHANGED <<held, keyring, open>>
     ELSE /\ Opens(takes)
          /\ held' = [held EXCEPT ![repo] = Holds(repo)]
          /\ keyring' = IF takes THEN [keyring EXCEPT ![repo] = None] ELSE keyring

-----------------------------------------------------------------------------
\* change_passphrase.

ChangeBegins(c, new) ==
  /\ config.repo # None /\ Reads(config.repo) /\ engine # None
  /\ Begins(c, [op |-> "change", at |-> "rekeying", repo |-> config.repo, pass |-> new,
                old |-> Get(config.repo), remember |-> FALSE])
  /\ UNCHANGED <<keys, store, daemon, left>>

ChangeRekeys(c, reached) ==
  LET changes == reached /\ repoKey[calls[c].repo] = calls[c].old
  IN /\ In(c, {"change"}, "rekeying")
     /\ IF reached THEN UNCHANGED left ELSE Happens
     /\ IF changes THEN Goes(c, "rekeying spool") ELSE Ends(c)
     /\ repoKey' = IF changes THEN [repoKey EXCEPT ![calls[c].repo] = calls[c].pass] ELSE repoKey
     /\ UNCHANGED <<exported, spoolKey, store, daemon, callsLeft>>

\* Mutant: the safety net keeps its passphrase.
SpoolLeft(pass) == spoolKey
SpoolAs(pass) == pass

ChangeRekeysSpool(c, runs) ==
  LET call == calls[c]
      opens == runs /\ spoolKey = call.old
  IN /\ In(c, {"change"}, "rekeying spool")
     /\ IF runs THEN UNCHANGED left ELSE Happens
     /\ IF spoolKey = None THEN Goes(c, "keeping") /\ UNCHANGED <<spoolKey, spoolFor>>
        ELSE /\ Goes(c, IF opens THEN "keeping" ELSE "undoing")
             /\ spoolKey' = IF opens THEN SpoolAs(call.pass) ELSE spoolKey
             /\ spoolFor' = IF spoolFor = None THEN config.repo ELSE spoolFor
     /\ UNCHANGED <<repoKey, exported, store, config, engine, callsLeft>>

ChangeKeeps(c, takes) ==
  /\ In(c, {"change"}, "keeping")
  /\ Keeps(calls[c].repo, calls[c].pass, takes)
  /\ IF takes THEN Ends(c) ELSE Goes(c, "undoing")
  /\ UNCHANGED <<keys, daemon, callsLeft, left>>

Undone(call) == call.old

\* The repository's key is changed back, and the safety net's is not.
ChangeUndoes(c, reached) ==
  /\ In(c, {"change"}, "undoing")
  /\ IF reached THEN UNCHANGED left ELSE Happens /\ "half done" \in Circumstances
  /\ repoKey' = IF reached /\ repoKey[calls[c].repo] = calls[c].pass
                THEN [repoKey EXCEPT ![calls[c].repo] = Undone(calls[c])] ELSE repoKey
  /\ Ends(c)
  /\ UNCHANGED <<exported, spoolKey, store, daemon, callsLeft>>

-----------------------------------------------------------------------------
\* setup_repo and import_repo.

ReadsFirst(call) == call.old

AdoptBegins(c, op, path, pass) ==
  /\ "same place" \in Circumstances \/ config.repo # path \/ repoKey[path] = None
  /\ config.repo # None /\ spoolKey # None => "unread" \in Circumstances \/ Reads(config.repo)
  /\ Begins(c, [op |-> op, at |-> "storing", repo |-> path, pass |-> pass,
                old |-> IF config.repo = None THEN None ELSE Get(config.repo), remember |-> FALSE])
  /\ UNCHANGED <<keys, store, daemon, left>>

AdoptStores(c, takes) ==
  /\ In(c, {"setup", "import"}, "storing")
  /\ Keeps(calls[c].repo, calls[c].pass, takes)
  /\ IF takes THEN Goes(c, "opening") ELSE Ends(c)
  /\ UNCHANGED <<keys, daemon, callsLeft, left>>

\* A repository is created, or opened, and the destination is that one.
AdoptOpens(c, reached) ==
  LET call == calls[c]
      pass == Get(call.repo)
      opens == reached /\ pass # None
               /\ IF call.op = "setup" THEN repoKey[call.repo] = None ELSE repoKey[call.repo] = pass
  IN /\ In(c, {"setup", "import"}, "opening")
     /\ opens \/ call.repo # config.repo \/ "same place" \in Circumstances
     /\ IF reached THEN UNCHANGED left ELSE Happens
     /\ IF opens
        THEN /\ Goes(c, "carrying")
             /\ config' = [config EXCEPT !.repo = call.repo]
             /\ engine' = call.repo /\ spoolFor' = None
             /\ repoKey' = [repoKey EXCEPT ![call.repo] = pass]
             /\ exported' = IF call.op = "setup" THEN [exported EXCEPT ![call.repo] = None] ELSE exported
        ELSE Ends(c) /\ UNCHANGED <<config, engine, spoolFor, repoKey, exported>>
     /\ UNCHANGED <<spoolKey, store, callsLeft>>

\* rekey_spool.
AdoptCarries(c, runs) ==
  LET call == calls[c]
      old  == ReadsFirst(call)
      carries == runs /\ old \notin {None, call.pass} /\ spoolKey # None /\ spoolKey = old
  IN /\ In(c, {"setup", "import"}, "carrying")
     /\ IF runs THEN UNCHANGED left ELSE Happens /\ "half done" \in Circumstances
     /\ spoolKey' = IF carries THEN call.pass ELSE spoolKey
     /\ Ends(c)
     /\ UNCHANGED <<repoKey, exported, store, daemon, callsLeft>>

-----------------------------------------------------------------------------
\* unlock_backups, and the setting.

UnlockBegins(c, pass, on, key) ==
  /\ config.repo # None
  /\ key => /\ exported[config.repo] # None /\ engine = config.repo
            /\ "old key" \in Circumstances \/ exported[config.repo] = repoKey[config.repo]
  /\ Begins(c, [op |-> "unlock", at |-> IF key THEN "importing key" ELSE "trying",
                repo |-> config.repo, pass |-> pass, old |-> None, remember |-> on])
  /\ UNCHANGED <<keys, store, daemon, left>>

UnlockImports(c) ==
  LET repo == calls[c].repo
  IN /\ In(c, {"unlock"}, "importing key")
     /\ IF exported[repo] = None \/ repoKey[repo] = None THEN Ends(c) /\ UNCHANGED repoKey
        ELSE Goes(c, "trying") /\ repoKey' = [repoKey EXCEPT ![repo] = exported[repo]]
     /\ UNCHANGED <<exported, spoolKey, store, daemon, callsLeft, left>>

\* try_passphrase: away from the repository, the safety net answers.
Fits(pass, repo, reached) ==
  IF reached THEN pass = repoKey[repo] ELSE spoolKey # None /\ pass = spoolKey

UnlockTries(c, reached) ==
  LET call == calls[c]
  IN /\ In(c, {"unlock"}, "trying")
     /\ IF reached THEN UNCHANGED left ELSE Happens
     /\ IF ~Fits(call.pass, call.repo, reached) THEN Ends(c)
        ELSE Goes(c, IF call.remember # config.remember THEN "remembering" ELSE "keeping")
     /\ UNCHANGED <<keys, store, daemon, callsLeft>>

UnlockKeeps(c, takes) ==
  /\ In(c, {"unlock"}, "keeping")
  /\ Keeps(calls[c].repo, calls[c].pass, takes)
  /\ Ends(c)
  /\ UNCHANGED <<keys, daemon, callsLeft, left>>

\* set_config_key of the setting.
SettingBegins(c) ==
  /\ config.repo # None
  /\ Begins(c, [op |-> "setting", at |-> "remembering", repo |-> config.repo, pass |-> None,
                old |-> None, remember |-> ~config.remember])
  /\ UNCHANGED <<keys, store, daemon, left>>

RememberMoves(c, takes) ==
  /\ In(c, {"unlock", "setting"}, "remembering")
  /\ Remembers(calls[c].repo, calls[c].remember, takes)
  /\ IF takes THEN Goes(c, "saving") ELSE Ends(c)
  /\ UNCHANGED <<keys, daemon, callsLeft, left>>

Saved(on) == on

RememberSaves(c) ==
  /\ In(c, {"unlock", "setting"}, "saving")
  /\ config' = [config EXCEPT !.remember = Saved(calls[c].remember)]
  /\ IF calls[c].op = "unlock" THEN Goes(c, "keeping") ELSE Ends(c)
  /\ UNCHANGED <<keys, store, engine, spoolFor, callsLeft, left>>

-----------------------------------------------------------------------------
\* Calls of one step, and what is not a call.

Calling == Alone /\ callsLeft > 0 /\ callsLeft' = callsLeft - 1

\* set_config_key of the destination, and connect_engine.
SetsRepository(path) ==
  /\ Calling /\ path # config.repo
  /\ \/ "by hand" \in Circumstances
     \/ spoolKey = None /\ {keyring[path], held[path]} \subseteq {None, repoKey[path]}
        /\ (config.remember \/ keyring[path] = None)
  /\ config' = [config EXCEPT !.repo = path] /\ engine' = path
  /\ UNCHANGED <<keys, store, spoolFor, calls, left>>

\* reset_config.
Resets ==
  /\ Calling /\ ("reset" \in Circumstances \/ spoolKey = None)
  /\ config' = [repo |-> None, remember |-> TRUE] /\ remember' = TRUE
  /\ engine' = None
  /\ UNCHANGED <<keys, keyring, open, held, spoolFor, calls, left>>

\* start_fresh: the repository is put aside.
StartsFresh ==
  /\ config.repo # None /\ repoKey[config.repo] # None /\ Calling
  /\ repoKey' = [repoKey EXCEPT ![config.repo] = None]
  /\ exported' = [exported EXCEPT ![config.repo] = None]
  /\ engine' = None
  /\ UNCHANGED <<spoolKey, store, config, spoolFor, calls, left>>

\* The recovery key is saved.
KeyIsSaved ==
  /\ Calling /\ engine # None /\ repoKey[engine] # None
  /\ exported' = [exported EXCEPT ![engine] = repoKey[engine]]
  /\ UNCHANGED <<repoKey, spoolKey, store, daemon, calls, left>>

\* spool_engine, for a local backup: the safety net is opened, or is created with
\* the destination's passphrase.
SpoolIsOpened ==
  /\ Alone /\ config.repo # None /\ spoolFor = None /\ Happens
  /\ spoolKey # None \/ Reads(config.repo)
  /\ spoolKey' = IF spoolKey = None THEN Get(config.repo) ELSE spoolKey
  /\ spoolFor' = config.repo
  /\ UNCHANGED <<repoKey, exported, store, config, engine, calls, callsLeft>>

KeyringLocks ==
  /\ open /\ Happens /\ open' = FALSE
  /\ UNCHANGED <<keys, keyring, held, remember, daemon, calls, callsLeft>>

KeyringOpens ==
  /\ ~open /\ open' = TRUE
  /\ UNCHANGED <<keys, keyring, held, remember, daemon, calls, callsLeft, left>>

\* The daemon stops and starts.
Restarts ==
  /\ Happens
  /\ "crash" \in Circumstances \/ AtRest
  /\ calls' = [c \in Callers |-> Idle]
  /\ held' = [r \in Repos |-> None] /\ remember' = config.remember
  /\ engine' = config.repo /\ spoolFor' = None
  /\ UNCHANGED <<keys, keyring, open, config, callsLeft>>

Next ==
  \/ \E c \in Callers, pass \in Passes :
       \/ ChangeBegins(c, pass)
       \/ \E op \in {"setup", "import"}, path \in Repos : AdoptBegins(c, op, path, pass)
       \/ \E on \in BOOLEAN, key \in BOOLEAN : UnlockBegins(c, pass, on, key)
  \/ \E c \in Callers, ok \in BOOLEAN :
       \/ ChangeRekeys(c, ok) \/ ChangeRekeysSpool(c, ok) \/ ChangeKeeps(c, ok) \/ ChangeUndoes(c, ok)
       \/ AdoptStores(c, ok) \/ AdoptOpens(c, ok) \/ AdoptCarries(c, ok)
       \/ UnlockTries(c, ok) \/ UnlockKeeps(c, ok) \/ RememberMoves(c, ok)
  \/ \E c \in Callers : UnlockImports(c) \/ SettingBegins(c) \/ RememberSaves(c)
  \/ \E path \in Repos : SetsRepository(path)
  \/ Resets \/ StartsFresh \/ KeyIsSaved
  \/ SpoolIsOpened \/ KeyringLocks \/ KeyringOpens \/ Restarts

Spec == Init /\ [][Next]_vars

-----------------------------------------------------------------------------
\* Properties.

\* With no call in the middle, the passphrase the daemon reads for the destination
\* opens the local safety net too, now and after a restart: the versions only it
\* has are never locked in (change_passphrase, rekey_spool, spool_engine).
SpoolOpens ==
  AtRest /\ config.repo # None /\ spoolKey # None /\ Get(config.repo) # None
    => Get(config.repo) = spoolKey /\ (spoolFor # None => Get(spoolFor) = spoolKey)

\* With no call in the middle, a stored passphrase opens the destination: no
\* failed call has left one there that does not (change_passphrase, import_repo,
\* unlock_backups).
StoredOpens ==
  AtRest /\ config.repo # None /\ Get(config.repo) # None
    => repoKey[config.repo] \in {None, Get(config.repo)}

\* With no call in the middle, the store does what the setting says, a refused
\* change included (set_config_key, set_remember).
FlagIsSetting == AtRest => remember = config.remember

\* What the person asked to forget is not in the keyring (set_remember, set).
KeyringForgets ==
  AtRest /\ config.repo # None /\ ~config.remember => keyring[config.repo] = None

\* Moving the passphrase where the setting says does not stop the backups: what
\* could be read can be read, and is the same (set_remember).
MovesWhole ==
  [][\A c \in Callers, repo \in Repos :
       /\ calls[c] # Idle /\ calls[c].at = "remembering" /\ calls[c].repo = repo
       /\ calls'[c] # calls[c] /\ Get(repo) # None
       => Get(repo)' = Get(repo)]_vars

\* With no call in the middle, the passphrase on this computer opens what it is
\* for, and is kept where the person wants it (service/mod.rs, session.rs).
PassphraseSafety ==
  TypeOK /\ SpoolOpens /\ StoredOpens /\ FlagIsSetting /\ KeyringForgets
=============================================================================
