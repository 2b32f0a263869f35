-------------------------- MODULE PassphraseProofs --------------------------
(***************************************************************************)
(* The passphrase on this computer opens what it is for: proved for any    *)
(* repositories, passphrases and callers, and any number of calls, of      *)
(* failures and of restarts.                                               *)
(***************************************************************************)
EXTENDS Passphrases, TLAPS

USE PassphrasesAssumption DEF PassphrasesAssumption, None, Op, At

-----------------------------------------------------------------------------
(* The parts of the type invariant. *)
KeysOK ==
  /\ repoKey \in [Repos -> Passes \cup {None}] /\ exported \in [Repos -> Passes \cup {None}]
  /\ spoolKey \in Passes \cup {None}
StoreOK ==
  /\ keyring \in [Repos -> Passes \cup {None}] /\ open \in BOOLEAN
  /\ held \in [Repos -> Passes \cup {None}] /\ remember \in BOOLEAN
DaemonOK ==
  /\ config \in [repo: Repos \cup {None}, remember: BOOLEAN]
  /\ engine \in Repos \cup {None} /\ spoolFor \in Repos \cup {None}
CallsOK ==
  /\ calls \in [Callers -> Call \cup {Idle}]
  /\ \A c \in Callers : calls[c].op = "change" => calls[c].old # None
BoundsOK == callsLeft \in 0 .. Calls /\ left \in 0 .. Events

LEMMA TypeParts == TypeOK <=> KeysOK /\ StoreOK /\ DaemonOK /\ CallsOK /\ BoundsOK
BY DEF TypeOK, KeysOK, StoreOK, DaemonOK, CallsOK, BoundsOK

-----------------------------------------------------------------------------
(* How a call goes on. *)

LEMMA CallHasFields ==
  ASSUME CallsOK, NEW c \in Callers, calls[c] # Idle
  PROVE  /\ calls[c] \in Call
         /\ calls[c].op \in Op /\ calls[c].at \in At /\ calls[c].repo \in Repos
         /\ calls[c].pass \in Passes \cup {None} /\ calls[c].old \in Passes \cup {None}
         /\ calls[c].remember \in BOOLEAN
BY DEF CallsOK, Call

LEMMA CallIsBusy ==
  ASSUME NEW call \in Call
  PROVE  call # Idle
<1>1. call.op # "idle"
  BY DEF Call
<1>2. Idle.op = "idle"
  BY DEF Idle
<1> QED
  BY <1>1, <1>2

LEMMA CallBegins ==
  ASSUME CallsOK, NEW c \in Callers, NEW call \in Call, Begins(c, call),
         call.op = "change" => call.old # None
  PROVE  /\ CallsOK' /\ calls[c] = Idle /\ calls'[c] = call /\ call # Idle
         /\ \A d \in Callers : d # c => calls'[d] = calls[d]
<1>1. calls' = [calls EXCEPT ![c] = call] /\ calls[c] = Idle
  BY DEF Begins
<1>2. calls' \in [Callers -> Call \cup {Idle}]
  BY <1>1 DEF CallsOK
<1>3. calls'[c] = call /\ \A d \in Callers : d # c => calls'[d] = calls[d]
  BY <1>1 DEF CallsOK
<1>4. \A d \in Callers : calls'[d].op = "change" => calls'[d].old # None
  BY <1>3 DEF CallsOK
<1> QED
  BY <1>1, <1>2, <1>3, <1>4, CallIsBusy DEF CallsOK

LEMMA CallGoes ==
  ASSUME CallsOK, NEW c \in Callers, NEW at \in At, calls[c] # Idle, Goes(c, at)
  PROVE  /\ CallsOK' /\ calls'[c] # Idle /\ calls'[c].at = at
         /\ calls'[c].op = calls[c].op /\ calls'[c].repo = calls[c].repo
         /\ calls'[c].pass = calls[c].pass /\ calls'[c].old = calls[c].old
         /\ calls'[c].remember = calls[c].remember
         /\ \A d \in Callers : d # c => calls'[d] = calls[d]
<1>1. calls[c] \in Call
  BY CallHasFields
<1> DEFINE next == [calls[c] EXCEPT !.at = at]
<1>2. next \in Call
  BY <1>1 DEF Call
<1>3. /\ next.at = at /\ next.op = calls[c].op /\ next.repo = calls[c].repo
      /\ next.pass = calls[c].pass /\ next.old = calls[c].old /\ next.remember = calls[c].remember
  BY <1>1 DEF Call
<1>4. calls' = [calls EXCEPT ![c] = next]
  BY DEF Goes
<1> HIDE DEF next
<1>5. calls' \in [Callers -> Call \cup {Idle}]
  BY <1>2, <1>4 DEF CallsOK
<1>6. calls'[c] = next /\ \A d \in Callers : d # c => calls'[d] = calls[d]
  BY <1>4 DEF CallsOK
<1>7. \A d \in Callers : calls'[d].op = "change" => calls'[d].old # None
  BY <1>3, <1>6 DEF CallsOK
<1> QED
  BY <1>2, <1>3, <1>5, <1>6, <1>7, CallIsBusy DEF CallsOK

LEMMA CallEnds ==
  ASSUME CallsOK, NEW c \in Callers, Ends(c)
  PROVE  /\ CallsOK' /\ calls'[c] = Idle
         /\ \A d \in Callers : d # c => calls'[d] = calls[d]
<1>1. calls' = [calls EXCEPT ![c] = Idle]
  BY DEF Ends
<1>2. calls' \in [Callers -> Call \cup {Idle}]
  BY <1>1 DEF CallsOK
<1>3. calls'[c] = Idle /\ \A d \in Callers : d # c => calls'[d] = calls[d]
  BY <1>1 DEF CallsOK
<1>4. \A d \in Callers : calls'[d].op = "change" => calls'[d].old # None
  BY <1>3 DEF CallsOK, Idle
<1> QED
  BY <1>2, <1>3, <1>4 DEF CallsOK

-----------------------------------------------------------------------------
(* What is read and kept. *)

LEMMA GetType ==
  ASSUME StoreOK, NEW repo \in Repos
  PROVE  /\ Get(repo) \in Passes \cup {None}
         /\ Get(repo) \in {None, held[repo], keyring[repo]}
BY DEF Get, StoreOK

LEMMA KeepsType ==
  ASSUME StoreOK, NEW repo \in Repos, NEW pass \in Passes \cup {None}, NEW takes \in BOOLEAN,
         Keeps(repo, pass, takes)
  PROVE  StoreOK'
<1>1. open' \in BOOLEAN /\ remember' \in BOOLEAN
  BY DEF Keeps, Opens, StoreOK
<1>2. InKeyring(pass) \in Passes \cup {None}
  BY DEF InKeyring
<1>3. keyring' \in [Repos -> Passes \cup {None}]
  BY <1>2 DEF Keeps, StoreOK
<1>4. held' \in [Repos -> Passes \cup {None}]
  BY DEF Keeps, StoreOK
<1> QED
  BY <1>1, <1>3, <1>4 DEF StoreOK

LEMMA RemembersType ==
  ASSUME StoreOK, NEW repo \in Repos, NEW on \in BOOLEAN, NEW takes \in BOOLEAN,
         Remembers(repo, on, takes)
  PROVE  StoreOK'
<1>1. Holds(repo) \in Passes \cup {None}
  BY DEF Holds, StoreOK
<1>2. remember' \in BOOLEAN /\ open' \in BOOLEAN
  BY DEF Remembers, Opens, StoreOK
<1>3. keyring' \in [Repos -> Passes \cup {None}]
  BY DEF Remembers, StoreOK
<1>4. held' \in [Repos -> Passes \cup {None}]
  BY <1>1 DEF Remembers, StoreOK
<1> QED
  BY <1>2, <1>3, <1>4 DEF StoreOK

-----------------------------------------------------------------------------
(* How each call begins. *)

LEMMA ChangeIsBegun ==
  ASSUME TypeOK, NEW c \in Callers, NEW pass \in Passes, ChangeBegins(c, pass)
  PROVE  /\ CallsOK' /\ Alone /\ calls'[c] # Idle
         /\ \A d \in Callers : d # c => calls'[d] = calls[d]
         /\ calls'[c].op = "change" /\ calls'[c].at = "rekeying"
         /\ calls'[c].repo = config.repo /\ config.repo \in Repos
         /\ calls'[c].pass = pass /\ calls'[c].old = Get(config.repo) /\ Get(config.repo) # None
<1>0. StoreOK /\ DaemonOK /\ CallsOK
  BY TypeParts
<1>1. config.repo \in Repos /\ Get(config.repo) \in Passes
  BY <1>0, GetType DEF ChangeBegins, Reads, DaemonOK
<1> DEFINE call == [op |-> "change", at |-> "rekeying", repo |-> config.repo, pass |-> pass,
                    old |-> Get(config.repo), remember |-> FALSE]
<1>2. call \in Call
  BY <1>1 DEF Call
<1>3. Begins(c, call) /\ Alone
  BY DEF ChangeBegins, Begins
<1>4. /\ call.op = "change" /\ call.at = "rekeying" /\ call.repo = config.repo
      /\ call.pass = pass /\ call.old = Get(config.repo) /\ call.old # None
  BY <1>1
<1> HIDE DEF call
<1> QED
  BY <1>0, <1>1, <1>2, <1>3, <1>4, CallBegins

LEMMA AdoptIsBegun ==
  ASSUME TypeOK, NEW c \in Callers, NEW pass \in Passes, NEW op \in {"setup", "import"},
         NEW path \in Repos, AdoptBegins(c, op, path, pass)
  PROVE  /\ CallsOK' /\ Alone /\ calls'[c] # Idle
         /\ \A d \in Callers : d # c => calls'[d] = calls[d]
         /\ calls'[c].op = op /\ calls'[c].at = "storing"
         /\ calls'[c].repo = path /\ calls'[c].pass = pass
         /\ calls'[c].old = (IF config.repo = None THEN None ELSE Get(config.repo))
<1>0. StoreOK /\ DaemonOK /\ CallsOK
  BY TypeParts
<1>1. config.repo # None => config.repo \in Repos /\ Get(config.repo) \in Passes \cup {None}
  BY <1>0, GetType DEF DaemonOK
<1> DEFINE call == [op |-> op, at |-> "storing", repo |-> path, pass |-> pass,
                    old |-> IF config.repo = None THEN None ELSE Get(config.repo), remember |-> FALSE]
<1>2. call \in Call
  BY <1>1 DEF Call
<1>3. Begins(c, call) /\ Alone
  BY DEF AdoptBegins, Begins
<1>4. /\ call.op = op /\ call.at = "storing" /\ call.repo = path /\ call.pass = pass
      /\ call.old = (IF config.repo = None THEN None ELSE Get(config.repo))
      /\ call.op # "change"
  OBVIOUS
<1> HIDE DEF call
<1> QED
  BY <1>0, <1>2, <1>3, <1>4, CallBegins

LEMMA UnlockIsBegun ==
  ASSUME TypeOK, NEW c \in Callers, NEW pass \in Passes, NEW on \in BOOLEAN, NEW key \in BOOLEAN,
         UnlockBegins(c, pass, on, key)
  PROVE  /\ CallsOK' /\ Alone /\ calls'[c] # Idle
         /\ \A d \in Callers : d # c => calls'[d] = calls[d]
         /\ calls'[c].op = "unlock" /\ calls'[c].at \in {"importing key", "trying"}
         /\ "old key" \notin Circumstances /\ calls'[c].at = "importing key"
              => exported[config.repo] = repoKey[config.repo]
         /\ calls'[c].repo = config.repo /\ config.repo \in Repos
         /\ calls'[c].pass = pass /\ calls'[c].old = None
<1>0. StoreOK /\ DaemonOK /\ CallsOK
  BY TypeParts
<1> DEFINE call == [op |-> "unlock", at |-> IF key THEN "importing key" ELSE "trying",
                    repo |-> config.repo, pass |-> pass, old |-> None, remember |-> on]
<1>1. config.repo \in Repos
  BY <1>0 DEF UnlockBegins, DaemonOK
<1>2. call \in Call
  BY <1>1 DEF Call
<1>3. Begins(c, call) /\ Alone
  BY DEF UnlockBegins, Begins
<1>4. /\ call.op = "unlock" /\ call.at \in {"importing key", "trying"}
      /\ call.at = "importing key" => key
      /\ call.repo = config.repo /\ call.pass = pass /\ call.old = None
  OBVIOUS
<1>5. key /\ "old key" \notin Circumstances => exported[config.repo] = repoKey[config.repo]
  BY DEF UnlockBegins
<1> HIDE DEF call
<1>6. calls'[c] = call
  BY <1>0, <1>2, <1>3, <1>4, CallBegins
<1> QED
  BY <1>0, <1>1, <1>2, <1>3, <1>4, <1>5, <1>6, CallBegins

LEMMA SettingIsBegun ==
  ASSUME TypeOK, NEW c \in Callers, SettingBegins(c)
  PROVE  /\ CallsOK' /\ Alone /\ calls'[c] # Idle
         /\ \A d \in Callers : d # c => calls'[d] = calls[d]
         /\ calls'[c].op = "setting" /\ calls'[c].at = "remembering"
         /\ calls'[c].repo = config.repo /\ config.repo \in Repos
<1>0. StoreOK /\ DaemonOK /\ CallsOK
  BY TypeParts
<1> DEFINE call == [op |-> "setting", at |-> "remembering", repo |-> config.repo, pass |-> None,
                    old |-> None, remember |-> ~config.remember]
<1>1. config.repo \in Repos /\ (~config.remember) \in BOOLEAN
  BY <1>0 DEF SettingBegins, DaemonOK
<1>2. call \in Call
  BY <1>1 DEF Call
<1>3. Begins(c, call) /\ Alone
  BY DEF SettingBegins, Begins
<1>4. call.op = "setting" /\ call.at = "remembering" /\ call.repo = config.repo
  OBVIOUS
<1> HIDE DEF call
<1> QED
  BY <1>0, <1>1, <1>2, <1>3, <1>4, CallBegins

(* What they have in common. *)
LEMMA CallIsBegun ==
  ASSUME TypeOK, NEW c \in Callers, NEW pass \in Passes,
         \/ ChangeBegins(c, pass)
         \/ \E op \in {"setup", "import"}, path \in Repos : AdoptBegins(c, op, path, pass)
         \/ \E on \in BOOLEAN, key \in BOOLEAN : UnlockBegins(c, pass, on, key)
         \/ SettingBegins(c)
  PROVE  /\ CallsOK' /\ Alone /\ calls'[c] # Idle
         /\ \A d \in Callers : d # c => calls'[d] = calls[d]
         /\ calls'[c].at \in {"rekeying", "storing", "importing key", "trying", "remembering"}
         /\ calls'[c].op \in {"change", "unlock", "setting"} => calls'[c].repo = config.repo
         /\ UNCHANGED <<keys, store, daemon>>
<1>1. CASE ChangeBegins(c, pass)
  BY <1>1, ChangeIsBegun DEF ChangeBegins
<1>2. ASSUME NEW op \in {"setup", "import"}, NEW path \in Repos, AdoptBegins(c, op, path, pass)
      PROVE  /\ CallsOK' /\ Alone /\ calls'[c] # Idle
             /\ \A d \in Callers : d # c => calls'[d] = calls[d]
             /\ calls'[c].at = "storing" /\ calls'[c].op \notin {"change", "unlock", "setting"}
             /\ UNCHANGED <<keys, store, daemon>>
  <2>1. /\ CallsOK' /\ Alone /\ calls'[c] # Idle
        /\ \A d \in Callers : d # c => calls'[d] = calls[d]
        /\ calls'[c].op = op /\ calls'[c].at = "storing"
    BY <1>2, AdoptIsBegun
  <2>2. calls'[c].op \notin {"change", "unlock", "setting"}
    BY <2>1
  <2>3. UNCHANGED <<keys, store, daemon>>
    BY <1>2 DEF AdoptBegins
  <2> QED
    BY <2>1, <2>2, <2>3
<1>3. ASSUME NEW on \in BOOLEAN, NEW key \in BOOLEAN, UnlockBegins(c, pass, on, key)
      PROVE  /\ CallsOK' /\ Alone /\ calls'[c] # Idle
             /\ \A d \in Callers : d # c => calls'[d] = calls[d]
             /\ calls'[c].at \in {"importing key", "trying"} /\ calls'[c].repo = config.repo
             /\ UNCHANGED <<keys, store, daemon>>
  BY <1>3, UnlockIsBegun DEF UnlockBegins
<1>4. CASE SettingBegins(c)
  BY <1>4, SettingIsBegun DEF SettingBegins
<1> QED
  BY <1>1, <1>2, <1>3, <1>4

-----------------------------------------------------------------------------
(* Every variable keeps its type. *)

LEMMA TypeInit == Init => TypeOK
<1> SUFFICES ASSUME Init PROVE TypeOK
  OBVIOUS
<1>1. KeysOK /\ StoreOK /\ DaemonOK /\ BoundsOK
  BY DEF Init, KeysOK, StoreOK, DaemonOK, BoundsOK
<1>2. CallsOK
  BY DEF Init, CallsOK, Idle
<1> QED
  BY <1>1, <1>2, TypeParts

LEMMA BoundsKeep ==
  ASSUME BoundsOK, [Next]_vars
  PROVE  BoundsOK'
<1> DEFINE Fewer == callsLeft > 0 /\ callsLeft' = callsLeft - 1
<1> DEFINE Less == left > 0 /\ left' = left - 1
<1>1. ASSUME Fewer \/ UNCHANGED callsLeft, Less \/ UNCHANGED left PROVE BoundsOK'
  BY <1>1 DEF BoundsOK
<1>2. ASSUME NEW c \in Callers, NEW pass \in Passes,
             \/ ChangeBegins(c, pass)
             \/ \E op \in {"setup", "import"}, path \in Repos : AdoptBegins(c, op, path, pass)
             \/ \E on \in BOOLEAN, key \in BOOLEAN : UnlockBegins(c, pass, on, key)
             \/ SettingBegins(c)
      PROVE  Fewer /\ UNCHANGED left
  BY <1>2 DEF ChangeBegins, AdoptBegins, UnlockBegins, SettingBegins, Begins
<1>3. ASSUME NEW c \in Callers, NEW ok \in BOOLEAN,
             \/ ChangeRekeys(c, ok) \/ ChangeRekeysSpool(c, ok) \/ ChangeKeeps(c, ok)
             \/ ChangeUndoes(c, ok) \/ AdoptStores(c, ok) \/ AdoptOpens(c, ok) \/ AdoptCarries(c, ok)
             \/ UnlockTries(c, ok) \/ UnlockKeeps(c, ok) \/ RememberMoves(c, ok)
             \/ UnlockImports(c) \/ RememberSaves(c)
      PROVE  UNCHANGED callsLeft /\ (Less \/ UNCHANGED left)
  BY <1>3 DEF ChangeRekeys, ChangeRekeysSpool, ChangeKeeps, ChangeUndoes, AdoptStores, AdoptOpens,
    AdoptCarries, UnlockTries, UnlockKeeps, RememberMoves, UnlockImports, RememberSaves, Happens
<1>4. ASSUME (\E path \in Repos : SetsRepository(path)) \/ Resets \/ StartsFresh \/ KeyIsSaved
      PROVE  Fewer /\ UNCHANGED left
  BY <1>4 DEF SetsRepository, Resets, StartsFresh, KeyIsSaved, Calling
<1>5. ASSUME SpoolIsOpened \/ KeyringLocks \/ KeyringOpens \/ Restarts \/ UNCHANGED vars
      PROVE  UNCHANGED callsLeft /\ (Less \/ UNCHANGED left)
  BY <1>5 DEF SpoolIsOpened, KeyringLocks, KeyringOpens, Restarts, vars, Happens
<1> HIDE DEF Fewer, Less
<1> QED
  BY <1>1, <1>2, <1>3, <1>4, <1>5 DEF Next

LEMMA CallsKeep ==
  ASSUME TypeOK, [Next]_vars
  PROVE  CallsOK'
<1>0. KeysOK /\ StoreOK /\ DaemonOK /\ CallsOK
  BY TypeParts
<1> USE <1>0
<1>1. ASSUME NEW c \in Callers, NEW pass \in Passes,
             \/ ChangeBegins(c, pass)
             \/ \E op \in {"setup", "import"}, path \in Repos : AdoptBegins(c, op, path, pass)
             \/ \E on \in BOOLEAN, key \in BOOLEAN : UnlockBegins(c, pass, on, key)
             \/ SettingBegins(c)
      PROVE  CallsOK'
  BY <1>1, CallIsBegun
<1>2. ASSUME NEW c \in Callers, NEW ok \in BOOLEAN,
             \/ ChangeRekeys(c, ok) \/ ChangeRekeysSpool(c, ok) \/ ChangeKeeps(c, ok)
             \/ ChangeUndoes(c, ok) \/ AdoptStores(c, ok) \/ AdoptOpens(c, ok) \/ AdoptCarries(c, ok)
             \/ UnlockTries(c, ok) \/ UnlockKeeps(c, ok) \/ RememberMoves(c, ok)
      PROVE  CallsOK'
  <2>1. calls[c] # Idle /\ (Ends(c) \/ \E at \in At : Goes(c, at))
    BY <1>2 DEF In, ChangeRekeys, ChangeRekeysSpool, ChangeKeeps, ChangeUndoes, AdoptStores,
      AdoptOpens, AdoptCarries, UnlockTries, UnlockKeeps, RememberMoves
  <2> QED
    BY <2>1, CallEnds, CallGoes
<1>3. ASSUME NEW c \in Callers, UnlockImports(c) \/ RememberSaves(c) PROVE CallsOK'
  <2>1. calls[c] # Idle /\ (Ends(c) \/ \E at \in At : Goes(c, at))
    BY <1>3 DEF In, UnlockImports, RememberSaves
  <2> QED
    BY <2>1, CallEnds, CallGoes
<1>4. ASSUME Restarts PROVE CallsOK'
  BY <1>4 DEF Restarts, CallsOK, Idle
<1>5. ASSUME \/ \E path \in Repos : SetsRepository(path)
             \/ Resets \/ StartsFresh \/ KeyIsSaved \/ SpoolIsOpened \/ KeyringLocks \/ KeyringOpens
             \/ UNCHANGED vars
      PROVE  CallsOK'
  BY <1>5 DEF SetsRepository, Resets, StartsFresh, KeyIsSaved, SpoolIsOpened, KeyringLocks,
    KeyringOpens, vars, CallsOK
<1> QED
  BY <1>1, <1>2, <1>3, <1>4, <1>5 DEF Next

LEMMA StoreKeeps ==
  ASSUME TypeOK, [Next]_vars
  PROVE  StoreOK'
<1>0. KeysOK /\ StoreOK /\ DaemonOK /\ CallsOK
  BY TypeParts
<1>1. ASSUME NEW c \in Callers, NEW ok \in BOOLEAN,
             ChangeKeeps(c, ok) \/ AdoptStores(c, ok) \/ UnlockKeeps(c, ok)
      PROVE  StoreOK'
  <2>1. calls[c] # Idle /\ Keeps(calls[c].repo, calls[c].pass, ok)
    BY <1>1 DEF ChangeKeeps, AdoptStores, UnlockKeeps, In
  <2> QED
    BY <1>0, <2>1, CallHasFields, KeepsType
<1>2. ASSUME NEW c \in Callers, NEW ok \in BOOLEAN, RememberMoves(c, ok) PROVE StoreOK'
  <2>1. calls[c] # Idle /\ Remembers(calls[c].repo, calls[c].remember, ok)
    BY <1>2 DEF RememberMoves, In
  <2> QED
    BY <1>0, <2>1, CallHasFields, RemembersType
<1>3. ASSUME Restarts \/ Resets PROVE StoreOK'
  BY <1>0, <1>3 DEF Restarts, Resets, StoreOK, DaemonOK
<1>4. ASSUME KeyringLocks \/ KeyringOpens PROVE StoreOK'
  BY <1>0, <1>4 DEF KeyringLocks, KeyringOpens, StoreOK
<1>5. ASSUME UNCHANGED store PROVE StoreOK'
  BY <1>0, <1>5 DEF store, StoreOK
<1>6. CASE UNCHANGED vars
  BY <1>5, <1>6 DEF vars
<1>7. CASE Next
  <2>1. ASSUME NEW c \in Callers, NEW pass \in Passes,
               \/ ChangeBegins(c, pass)
               \/ \E op \in {"setup", "import"}, path \in Repos : AdoptBegins(c, op, path, pass)
               \/ \E on \in BOOLEAN, key \in BOOLEAN : UnlockBegins(c, pass, on, key)
        PROVE  StoreOK'
    BY <1>5, <2>1 DEF ChangeBegins, AdoptBegins, UnlockBegins
  <2>2. ASSUME NEW c \in Callers, NEW ok \in BOOLEAN,
               \/ ChangeRekeys(c, ok) \/ ChangeRekeysSpool(c, ok) \/ ChangeUndoes(c, ok)
               \/ AdoptOpens(c, ok) \/ AdoptCarries(c, ok) \/ UnlockTries(c, ok)
        PROVE  StoreOK'
    BY <1>5, <2>2 DEF ChangeRekeys, ChangeRekeysSpool, ChangeUndoes, AdoptOpens, AdoptCarries, UnlockTries
  <2>3. ASSUME NEW c \in Callers, UnlockImports(c) \/ SettingBegins(c) \/ RememberSaves(c)
        PROVE  StoreOK'
    BY <1>5, <2>3 DEF UnlockImports, SettingBegins, RememberSaves
  <2>4. ASSUME \/ \E path \in Repos : SetsRepository(path)
               \/ StartsFresh \/ KeyIsSaved \/ SpoolIsOpened
        PROVE  StoreOK'
    BY <1>5, <2>4 DEF SetsRepository, StartsFresh, KeyIsSaved, SpoolIsOpened
  <2> QED
    BY <1>1, <1>2, <1>3, <1>4, <1>7, <2>1, <2>2, <2>3, <2>4 DEF Next
<1> QED
  BY <1>6, <1>7

LEMMA KeysKeep ==
  ASSUME TypeOK, [Next]_vars
  PROVE  KeysOK'
<1>0. KeysOK /\ StoreOK /\ DaemonOK /\ CallsOK
  BY TypeParts
<1>1. ASSUME NEW c \in Callers, NEW ok \in BOOLEAN,
             ChangeRekeys(c, ok) \/ ChangeRekeysSpool(c, ok) \/ ChangeUndoes(c, ok)
             \/ AdoptCarries(c, ok)
      PROVE  KeysOK'
  <2>1. calls[c] # Idle
    BY <1>1 DEF ChangeRekeys, ChangeRekeysSpool, ChangeUndoes, AdoptCarries, In
  <2>2. calls[c].pass \in Passes \cup {None} /\ calls[c].old \in Passes \cup {None}
    BY <1>0, <2>1, CallHasFields
  <2>3. spoolKey' \in {spoolKey, calls[c].pass} /\ UNCHANGED exported
    BY <1>1 DEF ChangeRekeys, ChangeRekeysSpool, ChangeUndoes, AdoptCarries, SpoolAs
  <2>4. repoKey' \in [Repos -> Passes \cup {None}]
    BY <1>0, <1>1, <2>2 DEF ChangeRekeys, ChangeRekeysSpool, ChangeUndoes, AdoptCarries, Undone, KeysOK
  <2> QED
    BY <1>0, <2>2, <2>3, <2>4 DEF KeysOK
<1>2. ASSUME NEW c \in Callers, NEW ok \in BOOLEAN, AdoptOpens(c, ok) PROVE KeysOK'
  <2>1. calls[c] # Idle
    BY <1>2 DEF AdoptOpens, In
  <2>2. Get(calls[c].repo) \in Passes \cup {None}
    BY <1>0, <2>1, CallHasFields, GetType
  <2> QED
    BY <1>0, <1>2, <2>2 DEF AdoptOpens, KeysOK
<1>3. ASSUME NEW c \in Callers, UnlockImports(c) PROVE KeysOK'
  <2>1. calls[c] # Idle
    BY <1>3 DEF UnlockImports, In
  <2>2. exported[calls[c].repo] \in Passes \cup {None}
    BY <1>0, <2>1, CallHasFields DEF KeysOK
  <2> QED
    BY <1>0, <1>3, <2>2 DEF UnlockImports, KeysOK
<1>4. ASSUME StartsFresh \/ KeyIsSaved PROVE KeysOK'
  BY <1>0, <1>4 DEF StartsFresh, KeyIsSaved, KeysOK, DaemonOK
<1>5. ASSUME SpoolIsOpened PROVE KeysOK'
  <2>1. Get(config.repo) \in Passes \cup {None}
    BY <1>0, <1>5, GetType DEF SpoolIsOpened, DaemonOK
  <2> QED
    BY <1>0, <1>5, <2>1 DEF SpoolIsOpened, KeysOK
<1>6. ASSUME UNCHANGED keys PROVE KeysOK'
  BY <1>0, <1>6 DEF keys, KeysOK
<1>7. CASE UNCHANGED vars
  BY <1>6, <1>7 DEF vars
<1>8. CASE Next
  <2>1. ASSUME NEW c \in Callers, NEW pass \in Passes,
               \/ ChangeBegins(c, pass)
               \/ \E op \in {"setup", "import"}, path \in Repos : AdoptBegins(c, op, path, pass)
               \/ \E on \in BOOLEAN, key \in BOOLEAN : UnlockBegins(c, pass, on, key)
        PROVE  KeysOK'
    BY <1>6, <2>1 DEF ChangeBegins, AdoptBegins, UnlockBegins
  <2>2. ASSUME NEW c \in Callers, NEW ok \in BOOLEAN,
               \/ ChangeKeeps(c, ok) \/ AdoptStores(c, ok) \/ UnlockTries(c, ok)
               \/ UnlockKeeps(c, ok) \/ RememberMoves(c, ok)
        PROVE  KeysOK'
    BY <1>6, <2>2 DEF ChangeKeeps, AdoptStores, UnlockTries, UnlockKeeps, RememberMoves
  <2>3. ASSUME NEW c \in Callers, SettingBegins(c) \/ RememberSaves(c)
        PROVE  KeysOK'
    BY <1>6, <2>3 DEF SettingBegins, RememberSaves
  <2>4. ASSUME \/ \E path \in Repos : SetsRepository(path)
               \/ Resets \/ KeyringLocks \/ KeyringOpens \/ Restarts
        PROVE  KeysOK'
    BY <1>6, <2>4 DEF SetsRepository, Resets, KeyringLocks, KeyringOpens, Restarts
  <2> QED
    BY <1>1, <1>2, <1>3, <1>4, <1>5, <1>8, <2>1, <2>2, <2>3, <2>4 DEF Next
<1> QED
  BY <1>7, <1>8

LEMMA DaemonKeeps ==
  ASSUME TypeOK, [Next]_vars
  PROVE  DaemonOK'
<1>0. KeysOK /\ StoreOK /\ DaemonOK /\ CallsOK
  BY TypeParts
<1>1. ASSUME NEW c \in Callers, NEW ok \in BOOLEAN, ChangeRekeysSpool(c, ok) PROVE DaemonOK'
  BY <1>0, <1>1 DEF ChangeRekeysSpool, DaemonOK
<1>2. ASSUME NEW c \in Callers, NEW ok \in BOOLEAN, AdoptOpens(c, ok) PROVE DaemonOK'
  <2>1. calls[c].repo \in Repos
    BY <1>0, <1>2, CallHasFields DEF AdoptOpens, In
  <2> QED
    BY <1>0, <1>2, <2>1 DEF AdoptOpens, DaemonOK
<1>3. ASSUME NEW c \in Callers, RememberSaves(c) PROVE DaemonOK'
  <2>1. calls[c].remember \in BOOLEAN
    BY <1>0, <1>3, CallHasFields DEF RememberSaves, In
  <2> QED
    BY <1>0, <1>3, <2>1 DEF RememberSaves, Saved, DaemonOK
<1>4. ASSUME \/ \E path \in Repos : SetsRepository(path)
             \/ Resets \/ StartsFresh \/ SpoolIsOpened \/ Restarts
      PROVE  DaemonOK'
  <2>1. CASE \E path \in Repos : SetsRepository(path)
    BY <1>0, <2>1 DEF SetsRepository, DaemonOK
  <2>2. CASE Resets
    BY <1>0, <2>2 DEF Resets, DaemonOK
  <2>3. CASE StartsFresh \/ SpoolIsOpened
    BY <1>0, <2>3 DEF StartsFresh, SpoolIsOpened, DaemonOK
  <2>4. CASE Restarts
    BY <1>0, <2>4 DEF Restarts, DaemonOK
  <2> QED
    BY <1>4, <2>1, <2>2, <2>3, <2>4
<1>6. ASSUME UNCHANGED daemon PROVE DaemonOK'
  BY <1>0, <1>6 DEF daemon, DaemonOK
<1>7. CASE UNCHANGED vars
  BY <1>6, <1>7 DEF vars
<1>8. CASE Next
  <2>1. ASSUME NEW c \in Callers, NEW pass \in Passes,
               \/ ChangeBegins(c, pass)
               \/ \E op \in {"setup", "import"}, path \in Repos : AdoptBegins(c, op, path, pass)
               \/ \E on \in BOOLEAN, key \in BOOLEAN : UnlockBegins(c, pass, on, key)
        PROVE  DaemonOK'
    BY <1>6, <2>1 DEF ChangeBegins, AdoptBegins, UnlockBegins
  <2>2. ASSUME NEW c \in Callers, NEW ok \in BOOLEAN,
               \/ ChangeRekeys(c, ok) \/ ChangeKeeps(c, ok) \/ ChangeUndoes(c, ok)
               \/ AdoptStores(c, ok) \/ AdoptCarries(c, ok) \/ UnlockTries(c, ok)
               \/ UnlockKeeps(c, ok) \/ RememberMoves(c, ok)
        PROVE  DaemonOK'
    BY <1>6, <2>2 DEF ChangeRekeys, ChangeKeeps, ChangeUndoes, AdoptStores, AdoptCarries,
      UnlockTries, UnlockKeeps, RememberMoves
  <2>3. ASSUME NEW c \in Callers, UnlockImports(c) \/ SettingBegins(c)
        PROVE  DaemonOK'
    BY <1>6, <2>3 DEF UnlockImports, SettingBegins
  <2>4. ASSUME KeyIsSaved \/ KeyringLocks \/ KeyringOpens PROVE DaemonOK'
    BY <1>6, <2>4 DEF KeyIsSaved, KeyringLocks, KeyringOpens
  <2> QED
    BY <1>1, <1>2, <1>3, <1>4, <1>8, <2>1, <2>2, <2>3, <2>4 DEF Next
<1> QED
  BY <1>7, <1>8

LEMMA TypeStep == TypeOK /\ [Next]_vars => TypeOK'
<1> SUFFICES ASSUME TypeOK, [Next]_vars PROVE TypeOK'
  OBVIOUS
<1>1. TypeOK' <=> KeysOK' /\ StoreOK' /\ DaemonOK' /\ CallsOK' /\ BoundsOK'
  BY TypeParts DEF TypeOK, KeysOK, StoreOK, DaemonOK, CallsOK, BoundsOK
<1> QED
  BY <1>1, TypeParts, KeysKeep, StoreKeeps, DaemonKeeps, CallsKeep, BoundsKeep

(* Every variable keeps its type, in every circumstance: the state the daemon's *)
(* calls leave the stores in is one they are written for (service/mod.rs).      *)
THEOREM TypeCorrect == Spec => []TypeOK
BY TypeInit, TypeStep, PTL DEF Spec

-----------------------------------------------------------------------------
(* Moving a passphrase. *)

LEMMA RememberedIsRead ==
  ASSUME StoreOK, NEW repo \in Repos, NEW on \in BOOLEAN, NEW takes \in BOOLEAN,
         Remembers(repo, on, takes), Get(repo) # None
  PROVE  Get(repo)' = Get(repo)
<1>1. CASE on /\ held[repo] = None
  BY <1>1 DEF Remembers, Get
<1>2. CASE on /\ held[repo] # None
  BY <1>2 DEF Remembers, Get
<1>3. CASE ~on
  <2>1. held' = [held EXCEPT ![repo] = Holds(repo)]
    BY <1>3 DEF Remembers
  <2>2. held'[repo] = Holds(repo)
    BY <2>1 DEF StoreOK
  <2>3. Holds(repo) = Get(repo)
    BY DEF Get, Holds
  <2> QED
    BY <2>2, <2>3 DEF Get
<1> QED
  BY <1>1, <1>2, <1>3

(* Unless the daemon stops in the middle of it, moving a passphrase to where   *)
(* the setting says leaves what could be read readable, and the same: with     *)
(* calls on top of each other, with a keyring that is locked while the call is *)
(* under way, and whether or not the person opens it (set_remember).           *)
THEOREM MovedIsRead ==
  ASSUME "crash" \notin Circumstances
  PROVE  Spec => MovesWhole
<1> DEFINE Move(c, repo) ==
      /\ calls[c] # Idle /\ calls[c].at = "remembering" /\ calls[c].repo = repo
      /\ calls'[c] # calls[c] /\ Get(repo) # None
<1>1. ASSUME TypeOK, Next, NEW c \in Callers, NEW repo \in Repos, Move(c, repo)
      PROVE  Get(repo)' = Get(repo)
  <2>0. CallsOK /\ StoreOK
    BY <1>1, TypeParts
  <2>1. ASSUME NEW d \in Callers, NEW pass \in Passes,
               \/ ChangeBegins(d, pass)
               \/ \E op \in {"setup", "import"}, path \in Repos : AdoptBegins(d, op, path, pass)
               \/ \E on \in BOOLEAN, key \in BOOLEAN : UnlockBegins(d, pass, on, key)
               \/ SettingBegins(d)
        PROVE  FALSE
    <3>1. calls[d] = Idle /\ \E call : calls' = [calls EXCEPT ![d] = call]
      BY <2>1 DEF ChangeBegins, AdoptBegins, UnlockBegins, SettingBegins, Begins
    <3> QED
      BY <1>1, <2>0, <3>1 DEF CallsOK
  <2>2. ASSUME NEW d \in Callers, NEW ok \in BOOLEAN,
               \/ ChangeRekeys(d, ok) \/ ChangeRekeysSpool(d, ok) \/ ChangeKeeps(d, ok)
               \/ ChangeUndoes(d, ok) \/ AdoptStores(d, ok) \/ AdoptOpens(d, ok) \/ AdoptCarries(d, ok)
               \/ UnlockTries(d, ok) \/ UnlockKeeps(d, ok)
               \/ UnlockImports(d) \/ RememberSaves(d)
        PROVE  FALSE
    <3>1. calls[d].at # "remembering"
      BY <2>2 DEF ChangeRekeys, ChangeRekeysSpool, ChangeKeeps, ChangeUndoes, AdoptStores, AdoptOpens,
        AdoptCarries, UnlockTries, UnlockKeeps, UnlockImports, RememberSaves, In
    <3>2. Ends(d) \/ \E at \in At : Goes(d, at)
      BY <2>2 DEF ChangeRekeys, ChangeRekeysSpool, ChangeKeeps, ChangeUndoes, AdoptStores, AdoptOpens,
        AdoptCarries, UnlockTries, UnlockKeeps, UnlockImports, RememberSaves
    <3>3. \E call : calls' = [calls EXCEPT ![d] = call]
      BY <3>2 DEF Ends, Goes
    <3> QED
      BY <1>1, <2>0, <3>1, <3>3 DEF CallsOK
  <2>3. ASSUME NEW d \in Callers, NEW ok \in BOOLEAN, RememberMoves(d, ok)
        PROVE  Get(repo)' = Get(repo)
    <3>1. calls[d] # Idle /\ Remembers(calls[d].repo, calls[d].remember, ok)
      BY <2>3 DEF RememberMoves, In
    <3>2. \E call : calls' = [calls EXCEPT ![d] = call]
      BY <2>3 DEF RememberMoves, Goes, Ends
    <3>3. d = c
      BY <1>1, <2>0, <3>2 DEF CallsOK
    <3>4. calls[c].remember \in BOOLEAN /\ Remembers(repo, calls[c].remember, ok)
      BY <1>1, <2>0, <3>1, <3>3, CallHasFields
    <3> QED
      BY <1>1, <2>0, <3>4, RememberedIsRead
  <2>4. ASSUME \/ \E path \in Repos : SetsRepository(path)
               \/ Resets \/ StartsFresh \/ KeyIsSaved \/ SpoolIsOpened \/ KeyringLocks \/ KeyringOpens
        PROVE  FALSE
    BY <1>1, <2>4 DEF SetsRepository, Resets, StartsFresh, KeyIsSaved, SpoolIsOpened, KeyringLocks,
      KeyringOpens
  <2>5. ASSUME Restarts PROVE FALSE
    BY <1>1, <2>5 DEF Restarts, AtRest
  <2> QED
    BY <1>1, <2>1, <2>2, <2>3, <2>4, <2>5 DEF Next
<1>2. TypeOK /\ [Next]_vars
        => [\A c \in Callers, repo \in Repos : Move(c, repo) => Get(repo)' = Get(repo)]_vars
  BY <1>1
<1> QED
  BY <1>2, TypeCorrect, PTL DEF Spec, MovesWhole

-----------------------------------------------------------------------------
(* One call at a time. *)

One == \A c, d \in Callers : calls[c] # Idle /\ calls[d] # Idle => c = d

LEMMA StartsAlone ==
  ASSUME "side by side" \notin Circumstances, NEW c \in Callers, Alone, calls'[c] # Idle,
         \A d \in Callers : d # c => calls'[d] = calls[d]
  PROVE  /\ AtRest /\ One' /\ ~AtRest'
         /\ \A d \in Callers : calls'[d] # Idle => d = c
BY DEF Alone, AtRest, One

LEMMA GoesAlone ==
  ASSUME TypeOK, One, NEW c \in Callers, NEW at \in At, calls[c] # Idle, Goes(c, at)
  PROVE  /\ One' /\ ~AtRest' /\ calls'[c] # Idle
         /\ \A d \in Callers : calls'[d] # Idle => d = c
         /\ calls'[c].at = at /\ calls'[c].op = calls[c].op /\ calls'[c].repo = calls[c].repo
         /\ calls'[c].pass = calls[c].pass /\ calls'[c].old = calls[c].old
         /\ calls'[c].remember = calls[c].remember
<1>1. CallsOK
  BY TypeParts
<1>2. \A d \in Callers : d # c => calls'[d] = Idle
  BY ZenonT(60), <1>1, CallGoes DEF One
<1> QED
  BY <1>1, <1>2, CallGoes DEF One, AtRest

LEMMA EndsAlone ==
  ASSUME TypeOK, One, NEW c \in Callers, calls[c] # Idle, Ends(c)
  PROVE  One' /\ AtRest'
<1>1. CallsOK
  BY TypeParts
<1>2. \A d \in Callers : calls'[d] = Idle
  BY <1>1, CallEnds DEF One
<1> QED
  BY <1>2 DEF One, AtRest

LEMMA OneStep ==
  ASSUME "side by side" \notin Circumstances, TypeOK, One, [Next]_vars
  PROVE  One'
<1>1. ASSUME NEW c \in Callers, NEW pass \in Passes,
             \/ ChangeBegins(c, pass)
             \/ \E op \in {"setup", "import"}, path \in Repos : AdoptBegins(c, op, path, pass)
             \/ \E on \in BOOLEAN, key \in BOOLEAN : UnlockBegins(c, pass, on, key)
             \/ SettingBegins(c)
      PROVE  One'
  <2>1. Alone /\ calls'[c] # Idle /\ \A d \in Callers : d # c => calls'[d] = calls[d]
    BY <1>1, CallIsBegun
  <2> QED
    BY <2>1, StartsAlone
<1>2. ASSUME NEW c \in Callers, NEW ok \in BOOLEAN,
             \/ ChangeRekeys(c, ok) \/ ChangeRekeysSpool(c, ok) \/ ChangeKeeps(c, ok)
             \/ ChangeUndoes(c, ok) \/ AdoptStores(c, ok) \/ AdoptOpens(c, ok) \/ AdoptCarries(c, ok)
             \/ UnlockTries(c, ok) \/ UnlockKeeps(c, ok) \/ RememberMoves(c, ok)
             \/ UnlockImports(c) \/ RememberSaves(c)
      PROVE  One'
  <2>1. calls[c] # Idle
    BY <1>2 DEF ChangeRekeys, ChangeRekeysSpool, ChangeKeeps, ChangeUndoes, AdoptStores, AdoptOpens,
      AdoptCarries, UnlockTries, UnlockKeeps, RememberMoves, UnlockImports, RememberSaves, In
  <2>2. Ends(c) \/ \E at \in At : Goes(c, at)
    BY <1>2 DEF ChangeRekeys, ChangeRekeysSpool, ChangeKeeps, ChangeUndoes, AdoptStores, AdoptOpens,
      AdoptCarries, UnlockTries, UnlockKeeps, RememberMoves, UnlockImports, RememberSaves
  <2> QED
    BY <2>1, <2>2, GoesAlone, EndsAlone
<1>3. ASSUME \/ \E path \in Repos : SetsRepository(path)
             \/ Resets \/ StartsFresh \/ KeyIsSaved \/ SpoolIsOpened \/ KeyringLocks \/ KeyringOpens
             \/ UNCHANGED vars
      PROVE  One'
  BY <1>3 DEF SetsRepository, Resets, StartsFresh, KeyIsSaved, SpoolIsOpened, KeyringLocks,
    KeyringOpens, vars, One
<1>4. ASSUME Restarts PROVE One'
  BY <1>4 DEF Restarts, One
<1> QED
  BY <1>1, <1>2, <1>3, <1>4 DEF Next

(* A keyring that is never left locked takes what it is given. *)
LEMMA KeepsIsTaken ==
  ASSUME "refuses" \notin Circumstances, NEW repo \in Repos, NEW pass \in Passes \cup {None},
         NEW takes \in BOOLEAN, Keeps(repo, pass, takes)
  PROVE  takes = TRUE
BY DEF Keeps, Opens

LEMMA KeepsTakes ==
  ASSUME "refuses" \notin Circumstances, NEW repo \in Repos, NEW pass \in Passes \cup {None},
         NEW takes \in BOOLEAN, Keeps(repo, pass, takes)
  PROVE  /\ keyring' = [keyring EXCEPT ![repo] = InKeyring(pass)]
         /\ held' = [held EXCEPT ![repo] = pass]
BY KeepsIsTaken DEF Keeps

LEMMA RemembersTakes ==
  ASSUME "refuses" \notin Circumstances, StoreOK, NEW repo \in Repos, NEW on \in BOOLEAN,
         NEW takes \in BOOLEAN, Remembers(repo, on, takes)
  PROVE  takes = TRUE /\ remember' = on
<1>1. Opens(takes) => takes = TRUE
  BY DEF Opens
<1> QED
  BY <1>1 DEF Remembers

-----------------------------------------------------------------------------
(* Whether to remember. *)

(* While a call moves a passphrase, the store has what will be saved. *)
Followed ==
  /\ One
  /\ AtRest => remember = config.remember
  /\ \A c \in Callers : calls[c] # Idle =>
       remember = (IF calls[c].at = "saving" THEN calls[c].remember ELSE config.remember)

LEMMA FollowedStep ==
  ASSUME {"side by side", "refuses"} \cap Circumstances = {}, TypeOK, Followed, [Next]_vars
  PROVE  Followed'
<1>0. /\ "side by side" \notin Circumstances /\ "refuses" \notin Circumstances
      /\ One /\ One' /\ StoreOK /\ DaemonOK /\ CallsOK
  BY OneStep, TypeParts DEF Followed
<1> USE <1>0
<1>g. ASSUME NEW c \in Callers, NEW at \in At, at # "saving", calls[c] # Idle, calls[c].at # "saving",
             remember' = remember, config'.remember = config.remember, Goes(c, at)
      PROVE  Followed'
  BY ZenonT(60), <1>g, GoesAlone DEF Followed
<1>e. ASSUME NEW c \in Callers, calls[c] # Idle, calls[c].at # "saving",
             remember' = remember, config'.remember = config.remember, Ends(c)
      PROVE  Followed'
  BY <1>e, EndsAlone DEF Followed, AtRest
<1>1. ASSUME NEW c \in Callers, NEW pass \in Passes,
             \/ ChangeBegins(c, pass)
             \/ \E op \in {"setup", "import"}, path \in Repos : AdoptBegins(c, op, path, pass)
             \/ \E on \in BOOLEAN, key \in BOOLEAN : UnlockBegins(c, pass, on, key)
             \/ SettingBegins(c)
      PROVE  Followed'
  <2>1. /\ Alone /\ calls'[c] # Idle /\ calls'[c].at # "saving"
        /\ \A d \in Callers : d # c => calls'[d] = calls[d]
    BY <1>1, CallIsBegun
  <2>2. UNCHANGED <<remember, config>>
    BY <1>1, CallIsBegun DEF store, daemon
  <2>3. AtRest /\ One' /\ ~AtRest' /\ \A d \in Callers : calls'[d] # Idle => d = c
    BY <2>1, StartsAlone
  <2> QED
    BY <2>1, <2>2, <2>3 DEF Followed
<1>2. ASSUME NEW c \in Callers, NEW ok \in BOOLEAN,
             \/ ChangeRekeys(c, ok) \/ ChangeRekeysSpool(c, ok) \/ ChangeUndoes(c, ok)
             \/ AdoptCarries(c, ok) \/ UnlockTries(c, ok) \/ UnlockImports(c)
      PROVE  Followed'
  <2>1. calls[c] # Idle /\ calls[c].at # "saving"
    BY <1>2 DEF ChangeRekeys, ChangeRekeysSpool, ChangeUndoes, AdoptCarries, UnlockTries, UnlockImports, In
  <2>2. UNCHANGED <<remember, config>>
    BY <1>2 DEF ChangeRekeys, ChangeRekeysSpool, ChangeUndoes, AdoptCarries, UnlockTries,
      UnlockImports, store, daemon
  <2>3. Ends(c) \/ \E at \in At \ {"saving"} : Goes(c, at)
    BY <1>2 DEF ChangeRekeys, ChangeRekeysSpool, ChangeUndoes, AdoptCarries, UnlockTries, UnlockImports
  <2> QED
    BY <1>g, <1>e, <2>1, <2>2, <2>3
<1>3. ASSUME NEW c \in Callers, NEW ok \in BOOLEAN,
             ChangeKeeps(c, ok) \/ AdoptStores(c, ok) \/ UnlockKeeps(c, ok)
      PROVE  Followed'
  <2>1. /\ calls[c] # Idle /\ calls[c].at # "saving" /\ Keeps(calls[c].repo, calls[c].pass, ok)
        /\ UNCHANGED config
    BY <1>3 DEF ChangeKeeps, AdoptStores, UnlockKeeps, In, daemon
  <2>2. remember' = remember
    BY <2>1 DEF Keeps
  <2>3. Ends(c) \/ \E at \in At \ {"saving"} : Goes(c, at)
    BY <1>3 DEF ChangeKeeps, AdoptStores, UnlockKeeps
  <2> QED
    BY <1>g, <1>e, <2>1, <2>2, <2>3
<1>4. ASSUME NEW c \in Callers, NEW ok \in BOOLEAN, AdoptOpens(c, ok) PROVE Followed'
  <2>1. calls[c] # Idle /\ calls[c].at # "saving" /\ UNCHANGED remember
    BY <1>4 DEF AdoptOpens, In, store
  <2>2. config'.remember = config.remember
    BY <1>4 DEF AdoptOpens, DaemonOK
  <2>3. Ends(c) \/ \E at \in At \ {"saving"} : Goes(c, at)
    BY <1>4 DEF AdoptOpens
  <2> QED
    BY <1>g, <1>e, <2>1, <2>2, <2>3
<1>5. ASSUME NEW c \in Callers, NEW ok \in BOOLEAN, RememberMoves(c, ok) PROVE Followed'
  <2>1. calls[c] # Idle /\ Remembers(calls[c].repo, calls[c].remember, ok)
    BY <1>5 DEF RememberMoves, In
  <2>2. ok = TRUE /\ remember' = calls[c].remember
    BY <2>1, RemembersTakes, CallHasFields
  <2>3. Goes(c, "saving")
    BY <1>5, <2>2 DEF RememberMoves
  <2> QED
    BY ZenonT(60), <2>1, <2>2, <2>3, GoesAlone DEF Followed
<1>6. ASSUME NEW c \in Callers, RememberSaves(c) PROVE Followed'
  <2>1. calls[c] # Idle /\ calls[c].at = "saving" /\ UNCHANGED remember
    BY <1>6 DEF RememberSaves, In, store
  <2>2. config'.remember = remember'
    BY <1>6, <2>1 DEF RememberSaves, Saved, DaemonOK, Followed
  <2>3. Ends(c) \/ Goes(c, "keeping")
    BY <1>6 DEF RememberSaves
  <2>4. CASE Ends(c)
    BY <2>1, <2>2, <2>4, EndsAlone DEF Followed, AtRest
  <2>5. CASE Goes(c, "keeping")
    BY ZenonT(60), <2>1, <2>2, <2>5, GoesAlone DEF Followed
  <2> QED
    BY <2>3, <2>4, <2>5
<1>7. ASSUME NEW path \in Repos, SetsRepository(path) PROVE Followed'
  <2>1. UNCHANGED <<remember, calls>> /\ config'.remember = config.remember
    BY <1>7 DEF SetsRepository, store, DaemonOK
  <2> QED
    BY <2>1 DEF Followed, AtRest
<1>8. ASSUME Resets PROVE Followed'
  <2>1. AtRest /\ UNCHANGED calls /\ config'.remember = remember'
    BY <1>8 DEF Resets, Calling, Alone
  <2> QED
    BY <2>1 DEF Followed, AtRest
<1>9. ASSUME Restarts PROVE Followed'
  <2>1. remember' = config.remember /\ UNCHANGED config /\ \A c \in Callers : calls'[c] = Idle
    BY <1>9 DEF Restarts
  <2> QED
    BY <2>1 DEF Followed, AtRest
<1>10. ASSUME \/ StartsFresh \/ KeyIsSaved \/ SpoolIsOpened \/ KeyringLocks \/ KeyringOpens
              \/ UNCHANGED vars
       PROVE  Followed'
  <2>1. UNCHANGED <<remember, config, calls>>
    BY <1>10 DEF StartsFresh, KeyIsSaved, SpoolIsOpened, KeyringLocks, KeyringOpens, vars, store, daemon
  <2> QED
    BY <2>1 DEF Followed, AtRest
<1> QED
  BY <1>1, <1>2, <1>3, <1>4, <1>5, <1>6, <1>7, <1>8, <1>9, <1>10 DEF Next

LEMMA FollowedInit == Init => Followed
BY DEF Init, Followed, One, AtRest

(* With the calls one after another, and a keyring that the person unlocks when *)
(* it is asked for, the store does what the setting says: whatever else fails,  *)
(* and if the daemon stops in the middle of a call (set_config_key,             *)
(* set_remember).                                                               *)
THEOREM StoreFollowsSetting ==
  ASSUME {"side by side", "refuses"} \cap Circumstances = {}
  PROVE  Spec => []FlagIsSetting
<1>1. TypeOK /\ Followed /\ [Next]_vars => Followed'
  BY FollowedStep
<1>2. Followed => FlagIsSetting
  BY DEF Followed, FlagIsSetting
<1> QED
  BY <1>1, <1>2, FollowedInit, TypeCorrect, PTL DEF Spec

-----------------------------------------------------------------------------
(* What the keyring is not to have. *)

Forgets == config.repo # None /\ ~config.remember => keyring[config.repo] = None

(* A call forgets in the keyring before it says so, and stores before it adopts. *)
Forgotten ==
  /\ AtRest => Forgets
  /\ \A c \in Callers : calls[c] # Idle =>
       /\ calls[c].op \in {"unlock", "setting"} => calls[c].repo = config.repo
       /\ calls[c].at # "saving" => Forgets
       /\ calls[c].at = "saving" /\ ~calls[c].remember => keyring[calls[c].repo] = None
       /\ calls[c].at = "opening" /\ ~config.remember => keyring[calls[c].repo] = None

LEMMA KeptIsForgotten ==
  ASSUME {"side by side", "refuses"} \cap Circumstances = {}, StoreOK, DaemonOK,
         Forgets, remember = config.remember, NEW repo \in Repos, NEW pass \in Passes \cup {None}, NEW takes \in BOOLEAN,
         Keeps(repo, pass, takes), UNCHANGED config
  PROVE  Forgets' /\ (~config.remember => keyring'[repo] = None)
<1>1. keyring' = [keyring EXCEPT ![repo] = InKeyring(pass)]
  BY KeepsTakes
<1>2. keyring'[repo] = InKeyring(pass) /\ \A r \in Repos : r # repo => keyring'[r] = keyring[r]
  BY <1>1 DEF StoreOK
<1>3. ~config.remember => InKeyring(pass) = None
  BY DEF InKeyring
<1>4. config.repo \in {None, repo} \/ keyring'[config.repo] = keyring[config.repo]
  BY <1>2 DEF DaemonOK
<1> QED
  BY <1>2, <1>3, <1>4 DEF Forgets

LEMMA MovedIsForgotten ==
  ASSUME {"refuses", "locked"} \cap Circumstances = {}, StoreOK, NEW repo \in Repos,
         NEW takes \in BOOLEAN, Remembers(repo, FALSE, takes)
  PROVE  keyring'[repo] = None
<1>1. CASE Get(repo) = None
  <2>1. (open \/ keyring[repo] = None) /\ UNCHANGED keyring
    BY <1>1 DEF Remembers
  <2> QED
    BY <1>1, <2>1 DEF Get
<1>2. CASE Get(repo) # None
  <2>1. takes = TRUE
    BY RemembersTakes
  <2>2. keyring' = [keyring EXCEPT ![repo] = None]
    BY <1>2, <2>1 DEF Remembers
  <2> QED
    BY <2>2 DEF StoreOK
<1> QED
  BY <1>1, <1>2

LEMMA ForgottenStep ==
  ASSUME {"side by side", "refuses", "crash", "by hand", "locked"} \cap Circumstances = {},
         TypeOK, Followed, Forgotten, [Next]_vars
  PROVE  Forgotten'
<1>0. /\ {"side by side", "refuses"} \cap Circumstances = {}
      /\ {"refuses", "locked"} \cap Circumstances = {}
      /\ "side by side" \notin Circumstances /\ "crash" \notin Circumstances /\ "by hand" \notin Circumstances
      /\ One /\ StoreOK /\ DaemonOK /\ CallsOK
  BY TypeParts DEF Followed
<1> USE <1>0
<1>g. ASSUME NEW c \in Callers, NEW at \in At \ {"saving", "opening"}, calls[c] # Idle, Goes(c, at),
             Forgets', calls[c].op \in {"unlock", "setting"} => config'.repo = config.repo
      PROVE  Forgotten'
  <2>1. /\ ~AtRest' /\ \A d \in Callers : calls'[d] # Idle => d = c
        /\ calls'[c].at = at /\ calls'[c].op = calls[c].op /\ calls'[c].repo = calls[c].repo
    BY ZenonT(60), <1>g, GoesAlone
  <2>2. calls'[c].op \in {"unlock", "setting"} => calls'[c].repo = config'.repo
    BY <1>g, <2>1 DEF Forgotten
  <2> QED
    BY <1>g, <2>1, <2>2 DEF Forgotten
<1>e. ASSUME NEW c \in Callers, calls[c] # Idle, Ends(c), Forgets' PROVE Forgotten'
  BY <1>e, EndsAlone DEF Forgotten, AtRest
<1>r. ASSUME AtRest, UNCHANGED calls, Forgets' PROVE Forgotten'
  <2>1. \A c \in Callers : calls'[c] = Idle
    BY <1>r DEF AtRest
  <2> QED
    BY <1>r, <2>1 DEF Forgotten
<1>u. ASSUME UNCHANGED <<keyring, config>>, Forgets PROVE Forgets'
  BY <1>u DEF Forgets
<1>f. ASSUME NEW c \in Callers, calls[c] # Idle, calls[c].at # "saving"
      PROVE  Forgets /\ remember = config.remember
  BY <1>f DEF Forgotten, Followed
<1>1. ASSUME NEW c \in Callers, NEW pass \in Passes,
             \/ ChangeBegins(c, pass)
             \/ \E op \in {"setup", "import"}, path \in Repos : AdoptBegins(c, op, path, pass)
             \/ \E on \in BOOLEAN, key \in BOOLEAN : UnlockBegins(c, pass, on, key)
             \/ SettingBegins(c)
      PROVE  Forgotten'
  <2>1. /\ Alone /\ calls'[c] # Idle /\ calls'[c].at \notin {"saving", "opening"}
        /\ \A d \in Callers : d # c => calls'[d] = calls[d]
        /\ UNCHANGED <<keyring, config>>
    BY <1>1, CallIsBegun DEF store, daemon
  <2>2. AtRest /\ ~AtRest' /\ \A d \in Callers : calls'[d] # Idle => d = c
    BY <2>1, StartsAlone
  <2>3. Forgets'
    BY <1>u, <2>1, <2>2 DEF Forgotten
  <2>4. calls'[c].op \in {"unlock", "setting"} => calls'[c].repo = config'.repo
    BY <1>1, <2>1, CallIsBegun
  <2> QED
    BY <2>1, <2>2, <2>3, <2>4 DEF Forgotten
<1>2. ASSUME NEW c \in Callers, NEW ok \in BOOLEAN,
             \/ ChangeRekeys(c, ok) \/ ChangeRekeysSpool(c, ok) \/ ChangeUndoes(c, ok)
             \/ AdoptCarries(c, ok) \/ UnlockTries(c, ok) \/ UnlockImports(c)
      PROVE  Forgotten'
  <2>1. calls[c] # Idle /\ calls[c].at # "saving"
    BY <1>2 DEF ChangeRekeys, ChangeRekeysSpool, ChangeUndoes, AdoptCarries, UnlockTries, UnlockImports, In
  <2>2. UNCHANGED <<keyring, config>>
    BY <1>2 DEF ChangeRekeys, ChangeRekeysSpool, ChangeUndoes, AdoptCarries, UnlockTries,
      UnlockImports, store, daemon
  <2>3. Ends(c) \/ \E at \in At \ {"saving", "opening"} : Goes(c, at)
    BY <1>2 DEF ChangeRekeys, ChangeRekeysSpool, ChangeUndoes, AdoptCarries, UnlockTries, UnlockImports
  <2> QED
    BY <1>g, <1>e, <1>u, <1>f, <2>1, <2>2, <2>3
<1>3. ASSUME NEW c \in Callers, NEW ok \in BOOLEAN,
             ChangeKeeps(c, ok) \/ AdoptStores(c, ok) \/ UnlockKeeps(c, ok)
      PROVE  Forgotten'
  <2>1. /\ calls[c] # Idle /\ calls[c].at # "saving" /\ Keeps(calls[c].repo, calls[c].pass, ok)
        /\ UNCHANGED config
    BY <1>3 DEF ChangeKeeps, AdoptStores, UnlockKeeps, In, daemon
  <2>2. /\ Forgets /\ remember = config.remember
        /\ calls[c].repo \in Repos /\ calls[c].pass \in Passes \cup {None}
    BY <1>f, <2>1, CallHasFields
  <2>3. Forgets' /\ (~config.remember => keyring'[calls[c].repo] = None)
    BY <2>1, <2>2, KeptIsForgotten
  <2>4. \/ Ends(c) \/ (\E at \in At \ {"saving", "opening"} : Goes(c, at))
        \/ (Goes(c, "opening") /\ calls[c].op \in {"setup", "import"})
    BY <1>3 DEF ChangeKeeps, AdoptStores, UnlockKeeps, In
  <2>5. CASE Goes(c, "opening") /\ calls[c].op \in {"setup", "import"}
    <3>1. "opening" \in At
      BY DEF At
    <3>2. /\ ~AtRest' /\ \A d \in Callers : calls'[d] # Idle => d = c
          /\ calls'[c].at = "opening" /\ calls'[c].op = calls[c].op
          /\ calls'[c].repo = calls[c].repo
      BY <2>1, <2>5, <3>1, GoesAlone
    <3>3. Forgets' /\ (~config'.remember => keyring'[calls'[c].repo] = None)
      BY <2>1, <2>3, <3>2
    <3>4. calls'[c].op \notin {"unlock", "setting"}
      BY <2>5, <3>2
    <3> QED
      BY <3>2, <3>3, <3>4 DEF Forgotten
  <2> QED
    BY <1>g, <1>e, <2>1, <2>3, <2>4, <2>5
<1>4. ASSUME NEW c \in Callers, NEW ok \in BOOLEAN, AdoptOpens(c, ok) PROVE Forgotten'
  <2>1. /\ calls[c] # Idle /\ calls[c].at = "opening" /\ calls[c].op \in {"setup", "import"}
        /\ UNCHANGED keyring
    BY <1>4 DEF AdoptOpens, In, store
  <2>2. \/ (Goes(c, "carrying") /\ config' = [config EXCEPT !.repo = calls[c].repo])
        \/ (Ends(c) /\ UNCHANGED config)
    BY <1>4 DEF AdoptOpens
  <2>3. CASE Goes(c, "carrying") /\ config' = [config EXCEPT !.repo = calls[c].repo]
    <3>1. config'.repo = calls[c].repo /\ config'.remember = config.remember
      BY <2>3 DEF DaemonOK
    <3>2. Forgets'
      BY <2>1, <3>1 DEF Forgets, Forgotten
    <3> QED
      BY <1>g, <2>1, <2>3, <3>2
  <2>4. CASE Ends(c) /\ UNCHANGED config
    BY <1>e, <1>u, <1>f, <2>1, <2>4
  <2> QED
    BY <2>2, <2>3, <2>4
<1>5. ASSUME NEW c \in Callers, NEW ok \in BOOLEAN, RememberMoves(c, ok) PROVE Forgotten'
  <2>1. /\ calls[c] # Idle /\ calls[c].op \in {"unlock", "setting"}
        /\ Remembers(calls[c].repo, calls[c].remember, ok) /\ UNCHANGED config
    BY <1>5 DEF RememberMoves, In, daemon
  <2>2. calls[c].remember \in BOOLEAN /\ calls[c].repo \in Repos /\ calls[c].repo = config.repo
    BY <2>1, CallHasFields DEF Forgotten
  <2>3. ok = TRUE
    BY <2>1, <2>2, RemembersTakes
  <2>4. Goes(c, "saving")
    BY <1>5, <2>3 DEF RememberMoves
  <2>5. ~calls[c].remember => keyring'[calls[c].repo] = None
    BY <2>1, <2>2, MovedIsForgotten
  <2>6. "saving" \in At
    BY DEF At
  <2>7. /\ ~AtRest' /\ \A d \in Callers : calls'[d] # Idle => d = c
        /\ calls'[c].at = "saving" /\ calls'[c].op = calls[c].op
        /\ calls'[c].repo = calls[c].repo /\ calls'[c].remember = calls[c].remember
    BY <2>1, <2>4, <2>6, GoesAlone
  <2>8. calls'[c].repo = config'.repo
    BY <2>1, <2>2, <2>7
  <2>9. ~calls'[c].remember => keyring'[calls'[c].repo] = None
    BY <2>5, <2>7
  <2> QED
    BY <2>7, <2>8, <2>9 DEF Forgotten
<1>6. ASSUME NEW c \in Callers, RememberSaves(c) PROVE Forgotten'
  <2>1. /\ calls[c] # Idle /\ calls[c].at = "saving" /\ calls[c].op \in {"unlock", "setting"}
        /\ UNCHANGED keyring
    BY <1>6 DEF RememberSaves, In, store
  <2>2. config'.remember = calls[c].remember /\ config'.repo = config.repo
    BY <1>6 DEF RememberSaves, Saved, DaemonOK
  <2>3. Forgets'
    BY <2>1, <2>2 DEF Forgets, Forgotten
  <2>4. Ends(c) \/ Goes(c, "keeping")
    BY <1>6 DEF RememberSaves
  <2> QED
    BY <1>g, <1>e, <2>1, <2>2, <2>3, <2>4
<1>7. ASSUME NEW path \in Repos, SetsRepository(path) PROVE Forgotten'
  <2>1. /\ AtRest /\ UNCHANGED <<keyring, calls>> /\ (config.remember \/ keyring[path] = None)
        /\ config' = [config EXCEPT !.repo = path]
    BY <1>7 DEF SetsRepository, Calling, Alone, store
  <2>2. config'.repo = path /\ config'.remember = config.remember
    BY <2>1 DEF DaemonOK
  <2>3. Forgets'
    BY <2>1, <2>2 DEF Forgets
  <2> QED
    BY <1>r, <2>1, <2>3
<1>8. ASSUME Resets PROVE Forgotten'
  <2>1. AtRest /\ UNCHANGED calls /\ config'.remember
    BY <1>8 DEF Resets, Calling, Alone
  <2> QED
    BY <1>r, <2>1 DEF Forgets
<1>9. ASSUME Restarts PROVE Forgotten'
  <2>1. AtRest /\ UNCHANGED <<keyring, config>> /\ \A c \in Callers : calls'[c] = Idle
    BY <1>9 DEF Restarts
  <2>2. Forgets'
    BY <1>u, <2>1 DEF Forgotten
  <2> QED
    BY <2>1, <2>2 DEF Forgotten
<1>10. ASSUME \/ StartsFresh \/ KeyIsSaved \/ SpoolIsOpened \/ KeyringLocks \/ KeyringOpens
              \/ UNCHANGED vars
       PROVE  Forgotten'
  <2>1. UNCHANGED <<keyring, config, calls>>
    BY <1>10 DEF StartsFresh, KeyIsSaved, SpoolIsOpened, KeyringLocks, KeyringOpens, vars, store, daemon
  <2> QED
    BY <2>1 DEF Forgotten, Forgets, AtRest
<1> QED
  BY <1>1, <1>2, <1>3, <1>4, <1>5, <1>6, <1>7, <1>8, <1>9, <1>10 DEF Next

LEMMA ForgottenInit == Init => Forgotten
BY DEF Init, Forgotten, Forgets, AtRest

(* With the calls one after another and none cut off, a keyring that the person *)
(* unlocks when asked and at the moment remembering is switched off, and a      *)
(* destination that is not set by hand: what the person asked to forget is not  *)
(* in the keyring, whatever else happens, resets and old recovery keys included *)
(* (set_remember, set).                                                         *)
THEOREM ForgottenIsGone ==
  ASSUME {"side by side", "refuses", "crash", "by hand", "locked"} \cap Circumstances = {}
  PROVE  Spec => []KeyringForgets
<1>1. TypeOK /\ Followed /\ [Next]_vars => Followed'
  BY FollowedStep
<1>2. TypeOK /\ Followed /\ Forgotten /\ [Next]_vars => Forgotten'
  BY ForgottenStep
<1>3. Forgotten => KeyringForgets
  BY DEF Forgotten, Forgets, KeyringForgets
<1> QED
  BY <1>1, <1>2, <1>3, FollowedInit, ForgottenInit, TypeCorrect, PTL DEF Spec

-----------------------------------------------------------------------------
(* What opens what. *)

(* What is stored for a repository is one passphrase, or none. *)
Kept(repo, key) == keyring[repo] \in {None, key} /\ held[repo] \in {None, key}

(* The passphrase of the destination opens it, and the local safety net, which *)
(* is opened by what opens the destination.  The last part is for a            *)
(* destination that is not there: the net may yet be made with what is stored. *)
Agrees ==
  config.repo # None =>
    /\ spoolKey # None => Kept(config.repo, spoolKey) /\ repoKey[config.repo] \in {None, spoolKey}
    /\ repoKey[config.repo] # None => Kept(config.repo, repoKey[config.repo])
    /\ held[config.repo] # None /\ keyring[config.repo] # None
         => held[config.repo] = keyring[config.repo]

(* The local safety net is the destination's. *)
Net ==
  /\ spoolKey # None => config.repo # None
  /\ spoolFor # None => spoolFor = config.repo /\ spoolKey # None

(* The passphrase of a call opens all that there is to open. *)
Settled(call) == spoolKey \in {None, call.pass} /\ repoKey[call.repo] \in {None, call.pass}

(* How far a call is: what it has changed of the three, and what it goes back to. *)
Midway(call) ==
  /\ call.op # "setting" => call.pass # None
  /\ call.op \in {"change", "unlock", "setting"} => call.repo = config.repo
  /\ call.at \in {"rekeying", "storing", "importing key", "trying", "remembering", "saving"} => Agrees
  /\ call.at \in {"rekeying", "storing", "opening", "carrying"} => spoolKey \in {None, call.old}
  /\ call.at \in {"rekeying spool", "undoing"} =>
       repoKey[call.repo] = call.pass /\ spoolKey \in {None, call.old} /\ Kept(call.repo, call.old)
  /\ call.at = "keeping" \/ (call.op = "unlock" /\ call.at \in {"remembering", "saving"})
       => Settled(call)
  /\ call.at = "importing key" => exported[call.repo] = repoKey[call.repo]
  /\ call.at = "opening" =>
       /\ held[call.repo] = call.pass /\ Kept(call.repo, call.pass)
       /\ call.repo # config.repo => Agrees
  /\ call.at = "carrying" =>
       call.repo = config.repo /\ repoKey[call.repo] = call.pass /\ Kept(call.repo, call.pass)

Keyed ==
  /\ Net
  /\ AtRest => Agrees
  /\ \A c \in Callers : calls[c] # Idle => Midway(calls[c])

LEMMA GetIsKept ==
  ASSUME NEW repo, NEW key, Kept(repo, key)
  PROVE  Get(repo) \in {None, key}
BY DEF Kept, Get

LEMMA AgreesKeeps ==
  ASSUME UNCHANGED <<repoKey, spoolKey, keyring, held>>, config'.repo = config.repo, Agrees
  PROVE  Agrees'
BY DEF Agrees, Kept

LEMMA KeepsHolds ==
  ASSUME "refuses" \notin Circumstances, StoreOK, NEW repo \in Repos, NEW pass \in Passes \cup {None},
         NEW takes \in BOOLEAN, Keeps(repo, pass, takes)
  PROVE  held'[repo] = pass /\ keyring'[repo] \in {None, pass}
<1>1. /\ keyring' = [keyring EXCEPT ![repo] = InKeyring(pass)]
      /\ held' = [held EXCEPT ![repo] = pass]
  BY KeepsTakes
<1>2. keyring'[repo] = InKeyring(pass) /\ held'[repo] = pass
  BY <1>1 DEF StoreOK
<1> QED
  BY <1>2 DEF InKeyring

(* Keeping what is for another place. *)
LEMMA OtherIsKept ==
  ASSUME "refuses" \notin Circumstances, StoreOK, DaemonOK, UNCHANGED <<repoKey, spoolKey, config>>,
         NEW repo \in Repos, NEW pass \in Passes \cup {None}, NEW takes \in BOOLEAN,
         Keeps(repo, pass, takes), repo # config.repo, Agrees
  PROVE  Agrees'
<1>1. /\ keyring' = [keyring EXCEPT ![repo] = InKeyring(pass)]
      /\ held' = [held EXCEPT ![repo] = pass]
  BY KeepsTakes
<1>2. config.repo # None
        => keyring'[config.repo] = keyring[config.repo] /\ held'[config.repo] = held[config.repo]
  BY <1>1 DEF StoreOK, DaemonOK
<1> QED
  BY <1>2 DEF Agrees, Kept

(* Moving it between the keyring and memory. *)
LEMMA MovedIsKept ==
  ASSUME StoreOK, UNCHANGED <<repoKey, spoolKey, config>>, NEW on \in BOOLEAN, NEW takes \in BOOLEAN,
         config.repo \in Repos, Remembers(config.repo, on, takes), Agrees
  PROVE  Agrees'
<1> DEFINE r == config.repo
<1>1. /\ keyring'[r] \in {None, keyring[r], held[r]} /\ held'[r] \in {None, keyring[r], held[r]}
      /\ held'[r] # None /\ keyring'[r] # None => held'[r] = keyring'[r]
  <2>1. CASE on /\ held[r] = None
    BY <2>1 DEF Remembers
  <2>2. CASE on /\ held[r] # None
    <3>1. UNCHANGED held /\ (keyring' = [keyring EXCEPT ![r] = held[r]] \/ UNCHANGED keyring)
      BY <2>2 DEF Remembers
    <3> QED
      BY <2>2, <3>1 DEF StoreOK, Agrees
  <2>3. CASE ~on /\ Get(r) = None
    BY <2>3 DEF Remembers, Agrees
  <2>4. CASE ~on /\ Get(r) # None
    <3>1. /\ held' = [held EXCEPT ![r] = Holds(r)]
          /\ keyring' = [keyring EXCEPT ![r] = None] \/ UNCHANGED keyring
      BY <2>4 DEF Remembers
    <3>2. held'[r] = Holds(r) /\ keyring'[r] \in {None, keyring[r]}
      BY <3>1 DEF StoreOK
    <3> QED
      BY <2>4, <3>2 DEF Holds, Agrees
  <2> QED
    BY <2>1, <2>2, <2>3, <2>4
<1> QED
  BY <1>1 DEF Agrees, Kept

LEMMA KeyedInit == Init => Keyed
BY DEF Init, Keyed, Net, Agrees, AtRest

-----------------------------------------------------------------------------
(* A call begins where everything agrees. *)

LEMMA ChangeMidway ==
  ASSUME TypeOK, Agrees, Agrees', NEW c \in Callers, NEW pass \in Passes, ChangeBegins(c, pass)
  PROVE  Midway(calls[c])'
<1>1. UNCHANGED <<spoolKey, config>>
  BY DEF ChangeBegins, keys, daemon
<1>2. /\ calls'[c].op = "change" /\ calls'[c].at = "rekeying" /\ calls'[c].repo = config.repo
      /\ calls'[c].pass = pass /\ calls'[c].old = Get(config.repo)
      /\ Get(config.repo) # None /\ config.repo \in Repos
  BY ChangeIsBegun
<1>3. spoolKey # None => Kept(config.repo, spoolKey)
  BY <1>2 DEF Agrees
<1>4. spoolKey \in {None, Get(config.repo)}
  BY <1>2, <1>3, GetIsKept
<1> QED
  BY <1>1, <1>2, <1>4 DEF Midway

LEMMA AdoptMidway ==
  ASSUME "unread" \notin Circumstances, TypeOK, Net, Agrees, Agrees', NEW c \in Callers,
         NEW pass \in Passes, NEW op \in {"setup", "import"}, NEW path \in Repos,
         AdoptBegins(c, op, path, pass)
  PROVE  Midway(calls[c])'
<1>1. UNCHANGED <<spoolKey, config>>
  BY DEF AdoptBegins, keys, daemon
<1>2. /\ calls'[c].op = op /\ calls'[c].at = "storing" /\ calls'[c].repo = path
      /\ calls'[c].pass = pass
      /\ calls'[c].old = (IF config.repo = None THEN None ELSE Get(config.repo))
  BY AdoptIsBegun
<1>3. spoolKey # None => config.repo # None /\ Get(config.repo) # None
  BY DEF AdoptBegins, Net, Reads
<1>4. spoolKey # None => Kept(config.repo, spoolKey)
  BY <1>3 DEF Agrees
<1>5. spoolKey # None => calls'[c].old = spoolKey
  BY <1>2, <1>3, <1>4, GetIsKept
<1> QED
  BY <1>1, <1>2, <1>5 DEF Midway

LEMMA UnlockMidway ==
  ASSUME "old key" \notin Circumstances, TypeOK, Agrees', NEW c \in Callers, NEW pass \in Passes,
         NEW on \in BOOLEAN, NEW key \in BOOLEAN, UnlockBegins(c, pass, on, key)
  PROVE  Midway(calls[c])'
<1>1. UNCHANGED <<repoKey, exported, config>>
  BY DEF UnlockBegins, keys, daemon
<1>2. /\ calls'[c].op = "unlock" /\ calls'[c].at \in {"importing key", "trying"}
      /\ calls'[c].at = "importing key" => exported[config.repo] = repoKey[config.repo]
      /\ calls'[c].repo = config.repo /\ calls'[c].pass = pass
  BY ZenonT(60), UnlockIsBegun DEF UnlockBegins
<1> QED
  BY <1>1, <1>2 DEF Midway

LEMMA SettingMidway ==
  ASSUME TypeOK, Agrees', NEW c \in Callers, SettingBegins(c)
  PROVE  Midway(calls[c])'
<1>1. UNCHANGED config
  BY DEF SettingBegins, daemon
<1>2. calls'[c].op = "setting" /\ calls'[c].at = "remembering" /\ calls'[c].repo = config.repo
  BY SettingIsBegun
<1> QED
  BY <1>1, <1>2 DEF Midway

LEMMA KeyedStep ==
  ASSUME Circumstances \subseteq {"locked"}, TypeOK, One, Keyed, [Next]_vars
  PROVE  Keyed'
<1>0. /\ "side by side" \notin Circumstances /\ "refuses" \notin Circumstances
      /\ "half done" \notin Circumstances /\ "crash" \notin Circumstances
      /\ "same place" \notin Circumstances /\ "unread" \notin Circumstances
      /\ "by hand" \notin Circumstances /\ "reset" \notin Circumstances /\ "old key" \notin Circumstances
  OBVIOUS
<1>00. KeysOK /\ StoreOK /\ DaemonOK /\ CallsOK /\ Net
  BY TypeParts DEF Keyed
<1> USE <1>0, <1>00
<1>g. ASSUME NEW c \in Callers, NEW at \in At, calls[c] # Idle, Goes(c, at), Net', Midway(calls[c])'
      PROVE  Keyed'
  <2>1. ~AtRest' /\ \A d \in Callers : calls'[d] # Idle => d = c
    BY ZenonT(60), <1>g, GoesAlone
  <2> QED
    BY <1>g, <2>1 DEF Keyed
<1>e. ASSUME NEW c \in Callers, calls[c] # Idle, Ends(c), Net', Agrees' PROVE Keyed'
  BY <1>e, EndsAlone DEF Keyed, AtRest
<1>r. ASSUME AtRest, UNCHANGED calls, Net', Agrees' PROVE Keyed'
  BY <1>r DEF Keyed, AtRest
<1>m. ASSUME NEW c \in Callers, calls[c] # Idle
      PROVE  /\ Midway(calls[c]) /\ calls[c].repo \in Repos
             /\ calls[c].pass \in Passes \cup {None}
  BY <1>m, CallHasFields DEF Keyed
<1>n. ASSUME UNCHANGED <<spoolKey, spoolFor>>, config'.repo = config.repo PROVE Net'
  BY <1>n DEF Net
<1>1. ASSUME NEW c \in Callers, NEW pass \in Passes,
             \/ ChangeBegins(c, pass)
             \/ \E op \in {"setup", "import"}, path \in Repos : AdoptBegins(c, op, path, pass)
             \/ \E on \in BOOLEAN, key \in BOOLEAN : UnlockBegins(c, pass, on, key)
             \/ SettingBegins(c)
      PROVE  Keyed'
  <2>1. /\ Alone /\ calls'[c] # Idle /\ \A d \in Callers : d # c => calls'[d] = calls[d]
        /\ UNCHANGED <<repoKey, exported, spoolKey, keyring, held, config, spoolFor>>
    BY <1>1, CallIsBegun DEF keys, store, daemon
  <2>2. AtRest /\ ~AtRest' /\ \A d \in Callers : calls'[d] # Idle => d = c
    BY <2>1, StartsAlone
  <2>3. Net' /\ Agrees /\ Agrees'
    BY <1>n, <2>1, <2>2, AgreesKeeps DEF Keyed
  <2>4. Midway(calls[c])'
    BY <1>1, <2>3, ChangeMidway, AdoptMidway, UnlockMidway, SettingMidway
  <2> QED
    BY <2>2, <2>3, <2>4 DEF Keyed
<1>2. ASSUME NEW c \in Callers, NEW ok \in BOOLEAN, ChangeRekeys(c, ok) PROVE Keyed'
  <2>1. /\ calls[c] # Idle /\ calls[c].op = "change" /\ calls[c].at = "rekeying"
        /\ UNCHANGED <<spoolKey, keyring, held, config, spoolFor>>
    BY <1>2 DEF ChangeRekeys, In, store, daemon
  <2>2. /\ Net' /\ Agrees /\ spoolKey \in {None, calls[c].old} /\ calls[c].pass # None
        /\ calls[c].repo = config.repo /\ calls[c].repo \in Repos /\ calls[c].old # None
    BY <1>m, <1>n, <2>1 DEF Midway, CallsOK
  <2>3. \/ /\ Goes(c, "rekeying spool") /\ repoKey[calls[c].repo] = calls[c].old
           /\ repoKey' = [repoKey EXCEPT ![calls[c].repo] = calls[c].pass]
        \/ Ends(c) /\ UNCHANGED repoKey
    BY <1>2 DEF ChangeRekeys
  <2>4. CASE Ends(c) /\ UNCHANGED repoKey
    BY <1>e, <2>1, <2>2, <2>4, AgreesKeeps
  <2>5. CASE /\ Goes(c, "rekeying spool") /\ repoKey[calls[c].repo] = calls[c].old
             /\ repoKey' = [repoKey EXCEPT ![calls[c].repo] = calls[c].pass]
    <3>1. repoKey'[calls[c].repo] = calls[c].pass
      BY <2>2, <2>5 DEF KeysOK
    <3>2. Kept(calls[c].repo, calls[c].old)
      BY <2>2, <2>5 DEF Agrees
    <3>3. Kept(calls[c].repo, calls[c].old)'
          <=> keyring'[calls'[c].repo] \in {None, calls'[c].old} /\ held'[calls'[c].repo] \in {None, calls'[c].old}
      BY DEF Kept
    <3>4. Midway(calls[c])'
      BY <2>1, <2>2, <2>5, <3>1, <3>2, <3>3, GoesAlone DEF Midway, Kept
    <3> QED
      BY <1>g, <2>1, <2>2, <2>5, <3>4
  <2> QED
    BY <2>3, <2>4, <2>5
<1>3. ASSUME NEW c \in Callers, NEW ok \in BOOLEAN, ChangeRekeysSpool(c, ok) PROVE Keyed'
  <2>1. /\ calls[c] # Idle /\ calls[c].op = "change" /\ calls[c].at = "rekeying spool"
        /\ UNCHANGED <<repoKey, keyring, held, config>>
    BY <1>3 DEF ChangeRekeysSpool, In, store
  <2>2. /\ repoKey[calls[c].repo] = calls[c].pass /\ spoolKey \in {None, calls[c].old}
        /\ Kept(calls[c].repo, calls[c].old) /\ calls[c].pass # None /\ calls[c].repo = config.repo
    BY <1>m, <2>1 DEF Midway
  <2>3. \/ spoolKey = None /\ Goes(c, "keeping") /\ UNCHANGED <<spoolKey, spoolFor>>
        \/ /\ spoolKey # None /\ Goes(c, "keeping") /\ spoolKey' = calls[c].pass
           /\ spoolFor' = (IF spoolFor = None THEN config.repo ELSE spoolFor)
        \/ /\ spoolKey # None /\ Goes(c, "undoing") /\ spoolKey' = spoolKey
           /\ spoolFor' = (IF spoolFor = None THEN config.repo ELSE spoolFor)
    BY <1>3 DEF ChangeRekeysSpool, SpoolAs
  <2>4. Net'
    BY <2>1, <2>2, <2>3 DEF Net
  <2>5. CASE Goes(c, "keeping") /\ spoolKey' \in {None, calls[c].pass}
    <3>1. Midway(calls[c])'
      BY <2>1, <2>2, <2>5, GoesAlone DEF Midway, Settled
    <3> QED
      BY <1>g, <2>1, <2>4, <2>5, <3>1
  <2>6. CASE Goes(c, "undoing") /\ spoolKey' = spoolKey
    <3>1. Midway(calls[c])'
      BY <2>1, <2>2, <2>6, GoesAlone DEF Midway, Kept
    <3> QED
      BY <1>g, <2>1, <2>4, <2>6, <3>1
  <2> QED
    BY <2>3, <2>5, <2>6
<1>4. ASSUME NEW c \in Callers, NEW ok \in BOOLEAN, ChangeKeeps(c, ok) \/ UnlockKeeps(c, ok)
      PROVE  Keyed'
  <2>1. /\ calls[c] # Idle /\ calls[c].op \in {"change", "unlock"} /\ calls[c].at = "keeping"
        /\ Keeps(calls[c].repo, calls[c].pass, ok)
        /\ UNCHANGED <<repoKey, spoolKey, config>> /\ UNCHANGED spoolFor
    BY <1>4 DEF ChangeKeeps, UnlockKeeps, In, keys, daemon
  <2>2. Ends(c)
    <3>1. ok = TRUE
      BY <1>m, <2>1, KeepsIsTaken
    <3> QED
      BY <1>4, <3>1 DEF ChangeKeeps, UnlockKeeps
  <2>3. /\ calls[c].repo = config.repo /\ calls[c].pass \in Passes \cup {None} /\ calls[c].repo \in Repos
        /\ spoolKey \in {None, calls[c].pass} /\ repoKey[calls[c].repo] \in {None, calls[c].pass}
    BY <1>m, <2>1 DEF Midway, Settled
  <2>4. Agrees'
    <3>1. /\ held'[calls[c].repo] = calls[c].pass
          /\ keyring'[calls[c].repo] \in {None, calls[c].pass}
      BY <2>1, <2>3, KeepsHolds DEF Keeps
    <3> QED
      BY <2>1, <2>3, <3>1 DEF Agrees, Kept
  <2> QED
    BY <1>e, <1>n, <2>1, <2>2, <2>4
<1>5. ASSUME NEW c \in Callers, NEW ok \in BOOLEAN, ChangeUndoes(c, ok) PROVE Keyed'
  <2>1. /\ calls[c] # Idle /\ calls[c].op = "change" /\ calls[c].at = "undoing" /\ Ends(c)
        /\ UNCHANGED <<spoolKey, keyring, held, config, spoolFor>>
    BY <1>5 DEF ChangeUndoes, In, store, daemon
  <2>2. /\ repoKey[calls[c].repo] = calls[c].pass /\ spoolKey \in {None, calls[c].old}
        /\ Kept(calls[c].repo, calls[c].old) /\ calls[c].repo = config.repo /\ calls[c].repo \in Repos
    BY <1>m, <2>1 DEF Midway
  <2>3. repoKey' = [repoKey EXCEPT ![calls[c].repo] = calls[c].old]
    BY <1>5, <2>2 DEF ChangeUndoes, Undone
  <2>4. repoKey'[config.repo] = calls[c].old
    BY <2>2, <2>3 DEF KeysOK
  <2>5. Agrees'
    BY <2>1, <2>2, <2>4 DEF Agrees, Kept
  <2> QED
    BY <1>e, <1>n, <2>1, <2>5
<1>6. ASSUME NEW c \in Callers, NEW ok \in BOOLEAN, AdoptStores(c, ok) PROVE Keyed'
  <2>1. /\ calls[c] # Idle /\ calls[c].op \in {"setup", "import"} /\ calls[c].at = "storing"
        /\ Keeps(calls[c].repo, calls[c].pass, ok)
        /\ UNCHANGED <<repoKey, spoolKey, config>> /\ UNCHANGED spoolFor
    BY <1>6 DEF AdoptStores, In, keys, daemon
  <2>2. Goes(c, "opening")
    <3>1. ok = TRUE
      BY <1>m, <2>1, KeepsIsTaken
    <3> QED
      BY <1>6, <3>1 DEF AdoptStores
  <2>3. /\ Agrees /\ spoolKey \in {None, calls[c].old} /\ calls[c].repo \in Repos
        /\ calls[c].pass # None /\ calls[c].pass \in Passes \cup {None}
    BY <1>m, <2>1 DEF Midway
  <2>4. held'[calls[c].repo] = calls[c].pass /\ keyring'[calls[c].repo] \in {None, calls[c].pass}
    BY <2>1, <2>3, KeepsHolds DEF Keeps
  <2>5. calls[c].repo # config.repo => Agrees'
    BY <2>1, <2>3, OtherIsKept
  <2>6. Midway(calls[c])'
    BY <2>1, <2>2, <2>3, <2>4, <2>5, GoesAlone DEF Midway, Kept
  <2> QED
    BY <1>g, <1>n, <2>1, <2>2, <2>6
<1>7. ASSUME NEW c \in Callers, NEW ok \in BOOLEAN, AdoptOpens(c, ok) PROVE Keyed'
  <2>1. /\ calls[c] # Idle /\ calls[c].op \in {"setup", "import"} /\ calls[c].at = "opening"
        /\ UNCHANGED <<spoolKey, keyring, held>>
    BY <1>7 DEF AdoptOpens, In, store
  <2>2. /\ held[calls[c].repo] = calls[c].pass /\ keyring[calls[c].repo] \in {None, calls[c].pass}
        /\ calls[c].pass # None /\ calls[c].repo \in Repos /\ spoolKey \in {None, calls[c].old}
        /\ calls[c].repo # config.repo => Agrees
    BY <1>m, <2>1 DEF Midway, Kept
  <2>3. Get(calls[c].repo) = calls[c].pass
    BY <2>2 DEF Get
  <2>4. \/ /\ Goes(c, "carrying") /\ config' = [config EXCEPT !.repo = calls[c].repo] /\ spoolFor' = None
           /\ repoKey' = [repoKey EXCEPT ![calls[c].repo] = calls[c].pass]
        \/ Ends(c) /\ calls[c].repo # config.repo /\ UNCHANGED <<config, spoolFor, repoKey>>
    BY <1>7, <2>3 DEF AdoptOpens
  <2>5. CASE /\ Goes(c, "carrying") /\ config' = [config EXCEPT !.repo = calls[c].repo] /\ spoolFor' = None
             /\ repoKey' = [repoKey EXCEPT ![calls[c].repo] = calls[c].pass]
    <3>1. config'.repo = calls[c].repo
      BY <2>5 DEF DaemonOK
    <3>2. repoKey'[calls[c].repo] = calls[c].pass
      BY <2>2, <2>5 DEF KeysOK
    <3>3. Net'
      BY <2>2, <2>5, <3>1 DEF Net
    <3>4. Midway(calls[c])'
      BY <2>1, <2>2, <2>5, <3>1, <3>2, GoesAlone DEF Midway, Kept
    <3> QED
      BY <1>g, <2>1, <2>5, <3>3, <3>4
  <2>6. CASE Ends(c) /\ calls[c].repo # config.repo /\ UNCHANGED <<config, spoolFor, repoKey>>
    <3>1. Agrees'
      BY <2>1, <2>2, <2>6, AgreesKeeps
    <3> QED
      BY <1>e, <1>n, <2>1, <2>6, <3>1
  <2> QED
    BY <2>4, <2>5, <2>6
<1>8. ASSUME NEW c \in Callers, NEW ok \in BOOLEAN, AdoptCarries(c, ok) PROVE Keyed'
  <2>1. /\ calls[c] # Idle /\ calls[c].op \in {"setup", "import"} /\ calls[c].at = "carrying" /\ Ends(c)
        /\ UNCHANGED <<repoKey, keyring, held, config, spoolFor>>
    BY <1>8 DEF AdoptCarries, In, store, daemon
  <2>2. /\ calls[c].repo = config.repo /\ repoKey[calls[c].repo] = calls[c].pass
        /\ Kept(calls[c].repo, calls[c].pass) /\ calls[c].pass # None /\ spoolKey \in {None, calls[c].old}
    BY <1>m, <2>1 DEF Midway
  <2>3. spoolKey' \in {None, calls[c].pass} /\ (spoolKey = None <=> spoolKey' = None)
    BY <1>8, <2>2 DEF AdoptCarries, ReadsFirst
  <2>4. Net'
    BY <2>1, <2>3 DEF Net
  <2>5. Agrees'
    BY <2>1, <2>2, <2>3 DEF Agrees, Kept
  <2> QED
    BY <1>e, <2>1, <2>4, <2>5
<1>9. ASSUME NEW c \in Callers, UnlockImports(c) PROVE Keyed'
  <2>1. /\ calls[c] # Idle /\ calls[c].op = "unlock" /\ calls[c].at = "importing key"
        /\ UNCHANGED <<spoolKey, keyring, held, config, spoolFor>>
    BY <1>9 DEF UnlockImports, In, store, daemon
  <2>2. /\ Agrees /\ calls[c].pass # None /\ calls[c].repo = config.repo
        /\ exported[calls[c].repo] = repoKey[calls[c].repo]
    BY <1>m, <2>1 DEF Midway
  <2>3. (Ends(c) \/ Goes(c, "trying")) /\ UNCHANGED repoKey
    <3> DEFINE repo == calls[c].repo
    <3>1. \/ Ends(c) /\ UNCHANGED repoKey
          \/ Goes(c, "trying") /\ repoKey' = [repoKey EXCEPT ![repo] = exported[repo]]
      BY <1>9 DEF UnlockImports
    <3>2. [repoKey EXCEPT ![repo] = exported[repo]] = repoKey
      <4>1. exported[repo] = repoKey[repo]
        BY <2>2
      <4> HIDE DEF repo
      <4> QED
        BY <4>1 DEF KeysOK
    <3> QED
      BY <3>1, <3>2
  <2>4. Agrees' /\ Net'
    BY <1>n, <2>1, <2>2, <2>3, AgreesKeeps
  <2>5. CASE Goes(c, "trying")
    <3>1. Midway(calls[c])'
      BY <2>1, <2>2, <2>4, <2>5, GoesAlone DEF Midway
    <3> QED
      BY <1>g, <2>1, <2>4, <2>5, <3>1
  <2> QED
    BY <1>e, <2>1, <2>3, <2>4, <2>5
<1>10. ASSUME NEW c \in Callers, NEW ok \in BOOLEAN, UnlockTries(c, ok) PROVE Keyed'
  <2>1. /\ calls[c] # Idle /\ calls[c].op = "unlock" /\ calls[c].at = "trying"
        /\ UNCHANGED <<repoKey, spoolKey, keyring, held, config, spoolFor>>
    BY <1>10 DEF UnlockTries, In, keys, store, daemon
  <2>2. Agrees /\ calls[c].pass # None /\ calls[c].repo = config.repo /\ calls[c].repo \in Repos
    BY <1>m, <2>1 DEF Midway
  <2>3. Agrees' /\ Net'
    BY <1>n, <2>1, <2>2, AgreesKeeps
  <2>4. \/ Ends(c)
        \/ Fits(calls[c].pass, calls[c].repo, ok) /\ \E at \in {"remembering", "keeping"} : Goes(c, at)
    BY <1>10 DEF UnlockTries
  <2>5. ASSUME Fits(calls[c].pass, calls[c].repo, ok), NEW at \in {"remembering", "keeping"}, Goes(c, at)
        PROVE  Keyed'
    <3>1. spoolKey \in {None, calls[c].pass} /\ repoKey[calls[c].repo] \in {None, calls[c].pass}
      BY <2>2, <2>5 DEF Fits, Agrees
    <3>a. calls'[c].at = at /\ calls'[c].op = calls[c].op /\ calls'[c].repo = calls[c].repo
          /\ calls'[c].pass = calls[c].pass
      <4>1. at \in At
        BY DEF At
      <4> QED
        BY <2>1, <2>5, <4>1, GoesAlone
    <3>b. Settled(calls[c])'
      BY <2>1, <3>1, <3>a DEF Settled
    <3>c. calls'[c].pass # None /\ calls'[c].repo = config'.repo /\ Agrees'
      BY <2>1, <2>2, <2>3, <3>a
    <3>d. calls'[c].at \in {"remembering", "keeping"}
      BY <3>a
    <3>2. Midway(calls[c])'
      BY <3>b, <3>c, <3>d DEF Midway
    <3> QED
      BY <1>g, <2>1, <2>3, <2>5, <3>2
  <2> QED
    BY <1>e, <2>1, <2>3, <2>4, <2>5
<1>11. ASSUME NEW c \in Callers, NEW ok \in BOOLEAN, RememberMoves(c, ok) PROVE Keyed'
  <2>1. /\ calls[c] # Idle /\ calls[c].op \in {"unlock", "setting"} /\ calls[c].at = "remembering"
        /\ Remembers(calls[c].repo, calls[c].remember, ok)
        /\ UNCHANGED <<repoKey, spoolKey, config, spoolFor>>
    BY <1>11 DEF RememberMoves, In, keys, daemon
  <2>2. /\ Agrees /\ calls[c].repo = config.repo /\ calls[c].repo \in Repos
        /\ calls[c].remember \in BOOLEAN
        /\ calls[c].op = "unlock" => calls[c].pass # None /\ Settled(calls[c])
    BY <1>m, <2>1, CallHasFields DEF Midway
  <2>3. Goes(c, "saving")
    <3>1. ok = TRUE
      BY <2>1, <2>2, RemembersTakes
    <3> QED
      BY <1>11, <3>1 DEF RememberMoves
  <2>4. Agrees'
    BY <2>1, <2>2, MovedIsKept
  <2>5. Midway(calls[c])'
    BY <2>1, <2>2, <2>3, <2>4, GoesAlone DEF Midway, Settled
  <2> QED
    BY <1>g, <1>n, <2>1, <2>3, <2>5
<1>12. ASSUME NEW c \in Callers, RememberSaves(c) PROVE Keyed'
  <2>1. /\ calls[c] # Idle /\ calls[c].op \in {"unlock", "setting"} /\ calls[c].at = "saving"
        /\ UNCHANGED <<repoKey, spoolKey, keyring, held, spoolFor>>
    BY <1>12 DEF RememberSaves, In, keys, store
  <2>2. config'.repo = config.repo
    BY <1>12 DEF RememberSaves, DaemonOK
  <2>3. /\ Agrees /\ calls[c].repo = config.repo
        /\ calls[c].op = "unlock" => calls[c].pass # None /\ Settled(calls[c])
    BY <1>m, <2>1 DEF Midway
  <2>4. Agrees' /\ Net'
    BY <1>n, <2>1, <2>2, <2>3, AgreesKeeps
  <2>5. Ends(c) \/ (Goes(c, "keeping") /\ calls[c].op = "unlock")
    BY <1>12 DEF RememberSaves
  <2>6. CASE Goes(c, "keeping") /\ calls[c].op = "unlock"
    <3>1. Midway(calls[c])'
      BY <2>1, <2>2, <2>3, <2>6, GoesAlone DEF Midway, Settled
    <3> QED
      BY <1>g, <2>1, <2>4, <2>6, <3>1
  <2> QED
    BY <1>e, <2>1, <2>4, <2>5, <2>6
<1>13. ASSUME NEW path \in Repos, SetsRepository(path) PROVE Keyed'
  <2>1. /\ AtRest /\ UNCHANGED <<repoKey, spoolKey, keyring, held, spoolFor, calls>>
        /\ spoolKey = None /\ keyring[path] \in {None, repoKey[path]} /\ held[path] \in {None, repoKey[path]}
    BY <1>13 DEF SetsRepository, Calling, Alone, keys, store
  <2>2. config'.repo = path
    BY <1>13 DEF SetsRepository, DaemonOK
  <2>3. Net' /\ Agrees'
    BY <2>1, <2>2 DEF Net, Agrees, Kept
  <2> QED
    BY <1>r, <2>1, <2>3
<1>14. ASSUME Resets PROVE Keyed'
  <2>1. AtRest /\ UNCHANGED <<calls, spoolKey, spoolFor>> /\ spoolKey = None /\ config'.repo = None
    BY <1>14 DEF Resets, Calling, Alone, keys
  <2>2. Net' /\ Agrees'
    BY <2>1 DEF Net, Agrees
  <2> QED
    BY <1>r, <2>1, <2>2
<1>15. ASSUME StartsFresh PROVE Keyed'
  <2>1. /\ AtRest /\ UNCHANGED <<spoolKey, keyring, held, config, spoolFor, calls>>
        /\ repoKey' = [repoKey EXCEPT ![config.repo] = None] /\ config.repo # None
    BY <1>15 DEF StartsFresh, Calling, Alone, store
  <2>2. repoKey'[config.repo] = None
    BY <2>1 DEF KeysOK, DaemonOK
  <2>3. Agrees'
    BY <2>1, <2>2 DEF Agrees, Kept, Keyed
  <2> QED
    BY <1>r, <1>n, <2>1, <2>3
<1>16. ASSUME SpoolIsOpened PROVE Keyed'
  <2>1. /\ AtRest /\ UNCHANGED <<repoKey, keyring, held, config, calls>> /\ config.repo # None
        /\ spoolFor' = config.repo
    BY <1>16 DEF SpoolIsOpened, Alone, store
  <2>a. \/ spoolKey # None /\ spoolKey' = spoolKey
        \/ Get(config.repo) # None /\ spoolKey' = Get(config.repo)
    BY <1>16 DEF SpoolIsOpened, Reads
  <2>2. Net' /\ Agrees
    BY <2>1, <2>a DEF Net, Keyed
  <2>3. CASE spoolKey' = spoolKey
    BY <1>r, <2>1, <2>2, <2>3, AgreesKeeps
  <2>4. CASE Get(config.repo) # None /\ spoolKey' = Get(config.repo)
    <3>1. Kept(config.repo, Get(config.repo))
      BY <2>1, <2>2, <2>4 DEF Agrees, Kept, Get
    <3>2. repoKey[config.repo] \in {None, Get(config.repo)}
      BY <2>1, <2>2, <2>4, GetIsKept DEF Agrees
    <3>3. Agrees'
      BY <2>1, <2>2, <2>4, <3>1, <3>2 DEF Agrees, Kept
    <3> QED
      BY <1>r, <2>1, <2>2, <3>3
  <2> QED
    BY <2>a, <2>3, <2>4
<1>17. ASSUME Restarts PROVE Keyed'
  <2>1. /\ AtRest /\ \A c \in Callers : calls'[c] = Idle
        /\ UNCHANGED <<repoKey, spoolKey, keyring, config>> /\ spoolFor' = None
        /\ \A r \in Repos : held'[r] = None
    BY <1>17 DEF Restarts, keys
  <2>2. Net'
    BY <2>1 DEF Net
  <2>3. Agrees'
    BY <2>1 DEF Agrees, Kept, Keyed, DaemonOK
  <2> QED
    BY <2>1, <2>2, <2>3 DEF Keyed
<1>18. ASSUME KeyIsSaved PROVE Keyed'
  <2>1. AtRest /\ UNCHANGED <<repoKey, spoolKey, keyring, held, config, spoolFor, calls>>
    BY <1>18 DEF KeyIsSaved, Calling, Alone, store, daemon
  <2>2. Net' /\ Agrees'
    BY <1>n, <2>1, AgreesKeeps DEF Keyed
  <2> QED
    BY <1>r, <2>1, <2>2
<1>19. ASSUME KeyringLocks \/ KeyringOpens \/ UNCHANGED vars PROVE Keyed'
  <2>1. UNCHANGED <<repoKey, exported, spoolKey, keyring, held, config, spoolFor, calls>>
    BY <1>19 DEF KeyringLocks, KeyringOpens, vars, keys, store, daemon
  <2>2. Net' /\ (Agrees => Agrees')
    BY <1>n, <2>1, AgreesKeeps
  <2>3. ASSUME NEW c \in Callers, calls[c] # Idle PROVE Midway(calls[c])'
    BY <1>m, <2>1, <2>2, <2>3 DEF Midway, Settled, Kept
  <2> QED
    BY <2>1, <2>2, <2>3 DEF Keyed, AtRest
<1> QED
  BY <1>1, <1>2, <1>3, <1>4, <1>5, <1>6, <1>7, <1>8, <1>9, <1>10, <1>11, <1>12, <1>13, <1>14, <1>15,
    <1>16, <1>17, <1>18, <1>19 DEF Next

(* The passphrase that is read opens what it is read for. *)
LEMMA KeyedOpens ==
  ASSUME Keyed
  PROVE  SpoolOpens /\ StoredOpens
<1>1. SpoolOpens
  BY GetIsKept DEF Keyed, Net, Agrees, SpoolOpens
<1>2. StoredOpens
  BY GetIsKept DEF Keyed, Agrees, StoredOpens
<1> QED
  BY <1>1, <1>2

LEMMA KeyedHolds ==
  ASSUME Circumstances \subseteq {"locked"}
  PROVE  Spec => []Keyed
<1>1. TypeOK /\ Followed /\ [Next]_vars => Followed'
  BY FollowedStep
<1>2. TypeOK /\ Followed /\ Keyed /\ [Next]_vars => Keyed'
  BY KeyedStep DEF Followed
<1> QED
  BY <1>1, <1>2, FollowedInit, KeyedInit, TypeCorrect, PTL DEF Spec

(* With the calls one after another and what they undo undone, whatever else   *)
(* fails in them: between calls, the passphrase the daemon reads opens the     *)
(* local safety net, whose versions nothing else has (change_passphrase,       *)
(* rekey_spool, spool_engine).                                                 *)
THEOREM SafetyNetOpens ==
  ASSUME Circumstances \subseteq {"locked"}
  PROVE  Spec => []SpoolOpens
BY KeyedHolds, KeyedOpens, PTL

(* Under the same conditions, it opens the destination (change_passphrase,     *)
(* import_repo, unlock_backups).                                               *)
THEOREM DestinationOpens ==
  ASSUME Circumstances \subseteq {"locked"}
  PROVE  Spec => []StoredOpens
BY KeyedHolds, KeyedOpens, PTL

(* With no circumstance that breaks a part of it: the passphrase on this       *)
(* computer opens what it is for, and is kept where the person wants it        *)
(* (service/mod.rs, session.rs).                                               *)
THEOREM PassphraseIsSafe ==
  ASSUME Circumstances = {}
  PROVE  Spec => []PassphraseSafety
<1>1. Spec => []FlagIsSetting
  BY StoreFollowsSetting
<1>2. Spec => []KeyringForgets
  BY ForgottenIsGone
<1>3. Spec => []SpoolOpens
  BY SafetyNetOpens
<1>4. Spec => []StoredOpens
  BY DestinationOpens
<1>5. TypeOK /\ SpoolOpens /\ StoredOpens /\ FlagIsSetting /\ KeyringForgets => PassphraseSafety
  BY DEF PassphraseSafety
<1> QED
  BY <1>1, <1>2, <1>3, <1>4, <1>5, TypeCorrect, PTL
=============================================================================
