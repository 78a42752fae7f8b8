------------------------------ MODULE Accounts ------------------------------
(***************************************************************************)
(* The account registry of AccountController: provisional adds with their   *)
(* 90 s timers, registration, the rows of the vault's accounts table,       *)
(* removal, unlock and the load of the persisted rows, rotation.  Every     *)
(* slot runs on the UI thread, so a slot is one action; what interleaves is *)
(* the order in which backends, timers and the user call the slots.         *)
(*                                                                          *)
(* A backend's credentials are [type, user, host, addr]: addr is the        *)
(* address a Delta Chat server reports once it is configured, "" for the    *)
(* other types.  A data directory is a path, a sequence of names.           *)
(*                                                                          *)
(* Left out: unlock and recover of a vault that is open already, accounts    *)
(* given on the command line, the import of an old accounts.json.           *)
(***************************************************************************)
EXTENDS Integers, FiniteSets, SequencesExt

CONSTANTS
  Users,         \* the users to consider, one per behaviour: the credentials one
                 \* submits in the add-account panel; whether an id is submitted while
                 \* an attempt for it is pending; whether setupFromQr runs on a
                 \* registered Delta Chat account
  Names,         \* user names, hosts and addresses; "" where there is none
  Addresses,     \* the names that hold an '@'
  MaxBackends,   \* bound: backend instances of one process
  MaxDirs        \* bound: fresh Delta Chat directories

Creds == [type : {"imap", "proton", "deltachat"}, user : Names, host : Names, addr : Names]

ASSUME BoundsAssumption == MaxBackends \in Nat /\ MaxDirs \in Nat

ASSUME NamesAssumption == "" \in Names /\ Addresses \subseteq Names

ASSUME UsersAssumption ==
  \A u \in Users :
    /\ u.creds \subseteq Creds
    /\ u.resubmits \in BOOLEAN /\ u.setsUpAgain \in BOOLEAN
    /\ \A c \in u.creds : /\ (c.type = "deltachat") <=> (c.addr # "")
                          /\ c.addr # "" => c.addr \in Addresses

VARIABLES
  user,         \* who submits
  locked,       \* MasterKeyManager::isLocked
  backends,     \* every backend object of this process, in creation order
  accounts,     \* m_accounts
  pendingAdds,  \* m_pendingAdds
  rows,         \* primary keys of accounts.db; no other column is used below
  refused,      \* ghost: keys whose row accounts.db last did not take, delete or give
  data,         \* data directories on disk
  proven        \* ghost: primary keys whose credentials a server accepted

vars == <<user, locked, backends, accounts, pendingAdds, rows, refused, data, proven>>

NoId == [label |-> <<>>, type |-> ""]

Key(c) == [type |-> c.type, user |-> c.user, host |-> c.host]

\* The label a backend derives from credentials, and the id built from it.
Label(c) ==
  IF c.user # "" /\ c.host # "" THEN <<c.user, c.host>>
  ELSE IF c.user \in Addresses THEN <<c.user>> ELSE <<c.type>>

computeAccountId(c) == [label |-> Label(c), type |-> c.type]

\* loadPersistedAccounts derives its id by a rule of its own.
LoadedId(c) ==
  IF c.user # "" /\ c.host # "" THEN computeAccountId(c)
                                ELSE [label |-> <<c.type>>, type |-> ""]

\* The id a proven attempt registers: the reported address where there is one.
RealId(c) == IF c.addr # "" THEN [label |-> <<c.addr>>, type |-> c.type]
                            ELSE computeAccountId(c)

Registered == {accounts[i].id : i \in DOMAIN accounts}
accountById(id) == id \in Registered
Holder(b) == {i \in DOMAIN accounts : accounts[i].b = b}
Alive(b) == backends[b].alive
Attempt(b) == b \in DOMAIN backends /\ Alive(b) /\ Holder(b) = {}

Dir(c, path) ==
  CASE c.type = "imap" -> <<"imap", c.user, c.host>>
    [] c.type = "proton" -> <<"proton", c.user>>
    [] OTHER -> path

DefaultDelta == <<"delta">>
DeltaDirs == {<<"delta", ToString(n)>> : n \in 1..MaxDirs}
KeyAware(c) == c.type # "deltachat"

BackendStartedTwice(c, id, path, io) ==
  [creds |-> c, id |-> id, dir |-> Dir(c, path), alive |-> TRUE,
   timer |-> id # NoId, io |-> 2 * io]
Backend(c, id, path, io) ==
  [creds |-> c, id |-> id, dir |-> Dir(c, path), alive |-> TRUE,
   timer |-> id # NoId, io |-> io]

Deleted ==
  [creds |-> [type |-> "deltachat", user |-> "", host |-> "", addr |-> ""],
   id |-> NoId, dir |-> <<>>, alive |-> FALSE,
   timer |-> FALSE, io |-> 0]

Init ==
  /\ user \in Users
  /\ locked = TRUE
  /\ backends = <<>> /\ accounts = <<>> /\ pendingAdds = {}
  /\ rows = {} /\ refused = {} /\ data = {}
  /\ proven = {}

-----------------------------------------------------------------------------
(* Adding an account.                                                       *)

\* addAccount: refused for a registered id and while locked, but not for an
\* id already pending; the new backend starts at once, with a running timer.
MayAdd(id) == ~accountById(id) /\ ~locked

addAccountPersists(c) ==
  LET id == computeAccountId(c) IN
  /\ MayAdd(id) /\ Len(backends) < MaxBackends
  /\ backends' = Append(backends, Backend(c, id, <<"delta", "1">>, 1))
  /\ rows' = rows \cup {Key(c)}
  /\ pendingAdds' = pendingAdds \cup {id}
  /\ UNCHANGED <<user, locked, accounts, refused, data, proven>>

addAccount(c) ==
  LET id == computeAccountId(c) IN
  /\ MayAdd(id)
  /\ user.resubmits \/ id \notin pendingAdds
  /\ Len(backends) < MaxBackends
  /\ c.type = "deltachat" => DeltaDirs \ data # {}
  /\ LET fresh == CHOOSE d \in DeltaDirs : d \notin data IN
       /\ backends' = Append(backends, Backend(c, id, fresh, 1))
       /\ data' = data \cup {Dir(c, fresh)}
  /\ pendingAdds' = pendingAdds \cup {id}
  /\ UNCHANGED <<user, locked, accounts, rows, refused, proven>>

\* The provisional handlers of a backend act only while its own id is pending
\* and not registered.
ResolvedNever(b) == FALSE
Resolved(b) == accountById(backends[b].id) \/ backends[b].id \notin pendingAdds

\* failAttempt stops the timer, forgets the id and deletes the backend.
DiscardedKept(b) == [backends[b] EXCEPT !.timer = FALSE]
Discarded(b) == Deleted

\* A registered backend's own ioStarted handler (connectBackend).
DropPending(b) == {accounts[i].id : i \in Holder(b)}

\* ioStarted(false), or ioStarted(true) for an address already registered.
IoRefused(b, ok) ==
  /\ backends[b].io > 0 /\ Alive(b)
  /\ LET again == [backends EXCEPT ![b].io = @ - 1] IN
     IF backends[b].id = NoId \/ Resolved(b)
     THEN /\ backends' = again
          /\ pendingAdds' = pendingAdds \ DropPending(b)
     ELSE /\ ~ok \/ accountById(RealId(backends[b].creds))
          /\ backends' = [backends EXCEPT ![b] = Discarded(b)]
          /\ pendingAdds' = (pendingAdds \ {backends[b].id}) \ DropPending(b)
  /\ UNCHANGED <<user, locked, accounts, rows, refused, data, proven>>

\* ioStarted(true) resolves the attempt: registerAccount, persist, forget the
\* id.  An empty user is stamped with the reported address first.
Stamped(c) == IF c.addr # "" /\ c.user = "" THEN [c EXCEPT !.user = c.addr] ELSE c

Succeeded(b) ==
  /\ backends[b].io > 0 /\ Alive(b)
  /\ backends[b].id # NoId /\ ~Resolved(b)
  /\ LET c == Stamped(backends[b].creds)
         real == RealId(backends[b].creds) IN
     /\ ~accountById(real)
     /\ backends' = [backends EXCEPT ![b].timer = FALSE, ![b].io = @ - 1,
                                     ![b].creds = c]
     /\ accounts' = Append(accounts, [id |-> real, b |-> b, creds |-> c])
     /\ proven' = proven \cup {Key(c)}
     /\ \/ rows' = rows \cup {Key(c)} /\ refused' = refused \ {Key(c)}
        \/ refused' = refused \cup {Key(c)} /\ UNCHANGED rows
  /\ pendingAdds' = pendingAdds \ {backends[b].id}
  /\ UNCHANGED <<user, locked, data>>

\* configured(false): a refused login or a failed Delta Chat setup.  The
\* result of startIo never comes then.
ConfigureFails(b) ==
  /\ backends[b].io > 0 /\ Alive(b) /\ backends[b].creds.type # "imap"
  /\ IF backends[b].id = NoId \/ Resolved(b)
     THEN /\ backends' = [backends EXCEPT ![b].io = @ - 1]
          /\ UNCHANGED pendingAdds
     ELSE /\ backends' = [backends EXCEPT ![b] = Discarded(b)]
          /\ pendingAdds' = pendingAdds \ {backends[b].id}
  /\ UNCHANGED <<user, locked, accounts, rows, refused, data, proven>>

\* The attempt's 90 s timer.

TimedOut(b) ==
  /\ b \in DOMAIN backends
  /\ backends[b].timer /\ Alive(b)
  /\ IF Resolved(b)
     THEN /\ backends' = [backends EXCEPT ![b].timer = FALSE]
          /\ UNCHANGED pendingAdds
     ELSE /\ backends' = [backends EXCEPT ![b] = Discarded(b)]
          /\ pendingAdds' = pendingAdds \ {backends[b].id}
  /\ UNCHANGED <<user, locked, accounts, rows, refused, data, proven>>

\* setupFromQr and getBackupFromQr act on the first account with that
\* capability and report through configured and ioStarted again.
setupFromQr ==
  /\ user.setsUpAgain
  /\ \E i \in DOMAIN accounts :
       /\ accounts[i].creds.type = "deltachat"
       /\ \A j \in 1..i - 1 : accounts[j].creds.type # "deltachat"
       /\ Alive(accounts[i].b) /\ backends[accounts[i].b].io = 0
       /\ backends' = [backends EXCEPT ![accounts[i].b].io = 1]
  /\ UNCHANGED <<user, locked, accounts, pendingAdds, rows, refused, data, proven>>

-----------------------------------------------------------------------------
(* Removing an account.                                                     *)

\* removeRecursively takes everything below the directory.
Below(dir) == {d \in data : IsPrefix(dir, d)}

\* The row is deleted under the key add() wrote, if accounts.db opens and lets it:
\* a delete that fails is reported, an open that fails is not.
RemovedRowByLabel(a) ==
  [type |-> a.id.type, user |-> a.id.label[1],
   host |-> IF Len(a.id.label) = 2 THEN a.id.label[2] ELSE a.id.label[1]]
RemovedRow(a) == Key(a.creds)

removeAccount(i) ==
  LET a == accounts[i] IN
  /\ \A j \in 1..i - 1 : accounts[j].id # a.id
  /\ Alive(a.b)
  /\ backends' = [backends EXCEPT ![a.b] = Deleted]
  /\ data' = data \ Below(backends[a.b].dir)
  /\ accounts' = RemoveAt(accounts, i)
  /\ \/ rows' = rows \ {RemovedRow(a)} /\ refused' = refused \ {Key(a.creds)}
     \/ refused' = refused \cup {Key(a.creds)} /\ UNCHANGED rows
  /\ UNCHANGED <<user, locked, pendingAdds, proven>>

-----------------------------------------------------------------------------
(* The vault.                                                               *)

\* A row holds no address and no directory: a reloaded Delta Chat account
\* opens the default directory and reports no address before its server answers.
FromRow(k) == [type |-> k.type, user |-> k.user, host |-> k.host, addr |-> ""]

\* loadPersistedAccounts and onVaultUnlocked: register what is not known yet,
\* and start every key-aware backend (the keys themselves are module EmailStore's).
\* No row is read where accounts.db does not open, which is reported, and only some
\* where list() ends early, which is not; the vault is open all the same.
onVaultUnlocked ==
  /\ locked
  /\ \E read \in SUBSET rows :
     LET new == SetToSeq({k \in read : ~accountById(LoadedId(k))})
         n == Len(backends) IN
     /\ n + Len(new) <= MaxBackends
     /\ accounts' = accounts \o
          [j \in DOMAIN new |-> [id |-> computeAccountId(new[j]), b |-> n + j,
                                 creds |-> FromRow(new[j])]]
     /\ backends' =
          LET aware(b) == \E i \in DOMAIN accounts' :
                            accounts'[i].b = b /\ KeyAware(accounts'[i].creds)
              all == backends \o
                [j \in DOMAIN new |-> Backend(FromRow(new[j]), NoId, DefaultDelta, 0)]
          IN [b \in DOMAIN all |->
                IF aware(b) /\ all[b].alive
                THEN [all[b] EXCEPT !.io = 1] ELSE all[b]]
     /\ data' = data \cup {Dir(FromRow(new[j]), DefaultDelta) : j \in DOMAIN new}
     /\ refused' = refused \cup (rows \ read)
  /\ locked' = FALSE
  /\ UNCHANGED <<user, pendingAdds, rows, proven>>

\* rotateVault: stop, wipe, hand over and start, for the registered key-aware
\* accounts.  The vault's own part is module Vault's.
rotateVault ==
  /\ ~locked
  /\ backends' = [b \in DOMAIN backends |->
       IF Holder(b) # {} /\ KeyAware(backends[b].creds) /\ Alive(b)
       THEN [backends[b] EXCEPT !.io = 1] ELSE backends[b]]
  /\ UNCHANGED <<user, locked, accounts, pendingAdds, rows, refused, data, proven>>

\* The process ends; only the disk remains.
Restart ==
  /\ locked' = TRUE
  /\ backends' = <<>> /\ accounts' = <<>> /\ pendingAdds' = {} /\ refused' = {}
  /\ UNCHANGED <<user, rows, data, proven>>

Next ==
  \/ \E c \in user.creds : addAccount(c)
  \/ \E b \in DOMAIN backends :
       \/ \E ok \in BOOLEAN : IoRefused(b, ok)
       \/ Succeeded(b) \/ ConfigureFails(b) \/ TimedOut(b)
  \/ \E i \in DOMAIN accounts : removeAccount(i)
  \/ setupFromQr \/ onVaultUnlocked \/ rotateVault \/ Restart

Spec == Init /\ [][Next]_vars

\* A running QTimer fires: the event loop never stops while the window is open.
FairSpec == Spec /\ \A b \in 1..MaxBackends : WF_vars(TimedOut(b))

-----------------------------------------------------------------------------
(* Properties.                                                              *)

\* Every variable keeps its type, and the registry only names backends that
\* exist, each at most once.
TypeOK ==
  /\ locked \in BOOLEAN
  /\ Len(backends) <= MaxBackends
  /\ \A b \in DOMAIN backends :
       /\ backends[b].alive \in BOOLEAN /\ backends[b].timer \in BOOLEAN
       /\ backends[b].io \in {0, 1}
  /\ \A i \in DOMAIN accounts : accounts[i].b \in DOMAIN backends
  /\ \A i, j \in DOMAIN accounts : accounts[i].b = accounts[j].b => i = j
  /\ pendingAdds \subseteq {computeAccountId(c) : c \in user.creds}

\* "The account is NOT registered, shown in the rail, or persisted until the
\* backend proves the credentials work": whatever the order of results, errors,
\* timers, unlocks and restarts, a pill or a row stands for credentials some
\* server has accepted.
ProvenOnly ==
  /\ rows \subseteq proven
  /\ \A i \in DOMAIN accounts : Key(accounts[i].creds) \in proven

\* Two accounts of the registry never share an id, on which every lookup of
\* the controller relies.
UniqueIds ==
  \A i, j \in DOMAIN accounts : accounts[i].id = accounts[j].id => i = j

\* While the vault is open the rail and the persisted accounts are the same
\* set: a restart brings back the accounts the user sees, and no others.  Only the
\* keys that accounts.db last failed on since the start are excepted: rows it did not
\* take, rows it did not delete, be that reported (a failing DELETE) or not (the
\* failing open before it), and rows it did not give when the vault was opened.
RailIsVault ==
  ~locked => {Key(accounts[i].creds) : i \in DOMAIN accounts} \ refused
               = rows \ refused

\* Two live backends never work on the same encrypted store: each has its own
\* SQLite handle and its own mutex.  An id submitted twice is the exception.
OneBackendPerStore ==
  \A b, c \in DOMAIN backends :
    /\ b # c /\ ~user.resubmits /\ Alive(b) /\ Alive(c)
    /\ KeyAware(backends[b].creds)
    => backends[b].dir # backends[c].dir

\* The "adding" state of the panel ends: an id does not stay in m_pendingAdds.
AddInProgressEnds ==
  \A u \in Users : \A c \in u.creds :
    computeAccountId(c) \in pendingAdds ~> computeAccountId(c) \notin pendingAdds

\* Every attempt is resolved, its backend registered or discarded, where no id is
\* submitted twice: two attempts would share the one entry of m_pendingAdds.
AttemptResolves ==
  \A b \in 1..MaxBackends : Attempt(b) /\ ~user.resubmits ~> ~Attempt(b)

\* Adding an account comes to an end: for the panel, and for the backend.
AddingEnds == AddInProgressEnds /\ AttemptResolves

\* "Once the account is registered these handlers go silent": a backend the
\* registry holds is never deleted by the handlers of its own attempt, no timer of
\* one runs on it, and an id it was added under became the account's, where these
\* get no second result to handle.
RegisteredAlive ==
  ~user.setsUpAgain => \A i \in DOMAIN accounts :
    LET b == backends[accounts[i].b] IN
      /\ b.alive /\ ~b.timer
      /\ b.id # NoId => accounts[i].id = RealId(b.creds)

\* What the lookups by id, the calls to the backends and their stores rely on.
RegistryConsistent == UniqueIds /\ RegisteredAlive /\ OneBackendPerStore

=============================================================================
