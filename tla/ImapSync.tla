------------------------------ MODULE ImapSync ------------------------------
(***************************************************************************)
(* One ImapBackend and its server: the verification startIo begins, the      *)
(* poll timer, the sync workers and their in-flight flag, and what stopping, *)
(* rotating, resetting and removing do to work that is under way.            *)
(*                                                                          *)
(* Slots run on the UI thread and are one action each.  Workers run on pool  *)
(* threads and report by a posted call, which the event loop delivers in     *)
(* order.  shutdown and the destructor block the UI thread until no worker   *)
(* is left, so a slot that calls them goes on when that has happened.        *)
(*                                                                          *)
(* The store is what the account shows: per folder, the messages with a copy  *)
(* that can be read, or that is under a former key (module EmailStore has    *)
(* its inside).  A server never brings a deleted message back.  Left out: the reads (fetchConversations and the  *)
(* like), which change nothing here, the conversations table, credentials.   *)
(***************************************************************************)
EXTENDS Naturals, Sequences, SequencesExt

CONSTANTS
  Folders, Msgs,
  MaxRotations,   \* bound: rotations of the vault
  MaxResets       \* bound: resetApp calls

ASSUME ImapAssumption == MaxRotations \in Nat /\ MaxResets \in Nat

VARIABLES
  mailbox,       \* server: folder -> message -> "new", "here" or "gone"
  net,           \* is the server reachable?
  stored,        \* folder -> readable messages of the local store
  stale,         \* folder -> messages whose copy is under a former key
  role,          \* "attempt" until its credentials are proven, "account", "removed"
  keyed,         \* m_key is set
  timer,         \* m_pollTimer is active
  shuttingDown,  \* m_shuttingDown
  syncInFlight,  \* m_syncInFlight
  verifying,     \* workers startIo has started
  syncs,         \* workers syncNow has started
  posted,        \* calls posted to the UI thread
  ui,            \* what the UI thread waits for the workers in, or "free"
  rotations, resets   \* how often so far

server == <<mailbox, net>>
store == <<stored, stale>>
counters == <<rotations, resets>>
vars == <<mailbox, net, stored, stale, role, keyed, timer, shuttingDown, syncInFlight,
          verifying, syncs, posted, ui, rotations, resets>>

Nothing == [f \in Folders |-> {}]
Old == UNION {stale[f] : f \in Folders}

Here(f) == {m \in Msgs : mailbox[f][m] = "here"}

Queued == [phase |-> "queued", todo |-> {}, folder |-> {}, left |-> {},
           got |-> {}, complete |-> TRUE]

\* A backend just added has been started without a key; one loaded at the
\* unlock has been given the key first.
Init ==
  /\ mailbox = [f \in Folders |-> [m \in Msgs |-> "new"]] /\ net = TRUE
  /\ stored = Nothing /\ stale = Nothing
  /\ keyed \in BOOLEAN /\ role = IF keyed THEN "account" ELSE "attempt"
  /\ timer = FALSE /\ shuttingDown = FALSE /\ syncInFlight = FALSE
  /\ verifying = 1 /\ syncs = <<>> /\ posted = <<>>
  /\ ui = "free" /\ rotations = 0 /\ resets = 0

-----------------------------------------------------------------------------
(* The UI thread.                                                            *)

\* syncNow refuses while a sync is in flight or without the key; it does not
\* ask whether the backend is shutting down.
MaySyncTwice == keyed
MaySync == ~syncInFlight /\ keyed

syncNow ==
  IF MaySync THEN syncInFlight' = TRUE /\ syncs' = Append(syncs, Queued)
             ELSE UNCHANGED <<syncInFlight, syncs>>

\* The user activates the account, or the poll timer fires.
SelectAccount ==
  /\ ui = "free" /\ role = "account"
  /\ syncNow
  /\ UNCHANGED <<server, store, role, keyed, timer, shuttingDown, verifying, posted,
                 ui, counters>>

PollFires ==
  /\ ui = "free" /\ timer
  /\ syncNow
  /\ UNCHANGED <<server, store, role, keyed, timer, shuttingDown, verifying, posted,
                 ui, counters>>

\* The posted completions: of startIo's verification, which proves or ends an
\* attempt, and of a sync.
Started ==
  /\ Head(posted) = "started"
  /\ timer' = TRUE
  /\ syncNow
  /\ role' = IF role = "attempt" THEN "account" ELSE role
  /\ posted' = Tail(posted)
  /\ UNCHANGED <<shuttingDown, ui>>

Refused ==
  /\ Head(posted) = "refused"
  /\ IF role = "attempt"
     THEN role' = "removed" /\ posted' = Append(Tail(posted), "delete")
     ELSE posted' = Tail(posted) /\ UNCHANGED role
  /\ UNCHANGED <<timer, syncInFlight, syncs, shuttingDown, ui>>

Synced ==
  /\ Head(posted) = "synced"
  /\ syncInFlight' = FALSE
  /\ posted' = Tail(posted)
  /\ UNCHANGED <<timer, syncs, shuttingDown, ui, role>>

\* The deferred deletion: the destructor shuts down once more.
Deleted ==
  /\ Head(posted) = "delete"
  /\ timer' = FALSE /\ shuttingDown' = TRUE /\ ui' = "deleting"
  /\ posted' = Tail(posted)
  /\ UNCHANGED <<syncInFlight, syncs, role>>

Deliver ==
  /\ ui = "free" /\ posted # <<>>
  /\ Started \/ Refused \/ Synced \/ Deleted
  /\ UNCHANGED <<server, store, keyed, verifying, counters>>

\* The timer of an attempt: it is discarded.
TimedOut ==
  /\ ui = "free" /\ role = "attempt"
  /\ role' = "removed" /\ posted' = Append(posted, "delete")
  /\ UNCHANGED <<server, store, keyed, timer, shuttingDown, syncInFlight,
                 verifying, syncs, ui, counters>>

\* rotateVault stops the timer first.  If the vault refuses, that is all;
\* otherwise the store is wiped, then the new key handed over and IO started.
\* What a worker stores in between is under the former key.
RotationRefused ==
  /\ ui = "free" /\ role = "account"
  /\ timer' = FALSE
  /\ UNCHANGED <<server, store, role, keyed, shuttingDown, syncInFlight, verifying,
                 syncs, posted, ui, counters>>

rotateVault ==
  /\ ui = "free" /\ role = "account"
  /\ rotations < MaxRotations /\ rotations' = rotations + 1
  /\ timer' = FALSE /\ ui' = "rotating"
  /\ stored' = Nothing /\ stale' = Nothing
  /\ UNCHANGED <<server, role, keyed, shuttingDown, syncInFlight, verifying, syncs,
                 posted, resets>>

setMasterKey ==
  /\ ui = "rotating" /\ ui' = "free"
  /\ keyed' = TRUE /\ verifying' = verifying + 1
  /\ stale' = [f \in Folders |-> stale[f] \cup stored[f]]
  /\ stored' = Nothing
  /\ UNCHANGED <<server, role, timer, shuttingDown, syncInFlight, syncs, posted,
                 counters>>

\* shutdown, up to the wait for the workers.
shutdown(why) ==
  /\ ui = "free" /\ role = "account"
  /\ shuttingDown' = TRUE /\ timer' = FALSE /\ ui' = why
  /\ UNCHANGED <<server, store, keyed, syncInFlight, verifying, syncs, posted,
                 rotations>>

resetApp ==
  /\ resets < MaxResets /\ resets' = resets + 1
  /\ shutdown("resetting") /\ UNCHANGED role
removeAccount == shutdown("removing") /\ role' = "removed" /\ UNCHANGED resets

\* The rest of the slot, when no worker is left: initialize re-arms the
\* backend; purgeLocalData removes the store, and the deletion is posted.
WaitedNot == ui \in {"resetting", "removing", "deleting"}
Waited ==
  /\ ui \in {"resetting", "removing", "deleting"}
  /\ verifying = 0 /\ syncs = <<>>

initialize ==
  /\ Waited /\ ui = "resetting"
  /\ shuttingDown' = FALSE /\ syncInFlight' = FALSE /\ ui' = "free"
  /\ UNCHANGED <<server, store, role, keyed, timer, verifying, syncs, posted, counters>>

purgeLocalData ==
  /\ Waited /\ ui = "removing"
  /\ stored' = Nothing /\ stale' = Nothing
  /\ posted' = Append(posted, "delete") /\ ui' = "free"
  /\ UNCHANGED <<server, role, keyed, timer, shuttingDown, syncInFlight, verifying,
                 syncs, counters>>

Destroyed ==
  /\ Waited /\ ui = "deleting"
  /\ ui' = "destroyed" /\ posted' = <<>>
  /\ UNCHANGED <<server, store, role, keyed, timer, shuttingDown, syncInFlight,
                 verifying, syncs, counters>>

-----------------------------------------------------------------------------
(* The workers.                                                              *)

\* The verification lists the folders, unless it finds the backend shutting
\* down when its thread starts.
Verified ==
  /\ verifying > 0
  /\ verifying' = verifying - 1
  /\ posted' = Append(posted, IF net THEN "started" ELSE "refused")
  /\ UNCHANGED <<server, store, role, keyed, timer, shuttingDown, syncInFlight,
                 syncs, ui, counters>>

VerificationDropped ==
  /\ verifying > 0 /\ shuttingDown
  /\ verifying' = verifying - 1
  /\ UNCHANGED <<server, store, role, keyed, timer, shuttingDown, syncInFlight,
                 syncs, posted, ui, counters>>

WorkerStep == UNCHANGED <<server, role, keyed, timer, shuttingDown, syncInFlight,
                          verifying, ui, counters>>

\* A worker that starts during a shutdown ends without reporting.
Begin(i) ==
  /\ syncs[i].phase = "queued"
  /\ syncs' = IF shuttingDown THEN RemoveAt(syncs, i)
                              ELSE [syncs EXCEPT ![i].phase = "list"]
  /\ UNCHANGED <<store, posted>> /\ WorkerStep

Report(i) == syncs' = RemoveAt(syncs, i) /\ posted' = Append(posted, "synced")

listFolders(i) ==
  /\ syncs[i].phase = "list"
  /\ IF net
     THEN /\ syncs' = [syncs EXCEPT ![i].phase = "folder", ![i].todo = Folders]
          /\ UNCHANGED posted
     ELSE Report(i)
  /\ UNCHANGED store /\ WorkerStep

\* The next folder: its search fails and the folder is skipped, or it gives
\* the messages to fetch.
Searched(s, f) ==
  IF net THEN [s EXCEPT !.phase = "fetch", !.todo = @ \ {f}, !.folder = {f},
                        !.left = Here(f), !.got = {}, !.complete = TRUE]
         ELSE [s EXCEPT !.todo = @ \ {f}]

uidSearchAll(i, f) ==
  /\ syncs[i].phase = "folder" /\ f \in syncs[i].todo /\ ~shuttingDown
  /\ syncs' = [syncs EXCEPT ![i] = Searched(@, f)]
  /\ UNCHANGED <<store, posted>> /\ WorkerStep

\* A message that cannot be fetched is skipped; the listing is then not one to
\* reconcile against.  A shutdown ends the folder.
FetchedOrSkipped(s, m) ==
  IF shuttingDown THEN [s EXCEPT !.left = {}, !.complete = FALSE]
  ELSE IF net /\ \E f \in s.folder : m \in Here(f)
       THEN [s EXCEPT !.left = @ \ {m}, !.got = @ \cup {m}]
       ELSE [s EXCEPT !.left = @ \ {m}]
Fetched(s, m) ==
  IF shuttingDown THEN [s EXCEPT !.left = {}, !.complete = FALSE]
  ELSE IF net /\ \E f \in s.folder : m \in Here(f)
       THEN [s EXCEPT !.left = @ \ {m}, !.got = @ \cup {m}]
       ELSE [s EXCEPT !.left = @ \ {m}, !.complete = FALSE]

fetchMessage(i, m) ==
  /\ syncs[i].phase = "fetch" /\ m \in syncs[i].left
  /\ syncs' = [syncs EXCEPT ![i] = Fetched(@, m)]
  /\ UNCHANGED <<store, posted>> /\ WorkerStep

\* writeFolderSync: what was fetched is stored; a complete listing also takes
\* out what it does not name.  A copy that is there is not written again, even
\* if it is under a former key.
WrittenAdds(s, old) == old \cup s.got
Written(s, old) == IF s.complete THEN s.got ELSE old \cup s.got

writeFolderSync(i) ==
  /\ syncs[i].phase = "fetch" /\ syncs[i].left = {}
  /\ stored' = [f \in Folders |-> IF f \in syncs[i].folder
                                  THEN Written(syncs[i], stored[f]) \ Old ELSE stored[f]]
  /\ stale' = [f \in Folders |-> IF f \in syncs[i].folder
                                 THEN Written(syncs[i], stale[f]) \cap Old ELSE stale[f]]
  /\ syncs' = [syncs EXCEPT ![i] = [Queued EXCEPT !.phase = "folder", !.todo = syncs[i].todo]]
  /\ UNCHANGED posted /\ WorkerStep

\* All folders done, or a shutdown between two folders.
EndSync(i) ==
  /\ syncs[i].phase = "folder" /\ (syncs[i].todo = {} \/ shuttingDown)
  /\ Report(i)
  /\ UNCHANGED store /\ WorkerStep

\* Reading a message drops a copy the key does not open.
readShard(m) ==
  /\ m \in Old
  /\ stale' = [f \in Folders |-> stale[f] \ {m}]
  /\ UNCHANGED <<stored, syncs, posted>> /\ WorkerStep

-----------------------------------------------------------------------------
(* The server.                                                               *)

Elsewhere == UNCHANGED <<store, role, keyed, timer, shuttingDown, syncInFlight,
                         verifying, syncs, posted, ui, counters>>

MailArrives(f, m) ==
  /\ mailbox[f][m] = "new" /\ mailbox' = [mailbox EXCEPT ![f][m] = "here"]
  /\ UNCHANGED net /\ Elsewhere

MailDeleted(f, m) ==
  /\ mailbox[f][m] = "here" /\ mailbox' = [mailbox EXCEPT ![f][m] = "gone"]
  /\ UNCHANGED net /\ Elsewhere

NetChanges == net' = ~net /\ UNCHANGED mailbox /\ Elsewhere

-----------------------------------------------------------------------------
SyncStep(i) ==
  \/ Begin(i) \/ listFolders(i) \/ writeFolderSync(i) \/ EndSync(i)
  \/ \E f \in Folders : uidSearchAll(i, f)
  \/ \E m \in Msgs : fetchMessage(i, m)

UiStep == setMasterKey \/ initialize \/ purgeLocalData \/ Destroyed

Next ==
  \/ SelectAccount \/ PollFires \/ Deliver \/ TimedOut
  \/ RotationRefused \/ rotateVault \/ resetApp \/ removeAccount \/ UiStep
  \/ Verified \/ VerificationDropped
  \/ \E i \in DOMAIN syncs : SyncStep(i)
  \/ \E m \in Msgs : readShard(m)
  \/ \E f \in Folders, m \in Msgs : MailArrives(f, m) \/ MailDeleted(f, m)
  \/ NetChanges

Spec == Init /\ [][Next]_vars

\* A backend holds at most one sync, and one more per reset; see OneSync.
MaxSyncs == 1 + MaxResets

\* Pool threads run (libcurl's timeouts end every call), the event loop
\* delivers, and the 60 s timer fires while it is active.
FairSpec ==
  /\ Spec
  /\ WF_vars(PollFires) /\ WF_vars(Deliver) /\ WF_vars(UiStep)
  /\ WF_vars(Verified \/ VerificationDropped)
  /\ \A i \in 1..MaxSyncs : WF_vars(i \in DOMAIN syncs /\ SyncStep(i))

-----------------------------------------------------------------------------
(* Properties.                                                              *)

\* m_syncInFlight keeps syncs apart: never two at a time, but for a reset, whose
\* stale completions may clear the flag of a sync started afterwards.
OneSync == Len(syncs) <= 1 + resets

\* Every variable keeps its type, and syncs are apart.
TypeOK ==
  /\ OneSync
  /\ \A f \in Folders : stored[f] \subseteq Msgs /\ stale[f] \subseteq Msgs
  /\ {keyed, timer, shuttingDown, syncInFlight, net} \subseteq BOOLEAN
  /\ role \in {"attempt", "account", "removed"}
  /\ verifying \in 0..1 + MaxRotations
  /\ \A i \in DOMAIN syncs :
       /\ syncs[i].todo \subseteq Folders /\ syncs[i].folder \subseteq Folders
       /\ syncs[i].left \subseteq Msgs /\ syncs[i].got \subseteq Msgs
  /\ ToSet(posted) \subseteq {"started", "refused", "synced", "delete"}
  /\ ui \in {"free", "rotating", "resetting", "removing", "deleting", "destroyed"}

\* No sync drops a message the server still has: not when a fetch fails, when a
\* shutdown cuts a folder short, when mail arrives or goes while it lists, or
\* when a rotation has wiped the store under it ("Reconcile ONLY on a complete,
\* error-free listing").  Overlapping syncs could, so resets are excepted.
KeepsServerMail ==
  [][ resets = 0 /\ syncs' # syncs =>
        \A f \in Folders : (stored[f] \ stored'[f]) \cap Here(f) = {} ]_vars

\* Removal means removal: once the purge has run, nothing is stored again,
\* although completions still queued start the timer and even new syncs.
PurgedStaysPurged ==
  role = "removed" /\ ui # "removing"
  => \A f \in Folders : stored[f] = {} /\ stale[f] = {}

\* The account catches up: with the timer running, the server reachable and a
\* folder at rest, the store ends up with exactly the folder's messages.  They
\* can be read, except where a rotation came between the fetch and the write: such
\* a copy stays until somebody opens the message, and is replaced after that.
CatchesUp ==
  \A f \in Folders, S \in SUBSET Msgs :
    <>[](timer /\ keyed /\ net /\ Here(f) = S)
    => <>[](stored[f] \cup stale[f] = S /\ stored[f] \cap Old = {})
=============================================================================
