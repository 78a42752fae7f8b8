----------------------------- MODULE EmailStore -----------------------------
(***************************************************************************)
(* The encrypted mail store of one account: EmailStore (the facade and its *)
(* mutex), MessageStore (one encrypted file, a shard, per message) and     *)
(* MetadataIndex (index.db: message rows and their folder or label         *)
(* memberships), with the backend's and the controller's part in rotating  *)
(* the key.                                                                *)
(*                                                                         *)
(* Workers call the store from pool threads; each call holds the mutex to  *)
(* its end, and its file operations and SQLite transactions are the steps  *)
(* of `job'.  The removal of the account's directory on rotation takes no  *)
(* mutex and can fall between any two of them; so can the end of the       *)
(* process.  An index handle whose file has been unlinked goes on working  *)
(* on the unlinked file.  Any statement of SQLite may fail; the store logs *)
(* it, or not even that, and goes on.                                      *)
(*                                                                         *)
(* Left out: the conversations table (written by upsertConversation, read  *)
(* by conversations), FTS and attachment rows (they follow their message   *)
(* row in the same transactions), and what the shards say.                 *)
(***************************************************************************)
EXTENDS Naturals

CONSTANTS Msg,     \* messages, by Message-ID: a shard's path is a hash of it
          Label,   \* IMAP folders or Proton labels
          Key,     \* data keys
          NoKey,   \* m_key while locked
          NoIndex, \* no index.db
          NoJob,   \* the mutex is free
          Kinds,   \* the kinds of backend that may own the store
          FaultSets \* what the environments of this instance may do; see below

\* "crash": the process may end outside a rotation; "rotate": the vault may be
\* rotated; "rotateCrash": the process may end during a rotation; "race":
\* workers go on during a rotation (stopIo stops the poll timer, no worker);
\* "sqlite": statements and the opening of index.db may fail.
ASSUME StoreAssumption ==
    /\ Kinds \subseteq {"imap", "proton"}
    /\ FaultSets \subseteq SUBSET {"crash", "rotate", "rotateCrash", "race", "sqlite"}
    /\ NoKey \notin Key \cup {"none", "short", "bad"}
    /\ {"none", "short", "bad"} \cap Key = {}

VARIABLES
    kind,     \* the backend that owns the store, the same for ever
    faults,   \* what this behaviour's environment may do, the same for ever
    vault,    \* the vault's data key
    master,   \* the backend's m_key
    key,      \* the store's m_key
    shard,    \* per message: no file, a file too short to be a box, a box that
              \* opens under no key, or the key it opens under
    indexDb,  \* index.db on disk
    handle,   \* m_index: none, the file on disk, or an unlinked file
    unlinked, \* what an unlinked index file holds
    job,      \* the call that holds the mutex
    readers,  \* reads that have looked up a path and not yet opened it
    rot,      \* how far a rotation has come for this account
    refused   \* history: messages whose row or membership SQLite did not take
              \* when it was last asked to

vars == <<kind, faults, vault, master, key, shard, indexDb, handle, unlinked, job, readers, rot, refused>>

Index == [key : Key, rows : SUBSET Msg, labels : [Msg -> SUBSET Label]]

Job == [op : {"sync", "store", "reconcile"}, label : Label, msgs : SUBSET Msg,
        complete : BOOLEAN, todo : SUBSET Msg, at : SUBSET Msg,
        step : {"put", "write", "rewrite", "insert", "reconcile", "remove"}]

ASSUME NothingAssumption == NoIndex \notin Index /\ NoJob \notin Job

TypeOK ==
    /\ kind \in Kinds /\ faults \in FaultSets
    /\ vault \in Key
    /\ master \in Key \cup {NoKey}
    /\ key \in Key \cup {NoKey}
    /\ shard \in [Msg -> Key \cup {"none", "short", "bad"}]
    /\ indexDb \in Index \cup {NoIndex}
    /\ handle \in {"none", "disk", "gone"}
    /\ unlinked \in Index \cup {NoIndex}
    /\ job \in Job \cup {NoJob}
    /\ readers \subseteq Msg
    /\ rot \in {"none", "wipe", "cleared", "removed", "wiped"}
    /\ refused \subseteq Msg

Init ==
    /\ kind \in Kinds /\ faults \in FaultSets
    /\ vault \in Key /\ master = NoKey /\ key = NoKey
    /\ shard = [m \in Msg |-> "none"]
    /\ indexDb = NoIndex /\ handle = "none" /\ unlinked = NoIndex
    /\ job = NoJob /\ readers = {} /\ rot = "none" /\ refused = {}

-----------------------------------------------------------------------------
(* The mutex, the lazily opened index, and who may call *)

Free == job = NoJob

\* A worker runs: always, or only outside rotations if those are quiet.
WorkerMayCall == Free /\ (rot = "none" \/ "race" \in faults)

EmptyIndex(k) == [key |-> k, rows |-> {}, labels |-> [m \in Msg |-> {}]]

\* index.db can be opened or created: there is a key, and it is the file's.
CanOpen ==
    handle = "none" =>
        /\ key # NoKey
        /\ indexDb # NoIndex => indexDb.key = key

\* index(): an open handle is used as it is; otherwise index.db is opened, which
\* can fail for other reasons, too.
IndexGiven(ok) ==
    IF ok THEN CanOpen ELSE ~CanOpen \/ (handle = "none" /\ "sqlite" \in faults)

Opened ==
    CASE handle = "disk" -> indexDb
      [] handle = "gone" -> unlinked
      [] OTHER -> IF indexDb = NoIndex THEN EmptyIndex(key) ELSE indexDb

\* The transaction leaves the open index with content idx.
Commit(idx) ==
    IF handle = "gone"
    THEN unlinked' = idx /\ UNCHANGED <<indexDb, handle>>
    ELSE indexDb' = idx /\ handle' = "disk" /\ UNCHANGED unlinked

\* open() fails, at once or after it has created the file.
OpenFails ==
    /\ indexDb' = indexDb \/ (CanOpen /\ indexDb' = Opened)
    /\ UNCHANGED <<handle, unlinked>>

\* index() in a call that reads.
OpenOnly(ok) ==
    /\ IndexGiven(ok)
    /\ IF ok THEN Commit(Opened) ELSE OpenFails

-----------------------------------------------------------------------------
(* Calls that take the mutex and write *)

StartJob(op, l, msgs, complete, todo, step) ==
    /\ WorkerMayCall
    /\ job' = [op |-> op, label |-> l, msgs |-> msgs, complete |-> complete,
               todo |-> todo, at |-> {}, step |-> step]
    /\ UNCHANGED <<vault, master, key, shard, indexDb, handle, unlinked, readers, rot, refused>>

\* The sync worker hands over one folder: the messages it fetched, and whether
\* the listing was complete and every fetch succeeded.
writeFolderSync(l, fetched, complete) ==
    /\ kind = "imap" /\ key # NoKey
    /\ StartJob("sync", l, fetched, complete, fetched, "put")

\* One decrypted message is persisted under the label it was fetched for.
storeMessage(l, m) ==
    /\ kind = "proton" /\ key # NoKey
    /\ StartJob("store", l, {m}, FALSE, {m}, "put")

\* A complete listing of a label, without content.
reconcileConversation(l, present) ==
    /\ kind = "proton"
    /\ StartJob("reconcile", l, present, TRUE, {}, "reconcile")

\* MessageStore::put: an existing file is kept as it is, whatever it holds.
PutKept(m) ==
    /\ ~Free /\ job.step = "put" /\ m \in job.todo
    /\ shard[m] # "none"
    /\ job' = [job EXCEPT !.todo = @ \ {m}]
    /\ UNCHANGED <<vault, master, key, shard, indexDb, handle, unlinked, readers, rot, refused>>

PutOpen(m) ==
    /\ ~Free /\ job.step = "put" /\ m \in job.todo
    /\ shard[m] = "none"
    /\ shard' = [shard EXCEPT ![m] = "short"]
    /\ job' = [job EXCEPT !.todo = @ \ {m}, !.at = {m}, !.step = "write"]
    /\ UNCHANGED <<vault, master, key, indexDb, handle, unlinked, readers, rot, refused>>

\* The box is written, or some of it: put does not look at what write returns.
\* A file unlinked since it was opened stays unlinked.
PutWrite(m, result) ==
    /\ ~Free /\ job.step \in {"write", "rewrite"} /\ job.at = {m}
    /\ result \in {key, "short", "bad"}
    /\ shard' = [shard EXCEPT ![m] = IF @ = "none" THEN @ ELSE result]
    /\ job' = [job EXCEPT !.at = {},
                          !.step = IF @ = "write" THEN "put" ELSE "insert"]
    /\ UNCHANGED <<vault, master, key, indexDb, handle, unlinked, readers, rot, refused>>

\* storeMessage looks for a plain-only shard that the same message, now with
\* an html part, should replace: opening it for writing cuts it to nothing.
\* Reading it drops a box that does not open.
ProbeUpgrade(m, upgrade, ok) ==
    /\ ~Free /\ job.op = "store" /\ job.step = "put" /\ job.todo = {}
    /\ job.msgs = {m}
    /\ OpenOnly(ok)
    /\ LET known   == ok /\ m \in Opened.rows
           rewrite == upgrade /\ known /\ shard[m] = key
           drop    == upgrade /\ known /\ shard[m] \notin {key, "none", "short"}
       IN  /\ shard' = [shard EXCEPT ![m] = CASE rewrite -> "short"
                                              [] drop    -> "none"
                                              [] OTHER   -> @]
           /\ job' = [job EXCEPT !.at   = IF rewrite THEN {m} ELSE {},
                                 !.step = IF rewrite THEN "rewrite" ELSE "insert"]
    /\ UNCHANGED <<vault, master, key, readers, rot, refused>>

Release == job' = NoJob

\* Mutant: the batch's memberships replace those of all other messages.
InsertedOverAll(idx, l, known, held) ==
    [idx EXCEPT !.rows = @ \cup known,
                !.labels = [m \in held |-> @[m] \cup {l}]]

\* insertMessages: one transaction; a known message gains the label only.
Inserted(idx, l, known, held) ==
    [idx EXCEPT !.rows = @ \cup known,
                !.labels = [m \in Msg |-> IF m \in held THEN @[m] \cup {l} ELSE @[m]]]

\* Mutant: a partial listing is reconciled like a complete one.
InsertAlwaysReconciles ==
    /\ ~Free
    /\ \/ job.step = "insert"
       \/ job.step = "put" /\ job.todo = {} /\ job.op = "sync"
    /\ IF CanOpen
       THEN Commit(Inserted(Opened, job.label, job.msgs, job.msgs))
            /\ job' = [job EXCEPT !.step = "reconcile"]
       ELSE UNCHANGED <<indexDb, handle, unlinked>> /\ Release
    /\ UNCHANGED <<vault, master, key, shard, readers, rot, refused>>

\* known: the messages that have a row when the statements have run; held: those
\* that have the membership, too.  A message whose row is refused is passed over;
\* a failed commit is taken to roll everything back.
Insert ==
    /\ ~Free
    /\ \/ job.step = "insert"
       \/ job.step = "put" /\ job.todo = {} /\ job.op = "sync"
    /\ \E ok \in BOOLEAN : \E known \in SUBSET job.msgs : \E held \in SUBSET known :
          /\ IndexGiven(ok)
          /\ "sqlite" \notin faults => held = job.msgs
          /\ IF ok
             THEN /\ Commit(Inserted(Opened, job.label, known, held))
                  /\ refused' = (refused \cup job.msgs) \ held
             ELSE /\ OpenFails
                  /\ refused' = IF CanOpen THEN refused \cup job.msgs ELSE refused
          /\ IF ok /\ job.complete
             THEN job' = [job EXCEPT !.step = "reconcile"]
             ELSE Release
    /\ UNCHANGED <<vault, master, key, shard, readers, rot>>

\* removeMissingFromConversation: one transaction.  Memberships in l of
\* messages not listed go; a message without memberships goes with them.
Stale(idx, l, present) == {m \in idx.rows : l \in idx.labels[m]} \ present

Unlabelled(idx, l, present) == {m \in Stale(idx, l, present) : idx.labels[m] = {l}}

Reconciled(idx, l, dropped, removed) ==
    [idx EXCEPT !.rows = @ \ removed,
                !.labels = [m \in Msg |-> IF m \in dropped THEN @[m] \ {l} ELSE @[m]]]

RemoveNext(gone) ==
    IF gone = {} THEN Release ELSE job' = [job EXCEPT !.step = "remove", !.todo = gone]

\* Mutant: the shards of all messages that left the label are deleted.
ReconcileDropsShared ==
    /\ ~Free /\ job.step = "reconcile"
    /\ LET stale == Stale(Opened, job.label, job.msgs)
       IN  IF CanOpen
           THEN /\ RemoveNext(stale)
                /\ Commit(Reconciled(Opened, job.label, stale,
                                     Unlabelled(Opened, job.label, job.msgs)))
           ELSE OpenFails /\ Release
    /\ UNCHANGED <<vault, master, key, shard, readers, rot, refused>>

\* Mutant: the rows go, and nobody deletes the shards.
ReconcileRowsOnly ==
    /\ ~Free /\ job.step = "reconcile"
    /\ Release
    /\ IF CanOpen
       THEN Commit(Reconciled(Opened, job.label, Stale(Opened, job.label, job.msgs),
                              Unlabelled(Opened, job.label, job.msgs)))
       ELSE OpenFails
    /\ UNCHANGED <<vault, master, key, shard, readers, rot, refused>>

\* dropped: the memberships that go; gone: the messages whose shards are to go,
\* those left without a membership, also if the commit fails after all; removed:
\* the rows that go with them, all that SQLite does not refuse to delete.
Reconcile ==
    /\ ~Free /\ job.step = "reconcile"
    /\ \/ /\ IndexGiven(TRUE)
          /\ \E dropped \in SUBSET Stale(Opened, job.label, job.msgs) :
             \E gone \in SUBSET Unlabelled(Opened, job.label, job.msgs) :
             \E removed \in SUBSET (gone \cap dropped) :
                /\ gone \subseteq dropped \/ dropped = {}
                /\ "sqlite" \notin faults =>
                     /\ dropped = Stale(Opened, job.label, job.msgs)
                     /\ removed = Unlabelled(Opened, job.label, job.msgs)
                /\ Commit(Reconciled(Opened, job.label, dropped, removed))
                /\ RemoveNext(gone)
                /\ refused' = refused \cup
                     ((dropped \cap Unlabelled(Opened, job.label, job.msgs)) \ removed)
       \/ /\ IndexGiven(FALSE)
          /\ OpenFails /\ Release
          /\ UNCHANGED refused
    /\ UNCHANGED <<vault, master, key, shard, readers, rot>>

\* The shards of the removed messages are deleted after the commit.
RemoveShard(m) ==
    /\ ~Free /\ job.step = "remove" /\ m \in job.todo
    /\ shard' = [shard EXCEPT ![m] = "none"]
    /\ IF job.todo = {m} THEN Release ELSE job' = [job EXCEPT !.todo = @ \ {m}]
    /\ UNCHANGED <<vault, master, key, indexDb, handle, unlinked, readers, rot, refused>>

-----------------------------------------------------------------------------
(* Reads: the path and the shard are looked up under two locks *)

\* conversations, messages, filePathForMessage: the index is opened if need be.
Query ==
    /\ WorkerMayCall
    /\ \E ok \in BOOLEAN : OpenOnly(ok)
    /\ UNCHANGED <<vault, master, key, shard, job, readers, rot, refused>>

ReadPath(m) ==
    /\ WorkerMayCall
    /\ CanOpen /\ m \in Opened.rows
    /\ readers' = readers \cup {m}
    /\ OpenOnly(TRUE)
    /\ UNCHANGED <<vault, master, key, shard, job, rot, refused>>

\* MessageStore::get: a box that does not authenticate under the key is
\* deleted; a file too short to be one is left.
AfterGet(m) == IF shard[m] \in {key, "short"} \/ key = NoKey THEN shard[m] ELSE "none"

ReadShard(m) ==
    /\ WorkerMayCall /\ m \in readers
    /\ shard' = [shard EXCEPT ![m] = AfterGet(m)]
    /\ readers' = readers \ {m}
    /\ UNCHANGED <<vault, master, key, indexDb, handle, unlinked, job, rot, refused>>

-----------------------------------------------------------------------------
(* Key changes *)

\* setMasterKey after unlock.
Unlock ==
    /\ master = NoKey /\ Free
    /\ master' = vault /\ key' = vault
    /\ UNCHANGED <<vault, shard, indexDb, handle, unlinked, job, readers, rot, refused>>

\* rotateVault: the vault has its new key, and each encrypted backend is to be
\* wiped in turn.  Polling is stopped; workers that run are not waited for.
rotateVault(k) ==
    /\ "rotate" \in faults
    /\ rot = "none" /\ master # NoKey
    /\ "race" \notin faults => Free
    /\ vault' = k /\ rot' = "wipe"
    /\ UNCHANGED <<master, key, shard, indexDb, handle, unlinked, job, readers, refused>>

\* ProtonBackend::wipeLocalStore starts with clearKey, which waits for the
\* mutex and closes the index.
clearKey ==
    /\ kind = "proton" /\ rot = "wipe" /\ Free
    /\ key' = NoKey /\ handle' = "none" /\ unlinked' = NoIndex
    /\ rot' = "cleared"
    /\ UNCHANGED <<vault, master, shard, indexDb, job, readers, refused>>

\* Mutant: only the shards are removed, index.db stays.
removeShardsOnly ==
    /\ rot = IF kind = "imap" THEN "wipe" ELSE "cleared"
    /\ rot' = IF kind = "imap" THEN "wiped" ELSE "removed"
    /\ shard' = [m \in Msg |-> "none"]
    /\ UNCHANGED <<vault, master, key, indexDb, handle, unlinked, job, readers, refused>>

\* The account's directory is removed, without the mutex.
removeRecursively ==
    /\ rot = IF kind = "imap" THEN "wipe" ELSE "cleared"
    /\ rot' = IF kind = "imap" THEN "wiped" ELSE "removed"
    /\ shard' = [m \in Msg |-> "none"]
    /\ indexDb' = NoIndex
    /\ IF handle = "disk"
       THEN handle' = "gone" /\ unlinked' = indexDb
       ELSE UNCHANGED <<handle, unlinked>>
    /\ UNCHANGED <<vault, master, key, job, readers, refused>>

\* The end of ProtonBackend::wipeLocalStore: the store gets m_key back, which
\* is still the key from before the rotation.
restoreKey ==
    /\ rot = "removed" /\ Free
    /\ key' = master
    /\ rot' = "wiped"
    /\ UNCHANGED <<vault, master, shard, indexDb, handle, unlinked, job, readers, refused>>

\* setMasterKey with the vault's new key; an open index stays open.
setMasterKey ==
    /\ rot = "wiped" /\ Free
    /\ master' = vault /\ key' = vault
    /\ rot' = "none"
    /\ UNCHANGED <<vault, shard, indexDb, handle, unlinked, job, readers, refused>>

\* The process ends and is started again, locked.
Restart ==
    /\ IF rot = "none" THEN "crash" \in faults ELSE "rotateCrash" \in faults
    /\ master # NoKey
    /\ master' = NoKey /\ key' = NoKey
    /\ handle' = "none" /\ unlinked' = NoIndex
    /\ job' = NoJob /\ readers' = {} /\ rot' = "none"
    /\ UNCHANGED <<vault, shard, indexDb, refused>>

-----------------------------------------------------------------------------

Write ==
    \/ \E l \in Label, s \in SUBSET Msg, c \in BOOLEAN : writeFolderSync(l, s, c)
    \/ \E l \in Label, m \in Msg : storeMessage(l, m)
    \/ \E l \in Label, s \in SUBSET Msg : reconcileConversation(l, s)

JobStep ==
    \/ \E m \in Msg : PutKept(m) \/ PutOpen(m) \/ RemoveShard(m)
    \/ \E m \in Msg, r \in {key, "short", "bad"} : PutWrite(m, r)
    \/ \E m \in Msg, u, ok \in BOOLEAN : ProbeUpgrade(m, u, ok)
    \/ Insert \/ Reconcile

Read == Query \/ \E m \in Msg : ReadPath(m) \/ ReadShard(m)

Rotation ==
    \/ \E k \in Key : rotateVault(k)
    \/ clearKey \/ removeRecursively \/ restoreKey \/ setMasterKey

Next ==
    /\ Unlock \/ Write \/ JobStep \/ Read \/ Rotation \/ Restart
    /\ UNCHANGED <<kind, faults>>

Spec == Init /\ [][Next]_vars

-----------------------------------------------------------------------------
(* Properties *)

\* After every transaction a message has a row exactly if some folder or label
\* holds it: inserting adds both, reconciling one label takes the row only
\* with the last membership (insertMessages, removeMissingFromConversation).
\* Only a statement that SQLite refuses leaves a row that no label holds, and
\* never a membership without its row.
RowsAreLabelled ==
    \A idx \in {indexDb, unlinked} \ {NoIndex} :
        LET labelled == {m \in Msg : idx.labels[m] # {}}
        IN  labelled \subseteq idx.rows /\ idx.rows \ labelled \subseteq refused

\* A message leaves the index only through a complete listing of its last
\* label that does not name it: a partial sync, a failed fetch or a listing of
\* another label never loses mail (multi-label messages survive).
LosesNoMail ==
    [][\A m \in Msg :
         /\ indexDb # NoIndex /\ m \in indexDb.rows
         /\ indexDb' # NoIndex /\ m \notin indexDb'.rows
         => /\ job # NoJob /\ job.complete /\ m \notin job.msgs
            /\ indexDb.labels[m] = {job.label}]_vars

\* Readable content of a message the index knows stays as it is: reads drop only
\* boxes the key does not open, an ordinary put rewrites nothing, reconciling one
\* label leaves the shards of messages that another label holds.  It is given up
\* by the wipe of a rotation, and in place, when storeMessage begins to replace a
\* plain-only shard by the same message with its html part, which a crash or a full
\* disk can prevent; and, when SQLite keeps a row it was told to delete, with the
\* last membership in a complete listing that does not name the message.
KeepsReadableContent ==
    [][\A m \in Msg :
         /\ rot' = rot /\ handle = "disk"
         /\ m \in indexDb.rows /\ shard[m] = key /\ shard'[m] # key
         => \/ /\ job.op = "store" /\ job.msgs = {m}
               /\ job' # NoJob /\ job'.step = "rewrite"
            \/ /\ "sqlite" \in faults
               /\ job.step = "remove" /\ m \notin job.msgs]_vars

\* Between calls, every shard file belongs to a row of the index, also when
\* writes of shards fail, unless SQLite refused the row (storeMessage then warns of
\* a "shard orphaned", if it lacks the index, and says nothing of a failed
\* commit): no call leaves content behind that no later reconcile would find.
\* Crashes and busy rotations do leave some, and so does an IMAP store that goes
\* on with its unlinked index.
NoStrayShard ==
    /\ faults \subseteq {"sqlite"} \cup IF kind = "proton" THEN {"rotate"} ELSE {}
    /\ Free /\ rot = "none"
    => \A m \in Msg : shard[m] # "none" =>
         m \in refused \/ (indexDb # NoIndex /\ m \in indexDb.rows)

\* Together: files, rows and memberships speak of the same messages.
IndexMatchesShards == RowsAreLabelled /\ NoStrayShard

\* index.db is under the vault's key whenever the account is unlocked and no
\* rotation is under way: what the store writes opens after the next unlock.
\* This needs rotations that run to their end while the workers are quiet.
IndexFollowsVault ==
    /\ faults \subseteq {"crash", "rotate", "sqlite"}
    /\ rot = "none" /\ master # NoKey /\ indexDb # NoIndex
    => indexDb.key = vault

\* The open index is the file that the next start will open ("Drop the live
\* index connection BEFORE removing the files", ProtonBackend::wipeLocalStore).
IndexIsOnDisk == rot = "none" => handle # "gone"

=============================================================================
