-------------------------- MODULE EmailStoreProofs --------------------------
(***************************************************************************)
(* Proofs about EmailStore, for all sets of messages, labels and keys, both *)
(* kinds of backend, and any sets of faults.                                *)
(*                                                                         *)
(* What a call may leave half done is what it still has to do: the shards  *)
(* it has put and not yet indexed, or has taken from the index and not yet *)
(* removed (Busy, Strays).  Where rotations are quiet and run to their end, *)
(* nobody writes the index under a key other than the vault's (Keyed).      *)
(***************************************************************************)
EXTENDS EmailStore, TLAPS

\* An open handle has a file behind it, and there is only one index.
Types ==
  /\ TypeOK
  /\ handle = "disk" => indexDb \in Index
  /\ handle = "gone" => unlinked \in Index /\ indexDb = NoIndex
  /\ handle # "gone" => unlinked = NoIndex
  /\ refused # {} => "sqlite" \in faults

\* What the step of a running call says of the call and the store.
Busy ==
  ~Free =>
    /\ job.todo \cup job.at \subseteq job.msgs \/ job.step = "remove"
    /\ \A m \in job.at : shard[m] \in {"none", "short"}
    /\ job.step \in {"put", "write", "rewrite", "insert"} => key # NoKey
    /\ job.step \in {"reconcile", "remove"} => job.complete
    /\ job.step = "remove" =>
         /\ handle # "none"
         /\ job.todo \cap job.msgs = {}
         /\ "sqlite" \notin faults /\ handle = "disk" => job.todo \cap indexDb.rows = {}

\* Rotations that are quiet and run to their end.
Keyed ==
  faults \subseteq {"crash", "rotate", "sqlite"} =>
    /\ "rotate" \notin faults => rot = "none"
    /\ rot = "none" =>
         /\ key = master /\ master \in {vault, NoKey}
         /\ indexDb # NoIndex => indexDb.key = vault
    /\ rot # "none" => Free
    /\ rot \in {"removed", "wiped"} => indexDb = NoIndex

Tame == faults \subseteq {"sqlite"} \cup IF kind = "proton" THEN {"rotate"} ELSE {}

\* A shard without a row belongs to the running call, or SQLite refused the row.
Strays ==
  Tame =>
    /\ handle # "gone"
    /\ rot = "cleared" => handle = "none"
    /\ rot \in {"removed", "wiped"} =>
         /\ handle = "none"
         /\ \A m \in Msg : shard[m] = "none"
    /\ rot = "none" => \A m \in Msg : shard[m] # "none" =>
         \/ m \in refused
         \/ indexDb # NoIndex /\ m \in indexDb.rows
         \/ ~Free /\ job.step \in {"put", "write", "rewrite", "insert"} /\ m \in job.msgs
         \/ ~Free /\ job.step = "remove" /\ m \in job.todo

IInv == Types /\ RowsAreLabelled /\ Busy /\ Keyed /\ Strays

-----------------------------------------------------------------------------
(* The index. *)

\* Rows and memberships of idx match but for the refused messages `lost'.
Labelled(idx, lost) ==
  \A m \in Msg :
    /\ idx.labels[m] # {} => m \in idx.rows
    /\ m \in idx.rows => idx.labels[m] # {} \/ m \in lost

\* What RowsAreLabelled says of one index.
LEMMA OneIndex ==
  ASSUME NEW idx \in Index, NEW lost
  PROVE  Labelled(idx, lost) <=>
           LET labelled == {m \in Msg : idx.labels[m] # {}}
           IN  labelled \subseteq idx.rows /\ idx.rows \ labelled \subseteq lost
<1>1. idx.rows \subseteq Msg
  BY DEF Index
<1> QED
  BY <1>1 DEF Labelled

LEMMA BothIndexes ==
  ASSUME indexDb \in Index \cup {NoIndex}, unlinked \in Index \cup {NoIndex}
  PROVE  RowsAreLabelled <=>
           /\ indexDb # NoIndex => Labelled(indexDb, refused)
           /\ unlinked # NoIndex => Labelled(unlinked, refused)
<1>1. \A idx \in {indexDb, unlinked} \ {NoIndex} : idx \in Index
  OBVIOUS
<1> QED
  BY <1>1, OneIndex DEF RowsAreLabelled

LEMMA BothIndexesNext ==
  ASSUME indexDb' \in Index \cup {NoIndex}, unlinked' \in Index \cup {NoIndex}
  PROVE  RowsAreLabelled' <=>
           /\ indexDb' # NoIndex => Labelled(indexDb', refused')
           /\ unlinked' # NoIndex => Labelled(unlinked', refused')
<1>1. \A idx \in {indexDb', unlinked'} \ {NoIndex} : idx \in Index
  OBVIOUS
<1> QED
  BY <1>1, OneIndex DEF RowsAreLabelled

\* What index() opens is an index, and the memberships in it match its rows.
LEMMA Opening ==
  ASSUME Types, RowsAreLabelled, CanOpen
  PROVE  /\ Opened \in Index /\ Labelled(Opened, refused)
         /\ handle # "gone" => Opened.key = IF indexDb = NoIndex THEN key ELSE indexDb.key
         /\ handle # "gone" /\ indexDb # NoIndex => Opened = indexDb
<1>0. /\ indexDb \in Index \cup {NoIndex} /\ unlinked \in Index \cup {NoIndex}
      /\ indexDb # NoIndex => Labelled(indexDb, refused)
      /\ unlinked # NoIndex => Labelled(unlinked, refused)
  BY BothIndexes DEF Types, TypeOK
<1>1. CASE handle = "disk"
  BY <1>0, <1>1, NothingAssumption DEF Types, TypeOK, Opened
<1>2. CASE handle = "gone"
  BY <1>0, <1>2, NothingAssumption DEF Types, TypeOK, Opened
<1>3. CASE handle = "none" /\ indexDb = NoIndex
  <2>1. key \in Key
    BY <1>3 DEF Types, TypeOK, CanOpen
  <2>2. Opened = EmptyIndex(key)
    BY <1>3 DEF Opened
  <2> QED
    BY <1>3, <2>1, <2>2 DEF EmptyIndex, Index, Labelled
<1>4. CASE handle = "none" /\ indexDb # NoIndex
  BY <1>0, <1>4 DEF Types, TypeOK, Opened
<1> QED
  BY <1>1, <1>2, <1>3, <1>4 DEF Types, TypeOK

\* insertMessages adds rows, and memberships only to messages with rows.
LEMMA Inserting ==
  ASSUME NEW idx \in Index, Labelled(idx, refused), NEW l \in Label,
         NEW known \in SUBSET Msg, NEW held \in SUBSET known,
         \A m \in Msg : m \in (refused \cup known) \ held => m \in refused',
         NEW new, new = Inserted(idx, l, known, held)
  PROVE  /\ new \in Index /\ Labelled(new, refused')
         /\ new.key = idx.key /\ new.rows = idx.rows \cup known
<1>1. /\ new.key = idx.key /\ new.rows = idx.rows \cup known
      /\ new.labels = [m \in Msg |-> IF m \in held THEN idx.labels[m] \cup {l} ELSE idx.labels[m]]
      /\ new \in Index
  BY DEF Inserted, Index
<1>2. ASSUME NEW m \in Msg
      PROVE  /\ new.labels[m] # {} => m \in new.rows
             /\ m \in new.rows => new.labels[m] # {} \/ m \in refused'
  BY <1>1 DEF Labelled, Index
<1>3. Labelled(new, refused')
  BY <1>2 DEF Labelled
<1> QED
  BY <1>1, <1>3

\* What a reconcile may drop and remove, and what it must then own up to.
MayDrop(idx, l, msgs, dropped, removed) ==
  /\ dropped \subseteq Stale(idx, l, msgs)
  /\ removed \subseteq dropped \cap Unlabelled(idx, l, msgs)
  /\ refused \subseteq refused'
  /\ (dropped \cap Unlabelled(idx, l, msgs)) \ removed \subseteq refused'

\* removeMissingFromConversation takes a row with its last membership only; the
\* rows that it should have taken and did not are in `refused''.
LEMMA Reconciling ==
  ASSUME NEW idx \in Index, Labelled(idx, refused),
         NEW l \in Label, NEW msgs \in SUBSET Msg,
         NEW dropped, NEW removed, MayDrop(idx, l, msgs, dropped, removed),
         NEW new, new = Reconciled(idx, l, dropped, removed)
  PROVE  /\ new \in Index /\ Labelled(new, refused')
         /\ new.key = idx.key /\ new.rows = idx.rows \ removed
<1>1. /\ new.key = idx.key /\ new.rows = idx.rows \ removed
      /\ new.labels = [m \in Msg |-> IF m \in dropped THEN idx.labels[m] \ {l} ELSE idx.labels[m]]
      /\ new \in Index
  BY DEF Reconciled, Index, MayDrop
<1>2. ASSUME NEW m \in Msg
      PROVE  /\ new.labels[m] # {} => m \in new.rows
             /\ m \in new.rows => new.labels[m] # {} \/ m \in refused'
  <2>1. CASE m \in dropped
    <3>1. m \in Stale(idx, l, msgs) /\ m \in idx.rows /\ l \in idx.labels[m]
      BY <2>1 DEF Stale, MayDrop
    <3>2. new.labels[m] = idx.labels[m] \ {l}
      BY <1>1, <2>1
    <3>3. m \in Unlabelled(idx, l, msgs) <=> idx.labels[m] \ {l} = {}
      BY <3>1 DEF Unlabelled
    <3> QED
      BY <1>1, <2>1, <3>1, <3>2, <3>3 DEF MayDrop
  <2>2. CASE m \notin dropped
    BY <1>1, <2>2 DEF Labelled, MayDrop
  <2> QED
    BY <2>1, <2>2
<1>3. Labelled(new, refused')
  BY <1>2 DEF Labelled
<1> QED
  BY <1>1, <1>3

\* A transaction on the open index leaves index.db and an unlinked file typed
\* and consistent, and index.db under the key it had, or the store's.
LEMMA Committing ==
  ASSUME Types, RowsAreLabelled, CanOpen,
         NEW idx \in Index, Labelled(idx, refused'), idx.key = Opened.key, Commit(idx)
  PROVE  /\ indexDb' \in Index \cup {NoIndex} /\ unlinked' \in Index \cup {NoIndex}
         /\ handle' = IF handle = "gone" THEN "gone" ELSE "disk"
         /\ handle' = "disk" => indexDb' \in Index
         /\ handle' = "gone" => unlinked' \in Index /\ indexDb' = NoIndex
         /\ handle' # "gone" => unlinked' = NoIndex
         /\ RowsAreLabelled'
         /\ \A k : /\ handle # "none" \/ key = k
                   /\ indexDb # NoIndex => indexDb.key = k
                   /\ indexDb' # NoIndex
                   => indexDb'.key = k
<1>1. CASE handle = "gone"
  <2>1. /\ unlinked' = idx /\ indexDb' = NoIndex /\ handle' = "gone"
    BY <1>1 DEF Commit, Types
  <2>2. RowsAreLabelled'
    BY <2>1, BothIndexesNext
  <2> QED
    BY <1>1, <2>1, <2>2
<1>2. CASE handle # "gone"
  <2>1. /\ indexDb' = idx /\ unlinked' = NoIndex /\ handle' = "disk"
    BY <1>2 DEF Commit, Types
  <2>2. RowsAreLabelled'
    BY <2>1, BothIndexesNext
  <2>3. Opened.key = IF indexDb = NoIndex THEN key ELSE indexDb.key
    BY <1>2, Opening
  <2> QED
    BY <1>2, <2>1, <2>2, <2>3, NothingAssumption DEF Types, TypeOK
<1> QED
  BY <1>1, <1>2

\* An index that does not open loses no row.
LEMMA Failing ==
  ASSUME Types, RowsAreLabelled, IndexGiven(FALSE), OpenFails,
         \A m \in Msg : m \in refused => m \in refused'
  PROVE  /\ indexDb' \in Index \cup {NoIndex} /\ UNCHANGED <<unlinked, handle>>
         /\ handle' = "disk" => indexDb' \in Index
         /\ handle' = "gone" => unlinked' \in Index /\ indexDb' = NoIndex
         /\ handle' # "gone" => unlinked' = NoIndex
         /\ RowsAreLabelled'
         /\ indexDb # NoIndex => indexDb' = indexDb
         /\ \A k : /\ handle # "none" \/ key \in {k, NoKey}
                   /\ indexDb # NoIndex => indexDb.key = k
                   /\ indexDb' # NoIndex
                   => indexDb'.key = k
<1>1. UNCHANGED <<unlinked, handle>>
  BY DEF OpenFails
<1>2. /\ indexDb # NoIndex => Labelled(indexDb, refused)
      /\ unlinked # NoIndex => Labelled(unlinked, refused)
  BY BothIndexes DEF Types, TypeOK
<1>3. \A idx : Labelled(idx, refused) => Labelled(idx, refused')
  BY DEF Labelled
<1>4. CASE indexDb' = indexDb
  <2>1. RowsAreLabelled'
    BY <1>1, <1>2, <1>3, <1>4, BothIndexesNext DEF Types, TypeOK
  <2> QED
    BY <1>1, <1>4, <2>1 DEF Types, TypeOK
<1>5. CASE CanOpen /\ indexDb' = Opened
  <2>1. handle = "none"
    BY <1>5 DEF IndexGiven
  <2>2. /\ Opened \in Index /\ Labelled(Opened, refused)
        /\ Opened.key = IF indexDb = NoIndex THEN key ELSE indexDb.key
        /\ indexDb # NoIndex => Opened = indexDb
    BY <1>5, <2>1, Opening
  <2>3. RowsAreLabelled'
    BY <1>1, <1>2, <1>3, <1>5, <2>2, BothIndexesNext DEF Types, TypeOK
  <2>4. key # NoKey \/ indexDb # NoIndex
    BY <1>5, <2>1 DEF CanOpen
  <2> QED
    BY <1>1, <1>5, <2>1, <2>2, <2>3, <2>4 DEF Types, TypeOK
<1> QED
  BY <1>4, <1>5 DEF OpenFails

\* A call that opens the index to read loses no row.
LEMMA Looking ==
  ASSUME Types, RowsAreLabelled, NEW ok \in BOOLEAN, OpenOnly(ok), refused' = refused
  PROVE  /\ indexDb' \in Index \cup {NoIndex} /\ unlinked' \in Index \cup {NoIndex}
         /\ handle' = "gone" <=> handle = "gone"
         /\ handle' \in {"none", "disk", "gone"}
         /\ handle' = "disk" => indexDb' \in Index
         /\ handle' = "gone" => unlinked' \in Index /\ indexDb' = NoIndex
         /\ handle' # "gone" => unlinked' = NoIndex
         /\ RowsAreLabelled'
         /\ indexDb # NoIndex => indexDb' = indexDb
         /\ \A k : /\ handle # "none" \/ key \in {k, NoKey}
                   /\ indexDb # NoIndex => indexDb.key = k
                   /\ indexDb' # NoIndex
                   => indexDb'.key = k
<1>1. CASE ok
  <2>1. CanOpen /\ Commit(Opened)
    BY <1>1 DEF OpenOnly, IndexGiven
  <2>2. Opened \in Index /\ Labelled(Opened, refused')
    BY <2>1, Opening
  <2>3. indexDb # NoIndex => indexDb' = indexDb
    BY <2>1, Opening DEF Commit
  <2> QED
    BY <2>1, <2>2, <2>3, Committing DEF CanOpen
<1>2. CASE ~ok
  <2>1. IndexGiven(FALSE) /\ OpenFails
    BY <1>2 DEF OpenOnly, IndexGiven
  <2> QED
    BY <2>1, Failing DEF Types, TypeOK
<1> QED
  BY <1>1, <1>2

-----------------------------------------------------------------------------
(* The invariant, action by action. *)

\* A call begins.
LEMMA WriteStep ==
  ASSUME IInv, Write, UNCHANGED <<kind, faults>>
  PROVE  IInv'
<1> SUFFICES ASSUME NEW o \in {"sync", "store", "reconcile"}, NEW l \in Label,
                    NEW msgs \in SUBSET Msg, NEW c \in BOOLEAN, NEW todo \in SUBSET msgs,
                    NEW st \in {"put", "reconcile"},
                    StartJob(o, l, msgs, c, todo, st),
                    st = "put" => key # NoKey, st = "reconcile" => c
             PROVE  IInv'
  <2>1. ASSUME NEW l \in Label, NEW s \in SUBSET Msg, NEW c \in BOOLEAN, writeFolderSync(l, s, c)
        PROVE  IInv'
    BY <2>1 DEF writeFolderSync
  <2>2. ASSUME NEW l \in Label, NEW m \in Msg, storeMessage(l, m)
        PROVE  IInv'
    BY <2>2 DEF storeMessage
  <2>3. ASSUME NEW l \in Label, NEW s \in SUBSET Msg, reconcileConversation(l, s)
        PROVE  IInv'
    BY <2>3 DEF reconcileConversation
  <2> QED
    BY <2>1, <2>2, <2>3 DEF Write
<1> USE DEF IInv, StartJob
<1>1. job' \in Job /\ job' = [op |-> o, label |-> l, msgs |-> msgs, complete |-> c,
                            todo |-> todo, at |-> {}, step |-> st]
  BY DEF Job
<1>2. Types'
  BY <1>1 DEF Types, TypeOK
<1>3. RowsAreLabelled'
  BY DEF RowsAreLabelled
<1>4. Busy'
  BY <1>1 DEF Busy, Free
<1>5. Keyed'
  BY DEF Keyed, WorkerMayCall
<1>6. Strays'
  BY <1>1 DEF Strays, Tame, WorkerMayCall, Free
<1> QED
  BY <1>2, <1>3, <1>4, <1>5, <1>6

\* A call puts or removes one shard.
LEMMA ShardStep ==
  ASSUME IInv, UNCHANGED <<kind, faults>>, NEW m \in Msg,
         \/ PutKept(m) \/ PutOpen(m) \/ RemoveShard(m)
         \/ \E r \in {key, "short", "bad"} : PutWrite(m, r)
  PROVE  IInv'
<1> USE DEF IInv
<1>1. ~Free /\ job \in Job /\ UNCHANGED <<vault, master, key, indexDb, handle, unlinked, readers, rot, refused>>
  BY DEF PutKept, PutOpen, RemoveShard, PutWrite, Types, TypeOK, Free
<1>2. /\ shard' \in [Msg -> Key \cup {"none", "short", "bad"}]
      /\ \A n \in Msg : n # m => shard'[n] = shard[n]
  <2>1. ASSUME NEW r \in {key, "short", "bad"}, PutWrite(m, r)
        PROVE  shard' \in [Msg -> Key \cup {"none", "short", "bad"}]
    BY <2>1 DEF PutWrite, Types, TypeOK, Busy
  <2>2. /\ PutKept(m) => shard' = shard
        /\ PutOpen(m) => shard' = [shard EXCEPT ![m] = "short"]
        /\ RemoveShard(m) => shard' = [shard EXCEPT ![m] = "none"]
    BY DEF PutKept, PutOpen, RemoveShard
  <2>3. \A n \in Msg : n # m => shard'[n] = shard[n]
    BY <2>2 DEF PutWrite, Types, TypeOK
  <2> QED
    BY <2>1, <2>2, <2>3 DEF Types, TypeOK
<1>3. CASE job' # NoJob
  <2>1. /\ job' \in Job /\ job'.msgs = job.msgs /\ job'.complete = job.complete
        /\ job'.todo \subseteq job.todo
        /\ job.step # "remove" => job'.at \subseteq job.at \cup job.todo
        /\ job'.step \in {"put", "write", "rewrite", "insert"} <=>
             job.step \in {"put", "write", "rewrite", "insert"}
        /\ job'.step = "remove" <=> job.step = "remove"
        /\ job'.step = "reconcile" <=> job.step = "reconcile"
        /\ job.step = "remove" => shard'[m] = "none" /\ job'.todo = job.todo \ {m}
        /\ job.step # "remove" => m \in job.todo \cup job.at
        /\ job.step # "remove" => job.step \in {"put", "write", "rewrite", "insert"}
    <3>1. CASE PutKept(m)
      BY <1>1, <3>1 DEF PutKept, Job
    <3>2. CASE PutOpen(m)
      BY <1>1, <3>2 DEF PutOpen, Job
    <3>3. CASE RemoveShard(m)
      BY <1>1, <1>3, <3>3 DEF RemoveShard, Job, Release, Types, TypeOK
    <3>4. CASE \E r \in {key, "short", "bad"} : PutWrite(m, r)
      BY <1>1, <3>4 DEF PutWrite, Job
    <3> QED
      BY <3>1, <3>2, <3>3, <3>4
  <2>2. Types'
    BY <1>1, <1>2, <2>1 DEF Types, TypeOK
  <2>3. RowsAreLabelled'
    BY <1>1 DEF RowsAreLabelled
  <2>1a. \A n \in job'.at : shard'[n] \in {"none", "short"}
    <3>1. \A n \in job.at : shard[n] \in {"none", "short"}
      BY <1>1 DEF Busy
    <3>2. CASE PutKept(m)
      BY <1>1, <3>1, <3>2 DEF PutKept, Job
    <3>3. CASE PutOpen(m)
      BY <1>1, <3>3 DEF PutOpen, Job, Types, TypeOK
    <3>4. CASE RemoveShard(m)
      BY <1>1, <1>3, <3>1, <3>4 DEF RemoveShard, Job, Release, Types, TypeOK
    <3>5. CASE \E r \in {key, "short", "bad"} : PutWrite(m, r)
      BY <1>1, <3>5 DEF PutWrite, Job
    <3> QED
      BY <3>2, <3>3, <3>4, <3>5
  <2>4. Busy'
    BY <1>1, <1>3, <2>1, <2>1a DEF Busy, Free
  <2>5. Keyed'
    BY <1>1, <1>3 DEF Keyed, Free
  <2>6. Strays'
    <3>1. SUFFICES ASSUME Tame PROVE Strays'
      BY DEF Strays, Tame
    <3>2. rot = "none"
      BY <1>1, <3>1 DEF Keyed, Tame
    <3>3. ASSUME NEW n \in Msg, shard'[n] # "none"
          PROVE  \/ n \in refused
                 \/ indexDb # NoIndex /\ n \in indexDb.rows
                 \/ job'.step \in {"put", "write", "rewrite", "insert"} /\ n \in job'.msgs
                 \/ job'.step = "remove" /\ n \in job'.todo
      BY <1>1, <1>2, <2>1, <3>1, <3>2, <3>3 DEF Strays, Busy
    <3> QED
      BY <1>1, <1>3, <3>1, <3>2, <3>3 DEF Strays, Free
  <2> QED
    BY <2>2, <2>3, <2>4, <2>5, <2>6
<1>4. CASE job' = NoJob
  <2>1. RemoveShard(m) /\ job.step = "remove" /\ job.todo = {m}
    <3>1. ~PutKept(m) /\ ~PutOpen(m)
      <4>1. ASSUME PutKept(m) PROVE job' \in Job
        BY <1>1, <4>1 DEF PutKept, Job
      <4>2. ASSUME PutOpen(m) PROVE job' \in Job
        BY <1>1, <4>2 DEF PutOpen, Job
      <4> QED
        BY <1>4, <4>1, <4>2, NothingAssumption
    <3>2. ASSUME NEW r \in {key, "short", "bad"}, PutWrite(m, r)
          PROVE  FALSE
      BY <1>1, <1>4, <3>2, NothingAssumption DEF PutWrite, Job
    <3>3. RemoveShard(m)
      BY <3>1, <3>2
    <3>4. job.todo # {m} => job' \in Job
      BY <1>1, <3>3 DEF RemoveShard, Job
    <3> QED
      BY <1>4, <3>3, <3>4, NothingAssumption DEF RemoveShard
  <2>2. shard'[m] = "none"
    BY <2>1 DEF RemoveShard, Types, TypeOK
  <2>3. Types'
    BY <1>1, <1>2, <1>4 DEF Types, TypeOK
  <2>4. RowsAreLabelled' /\ Busy'
    BY <1>1, <1>4 DEF RowsAreLabelled, Busy, Free
  <2>5. Keyed'
    BY <1>1, <1>4 DEF Keyed, Free
  <2>6. Strays'
    BY <1>1, <1>2, <1>4, <2>1, <2>2 DEF Strays, Tame, Keyed, Free
  <2> QED
    BY <2>3, <2>4, <2>5, <2>6
<1> QED
  BY <1>3, <1>4

\* storeMessage looks for a plain-only shard to replace.
LEMMA ProbeStep ==
  ASSUME IInv, UNCHANGED <<kind, faults>>, NEW m \in Msg, NEW u \in BOOLEAN, NEW ok \in BOOLEAN, ProbeUpgrade(m, u, ok)
  PROVE  IInv'
<1> USE DEF IInv
<1>1. /\ ~Free /\ job \in Job /\ job.step = "put" /\ job.msgs = {m} /\ job.todo = {}
      /\ OpenOnly(ok)
      /\ UNCHANGED <<vault, master, key, readers, rot, refused>>
  BY DEF ProbeUpgrade, Types, TypeOK, Free
<1>2. /\ shard' \in [Msg -> Key \cup {"none", "short", "bad"}]
      /\ \A n \in Msg : n # m => shard'[n] = shard[n]
  BY DEF ProbeUpgrade, Types, TypeOK
<1>3. /\ job' \in Job /\ job'.msgs = {m} /\ job'.todo = {} /\ job'.at \subseteq {m}
      /\ job'.step \in {"rewrite", "insert"}
  BY <1>1 DEF ProbeUpgrade, Job
<1>4. Types'
  BY <1>1, <1>2, <1>3, Looking DEF Types, TypeOK
<1>5. RowsAreLabelled'
  BY <1>1, Looking
<1>6. Busy'
  <2>1. \A n \in job'.at : shard'[n] = "short"
    BY <1>1 DEF ProbeUpgrade, Job, Types, TypeOK
  <2> QED
    BY <1>1, <1>3, <2>1 DEF Busy
<1>7. Keyed'
  BY <1>1, Looking DEF Keyed
<1>8. Strays'
  BY <1>1, <1>2, <1>3, Looking, NothingAssumption DEF Strays, Tame, Keyed, Free
<1> QED
  BY <1>4, <1>5, <1>6, <1>7, <1>8

\* The rows of a call are written.
LEMMA InsertStep ==
  ASSUME IInv, UNCHANGED <<kind, faults>>, Insert
  PROVE  IInv'
<1> USE DEF IInv
<1>1. /\ ~Free /\ job \in Job /\ job.step \in {"insert", "put"}
      /\ job.todo \cup job.at \subseteq job.msgs
      /\ UNCHANGED <<vault, master, key, shard, readers, rot>>
  BY DEF Insert, Types, TypeOK, Free, Busy
<1> DEFINE Outcome(ok, known, held) ==
        /\ IndexGiven(ok)
        /\ "sqlite" \notin faults => held = job.msgs
        /\ IF ok
           THEN /\ Commit(Inserted(Opened, job.label, known, held))
                /\ refused' = (refused \cup job.msgs) \ held
           ELSE /\ OpenFails
                /\ refused' = IF CanOpen THEN refused \cup job.msgs ELSE refused
        /\ IF ok /\ job.complete
           THEN job' = [job EXCEPT !.step = "reconcile"]
           ELSE Release
<1>2. PICK ok \in BOOLEAN : \E known \in SUBSET job.msgs : \E held \in SUBSET known :
        Outcome(ok, known, held)
  BY DEF Insert
<1>2a. PICK known \in SUBSET job.msgs : \E held \in SUBSET known : Outcome(ok, known, held)
  BY <1>2
<1>3. PICK held \in SUBSET known : Outcome(ok, known, held)
  BY <1>2a
<1>4. \/ job' = NoJob
      \/ /\ job' \in Job /\ job'.msgs = job.msgs /\ job'.step = "reconcile" /\ job'.complete
         /\ job'.todo = job.todo /\ job'.at = job.at
  BY <1>1, <1>3 DEF Release, Job
<1>5. job.msgs \subseteq Msg /\ job.label \in Label
  BY <1>1 DEF Job
<1>6. Busy'
  BY <1>1, <1>4 DEF Busy, Free
<1>7. CASE ok
  <2> DEFINE new == Inserted(Opened, job.label, known, held)
  <2>0. /\ CanOpen /\ Commit(new) /\ refused' = (refused \cup job.msgs) \ held
        /\ "sqlite" \notin faults => held = job.msgs
    BY <1>3, <1>7 DEF IndexGiven
  <2>1. /\ new \in Index /\ Labelled(new, refused')
        /\ new.key = Opened.key /\ new.rows = Opened.rows \cup known
    <3>1. Opened \in Index /\ Labelled(Opened, refused)
      BY <2>0, Opening
    <3>2. known \in SUBSET Msg /\ \A m \in Msg : m \in (refused \cup known) \ held => m \in refused'
      BY <1>5, <2>0
    <3>3. held \in SUBSET known /\ job.label \in Label
      BY <1>5
    <3>4. new = Inserted(Opened, job.label, known, held)
      OBVIOUS
    <3> HIDE DEF new
    <3> QED
      BY <3>1, <3>2, <3>3, <3>4, Inserting
  <2> HIDE DEF new
  <2>3. handle # "gone" => indexDb' = new
    BY <2>0 DEF Commit
  <2>4. Types'
    <3>1. refused' \subseteq Msg /\ refused' # {} => "sqlite" \in faults
      BY <1>5, <2>0 DEF Types, TypeOK
    <3>2. refused' \subseteq Msg
      BY <1>5, <2>0 DEF Types, TypeOK
    <3> QED
      BY <1>1, <1>4, <2>0, <2>1, <3>1, <3>2, Committing DEF Types, TypeOK
  <2>5. RowsAreLabelled'
    BY <2>0, <2>1, Committing
  <2>7. Keyed'
    <3>1. handle # "none" \/ key # NoKey
      BY <2>0 DEF CanOpen
    <3> QED
      BY <1>1, <1>4, <2>0, <2>1, <3>1, Committing DEF Keyed, Free
  <2>8. Strays'
    <3>1. SUFFICES ASSUME Tame PROVE Strays'
      BY DEF Strays, Tame
    <3>2. rot = "none" /\ handle # "gone"
      BY <1>1, <3>1 DEF Keyed, Tame, Strays
    <3>3. indexDb' # NoIndex /\ indexDb'.rows = Opened.rows \cup known
      BY <2>1, <2>3, <3>2, NothingAssumption
    <3>4. indexDb # NoIndex => Opened = indexDb
      BY <2>0, <3>2, Opening
    <3>5. handle' # "gone"
      BY <2>0, <3>2 DEF Commit
    <3>6. \A n \in Msg : shard[n] # "none" =>
            n \in refused \/ (indexDb # NoIndex /\ n \in indexDb.rows) \/ n \in job.msgs
      BY <1>1, <3>1, <3>2 DEF Strays
    <3> QED
      BY <1>1, <2>0, <3>2, <3>3, <3>4, <3>5, <3>6 DEF Strays
  <2> QED
    BY <1>6, <2>4, <2>5, <2>7, <2>8
<1>8. CASE ~ok
  <2>0. /\ IndexGiven(FALSE) /\ OpenFails /\ job' = NoJob
        /\ refused' = IF CanOpen THEN refused \cup job.msgs ELSE refused
    BY <1>3, <1>8 DEF IndexGiven, Release
  <2>1. \A m \in Msg : m \in refused => m \in refused'
    BY <2>0
  <2>2. Types' /\ RowsAreLabelled'
    <3>1. refused' \subseteq Msg
      BY <1>5, <2>0 DEF Types, TypeOK
    <3>2. refused' # {} => "sqlite" \in faults
      BY <2>0 DEF Types, IndexGiven
    <3> QED
      BY <1>1, <2>0, <2>1, <3>1, <3>2, Failing DEF Types, TypeOK
  <2>3. Keyed'
    BY <1>1, <2>0, <2>1, Failing DEF Keyed, Free
  <2>4. Strays'
    <3>1. SUFFICES ASSUME Tame PROVE Strays'
      BY DEF Strays, Tame
    <3>2. rot = "none" /\ handle # "gone"
      BY <1>1, <3>1 DEF Keyed, Tame, Strays
    <3>3. CanOpen
      <4>1. key # NoKey
        BY <1>1 DEF Busy
      <4> QED
        BY <3>1, <3>2, <4>1 DEF CanOpen, Keyed, Tame
    <3>4. /\ indexDb # NoIndex => indexDb' = indexDb
          /\ handle' = handle
      BY <2>0, <2>1, Failing
    <3>5. \A n \in Msg : shard[n] # "none" =>
            n \in refused \/ (indexDb # NoIndex /\ n \in indexDb.rows) \/ n \in job.msgs
      BY <1>1, <3>1, <3>2 DEF Strays
    <3> QED
      BY <1>1, <2>0, <3>2, <3>3, <3>4, <3>5 DEF Strays
  <2> QED
    BY <1>6, <2>2, <2>3, <2>4
<1> QED
  BY <1>7, <1>8

\* A complete listing is compared with the rows of its label.
LEMMA ReconcileStep ==
  ASSUME IInv, UNCHANGED <<kind, faults>>, Reconcile
  PROVE  IInv'
<1> USE DEF IInv
<1>1. /\ ~Free /\ job \in Job /\ job.step = "reconcile" /\ job.complete
      /\ job.msgs \subseteq Msg /\ job.label \in Label
      /\ UNCHANGED <<vault, master, key, shard, readers, rot>>
  BY DEF Reconcile, Types, TypeOK, Free, Busy, Job
<1>2. ASSUME IndexGiven(TRUE),
             NEW dropped \in SUBSET Stale(Opened, job.label, job.msgs),
             NEW gone \in SUBSET Unlabelled(Opened, job.label, job.msgs),
             NEW removed \in SUBSET (gone \cap dropped),
             "sqlite" \notin faults => removed = Unlabelled(Opened, job.label, job.msgs),
             Commit(Reconciled(Opened, job.label, dropped, removed)),
             RemoveNext(gone),
             refused' = refused \cup
               ((dropped \cap Unlabelled(Opened, job.label, job.msgs)) \ removed)
      PROVE  IInv'
  <2> DEFINE new == Reconciled(Opened, job.label, dropped, removed)
  <2>1. CanOpen /\ Opened \in Index /\ Labelled(Opened, refused)
    BY <1>2, Opening DEF IndexGiven
  <2>2. /\ Unlabelled(Opened, job.label, job.msgs) \subseteq Msg \ job.msgs
        /\ gone \subseteq Msg \ job.msgs
    BY <2>1 DEF Unlabelled, Stale, Index
  <2>3. /\ new \in Index /\ Labelled(new, refused') /\ new.key = Opened.key
        /\ new.rows = Opened.rows \ removed
    <3>1. MayDrop(Opened, job.label, job.msgs, dropped, removed)
      BY <1>2 DEF MayDrop
    <3>2. new = Reconciled(Opened, job.label, dropped, removed)
      OBVIOUS
    <3> HIDE DEF new
    <3>3. job.label \in Label /\ job.msgs \in SUBSET Msg
      BY <1>1
    <3>4. Opened \in Index /\ Labelled(Opened, refused)
      BY <2>1
    <3>6. new \in Index
      BY <3>1, <3>2, <3>3, <3>4, Reconciling
    <3>7. Labelled(new, refused')
      BY <3>1, <3>2, <3>3, <3>4, Reconciling
    <3>8. new.key = Opened.key /\ new.rows = Opened.rows \ removed
      BY <3>2, <3>4 DEF Reconciled, Index
    <3> QED
      BY <3>6, <3>7, <3>8
  <2>4. Commit(new)
    BY <1>2
  <2>5. "sqlite" \notin faults => gone = removed /\ refused' = refused
    BY <1>2
  <2>6. refused' \subseteq Msg
    BY <1>2, <2>2 DEF Types, TypeOK
  <2> HIDE DEF new
  <2>7. handle # "gone" => indexDb' = new
    BY <2>4 DEF Commit
  <2>8. handle' = IF handle = "gone" THEN "gone" ELSE "disk"
    BY <2>1, <2>3, <2>4, Committing
  <2>9. \/ job' = NoJob /\ gone = {}
        \/ /\ job' \in Job /\ job'.step = "remove" /\ job'.complete
           /\ job'.todo = gone /\ job'.msgs = job.msgs /\ job'.at = job.at
    BY <1>1, <1>2, <2>2 DEF RemoveNext, Release, Job
  <2>10. Types'
    BY <1>1, <2>1, <2>3, <2>4, <2>5, <2>6, <2>9, Committing DEF Types, TypeOK
  <2>11. RowsAreLabelled'
    BY <2>1, <2>3, <2>4, Committing
  <2>12. Busy'
    BY <1>1, <2>2, <2>3, <2>5, <2>7, <2>8, <2>9 DEF Busy, Free
  <2>13. Keyed'
    <3>1. handle # "none" \/ key # NoKey
      BY <2>1 DEF CanOpen
    <3> QED
      BY <1>1, <2>1, <2>3, <2>4, <3>1, Committing DEF Keyed
  <2>14. Strays'
    <3>1. SUFFICES ASSUME Tame PROVE Strays'
      BY DEF Strays, Tame
    <3>2. rot = "none" /\ handle # "gone"
      BY <1>1, <3>1 DEF Keyed, Tame, Strays
    <3>3. indexDb' # NoIndex /\ indexDb'.rows = Opened.rows \ removed
      BY <2>3, <2>7, <3>2, NothingAssumption
    <3>4. \A n \in Msg : shard[n] # "none" =>
            n \in refused \/ (indexDb # NoIndex /\ n \in indexDb.rows)
      BY <1>1, <3>1, <3>2 DEF Strays
    <3>5. indexDb # NoIndex => Opened = indexDb
      BY <2>1, <3>2, Opening
    <3>6. refused \subseteq refused' /\ removed \subseteq gone
      BY <1>2
    <3> QED
      BY <1>1, <2>8, <2>9, <3>2, <3>3, <3>4, <3>5, <3>6, NothingAssumption DEF Strays, Free
  <2> QED
    BY <2>10, <2>11, <2>12, <2>13, <2>14
<1>3. ASSUME IndexGiven(FALSE), OpenFails, Release, UNCHANGED refused
      PROVE  IInv'
  <2>1. job' = NoJob
    BY <1>3 DEF Release
  <2>2. Types' /\ RowsAreLabelled' /\ Busy'
    BY <1>1, <1>3, <2>1, Failing DEF Types, TypeOK, Busy, Free
  <2>3. Keyed'
    BY <1>1, <1>3, <2>1, Failing DEF Keyed, Free
  <2>4. Strays'
    <3>1. /\ indexDb # NoIndex => indexDb' = indexDb
          /\ handle' = handle
      BY <1>3, Failing
    <3> QED
      BY <1>1, <1>3, <2>1, <3>1 DEF Strays, Tame, Keyed, Free
  <2> QED
    BY <2>2, <2>3, <2>4
<1> QED
  BY <1>2, <1>3 DEF Reconcile

\* A read opens the index or drops a box that does not open.
LEMMA ReadStep ==
  ASSUME IInv, UNCHANGED <<kind, faults>>, Read
  PROVE  IInv'
<1> USE DEF IInv
<1>1. ASSUME NEW ok \in BOOLEAN, OpenOnly(ok), WorkerMayCall, readers' \subseteq Msg,
             UNCHANGED <<vault, master, key, shard, job, rot, refused>>
      PROVE  IInv'
  <2>1. Types'
    BY <1>1, Looking DEF Types, TypeOK
  <2>2. RowsAreLabelled'
    BY <1>1, Looking
  <2>3. Busy'
    BY <1>1 DEF Busy, WorkerMayCall, Free
  <2>4. Keyed'
    BY <1>1, Looking DEF Keyed, WorkerMayCall
  <2>5. Strays'
    <3>1. SUFFICES ASSUME Tame PROVE Strays'
      BY DEF Strays, Tame
    <3>2. rot = "none" /\ Free
      BY <1>1, <3>1 DEF Keyed, Tame, WorkerMayCall
    <3> QED
      BY <1>1, <3>1, <3>2, Looking DEF Strays, Free
  <2> QED
    BY <2>1, <2>2, <2>3, <2>4, <2>5
<1>2. ASSUME NEW m \in Msg, ReadShard(m)
      PROVE  IInv'
  <2>1. /\ Free /\ UNCHANGED <<vault, master, key, indexDb, handle, unlinked, job, rot, refused>>
        /\ shard' \in [Msg -> Key \cup {"none", "short", "bad"}]
        /\ readers' \subseteq Msg
        /\ \A n \in Msg : shard'[n] = shard[n] \/ shard'[n] = "none"
    BY <1>2 DEF ReadShard, AfterGet, WorkerMayCall, Types, TypeOK
  <2>2. Types' /\ RowsAreLabelled' /\ Busy' /\ Keyed'
    BY <2>1 DEF Types, TypeOK, RowsAreLabelled, Busy, Keyed, Free
  <2>3. Strays'
    BY <2>1 DEF Strays, Tame, Free
  <2> QED
    BY <2>2, <2>3
<1>3. CASE Query
  BY <1>1, <1>3 DEF Query, Types, TypeOK
<1>4. ASSUME NEW m \in Msg, ReadPath(m)
      PROVE  IInv'
  BY <1>1, <1>4 DEF ReadPath, Types, TypeOK
<1> QED
  BY <1>2, <1>3, <1>4 DEF Read

\* A rotation, the key after it, and the end of the process.
LEMMA KeyStep ==
  ASSUME IInv, UNCHANGED <<kind, faults>>, Unlock \/ Rotation \/ Restart
  PROVE  IInv'
<1> USE DEF IInv
<1>1. CASE Unlock
  <2>1. /\ Free /\ master = NoKey /\ master' = vault /\ key' = vault
        /\ UNCHANGED <<vault, shard, indexDb, handle, unlinked, job, readers, rot, refused>>
    BY <1>1 DEF Unlock
  <2>2. Types' /\ RowsAreLabelled' /\ Busy' /\ Keyed'
    BY <2>1 DEF Types, TypeOK, RowsAreLabelled, Busy, Keyed, Free
  <2> QED
    BY <2>1, <2>2 DEF Strays, Tame, Free
<1>2. ASSUME NEW k \in Key, rotateVault(k)
      PROVE  IInv'
  <2>1. Types' /\ RowsAreLabelled' /\ Busy' /\ Keyed'
    BY <1>2 DEF rotateVault, Types, TypeOK, RowsAreLabelled, Busy, Keyed, Free
  <2> QED
    BY <1>2, <2>1 DEF rotateVault, Strays, Tame
<1>3. CASE clearKey
  <2>1. Types' /\ RowsAreLabelled' /\ Busy' /\ Keyed'
    BY <1>3 DEF clearKey, Types, TypeOK, RowsAreLabelled, Busy, Keyed, Free
  <2> QED
    BY <1>3, <2>1 DEF clearKey, Strays, Tame
<1>4. CASE removeRecursively
  <2>1. /\ rot \in {"wipe", "cleared"} /\ rot' \in {"removed", "wiped"}
        /\ kind = "imap" => rot = "wipe"
        /\ kind # "imap" => rot = "cleared"
        /\ shard' = [m \in Msg |-> "none"] /\ indexDb' = NoIndex
        /\ UNCHANGED <<vault, master, key, job, readers, refused>>
        /\ handle = "disk" => handle' = "gone" /\ unlinked' = indexDb
        /\ handle # "disk" => UNCHANGED <<handle, unlinked>>
    BY <1>4 DEF removeRecursively
  <2>2. Types'
    BY <2>1 DEF Types, TypeOK
  <2>3. RowsAreLabelled'
    BY <2>1 DEF Types, RowsAreLabelled
  <2>3a. Busy'
    <3>1. ~Free => \A n \in job.at : n \in Msg
      BY DEF Types, TypeOK, Job, Free
    <3> QED
      BY <2>1, <3>1 DEF Types, Busy, Free
  <2>3b. Keyed'
    BY <2>1 DEF Types, Keyed, Free
  <2>4. Strays'
    BY <2>1 DEF Strays, Tame, Keyed
  <2> QED
    BY <2>2, <2>3, <2>3a, <2>3b, <2>4
<1>5. CASE restoreKey
  <2>1. Types' /\ RowsAreLabelled' /\ Busy' /\ Keyed'
    BY <1>5 DEF restoreKey, Types, TypeOK, RowsAreLabelled, Busy, Keyed, Free
  <2> QED
    BY <1>5, <2>1 DEF restoreKey, Strays, Tame
<1>6. CASE setMasterKey
  <2>1. Types' /\ RowsAreLabelled' /\ Busy' /\ Keyed'
    BY <1>6 DEF setMasterKey, Types, TypeOK, RowsAreLabelled, Busy, Keyed, Free
  <2> QED
    BY <1>6, <2>1 DEF setMasterKey, Strays, Tame
<1>7. CASE Restart
  <2>1. Types' /\ RowsAreLabelled' /\ Busy' /\ Keyed'
    BY <1>7 DEF Restart, Types, TypeOK, RowsAreLabelled, Busy, Keyed, Free
  <2>2. ~Tame
    BY <1>7 DEF Restart, Tame
  <2> QED
    BY <2>1, <2>2 DEF Strays, Tame
<1> QED
  BY <1>1, <1>2, <1>3, <1>4, <1>5, <1>6, <1>7 DEF Rotation

\* The invariant holds throughout every behaviour.
THEOREM Invariant == Spec => []IInv
<1>1. Init => IInv
  <2> SUFFICES ASSUME Init PROVE IInv
    OBVIOUS
  <2>1. Types /\ RowsAreLabelled
    BY DEF Init, Types, TypeOK, RowsAreLabelled
  <2>2. Busy /\ Keyed /\ Strays
    BY DEF Init, Busy, Keyed, Strays, Tame, Free
  <2> QED
    BY <2>1, <2>2 DEF IInv
<1>2. IInv /\ [Next]_vars => IInv'
  <2> SUFFICES ASSUME IInv, [Next]_vars PROVE IInv'
    OBVIOUS
  <2>1. CASE Unlock /\ UNCHANGED <<kind, faults>>
    BY <2>1, KeyStep
  <2>2. CASE Write /\ UNCHANGED <<kind, faults>>
    BY <2>2, WriteStep
  <2>3. CASE JobStep /\ UNCHANGED <<kind, faults>>
    BY <2>3, ShardStep, ProbeStep, InsertStep, ReconcileStep DEF JobStep
  <2>4. CASE Read /\ UNCHANGED <<kind, faults>>
    BY <2>4, ReadStep
  <2>5. CASE (Rotation \/ Restart) /\ UNCHANGED <<kind, faults>>
    BY <2>5, KeyStep
  <2>6. CASE UNCHANGED vars
    <3>1. Types' /\ RowsAreLabelled' /\ Busy'
      BY <2>6 DEF vars, IInv, Types, TypeOK, RowsAreLabelled, Busy, Free
    <3>2. Keyed' /\ Strays'
      BY <2>6 DEF vars, IInv, Keyed, Strays, Tame, Free
    <3> QED
      BY <3>1, <3>2 DEF IInv
  <2> QED
    BY <2>1, <2>2, <2>3, <2>4, <2>5, <2>6 DEF Next
<1> QED
  BY <1>1, <1>2, PTL DEF Spec

-----------------------------------------------------------------------------
(* The theorems. *)

\* Every variable keeps its type, whatever the environment does.
THEOREM TypeCorrect == Spec => []TypeOK
<1>1. IInv => TypeOK
  BY DEF IInv, Types
<1> QED
  BY <1>1, Invariant, PTL

\* Files, rows and memberships speak of the same messages, but for those SQLite
\* refused: rows and memberships always, shards and rows between the calls of an
\* environment that is kind enough.
THEOREM IndexMatches == Spec => []IndexMatchesShards
<1>1. IInv => IndexMatchesShards
  BY DEF IInv, IndexMatchesShards, NoStrayShard, Strays, Tame
<1> QED
  BY <1>1, Invariant, PTL

\* What the store writes opens after the next unlock, if rotations are quiet and
\* run to their end.
THEOREM IndexKeyed == Spec => []IndexFollowsVault
<1>1. IInv => IndexFollowsVault
  BY DEF IInv, IndexFollowsVault, Keyed
<1> QED
  BY <1>1, Invariant, PTL

\* A row goes only with a complete listing of the message's last label that does
\* not name it.
LEMMA RowStep ==
  ASSUME IInv, Next, NEW m \in Msg,
         indexDb # NoIndex, m \in indexDb.rows, indexDb' # NoIndex, m \notin indexDb'.rows
  PROVE  /\ job # NoJob /\ job.complete /\ m \notin job.msgs
         /\ indexDb.labels[m] = {job.label}
<1> USE DEF IInv
<1>1. indexDb' # indexDb
  OBVIOUS
<1>2. ~Read
  <2>1. ASSUME NEW ok \in BOOLEAN, OpenOnly(ok), refused' = refused
        PROVE  FALSE
    BY <1>1, <2>1, Looking
  <2> QED
    BY <1>1, <2>1 DEF Read, Query, ReadPath, ReadShard
<1>3. ~Unlock /\ ~Rotation /\ ~Restart /\ ~Write
  BY <1>1 DEF Unlock, Rotation, rotateVault, clearKey, removeRecursively, restoreKey,
              setMasterKey, Restart, Write, writeFolderSync, storeMessage,
              reconcileConversation, StartJob
<1>4. ~Insert
  <2> SUFFICES ASSUME Insert PROVE FALSE
    OBVIOUS
  <2>0. job \in Job
    BY DEF Insert, Types, TypeOK, Free
  <2>1. ASSUME NEW known \in SUBSET job.msgs, NEW held \in SUBSET known, IndexGiven(TRUE),
               Commit(Inserted(Opened, job.label, known, held))
        PROVE  FALSE
    <3>1. CanOpen /\ handle # "gone"
      BY <1>1, <2>1 DEF IndexGiven, Commit
    <3>2. Opened = indexDb /\ indexDb' = Inserted(Opened, job.label, known, held)
      BY <2>1, <3>1, Opening DEF Commit
    <3>3. indexDb \in Index
      BY <3>1, <3>2, Opening
    <3> QED
      BY <3>2, <3>3 DEF Inserted, Index
  <2>2. ASSUME IndexGiven(FALSE), OpenFails
        PROVE  FALSE
    <3>1. handle = "none" \/ indexDb' = indexDb
      BY <2>2 DEF IndexGiven, OpenFails
    <3>2. CanOpen /\ indexDb' = Opened
      BY <1>1, <2>2 DEF OpenFails
    <3> QED
      BY <1>1, <3>1, <3>2, Opening
  <2> QED
    BY <2>1, <2>2 DEF Insert
<1>5. Reconcile
  <2>1. ASSUME NEW n \in Msg, PutKept(n) \/ PutOpen(n) \/ RemoveShard(n)
        PROVE  FALSE
    BY <1>1, <2>1 DEF PutKept, PutOpen, RemoveShard
  <2>2. ASSUME NEW n \in Msg, NEW r \in {key, "short", "bad"}, PutWrite(n, r)
        PROVE  FALSE
    BY <1>1, <2>2 DEF PutWrite
  <2>3. ASSUME NEW n \in Msg, NEW u \in BOOLEAN, NEW ok \in BOOLEAN, ProbeUpgrade(n, u, ok)
        PROVE  FALSE
    BY <1>1, <2>3, Looking DEF ProbeUpgrade
  <2> QED
    BY <1>2, <1>3, <1>4, <2>1, <2>2, <2>3 DEF Next, JobStep
<1>6. job \in Job /\ job # NoJob /\ job.complete
  BY <1>5 DEF Reconcile, Types, TypeOK, Busy, Free
<1>7. ~(IndexGiven(FALSE) /\ OpenFails)
  <2> SUFFICES ASSUME IndexGiven(FALSE), OpenFails PROVE FALSE
    OBVIOUS
  <2>1. handle = "none" /\ CanOpen /\ indexDb' = Opened
    BY <1>1 DEF IndexGiven, OpenFails
  <2> QED
    BY <1>1, <2>1, Opening
<1>8. PICK dropped \in SUBSET Stale(Opened, job.label, job.msgs) :
      \E gone \in SUBSET Unlabelled(Opened, job.label, job.msgs) :
      \E removed \in SUBSET (gone \cap dropped) :
         IndexGiven(TRUE) /\ Commit(Reconciled(Opened, job.label, dropped, removed))
  BY <1>5, <1>7 DEF Reconcile
<1>9. PICK removed \in SUBSET Unlabelled(Opened, job.label, job.msgs) :
         IndexGiven(TRUE) /\ Commit(Reconciled(Opened, job.label, dropped, removed))
  BY <1>8
<1>10. CanOpen /\ handle # "gone"
  BY <1>1, <1>9 DEF IndexGiven, Commit
<1>11. Opened = indexDb /\ indexDb \in Index
  BY <1>10, Opening
<1>12. indexDb' = Reconciled(indexDb, job.label, dropped, removed)
  BY <1>9, <1>10, <1>11 DEF Commit
<1>13. m \in removed
  BY <1>11, <1>12 DEF Reconciled, Index
<1>14. m \in Unlabelled(indexDb, job.label, job.msgs)
  BY <1>9, <1>11, <1>13
<1> QED
  BY <1>6, <1>14 DEF Unlabelled, Stale

\* No partial sync, failed fetch or listing of another label loses mail.
THEOREM LosesNothing == Spec => LosesNoMail
<1>1. IInv /\ [Next]_vars =>
        [\A m \in Msg :
           /\ indexDb # NoIndex /\ m \in indexDb.rows
           /\ indexDb' # NoIndex /\ m \notin indexDb'.rows
           => /\ job # NoJob /\ job.complete /\ m \notin job.msgs
              /\ indexDb.labels[m] = {job.label}]_vars
  BY RowStep
<1> QED
  BY <1>1, Invariant, PTL DEF Spec, LosesNoMail

\* A readable shard with a row goes with a rotation, is cut for its replacement, or
\* goes with the last membership although SQLite keeps the row.
LEMMA ContentStep ==
  ASSUME IInv, Next, NEW m \in Msg,
         rot' = rot, handle = "disk", m \in indexDb.rows, shard[m] = key, shard'[m] # key
  PROVE  \/ /\ job.op = "store" /\ job.msgs = {m}
            /\ job' # NoJob /\ job'.step = "rewrite"
         \/ /\ "sqlite" \in faults
            /\ job.step = "remove" /\ m \notin job.msgs
<1> USE DEF IInv
<1>1. key \in Key /\ shard[m] # "none" /\ shard[m] # "short" /\ shard' # shard
  BY StoreAssumption DEF Types, TypeOK
<1>2. ASSUME NEW n \in Msg, ReadShard(n)
      PROVE  FALSE
  BY <1>1, <1>2 DEF ReadShard, AfterGet, Types, TypeOK
<1>3. ASSUME NEW n \in Msg, PutOpen(n)
      PROVE  FALSE
  BY <1>1, <1>3 DEF PutOpen, Types, TypeOK
<1>4. ASSUME NEW n \in Msg, NEW r \in {key, "short", "bad"}, PutWrite(n, r)
      PROVE  FALSE
  <2>1. n = m /\ ~Free /\ m \in job.at
    BY <1>1, <1>4 DEF PutWrite, Types, TypeOK
  <2> QED
    BY <1>1, <2>1 DEF Busy
<1>5. ASSUME NEW n \in Msg, NEW u \in BOOLEAN, NEW ok \in BOOLEAN, ProbeUpgrade(n, u, ok)
      PROVE  /\ job.op = "store" /\ job.msgs = {m}
             /\ job' # NoJob /\ job'.step = "rewrite"
  <2>1. job.op = "store" /\ job.msgs = {n} /\ job \in Job /\ n = m
    BY <1>1, <1>5 DEF ProbeUpgrade, Types, TypeOK, Free
  <2>2. job' \in Job /\ job'.step = "rewrite"
    BY <1>1, <1>5, <2>1 DEF ProbeUpgrade, Types, TypeOK, Job
  <2> QED
    BY <2>1, <2>2, NothingAssumption
<1>6. ASSUME NEW n \in Msg, RemoveShard(n)
      PROVE  /\ "sqlite" \in faults
             /\ job.step = "remove" /\ m \notin job.msgs
  <2>1. n = m
    BY <1>1, <1>6 DEF RemoveShard, Types, TypeOK
  <2> QED
    BY <1>6, <2>1 DEF RemoveShard, Busy
<1>7. ~removeRecursively
  BY DEF removeRecursively
<1>8. ~(Unlock \/ Write \/ Query \/ Insert \/ Reconcile \/ Restart
        \/ clearKey \/ restoreKey \/ setMasterKey)
  BY <1>1 DEF Unlock, Write, writeFolderSync, storeMessage, reconcileConversation, StartJob,
         Query, Insert, Reconcile, Restart, clearKey, restoreKey, setMasterKey
<1>9. ASSUME NEW n \in Msg, PutKept(n) \/ ReadPath(n)
      PROVE  FALSE
  BY <1>1, <1>9 DEF PutKept, ReadPath
<1>10. ASSUME NEW k \in Key, rotateVault(k)
       PROVE  FALSE
  BY <1>1, <1>10 DEF rotateVault
<1> QED
  BY <1>2, <1>3, <1>4, <1>5, <1>6, <1>7, <1>8, <1>9, <1>10
     DEF Next, JobStep, Read, Rotation

\* Readable content of a message the index knows goes only with a rotation, with
\* its replacement by the same message with an html part, or when SQLite fails.
THEOREM KeepsContent == Spec => KeepsReadableContent
<1>1. IInv /\ [Next]_vars =>
        [\A m \in Msg :
           /\ rot' = rot /\ handle = "disk"
           /\ m \in indexDb.rows /\ shard[m] = key /\ shard'[m] # key
           => \/ /\ job.op = "store" /\ job.msgs = {m}
                 /\ job' # NoJob /\ job'.step = "rewrite"
              \/ /\ "sqlite" \in faults
                 /\ job.step = "remove" /\ m \notin job.msgs]_vars
  BY ContentStep
<1> QED
  BY <1>1, Invariant, PTL DEF Spec, KeepsReadableContent

=============================================================================
