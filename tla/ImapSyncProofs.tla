--------------------------- MODULE ImapSyncProofs ---------------------------
(***************************************************************************)
(* Proofs about ImapSync, for all folders, messages and bounds.            *)
(*                                                                         *)
(* PurgedStaysPurged rests on who may still write after a removal: a sync  *)
(* that has not begun, and finds the backend shutting down when it does    *)
(* (Removal).  KeepsServerMail rests on the flag: while no reset has run,  *)
(* the flag, the running sync and its completion make one token (Apart), so *)
(* nothing but server and sync touch the store between listing and write,  *)
(* and a complete listing covers what the server still has (Listing).      *)
(* OneSync, in TypeOK, is a count: syncs in flight and completions posted  *)
(* are tokens, one of which the flag stands for, and a reset, by clearing  *)
(* the flag, lets one more begin (Counted).                                *)
(***************************************************************************)
EXTENDS ImapSync, FiniteSetTheorems, TLAPS

-----------------------------------------------------------------------------
(* Sequences. *)

\* RemoveAt leaves one element less, all of them from before.
LEMMA Removing ==
  ASSUME NEW S, NEW s \in Seq(S), NEW i \in DOMAIN s
  PROVE  /\ RemoveAt(s, i) \in Seq(S) /\ Len(RemoveAt(s, i)) = Len(s) - 1
         /\ \A j \in DOMAIN RemoveAt(s, i) : \E k \in DOMAIN s : RemoveAt(s, i)[j] = s[k]
<1> DEFINE T == {s[k] : k \in DOMAIN s}
           a == SubSeq(s, 1, i - 1)
           b == SubSeq(s, i + 1, Len(s))
<1>1. a \in Seq(T) /\ b \in Seq(T) /\ Len(a) = i - 1 /\ Len(b) = Len(s) - i
  OBVIOUS
<1>2. i \in 1 .. Len(s) /\ Len(s) \in Nat /\ T \subseteq S
  OBVIOUS
<1>3. RemoveAt(s, i) = a \o b
  BY DEF RemoveAt
<1> HIDE DEF T, a, b
<1>4. a \o b \in Seq(T) /\ Len(a \o b) = Len(s) - 1
  BY <1>1, <1>2
<1>5. a \o b \in Seq(S) /\ \A j \in DOMAIN (a \o b) : (a \o b)[j] \in T
  BY <1>2, <1>4
<1> QED
  BY <1>3, <1>4, <1>5 DEF T

\* Append adds one element at the end.
LEMMA Appending ==
  ASSUME NEW S, NEW s \in Seq(S), NEW e \in S
  PROVE  /\ Append(s, e) \in Seq(S)
         /\ Len(Append(s, e)) = Len(s) + 1
         /\ \A j \in DOMAIN Append(s, e) :
              Append(s, e)[j] = e \/ (j \in DOMAIN s /\ Append(s, e)[j] = s[j])
         /\ \A j \in DOMAIN Append(s, e) : j \notin DOMAIN s => j = Len(s) + 1
  OBVIOUS

\* Tail leaves all elements but the first.
LEMMA Popping ==
  ASSUME NEW S, NEW s \in Seq(S), s # <<>>
  PROVE  /\ Tail(s) \in Seq(S) /\ Head(s) \in S /\ Head(s) = s[1]
         /\ 1 \in DOMAIN s
         /\ \A j \in DOMAIN Tail(s) : j + 1 \in DOMAIN s /\ j + 1 # 1 /\ Tail(s)[j] = s[j + 1]
  OBVIOUS

\* How often an element occurs in a sequence.
Occurs(s, e) == Cardinality({j \in DOMAIN s : s[j] = e})

LEMMA Counting ==
  ASSUME NEW S, NEW s \in Seq(S), NEW e
  PROVE  IsFiniteSet({j \in DOMAIN s : s[j] = e}) /\ Occurs(s, e) \in Nat
<1>1. IsFiniteSet(1 .. Len(s))
  BY FS_Interval
<1>2. {j \in DOMAIN s : s[j] = e} \subseteq 1 .. Len(s)
  OBVIOUS
<1>3. IsFiniteSet({j \in DOMAIN s : s[j] = e})
  BY <1>1, <1>2, FS_Subset
<1> QED
  BY <1>3, FS_CardinalityType DEF Occurs

LEMMA CountingNone ==
  ASSUME NEW e
  PROVE  Occurs(<<>>, e) = 0
<1>1. {j \in DOMAIN <<>> : <<>>[j] = e} = {}
  OBVIOUS
<1> QED
  BY <1>1, FS_EmptySet DEF Occurs

\* An element added at the end counts for itself only.
LEMMA CountingAppend ==
  ASSUME NEW S, NEW s \in Seq(S), NEW x \in S, NEW e
  PROVE  Occurs(Append(s, x), e) = IF x = e THEN Occurs(s, e) + 1 ELSE Occurs(s, e)
<1> DEFINE A == {j \in DOMAIN s : s[j] = e}
           B == {j \in DOMAIN Append(s, x) : Append(s, x)[j] = e}
           n == Len(s) + 1
<1>1. /\ DOMAIN Append(s, x) = 1 .. n /\ Append(s, x)[n] = x
      /\ \A j \in 1 .. Len(s) : Append(s, x)[j] = s[j]
      /\ Len(s) \in Nat /\ DOMAIN s = 1 .. Len(s)
  OBVIOUS
<1>2. n \notin A /\ IsFiniteSet(A)
  <2>1. n \notin A
    BY <1>1
  <2>2. IsFiniteSet(A)
    BY Counting
  <2> QED
    BY <2>1, <2>2
<1>3. CASE x = e
  <2>1. B = A \cup {n}
    BY <1>1, <1>3
  <2> QED
    BY <1>2, <1>3, <2>1, FS_AddElement DEF Occurs
<1>4. CASE x # e
  <2>1. B = A
    BY <1>1, <1>4
  <2> QED
    BY <1>4, <2>1 DEF Occurs
<1> QED
  BY <1>3, <1>4

\* An element taken from the front does, too.
LEMMA CountingTail ==
  ASSUME NEW S, NEW s \in Seq(S), s # <<>>, NEW e
  PROVE  Occurs(s, e) = IF Head(s) = e THEN Occurs(Tail(s), e) + 1 ELSE Occurs(Tail(s), e)
<1> DEFINE A == {j \in DOMAIN s : s[j] = e}
           B == {j \in DOMAIN Tail(s) : Tail(s)[j] = e}
           C == A \ {1}
           f == [j \in B |-> j + 1]
<1>1. /\ DOMAIN s = 1 .. Len(s) /\ Len(s) \in Nat \ {0} /\ Head(s) = s[1]
      /\ DOMAIN Tail(s) = 1 .. Len(s) - 1
      /\ \A j \in 1 .. Len(s) - 1 : Tail(s)[j] = s[j + 1]
      /\ Tail(s) \in Seq(S)
  OBVIOUS
<1>2. IsFiniteSet(A) /\ IsFiniteSet(B) /\ Cardinality(A) \in Nat /\ Cardinality(B) \in Nat
  <2>1. IsFiniteSet(A)
    BY Counting
  <2>2. IsFiniteSet(B)
    BY <1>1, Counting
  <2> QED
    BY <2>1, <2>2, FS_CardinalityType
<1>3. Cardinality(C) = Cardinality(B)
  <2>1. f \in [B -> C]
    BY <1>1
  <2>2. \A i, j \in B : f[i] = f[j] => i = j
    BY <1>1
  <2>3. \A k \in C : \E j \in B : f[j] = k
    <3> TAKE k \in C
    <3>1. k - 1 \in B
      BY <1>1
    <3> QED
      BY <1>1, <3>1
  <2> HIDE DEF B, C, f
  <2>4. f \in Bijection(B, C)
    BY <2>1, <2>2, <2>3 DEF Bijection, Injection, Surjection, IsInjective
  <2>5. ExistsBijection(B, C)
    BY <2>4 DEF ExistsBijection
  <2> QED
    BY <1>2, <2>5, FS_Bijection
<1>4. Cardinality(C) = IF 1 \in A THEN Cardinality(A) - 1 ELSE Cardinality(A)
  BY <1>2, FS_RemoveElement
<1>5. (1 \in A) <=> (Head(s) = e)
  BY <1>1
<1> HIDE DEF A, B, C, f
<1>6. Cardinality(A) = IF Head(s) = e THEN Cardinality(B) + 1 ELSE Cardinality(B)
  BY <1>2, <1>3, <1>4, <1>5
<1> QED
  BY <1>6 DEF Occurs, A, B

-----------------------------------------------------------------------------
Sync == [phase : {"queued", "list", "folder", "fetch"}, todo : SUBSET Folders,
         folder : SUBSET Folders, left : SUBSET Msgs, got : SUBSET Msgs,
         complete : BOOLEAN]
Posts == {"started", "refused", "synced", "delete"}

Types ==
  /\ mailbox \in [Folders -> [Msgs -> {"new", "here", "gone"}]]
  /\ stored \in [Folders -> SUBSET Msgs] /\ stale \in [Folders -> SUBSET Msgs]
  /\ syncs \in Seq(Sync) /\ posted \in Seq(Posts)
  /\ resets \in Nat

Empty == \A f \in Folders : stored[f] = {} /\ stale[f] = {}

\* Without the key nothing is fetched; an attempt has none, and is not rotated.
Keyless ==
  /\ ~keyed => syncs = <<>> /\ Empty
  /\ role = "attempt" => ~keyed
  /\ ui = "rotating" => role = "account"

\* A removed backend keeps shutting down; once purged, its syncs never begin.
Removal ==
  role = "removed" =>
    /\ ui # "resetting"
    /\ keyed => shuttingDown
    /\ keyed /\ ui # "removing" => Empty /\ \A i \in DOMAIN syncs : syncs[i].phase = "queued"

\* Without a reset there is one token: a sync, or its posted completion, while
\* the flag is set.
Apart ==
  /\ ui = "resetting" => resets # 0
  /\ resets = 0 =>
       /\ Len(syncs) <= 1
       /\ ~syncInFlight => syncs = <<>>
       /\ syncs # <<>> \/ ~syncInFlight => \A j \in DOMAIN posted : posted[j] # "synced"
       /\ \A j, k \in DOMAIN posted : posted[j] = "synced" /\ posted[k] = "synced" => j = k

\* What is stored or listed has arrived, no copy is under two keys, and a listing
\* that is complete so far covers what is stored and still on the server.
Listing ==
  /\ \A f, g \in Folders : stored[f] \cap stale[g] = {}
  /\ \A f \in Folders, m \in Msgs : m \in stored[f] => mailbox[f][m] # "new"
  /\ \A i \in DOMAIN syncs : \A f \in syncs[i].folder, m \in Msgs :
       syncs[i].phase = "fetch" =>
         /\ m \in syncs[i].left \cup syncs[i].got => mailbox[f][m] # "new"
         /\ resets = 0 /\ syncs[i].complete /\ m \in stored[f] /\ mailbox[f][m] = "here"
            => m \in syncs[i].left \cup syncs[i].got

IInv == Types /\ Keyless /\ Removal /\ Apart /\ Listing

-----------------------------------------------------------------------------
(* The invariant.                                                          *)

\* A new backend, proven or not, has neither syncs nor mail.
LEMMA InitIInv == Init => IInv
  BY DEF Init, Nothing, IInv, Types, Keyless, Removal, Apart, Listing, Empty, Sync, Posts

\* The fields of a running sync have their types.
LEMMA Fields ==
  ASSUME Types, NEW i \in DOMAIN syncs
  PROVE  /\ syncs[i] \in Sync
         /\ syncs[i].folder \subseteq Folders /\ syncs[i].todo \subseteq Folders
         /\ syncs[i].left \subseteq Msgs /\ syncs[i].got \subseteq Msgs
         /\ syncs[i].complete \in BOOLEAN
<1>1. syncs[i] \in Sync
  BY DEF Types
<1> QED
  BY <1>1 DEF Sync

\* Starting a sync, with a completion taken from the queue or not.
LEMMA Starting ==
  ASSUME IInv, syncNow,
         posted' = posted \/ (posted # <<>> /\ posted' = Tail(posted)),
         role' = role \/ (role = "attempt" /\ role' = "account"),
         UNCHANGED <<mailbox, stored, stale, keyed, shuttingDown, ui, resets>>
  PROVE  IInv'
<1> USE DEF IInv
<1>1. /\ posted' \in Seq(Posts)
      /\ \A j \in DOMAIN posted' : \E d \in {0, 1} :
           j + d \in DOMAIN posted /\ posted'[j] = posted[j + d]
      /\ \A j, k \in DOMAIN posted' :
           posted'[j] = "synced" /\ posted'[k] = "synced" => j = k \/ resets # 0
  <2>1. CASE posted' = posted
    BY <2>1 DEF Types, Apart
  <2>2. CASE posted # <<>> /\ posted' = Tail(posted)
    <3>1. /\ posted' \in Seq(Posts)
          /\ \A j \in DOMAIN posted' : j + 1 \in DOMAIN posted /\ posted'[j] = posted[j + 1]
      BY <2>2, Popping DEF Types
    <3>2. \A j, k \in DOMAIN posted' :
            posted'[j] = "synced" /\ posted'[k] = "synced" => j = k \/ resets # 0
      BY <3>1 DEF Apart, Types
    <3> QED
      BY <3>1, <3>2
  <2> QED
    BY <2>1, <2>2
<1>2. CASE MaySync
  <2>0. Queued \in Sync /\ Queued.phase = "queued"
    BY DEF Queued, Sync
  <2> HIDE DEF IInv
  <2> syncs \in Seq(Sync)
    BY DEF IInv, Types
  <2>1. /\ syncs' \in Seq(Sync) /\ syncs' = Append(syncs, Queued) /\ syncInFlight'
        /\ \A i \in DOMAIN syncs' :
             syncs'[i].phase = "queued" \/ (i \in DOMAIN syncs /\ syncs'[i] = syncs[i])
    BY <1>2, <2>0, Appending DEF syncNow
  <2> USE DEF IInv
  <2>2. Types' /\ Keyless'
    BY <1>1, <1>2, <2>1 DEF Types, Keyless, Empty, MaySync
  <2>3. Removal'
    BY <2>1 DEF Removal, Empty, Types, Keyless
  <2>4. Apart'
    BY <1>1, <1>2, <2>1 DEF Apart, MaySync, Types
  <2>5. Listing'
    BY <2>1 DEF Listing, Types
  <2> QED
    BY <2>2, <2>3, <2>4, <2>5
<1>3. CASE ~MaySync
  <2>1. UNCHANGED <<syncs, syncInFlight>>
    BY <1>3 DEF syncNow
  <2>2. Types' /\ Keyless' /\ Removal' /\ Listing'
    BY <1>1, <2>1 DEF Types, Keyless, Empty, Removal, Listing
  <2>3. Apart'
    BY <1>1, <2>1 DEF Apart
  <2> QED
    BY <2>2, <2>3
<1> QED
  BY <1>2, <1>3

\* The slots of the UI thread that start no sync.
LEMMA TimedOutKeeps == IInv /\ TimedOut => IInv'
  BY Appending DEF IInv, Types, Keyless, Removal, Apart, Listing, Empty, TimedOut, Posts, server, store, counters

LEMMA RotationRefusedKeeps == IInv /\ RotationRefused => IInv'
  BY DEF IInv, Types, Keyless, Removal, Apart, Listing, Empty, RotationRefused, server, store, counters

LEMMA RotateVaultKeeps == IInv /\ rotateVault => IInv'
<1> SUFFICES ASSUME IInv, rotateVault PROVE IInv'
  OBVIOUS
<1> USE DEF IInv, rotateVault, server
<1>1. Types' /\ \A f \in Folders : stored'[f] = {} /\ stale'[f] = {}
  BY DEF Types, Nothing
<1>2. Keyless' /\ Removal'
  BY <1>1 DEF Keyless, Removal, Empty
<1>3. Apart'
  BY DEF Apart
<1>4. \A i \in DOMAIN syncs : syncs[i].folder \subseteq Folders
  BY <1>1, Fields
<1>5. Listing'
  BY <1>1, <1>4 DEF Listing
<1> QED
  BY <1>1, <1>2, <1>3, <1>5

LEMMA SetMasterKeyKeeps == IInv /\ setMasterKey => IInv'
<1> SUFFICES ASSUME IInv, setMasterKey PROVE IInv'
  OBVIOUS
<1> USE DEF IInv, setMasterKey, server, counters
<1>1. Types' /\ \A f \in Folders : stored'[f] = {}
  BY DEF Types, Nothing
<1>2. Keyless' /\ Removal'
  BY DEF Keyless, Removal
<1>3. Apart'
  BY DEF Apart
<1>4. \A i \in DOMAIN syncs : syncs[i].folder \subseteq Folders
  BY <1>1, Fields
<1>5. Listing'
  BY <1>1, <1>4 DEF Listing
<1> QED
  BY <1>1, <1>2, <1>3, <1>5

LEMMA ResetAppKeeps == IInv /\ resetApp => IInv'
  BY DEF IInv, Types, Keyless, Removal, Apart, Listing, Empty, resetApp, shutdown, server, store

LEMMA RemoveAccountKeeps == IInv /\ removeAccount => IInv'
  BY DEF IInv, Types, Keyless, Removal, Apart, Listing, Empty, removeAccount, shutdown, server, store

LEMMA InitializeKeeps == IInv /\ initialize => IInv'
  BY DEF IInv, Types, Keyless, Removal, Apart, Listing, Empty, initialize, Waited, server, store, counters

LEMMA PurgeLocalDataKeeps == IInv /\ purgeLocalData => IInv'
  BY Appending DEF IInv, Types, Keyless, Removal, Apart, Listing, Empty, purgeLocalData, Waited, Posts, Nothing, server, store, counters

LEMMA DestroyedKeeps == IInv /\ Destroyed => IInv'
  BY DEF IInv, Types, Keyless, Removal, Apart, Listing, Empty, Destroyed, Waited, server, store, counters

LEMMA VerifiedKeeps == IInv /\ Verified => IInv'
  BY Appending DEF IInv, Types, Keyless, Removal, Apart, Listing, Empty, Verified, Posts, server, store, counters

LEMMA VerificationDroppedKeeps == IInv /\ VerificationDropped => IInv'
  BY DEF IInv, Types, Keyless, Removal, Apart, Listing, Empty, VerificationDropped, server, store, counters

\* A sync ends, with or without its completion.
LEMMA Ending ==
  ASSUME IInv, NEW i \in DOMAIN syncs, syncs' = RemoveAt(syncs, i),
         posted' = posted \/ posted' = Append(posted, "synced"),
         UNCHANGED <<mailbox, stored, stale, role, keyed, shuttingDown, syncInFlight, ui, resets>>
  PROVE  IInv'
<1>1. /\ syncs' \in Seq(Sync) /\ Len(syncs') = Len(syncs) - 1
      /\ \A j \in DOMAIN syncs' : \E k \in DOMAIN syncs : syncs'[j] = syncs[k]
  <2>1. syncs \in Seq(Sync)
    BY DEF IInv, Types
  <2> QED
    BY <2>1, Removing
<1>2. /\ posted' \in Seq(Posts)
      /\ \A j \in DOMAIN posted' :
           posted'[j] = "synced" =>
             \/ j \in DOMAIN posted /\ posted[j] = "synced"
             \/ j = Len(posted) + 1
  <2>1. "synced" \in Posts /\ posted \in Seq(Posts)
    BY DEF IInv, Types, Posts
  <2> QED
    BY <2>1, Appending
<1>3. syncs # <<>> /\ Len(syncs) # 0
  BY DEF IInv, Types
<1>4. Types' /\ Keyless'
  BY <1>1, <1>2, <1>3 DEF IInv, Types, Keyless, Empty
<1>5. Removal'
  BY <1>1 DEF IInv, Removal, Empty
<1>6. Apart'
  <2>1. resets = 0 => syncs' = <<>> /\ syncInFlight
    BY <1>1, <1>3 DEF IInv, Apart, Types
  <2> QED
    BY <1>2, <1>3, <2>1 DEF IInv, Apart
<1>7. Listing'
  BY <1>1 DEF IInv, Listing
<1> QED
  BY <1>4, <1>5, <1>6, <1>7 DEF IInv

\* A sync goes on.
LEMMA GoingOn ==
  ASSUME IInv, NEW i \in DOMAIN syncs, NEW x \in Sync,
         syncs' = [syncs EXCEPT ![i] = x],
         syncs[i].phase = "queued" => ~shuttingDown,
         x.phase = "fetch" =>
           \A f \in x.folder, m \in Msgs :
             /\ m \in x.left \cup x.got => mailbox[f][m] # "new"
             /\ resets = 0 /\ x.complete /\ m \in stored[f] /\ mailbox[f][m] = "here"
                => m \in x.left \cup x.got,
         UNCHANGED <<mailbox, stored, stale, role, keyed, shuttingDown, syncInFlight, posted,
                     ui, resets>>
  PROVE  IInv'
<1>1. /\ syncs' \in Seq(Sync) /\ Len(syncs') = Len(syncs) /\ DOMAIN syncs' = DOMAIN syncs
      /\ \A j \in DOMAIN syncs : syncs'[j] = IF j = i THEN x ELSE syncs[j]
  BY DEF IInv, Types
<1>2. syncs # <<>>
  BY DEF IInv, Types
<1>3. Types' /\ Keyless'
  BY <1>1, <1>2 DEF IInv, Types, Keyless
<1>4. Removal'
  BY <1>1 DEF IInv, Removal, Empty
<1>5. Apart'
  BY <1>1, <1>2 DEF IInv, Apart
<1>6. Listing'
  BY <1>1 DEF IInv, Listing
<1> QED
  BY <1>3, <1>4, <1>5, <1>6 DEF IInv

\* The write: only this sync, but for a reset, and only a backend not yet purged.
LEMMA WriteFolderSyncKeeps ==
  ASSUME IInv, NEW i \in DOMAIN syncs, writeFolderSync(i)
  PROVE  IInv'
<1> DEFINE x == [Queued EXCEPT !.phase = "folder", !.todo = syncs[i].todo]
<1>1. /\ syncs[i].phase = "fetch" /\ syncs[i].left = {} /\ syncs' = [syncs EXCEPT ![i] = x]
      /\ UNCHANGED <<mailbox, role, keyed, shuttingDown, syncInFlight, posted, ui, resets>>
  BY DEF writeFolderSync, WorkerStep, server, store, counters
<1>2. x \in Sync /\ x.phase = "folder"
  BY Fields DEF IInv, Sync, Queued
<1> HIDE DEF x
<1>3. /\ syncs' \in Seq(Sync) /\ Len(syncs') = Len(syncs) /\ DOMAIN syncs' = DOMAIN syncs
      /\ \A j \in DOMAIN syncs : syncs'[j] = IF j = i THEN x ELSE syncs[j]
      /\ syncs # <<>>
  BY <1>1, <1>2 DEF IInv, Types
<1>4. \A f \in Folders :
        /\ stored'[f] \in SUBSET Msgs
        /\ stored'[f] \subseteq stored[f] \cup syncs[i].got
        /\ f \notin syncs[i].folder => stored'[f] = stored[f]
        /\ stale'[f] \in SUBSET Msgs /\ stale'[f] \subseteq Old
        /\ stored'[f] \cap Old = {}
  <2>1. \A f \in Folders : stale[f] \subseteq Old /\ stored[f] \cap Old = {}
    BY DEF IInv, Listing, Old
  <2> QED
    BY <2>1, Fields DEF IInv, Types, writeFolderSync, Written
<1>5. stored' \in [Folders -> SUBSET Msgs] /\ stale' \in [Folders -> SUBSET Msgs]
  BY <1>4 DEF writeFolderSync
<1>6. Types'
  BY <1>1, <1>3, <1>5 DEF IInv, Types
<1>7. keyed /\ ~(role = "removed" /\ ui # "removing")
  BY <1>1, <1>3 DEF IInv, Keyless, Removal
<1>8. Keyless' /\ Removal'
  BY <1>1, <1>7 DEF IInv, Keyless, Removal
<1>9. Apart'
  BY <1>1, <1>3 DEF IInv, Apart
<1>10. resets = 0 => \A j \in DOMAIN syncs : j = i
  BY DEF IInv, Apart, Types
<1>11. \A f \in Folders, m \in Msgs : m \in stored'[f] => mailbox[f][m] # "new"
  BY <1>1, <1>4 DEF IInv, Listing
<1>12. \A j \in DOMAIN syncs : j # i => syncs'[j] = syncs[j] /\ resets # 0
  BY <1>3, <1>10
<1>13. \A f, g \in Folders : stored'[f] \cap stale'[g] = {}
  BY <1>4
<1>14. Listing'
  BY <1>1, <1>2, <1>3, <1>11, <1>12, <1>13 DEF IInv, Listing
<1> QED
  BY <1>6, <1>8, <1>9, <1>14 DEF IInv

\* Each step of a sync is one of these three.
LEMMA SyncStepKeeps ==
  ASSUME IInv, NEW i \in DOMAIN syncs, SyncStep(i)
  PROVE  IInv'
<1> USE DEF WorkerStep, server, store, counters
<1>1. syncs[i] \in Sync
  BY Fields DEF IInv
<1>2. CASE Begin(i)
  <2>1. CASE shuttingDown
    BY <1>2, <2>1, Ending DEF Begin
  <2>2. CASE ~shuttingDown
    <3>1. /\ [syncs[i] EXCEPT !.phase = "list"] \in Sync
          /\ [syncs[i] EXCEPT !.phase = "list"].phase = "list"
      BY <1>1 DEF Sync
    <3> QED
      BY <1>2, <2>2, <3>1, GoingOn DEF Begin
  <2> QED
    BY <2>1, <2>2
<1>3. CASE listFolders(i)
  <2>1. CASE net
    <3>1. /\ [[syncs[i] EXCEPT !.phase = "folder"] EXCEPT !.todo = Folders] \in Sync
          /\ [[syncs[i] EXCEPT !.phase = "folder"] EXCEPT !.todo = Folders].phase = "folder"
      BY <1>1 DEF Sync
    <3> QED
      BY <1>3, <2>1, <3>1, GoingOn DEF listFolders
  <2>2. CASE ~net
    BY <1>3, <2>2, Ending DEF listFolders, Report
  <2> QED
    BY <2>1, <2>2
<1>4. CASE EndSync(i)
  BY <1>4, Ending DEF EndSync, Report
<1>5. ASSUME NEW f \in Folders, uidSearchAll(i, f)
      PROVE  IInv'
  <2> DEFINE x == Searched(syncs[i], f)
  <2>1. syncs' = [syncs EXCEPT ![i] = x] /\ syncs[i].phase = "folder"
    BY <1>5 DEF uidSearchAll
  <2>2. x \in Sync
    BY <1>1 DEF Sync, Here, Searched
  <2>3. x.phase = "fetch" => x.folder = {f} /\ x.left = Here(f)
    BY <1>1, <2>1 DEF Sync, Searched
  <2>4. x.phase = "fetch" => x.got = {}
    BY <1>1, <2>1 DEF Sync, Searched
  <2> HIDE DEF x
  <2>5. x.phase = "fetch" =>
           \A g \in x.folder, m \in Msgs :
             /\ m \in x.left \cup x.got => mailbox[g][m] # "new"
             /\ resets = 0 /\ x.complete /\ m \in stored[g] /\ mailbox[g][m] = "here"
                => m \in x.left \cup x.got
    BY <2>3, <2>4 DEF Here
  <2> QED
    BY <1>5, <2>1, <2>2, <2>5, GoingOn DEF uidSearchAll
<1>6. ASSUME NEW m \in Msgs, fetchMessage(i, m)
      PROVE  IInv'
  <2> DEFINE x == Fetched(syncs[i], m)
  <2>1. /\ syncs' = [syncs EXCEPT ![i] = x] /\ syncs[i].phase = "fetch"
        /\ m \in syncs[i].left
    BY <1>6 DEF fetchMessage
  <2>2. x \in Sync /\ x.folder = syncs[i].folder
    BY <1>1 DEF Sync, Fetched
  <2>3. /\ x.left \cup x.got \subseteq syncs[i].left \cup syncs[i].got
        /\ x.complete => syncs[i].complete /\ x.left \cup x.got = syncs[i].left \cup syncs[i].got
    BY <1>1, <2>1 DEF Sync, Fetched
  <2> HIDE DEF x
  <2>4. x.phase = "fetch" =>
           \A f \in x.folder, n \in Msgs :
             /\ n \in x.left \cup x.got => mailbox[f][n] # "new"
             /\ resets = 0 /\ x.complete /\ n \in stored[f] /\ mailbox[f][n] = "here"
                => n \in x.left \cup x.got
    BY <2>1, <2>2, <2>3 DEF IInv, Listing
  <2> QED
    BY <1>6, <2>1, <2>2, <2>4, GoingOn DEF fetchMessage
<1>7. CASE writeFolderSync(i)
  BY <1>7, WriteFolderSyncKeeps
<1> QED
  BY <1>2, <1>3, <1>4, <1>5, <1>6, <1>7 DEF SyncStep

\* A read takes a copy away that no key opens.
LEMMA ReadShardKeeps ==
  ASSUME IInv, NEW m \in Msgs, readShard(m)
  PROVE  IInv'
<1> USE DEF IInv, readShard, WorkerStep, server, counters
<1>1. /\ UNCHANGED <<mailbox, stored, role, keyed, shuttingDown, syncInFlight, syncs, posted,
                     ui, resets>>
      /\ stale' \in [Folders -> SUBSET Msgs]
      /\ \A f \in Folders : stale'[f] \subseteq stale[f]
  BY DEF Types
<1> QED
  BY <1>1 DEF Types, Keyless, Removal, Empty, Apart, Listing

\* The posted completions.
LEMMA DeliverKeeps == IInv /\ Deliver => IInv'
<1> SUFFICES ASSUME IInv, Deliver PROVE IInv'
  OBVIOUS
<1> USE DEF Deliver, server, store, counters
<1>1. CASE Started
  BY <1>1, Starting DEF Started
<1>2. /\ posted \in Seq(Posts) /\ Tail(posted) \in Seq(Posts)
      /\ Head(posted) = posted[1] /\ 1 \in DOMAIN posted
      /\ \A j \in DOMAIN Tail(posted) :
           j + 1 \in DOMAIN posted /\ j + 1 # 1 /\ Tail(posted)[j] = posted[j + 1]
  BY Popping DEF IInv, Types
<1>3. CASE Refused \/ Deleted
  <2>1. /\ posted' \in Seq(Posts)
        /\ \A j \in DOMAIN posted' : posted'[j] = "synced" =>
             j + 1 \in DOMAIN posted /\ posted[j + 1] = "synced"
    <3>1. CASE posted' = Tail(posted)
      BY <1>2, <3>1
    <3>2. CASE posted' = Append(Tail(posted), "delete")
      <4>1. "delete" \in Posts
        BY DEF Posts
      <4>2. /\ posted' \in Seq(Posts)
            /\ \A j \in DOMAIN posted' : posted'[j] = "delete" \/
                 (j \in DOMAIN Tail(posted) /\ posted'[j] = Tail(posted)[j])
        BY <1>2, <3>2, <4>1, Appending
      <4> QED
        BY <1>2, <4>2
    <3> QED
      BY <1>3, <3>1, <3>2 DEF Refused, Deleted
  <2>2. UNCHANGED <<mailbox, stored, stale, keyed, syncs, syncInFlight, resets>>
    BY <1>3 DEF Refused, Deleted
  <2>3. Types' /\ Keyless'
    BY <1>3, <2>1, <2>2 DEF IInv, Types, Keyless, Empty, Refused, Deleted
  <2>4. Removal'
    BY <1>3, <2>2 DEF IInv, Keyless, Removal, Empty, Refused, Deleted
  <2>5. Apart'
    <3>1. \A j \in DOMAIN posted' : j \in Nat
      BY <2>1
    <3> QED
      BY <1>3, <2>1, <2>2, <3>1 DEF IInv, Apart, Refused, Deleted
  <2>6. Listing'
    BY <2>2 DEF IInv, Listing
  <2> QED
    BY <2>3, <2>4, <2>5, <2>6 DEF IInv
<1>4. CASE Synced
  <2>1. /\ posted' = Tail(posted) /\ ~syncInFlight' /\ posted[1] = "synced"
        /\ UNCHANGED <<mailbox, stored, stale, role, keyed, shuttingDown, syncs, ui, resets>>
    BY <1>2, <1>4 DEF Synced
  <2>2. Types' /\ Keyless' /\ Removal' /\ Listing'
    BY <1>2, <2>1 DEF IInv, Types, Keyless, Empty, Removal, Listing
  <2>3. resets = 0 => syncs = <<>> /\ \A j \in DOMAIN posted : posted[j] = "synced" => j = 1
    BY <1>2, <2>1 DEF IInv, Apart
  <2>4. Apart'
    BY <1>2, <2>1, <2>3 DEF IInv, Apart, Types
  <2> QED
    BY <2>2, <2>4 DEF IInv
<1> QED
  BY <1>1, <1>3, <1>4

\* The server changes.
LEMMA ServerKeeps ==
  ASSUME IInv,
         \/ NetChanges
         \/ \E f \in Folders, m \in Msgs : MailArrives(f, m) \/ MailDeleted(f, m)
  PROVE  IInv'
<1> USE DEF Elsewhere, store, counters
<1>1. Keyless' /\ Removal' /\ Apart'
  BY DEF IInv, Keyless, Removal, Empty, Apart, NetChanges, MailArrives, MailDeleted
<1>2. CASE NetChanges
  BY <1>1, <1>2 DEF IInv, Types, Listing, NetChanges
<1>3. ASSUME NEW f \in Folders, NEW m \in Msgs, MailArrives(f, m) \/ MailDeleted(f, m)
      PROVE  IInv'
  <2>1. \A g \in Folders, n \in Msgs :
          /\ mailbox'[g][n] # mailbox[g][n] => g = f /\ n = m
          /\ mailbox'[f][m] = "here" => mailbox[f][m] = "new"
          /\ mailbox'[f][m] # "new"
    BY <1>3 DEF IInv, Types, MailArrives, MailDeleted
  <2>2. Types'
    <3>1. PICK v \in {"here", "gone"} : mailbox' = [mailbox EXCEPT ![f][m] = v]
      BY <1>3 DEF MailArrives, MailDeleted
    <3>2. mailbox' \in [Folders -> [Msgs -> {"new", "here", "gone"}]]
      <4>1. /\ mailbox \in [Folders -> [Msgs -> {"new", "here", "gone"}]]
            /\ v \in {"new", "here", "gone"}
        BY DEF IInv, Types
      <4>2. mailbox' = [mailbox EXCEPT ![f] = [mailbox[f] EXCEPT ![m] = v]]
        BY <3>1
      <4>3. [mailbox[f] EXCEPT ![m] = v] \in [Msgs -> {"new", "here", "gone"}]
        BY <4>1
      <4> QED
        BY <4>1, <4>2, <4>3
    <3> QED
      BY <1>3, <3>2 DEF IInv, Types, MailArrives, MailDeleted
  <2>3. UNCHANGED <<stored, stale, syncs, resets>>
    BY <1>3 DEF MailArrives, MailDeleted
  <2>4. \A i \in DOMAIN syncs : syncs[i].folder \subseteq Folders
    BY Fields DEF IInv
  <2>5. Listing'
    BY <2>1, <2>3, <2>4 DEF IInv, Listing
  <2> QED
    BY <1>1, <2>2, <2>5 DEF IInv
<1> QED
  BY <1>2, <1>3

\* Every step of the backend, its workers and the server.
LEMMA Inductive == IInv /\ [Next]_vars => IInv'
<1> SUFFICES ASSUME IInv, [Next]_vars PROVE IInv'
  OBVIOUS
<1>1. CASE SelectAccount \/ PollFires
  BY <1>1, Starting DEF SelectAccount, PollFires, server, store, counters
<1>2. CASE Deliver
  BY <1>2, DeliverKeeps
<1>3. CASE TimedOut \/ RotationRefused \/ rotateVault
  BY <1>3, TimedOutKeeps, RotationRefusedKeeps, RotateVaultKeeps
<1>4. CASE resetApp \/ removeAccount
  BY <1>4, ResetAppKeeps, RemoveAccountKeeps
<1>5. CASE UiStep
  BY <1>5, SetMasterKeyKeeps, InitializeKeeps, PurgeLocalDataKeeps, DestroyedKeeps DEF UiStep
<1>6. CASE Verified \/ VerificationDropped
  BY <1>6, VerifiedKeeps, VerificationDroppedKeeps
<1>7. CASE \E i \in DOMAIN syncs : SyncStep(i)
  BY <1>7, SyncStepKeeps
<1>8. CASE \/ NetChanges
            \/ \E f \in Folders, m \in Msgs : MailArrives(f, m) \/ MailDeleted(f, m)
  BY <1>8, ServerKeeps
<1>9. CASE \E m \in Msgs : readShard(m)
  BY <1>9, ReadShardKeeps
<1>10. CASE UNCHANGED vars
  BY <1>10 DEF vars, IInv, Types, Keyless, Empty, Removal, Apart, Listing
<1> QED
  BY <1>1, <1>2, <1>3, <1>4, <1>5, <1>6, <1>7, <1>8, <1>9, <1>10 DEF Next

\* The invariant holds throughout every behaviour.
THEOREM Invariant == Spec => []IInv
<1>1. Init => IInv
  BY InitIInv
<1>2. IInv /\ [Next]_vars => IInv'
  BY Inductive
<1> QED
  BY <1>1, <1>2, PTL DEF Spec

-----------------------------------------------------------------------------
(* The theorems.                                                           *)

\* Removal means removal: once the purge has run, nothing is ever stored again.
THEOREM Purged == Spec => []PurgedStaysPurged
<1>1. IInv => PurgedStaysPurged
  BY DEF IInv, Keyless, Removal, Empty, PurgedStaysPurged
<1> QED
  BY <1>1, Invariant, PTL

\* A step that touches the store as a sync goes on is the sync's own write.
LEMMA OnlyWrites ==
  ASSUME IInv, [Next]_vars, syncs' # syncs, resets = 0
  PROVE  \A f \in Folders : (stored[f] \ stored'[f]) \cap Here(f) = {}
<1>1. CASE \E i \in DOMAIN syncs : writeFolderSync(i)
  <2>1. PICK i \in DOMAIN syncs : writeFolderSync(i)
    BY <1>1
  <2> SUFFICES ASSUME NEW f \in Folders, NEW m \in Msgs,
                      m \in stored[f], m \notin stored'[f], mailbox[f][m] = "here"
               PROVE  FALSE
    BY DEF Here
  <2>2. f \in syncs[i].folder /\ stored'[f] = Written(syncs[i], stored[f]) \ Old
    BY <2>1 DEF writeFolderSync
  <2>3. m \notin Old
    BY DEF IInv, Listing, Old
  <2>4. syncs[i].complete /\ m \notin syncs[i].got
    BY <2>2, <2>3 DEF Written
  <2> QED
    BY <2>1, <2>2, <2>4 DEF writeFolderSync, IInv, Listing
<1>2. CASE ~\E i \in DOMAIN syncs : writeFolderSync(i)
  <2>1. stored' = stored
    BY <1>2 DEF Next, vars, SelectAccount, PollFires, Deliver, TimedOut, RotationRefused,
                rotateVault, resetApp, removeAccount, shutdown, UiStep, initialize,
                purgeLocalData, Destroyed, Verified, VerificationDropped, SyncStep, Begin,
                listFolders, uidSearchAll, fetchMessage, EndSync, MailArrives,
                MailDeleted, NetChanges, Elsewhere, store, setMasterKey, readShard
  <2> QED
    BY <2>1
<1> QED
  BY <1>1, <1>2

\* No sync drops a message the server still has, whatever else happens meanwhile.
THEOREM KeepsMail == Spec => KeepsServerMail
<1>1. IInv /\ [Next]_vars =>
        [ resets = 0 /\ syncs' # syncs =>
            \A f \in Folders : (stored[f] \ stored'[f]) \cap Here(f) = {} ]_vars
  BY OnlyWrites
<1> QED
  BY <1>1, Invariant, PTL DEF Spec, KeepsServerMail

-----------------------------------------------------------------------------
(* How many syncs there may be.  A sync, or its posted completion, is a token; *)
(* starting one takes the flag, and a reset gives the flag back although its   *)
(* token may still be out.                                                     *)

Tokens == Len(syncs) + Occurs(posted, "synced")
Flag == IF syncInFlight THEN 1 ELSE 0

\* One token per reset and one for the flag; a reset that has not yet come to
\* initialize counts the flag's as its own.
Counted ==
  /\ Tokens <= resets + Flag
  /\ ui = "resetting" => Tokens + 1 <= resets + Flag

Domains ==
  /\ keyed \in BOOLEAN /\ timer \in BOOLEAN /\ shuttingDown \in BOOLEAN
  /\ syncInFlight \in BOOLEAN /\ net \in BOOLEAN
  /\ role \in {"attempt", "account", "removed"}
  /\ ui \in {"free", "rotating", "resetting", "removing", "deleting", "destroyed"}
  /\ ui = "rotating" => verifying <= rotations
  /\ verifying \in Nat /\ rotations \in Nat
  /\ verifying <= 1 + rotations /\ rotations <= MaxRotations

\* The tokens are a number, and what the queue's steps do to it.
LEMMA Posting ==
  ASSUME Types
  PROVE  /\ Len(syncs) \in Nat /\ Occurs(posted, "synced") \in Nat
         /\ \A x \in Posts : Occurs(Append(posted, x), "synced") =
              IF x = "synced" THEN Occurs(posted, "synced") + 1 ELSE Occurs(posted, "synced")
         /\ posted # <<>> =>
              /\ Tail(posted) \in Seq(Posts) /\ Occurs(Tail(posted), "synced") \in Nat
              /\ Occurs(posted, "synced") =
                   IF Head(posted) = "synced" THEN Occurs(Tail(posted), "synced") + 1
                                              ELSE Occurs(Tail(posted), "synced")
              /\ Occurs(Append(Tail(posted), "delete"), "synced")
                   = Occurs(Tail(posted), "synced")
<1>1. posted \in Seq(Posts) /\ Len(syncs) \in Nat
  BY DEF Types
<1>2. Occurs(posted, "synced") \in Nat
  BY <1>1, Counting
<1>3. \A x \in Posts : Occurs(Append(posted, x), "synced") =
        IF x = "synced" THEN Occurs(posted, "synced") + 1 ELSE Occurs(posted, "synced")
  BY <1>1, CountingAppend
<1>4. ASSUME posted # <<>>
      PROVE  /\ Tail(posted) \in Seq(Posts)
             /\ Occurs(posted, "synced") =
                  IF Head(posted) = "synced" THEN Occurs(Tail(posted), "synced") + 1
                                             ELSE Occurs(Tail(posted), "synced")
  BY <1>1, <1>4, CountingTail
<1>5. ASSUME posted # <<>>
      PROVE  /\ Occurs(Tail(posted), "synced") \in Nat
             /\ Occurs(Append(Tail(posted), "delete"), "synced")
                  = Occurs(Tail(posted), "synced")
  <2>1. Tail(posted) \in Seq(Posts)
    BY <1>4, <1>5
  <2>2. "delete" \in Posts
    BY DEF Posts
  <2>3. Occurs(Tail(posted), "synced") \in Nat
    BY <2>1, Counting
  <2>4. \A q \in Seq(Posts) : Occurs(Append(q, "delete"), "synced") = Occurs(q, "synced")
    <3> TAKE q \in Seq(Posts)
    <3> QED
      BY <2>2, CountingAppend
  <2> QED
    BY <2>1, <2>3, <2>4
<1> QED
  BY <1>1, <1>2, <1>3, <1>4, <1>5

\* syncNow takes the flag for the token it makes, or does nothing.
LEMMA TokenTaken ==
  ASSUME Types, syncNow
  PROVE  \/ Len(syncs') = Len(syncs) + 1 /\ ~syncInFlight /\ syncInFlight'
         \/ UNCHANGED <<syncs, syncInFlight>>
<1>1. CASE MaySync
  <2>1. syncs' = Append(syncs, Queued) /\ syncInFlight' /\ ~syncInFlight
    BY <1>1 DEF syncNow, MaySync
  <2>2. Queued \in Sync /\ syncs \in Seq(Sync)
    BY DEF Queued, Sync, Types
  <2>3. Len(syncs') = Len(syncs) + 1
    BY <2>1, <2>2, Appending
  <2> QED
    BY <2>1, <2>3
<1>2. CASE ~MaySync
  BY <1>2 DEF syncNow
<1> QED
  BY <1>1, <1>2

\* A step of a sync keeps its token, turns it into a completion, or drops it.
LEMMA TokenKept ==
  ASSUME Types, NEW i \in DOMAIN syncs, SyncStep(i)
  PROVE  /\ \/ Len(syncs') = Len(syncs) /\ posted' = posted
            \/ Len(syncs') = Len(syncs) - 1 /\ posted' = posted
            \/ Len(syncs') = Len(syncs) - 1 /\ posted' = Append(posted, "synced")
         /\ UNCHANGED <<net, role, keyed, timer, shuttingDown, syncInFlight, verifying,
                        ui, rotations, resets>>
<1>1. UNCHANGED <<net, role, keyed, timer, shuttingDown, syncInFlight, verifying,
                  ui, rotations, resets>>
  BY DEF SyncStep, Begin, listFolders, uidSearchAll, fetchMessage, writeFolderSync,
         EndSync, WorkerStep, server, store, counters
<1>2. Len(RemoveAt(syncs, i)) = Len(syncs) - 1
  BY Removing DEF Types
<1>3. \A x : Len([syncs EXCEPT ![i] = x]) = Len(syncs)
  BY DEF Types
<1>4. Begin(i) => /\ posted' = posted
                  /\ syncs' = RemoveAt(syncs, i) \/ \E x : syncs' = [syncs EXCEPT ![i] = x]
  BY DEF Begin
<1>5. listFolders(i) =>
        \/ posted' = posted /\ \E x : syncs' = [syncs EXCEPT ![i] = x]
        \/ posted' = Append(posted, "synced") /\ syncs' = RemoveAt(syncs, i)
  BY DEF listFolders, Report
<1>6. writeFolderSync(i) => posted' = posted /\ \E x : syncs' = [syncs EXCEPT ![i] = x]
  BY DEF writeFolderSync
<1>7. EndSync(i) => posted' = Append(posted, "synced") /\ syncs' = RemoveAt(syncs, i)
  BY DEF EndSync, Report
<1>8. \A f : uidSearchAll(i, f) => posted' = posted /\ \E x : syncs' = [syncs EXCEPT ![i] = x]
  BY DEF uidSearchAll
<1>9. \A m : fetchMessage(i, m) => posted' = posted /\ \E x : syncs' = [syncs EXCEPT ![i] = x]
  BY DEF fetchMessage
<1> QED
  BY <1>1, <1>2, <1>3, <1>4, <1>5, <1>6, <1>7, <1>8, <1>9 DEF SyncStep

LEMMA InitCounted == Init => Counted /\ Domains
<1> SUFFICES ASSUME Init PROVE Counted /\ Domains
  OBVIOUS
<1>1. Occurs(<<>>, "synced") = 0
  BY CountingNone
<1>2. Counted
  BY <1>1 DEF Init, Counted, Tokens, Flag
<1>3. Domains
  <2>1. verifying \in Nat /\ rotations \in Nat /\ verifying <= 1 + rotations
        /\ rotations <= MaxRotations
    BY ImapAssumption DEF Init
  <2>2. /\ keyed \in BOOLEAN /\ timer \in BOOLEAN /\ shuttingDown \in BOOLEAN
        /\ syncInFlight \in BOOLEAN /\ net \in BOOLEAN
    BY DEF Init
  <2>3. role \in {"attempt", "account", "removed"} /\ ui = "free"
    BY DEF Init
  <2> QED
    BY <2>1, <2>2, <2>3 DEF Domains
<1> QED
  BY <1>2, <1>3

LEMMA DomainsKept ==
  ASSUME Types, Domains, [Next]_vars
  PROVE  Domains'
<1> USE DEF Domains, server, store, counters
<1>1. syncNow => syncInFlight' \in BOOLEAN
  BY DEF syncNow
<1>2. CASE SelectAccount \/ PollFires
  BY <1>1, <1>2 DEF SelectAccount, PollFires
<1>3. CASE Deliver
  BY <1>1, <1>3 DEF Deliver, Started, Refused, Synced, Deleted
<1>4. CASE TimedOut \/ RotationRefused
  BY <1>4 DEF TimedOut, RotationRefused
<1>5. CASE rotateVault
  <2>1. verifying' \in Nat /\ rotations' \in Nat
        /\ verifying' <= rotations' /\ verifying' <= 1 + rotations'
        /\ rotations' <= MaxRotations
    BY <1>5, ImapAssumption DEF rotateVault
  <2>2. /\ timer' \in BOOLEAN /\ ui' = "rotating"
        /\ UNCHANGED <<shuttingDown, syncInFlight, net, role, keyed>>
    BY <1>5 DEF rotateVault
  <2> QED
    BY <2>1, <2>2
<1>6. CASE resetApp \/ removeAccount
  BY <1>6 DEF resetApp, removeAccount, shutdown
<1>7. CASE UiStep
  <2>1. CASE setMasterKey
    BY <2>1, ImapAssumption DEF setMasterKey
  <2>2. CASE initialize
    BY <2>2 DEF initialize
  <2>3. CASE purgeLocalData
    BY <2>3 DEF purgeLocalData
  <2>4. CASE Destroyed
    BY <2>4 DEF Destroyed
  <2> QED
    BY <1>7, <2>1, <2>2, <2>3, <2>4 DEF UiStep
<1>8. CASE Verified \/ VerificationDropped
  <2>1. verifying' \in Nat /\ verifying' <= verifying
        /\ UNCHANGED <<keyed, timer, shuttingDown, syncInFlight, net, role, ui, rotations>>
    BY <1>8 DEF Verified, VerificationDropped
  <2>2. verifying' <= 1 + rotations /\ (ui = "rotating" => verifying' <= rotations)
    BY <2>1
  <2> QED
    BY <2>1, <2>2
<1>9. CASE \E i \in DOMAIN syncs : SyncStep(i)
  BY <1>9, TokenKept
<1>10. CASE \E f \in Folders, m \in Msgs : MailArrives(f, m) \/ MailDeleted(f, m)
  BY <1>10 DEF MailArrives, MailDeleted, Elsewhere
<1>11. CASE NetChanges
  BY <1>11 DEF NetChanges, Elsewhere
<1>12. CASE \E m \in Msgs : readShard(m)
  BY <1>12 DEF readShard, WorkerStep
<1>13. CASE UNCHANGED vars
  BY <1>13 DEF vars
<1> QED
  BY <1>2, <1>3, <1>4, <1>5, <1>6, <1>7, <1>8, <1>9, <1>10, <1>11, <1>12, <1>13 DEF Next

\* No step makes more tokens than the flag and the resets allow.
LEMMA CountedKept ==
  ASSUME Types, Domains, Counted, [Next]_vars
  PROVE  Counted'
<1>1. /\ Len(syncs) \in Nat /\ Occurs(posted, "synced") \in Nat /\ resets \in Nat
      /\ syncInFlight \in BOOLEAN
  BY Posting DEF Types, Domains
<1>2. Flag = 0 \/ Flag = 1
  BY DEF Flag
<1>3. ASSUME ui = "free", ui' = ui, resets' = resets, syncNow,
             Occurs(posted', "synced") = Occurs(posted, "synced")
      PROVE  Counted'
  <2>1. CASE Len(syncs') = Len(syncs) + 1 /\ ~syncInFlight /\ syncInFlight'
    BY <1>1, <1>3, <2>1 DEF Counted, Tokens, Flag
  <2>2. CASE UNCHANGED <<syncs, syncInFlight>>
    BY <1>1, <1>3, <2>2 DEF Counted, Tokens, Flag
  <2> QED
    BY <1>3, <2>1, <2>2, TokenTaken
<1>4. ASSUME resets' = resets, syncInFlight' = syncInFlight,
             ui' = ui \/ ui' # "resetting", Len(syncs') \in Nat,
             Occurs(posted', "synced") \in Nat, Tokens' <= Tokens
      PROVE  Counted'
  BY <1>1, <1>4 DEF Counted, Tokens, Flag
<1>5. CASE SelectAccount \/ PollFires
  BY <1>3, <1>5 DEF SelectAccount, PollFires, counters
<1>6. CASE Deliver
  <2>1. /\ ui = "free" /\ posted # <<>> /\ resets' = resets
        /\ Started \/ Refused \/ Synced \/ Deleted
    BY <1>6 DEF Deliver, counters
  <2>2. /\ Occurs(Tail(posted), "synced") \in Nat
        /\ Occurs(posted, "synced") =
             IF Head(posted) = "synced" THEN Occurs(Tail(posted), "synced") + 1
                                        ELSE Occurs(Tail(posted), "synced")
        /\ Occurs(Append(Tail(posted), "delete"), "synced") = Occurs(Tail(posted), "synced")
    BY <2>1, Posting
  <2>3. CASE Started
    BY <1>3, <2>1, <2>2, <2>3 DEF Started
  <2>4. CASE Refused
    <3>1. posted' = Tail(posted) \/ posted' = Append(Tail(posted), "delete")
      BY <2>4 DEF Refused
    <3>2. Occurs(posted', "synced") = Occurs(posted, "synced")
      BY <2>2, <2>4, <3>1 DEF Refused
    <3> QED
      BY <1>1, <1>4, <2>1, <2>4, <3>2 DEF Refused, Tokens
  <2>5. CASE Synced
    <3>1. /\ posted' = Tail(posted) /\ Head(posted) = "synced" /\ syncInFlight' = FALSE
          /\ UNCHANGED <<syncs, ui>>
      BY <2>5 DEF Synced
    <3>2. Tokens' + 1 = Tokens
      BY <1>1, <2>2, <3>1 DEF Tokens
    <3> QED
      BY <1>1, <1>2, <2>1, <2>2, <3>1, <3>2 DEF Counted, Tokens, Flag
  <2>6. CASE Deleted
    BY <1>1, <1>4, <2>1, <2>2, <2>6 DEF Deleted, Tokens
  <2> QED
    BY <2>1, <2>3, <2>4, <2>5, <2>6
<1>7. CASE TimedOut \/ purgeLocalData
  <2>1. "delete" \in Posts
    BY DEF Posts
  <2>2. posted' = Append(posted, "delete")
    BY <1>7 DEF TimedOut, purgeLocalData
  <2>3. Occurs(posted', "synced") = Occurs(posted, "synced")
    BY <2>1, <2>2, Posting
  <2> QED
    BY <1>1, <1>4, <1>7, <2>3 DEF TimedOut, purgeLocalData, counters, Tokens
<1>8. CASE RotationRefused \/ rotateVault \/ setMasterKey
  BY <1>1, <1>4, <1>8 DEF RotationRefused, rotateVault, setMasterKey, counters, Tokens
<1>9. CASE resetApp
  BY <1>1, <1>2, <1>9 DEF resetApp, shutdown, Counted, Tokens, Flag
<1>10. CASE removeAccount
  BY <1>1, <1>4, <1>10 DEF removeAccount, shutdown, Tokens
<1>11. CASE initialize
  BY <1>1, <1>2, <1>11 DEF initialize, counters, Counted, Tokens, Flag
<1>12. CASE Destroyed
  <2>1. Occurs(<<>>, "synced") = 0
    BY CountingNone
  <2> QED
    BY <1>1, <1>4, <1>12, <2>1 DEF Destroyed, counters, Tokens
<1>13. CASE Verified
  <2>1. {"started", "refused"} \subseteq Posts
    BY DEF Posts
  <2>2. posted' = Append(posted, "started") \/ posted' = Append(posted, "refused")
    BY <1>13 DEF Verified
  <2>3. /\ Occurs(Append(posted, "started"), "synced") = Occurs(posted, "synced")
        /\ Occurs(Append(posted, "refused"), "synced") = Occurs(posted, "synced")
    BY <2>1, Posting
  <2>4. Occurs(posted', "synced") = Occurs(posted, "synced")
    BY <2>2, <2>3
  <2> QED
    BY <1>1, <1>4, <1>13, <2>4 DEF Verified, counters, Tokens
<1>14. CASE VerificationDropped
  BY <1>1, <1>4, <1>14 DEF VerificationDropped, counters, Tokens
<1>15. ASSUME NEW i \in DOMAIN syncs, SyncStep(i)
       PROVE  Counted'
  <2>1. "synced" \in Posts
    BY DEF Posts
  <2>2. Occurs(Append(posted, "synced"), "synced") = Occurs(posted, "synced") + 1
    BY <2>1, Posting
  <2>3. Len(syncs) \in Nat \ {0}
    BY DEF Types
  <2>4. /\ \/ Len(syncs') = Len(syncs) /\ posted' = posted
           \/ Len(syncs') = Len(syncs) - 1 /\ posted' = posted
           \/ Len(syncs') = Len(syncs) - 1 /\ posted' = Append(posted, "synced")
        /\ UNCHANGED <<syncInFlight, ui, resets>>
    BY <1>15, TokenKept
  <2>5. /\ Len(syncs') \in Nat /\ Occurs(posted', "synced") \in Nat
        /\ Tokens' <= Tokens
    <3>1. CASE posted' = posted
      BY <1>1, <2>3, <2>4, <3>1 DEF Tokens
    <3>2. CASE Len(syncs') = Len(syncs) - 1 /\ posted' = Append(posted, "synced")
      <4>1. Occurs(posted', "synced") = Occurs(posted, "synced") + 1
        BY <2>2, <3>2
      <4> QED
        BY <1>1, <2>3, <3>2, <4>1 DEF Tokens
    <3> QED
      BY <2>4, <3>1, <3>2
  <2> QED
    BY <1>4, <2>4, <2>5
<1>16. CASE \/ NetChanges
            \/ \E f \in Folders, m \in Msgs : MailArrives(f, m) \/ MailDeleted(f, m)
  BY <1>1, <1>4, <1>16 DEF NetChanges, MailArrives, MailDeleted, Elsewhere, counters, Tokens
<1>17. CASE \E m \in Msgs : readShard(m)
  BY <1>1, <1>4, <1>17 DEF readShard, WorkerStep, counters, Tokens
<1>18. CASE UNCHANGED vars
  BY <1>1, <1>4, <1>18 DEF vars, Tokens
<1> QED
  BY <1>5, <1>6, <1>7, <1>8, <1>9, <1>10, <1>11, <1>12, <1>13, <1>14, <1>15, <1>16, <1>17, <1>18
     DEF Next, UiStep

\* The variables keep their types, and syncs are apart: never two at a time, and
\* one more per reset, however often completions outlive the reset that gave
\* their flag away.
THEOREM TypeCorrect == Spec => []TypeOK
<1>1. Init => IInv /\ Domains /\ Counted
  BY InitIInv, InitCounted
<1>2. IInv /\ Domains /\ Counted /\ [Next]_vars => (IInv /\ Domains /\ Counted)'
  BY Inductive, DomainsKept, CountedKept DEF IInv
<1>3. IInv /\ Domains /\ Counted => TypeOK
  <2> SUFFICES ASSUME IInv, Domains, Counted PROVE TypeOK
    OBVIOUS
  <2>1. OneSync
    BY Posting DEF IInv, Types, Counted, Tokens, Flag, OneSync
  <2>2. \A i \in DOMAIN syncs :
          /\ syncs[i].todo \subseteq Folders /\ syncs[i].folder \subseteq Folders
          /\ syncs[i].left \subseteq Msgs /\ syncs[i].got \subseteq Msgs
    BY Fields DEF IInv
  <2>3. ToSet(posted) \subseteq {"started", "refused", "synced", "delete"}
    BY DEF IInv, Types, ToSet, Posts
  <2>4. {keyed, timer, shuttingDown, syncInFlight, net} \subseteq BOOLEAN
    BY Zenon DEF Domains
  <2>5. verifying \in 0..1 + MaxRotations
    BY ImapAssumption DEF Domains
  <2>6. \A f \in Folders : stored[f] \subseteq Msgs /\ stale[f] \subseteq Msgs
    BY DEF IInv, Types
  <2> QED
    BY <2>1, <2>2, <2>3, <2>4, <2>5, <2>6 DEF TypeOK, Domains
<1> QED
  BY <1>1, <1>2, <1>3, PTL DEF Spec

=============================================================================
