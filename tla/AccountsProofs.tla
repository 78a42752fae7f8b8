--------------------------- MODULE AccountsProofs ---------------------------
(***************************************************************************)
(* Proofs about Accounts, for all users, credentials and bounds.           *)
(*                                                                         *)
(* The registry is consistent because a registered backend that is still   *)
(* alive has the id its account was registered with (Sole): its handlers   *)
(* either find that id registered, or register nothing.                    *)
(*                                                                         *)
(* The rail is what the vault persists because whole credentials and their *)
(* id determine each other (Naming): the lookups by id are then lookups by *)
(* the key of a row (Rail), and an id is pending exactly as long as a      *)
(* store opened for it has no account yet (Apart).                         *)
(***************************************************************************)
EXTENDS Accounts, FiniteSetTheorems, TLAPS

-----------------------------------------------------------------------------
(* Sequences. *)

\* RemoveAt leaves the other elements, in order.
LEMMA Removing ==
  ASSUME NEW S, NEW s \in Seq(S), NEW i \in DOMAIN s
  PROVE  /\ RemoveAt(s, i) \in Seq(S)
         /\ Len(RemoveAt(s, i)) = Len(s) - 1
         /\ \A j \in DOMAIN RemoveAt(s, i) :
              LET k == IF j < i THEN j ELSE j + 1
              IN  k \in DOMAIN s /\ RemoveAt(s, i)[j] = s[k]
<1> DEFINE a == SubSeq(s, 1, i - 1)
           b == SubSeq(s, i + 1, Len(s))
<1>1. i \in 1 .. Len(s) /\ Len(s) \in Nat
  OBVIOUS
<1>2. a \in Seq(S) /\ Len(a) = i - 1 /\ \A j \in 1 .. i - 1 : a[j] = s[j]
  BY <1>1
<1>3. b \in Seq(S) /\ Len(b) = Len(s) - i /\ \A j \in 1 .. Len(s) - i : b[j] = s[i + j]
  BY <1>1
<1> HIDE DEF a, b
<1>5. /\ a \o b \in Seq(S) /\ Len(a \o b) = Len(a) + Len(b)
      /\ \A j \in 1 .. Len(a) + Len(b) :
           (a \o b)[j] = IF j <= Len(a) THEN a[j] ELSE b[j - Len(a)]
  BY <1>2, <1>3
<1>4. /\ Len(a \o b) = Len(s) - 1
      /\ \A j \in 1 .. Len(s) - 1 : (a \o b)[j] = IF j <= i - 1 THEN a[j] ELSE b[j - (i - 1)]
  <2>1. Len(a) = i - 1 /\ Len(a) + Len(b) = Len(s) - 1
    BY <1>1, <1>2, <1>3
  <2> QED
    BY <2>1, <1>5
<1>6. \A j \in 1 .. Len(s) - 1 : /\ IF j < i THEN j \in 1 .. Len(s) ELSE j + 1 \in 1 .. Len(s)
                                 /\ (a \o b)[j] = IF j < i THEN s[j] ELSE s[j + 1]
  <2> TAKE j \in 1 .. Len(s) - 1
  <2>1. CASE j < i
    BY <2>1, <1>1, <1>2, <1>4
  <2>2. CASE ~(j < i)
    <3>1. j - (i - 1) \in 1 .. Len(s) - i /\ j + 1 \in 1 .. Len(s)
      BY <2>2, <1>1
    <3>2. (a \o b)[j] = s[i + (j - (i - 1))]
      BY <3>1, <2>2, <1>3, <1>4
    <3>3. i + (j - (i - 1)) = j + 1
      BY <1>1
    <3> QED
      BY <2>2, <3>1, <3>2, <3>3
  <2> QED
    BY <2>1, <2>2
<1>7. RemoveAt(s, i) = a \o b
  BY DEF RemoveAt, a, b
<1>8. DOMAIN s = 1 .. Len(s) /\ DOMAIN (a \o b) = 1 .. Len(s) - 1
  BY <1>1, <1>4, <1>5
<1> QED
  BY <1>4, <1>5, <1>6, <1>7, <1>8

\* Concatenation: first the one, then the other.
LEMMA Joining ==
  ASSUME NEW S, NEW s \in Seq(S), NEW t \in Seq(S)
  PROVE  /\ s \o t \in Seq(S) /\ Len(s \o t) = Len(s) + Len(t)
         /\ \A i \in DOMAIN s : i \in DOMAIN (s \o t) /\ (s \o t)[i] = s[i]
         /\ \A i \in DOMAIN t : Len(s) + i \in DOMAIN (s \o t) /\ (s \o t)[Len(s) + i] = t[i]
         /\ \A i \in DOMAIN (s \o t) :
              i \in DOMAIN s \/ (i - Len(s) \in DOMAIN t /\ (s \o t)[i] = t[i - Len(s)])
<1>1. /\ s \o t \in Seq(S) /\ Len(s \o t) = Len(s) + Len(t)
      /\ \A i \in 1 .. Len(s) + Len(t) :
           (s \o t)[i] = IF i <= Len(s) THEN s[i] ELSE t[i - Len(s)]
  OBVIOUS
<1>2. /\ DOMAIN s = 1 .. Len(s) /\ DOMAIN t = 1 .. Len(t) /\ Len(s) \in Nat /\ Len(t) \in Nat
      /\ DOMAIN (s \o t) = 1 .. Len(s) + Len(t)
  BY <1>1
<1>3. \A i \in DOMAIN t : Len(s) + i \in DOMAIN (s \o t) /\ (s \o t)[Len(s) + i] = t[i]
  <2> SUFFICES ASSUME NEW i \in 1 .. Len(t)
               PROVE  Len(s) + i \in 1 .. Len(s) + Len(t) /\ (s \o t)[Len(s) + i] = t[i]
    BY <1>2
  <2>1. Len(s) + i \in 1 .. Len(s) + Len(t) /\ ~(Len(s) + i <= Len(s)) /\ (Len(s) + i) - Len(s) = i
    BY <1>2
  <2> QED
    BY <1>1, <2>1
<1>4. \A i \in DOMAIN (s \o t) :
        i \in DOMAIN s \/ (i - Len(s) \in DOMAIN t /\ (s \o t)[i] = t[i - Len(s)])
  BY <1>1, <1>2
<1> QED
  BY <1>1, <1>2, <1>3, <1>4

\* SetToSeq lists every element of a finite set once.
LEMMA Enumerating ==
  ASSUME NEW S, IsFiniteSet(S)
  PROVE  /\ SetToSeq(S) \in Seq(S)
         /\ \A i, j \in DOMAIN SetToSeq(S) : SetToSeq(S)[i] = SetToSeq(S)[j] => i = j
         /\ \A x \in S : \E i \in DOMAIN SetToSeq(S) : SetToSeq(S)[i] = x
<1> DEFINE n == Cardinality(S)
           f == SetToSeq(S)
<1>1. n \in Nat /\ ExistsBijection(1..n, S)
  BY FS_CardinalityType
<1>2. \E g \in [1..n -> S] : IsInjective(g)
  BY <1>1 DEF ExistsBijection, Bijection, Injection
<1>3. f \in [1..n -> S] /\ IsInjective(f)
  BY <1>2 DEF SetToSeq
<1>4. f \in Injection(1..n, S)
  BY <1>3 DEF IsInjective, Injection
<1> HIDE DEF f
<1>5. Cardinality(1..n) = n
  BY <1>1, FS_Interval
<1>6. f \in Surjection(1..n, S)
  BY <1>4, <1>5, FS_Injection
<1> QED
  BY <1>1, <1>3, <1>6 DEF f, IsInjective, Surjection

-----------------------------------------------------------------------------
Keys == [type : {"imap", "proton", "deltachat"}, user : Names, host : Names]
Ids == {computeAccountId(c) : c \in Creds \cup Keys} \cup {RealId(c) : c \in Creds} \cup {NoId}
DirsOf(c) == {Dir(c, p) : p \in DeltaDirs \cup {DefaultDelta}}
Dirs == (UNION {DirsOf(c) : c \in Creds}) \cup {<<>>}
Backends == [creds : Creds, id : Ids, dir : Dirs, alive : BOOLEAN, timer : BOOLEAN, io : {0, 1}]
Entries == [id : Ids, b : Nat, creds : Creds]

Types ==
  /\ user \in Users /\ locked \in BOOLEAN
  /\ backends \in Seq(Backends) /\ Len(backends) <= MaxBackends
  /\ accounts \in Seq(Entries)
  /\ \A i \in DOMAIN accounts : accounts[i].b \in DOMAIN backends
  /\ \A i, j \in DOMAIN accounts : accounts[i].b = accounts[j].b => i = j
  /\ pendingAdds \subseteq {computeAccountId(c) : c \in user.creds}
  /\ rows \subseteq Keys /\ IsFiniteSet(rows)

\* A backend of a type with keys has the id of its credentials, if it has one; a
\* backend without an id has no timer.
Own(b) ==
  /\ b.timer => b.id # NoId
  /\ KeyAware(b.creds) =>
       /\ b.creds.addr = ""
       /\ b.id # NoId => b.id = computeAccountId(b.creds)

\* An account and the backend it refers to, while that is alive.
Sole(a, b) ==
  b.alive =>
    /\ a.creds = b.creds
    /\ b.id # NoId => a.id = RealId(b.creds)

\* Without repeated set-ups nothing is left that a registered backend's attempt
\* would still have to handle.
Silent(b) == b.alive /\ ~b.timer /\ (b.io > 0 => KeyAware(b.creds))

IInv ==
  /\ Types
  /\ \A b \in DOMAIN backends : Own(backends[b])
  /\ \A i \in DOMAIN accounts : Sole(accounts[i], backends[accounts[i].b])
  /\ ~user.setsUpAgain => \A i \in DOMAIN accounts : Silent(backends[accounts[i].b])
  /\ ProvenOnly

-----------------------------------------------------------------------------
(* Credentials and ids. *)

\* Ids, keys and backends made from credentials are typed.
LEMMA Making ==
  /\ \A c \in Creds : computeAccountId(c) \in Ids /\ RealId(c) \in Ids /\ Key(c) \in Keys
  /\ \A k \in Keys : FromRow(k) \in Creds /\ Key(FromRow(k)) = k /\ computeAccountId(k) \in Ids
  /\ NoId \in Ids /\ Deleted \in Backends
<1>1. \A c \in Creds : computeAccountId(c) \in Ids /\ RealId(c) \in Ids /\ Key(c) \in Keys
  <2>1. \A c \in Creds : computeAccountId(c) \in Ids /\ RealId(c) \in Ids
    BY DEF Ids
  <2>2. \A c \in Creds : Key(c) \in Keys
    BY DEF Key, Keys, Creds
  <2> QED
    BY <2>1, <2>2
<1>2. \A k \in Keys : FromRow(k) \in Creds /\ Key(FromRow(k)) = k /\ computeAccountId(k) \in Ids
  <2>1. ASSUME NEW k \in Keys
        PROVE  FromRow(k) \in Creds /\ Key(FromRow(k)) = k
    <3>1. FromRow(k) \in Creds
      BY NamesAssumption DEF FromRow, Keys, Creds
    <3>2. Key(FromRow(k)) = [type |-> k.type, user |-> k.user, host |-> k.host]
      BY DEF FromRow, Key
    <3>3. k = [type |-> k.type, user |-> k.user, host |-> k.host]
      BY DEF Keys
    <3> QED
      BY <3>1, <3>2, <3>3
  <2>2. \A k \in Keys : computeAccountId(k) \in Ids
    BY DEF Ids
  <2> QED
    BY <2>1, <2>2
<1>3. NoId \in Ids
  BY DEF Ids
<1>4. Deleted \in Backends
  <2>1. <<>> \in Dirs
    BY DEF Dirs
  <2>2. Deleted.creds \in Creds
    BY NamesAssumption DEF Deleted, Creds
  <2> QED
    BY <1>3, <2>1, <2>2 DEF Deleted, Backends
<1> QED
  BY <1>1, <1>2, <1>3, <1>4

\* Every directory the code forms is one of Dirs.
LEMMA Directories ==
  \A c \in Creds : \A p \in DeltaDirs \cup {DefaultDelta} : Dir(c, p) \in Dirs
<1>1. \A c \in Creds : \A p \in DeltaDirs \cup {DefaultDelta} : Dir(c, p) \in DirsOf(c)
  BY DEF DirsOf
<1>2. \A c \in Creds : DirsOf(c) \subseteq Dirs
  BY DEF Dirs
<1> QED
  BY <1>1, <1>2

-----------------------------------------------------------------------------
(* The invariant, action by action. *)

\* A step changes one backend that keeps its credentials, its id and its part of
\* the registry.
LEMMA BackendStep ==
  ASSUME IInv, NEW b \in DOMAIN backends, NEW x \in Backends,
         backends' = [backends EXCEPT ![b] = x],
         Own(x), pendingAdds' \subseteq pendingAdds,
         \A i \in DOMAIN accounts : accounts[i].b = b =>
           /\ Sole(accounts[i], x)
           /\ ~user.setsUpAgain => Silent(x),
         UNCHANGED <<user, locked, accounts, rows, refused, data, proven>>
  PROVE  IInv'
<1> USE DEF IInv
<1>1. /\ backends' \in Seq(Backends) /\ Len(backends') = Len(backends)
      /\ DOMAIN backends' = DOMAIN backends
      /\ \A c \in DOMAIN backends : backends'[c] = IF c = b THEN x ELSE backends[c]
  BY DEF Types
<1>2. Types'
  BY <1>1 DEF Types
<1>3. \A c \in DOMAIN backends' : Own(backends'[c])
  BY <1>1
<1>4. \A i \in DOMAIN accounts' : Sole(accounts'[i], backends'[accounts'[i].b])
  BY <1>1 DEF Types
<1>5. ~user'.setsUpAgain => \A i \in DOMAIN accounts' : Silent(backends'[accounts'[i].b])
  BY <1>1 DEF Types
<1>6. ProvenOnly'
  BY DEF ProvenOnly
<1> QED
  BY <1>2, <1>3, <1>4, <1>5, <1>6 DEF Own, Sole, Silent

\* An attempt begins.
LEMMA AddStep ==
  ASSUME IInv, NEW c \in user.creds, addAccount(c)
  PROVE  IInv'
<1> USE DEF IInv
<1> DEFINE id == computeAccountId(c)
           fresh == CHOOSE d \in DeltaDirs : d \notin data
           x == Backend(c, id, fresh, 1)
<1>1. c \in Creds /\ (c.type = "deltachat" <=> c.addr # "")
  BY UsersAssumption DEF Types
<1>2. /\ Len(backends) < MaxBackends /\ backends' = Append(backends, x)
      /\ pendingAdds' = pendingAdds \cup {id}
      /\ UNCHANGED <<user, locked, accounts, rows, refused, proven>>
  BY DEF addAccount
<1>3. x \in Backends
  <2>1. id \in Ids
    BY <1>1, Making
  <2>2. Dir(c, fresh) \in Dirs
    <3>1. CASE c.type = "deltachat"
      <4>1. \E d \in DeltaDirs : d \notin data
        BY <3>1 DEF addAccount
      <4>2. fresh \in DeltaDirs
        BY <4>1
      <4> HIDE DEF fresh
      <4> QED
        BY <1>1, <4>2, Directories
    <3>2. CASE c.type # "deltachat"
      <4>1. Dir(c, fresh) = Dir(c, DefaultDelta)
        BY <1>1, <3>2 DEF Dir, Creds
      <4> QED
        BY <1>1, <4>1, Directories
    <3> QED
      BY <3>1, <3>2
  <2> HIDE DEF id, fresh
  <2> QED
    BY <1>1, <2>1, <2>2 DEF Backend, Backends
<1>4. Own(x)
  BY <1>1 DEF Own, Backend, KeyAware
<1> HIDE DEF x
<1>5. /\ backends' \in Seq(Backends) /\ Len(backends') = Len(backends) + 1
      /\ DOMAIN backends' = DOMAIN backends \cup {Len(backends) + 1}
      /\ \A b \in DOMAIN backends : backends'[b] = backends[b]
      /\ backends'[Len(backends) + 1] = x
  BY <1>2, <1>3 DEF Types
<1>6. Types'
  <2>1. Len(backends') <= MaxBackends
    BY <1>2, <1>5, BoundsAssumption DEF Types
  <2>2. pendingAdds' \subseteq {computeAccountId(d) : d \in user'.creds}
    BY <1>2 DEF Types
  <2> QED
    BY <1>2, <1>5, <2>1, <2>2 DEF Types
<1>7. \A b \in DOMAIN backends' : Own(backends'[b])
  BY <1>4, <1>5
<1>8. \A i \in DOMAIN accounts' : Sole(accounts'[i], backends'[accounts'[i].b])
  BY <1>2, <1>5 DEF Types
<1>9. ~user'.setsUpAgain => \A i \in DOMAIN accounts' : Silent(backends'[accounts'[i].b])
  BY <1>2, <1>5 DEF Types
<1>10. ProvenOnly'
  BY <1>2 DEF ProvenOnly
<1> QED
  BY <1>6, <1>7, <1>8, <1>9, <1>10 DEF Own, Sole, Silent

\* Where nobody sets up again, a result or a timer that still finds its attempt
\* open never concerns a registered backend.
LEMMA NotRegistered ==
  ASSUME IInv, ~user.setsUpAgain, NEW b \in DOMAIN backends, NEW i \in DOMAIN accounts,
         backends[b].id # NoId, ~Resolved(b), backends[b].io > 0 \/ backends[b].timer
  PROVE  accounts[i].b # b
<1> SUFFICES ASSUME accounts[i].b = b
             PROVE  FALSE
  OBVIOUS
<1>1. Own(backends[b]) /\ Sole(accounts[i], backends[b]) /\ Silent(backends[b])
  BY DEF IInv
<1>2. backends[b].alive /\ KeyAware(backends[b].creds)
  BY <1>1 DEF Silent
<1>3. accounts[i].id = RealId(backends[b].creds) /\ RealId(backends[b].creds) = backends[b].id
  BY <1>1, <1>2 DEF Own, Sole, RealId
<1> QED
  BY <1>3 DEF Resolved, accountById, Registered

\* A result without consequence, a discarded attempt or a further set-up.
LEMMA ResultStep ==
  ASSUME IInv, NEW b \in DOMAIN backends,
         (\E ok \in BOOLEAN : IoRefused(b, ok)) \/ ConfigureFails(b) \/ TimedOut(b)
  PROVE  IInv'
<1> DEFINE old == backends[b]
<1>1. old \in Backends /\ Own(old)
  BY DEF IInv, Types
<1>2. /\ pendingAdds' \subseteq pendingAdds /\ old.alive /\ (old.io > 0 \/ old.timer)
      /\ UNCHANGED <<user, locked, accounts, rows, refused, data, proven>>
  BY DEF IoRefused, ConfigureFails, TimedOut, Alive
<1>3. \A i \in DOMAIN accounts : accounts[i].b = b =>
        Sole(accounts[i], old) /\ (~user.setsUpAgain => Silent(old))
  BY DEF IInv
<1>4. ASSUME NEW x \in Backends, backends' = [backends EXCEPT ![b] = x],
             x.creds = old.creds, x.id = old.id, x.alive = old.alive,
             x.timer => old.timer, x.io > 0 => old.io > 0
      PROVE  IInv'
  <2>1. Own(x)
    BY <1>1, <1>4 DEF Own
  <2>2. \A i \in DOMAIN accounts : accounts[i].b = b =>
          Sole(accounts[i], x) /\ (~user.setsUpAgain => Silent(x))
    BY <1>3, <1>4 DEF Sole, Silent
  <2> QED
    BY <1>2, <1>4, <2>1, <2>2, BackendStep
<1>5. ASSUME backends' = [backends EXCEPT ![b] = Deleted], old.id # NoId, ~Resolved(b)
      PROVE  IInv'
  <2>1. Deleted \in Backends /\ Own(Deleted)
    BY Making DEF Own, Deleted, KeyAware
  <2>2. \A i \in DOMAIN accounts : accounts[i].b = b => Sole(accounts[i], Deleted)
    BY DEF Sole, Deleted
  <2>3. \A i \in DOMAIN accounts : accounts[i].b = b => user.setsUpAgain
    BY <1>2, <1>5, NotRegistered
  <2> QED
    BY <1>2, <1>5, <2>1, <2>2, <2>3, BackendStep
<1>6. CASE old.io > 0 /\ (old.id = NoId \/ Resolved(b)) /\ ~TimedOut(b)
  <2> DEFINE x == [old EXCEPT !.io = @ - 1]
  <2>1. backends' = [backends EXCEPT ![b] = x]
    <3>1. ASSUME NEW ok \in BOOLEAN, IoRefused(b, ok)
          PROVE  backends' = [backends EXCEPT ![b] = x]
      BY <1>6, <3>1 DEF IoRefused
    <3>2. ConfigureFails(b) => backends' = [backends EXCEPT ![b] = x]
      BY <1>6 DEF ConfigureFails
    <3> QED
      BY <1>6, <3>1, <3>2
  <2>2. old.io = 1
    BY <1>1, <1>6 DEF Backends
  <2>3. /\ x \in Backends /\ x.creds = old.creds /\ x.id = old.id /\ x.alive = old.alive
        /\ (x.timer => old.timer) /\ ~(x.io > 0)
    BY <1>1, <2>2 DEF Backends
  <2> HIDE DEF x
  <2> QED
    BY <1>4, <2>1, <2>3
<1>7. CASE old.io > 0 /\ old.id # NoId /\ ~Resolved(b) /\ ~TimedOut(b)
  BY <1>5, <1>7 DEF IoRefused, ConfigureFails, Discarded
<1>8. CASE TimedOut(b) /\ Resolved(b)
  <2> DEFINE x == [old EXCEPT !.timer = FALSE]
  <2>1. backends' = [backends EXCEPT ![b] = x]
    BY <1>8 DEF TimedOut
  <2>2. /\ x \in Backends /\ x.creds = old.creds /\ x.id = old.id /\ x.alive = old.alive
        /\ ~x.timer /\ x.io = old.io
    BY <1>1 DEF Backends
  <2> HIDE DEF x
  <2> QED
    BY <1>4, <2>1, <2>2
<1>9. CASE TimedOut(b) /\ ~Resolved(b)
  <2>1. old.id # NoId
    BY <1>1, <1>9 DEF TimedOut, Own
  <2> QED
    BY <1>5, <1>9, <2>1 DEF TimedOut, Discarded
<1> QED
  BY <1>6, <1>7, <1>8, <1>9 DEF IoRefused, ConfigureFails

\* A registered account is set up again.
LEMMA SetupStep ==
  ASSUME IInv, setupFromQr
  PROVE  IInv'
<1>1. PICK i \in DOMAIN accounts : backends' = [backends EXCEPT ![accounts[i].b].io = 1]
  BY DEF setupFromQr
<1>2. /\ user.setsUpAgain
      /\ UNCHANGED <<user, locked, accounts, pendingAdds, rows, refused, data, proven>>
  BY DEF setupFromQr
<1> DEFINE b == accounts[i].b
           old == backends[b]
           x == [old EXCEPT !.io = 1]
<1>3. b \in DOMAIN backends /\ old \in Backends /\ Own(old)
  BY DEF IInv, Types
<1>4. x \in Backends /\ x.creds = old.creds /\ x.id = old.id /\ x.alive = old.alive
      /\ x.timer = old.timer
  BY <1>3 DEF Backends
<1>5. backends' = [backends EXCEPT ![b] = x]
  BY <1>1
<1>6. \A j \in DOMAIN accounts : accounts[j].b = b => Sole(accounts[j], old)
  BY DEF IInv
<1> HIDE DEF b, x, old
<1>7. Own(x) /\ \A j \in DOMAIN accounts : accounts[j].b = b => Sole(accounts[j], x)
  BY <1>3, <1>4, <1>6 DEF Own, Sole
<1> QED
  BY <1>2, <1>3, <1>4, <1>5, <1>7, BackendStep

\* An attempt succeeds: its backend, which no account refers to, is registered.
LEMMA SucceedStep ==
  ASSUME IInv, NEW b \in DOMAIN backends, Succeeded(b)
  PROVE  IInv'
<1> USE DEF IInv
<1> DEFINE old == backends[b]
           c == Stamped(old.creds)
           real == RealId(old.creds)
           x == [old EXCEPT !.timer = FALSE, !.io = @ - 1, !.creds = c]
           a == [id |-> real, b |-> b, creds |-> c]
<1>1. /\ old.io > 0 /\ old.alive /\ old.id # NoId /\ ~accountById(real)
      /\ backends' = [backends EXCEPT ![b] = x]
      /\ accounts' = Append(accounts, a)
      /\ proven' = proven \cup {Key(c)}
      /\ rows' = rows \cup {Key(c)} \/ rows' = rows
      /\ pendingAdds' = pendingAdds \ {old.id}
      /\ UNCHANGED <<user, locked, data>>
  BY DEF Succeeded, Alive
<1>2. old \in Backends /\ Own(old) /\ b \in Nat
  BY DEF Types
<1>3. c \in Creds /\ RealId(c) = real /\ (KeyAware(c) => c = old.creds) /\ c.addr = old.creds.addr
  <2>1. old.creds \in Creds
    BY <1>2 DEF Backends
  <2>2. CASE c = old.creds
    BY <2>1, <2>2
  <2>3. CASE c # old.creds
    <3>1. old.creds.addr # "" /\ c = [old.creds EXCEPT !.user = old.creds.addr]
      BY <2>3 DEF Stamped
    <3>2. c \in Creds /\ c.addr = old.creds.addr /\ c.type = old.creds.type
      BY <2>1, <3>1 DEF Creds
    <3>3. ~KeyAware(c)
      BY <1>2, <3>1, <3>2 DEF Own, KeyAware
    <3> QED
      BY <3>1, <3>2, <3>3 DEF RealId
  <2> QED
    BY <2>2, <2>3
<1>4. old.io = 1
  BY <1>1, <1>2 DEF Backends
<1>5. /\ x \in Backends /\ x.creds = c /\ x.id = old.id /\ x.alive /\ ~x.timer /\ ~(x.io > 0)
  <2> HIDE DEF c, old
  <2>1. x \in Backends
    <3>1. old \in Backends /\ c \in Creds /\ old.io - 1 = 0
      BY <1>2, <1>3, <1>4
    <3>2. [old EXCEPT !.timer = FALSE, !.io = 0, !.creds = c] \in Backends
      BY <3>1 DEF Backends
    <3> QED
      BY <3>1, <3>2
  <2>2. x.creds = c /\ x.id = old.id /\ x.alive = old.alive /\ x.timer = FALSE /\ x.io = old.io - 1
    BY <1>2 DEF Backends
  <2> HIDE DEF x
  <2> QED
    BY <1>1, <1>4, <2>1, <2>2
<1>6. a \in Entries /\ Key(c) \in Keys
  <2>1. real \in Ids /\ Key(c) \in Keys
    BY <1>2, <1>3, Making DEF Backends
  <2> HIDE DEF real, c
  <2> QED
    BY <1>2, <1>3, <2>1 DEF Entries
<1>7. \A i \in DOMAIN accounts : accounts[i].b # b
  <2> SUFFICES ASSUME NEW i \in DOMAIN accounts, accounts[i].b = b
               PROVE  FALSE
    OBVIOUS
  <2>1. Sole(accounts[i], old)
    OBVIOUS
  <2>2. accounts[i].id = real
    BY <1>1, <2>1 DEF Sole
  <2> QED
    BY <1>1, <2>2 DEF accountById, Registered
<1>8. Own(x)
  BY <1>2, <1>3, <1>5 DEF Own
<1>9. a.id = real /\ a.b = b /\ a.creds = c
  OBVIOUS
<1> HIDE DEF x, a, old, real, c
<1>10. /\ backends' \in Seq(Backends) /\ Len(backends') = Len(backends)
       /\ DOMAIN backends' = DOMAIN backends
       /\ \A d \in DOMAIN backends : backends'[d] = IF d = b THEN x ELSE backends[d]
  BY <1>1, <1>5 DEF Types
<1>11. /\ accounts' \in Seq(Entries)
       /\ DOMAIN accounts' = DOMAIN accounts \cup {Len(accounts) + 1}
       /\ Len(accounts) + 1 \notin DOMAIN accounts
       /\ \A i \in DOMAIN accounts : accounts'[i] = accounts[i]
       /\ accounts'[Len(accounts) + 1] = a
  BY <1>1, <1>6 DEF Types
<1>12. Types'
  <2>1. \A i, j \in DOMAIN accounts' : accounts'[i].b = accounts'[j].b => i = j
    BY <1>7, <1>9, <1>11 DEF Types
  <2>2. \A i \in DOMAIN accounts' : accounts'[i].b \in DOMAIN backends'
    BY <1>9, <1>10, <1>11 DEF Types
  <2>3. rows' \subseteq Keys /\ IsFiniteSet(rows')
    BY <1>1, <1>6, FS_AddElement DEF Types
  <2>4. /\ user' \in Users /\ locked' \in BOOLEAN /\ Len(backends') <= MaxBackends
        /\ pendingAdds' \subseteq {computeAccountId(d) : d \in user'.creds}
    BY <1>1, <1>10 DEF Types
  <2> QED
    BY <1>10, <1>11, <2>1, <2>2, <2>3, <2>4 DEF Types
<1>13. \A d \in DOMAIN backends' : Own(backends'[d])
  BY <1>8, <1>10
<1>14. \A i \in DOMAIN accounts' : Sole(accounts'[i], backends'[accounts'[i].b])
  <2>1. Sole(a, x)
    BY <1>3, <1>5, <1>9 DEF Sole
  <2> QED
    BY <1>7, <1>9, <1>10, <1>11, <2>1 DEF Types
<1>15. ~user'.setsUpAgain => \A i \in DOMAIN accounts' : Silent(backends'[accounts'[i].b])
  <2>1. Silent(x)
    BY <1>5 DEF Silent
  <2> QED
    BY <1>1, <1>7, <1>9, <1>10, <1>11, <2>1 DEF Types
<1>16. ProvenOnly'
  BY <1>1, <1>9, <1>11 DEF ProvenOnly
<1> QED
  BY <1>12, <1>13, <1>14, <1>15, <1>16 DEF Own, Sole, Silent

\* An account is removed with its backend and its row.
LEMMA RemoveStep ==
  ASSUME IInv, NEW i \in DOMAIN accounts, removeAccount(i)
  PROVE  IInv'
<1> USE DEF IInv
<1> DEFINE b == accounts[i].b
           from(j) == IF j < i THEN j ELSE j + 1
<1>1. /\ backends' = [backends EXCEPT ![b] = Deleted] /\ accounts' = RemoveAt(accounts, i)
      /\ rows' = rows \ {RemovedRow(accounts[i])} \/ rows' = rows
      /\ UNCHANGED <<user, locked, pendingAdds, proven>>
  BY DEF removeAccount
<1>2. /\ b \in DOMAIN backends /\ Deleted \in Backends /\ Own(Deleted)
  BY Making DEF Types, Own, Deleted, KeyAware
<1>3. /\ backends' \in Seq(Backends) /\ Len(backends') = Len(backends)
      /\ DOMAIN backends' = DOMAIN backends
      /\ \A d \in DOMAIN backends : backends'[d] = IF d = b THEN Deleted ELSE backends[d]
  BY <1>1, <1>2 DEF Types
<1>4. /\ accounts' \in Seq(Entries)
      /\ \A j \in DOMAIN accounts' : from(j) \in DOMAIN accounts /\ accounts'[j] = accounts[from(j)]
  BY <1>1, Removing DEF Types
<1>5. /\ \A j \in DOMAIN accounts' : from(j) # i /\ accounts'[j].b # b
      /\ \A j, k \in DOMAIN accounts' : from(j) = from(k) => j = k
  <2>1. i \in Nat /\ DOMAIN accounts' \subseteq Nat
    BY <1>4 DEF Types
  <2>2. \A j \in DOMAIN accounts' : from(j) # i
    BY <2>1
  <2>3. \A j, k \in DOMAIN accounts' : from(j) = from(k) => j = k
    BY <2>1
  <2> HIDE DEF from
  <2>4. \A j \in DOMAIN accounts' : accounts'[j].b # b
    BY <1>4, <2>2 DEF Types
  <2> QED
    BY <2>2, <2>3, <2>4
<1> HIDE DEF from, b
<1>6. Types'
  <2>1. \A j, k \in DOMAIN accounts' : accounts'[j].b = accounts'[k].b => j = k
    BY <1>4, <1>5 DEF Types
  <2>2. \A j \in DOMAIN accounts' : accounts'[j].b \in DOMAIN backends'
    BY <1>3, <1>4 DEF Types
  <2>3. rows' \subseteq Keys /\ IsFiniteSet(rows')
    BY <1>1, FS_RemoveElement DEF Types
  <2> QED
    BY <1>1, <1>3, <1>4, <2>1, <2>2, <2>3 DEF Types
<1>7. \A d \in DOMAIN backends' : Own(backends'[d])
  BY <1>2, <1>3
<1>8. \A j \in DOMAIN accounts' : Sole(accounts'[j], backends'[accounts'[j].b])
  BY <1>3, <1>4, <1>5 DEF Types
<1>9. ~user'.setsUpAgain => \A j \in DOMAIN accounts' : Silent(backends'[accounts'[j].b])
  BY <1>1, <1>3, <1>4, <1>5 DEF Types
<1>10. ProvenOnly'
  BY <1>1, <1>4 DEF ProvenOnly
<1> QED
  BY <1>6, <1>7, <1>8, <1>9, <1>10 DEF Own, Sole, Silent

\* Backends and registry come back from the rows, when the vault is opened.
LEMMA UnlockStep ==
  ASSUME IInv, onVaultUnlocked
  PROVE  IInv'
<1> USE DEF IInv
<1> DEFINE Read(read) ==
      LET new == SetToSeq({k \in read : ~accountById(LoadedId(k))})
          n == Len(backends)
          all == backends \o
            [j \in DOMAIN new |-> Backend(FromRow(new[j]), NoId, DefaultDelta, 0)]
          aware(b) == \E i \in DOMAIN accounts' :
                        accounts'[i].b = b /\ KeyAware(accounts'[i].creds)
      IN  /\ n + Len(new) <= MaxBackends
          /\ accounts' = accounts \o
               [j \in DOMAIN new |-> [id |-> computeAccountId(new[j]), b |-> n + j,
                                      creds |-> FromRow(new[j])]]
          /\ backends' = [b \in DOMAIN all |->
               IF aware(b) /\ all[b].alive THEN [all[b] EXCEPT !.io = 1] ELSE all[b]]
<1>0. PICK read \in SUBSET rows : Read(read)
  BY DEF onVaultUnlocked
<1> DEFINE missing == {k \in read : ~accountById(LoadedId(k))}
           new == SetToSeq(missing)
           n == Len(backends)
           entry(j) == [id |-> computeAccountId(new[j]), b |-> n + j, creds |-> FromRow(new[j])]
           loaded(j) == Backend(FromRow(new[j]), NoId, DefaultDelta, 0)
           added == [j \in DOMAIN new |-> entry(j)]
           all == backends \o [j \in DOMAIN new |-> loaded(j)]
           aware(b) == \E i \in DOMAIN accounts' :
                         accounts'[i].b = b /\ KeyAware(accounts'[i].creds)
           started(b) == IF aware(b) /\ all[b].alive THEN [all[b] EXCEPT !.io = 1] ELSE all[b]
<1>1. /\ n + Len(new) <= MaxBackends
      /\ accounts' = accounts \o added
      /\ backends' = [b \in DOMAIN all |-> started(b)]
      /\ locked' = FALSE
      /\ UNCHANGED <<user, pendingAdds, rows, proven>>
  BY <1>0 DEF onVaultUnlocked
<1>2. /\ new \in Seq(missing) /\ missing \subseteq Keys /\ missing \subseteq rows
  <2>1. missing \subseteq rows /\ IsFiniteSet(missing)
    BY FS_Subset DEF Types
  <2> HIDE DEF missing
  <2> QED
    BY <2>1, Enumerating DEF Types
<1> HIDE DEF missing, new
<1>3. \A j \in DOMAIN new : new[j] \in Keys /\ new[j] \in rows
  BY <1>2
<1>4. \A j \in DOMAIN new :
        /\ entry(j) \in Entries /\ entry(j).b = n + j /\ Key(entry(j).creds) \in rows
        /\ entry(j).creds = FromRow(new[j])
  <2> SUFFICES ASSUME NEW j \in DOMAIN new
               PROVE  /\ entry(j) \in Entries /\ entry(j).b = n + j
                      /\ Key(entry(j).creds) \in rows /\ entry(j).creds = FromRow(new[j])
    OBVIOUS
  <2>1. computeAccountId(new[j]) \in Ids /\ FromRow(new[j]) \in Creds
        /\ Key(FromRow(new[j])) = new[j]
    BY <1>3, Making
  <2>2. n + j \in Nat
    BY <1>2 DEF Types
  <2> QED
    BY <1>3, <2>1, <2>2 DEF Entries
<1>5. \A j \in DOMAIN new :
        /\ loaded(j) \in Backends /\ loaded(j).id = NoId /\ ~loaded(j).timer
        /\ loaded(j).creds = FromRow(new[j]) /\ loaded(j).creds.addr = ""
        /\ loaded(j).alive /\ ~(loaded(j).io > 0)
  <2> SUFFICES ASSUME NEW j \in DOMAIN new
               PROVE  /\ loaded(j) \in Backends /\ loaded(j).id = NoId /\ ~loaded(j).timer
                      /\ loaded(j).creds = FromRow(new[j]) /\ loaded(j).creds.addr = ""
                      /\ loaded(j).alive /\ ~(loaded(j).io > 0)
    OBVIOUS
  <2>1. FromRow(new[j]) \in Creds /\ FromRow(new[j]).addr = ""
    BY <1>3, Making DEF FromRow
  <2>2. Dir(FromRow(new[j]), DefaultDelta) \in Dirs /\ NoId \in Ids
    BY <2>1, Directories, Making
  <2> DEFINE d == FromRow(new[j])
  <2>3. loaded(j) = [creds |-> d, id |-> NoId, dir |-> Dir(d, DefaultDelta),
                     alive |-> TRUE, timer |-> FALSE, io |-> 0]
    BY DEF Backend
  <2> HIDE DEF d, loaded
  <2>4. loaded(j) \in Backends
    <3>1. d \in Creds /\ Dir(d, DefaultDelta) \in Dirs
      BY <2>1, <2>2 DEF d
    <3> QED
      BY <2>2, <2>3, <3>1 DEF Backends
  <2>5. /\ loaded(j).id = NoId /\ ~loaded(j).timer /\ loaded(j).creds = d
        /\ loaded(j).alive /\ ~(loaded(j).io > 0)
    BY <2>3
  <2> QED
    BY <2>1, <2>4, <2>5 DEF d
<1> HIDE DEF entry, loaded
<1>6. /\ accounts' \in Seq(Entries) /\ Len(accounts') = Len(accounts) + Len(new)
      /\ \A i \in DOMAIN accounts' :
           \/ i \in DOMAIN accounts /\ accounts'[i] = accounts[i]
           \/ i - Len(accounts) \in DOMAIN new /\ accounts'[i] = entry(i - Len(accounts))
  <2> HIDE DEF all, started, aware
  <2>1. added \in Seq(Entries) /\ Len(added) = Len(new) /\ DOMAIN added = DOMAIN new
        /\ \A j \in DOMAIN new : added[j] = entry(j)
    BY <1>2, <1>4
  <2> HIDE DEF added
  <2>2. accounts \in Seq(Entries)
    BY DEF Types
  <2>3. accounts' = accounts \o added
    BY <1>1
  <2>4. \A i \in DOMAIN (accounts \o added) :
          \/ i \in DOMAIN accounts /\ (accounts \o added)[i] = accounts[i]
          \/ i - Len(accounts) \in DOMAIN added
             /\ (accounts \o added)[i] = added[i - Len(accounts)]
    BY <2>1, <2>2, Joining
  <2>5. accounts \o added \in Seq(Entries) /\ Len(accounts \o added) = Len(accounts) + Len(added)
    BY <2>1, <2>2, Joining
  <2> QED
    BY <2>1, <2>3, <2>4, <2>5
<1>7. /\ all \in Seq(Backends) /\ Len(all) = n + Len(new)
      /\ \A b \in DOMAIN backends : b \in DOMAIN all /\ all[b] = backends[b]
      /\ \A j \in DOMAIN new : n + j \in DOMAIN all /\ all[n + j] = loaded(j)
      /\ \A b \in DOMAIN all : b \in DOMAIN backends \/ (b - n \in DOMAIN new /\ all[b] = loaded(b - n))
  <2> HIDE DEF started, aware
  <2> DEFINE tail == [j \in DOMAIN new |-> loaded(j)]
  <2>1. tail \in Seq(Backends) /\ Len(tail) = Len(new) /\ DOMAIN tail = DOMAIN new
        /\ \A j \in DOMAIN new : tail[j] = loaded(j)
    <3>1. DOMAIN new = 1 .. Len(new) /\ Len(new) \in Nat
      BY <1>2
    <3>2. \A j \in 1 .. Len(new) : loaded(j) \in Backends
      BY <1>5, <3>1
    <3>3. tail = [j \in 1 .. Len(new) |-> loaded(j)]
      BY <3>1
    <3> QED
      BY <3>1, <3>2, <3>3
  <2>2. all = backends \o tail
    OBVIOUS
  <2> HIDE DEF tail, all
  <2>3. backends \in Seq(Backends)
    BY DEF Types
  <2>4. /\ backends \o tail \in Seq(Backends) /\ Len(backends \o tail) = n + Len(tail)
        /\ \A b \in DOMAIN backends :
             b \in DOMAIN (backends \o tail) /\ (backends \o tail)[b] = backends[b]
        /\ \A j \in DOMAIN tail :
             n + j \in DOMAIN (backends \o tail) /\ (backends \o tail)[n + j] = tail[j]
        /\ \A b \in DOMAIN (backends \o tail) :
             \/ b \in DOMAIN backends
             \/ b - n \in DOMAIN tail /\ (backends \o tail)[b] = tail[b - n]
    <3>1. tail \in Seq(Backends)
      BY <2>1
    <3> QED
      BY <2>3, <3>1, Joining
  <2> QED
    BY <2>1, <2>2, <2>4
<1> HIDE DEF added, all
<1>8. \A b \in DOMAIN all :
        /\ started(b) \in Backends /\ started(b).creds = all[b].creds
        /\ started(b).id = all[b].id /\ started(b).alive = all[b].alive
        /\ started(b).timer = all[b].timer
        /\ started(b).io > 0 => all[b].io > 0 \/ aware(b)
  <2> SUFFICES ASSUME NEW b \in DOMAIN all
               PROVE  /\ started(b) \in Backends /\ started(b).creds = all[b].creds
                      /\ started(b).id = all[b].id /\ started(b).alive = all[b].alive
                      /\ started(b).timer = all[b].timer
                      /\ started(b).io > 0 => all[b].io > 0 \/ aware(b)
    OBVIOUS
  <2>1. all[b] \in Backends
    BY <1>7
  <2> HIDE DEF aware
  <2>2. CASE started(b) = all[b]
    BY <2>1, <2>2
  <2>3. CASE aware(b) /\ started(b) = [all[b] EXCEPT !.io = 1]
    BY <2>1, <2>3 DEF Backends
  <2> QED
    BY <2>2, <2>3
<1> HIDE DEF started, aware
<1>9. /\ backends' \in Seq(Backends) /\ Len(backends') = n + Len(new) /\ DOMAIN backends' = DOMAIN all
      /\ \A b \in DOMAIN all : backends'[b] = started(b)
  BY <1>1, <1>7, <1>8
<1>10. Types'
  <2>1. \A i \in DOMAIN accounts' : accounts'[i].b \in DOMAIN backends'
    <3> SUFFICES ASSUME NEW i \in DOMAIN accounts'
                 PROVE  accounts'[i].b \in DOMAIN all
      BY <1>9
    <3>1. CASE i \in DOMAIN accounts /\ accounts'[i] = accounts[i]
      BY <1>7, <3>1 DEF Types
    <3>2. CASE i - Len(accounts) \in DOMAIN new /\ accounts'[i] = entry(i - Len(accounts))
      BY <1>4, <1>7, <3>2
    <3> QED
      BY <1>6, <3>1, <3>2
  <2>2. \A i, j \in DOMAIN accounts' : accounts'[i].b = accounts'[j].b => i = j
    <3> SUFFICES ASSUME NEW i \in DOMAIN accounts', NEW j \in DOMAIN accounts',
                        accounts'[i].b = accounts'[j].b
                 PROVE  i = j
      OBVIOUS
    <3>1. i \in Nat /\ j \in Nat /\ n \in Nat /\ Len(accounts) \in Nat
          /\ DOMAIN new = 1 .. Len(new) /\ Len(new) \in Nat
      BY <1>2, <1>6 DEF Types
    <3>2. \A k \in DOMAIN accounts : accounts[k].b \in 1 .. n
      BY DEF Types
    <3>3. CASE i \in DOMAIN accounts /\ accounts'[i] = accounts[i]
      <4>1. CASE j \in DOMAIN accounts /\ accounts'[j] = accounts[j]
        BY <3>3, <4>1 DEF Types
      <4>2. CASE j - Len(accounts) \in DOMAIN new /\ accounts'[j] = entry(j - Len(accounts))
        BY <1>4, <3>1, <3>2, <3>3, <4>2
      <4> QED
        BY <1>6, <4>1, <4>2
    <3>4. CASE i - Len(accounts) \in DOMAIN new /\ accounts'[i] = entry(i - Len(accounts))
      <4>1. CASE j \in DOMAIN accounts /\ accounts'[j] = accounts[j]
        BY <1>4, <3>1, <3>2, <3>4, <4>1
      <4>2. CASE j - Len(accounts) \in DOMAIN new /\ accounts'[j] = entry(j - Len(accounts))
        BY <1>4, <3>1, <3>4, <4>2
      <4> QED
        BY <1>6, <4>1, <4>2
    <3> QED
      BY <1>6, <3>3, <3>4
  <2> QED
    BY <1>1, <1>6, <1>9, <2>1, <2>2 DEF Types
<1>11. \A b \in DOMAIN all : Own(all[b])
  <2>1. \A j \in DOMAIN new : Own(loaded(j))
    BY <1>5 DEF Own
  <2> QED
    BY <1>7, <2>1
<1>12. \A b \in DOMAIN backends' : Own(backends'[b])
  <2> SUFFICES ASSUME NEW b \in DOMAIN backends'
               PROVE  Own(backends'[b])
    OBVIOUS
  <2>1. b \in DOMAIN all /\ backends'[b] = started(b) /\ Own(all[b])
    BY <1>9, <1>11
  <2>2. /\ started(b).creds = all[b].creds /\ started(b).id = all[b].id
        /\ started(b).timer = all[b].timer
    BY <2>1, <1>8
  <2> QED
    BY <2>1, <2>2 DEF Own
<1>13. \A i \in DOMAIN accounts' :
         LET b == accounts'[i].b
         IN  /\ b \in DOMAIN all /\ Sole(accounts'[i], all[b])
             /\ ~user.setsUpAgain => Silent(all[b])
  <2> SUFFICES ASSUME NEW i \in DOMAIN accounts'
               PROVE  /\ accounts'[i].b \in DOMAIN all /\ Sole(accounts'[i], all[accounts'[i].b])
                      /\ ~user.setsUpAgain => Silent(all[accounts'[i].b])
    OBVIOUS
  <2>1. CASE i \in DOMAIN accounts /\ accounts'[i] = accounts[i]
    BY <1>7, <2>1 DEF Types
  <2>2. CASE i - Len(accounts) \in DOMAIN new /\ accounts'[i] = entry(i - Len(accounts))
    <3> DEFINE j == i - Len(accounts)
    <3>1. accounts'[i].b = n + j /\ accounts'[i].creds = FromRow(new[j]) /\ j \in DOMAIN new
      BY <1>4, <2>2
    <3> HIDE DEF j
    <3>2. accounts'[i].b \in DOMAIN all /\ all[accounts'[i].b] = loaded(j)
      BY <1>7, <3>1
    <3>3. loaded(j).id = NoId /\ ~loaded(j).timer /\ loaded(j).creds = FromRow(new[j])
          /\ loaded(j).alive /\ ~(loaded(j).io > 0)
      BY <1>5, <3>1
    <3> QED
      BY <3>1, <3>2, <3>3 DEF Sole, Silent
  <2> QED
    BY <1>6, <2>1, <2>2
<1>14. \A i \in DOMAIN accounts' : Sole(accounts'[i], backends'[accounts'[i].b])
  BY <1>8, <1>9, <1>13 DEF Sole
<1>15. ~user'.setsUpAgain => \A i \in DOMAIN accounts' : Silent(backends'[accounts'[i].b])
  <2> SUFFICES ASSUME ~user.setsUpAgain, NEW i \in DOMAIN accounts'
               PROVE  Silent(backends'[accounts'[i].b])
    BY <1>1
  <2> DEFINE b == accounts'[i].b
  <2>1. b \in DOMAIN all /\ Silent(all[b]) /\ Sole(accounts'[i], all[b])
    BY <1>13
  <2>2. aware(b) => KeyAware(all[b].creds)
    BY <1>9, <1>10, <2>1 DEF aware, Sole, Silent, Types
  <2> QED
    BY <1>8, <1>9, <2>1, <2>2 DEF Silent
<1>16. ProvenOnly'
  BY <1>1, <1>4, <1>6 DEF ProvenOnly
<1> QED
  BY <1>10, <1>12, <1>14, <1>15, <1>16 DEF Own, Sole, Silent

\* A rotation starts the backends with keys again; the end of the process
\* leaves only the rows.
LEMMA RotateStep ==
  ASSUME IInv, rotateVault \/ Restart
  PROVE  IInv'
<1> USE DEF IInv
<1>1. CASE rotateVault
  <2> DEFINE started(b) == IF Holder(b) # {} /\ KeyAware(backends[b].creds) /\ Alive(b)
                           THEN [backends[b] EXCEPT !.io = 1] ELSE backends[b]
  <2>1. /\ backends' = [b \in DOMAIN backends |-> started(b)]
        /\ UNCHANGED <<user, locked, accounts, pendingAdds, rows, refused, data, proven>>
    BY <1>1 DEF rotateVault
  <2>2. \A b \in DOMAIN backends :
          /\ started(b) \in Backends /\ started(b).creds = backends[b].creds
          /\ started(b).id = backends[b].id /\ started(b).alive = backends[b].alive
          /\ started(b).timer = backends[b].timer
          /\ started(b).io > 0 => backends[b].io > 0 \/ KeyAware(backends[b].creds)
    <3> SUFFICES ASSUME NEW b \in DOMAIN backends
                 PROVE  /\ started(b) \in Backends /\ started(b).creds = backends[b].creds
                        /\ started(b).id = backends[b].id /\ started(b).alive = backends[b].alive
                        /\ started(b).timer = backends[b].timer
                        /\ started(b).io > 0 => backends[b].io > 0 \/ KeyAware(backends[b].creds)
      OBVIOUS
    <3>1. backends[b] \in Backends
      BY DEF Types
    <3>2. CASE started(b) = backends[b]
      BY <3>1, <3>2
    <3>3. CASE KeyAware(backends[b].creds) /\ started(b) = [backends[b] EXCEPT !.io = 1]
      BY <3>1, <3>3 DEF Backends
    <3> QED
      BY <3>2, <3>3
  <2> HIDE DEF started
  <2>3. /\ backends' \in Seq(Backends) /\ Len(backends') = Len(backends)
        /\ DOMAIN backends' = DOMAIN backends
        /\ \A b \in DOMAIN backends : backends'[b] = started(b)
    BY <2>1, <2>2 DEF Types
  <2>4. Types'
    BY <2>1, <2>3 DEF Types
  <2>5. \A b \in DOMAIN backends' : Own(backends'[b])
    BY <2>2, <2>3 DEF Own
  <2>6. \A i \in DOMAIN accounts' : Sole(accounts'[i], backends'[accounts'[i].b])
    BY <2>1, <2>2, <2>3 DEF Sole, Types
  <2>7. ~user'.setsUpAgain => \A i \in DOMAIN accounts' : Silent(backends'[accounts'[i].b])
    BY <2>1, <2>2, <2>3 DEF Silent, Types
  <2>8. ProvenOnly'
    BY <2>1 DEF ProvenOnly
  <2> QED
    BY <2>4, <2>5, <2>6, <2>7, <2>8 DEF Own, Sole, Silent
<1>2. CASE Restart
  <2>1. /\ locked' = TRUE /\ backends' = <<>> /\ accounts' = <<>> /\ pendingAdds' = {}
        /\ UNCHANGED <<user, rows, data, proven>>
    BY <1>2 DEF Restart
  <2>2. Types'
    BY <2>1, BoundsAssumption DEF Types
  <2>3. ProvenOnly'
    BY <2>1 DEF ProvenOnly
  <2> QED
    BY <2>1, <2>2, <2>3
<1> QED
  BY <1>1, <1>2

\* The invariant holds throughout every behaviour.
THEOREM Invariant == Spec => []IInv
<1>1. Init => IInv
  <2> SUFFICES ASSUME Init PROVE IInv
    OBVIOUS
  <2>1. Types
    BY FS_EmptySet, BoundsAssumption DEF Init, Types
  <2> QED
    BY <2>1 DEF Init, IInv, ProvenOnly
<1>2. IInv /\ [Next]_vars => IInv'
  <2> SUFFICES ASSUME IInv, [Next]_vars PROVE IInv'
    OBVIOUS
  <2>1. CASE \E c \in user.creds : addAccount(c)
    BY <2>1, AddStep
  <2>2. CASE \E b \in DOMAIN backends :
               (\E ok \in BOOLEAN : IoRefused(b, ok)) \/ ConfigureFails(b) \/ TimedOut(b)
    BY <2>2, ResultStep
  <2>3. CASE \E b \in DOMAIN backends : Succeeded(b)
    BY <2>3, SucceedStep
  <2>4. CASE \E i \in DOMAIN accounts : removeAccount(i)
    BY <2>4, RemoveStep
  <2>5. CASE setupFromQr
    BY <2>5, SetupStep
  <2>6. CASE onVaultUnlocked
    BY <2>6, UnlockStep
  <2>7. CASE rotateVault \/ Restart
    BY <2>7, RotateStep
  <2>8. CASE UNCHANGED vars
    BY <2>8 DEF vars, IInv, Types, Own, Sole, Silent, ProvenOnly
  <2> QED
    BY <2>1, <2>2, <2>3, <2>4, <2>5, <2>6, <2>7, <2>8 DEF Next
<1> QED
  BY <1>1, <1>2, PTL DEF Spec

-----------------------------------------------------------------------------
(* The rail, the rows and the stores. *)

\* Credentials as the rows keep them: an IMAP login with its server, the address
\* of a Proton or a Delta Chat account.
Whole(c) ==
  /\ c.user # ""
  /\ IF c.type = "imap" THEN c.host # "" ELSE c.host = "" /\ c.user \in Addresses

\* Credentials whose address, where a server has reported one, is the user.
Known(c) == Whole(c) /\ c.addr \in {"", c.user}

\* An invite, whose address only the server knows.
Invite(c) ==
  c.type = "deltachat" /\ c.user = "" /\ c.host = "" /\ c.addr # "" /\ c.addr \in Addresses

\* What the add-account panel submits: it asks for the fields of the type, an IMAP
\* server and user, a Proton address or an invite, and does not submit while one it
\* requires is empty.  That a Proton user holds an '@' is not checked by the code:
\* without one, Proton accounts share an id.
Proper == \A u \in Users : \A c \in u.creds : Invite(c) \/ (c.type # "deltachat" /\ Whole(c))

\* A live backend has such credentials, the store that goes with them and an id
\* of its own type.
Sound(b) ==
  b.alive =>
    /\ Known(b.creds) \/ Invite(b.creds)
    /\ IF KeyAware(b.creds) THEN b.dir = Dir(b.creds, DefaultDelta)
                            ELSE b.dir \in DeltaDirs \cup {DefaultDelta}
    /\ b.id = NoId \/ b.id.type = b.creds.type

\* The rows and the registry hold whole credentials under ids that follow from
\* them, and nothing is registered while the vault is locked.
Rail ==
  /\ locked => accounts = <<>> /\ backends = <<>>
  /\ \A k \in rows : Whole(k)
  /\ \A i \in DOMAIN accounts :
       Whole(accounts[i].creds) /\ accounts[i].id = computeAccountId(accounts[i].creds)
  /\ \A b \in DOMAIN backends : Sound(backends[b])
  /\ UniqueIds
  /\ RailIsVault

\* No two live stores have the same key, and each is that of an account or of a
\* pending attempt, where no id is submitted twice.
Store(b) == Alive(b) /\ KeyAware(backends[b].creds)
Apart ==
  ~user.resubmits =>
    /\ \A b, c \in DOMAIN backends :
         b # c /\ Store(b) /\ Store(c) => Key(backends[b].creds) # Key(backends[c].creds)
    /\ \A b \in DOMAIN backends :
         Store(b) => \/ Holder(b) # {}
                     \/ backends[b].id # NoId /\ backends[b].id \in pendingAdds

\* The id of whole credentials tells their keys apart, and the key determines it.
LEMMA Naming ==
  ASSUME NEW c \in Creds \cup Keys, NEW d \in Creds \cup Keys
  PROVE  /\ Key(c) = Key(d) => computeAccountId(c) = computeAccountId(d)
         /\ Key(c) = Key(d) /\ Whole(c) => Whole(d)
         /\ Whole(c) /\ Whole(d) /\ computeAccountId(c) = computeAccountId(d) => Key(c) = Key(d)
         /\ computeAccountId(c).type = c.type /\ computeAccountId(c) # NoId
<1>1. /\ c.type \in {"imap", "proton", "deltachat"} /\ d.type \in {"imap", "proton", "deltachat"}
  BY DEF Creds, Keys
<1>2. Key(c) = Key(d) => c.type = d.type /\ c.user = d.user /\ c.host = d.host
  BY DEF Key
<1>3. Key(c) = Key(d) => computeAccountId(c) = computeAccountId(d)
  BY <1>2 DEF computeAccountId, Label
<1>4. Key(c) = Key(d) /\ Whole(c) => Whole(d)
  BY <1>2 DEF Whole
<1>5. /\ computeAccountId(c).type = c.type /\ computeAccountId(c).label = Label(c)
      /\ computeAccountId(d).type = d.type /\ computeAccountId(d).label = Label(d)
  BY DEF computeAccountId
<1>6. computeAccountId(c) # NoId
  <2>1. NoId.type = ""
    BY DEF NoId
  <2> QED
    BY <1>1, <1>5, <2>1
<1>7. ASSUME Whole(c), Whole(d), computeAccountId(c) = computeAccountId(d)
      PROVE  Key(c) = Key(d)
  <2>1. c.type = d.type /\ Label(c) = Label(d)
    BY <1>5, <1>7
  <2>2. CASE c.type = "imap"
    <3>1. Label(c) = <<c.user, c.host>> /\ Label(d) = <<d.user, d.host>>
      BY <1>7, <2>1, <2>2 DEF Label, Whole
    <3>2. <<c.user, c.host>> = <<d.user, d.host>>
      BY <2>1, <3>1
    <3>3. c.user = d.user /\ c.host = d.host
      BY <3>2
    <3> QED
      BY <2>1, <3>3 DEF Key
  <2>3. CASE c.type # "imap"
    <3>1. Label(c) = <<c.user>> /\ Label(d) = <<d.user>> /\ c.host = "" /\ d.host = ""
      BY <1>7, <2>1, <2>3 DEF Label, Whole
    <3>2. <<c.user>> = <<d.user>>
      BY <2>1, <3>1
    <3>3. c.user = d.user
      BY <3>2
    <3> QED
      BY <2>1, <3>1, <3>3 DEF Key
  <2> QED
    BY <2>2, <2>3
<1> QED
  BY <1>3, <1>4, <1>5, <1>6, <1>7

\* Success makes an invite an address, and leaves other credentials alone.
LEMMA Stamping ==
  ASSUME NEW c \in Creds, Known(c) \/ Invite(c), KeyAware(c) => c.addr = ""
  PROVE  /\ Stamped(c) \in Creds /\ Known(Stamped(c)) /\ Stamped(c).type = c.type
         /\ RealId(c) = computeAccountId(Stamped(c))
         /\ KeyAware(c) => Stamped(c) = c
<1>1. CASE Invite(c)
  <2> DEFINE s == [c EXCEPT !.user = c.addr]
  <2>1. Stamped(c) = s
    BY <1>1 DEF Stamped, Invite
  <2>2. s \in Creds /\ s.type = c.type /\ s.user = c.addr /\ s.host = c.host /\ s.addr = c.addr
    BY DEF Creds
  <2> HIDE DEF s
  <2>3. c.type = "deltachat" /\ c.addr # "" /\ c.host = "" /\ c.addr \in Addresses
    BY <1>1 DEF Invite
  <2>4. Known(s)
    BY <2>2, <2>3 DEF Known, Whole
  <2>5. Label(s) = <<c.addr>>
    BY <2>2, <2>3 DEF Label
  <2>6. RealId(c) = computeAccountId(s)
    BY <2>2, <2>3, <2>5 DEF RealId, computeAccountId
  <2>7. ~KeyAware(c)
    BY <2>3 DEF KeyAware
  <2> QED
    BY <2>1, <2>2, <2>4, <2>6, <2>7
<1>2. CASE Known(c)
  <2>1. Stamped(c) = c
    BY <1>2 DEF Stamped, Known, Whole
  <2>2. RealId(c) = computeAccountId(c)
    <3>1. CASE c.addr = ""
      BY <3>1 DEF RealId
    <3>2. CASE c.addr # ""
      <4>1. c.addr = c.user /\ c.type = "deltachat" /\ c.host = "" /\ c.user \in Addresses
        BY <1>2, <3>2 DEF Known, Whole, KeyAware
      <4> QED
        BY <3>2, <4>1 DEF RealId, computeAccountId, Label
    <3> QED
      BY <3>1, <3>2
  <2> QED
    BY <1>2, <2>1, <2>2
<1> QED
  BY <1>1, <1>2

\* Encrypted stores of different keys lie in different directories, and not among
\* the Delta Chat directories.
LEMMA Stores ==
  ASSUME NEW c \in Creds, KeyAware(c), Whole(c)
  PROVE  /\ \A d \in Creds : /\ KeyAware(d) /\ Whole(d)
                             /\ Dir(c, DefaultDelta) = Dir(d, DefaultDelta)
                             => Key(c) = Key(d)
         /\ \A p \in DeltaDirs \cup {DefaultDelta} : Dir(c, DefaultDelta) # p
<1>1. \A d \in Creds : KeyAware(d) =>
        \/ d.type = "imap" /\ Dir(d, DefaultDelta) = <<"imap", d.user, d.host>>
        \/ d.type = "proton" /\ Dir(d, DefaultDelta) = <<"proton", d.user>>
  BY DEF KeyAware, Dir, Creds
<1>2. \A d \in Creds : KeyAware(d) => Dir(d, DefaultDelta)[1] = d.type
  BY <1>1
<1>3. \A p \in DeltaDirs \cup {DefaultDelta} : p[1] = "delta"
  BY DEF DeltaDirs, DefaultDelta
<1>4. c.type \in {"imap", "proton"}
  BY DEF KeyAware, Creds
<1>5. ASSUME NEW d \in Creds, KeyAware(d), Whole(d), Dir(c, DefaultDelta) = Dir(d, DefaultDelta)
      PROVE  Key(c) = Key(d)
  <2>1. c.type = d.type
    BY <1>2, <1>5
  <2>2. CASE c.type = "imap"
    <3>1. <<"imap", c.user, c.host>> = <<"imap", d.user, d.host>>
      BY <1>1, <1>5, <2>1, <2>2
    <3> QED
      BY <2>1, <3>1 DEF Key
  <2>3. CASE c.type = "proton"
    <3>1. <<"proton", c.user>> = <<"proton", d.user>>
      BY <1>1, <1>5, <2>1, <2>3
    <3>2. c.host = "" /\ d.host = ""
      BY <1>5, <2>1, <2>3 DEF Whole
    <3> QED
      BY <2>1, <3>1, <3>2 DEF Key
  <2> QED
    BY <1>4, <2>2, <2>3
<1> QED
  BY <1>2, <1>3, <1>4, <1>5

-----------------------------------------------------------------------------
(* What the rail shows and which stores are open, action by action. *)

\* What the invariants say of one live backend, and of the account that holds it.
LEMMA Looking ==
  ASSUME IInv, Rail, NEW b \in DOMAIN backends, Alive(b)
  PROVE  /\ backends[b].creds \in Creds
         /\ Known(backends[b].creds) \/ Invite(backends[b].creds)
         /\ KeyAware(backends[b].creds) =>
              /\ Whole(backends[b].creds) /\ backends[b].creds.addr = ""
              /\ backends[b].id # NoId => backends[b].id = computeAccountId(backends[b].creds)
         /\ \A i \in Holder(b) :
              accounts[i].creds = backends[b].creds
              /\ accounts[i].id = computeAccountId(backends[b].creds)
<1>1. backends[b] \in Backends /\ Own(backends[b]) /\ Sound(backends[b])
  BY DEF IInv, Types, Rail
<1>2. backends[b].creds \in Creds /\ (Known(backends[b].creds) \/ Invite(backends[b].creds))
  BY <1>1 DEF Backends, Sound, Alive
<1>3. KeyAware(backends[b].creds) =>
        /\ Whole(backends[b].creds) /\ backends[b].creds.addr = ""
        /\ backends[b].id # NoId => backends[b].id = computeAccountId(backends[b].creds)
  BY <1>1, <1>2 DEF Own, Known, Invite, KeyAware
<1>4. \A i \in Holder(b) :
        accounts[i].creds = backends[b].creds
        /\ accounts[i].id = computeAccountId(backends[b].creds)
  BY DEF IInv, Rail, Sole, Holder, Alive
<1> QED
  BY <1>2, <1>3, <1>4

\* Neither the id of another attempt nor that of another account is the one under
\* which a store's own attempt is pending.
LEMMA Others ==
  ASSUME IInv, Rail, Apart, ~user.resubmits,
         NEW b \in DOMAIN backends, Alive(b),
         NEW d \in DOMAIN backends, Store(d), Holder(d) = {}, d # b
  PROVE  /\ backends[b].id # NoId => backends[d].id # backends[b].id
         /\ backends[d].id \notin DropPending(b)
<1> DEFINE cb == backends[b].creds
           cd == backends[d].creds
<1>1. /\ cd \in Creds /\ Whole(cd) /\ cb \in Creds /\ KeyAware(cd)
      /\ backends[d].id # NoId /\ backends[d].id = computeAccountId(cd)
  BY Looking DEF Store, Apart
<1>2. KeyAware(cb) => Key(cb) # Key(cd) /\ Whole(cb)
  BY Looking DEF Store, Apart
<1>3. Sound(backends[b])
  BY DEF Rail
<1>4. ASSUME backends[b].id # NoId, backends[d].id = backends[b].id
      PROVE  FALSE
  <2>1. backends[b].id.type = cb.type
    BY <1>3, <1>4 DEF Sound, Alive
  <2>2. computeAccountId(cd).type = cd.type
    BY <1>1, Naming
  <2>3. KeyAware(cb)
    BY <1>1, <1>4, <2>1, <2>2 DEF KeyAware
  <2>4. backends[b].id = computeAccountId(cb)
    BY <1>4, <2>3, Looking
  <2> HIDE DEF cb, cd
  <2>5. computeAccountId(cb) = computeAccountId(cd) /\ Whole(cb) /\ Key(cb) # Key(cd)
    BY <1>1, <1>2, <1>4, <2>3, <2>4
  <2>6. cb \in Creds \cup Keys /\ cd \in Creds \cup Keys
    BY <1>1
  <2> QED
    BY <1>1, <2>5, <2>6, Naming
<1>5. ASSUME NEW i \in Holder(b), accounts[i].id = backends[d].id
      PROVE  FALSE
  <2>1. accounts[i].creds = cb /\ accounts[i].id = computeAccountId(cb)
    BY Looking
  <2>2. computeAccountId(cd).type = cd.type /\ computeAccountId(cb).type = cb.type
    BY <1>1, Naming
  <2>3. KeyAware(cb)
    BY <1>1, <1>5, <2>1, <2>2 DEF KeyAware
  <2> HIDE DEF cb, cd
  <2>4. computeAccountId(cb) = computeAccountId(cd) /\ Whole(cb) /\ Key(cb) # Key(cd)
    BY <1>1, <1>2, <1>5, <2>1, <2>3
  <2>5. cb \in Creds \cup Keys /\ cd \in Creds \cup Keys
    BY <1>1
  <2> QED
    BY <1>1, <2>4, <2>5, Naming
<1> QED
  BY <1>4, <1>5 DEF DropPending

\* The step changes no account and no row, and leaves each backend what it was or
\* deletes it.
Kept(old, new) ==
  new.alive => /\ old.alive /\ new.creds = old.creds /\ new.id = old.id /\ new.dir = old.dir

LEMMA KeepStep ==
  ASSUME IInv, Rail, Apart, IInv', DOMAIN backends' = DOMAIN backends,
         \A b \in DOMAIN backends : Kept(backends[b], backends'[b]),
         UNCHANGED <<user, locked, accounts, rows, refused>>,
         ~user.resubmits =>
           \A b \in DOMAIN backends :
             /\ Store(b) /\ Holder(b) = {} /\ backends'[b].alive
             => backends[b].id \notin pendingAdds \ pendingAdds'
  PROVE  Rail' /\ Apart'
<1>1. /\ locked' => accounts' = <<>> /\ backends' = <<>>
      /\ \A k \in rows' : Whole(k)
      /\ \A i \in DOMAIN accounts' :
           Whole(accounts'[i].creds) /\ accounts'[i].id = computeAccountId(accounts'[i].creds)
  <2>1. backends' \in Seq(Backends) /\ backends \in Seq(Backends)
    BY DEF IInv, Types
  <2>2. backends = <<>> => backends' = <<>>
    BY <2>1
  <2> QED
    BY <2>2 DEF Rail
<1>2. \A b \in DOMAIN backends' : Sound(backends'[b])
  <2> SUFFICES ASSUME NEW b \in DOMAIN backends, backends'[b].alive
               PROVE  Sound(backends'[b])
    BY DEF Sound
  <2> QED
    BY DEF Sound, Kept, Rail
<1>3. UniqueIds' /\ RailIsVault'
  BY DEF Rail, UniqueIds, RailIsVault
<1>4. Rail'
  BY <1>1, <1>2, <1>3 DEF Rail, Sound
<1>5. ASSUME ~user.resubmits, NEW b \in DOMAIN backends, Store(b)'
      PROVE  Store(b) /\ backends'[b].creds = backends[b].creds
             /\ backends'[b].id = backends[b].id /\ Holder(b)' = Holder(b)
             /\ (Holder(b) = {} => backends[b].id # NoId /\ backends[b].id \in pendingAdds')
  <2>1. /\ backends'[b].alive /\ KeyAware(backends'[b].creds)
        /\ backends[b].alive /\ backends'[b].creds = backends[b].creds
        /\ backends'[b].id = backends[b].id
    BY <1>5 DEF Store, Kept, Alive
  <2>2. Store(b) /\ Holder(b)' = Holder(b)
    BY <2>1 DEF Store, Alive, Holder
  <2>3. Holder(b) = {} => backends[b].id # NoId /\ backends[b].id \in pendingAdds
    BY <1>5, <2>2 DEF Apart
  <2> QED
    BY <1>5, <2>1, <2>2, <2>3
<1>6. Apart'
  <2> SUFFICES ASSUME ~user.resubmits
               PROVE  /\ \A b, c \in DOMAIN backends :
                           b # c /\ Store(b)' /\ Store(c)' =>
                             Key(backends'[b].creds) # Key(backends'[c].creds)
                      /\ \A b \in DOMAIN backends :
                           Store(b)' => \/ Holder(b)' # {}
                                        \/ backends'[b].id # NoId /\ backends'[b].id \in pendingAdds'
    BY DEF Apart
  <2> QED
    BY <1>5 DEF Apart
<1> QED
  BY <1>4, <1>6

\* A result, a failure or a timer: an attempt is discarded or nothing is lost.
LEMMA ResultKeeps ==
  ASSUME IInv, Rail, Apart, IInv', NEW b \in DOMAIN backends,
         (\E ok \in BOOLEAN : IoRefused(b, ok)) \/ ConfigureFails(b) \/ TimedOut(b)
  PROVE  Rail' /\ Apart'
<1> DEFINE old == backends[b]
<1>1. /\ UNCHANGED <<user, locked, accounts, rows, refused>>
      /\ Alive(b) /\ old.alive
  BY DEF IoRefused, ConfigureFails, TimedOut, Alive
<1>2. backends \in Seq(Backends) /\ old \in Backends /\ Own(old)
  BY DEF IInv, Types
<1>3. \E x : /\ backends' = [backends EXCEPT ![b] = x] /\ Kept(old, x)
             /\ \/ pendingAdds \ pendingAdds' \subseteq DropPending(b)
                \/ /\ ~x.alive /\ old.id # NoId
                   /\ pendingAdds \ pendingAdds' \subseteq {old.id} \cup DropPending(b)
  <2>1. CASE old.io > 0 /\ (old.id = NoId \/ Resolved(b)) /\ ~TimedOut(b)
    <3> DEFINE x == [old EXCEPT !.io = @ - 1]
    <3>1. /\ backends' = [backends EXCEPT ![b] = x]
          /\ pendingAdds \ pendingAdds' \subseteq DropPending(b)
      <4>1. ASSUME NEW ok \in BOOLEAN, IoRefused(b, ok)
            PROVE  /\ backends' = [backends EXCEPT ![b] = x]
                   /\ pendingAdds \ pendingAdds' \subseteq DropPending(b)
        BY <2>1, <4>1 DEF IoRefused
      <4>2. ConfigureFails(b) => /\ backends' = [backends EXCEPT ![b] = x]
                                 /\ pendingAdds \ pendingAdds' \subseteq DropPending(b)
        BY <2>1 DEF ConfigureFails
      <4> QED
        BY <2>1, <4>1, <4>2
    <3>2. Kept(old, x)
      BY <1>1, <1>2 DEF Kept, Backends
    <3> QED
      BY <3>1, <3>2
  <2>2. CASE old.io > 0 /\ old.id # NoId /\ ~Resolved(b) /\ ~TimedOut(b)
    <3>1. /\ backends' = [backends EXCEPT ![b] = Deleted]
          /\ pendingAdds \ pendingAdds' \subseteq {old.id} \cup DropPending(b)
      BY <2>2 DEF IoRefused, ConfigureFails, Discarded
    <3>2. Kept(old, Deleted) /\ ~Deleted.alive
      BY DEF Kept, Deleted
    <3> QED
      BY <2>2, <3>1, <3>2
  <2>3. CASE TimedOut(b) /\ Resolved(b)
    <3> DEFINE x == [old EXCEPT !.timer = FALSE]
    <3>1. backends' = [backends EXCEPT ![b] = x] /\ pendingAdds' = pendingAdds
      BY <2>3 DEF TimedOut
    <3>2. Kept(old, x)
      BY <1>1, <1>2 DEF Kept, Backends
    <3> QED
      BY <3>1, <3>2
  <2>4. CASE TimedOut(b) /\ ~Resolved(b)
    <3>1. /\ backends' = [backends EXCEPT ![b] = Deleted]
          /\ pendingAdds \ pendingAdds' \subseteq {old.id} \cup DropPending(b)
      BY <2>4 DEF TimedOut, Discarded
    <3>2. Kept(old, Deleted) /\ ~Deleted.alive
      BY DEF Kept, Deleted
    <3>3. old.id # NoId
      BY <1>2, <2>4 DEF TimedOut, Own
    <3> QED
      BY <3>1, <3>2, <3>3
  <2> QED
    BY <2>1, <2>2, <2>3, <2>4 DEF IoRefused, ConfigureFails
<1>4. PICK x : /\ backends' = [backends EXCEPT ![b] = x] /\ Kept(old, x)
               /\ \/ pendingAdds \ pendingAdds' \subseteq DropPending(b)
                  \/ /\ ~x.alive /\ old.id # NoId
                     /\ pendingAdds \ pendingAdds' \subseteq {old.id} \cup DropPending(b)
  BY <1>3
<1>5. /\ DOMAIN backends' = DOMAIN backends
      /\ \A d \in DOMAIN backends : backends'[d] = IF d = b THEN x ELSE backends[d]
  BY <1>2, <1>4
<1>6. \A d \in DOMAIN backends : Kept(backends[d], backends'[d])
  <2>1. \A d \in DOMAIN backends : Kept(backends[d], backends[d])
    BY DEF Kept
  <2> QED
    BY <1>4, <1>5, <2>1
<1>7. ASSUME ~user.resubmits, NEW d \in DOMAIN backends, Store(d), Holder(d) = {},
             backends'[d].alive
      PROVE  backends[d].id \notin pendingAdds \ pendingAdds'
  <2>1. CASE d = b
    <3>1. DropPending(b) = {}
      BY <1>7, <2>1 DEF DropPending
    <3>2. x.alive
      BY <1>5, <1>7, <2>1
    <3> QED
      BY <1>4, <3>1, <3>2
  <2>2. CASE d # b
    BY <1>1, <1>4, <1>7, <2>2, Others
  <2> QED
    BY <2>1, <2>2
<1> QED
  BY <1>1, <1>5, <1>6, <1>7, KeepStep

\* A repeated set-up and a rotation only start what is there.
LEMMA StartKeeps ==
  ASSUME IInv, Rail, Apart, IInv', setupFromQr \/ rotateVault
  PROVE  Rail' /\ Apart'
<1>1. UNCHANGED <<user, locked, accounts, rows, refused, pendingAdds>>
  BY DEF setupFromQr, rotateVault
<1>2. \A b \in DOMAIN backends : backends[b] \in Backends
  BY DEF IInv, Types
<1>3. /\ DOMAIN backends' = DOMAIN backends
      /\ \A b \in DOMAIN backends :
           backends'[b] = backends[b] \/ backends'[b] = [backends[b] EXCEPT !.io = 1]
  <2>1. CASE setupFromQr
    <3>1. PICK i \in DOMAIN accounts : backends' = [backends EXCEPT ![accounts[i].b].io = 1]
      BY <2>1 DEF setupFromQr
    <3>2. backends \in Seq(Backends)
      BY DEF IInv, Types
    <3> QED
      BY <3>1, <3>2
  <2>2. CASE rotateVault
    BY <2>2 DEF rotateVault
  <2> QED
    BY <2>1, <2>2
<1>4. \A b \in DOMAIN backends : Kept(backends[b], backends'[b])
  <2> SUFFICES ASSUME NEW b \in DOMAIN backends
               PROVE  Kept(backends[b], backends'[b])
    OBVIOUS
  <2>1. CASE backends'[b] = backends[b]
    BY <2>1 DEF Kept
  <2>2. CASE backends'[b] = [backends[b] EXCEPT !.io = 1]
    BY <1>2, <2>2 DEF Kept, Backends
  <2> QED
    BY <1>3, <2>1, <2>2
<1> QED
  BY <1>1, <1>3, <1>4, KeepStep

\* A new attempt opens a store only if no live backend has it open.
LEMMA AddKeeps ==
  ASSUME Proper, IInv, Rail, Apart, IInv', NEW c \in user.creds, addAccount(c)
  PROVE  Rail' /\ Apart'
<1> DEFINE id == computeAccountId(c)
           fresh == CHOOSE d \in DeltaDirs : d \notin data
           x == Backend(c, id, fresh, 1)
           n == Len(backends) + 1
<1>1. /\ c \in Creds /\ (c.type = "deltachat" <=> c.addr # "")
      /\ Invite(c) \/ (c.type # "deltachat" /\ Whole(c))
  BY UsersAssumption DEF IInv, Types, Proper
<1>2. /\ MayAdd(id) /\ (user.resubmits \/ id \notin pendingAdds)
      /\ backends' = Append(backends, x) /\ pendingAdds' = pendingAdds \cup {id}
      /\ UNCHANGED <<user, locked, accounts, rows, refused>>
      /\ c.type = "deltachat" => DeltaDirs \ data # {}
  BY DEF addAccount
<1>3. x.creds = c /\ x.id = id /\ x.dir = Dir(c, fresh) /\ x.alive = TRUE
  BY DEF Backend
<1>4. Sound(x)
  <2>1. Known(c) \/ Invite(c)
    BY <1>1 DEF Known
  <2>2. IF KeyAware(c) THEN x.dir = Dir(c, DefaultDelta) ELSE x.dir \in DeltaDirs \cup {DefaultDelta}
    <3>1. CASE KeyAware(c)
      BY <1>1, <1>3, <3>1 DEF KeyAware, Dir, Creds
    <3>2. CASE ~KeyAware(c)
      <4>1. fresh \in DeltaDirs
        BY <1>2, <3>2 DEF KeyAware
      <4> QED
        BY <1>3, <3>2, <4>1 DEF KeyAware, Dir
    <3> QED
      BY <3>1, <3>2
  <2>3. x.id.type = c.type
    BY <1>1, <1>3, Naming
  <2> QED
    BY <1>3, <2>1, <2>2, <2>3 DEF Sound
<1> HIDE DEF x
<1>5. /\ DOMAIN backends' = DOMAIN backends \cup {n} /\ n \notin DOMAIN backends
      /\ \A b \in DOMAIN backends : backends'[b] = backends[b]
      /\ backends'[n] = x
  BY <1>2 DEF IInv, Types
<1> HIDE DEF n, id
<1>6. Rail'
  <2>1. ~locked'
    BY <1>2 DEF MayAdd
  <2>2. \A b \in DOMAIN backends' : Sound(backends'[b])
    BY <1>4, <1>5 DEF Rail
  <2>3. UniqueIds' /\ RailIsVault'
    BY <1>2 DEF Rail, UniqueIds, RailIsVault
  <2>4. (\A k \in rows' : Whole(k)) /\
        (\A i \in DOMAIN accounts' :
           Whole(accounts'[i].creds) /\ accounts'[i].id = computeAccountId(accounts'[i].creds))
    BY <1>2 DEF Rail
  <2> QED
    BY <2>1, <2>2, <2>3, <2>4 DEF Rail, Sound
<1>7. ASSUME ~user.resubmits, NEW d \in DOMAIN backends, Store(d)
      PROVE  Key(backends[d].creds) # Key(c)
  <2> SUFFICES ASSUME Key(backends[d].creds) = Key(c)
               PROVE  FALSE
    OBVIOUS
  <2>1. Alive(d) /\ KeyAware(backends[d].creds)
    BY <1>7 DEF Store
  <2>2. backends[d].creds \in Creds
    BY <2>1, Looking
  <2>3. computeAccountId(backends[d].creds) = id
    BY <1>1, <2>2, Naming DEF id
  <2>4. CASE Holder(d) # {}
    <3>1. \E i \in DOMAIN accounts : accounts[i].id = id
      BY <2>1, <2>3, <2>4, Looking DEF Holder
    <3> QED
      BY <1>2, <3>1 DEF MayAdd, accountById, Registered
  <2>5. CASE Holder(d) = {}
    <3>1. backends[d].id # NoId /\ backends[d].id \in pendingAdds
      BY <1>7, <2>5 DEF Apart
    <3>2. backends[d].id = id
      BY <2>1, <2>3, <3>1, Looking
    <3> QED
      BY <1>2, <1>7, <3>1, <3>2
  <2> QED
    BY <2>4, <2>5
<1>8. Apart'
  <2> SUFFICES ASSUME ~user.resubmits
               PROVE  /\ \A b, d \in DOMAIN backends' :
                           b # d /\ Store(b)' /\ Store(d)' =>
                             Key(backends'[b].creds) # Key(backends'[d].creds)
                      /\ \A b \in DOMAIN backends' :
                           Store(b)' => \/ Holder(b)' # {}
                                        \/ backends'[b].id # NoId /\ backends'[b].id \in pendingAdds'
    BY <1>2 DEF Apart
  <2>1. \A b \in DOMAIN backends : Store(b)' = Store(b) /\ Holder(b)' = Holder(b)
    BY <1>2, <1>5 DEF Store, Alive, Holder
  <2>2. \A b, d \in DOMAIN backends : b # d /\ Store(b)' /\ Store(d)' =>
          Key(backends'[b].creds) # Key(backends'[d].creds)
    BY <1>5, <2>1 DEF Apart
  <2>3. \A d \in DOMAIN backends : Store(d)' => Key(backends'[d].creds) # Key(backends'[n].creds)
    BY <1>3, <1>5, <1>7, <2>1
  <2>4. backends'[n].id # NoId /\ backends'[n].id \in pendingAdds'
    BY <1>1, <1>2, <1>3, <1>5, Naming DEF id
  <2>5. \A b \in DOMAIN backends :
          Store(b)' => \/ Holder(b)' # {}
                       \/ backends'[b].id # NoId /\ backends'[b].id \in pendingAdds'
    BY <1>2, <1>5, <2>1 DEF Apart
  <2> QED
    BY <1>5, <2>2, <2>3, <2>4, <2>5
<1> QED
  BY <1>6, <1>8

\* A registration adds the same key to the rail and to the rows, or to the keys
\* whose write failed.
LEMMA SucceedKeeps ==
  ASSUME IInv, Rail, Apart, IInv', NEW b \in DOMAIN backends, Succeeded(b)
  PROVE  Rail' /\ Apart'
<1> DEFINE old == backends[b]
           c == Stamped(old.creds)
           real == RealId(old.creds)
           x == [old EXCEPT !.timer = FALSE, !.io = @ - 1, !.creds = c]
           a == [id |-> real, b |-> b, creds |-> c]
           n == Len(accounts) + 1
<1>1. /\ Alive(b) /\ old.id # NoId /\ ~accountById(real)
      /\ backends' = [backends EXCEPT ![b] = x]
      /\ accounts' = Append(accounts, a)
      /\ \/ rows' = rows \cup {Key(c)} /\ refused' = refused \ {Key(c)}
         \/ refused' = refused \cup {Key(c)} /\ rows' = rows
      /\ pendingAdds' = pendingAdds \ {old.id}
      /\ UNCHANGED <<user, locked>>
  BY DEF Succeeded
<1>2. /\ c \in Creds /\ Known(c) /\ c.type = old.creds.type
      /\ real = computeAccountId(c)
      /\ KeyAware(old.creds) => c = old.creds
  <2>1. /\ old.creds \in Creds /\ (Known(old.creds) \/ Invite(old.creds))
        /\ KeyAware(old.creds) => old.creds.addr = ""
    BY <1>1, Looking
  <2> QED
    BY <2>1, Stamping
<1>3. x.creds = c /\ x.id = old.id /\ x.alive = old.alive /\ x.dir = old.dir
  <2>1. old \in Backends
    BY DEF IInv, Types
  <2> HIDE DEF c, old
  <2> QED
    BY <2>1 DEF Backends
<1>4. a.id = real /\ a.b = b /\ a.creds = c
  OBVIOUS
<1>5. Sound(old)
  BY DEF Rail
<1> HIDE DEF x, a, real, c
<1>6. Sound(x)
  <2>1. old.alive
    BY <1>1 DEF Alive
  <2>2. KeyAware(c) <=> KeyAware(old.creds)
    BY <1>2 DEF KeyAware
  <2> QED
    BY <1>2, <1>3, <1>5, <2>1, <2>2 DEF Sound
<1>7. /\ DOMAIN backends' = DOMAIN backends
      /\ \A d \in DOMAIN backends : backends'[d] = IF d = b THEN x ELSE backends[d]
  BY <1>1 DEF IInv, Types
<1>8. /\ DOMAIN accounts' = DOMAIN accounts \cup {n} /\ n \notin DOMAIN accounts
      /\ \A i \in DOMAIN accounts : accounts'[i] = accounts[i]
      /\ accounts'[n] = a
  BY <1>1 DEF IInv, Types
<1> HIDE DEF n
<1>9. Whole(Key(c)) /\ Whole(c)
  <2>1. Key(c).type = c.type /\ Key(c).user = c.user /\ Key(c).host = c.host
    BY DEF Key
  <2>2. Whole(c)
    BY <1>2 DEF Known
  <2>3. Whole(Key(c)) <=> Whole(c)
    BY <2>1 DEF Whole
  <2> QED
    BY <2>2, <2>3
<1>10. UniqueIds'
  <2>1. \A i \in DOMAIN accounts : accounts[i].id # real
    BY <1>1 DEF accountById, Registered
  <2> QED
    BY <1>4, <1>8, <2>1 DEF Rail, UniqueIds
<1>11. RailIsVault'
  <2>1. ~locked
    BY DEF Rail
  <2>2. {Key(accounts[i].creds) : i \in DOMAIN accounts} \ refused = rows \ refused
    BY <2>1 DEF Rail, RailIsVault
  <2>3. {Key(accounts'[i].creds) : i \in DOMAIN accounts'}
          = {Key(accounts[i].creds) : i \in DOMAIN accounts} \cup {Key(c)}
    BY <1>4, <1>8
  <2> DEFINE A == {Key(accounts[i].creds) : i \in DOMAIN accounts}
             B == {Key(accounts'[i].creds) : i \in DOMAIN accounts'}
  <2> HIDE DEF A, B
  <2>4. B = A \cup {Key(c)} /\ A \ refused = rows \ refused
    BY <2>2, <2>3 DEF A, B
  <2>5. B \ refused' = rows' \ refused'
    BY <1>1, <2>4
  <2> QED
    BY <2>5 DEF RailIsVault, B
<1>12. Rail'
  <2>1. locked' => accounts' = <<>> /\ backends' = <<>>
    BY <1>1 DEF Rail
  <2>2. \A k \in rows' : Whole(k)
    BY <1>1, <1>9 DEF Rail
  <2>3. \A i \in DOMAIN accounts' :
          Whole(accounts'[i].creds) /\ accounts'[i].id = computeAccountId(accounts'[i].creds)
    BY <1>2, <1>4, <1>8, <1>9 DEF Rail
  <2>4. \A d \in DOMAIN backends' : Sound(backends'[d])
    BY <1>6, <1>7 DEF Rail
  <2> QED
    BY <1>10, <1>11, <2>1, <2>2, <2>3, <2>4 DEF Rail, Sound
<1>13. \A d \in DOMAIN backends : Store(d)' =>
         Store(d) /\ backends'[d].creds = backends[d].creds /\ backends'[d].id = backends[d].id
  BY <1>2, <1>3, <1>7 DEF Store, Alive, KeyAware
<1>14. ASSUME ~user.resubmits, NEW d \in DOMAIN backends, Store(d)'
       PROVE  \/ Holder(d)' # {}
              \/ backends'[d].id # NoId /\ backends'[d].id \in pendingAdds'
  <2>1. CASE d = b
    <3>1. n \in Holder(d)'
      BY <1>4, <1>8, <2>1 DEF Holder
    <3> QED
      BY <3>1
  <2>2. CASE d # b /\ Holder(d) # {}
    <3>1. PICK i \in DOMAIN accounts : accounts[i].b = d
      BY <2>2 DEF Holder
    <3>2. i \in Holder(d)'
      BY <1>8, <3>1 DEF Holder
    <3> QED
      BY <3>2
  <2>3. CASE d # b /\ Holder(d) = {}
    <3>1. Store(d) /\ backends'[d].id = backends[d].id
      BY <1>13, <1>14
    <3>2. backends[d].id # NoId /\ backends[d].id \in pendingAdds
      BY <1>14, <2>3, <3>1 DEF Apart
    <3>3. backends[d].id # old.id
      BY <1>1, <1>14, <2>3, <3>1, Others
    <3> QED
      BY <1>1, <3>1, <3>2, <3>3
  <2> QED
    BY <2>1, <2>2, <2>3
<1>15. Apart'
  BY <1>1, <1>7, <1>13, <1>14 DEF Apart
<1> QED
  BY <1>12, <1>15

\* A removal takes the only account with that key out of the rail.
LEMMA RemoveKeeps ==
  ASSUME IInv, Rail, Apart, IInv', NEW i \in DOMAIN accounts, removeAccount(i)
  PROVE  Rail' /\ Apart'
<1> DEFINE b == accounts[i].b
           k == Key(accounts[i].creds)
           from(j) == IF j < i THEN j ELSE j + 1
<1>1. /\ backends' = [backends EXCEPT ![b] = Deleted] /\ accounts' = RemoveAt(accounts, i)
      /\ \/ rows' = rows \ {k} /\ refused' = refused \ {k}
         \/ refused' = refused \cup {k} /\ rows' = rows
      /\ UNCHANGED <<user, locked, pendingAdds>>
  BY DEF removeAccount, RemovedRow
<1>2. /\ accounts \in Seq(Entries) /\ backends \in Seq(Backends) /\ b \in DOMAIN backends
      /\ i \in Nat /\ i <= Len(accounts) /\ Len(accounts) \in Nat
  BY DEF IInv, Types
<1>3. /\ DOMAIN backends' = DOMAIN backends
      /\ \A d \in DOMAIN backends : backends'[d] = IF d = b THEN Deleted ELSE backends[d]
  BY <1>1, <1>2
<1>4. /\ accounts' \in Seq(Entries) /\ Len(accounts') = Len(accounts) - 1
      /\ \A j \in DOMAIN accounts' : from(j) \in DOMAIN accounts /\ accounts'[j] = accounts[from(j)]
  BY <1>1, <1>2, Removing
<1>5. /\ \A j \in DOMAIN accounts' : from(j) # i
      /\ \A j, m \in DOMAIN accounts' : from(j) = from(m) => j = m
      /\ \A m \in DOMAIN accounts : m # i => \E j \in DOMAIN accounts' : from(j) = m
  <2>1. DOMAIN accounts' = 1 .. Len(accounts) - 1 /\ DOMAIN accounts = 1 .. Len(accounts)
    BY <1>2, <1>4
  <2>2. \A j \in DOMAIN accounts' : from(j) # i
    BY <1>2, <2>1
  <2>3. \A j, m \in DOMAIN accounts' : from(j) = from(m) => j = m
    BY <1>2, <2>1
  <2>4. ASSUME NEW m \in DOMAIN accounts, m # i
        PROVE  \E j \in DOMAIN accounts' : from(j) = m
    <3>1. CASE m < i
      <4>1. m \in DOMAIN accounts' /\ from(m) = m
        BY <1>2, <2>1, <3>1
      <4> QED
        BY <4>1
    <3>2. CASE m > i
      <4>1. m - 1 \in DOMAIN accounts' /\ from(m - 1) = m
        BY <1>2, <2>1, <3>2
      <4> QED
        BY <4>1
    <3> QED
      BY <1>2, <2>1, <2>4, <3>1, <3>2
  <2> QED
    BY <2>2, <2>3, <2>4
<1> HIDE DEF from
<1> ~Deleted.alive
  BY DEF Deleted
<1>6. \A j \in DOMAIN accounts : accounts[j].creds \in Creds
  <2>1. \A j \in DOMAIN accounts : accounts[j] \in Entries
    BY <1>2
  <2> QED
    BY <2>1 DEF Entries
<1>7. \A j \in DOMAIN accounts : j # i => Key(accounts[j].creds) # k
  <2> SUFFICES ASSUME NEW j \in DOMAIN accounts, Key(accounts[j].creds) = k
               PROVE  j = i
    OBVIOUS
  <2>1. computeAccountId(accounts[j].creds) = computeAccountId(accounts[i].creds)
    BY <1>6, Naming
  <2>2. accounts[j].id = accounts[i].id
    BY <2>1 DEF Rail
  <2> QED
    BY <2>2 DEF Rail, UniqueIds
<1> HIDE DEF b, k
<1>8. UniqueIds'
  BY <1>4, <1>5 DEF Rail, UniqueIds
<1>9. RailIsVault'
  <2> SUFFICES ASSUME ~locked PROVE RailIsVault'
    BY <1>1 DEF RailIsVault
  <2> DEFINE A == {Key(accounts[j].creds) : j \in DOMAIN accounts}
             B == {Key(accounts'[j].creds) : j \in DOMAIN accounts'}
  <2>1. A \ refused = rows \ refused
    BY DEF Rail, RailIsVault
  <2>2. \A e \in B : e \in A /\ e # k
    BY <1>4, <1>5, <1>7
  <2>3. \A e \in A : e # k => e \in B
    <3> SUFFICES ASSUME NEW j \in DOMAIN accounts, Key(accounts[j].creds) # k
                 PROVE  Key(accounts[j].creds) \in B
      OBVIOUS
    <3>1. j # i
      BY DEF k
    <3>2. PICK m \in DOMAIN accounts' : from(m) = j
      BY <1>5, <3>1
    <3> QED
      BY <1>4, <3>2
  <2> HIDE DEF A, B
  <2>4. B \ refused' = rows' \ refused'
    BY <1>1, <2>1, <2>2, <2>3
  <2> QED
    BY <2>4 DEF RailIsVault, B
<1>10. Rail'
  <2>1. ~locked'
    BY <1>1, <1>2 DEF Rail
  <2>2. (\A r \in rows' : Whole(r)) /\
        (\A j \in DOMAIN accounts' :
           Whole(accounts'[j].creds) /\ accounts'[j].id = computeAccountId(accounts'[j].creds))
    BY <1>1, <1>4 DEF Rail
  <2>3. \A d \in DOMAIN backends' : Sound(backends'[d])
    BY <1>3 DEF Rail, Sound
  <2> QED
    BY <1>8, <1>9, <2>1, <2>2, <2>3 DEF Rail, Sound
<1>11. \A d \in DOMAIN backends : Store(d)' => d # b /\ Store(d) /\ backends'[d] = backends[d]
  BY <1>3 DEF Store, Alive
<1>12. \A d \in DOMAIN backends : d # b /\ Holder(d) # {} => Holder(d)' # {}
  <2> SUFFICES ASSUME NEW d \in DOMAIN backends, d # b, NEW m \in DOMAIN accounts,
                      accounts[m].b = d
               PROVE  \E j \in DOMAIN accounts' : accounts'[j].b = d
    BY DEF Holder
  <2>1. m # i
    BY DEF b
  <2>2. PICK j \in DOMAIN accounts' : from(j) = m
    BY <1>5, <2>1
  <2> QED
    BY <1>4, <2>2
<1>13. Apart'
  BY <1>1, <1>3, <1>11, <1>12 DEF Apart
<1> QED
  BY <1>10, <1>13

\* Opening the vault shows exactly the rows and opens one store for each.
LEMMA UnlockKeeps ==
  ASSUME IInv, Rail, IInv', onVaultUnlocked
  PROVE  Rail' /\ Apart'
<1> DEFINE Read(read) ==
      LET new == SetToSeq({k \in read : ~accountById(LoadedId(k))})
          n == Len(backends)
          all == backends \o
            [j \in DOMAIN new |-> Backend(FromRow(new[j]), NoId, DefaultDelta, 0)]
          aware(b) == \E i \in DOMAIN accounts' :
                        accounts'[i].b = b /\ KeyAware(accounts'[i].creds)
      IN  /\ accounts' = accounts \o
               [j \in DOMAIN new |-> [id |-> computeAccountId(new[j]), b |-> n + j,
                                      creds |-> FromRow(new[j])]]
          /\ backends' = [b \in DOMAIN all |->
               IF aware(b) /\ all[b].alive THEN [all[b] EXCEPT !.io = 1] ELSE all[b]]
          /\ refused' = refused \cup (rows \ read)
<1>0. PICK read \in SUBSET rows : Read(read)
  BY DEF onVaultUnlocked
<1> DEFINE missing == {r \in read : ~accountById(LoadedId(r))}
           new == SetToSeq(missing)
           entry(j) == [id |-> computeAccountId(new[j]), b |-> Len(backends) + j,
                        creds |-> FromRow(new[j])]
           loaded(j) == Backend(FromRow(new[j]), NoId, DefaultDelta, 0)
           added == [j \in DOMAIN new |-> entry(j)]
           opened == [j \in DOMAIN new |-> loaded(j)]
           all == backends \o opened
           aware(b) == \E i \in DOMAIN accounts' :
                         accounts'[i].b = b /\ KeyAware(accounts'[i].creds)
           started(b) == IF aware(b) /\ all[b].alive THEN [all[b] EXCEPT !.io = 1] ELSE all[b]
<1>1. /\ accounts' = accounts \o added
      /\ backends' = [b \in DOMAIN all |-> started(b)]
      /\ locked /\ locked' = FALSE
      /\ refused' = refused \cup (rows \ read)
      /\ UNCHANGED <<user, pendingAdds, rows>>
  BY <1>0 DEF onVaultUnlocked
<1>2. accounts = <<>> /\ backends = <<>> /\ Len(backends) = 0
  BY <1>1 DEF Rail
<1>3. missing = read
  BY <1>2 DEF accountById, Registered
<1>4. /\ new \in Seq(read) /\ read \subseteq Keys
      /\ \A i, j \in DOMAIN new : new[i] = new[j] => i = j
      /\ \A r \in read : \E j \in DOMAIN new : new[j] = r
  <2>1. IsFiniteSet(read) /\ read \subseteq Keys
    BY FS_Subset DEF IInv, Types
  <2> HIDE DEF missing
  <2> QED
    BY <1>3, <2>1, Enumerating
<1> HIDE DEF missing, new
<1>5. \A j \in DOMAIN new : /\ new[j] \in Keys /\ new[j] \in rows /\ j \in Nat
                            /\ FromRow(new[j]) \in Creds /\ Key(FromRow(new[j])) = new[j]
  BY <1>4, Making
<1>6. DOMAIN new = 1 .. Len(new) /\ Len(new) \in Nat
  BY <1>4
<1>7. /\ DOMAIN accounts' = DOMAIN new
      /\ \A j \in DOMAIN new : accounts'[j].id = computeAccountId(new[j]) /\ accounts'[j].b = j
                               /\ accounts'[j].creds = FromRow(new[j])
  <2> HIDE DEF entry
  <2>1. added = [j \in 1 .. Len(new) |-> entry(j)]
    BY <1>6
  <2>2. \A j \in 1 .. Len(new) : entry(j) \in {entry(m) : m \in DOMAIN new}
    BY <1>6
  <2>3. added \in Seq({entry(m) : m \in DOMAIN new})
    BY <1>6, <2>1, <2>2
  <2> HIDE DEF added
  <2>4. <<>> \o added = added
    BY <2>3
  <2>5. accounts' = added
    BY <1>1, <1>2, <2>4
  <2>6. \A j \in DOMAIN new : /\ entry(j).id = computeAccountId(new[j]) /\ entry(j).b = j
                              /\ entry(j).creds = FromRow(new[j])
    BY <1>2, <1>5 DEF entry
  <2> QED
    BY <1>6, <2>1, <2>5, <2>6
<1>8. \A j \in DOMAIN new :
        /\ loaded(j).creds = FromRow(new[j]) /\ loaded(j).id = NoId /\ loaded(j).alive = TRUE
        /\ loaded(j).dir = Dir(FromRow(new[j]), DefaultDelta) /\ loaded(j) \in Backends
  <2> SUFFICES ASSUME NEW j \in DOMAIN new
               PROVE  /\ loaded(j).creds = FromRow(new[j]) /\ loaded(j).id = NoId
                      /\ loaded(j).dir = Dir(FromRow(new[j]), DefaultDelta)
                      /\ loaded(j).alive = TRUE /\ loaded(j) \in Backends
    OBVIOUS
  <2> DEFINE d == FromRow(new[j])
  <2>1. loaded(j) = [creds |-> d, id |-> NoId, dir |-> Dir(d, DefaultDelta),
                     alive |-> TRUE, timer |-> FALSE, io |-> 0]
    BY DEF Backend
  <2>2. d \in Creds /\ Dir(d, DefaultDelta) \in Dirs /\ NoId \in Ids
    BY <1>5, Directories, Making
  <2> HIDE DEF d, loaded
  <2>3. loaded(j) \in Backends
    BY <2>1, <2>2 DEF Backends
  <2>4. /\ loaded(j).creds = d /\ loaded(j).id = NoId /\ loaded(j).alive = TRUE
        /\ loaded(j).dir = Dir(d, DefaultDelta)
    BY <2>1
  <2> QED
    BY <2>3, <2>4 DEF d
<1> HIDE DEF entry, loaded
<1>9. /\ DOMAIN all = DOMAIN new
      /\ \A j \in DOMAIN new : all[j] = loaded(j)
  <2>1. opened = [j \in 1 .. Len(new) |-> loaded(j)]
    BY <1>6
  <2>2. opened \in Seq(Backends)
    BY <1>6, <1>8, <2>1
  <2> HIDE DEF opened
  <2>3. <<>> \o opened = opened
    BY <2>2
  <2> QED
    BY <1>2, <1>6, <2>1, <2>3
<1> HIDE DEF all, added, aware
<1>10. /\ DOMAIN backends' = DOMAIN new
       /\ \A j \in DOMAIN new :
            /\ backends'[j].creds = FromRow(new[j]) /\ backends'[j].id = NoId
            /\ backends'[j].alive = TRUE
            /\ backends'[j].dir = Dir(FromRow(new[j]), DefaultDelta)
  <2>1. DOMAIN backends' = DOMAIN new /\ \A j \in DOMAIN new : backends'[j] = started(j)
    BY <1>1, <1>9
  <2> SUFFICES ASSUME NEW j \in DOMAIN new
               PROVE  /\ started(j).creds = FromRow(new[j]) /\ started(j).id = NoId
                      /\ started(j).alive = TRUE
                      /\ started(j).dir = Dir(FromRow(new[j]), DefaultDelta)
    BY <2>1
  <2>2. CASE started(j) = all[j]
    BY <1>8, <1>9, <2>2
  <2>3. CASE started(j) = [loaded(j) EXCEPT !.io = 1]
    BY <1>8, <2>3 DEF Backends
  <2> QED
    BY <1>9, <2>2, <2>3
<1> HIDE DEF started
<1>11. \A j \in DOMAIN new : /\ Whole(FromRow(new[j])) /\ FromRow(new[j]).addr = ""
                             /\ computeAccountId(FromRow(new[j])) = computeAccountId(new[j])
  <2> SUFFICES ASSUME NEW j \in DOMAIN new
               PROVE  /\ Whole(FromRow(new[j])) /\ FromRow(new[j]).addr = ""
                      /\ computeAccountId(FromRow(new[j])) = computeAccountId(new[j])
    OBVIOUS
  <2>1. Whole(new[j])
    BY <1>5 DEF Rail
  <2>2. /\ FromRow(new[j]).type = new[j].type /\ FromRow(new[j]).user = new[j].user
        /\ FromRow(new[j]).host = new[j].host /\ FromRow(new[j]).addr = ""
    BY DEF FromRow
  <2>3. Key(FromRow(new[j])) = Key(new[j])
    BY <2>2 DEF Key
  <2>4. new[j] \in Creds \cup Keys /\ FromRow(new[j]) \in Creds \cup Keys
    BY <1>5
  <2> QED
    BY <2>1, <2>2, <2>3, <2>4, Naming
<1>12. \A i, j \in DOMAIN new : computeAccountId(new[i]) = computeAccountId(new[j]) => i = j
  <2> SUFFICES ASSUME NEW i \in DOMAIN new, NEW j \in DOMAIN new,
                      computeAccountId(new[i]) = computeAccountId(new[j])
               PROVE  i = j
    OBVIOUS
  <2> DEFINE c == FromRow(new[i])
             d == FromRow(new[j])
  <2>1. c \in Creds \cup Keys /\ d \in Creds \cup Keys /\ Whole(c) /\ Whole(d)
        /\ computeAccountId(c) = computeAccountId(d)
    BY <1>5, <1>11
  <2> HIDE DEF c, d
  <2>2. Key(c) = Key(d)
    BY <2>1, Naming
  <2>3. Key(c) = new[i] /\ Key(d) = new[j]
    BY <1>5 DEF c, d
  <2> QED
    BY <1>4, <2>2, <2>3
<1>13. Rail'
  <2>1. \A k \in rows' : Whole(k)
    BY <1>1 DEF Rail
  <2>2. \A i \in DOMAIN accounts' :
          Whole(accounts'[i].creds) /\ accounts'[i].id = computeAccountId(accounts'[i].creds)
    <3> SUFFICES ASSUME NEW i \in DOMAIN new
                 PROVE  /\ Whole(accounts'[i].creds)
                        /\ accounts'[i].id = computeAccountId(accounts'[i].creds)
      BY <1>7
    <3>1. accounts'[i].creds = FromRow(new[i]) /\ accounts'[i].id = computeAccountId(new[i])
      BY <1>7
    <3>2. Whole(FromRow(new[i])) /\ computeAccountId(FromRow(new[i])) = computeAccountId(new[i])
      BY <1>11
    <3> QED
      BY <3>1, <3>2
  <2>3. \A b \in DOMAIN backends' : Sound(backends'[b])
    <3> SUFFICES ASSUME NEW b \in DOMAIN new
                 PROVE  Sound(backends'[b])
      BY <1>10
    <3>1. Known(backends'[b].creds) /\ backends'[b].id = NoId
      BY <1>10, <1>11 DEF Known
    <3>2. IF KeyAware(backends'[b].creds)
          THEN backends'[b].dir = Dir(backends'[b].creds, DefaultDelta)
          ELSE backends'[b].dir \in DeltaDirs \cup {DefaultDelta}
      BY <1>10 DEF KeyAware, Dir
    <3> QED
      BY <3>1, <3>2 DEF Sound
  <2>4. UniqueIds'
    BY <1>7, <1>12 DEF UniqueIds
  <2>5. RailIsVault'
    <3>1. {Key(accounts'[i].creds) : i \in DOMAIN accounts'} = read
      BY <1>4, <1>5, <1>7
    <3> QED
      BY <1>1, <3>1 DEF RailIsVault
  <2> QED
    BY <1>1, <2>1, <2>2, <2>3, <2>4, <2>5 DEF Rail, Sound
<1>14. Apart'
  <2>1. \A b, c \in DOMAIN backends' : b # c => Key(backends'[b].creds) # Key(backends'[c].creds)
    BY <1>4, <1>5, <1>10
  <2>2. \A b \in DOMAIN backends' : Holder(b)' # {}
    BY <1>7, <1>10 DEF Holder
  <2> QED
    BY <2>1, <2>2 DEF Apart
<1> QED
  BY <1>13, <1>14

\* Both hold throughout every behaviour, if what is submitted is proper.
THEOREM RailInvariant ==
  ASSUME Proper
  PROVE  Spec => [](IInv /\ Rail /\ Apart)
<1>1. Init => Rail /\ Apart
  <2> SUFFICES ASSUME Init PROVE Rail /\ Apart
    OBVIOUS
  <2>1. Rail
    BY DEF Init, Rail, UniqueIds, RailIsVault
  <2>2. Apart
    BY DEF Init, Apart
  <2> QED
    BY <2>1, <2>2
<1>2. IInv /\ IInv' /\ Rail /\ Apart /\ [Next]_vars => (Rail /\ Apart)'
  <2> SUFFICES ASSUME IInv, IInv', Rail, Apart, [Next]_vars PROVE Rail' /\ Apart'
    OBVIOUS
  <2>1. CASE \E c \in user.creds : addAccount(c)
    BY <2>1, AddKeeps
  <2>2. CASE \E b \in DOMAIN backends :
               (\E ok \in BOOLEAN : IoRefused(b, ok)) \/ ConfigureFails(b) \/ TimedOut(b)
    BY <2>2, ResultKeeps
  <2>3. CASE \E b \in DOMAIN backends : Succeeded(b)
    BY <2>3, SucceedKeeps
  <2>4. CASE \E i \in DOMAIN accounts : removeAccount(i)
    BY <2>4, RemoveKeeps
  <2>5. CASE setupFromQr \/ rotateVault
    BY <2>5, StartKeeps
  <2>6. CASE onVaultUnlocked
    BY <2>6, UnlockKeeps
  <2>7. CASE Restart
    <3>1. /\ locked' = TRUE /\ backends' = <<>> /\ accounts' = <<>> /\ rows' = rows
      BY <2>7 DEF Restart
    <3>2. Rail'
      BY <3>1 DEF Rail, UniqueIds, RailIsVault
    <3>3. Apart'
      BY <3>1 DEF Apart
    <3> QED
      BY <3>2, <3>3
  <2>8. CASE UNCHANGED vars
    BY <2>8 DEF vars, Rail, Apart, Sound, Store, Alive, Holder, UniqueIds, RailIsVault
  <2> QED
    BY <2>1, <2>2, <2>3, <2>4, <2>5, <2>6, <2>7, <2>8 DEF Next
<1> QED
  BY <1>1, <1>2, Invariant, PTL DEF Spec

-----------------------------------------------------------------------------
(* The theorems. *)

\* The registry only names backends that exist, each at most once.
THEOREM TypeCorrect == Spec => []TypeOK
<1>1. IInv => TypeOK
  <2> SUFFICES ASSUME IInv PROVE TypeOK
    OBVIOUS
  <2>1. \A b \in DOMAIN backends : backends[b] \in Backends
    BY DEF IInv, Types
  <2>2. \A b \in DOMAIN backends :
          backends[b].alive \in BOOLEAN /\ backends[b].timer \in BOOLEAN /\ backends[b].io \in {0, 1}
    BY <2>1 DEF Backends
  <2> QED
    BY <2>2 DEF IInv, Types, TypeOK
<1> QED
  BY <1>1, Invariant, PTL

\* No account is shown or persisted whose credentials no server has accepted.
THEOREM OnlyProven == Spec => []ProvenOnly
<1>1. IInv => ProvenOnly
  BY DEF IInv
<1> QED
  BY <1>1, Invariant, PTL

\* Unless set-ups are repeated, a registered account's backend lives, no timer of an
\* attempt runs on it, and the id it was added under, if any, became the account's.
THEOREM HandlersGoSilent == Spec => []RegisteredAlive
<1>1. IInv => RegisteredAlive
  BY DEF IInv, RegisteredAlive, Silent, Sole
<1> QED
  BY <1>1, Invariant, PTL

\* While the vault is open the rail shows the persisted accounts, but for those
\* that accounts.db did not take, delete or give since the start.
THEOREM RailIsVaultHolds ==
  ASSUME Proper
  PROVE  Spec => []RailIsVault
<1>1. Rail => RailIsVault
  BY DEF Rail
<1> QED
  BY <1>1, RailInvariant, PTL

\* No two accounts share an id, a registered backend is not deleted by its own
\* attempt, and no two live backends work on the same encrypted store.
THEOREM RegistryStaysConsistent ==
  ASSUME Proper
  PROVE  Spec => []RegistryConsistent
<1>1. IInv => RegisteredAlive
  BY DEF IInv, RegisteredAlive, Silent, Sole
<1>2. Rail => UniqueIds
  BY DEF Rail
<1>3. IInv /\ Rail /\ Apart => OneBackendPerStore
  <2> SUFFICES ASSUME IInv, Rail, Apart, ~user.resubmits,
                      NEW b \in DOMAIN backends, NEW c \in DOMAIN backends,
                      b # c, Alive(b), Alive(c), KeyAware(backends[b].creds)
               PROVE  backends[b].dir # backends[c].dir
    BY DEF OneBackendPerStore
  <2>1. Sound(backends[b]) /\ Sound(backends[c])
    BY DEF Rail
  <2>2. /\ backends[b].creds \in Creds /\ backends[c].creds \in Creds /\ Whole(backends[b].creds)
        /\ backends[b].dir = Dir(backends[b].creds, DefaultDelta)
    BY <2>1, Looking DEF Sound, Alive
  <2>3. CASE KeyAware(backends[c].creds)
    <3>1. Whole(backends[c].creds) /\ backends[c].dir = Dir(backends[c].creds, DefaultDelta)
      BY <2>1, <2>3, Looking DEF Sound, Alive
    <3>2. Key(backends[b].creds) # Key(backends[c].creds)
      BY <2>3 DEF Apart, Store
    <3> QED
      BY <2>2, <2>3, <3>1, <3>2, Stores
  <2>4. CASE ~KeyAware(backends[c].creds)
    <3>1. backends[c].dir \in DeltaDirs \cup {DefaultDelta}
      BY <2>1, <2>4 DEF Sound, Alive
    <3> QED
      BY <2>2, <3>1, Stores
  <2> QED
    BY <2>3, <2>4
<1>4. IInv /\ Rail /\ Apart => RegistryConsistent
  BY <1>1, <1>2, <1>3 DEF RegistryConsistent
<1> QED
  BY <1>4, RailInvariant, PTL

=============================================================================
