-------------------------- MODULE DeltaChatProofs --------------------------
(***************************************************************************)
(* The proofs about DeltaChat, for any situations, chats and messages: the    *)
(* types, one consumer of events per process, and that an attempt made with a *)
(* QR code is registered under its address.                                   *)
(*                                                                          *)
(* The chains of continuations are functions of the members, so there is one  *)
(* lemma per function, which says what it asks for and what it leaves alone;  *)
(* Follows sums them up.  An invariant says which promises exclude which, and *)
(* so which step can be the next one of a chain.                              *)
(***************************************************************************)
EXTENDS DeltaChat, FiniteSetTheorems, TLAPS

Parties == Owed \cup {"pump", "self"}

\* The steps up to the one that starts the pump, and all that end in an account.
Onwards == {"ids", "add", "select", "isConfigured"}
Setup == Onwards \cup {"identity", "startIo", "apply", "configure", "learn",
                       "backup", "start"}
Batch == {"batch"}
Steps == Setup \cup SelfSteps \cup Requests \cup Batch

Calls == [step : Steps, by : Parties, acct : BOOLEAN,
          about : SUBSET (Chats \cup Messages)]

Members ==
  [dir : {"own", "default"}, qr : BOOLEAN, accountId : BOOLEAN, addr : BOOLEAN,
   ioRequested : BOOLEAN, pumpRunning : BOOLEAN, spoilt : BOOLEAN, retries : Nat,
   startIoSoon : BOOLEAN, role : {"attempt", "account", "failed", "gone"},
   ui : {"free", "removing", "resetting", "gone"}, owed : SUBSET Owed,
   asks : SUBSET Calls]

\* At most one, or none, of the calls in C waits at one of the steps K.
Single(C, K) == \A c, d \in C : c.step \in K /\ d.step \in K => c = d
None(C, K) == \A c \in C : c.step \notin K

IsPromise(c) ==
  /\ c.step \in Steps /\ c.by \in Parties /\ c.acct \in BOOLEAN
  /\ c.about \subseteq Chats \cup Messages /\ c = Numbered(c, c.n)

TypeInv ==
  /\ start \in Starts /\ resets \in Nat
  /\ store \in [{"own", "default"} -> {"empty", "account", "configured"}]
  /\ server \in {"up", "ending", "down"} /\ events \subseteq Events
  /\ self \in Members /\ self.asks = {}
  /\ \A c \in pending : IsPromise(c)
  /\ server = "down" => pending = {} /\ events = {}

\* A process that inherited nothing: the chain of initialize has at most one
\* promise, and none once the pump runs; the pump then has one promise or one
\* retry, and before that it has neither.
PumpInv ==
  server = "up" /\ self.ui = "free" /\ carried = {} =>
    /\ self.spoilt = FALSE
    /\ Single(pending, Onwards) /\ Single(pending, Batch)
    /\ self.pumpRunning = FALSE => self.retries = 0 /\ None(pending, Batch)
    /\ self.pumpRunning = TRUE =>
         /\ None(pending, Onwards)
         /\ \/ self.retries = 0 /\ ~None(pending, Batch)
            \/ self.retries = 1 /\ None(pending, Batch)

\* An attempt made with a QR code has one promise of all its set-up steps; those
\* that may end in an account wait only where the server is configured.
ConfiguredBy(C, s, on) ==
  \A c \in C :
    /\ c.step \in {"identity", "learn"} => on = "configured"
    /\ c.step \in {"start", "startIo"} => s.addr = TRUE /\ on = "configured"
    /\ c.step # "backup"
AttemptInv ==
  self.role = "attempt" /\ start.qr = TRUE =>
    /\ self.qr = TRUE /\ self.startIoSoon = FALSE /\ self.ui = "free"
    /\ Single(pending, Setup)
    /\ ConfiguredBy(pending, self, store[self.dir])

IInv == TypeInv /\ PumpInv /\ AttemptInv

-----------------------------------------------------------------------------
(* Calls that are written.                                                   *)

\* P is the calls in A, each once, as promises.
Stems(p, a) == /\ p.step = a.step /\ p.by = a.by /\ p.acct = a.acct
               /\ p.about = a.about /\ p = Numbered(p, p.n)
Promises(P, A) ==
  /\ \A p \in P : \E a \in A : Stems(p, a)
  /\ \A a \in A : \E p \in P : p.step = a.step
  /\ \A K \in SUBSET Steps : Single(A, K) => Single(P, K)

LEMMA Numbering ==
  ASSUME NEW A \in SUBSET Calls, NEW f
  PROVE  Promises({Numbered(a, f[a]) : a \in A}, A)
<1> DEFINE P == {Numbered(a, f[a]) : a \in A}
<1>1. \A a \in A : Stems(Numbered(a, f[a]), a)
  BY DEF Numbered, Stems
<1>2. \A p \in P : \E a \in A : p = Numbered(a, f[a])
  OBVIOUS
<1>3. \A a \in A : Numbered(a, f[a]) \in P
  OBVIOUS
<1>4. ASSUME NEW K \in SUBSET Steps, Single(A, K), NEW p \in P, NEW q \in P,
             p.step \in K, q.step \in K
      PROVE  p = q
  <2>1. PICK a \in A : p = Numbered(a, f[a])
    BY <1>2
  <2>2. PICK b \in A : q = Numbered(b, f[b])
    BY <1>2
  <2>3. a.step \in K /\ b.step \in K
    BY <1>1, <1>4, <2>1, <2>2 DEF Stems
  <2> QED
    BY <1>4, <2>1, <2>2, <2>3 DEF Single
<1> HIDE DEF P
<1>5. \A p \in P : \E a \in A : Stems(p, a)
  BY <1>1, <1>2
<1>6. \A a \in A : \E p \in P : p.step = a.step
  BY <1>1, <1>3 DEF Stems
<1>7. \A K \in SUBSET Steps : Single(A, K) => Single(P, K)
  BY <1>4 DEF Single
<1> QED
  BY <1>5, <1>6, <1>7 DEF Promises, P

LEMMA WrittenPromises ==
  ASSUME NEW A \in SUBSET Calls
  PROVE  Promises(Written(A), A)
<1> DEFINE f == [a \in A |-> FreeNumber(a)]
<1>1. Written(A) = {Numbered(a, f[a]) : a \in A}
  BY DEF Written
<1> QED
  BY <1>1, Numbering

LEMMA FirstPromises ==
  ASSUME NEW A \in SUBSET Calls
  PROVE  Promises({Numbered(a, 0) : a \in A}, A)
<1> DEFINE f == [a \in A |-> 0]
<1>1. {Numbered(a, 0) : a \in A} = {Numbered(a, f[a]) : a \in A}
  OBVIOUS
<1> QED
  BY <1>1, Numbering

LEMMA NonePromised ==
  ASSUME NEW P, NEW A, Promises(P, A), NEW K, None(A, K)
  PROVE  None(P, K)
  BY DEF Promises, None, Stems

\* What is left, and what is added.
LEMMA Together ==
  ASSUME NEW R, NEW P, NEW K
  PROVE  /\ (None(R \cup P, K)) <=> (None(R, K) /\ None(P, K))
         /\ (Single(R, K) /\ Single(P, K) /\ (None(R, K) \/ None(P, K))) => Single(R \cup P, K)
<1>1. (None(R \cup P, K)) <=> (None(R, K) /\ None(P, K))
  BY DEF None
<1>2. ASSUME Single(R, K), Single(P, K), None(R, K) \/ None(P, K)
      PROVE  Single(R \cup P, K)
  BY <1>2 DEF None, Single
<1> QED
  BY <1>1, <1>2

LEMMA NoneSingle ==
  ASSUME NEW C, NEW K, None(C, K)
  PROVE  Single(C, K)
  BY DEF None, Single

-----------------------------------------------------------------------------
(* The chains, one by one.                                                   *)

\* Only who is owed an answer, and the calls to be written, differ.
Same(s, t) ==
  /\ t.dir = s.dir /\ t.qr = s.qr /\ t.accountId = s.accountId /\ t.addr = s.addr
  /\ t.ioRequested = s.ioRequested /\ t.pumpRunning = s.pumpRunning
  /\ t.spoilt = s.spoilt /\ t.retries = s.retries /\ t.startIoSoon = s.startIoSoon
  /\ t.role = s.role /\ t.ui = s.ui

Adds(s, t, step) == \E k \in Calls : k.step = step /\ t.asks = s.asks \cup {k}

LEMMA Asking ==
  ASSUME NEW s \in Members, NEW step \in Steps, NEW by \in Parties,
         NEW about \in SUBSET (Chats \cup Messages)
  PROVE  LET t == Ask(s, step, by, about)
         IN  t \in Members /\ Same(s, t) /\ Adds(s, t, step)
<1> DEFINE k == Call(step, by, s.accountId, about)
           t == [s EXCEPT !.asks = s.asks \cup {k}]
<1>1. k \in Calls /\ k.step = step
  BY DEF Call, Calls, Members
<1> HIDE DEF k
<1>2. t \in Members /\ Same(s, t) /\ t.asks = s.asks \cup {k}
  BY <1>1 DEF Members, Same
<1>3. Ask(s, step, by, about) = t
  BY DEF Ask, k
<1> QED
  BY <1>1, <1>2, <1>3 DEF Adds

\* The members that no answer changes.
Kept(s, t) ==
  /\ t.dir = s.dir /\ t.qr = s.qr /\ t.spoilt = s.spoilt
  /\ t.ui = s.ui /\ t.retries = s.retries

\* What an answer means for the pump.
FollowsPump(s, c, t) ==
  /\ c.step \in Onwards \ {"isConfigured"} =>
       t.pumpRunning = s.pumpRunning /\ Single(t.asks, Onwards) /\ None(t.asks, Batch)
  /\ c.step = "isConfigured" =>
       /\ t.pumpRunning = TRUE /\ None(t.asks, Onwards) /\ Single(t.asks, Batch)
       /\ s.pumpRunning = FALSE => ~None(t.asks, Batch)
  /\ c.step = "batch" =>
       /\ t.pumpRunning = s.pumpRunning /\ None(t.asks, Onwards)
       /\ Single(t.asks, Batch) /\ ~None(t.asks, Batch)
  /\ c.step \notin Onwards \cup Batch =>
       t.pumpRunning = s.pumpRunning /\ None(t.asks, Onwards) /\ None(t.asks, Batch)

\* What it means for a set-up: the next step of its chain, if any, and no other.
FollowsSetup(s, c, got, t) ==
  /\ Single(t.asks, Setup) /\ (c.step \notin Setup => None(t.asks, Setup))
  /\ c.step \notin {"start", "startIo"} => t.role = s.role
  /\ t.role = "attempt" => s.role = "attempt"
  /\ s.addr = TRUE => t.addr = TRUE
  /\ s.qr = TRUE /\ s.startIoSoon = FALSE => t.startIoSoon = FALSE
  /\ \A a \in t.asks :
       /\ a.step = "identity" => c.step = "isConfigured" /\ got # {}
       /\ a.step = "learn" => c.step = "configure"
       /\ a.step = "start" => (c.step = "learn" /\ t.addr = TRUE) \/ c.step = "backup"
       /\ a.step = "startIo" => c.step = "identity" /\ t.addr = TRUE
       /\ a.step # "backup"

Follows(s, c, got, t) ==
  t \in Members /\ Kept(s, t) /\ FollowsPump(s, c, t) /\ FollowsSetup(s, c, got, t)

\* A step that asks for one call of no chain, or for none, and answers at most.
LEMMA Aside ==
  ASSUME NEW s \in Members, s.asks = {}, NEW t \in Members, NEW c, NEW got,
         Kept(s, t), t.pumpRunning = s.pumpRunning, t.addr = s.addr,
         t.startIoSoon = s.startIoSoon,
         c.step \notin Setup \cup Batch,
         t.role = s.role,
         None(t.asks, Setup \cup Batch)
  PROVE  Follows(s, c, got, t)
<1>1. None(t.asks, Setup) /\ None(t.asks, Onwards) /\ None(t.asks, Batch)
  BY DEF None, Setup
<1>2. Single(t.asks, Setup)
  BY <1>1, NoneSingle
<1>3. c.step \notin Setup /\ c.step \notin Onwards /\ c.step \notin Batch
  BY DEF Setup
<1>4. FollowsPump(s, c, t)
  BY <1>1, <1>3 DEF FollowsPump, Onwards, Batch
<1>5. \A a \in t.asks : a.step \notin {"identity", "learn", "start", "startIo", "backup"}
  BY <1>1 DEF None, Setup
<1>6. FollowsSetup(s, c, got, t)
  BY <1>1, <1>2, <1>3, <1>5 DEF FollowsSetup, Setup
<1> QED
  BY <1>4, <1>6 DEF Follows

LEMMA Answering ==
  ASSUME NEW s \in Members, NEW by
  PROVE  LET t == Answered(s, by)
         IN  t \in Members /\ Same(s, t) /\ t.asks = s.asks
<1> DEFINE t == [s EXCEPT !.owed = s.owed \ {by}]
<1>1. t \in Members /\ Same(s, t) /\ t.asks = s.asks
  BY DEF Members, Same
<1>2. Answered(s, by) = t
  BY DEF Answered
<1> QED
  BY <1>1, <1>2

\* Same members, and one call of no chain or none.
LEMMA SameAside ==
  ASSUME NEW s \in Members, s.asks = {}, NEW t \in Members, Same(s, t), NEW c, NEW got,
         c.step \notin Setup \cup Batch, None(t.asks, Setup \cup Batch)
  PROVE  Follows(s, c, got, t)
<1>1. Kept(s, t) /\ t.pumpRunning = s.pumpRunning /\ t.addr = s.addr
      /\ t.startIoSoon = s.startIoSoon /\ t.role = s.role
  BY DEF Same, Kept
<1> QED
  BY <1>1, Aside

LEMMA OneAside ==
  ASSUME NEW s, s.asks = {}, NEW t, NEW step, Adds(s, t, step),
         step \notin Setup \cup Batch
  PROVE  None(t.asks, Setup \cup Batch)
  BY DEF Adds, None

\* A step of a set-up chain that asks for the next one.
LEMMA Advances ==
  ASSUME NEW s \in Members, s.asks = {}, NEW t \in Members, NEW step, Adds(s, t, step),
         Kept(s, t), t.pumpRunning = s.pumpRunning, t.role = s.role, NEW c, NEW got,
         s.addr = TRUE => t.addr = TRUE,
         s.qr = TRUE /\ s.startIoSoon = FALSE => t.startIoSoon = FALSE,
         \/ c.step = "ids" /\ step = "add"
         \/ c.step \in {"ids", "add"} /\ step = "select"
         \/ c.step = "select" /\ step = "isConfigured"
         \/ c.step = "identity" /\ step = "startIo" /\ t.addr = TRUE
         \/ c.step = "apply" /\ step = "configure"
         \/ c.step = "configure" /\ step = "learn"
         \/ c.step = "learn" /\ step = "start" /\ t.addr = TRUE
         \/ c.step = "backup" /\ step = "start"
  PROVE  Follows(s, c, got, t)
<1>1. PICK k \in Calls : k.step = step /\ t.asks = {k}
  BY DEF Adds
<1>2. \A K : Single(t.asks, K)
  BY <1>1 DEF Single
<1>3. None(t.asks, Batch)
  BY <1>1 DEF None, Batch
<1>4. c.step \notin Onwards => None(t.asks, Onwards)
  BY <1>1 DEF None, Onwards
<1>5. c.step \in Setup /\ c.step \notin Batch /\ c.step # "isConfigured"
  BY DEF Setup, Onwards, Batch
<1>6. FollowsPump(s, c, t)
  BY <1>2, <1>3, <1>4, <1>5 DEF FollowsPump, Batch
<1>7. \A a \in t.asks : a.step = step
  BY <1>1
<1>8. FollowsSetup(s, c, got, t)
  BY <1>2, <1>5, <1>7 DEF FollowsSetup
<1> QED
  BY <1>6, <1>8 DEF Follows

\* The members after a choice; no call is made.
LEMMA Chosen ==
  ASSUME NEW s \in Members
  PROVE  /\ [s EXCEPT !.accountId = TRUE] \in Members
         /\ [s EXCEPT !.addr = TRUE] \in Members
         /\ [s EXCEPT !.ioRequested = TRUE] \in Members
         /\ [s EXCEPT !.pumpRunning = TRUE] \in Members
         /\ [s EXCEPT !.ioRequested = FALSE, !.startIoSoon = TRUE] \in Members
         /\ \A r \in {"account", "failed"} : [s EXCEPT !.role = r] \in Members
  BY DEF Members

LEMMA InitializeFollows ==
  ASSUME NEW s \in Members, s.asks = {}, NEW c, NEW got,
         c.step \in {"ids", "add", "select"}
  PROVE  Follows(s, c, got, Result(s, c, got))
<1>0. /\ "setup" \in Parties /\ {} \in SUBSET (Chats \cup Messages)
      /\ {"add", "select", "isConfigured"} \subseteq Steps
  BY DEF Parties, Owed, Steps, Setup, Onwards
<1>1. Result(s, c, got) = InitializeStep(s, c, got)
  BY DEF Result
<1>2. CASE c.step = "ids" /\ got = {}
  <2> DEFINE t == Ask(s, "add", "setup", {})
  <2>1. InitializeStep(s, c, got) = t
    BY <1>2 DEF InitializeStep
  <2>2. t \in Members /\ Same(s, t) /\ Adds(s, t, "add")
    BY <1>0, Asking
  <2> HIDE DEF t
  <2> QED
    BY <1>1, <1>2, <2>1, <2>2, Advances DEF Same, Kept
<1>3. CASE c.step = "add" \/ (c.step = "ids" /\ got # {})
  <2> DEFINE p == [s EXCEPT !.accountId = TRUE]
             t == Ask(p, "select", "setup", {})
  <2>1. InitializeStep(s, c, got) = t
    BY <1>3 DEF InitializeStep
  <2>2. /\ p \in Members /\ Kept(s, p) /\ p.pumpRunning = s.pumpRunning /\ p.addr = s.addr
        /\ p.role = s.role /\ p.startIoSoon = s.startIoSoon /\ p.asks = s.asks
    <3>1. p \in Members
      BY Chosen
    <3> QED
      BY <3>1 DEF Members, Kept
  <2> HIDE DEF p
  <2>3. t \in Members /\ Same(p, t) /\ Adds(p, t, "select")
    BY <1>0, <2>2, Asking
  <2>4. Adds(s, t, "select")
    BY <2>2, <2>3 DEF Adds
  <2> HIDE DEF t
  <2> QED
    BY <1>1, <1>3, <2>1, <2>2, <2>3, <2>4, Advances DEF Same, Kept
<1>4. CASE c.step = "select"
  <2> DEFINE fires == s.ioRequested /\ ~s.qr
             p == [s EXCEPT !.ioRequested = s.ioRequested /\ ~fires,
                            !.startIoSoon = s.startIoSoon \/ fires]
             t == Ask(p, "isConfigured", "setup", {})
  <2>1. InitializeStep(s, c, got) = t
    BY <1>4 DEF InitializeStep, Selected
  <2>2. /\ p \in Members /\ Kept(s, p) /\ p.pumpRunning = s.pumpRunning /\ p.addr = s.addr
        /\ p.role = s.role /\ p.asks = s.asks
        /\ p.startIoSoon = (s.startIoSoon \/ fires)
    BY DEF Members, Kept
  <2>5. s.qr = TRUE /\ s.startIoSoon = FALSE => p.startIoSoon = FALSE
    BY <2>2
  <2> HIDE DEF p
  <2>3. t \in Members /\ Same(p, t) /\ Adds(p, t, "isConfigured")
    BY <1>0, <2>2, Asking
  <2>4. Adds(s, t, "isConfigured")
    BY <2>2, <2>3 DEF Adds
  <2> HIDE DEF t, fires
  <2> QED
    BY <1>1, <1>4, <2>1, <2>2, <2>3, <2>4, <2>5, Advances DEF Same, Kept
<1> QED
  BY <1>2, <1>3, <1>4

\* The pump is started once.
LEMMA StartsPump ==
  ASSUME NEW s \in Members, s.asks = {}
  PROVE  LET t == startEventPump(s)
         IN  /\ t \in Members /\ Kept(s, t) /\ t.pumpRunning = TRUE /\ t.addr = s.addr
             /\ t.role = s.role /\ t.startIoSoon = s.startIoSoon
             /\ t.asks = {} \/ \E k \in Calls : k.step = "batch" /\ t.asks = {k}
             /\ s.pumpRunning = FALSE => t.asks # {}
<1>1. CASE s.pumpRunning = TRUE
  <2>1. startEventPump(s) = s
    BY <1>1 DEF startEventPump
  <2> QED
    BY <1>1, <2>1 DEF Kept
<1>2. CASE s.pumpRunning = FALSE
  <2> DEFINE p == [s EXCEPT !.pumpRunning = TRUE]
             t == Ask(p, "batch", "pump", {})
  <2>1. startEventPump(s) = t
    BY <1>2 DEF startEventPump, pumpEvents
  <2>2. p \in Members
    BY Chosen
  <2>3. /\ Kept(s, p) /\ p.pumpRunning = TRUE /\ p.addr = s.addr
        /\ p.role = s.role /\ p.startIoSoon = s.startIoSoon /\ p.asks = s.asks
    BY DEF Members, Kept
  <2> HIDE DEF p
  <2>4. "batch" \in Steps /\ "pump" \in Parties /\ {} \in SUBSET (Chats \cup Messages)
    BY DEF Steps, Batch, Parties
  <2>5. t \in Members /\ Same(p, t) /\ Adds(p, t, "batch")
    BY <2>2, <2>4, Asking
  <2> HIDE DEF t
  <2>6. \E k \in Calls : k.step = "batch" /\ t.asks = {k}
    BY <2>3, <2>5 DEF Adds
  <2> QED
    BY <2>1, <2>3, <2>5, <2>6 DEF Same, Kept
<1> QED
  BY <1>1, <1>2 DEF Members

\* When the pump is started, the chain goes on, is set up by the QR code or ends.
LEMMA ConfiguredFollows ==
  ASSUME NEW s \in Members, s.asks = {}, NEW c, NEW got, c.step = "isConfigured"
  PROVE  Follows(s, c, got, Result(s, c, got))
<1> DEFINE r == startEventPump(s)
           A == Ask(r, "identity", "setup", {})
           B == Ask(r, "apply", "setup", {})
           E == Answered(r, "setup")
           t == Result(s, c, got)
<1>0. /\ "setup" \in Parties /\ {} \in SUBSET (Chats \cup Messages)
      /\ {"identity", "apply"} \subseteq Steps
  BY DEF Parties, Owed, Steps, Setup
<1>1. Result(s, c, got) = ConfiguredSo(s, got # {})
  BY DEF Result, InitializeStep
<1>2. /\ got # {} => ConfiguredSo(s, got # {}) = A
      /\ got = {} => ConfiguredSo(s, got # {}) = B \/ ConfiguredSo(s, got # {}) = E
  BY DEF ConfiguredSo, setupFromQr
<1>3. /\ r \in Members /\ Kept(s, r) /\ r.pumpRunning = TRUE /\ r.addr = s.addr
      /\ r.role = s.role /\ r.startIoSoon = s.startIoSoon
      /\ r.asks = {} \/ \E k \in Calls : k.step = "batch" /\ r.asks = {k}
      /\ s.pumpRunning = FALSE => r.asks # {}
  BY StartsPump
<1> HIDE DEF r
<1>4. /\ A \in Members /\ Same(r, A) /\ Adds(r, A, "identity")
      /\ B \in Members /\ Same(r, B) /\ Adds(r, B, "apply")
      /\ E \in Members /\ Same(r, E) /\ E.asks = r.asks
  BY <1>0, <1>3, Asking, Answering
<1> HIDE DEF A, B, E
<1>5. (t = A /\ got # {}) \/ t = B \/ t = E
  BY <1>1, <1>2
<1> HIDE DEF t
<1>6. /\ t \in Members /\ Same(r, t)
      /\ \/ \E k \in Calls : /\ k.step \in {"identity", "apply"} /\ t.asks = r.asks \cup {k}
                             /\ k.step = "identity" => got # {}
         \/ t.asks = r.asks
  BY <1>4, <1>5 DEF Adds
<1>7. /\ Single(t.asks, Setup) /\ None(t.asks, Onwards) /\ Single(t.asks, Batch)
      /\ s.pumpRunning = FALSE => ~None(t.asks, Batch)
  BY <1>3, <1>6 DEF Single, None, Setup, Onwards, Batch
<1>8. \A a \in t.asks : /\ a.step \in {"batch", "identity", "apply"}
                        /\ a.step = "identity" => got # {}
  BY <1>3, <1>6
<1>9. /\ Kept(s, t) /\ t.pumpRunning = TRUE /\ t.role = s.role /\ t.addr = s.addr
      /\ t.startIoSoon = s.startIoSoon
  BY <1>3, <1>6 DEF Same, Kept
<1>10. FollowsPump(s, c, t)
  BY <1>7, <1>9 DEF FollowsPump, Onwards, Batch
<1>11. FollowsSetup(s, c, got, t)
  BY <1>7, <1>8, <1>9 DEF FollowsSetup, Setup, Onwards
<1> QED
  BY <1>6, <1>9, <1>10, <1>11 DEF Follows, t

\* The address is known, and the account goes online when it has an id.
LEMMA IdentityFollows ==
  ASSUME NEW s \in Members, s.asks = {}, NEW c, NEW got, c.step = "identity"
  PROVE  Follows(s, c, got, Result(s, c, got))
<1> DEFINE p == [s EXCEPT !.addr = TRUE]
           r == Answered(p, "setup")
           t == startIo(r)
<1>1. Result(s, c, got) = t
  BY DEF Result, InitializeStep
<1>2. p \in Members
  BY Chosen
<1>3. /\ Kept(s, p) /\ p.addr = TRUE /\ p.pumpRunning = s.pumpRunning
      /\ p.role = s.role /\ p.startIoSoon = s.startIoSoon /\ p.asks = s.asks
  BY DEF Members, Kept
<1> HIDE DEF p
<1>4. r \in Members /\ Same(p, r) /\ r.asks = p.asks
  BY <1>2, Answering
<1> HIDE DEF r
<1>5. /\ Kept(s, r) /\ r.addr = TRUE /\ r.pumpRunning = s.pumpRunning
      /\ r.role = s.role /\ r.startIoSoon = s.startIoSoon /\ r.asks = {}
  BY <1>3, <1>4 DEF Same, Kept
<1>6. CASE r.accountId = TRUE
  <2>1. t = Ask(r, "startIo", "setup", {})
    BY <1>6 DEF startIo
  <2>2. "startIo" \in Steps /\ "setup" \in Parties /\ {} \in SUBSET (Chats \cup Messages)
    BY DEF Steps, Setup, Parties, Owed
  <2>3. t \in Members /\ Same(r, t) /\ Adds(r, t, "startIo")
    BY <1>4, <2>1, <2>2, Asking
  <2>4. Adds(s, t, "startIo")
    BY <1>5, <2>3 DEF Adds
  <2> HIDE DEF t
  <2> QED
    BY <1>1, <1>5, <2>3, <2>4, Advances DEF Same, Kept
<1>7. CASE r.accountId = FALSE
  <2> DEFINE u == [r EXCEPT !.ioRequested = TRUE]
  <2>1. t = u
    BY <1>7 DEF startIo
  <2>2. u \in Members
    BY <1>4, Chosen
  <2>3. /\ Kept(r, u) /\ u.addr = r.addr /\ u.pumpRunning = r.pumpRunning
        /\ u.role = r.role /\ u.startIoSoon = r.startIoSoon /\ u.asks = r.asks
    BY <1>4 DEF Members, Kept
  <2> HIDE DEF u, t
  <2>4. \A K : None(u.asks, K) /\ Single(u.asks, K)
    BY <1>5, <2>3 DEF None, Single
  <2>5. FollowsPump(s, c, u)
    BY <1>5, <2>3, <2>4 DEF FollowsPump, Onwards, Batch
  <2>6. u.asks = {}
    BY <1>5, <2>3
  <2>7. FollowsSetup(s, c, got, u)
    BY <1>5, <2>3, <2>4, <2>6 DEF FollowsSetup
  <2> QED
    BY <1>1, <1>5, <2>1, <2>2, <2>3, <2>5, <2>7 DEF Follows, Kept
<1> QED
  BY <1>4, <1>6, <1>7 DEF Members

\* An attempt is resolved, and nothing more is asked for.
LEMMA OnlineFollows ==
  ASSUME NEW s \in Members, s.asks = {}, NEW c, NEW got, c.step \in {"start", "startIo"}
  PROVE  Follows(s, c, got, Result(s, c, got))
<1> DEFINE p == [s EXCEPT !.role = IF s.role = "attempt" THEN "account" ELSE s.role]
           t == Answered(p, c.by)
<1>1. Result(s, c, got) = t
  BY DEF Result, SetupStep, ioStarted
<1>2. /\ p \in Members /\ Kept(s, p) /\ p.addr = s.addr /\ p.pumpRunning = s.pumpRunning
      /\ p.startIoSoon = s.startIoSoon /\ p.asks = s.asks /\ p.role # "attempt"
  BY DEF Members, Kept
<1> HIDE DEF p
<1>3. t \in Members /\ Same(p, t) /\ t.asks = p.asks
  BY <1>2, Answering
<1> HIDE DEF t
<1>4. /\ Kept(s, t) /\ t.addr = s.addr /\ t.pumpRunning = s.pumpRunning
      /\ t.startIoSoon = s.startIoSoon /\ t.asks = {} /\ t.role # "attempt"
  BY <1>2, <1>3 DEF Same, Kept
<1>5. \A K : None(t.asks, K) /\ Single(t.asks, K)
  BY <1>4 DEF None, Single
<1>6. FollowsPump(s, c, t)
  BY <1>4, <1>5 DEF FollowsPump, Onwards, Batch
<1>7. FollowsSetup(s, c, got, t)
  BY <1>4, <1>5 DEF FollowsSetup
<1> QED
  BY <1>1, <1>3, <1>4, <1>6, <1>7 DEF Follows

\* The chains of the QR slots.
LEMMA SetupFollows ==
  ASSUME NEW s \in Members, s.asks = {}, NEW c, c.by \in Parties, NEW got,
         c.step \in {"apply", "configure", "learn", "backup"}
  PROVE  Follows(s, c, got, Result(s, c, got))
<1>0. {} \in SUBSET (Chats \cup Messages) /\ {"configure", "learn", "start"} \subseteq Steps
  BY DEF Steps, Setup
<1>1. Result(s, c, got) = SetupStep(s, c)
  BY DEF Result
<1>2. ASSUME NEW step \in {"configure", "learn", "start"}, SetupStep(s, c) = Ask(s, step, c.by, {}),
             \/ c.step = "apply" /\ step = "configure"
             \/ c.step = "configure" /\ step = "learn"
             \/ c.step = "backup" /\ step = "start"
      PROVE  Follows(s, c, got, Result(s, c, got))
  <2> DEFINE t == Ask(s, step, c.by, {})
  <2>1. t \in Members /\ Same(s, t) /\ Adds(s, t, step)
    BY <1>0, Asking
  <2>2. Result(s, c, got) = t
    BY <1>1, <1>2
  <2> HIDE DEF t
  <2> QED
    BY <1>2, <2>1, <2>2, Advances DEF Same, Kept
<1>3. CASE c.step = "learn"
  <2> DEFINE p == [s EXCEPT !.addr = TRUE]
             t == Ask(p, "start", c.by, {})
  <2>1. Result(s, c, got) = t
    BY <1>1, <1>3 DEF SetupStep
  <2>2. p \in Members
    BY Chosen
  <2>3. /\ Kept(s, p) /\ p.addr = TRUE /\ p.pumpRunning = s.pumpRunning
        /\ p.role = s.role /\ p.startIoSoon = s.startIoSoon /\ p.asks = s.asks
    BY DEF Members, Kept
  <2> HIDE DEF p
  <2>4. t \in Members /\ Same(p, t) /\ Adds(p, t, "start")
    BY <1>0, <2>2, Asking
  <2>5. Adds(s, t, "start")
    BY <2>3, <2>4 DEF Adds
  <2> HIDE DEF t
  <2> QED
    BY <1>3, <2>1, <2>3, <2>4, <2>5, Advances DEF Same, Kept
<1>4. CASE c.step = "apply"
  BY <1>2, <1>4 DEF SetupStep
<1>5. CASE c.step = "configure"
  BY <1>2, <1>5 DEF SetupStep
<1>6. CASE c.step = "backup"
  BY <1>2, <1>6 DEF SetupStep
<1> QED
  BY <1>3, <1>4, <1>5, <1>6

\* What a batch makes of its events: calls that fetch messages and rows.
LEMMA EventsHandled ==
  ASSUME NEW s \in Members, s.asks = {}, NEW batch \in SUBSET Events
  PROVE  LET t == handleEvents(s, batch)
         IN  /\ t \in Members /\ Same(s, t)
             /\ \A a \in t.asks : a.step \in {"arrived", "row"}
<1> DEFINE new == {Call("arrived", "self", s.accountId, {m}) : m \in batch \cap Messages}
           r == [s EXCEPT !.asks = s.asks \cup new]
           t == Ask(r, "row", "self", {})
<1>0. /\ {"arrived", "row"} \subseteq Steps /\ "self" \in Parties
      /\ {} \in SUBSET (Chats \cup Messages)
  BY DEF Steps, SelfSteps, Parties
<1>1. \A m \in batch \cap Messages :
        /\ Call("arrived", "self", s.accountId, {m}) \in Calls
        /\ Call("arrived", "self", s.accountId, {m}).step = "arrived"
  BY <1>0 DEF Call, Calls, Members
<1>2. new \subseteq Calls /\ \A a \in new : a.step = "arrived"
  BY <1>1
<1> HIDE DEF new
<1>3. r \in Members /\ Same(s, r) /\ r.asks = new
  BY <1>2 DEF Members, Same
<1>4. handleEvents(s, batch) = IF "ChatModified" \in batch THEN t ELSE r
  BY DEF handleEvents, refreshConversationRow, new
<1> HIDE DEF r
<1>5. t \in Members /\ Same(r, t) /\ Adds(r, t, "row")
  BY <1>0, <1>3, Asking
<1> HIDE DEF t
<1>6. Same(s, t) /\ \A a \in t.asks : a.step \in {"arrived", "row"}
  BY <1>2, <1>3, <1>5 DEF Same, Adds
<1> QED
  BY <1>2, <1>3, <1>4, <1>5, <1>6

\* The next batch is asked for.
LEMMA BatchFollows ==
  ASSUME NEW s \in Members, s.asks = {}, NEW c, NEW got \in SUBSET Events, c.step = "batch"
  PROVE  Follows(s, c, got, Result(s, c, got))
<1> DEFINE r == handleEvents(s, got)
           t == Ask(r, "batch", "pump", {})
<1>1. Result(s, c, got) = t
  BY DEF Result, BatchRead, pumpEvents
<1>2. /\ r \in Members /\ Same(s, r)
      /\ \A a \in r.asks : a.step \in {"arrived", "row"}
  BY EventsHandled
<1> HIDE DEF r
<1>3. t \in Members /\ Same(r, t) /\ Adds(r, t, "batch")
  <2>1. "batch" \in Steps /\ "pump" \in Parties /\ {} \in SUBSET (Chats \cup Messages)
    BY DEF Steps, Batch, Parties
  <2> QED
    BY <1>2, <2>1, Asking
<1> HIDE DEF t
<1>4. PICK k \in Calls : k.step = "batch" /\ t.asks = r.asks \cup {k}
  BY <1>3 DEF Adds
<1>5. \A a \in t.asks : a.step \in {"arrived", "row"} \/ a = k
  BY <1>2, <1>4
<1>6. Single(t.asks, Batch) /\ ~None(t.asks, Batch) /\ None(t.asks, Setup)
      /\ None(t.asks, Onwards) /\ Single(t.asks, Setup)
  BY <1>4, <1>5 DEF Single, None, Setup, Onwards, Batch
<1>7. /\ Kept(s, t) /\ t.pumpRunning = s.pumpRunning /\ t.role = s.role /\ t.addr = s.addr
      /\ t.startIoSoon = s.startIoSoon
  BY <1>2, <1>3 DEF Same, Kept
<1>8. FollowsPump(s, c, t)
  BY <1>6, <1>7 DEF FollowsPump, Onwards, Batch
<1>9. \A a \in t.asks : a.step \in {"arrived", "row", "batch"}
  BY <1>4, <1>5
<1>10. FollowsSetup(s, c, got, t)
  BY <1>6, <1>7, <1>9 DEF FollowsSetup
<1> QED
  BY <1>1, <1>3, <1>7, <1>8, <1>10 DEF Follows

\* Answers to what the user and the pump asked for start no chain of a set-up.
LEMMA RestFollows ==
  ASSUME NEW s \in Members, s.asks = {}, NEW c, c.by \in Parties,
         NEW got, c.step = "convs" => got \subseteq Chats,
         c.step \in {"convs", "msgs", "texts", "seen", "send", "body", "save",
                     "arrived", "row", "stopIo"}
  PROVE  Follows(s, c, got, Result(s, c, got))
<1> DEFINE t == Result(s, c, got)
           e == Answered(s, c.by)
           f == Answered(s, "send")
<1>0. /\ c.step \notin Setup \cup Batch /\ "self" \in Parties
      /\ {} \in SUBSET (Chats \cup Messages)
      /\ {"details", "texts", "seen", "convs", "msgs", "row"} \subseteq Steps
      /\ \A k \in {"details", "texts", "seen", "convs", "msgs", "row"} :
           k \notin Setup \cup Batch
  BY DEF Setup, Onwards, Batch, Steps, SelfSteps, Requests, Parties
<1>1. e \in Members /\ Same(s, e) /\ e.asks = {} /\ f \in Members /\ Same(s, f) /\ f.asks = {}
  BY Answering
<1> HIDE DEF e, f
<1>2. None({}, Setup \cup Batch)
  BY DEF None
<1>3. ASSUME t = s \/ t = e
      PROVE  Follows(s, c, got, t)
  <2>1. t \in Members /\ Same(s, t) /\ t.asks = {}
    BY <1>1, <1>3 DEF Same
  <2> HIDE DEF t
  <2> QED
    BY <1>0, <1>2, <2>1, SameAside
<1>4. ASSUME NEW r \in {s, e, f}, NEW step \in {"details", "texts", "seen", "convs", "msgs", "row"},
             NEW by \in Parties, NEW about \in SUBSET (Chats \cup Messages),
             t = Ask(r, step, by, about)
      PROVE  Follows(s, c, got, t)
  <2>1. r \in Members /\ Same(s, r) /\ r.asks = {}
    BY <1>1 DEF Same
  <2>2. t \in Members /\ Same(r, t) /\ Adds(r, t, step)
    BY <1>0, <1>4, <2>1, Asking
  <2> HIDE DEF t
  <2>3. None(t.asks, Setup \cup Batch)
    BY <1>0, <2>1, <2>2, OneAside
  <2>4. Same(s, t)
    BY <2>1, <2>2 DEF Same
  <2> QED
    BY <1>0, <2>2, <2>3, <2>4, SameAside
<1>5. CASE c.step \in {"row", "stopIo"}
  BY <1>3, <1>5 DEF Result
<1>6. CASE c.step \in {"body", "save"}
  BY <1>3, <1>6 DEF Result, e
<1>7. CASE c.step = "convs"
  <2>1. t = Listed(s, c, got)
    BY <1>7 DEF Result
  <2>2. got \in SUBSET (Chats \cup Messages)
    BY <1>7
  <2>3. t = e \/ t = Ask(s, "details", c.by, got)
    BY <2>1 DEF Listed, e
  <2> HIDE DEF t
  <2> QED
    BY <1>3, <1>4, <2>2, <2>3 DEF t
<1>8. CASE c.step = "msgs"
  <2>1. t = MessagesStep(s, c, got)
    BY <1>8 DEF Result
  <2>2. t = e \/ t = Ask(s, "texts", c.by, {})
    BY <1>8, <2>1 DEF MessagesStep, e
  <2> HIDE DEF t
  <2> QED
    BY <1>0, <1>3, <1>4, <2>2 DEF t
<1>9. CASE c.step = "texts"
  <2>1. t = Ask(e, "seen", "self", {})
    BY <1>9 DEF Result, MessagesStep, e
  <2> HIDE DEF t
  <2> QED
    BY <1>0, <1>4, <2>1 DEF t
<1>10. CASE c.step = "seen"
  <2>1. t = Ask(s, "convs", "self", {})
    BY <1>10 DEF Result, MessagesStep, fetchConversations
  <2> HIDE DEF t
  <2> QED
    BY <1>0, <1>4, <2>1 DEF t
<1>11. CASE c.step = "send"
  <2>1. t = Ask(f, "msgs", "self", {})
    BY <1>11 DEF Result, Sent, fetchMessages, f
  <2> HIDE DEF t
  <2> QED
    BY <1>0, <1>4, <2>1 DEF t
<1>12. CASE c.step = "arrived"
  <2>1. t = Arrived(s, got)
    BY <1>12 DEF Result
  <2>2. t = s \/ t = Ask(s, "row", "self", {})
    BY <2>1 DEF Arrived, refreshConversationRow
  <2> HIDE DEF t
  <2> QED
    BY <1>0, <1>3, <1>4, <2>2 DEF t
<1> QED
  BY <1>5, <1>6, <1>7, <1>8, <1>9, <1>10, <1>11, <1>12

\* Every answer but the details, which DetailRead counts.
LEMMA ResultFollows ==
  ASSUME NEW s \in Members, s.asks = {}, NEW c, c.step \in Steps \ {"details"},
         c.by \in Parties, NEW got, c.step = "convs" => got \subseteq Chats,
         c.step = "batch" => got \subseteq Events
  PROVE  Follows(s, c, got, Result(s, c, got))
<1>1. CASE c.step \in {"ids", "add", "select"}
  BY <1>1, InitializeFollows
<1>2. CASE c.step = "isConfigured"
  BY <1>2, ConfiguredFollows
<1>3. CASE c.step = "identity"
  BY <1>3, IdentityFollows
<1>4. CASE c.step \in {"start", "startIo"}
  BY <1>4, OnlineFollows
<1>5. CASE c.step \in {"apply", "configure", "learn", "backup"}
  BY <1>5, SetupFollows
<1>6. CASE c.step = "batch"
  BY <1>6, BatchFollows
<1>7. CASE c.step \in {"convs", "msgs", "texts", "seen", "send", "body", "save",
                       "arrived", "row", "stopIo"}
  BY <1>7, RestFollows
<1> QED
  BY <1>1, <1>2, <1>3, <1>4, <1>5, <1>6, <1>7
     DEF Steps, Setup, Onwards, Batch, SelfSteps, Requests

\* A refusal asks for nothing; it ends an attempt, or leaves the pump to its retry.
LEMMA Fails ==
  ASSUME NEW s \in Members, s.asks = {}, NEW c
  PROVE  LET t == Failed(s, c)
         IN  /\ t \in Members /\ t.dir = s.dir /\ t.qr = s.qr /\ t.spoilt = s.spoilt
             /\ t.ui = s.ui /\ t.pumpRunning = s.pumpRunning /\ t.addr = s.addr
             /\ t.startIoSoon = s.startIoSoon /\ t.asks = {}
             /\ t.role = s.role \/ (s.role = "attempt" /\ t.role = "failed")
             /\ t.retries = IF c.step = "batch" THEN s.retries + 1 ELSE s.retries
<1> DEFINE t == Failed(s, c)
<1>1. CASE c.step \in {"apply", "configure", "learn", "backup", "start", "startIo"}
  <2> DEFINE p == [s EXCEPT !.role = IF s.role = "attempt" THEN "failed" ELSE s.role]
  <2>1. t = Answered(p, c.by)
    BY <1>1 DEF Failed, attemptFailed
  <2>2. /\ p \in Members /\ p.dir = s.dir /\ p.qr = s.qr /\ p.spoilt = s.spoilt
        /\ p.ui = s.ui /\ p.pumpRunning = s.pumpRunning /\ p.addr = s.addr
        /\ p.startIoSoon = s.startIoSoon /\ p.asks = {} /\ p.retries = s.retries
        /\ p.role = s.role \/ (s.role = "attempt" /\ p.role = "failed")
    BY DEF Members
  <2> HIDE DEF p
  <2>3. t \in Members /\ Same(p, t) /\ t.asks = p.asks
    BY <2>1, <2>2, Answering
  <2> HIDE DEF t
  <2> QED
    BY <1>1, <2>2, <2>3 DEF Same, t
<1>2. CASE c.step = "batch"
  <2> DEFINE p == [s EXCEPT !.retries = s.retries + 1]
  <2>1. t = p
    BY <1>2 DEF Failed
  <2>2. /\ p \in Members /\ p.dir = s.dir /\ p.qr = s.qr /\ p.spoilt = s.spoilt
        /\ p.ui = s.ui /\ p.pumpRunning = s.pumpRunning /\ p.addr = s.addr
        /\ p.startIoSoon = s.startIoSoon /\ p.asks = {} /\ p.retries = s.retries + 1
        /\ p.role = s.role
    BY DEF Members
  <2> QED
    BY <1>2, <2>1, <2>2
<1>3. CASE c.step \notin {"apply", "configure", "learn", "backup", "start", "startIo", "batch"}
  <2>1. t = Answered(s, c.by)
    BY <1>3 DEF Failed
  <2>2. t \in Members /\ Same(s, t) /\ t.asks = s.asks
    BY <2>1, Answering
  <2> HIDE DEF t
  <2> QED
    BY <1>3, <2>2 DEF Same, t
<1> QED
  BY <1>1, <1>2, <1>3

-----------------------------------------------------------------------------
(* A step of the backend: its members become t, and the calls they collected  *)
(* join the promises that are left.                                          *)

Posted(A) == IF server = "up" THEN Written(A) ELSE {}

Disjoint(R, A, K) == Single(R, K) /\ Single(A, K) /\ (None(R, K) \/ None(A, K))

PumpAfter(t, rest) ==
  server = "up" /\ t.ui = "free" /\ carried = {} =>
    /\ t.spoilt = FALSE
    /\ Disjoint(rest, t.asks, Onwards) /\ Disjoint(rest, t.asks, Batch)
    /\ t.pumpRunning = FALSE =>
         t.retries = 0 /\ None(rest, Batch) /\ None(t.asks, Batch)
    /\ t.pumpRunning = TRUE =>
         /\ None(rest, Onwards) /\ None(t.asks, Onwards)
         /\ \/ t.retries = 0 /\ (~None(rest, Batch) \/ ~None(t.asks, Batch))
            \/ t.retries = 1 /\ None(rest, Batch) /\ None(t.asks, Batch)

AttemptAfter(t, rest, on) ==
  t.role = "attempt" /\ start.qr = TRUE =>
    /\ t.qr = TRUE /\ t.startIoSoon = FALSE /\ t.ui = "free"
    /\ Disjoint(rest, t.asks, Setup)
    /\ ConfiguredBy(rest, t, on) /\ ConfiguredBy(t.asks, t, on)

LEMMA Sending ==
  ASSUME NEW A \in SUBSET Calls
  PROVE  /\ \A p \in Posted(A) : \E a \in A : Stems(p, a)
         /\ \A K \in SUBSET Steps : /\ None(A, K) => None(Posted(A), K)
                                    /\ Single(A, K) => Single(Posted(A), K)
                                    /\ server = "up" /\ ~None(A, K) => ~None(Posted(A), K)
<1>1. CASE server = "up"
  <2>1. Promises(Posted(A), A)
    BY <1>1, WrittenPromises DEF Posted
  <2> QED
    BY <2>1 DEF Promises, None, Stems
<1>2. CASE server # "up"
  BY <1>2 DEF Posted, None, Single
<1> QED
  BY <1>1, <1>2

LEMMA Joining ==
  ASSUME NEW A \in SUBSET Calls, NEW R, NEW K \in SUBSET Steps
  PROVE  /\ Disjoint(R, A, K) => Single(R \cup Posted(A), K)
         /\ None(R, K) /\ None(A, K) => None(R \cup Posted(A), K)
         /\ ~None(R, K) => ~None(R \cup Posted(A), K)
         /\ server = "up" /\ ~None(A, K) => ~None(R \cup Posted(A), K)
<1>1. /\ None(A, K) => None(Posted(A), K)
      /\ Single(A, K) => Single(Posted(A), K)
      /\ server = "up" /\ ~None(A, K) => ~None(Posted(A), K)
  BY Sending
<1> DEFINE P == Posted(A)
<1> HIDE DEF P
<1>2. /\ (None(R \cup P, K)) <=> (None(R, K) /\ None(P, K))
      /\ (Single(R, K) /\ Single(P, K) /\ (None(R, K) \/ None(P, K))) => Single(R \cup P, K)
  BY Together
<1> QED
  BY <1>1, <1>2 DEF Disjoint, P

LEMMA Becoming ==
  ASSUME TypeInv, NEW t \in Members, NEW rest \in SUBSET pending, Becomes(t, rest),
         server' = server, UNCHANGED <<start, resets, carried>>,
         store' \in [{"own", "default"} -> {"empty", "account", "configured"}],
         events' \subseteq Events, server = "down" => events' = {}
  PROVE  /\ TypeInv'
         /\ PumpAfter(t, rest) => PumpInv'
         /\ AttemptAfter(t, rest, store'[t.dir]) => AttemptInv'
<1>1. /\ self' \in Members /\ self'.asks = {}
      /\ self'.dir = t.dir /\ self'.qr = t.qr /\ self'.addr = t.addr /\ self'.ui = t.ui
      /\ self'.pumpRunning = t.pumpRunning /\ self'.spoilt = t.spoilt
      /\ self'.retries = t.retries /\ self'.startIoSoon = t.startIoSoon
      /\ self'.role = t.role
  BY DEF Becomes, Members
<1>2. pending' = rest \cup Posted(t.asks)
  BY DEF Becomes, Posted
<1>3. t.asks \in SUBSET Calls
  BY DEF Members
<1>4. \A p \in Posted(t.asks) : \E a \in t.asks : Stems(p, a)
  BY <1>3, Sending
<1>5. /\ Onwards \in SUBSET Steps /\ Batch \in SUBSET Steps /\ Setup \in SUBSET Steps
  BY DEF Steps, Setup
<1>6. TypeInv'
  <2>1. \A p \in pending' : IsPromise(p)
    <3>1. \A a \in t.asks : /\ a.step \in Steps /\ a.by \in Parties /\ a.acct \in BOOLEAN
                            /\ a.about \subseteq Chats \cup Messages
      BY <1>3 DEF Calls
    <3>2. \A p \in Posted(t.asks) : IsPromise(p)
      BY <1>4, <3>1 DEF Stems, IsPromise
    <3> QED
      BY <1>2, <3>2 DEF TypeInv
  <2>2. server = "down" => pending' = {}
    BY <1>2 DEF TypeInv, Posted
  <2> QED
    BY <1>1, <2>1, <2>2 DEF TypeInv
<1>7. ASSUME PumpAfter(t, rest)
      PROVE  PumpInv'
  <2> SUFFICES ASSUME server = "up", t.ui = "free", carried = {}
               PROVE  /\ self'.spoilt = FALSE
                      /\ Single(pending', Onwards) /\ Single(pending', Batch)
                      /\ self'.pumpRunning = FALSE => self'.retries = 0 /\ None(pending', Batch)
                      /\ self'.pumpRunning = TRUE =>
                           /\ None(pending', Onwards)
                           /\ \/ self'.retries = 0 /\ ~None(pending', Batch)
                              \/ self'.retries = 1 /\ None(pending', Batch)
    BY <1>1 DEF PumpInv
  <2>1. /\ Disjoint(rest, t.asks, Onwards) => Single(pending', Onwards)
        /\ None(rest, Onwards) /\ None(t.asks, Onwards) => None(pending', Onwards)
    BY <1>2, <1>3, <1>5, Joining
  <2>2. /\ Disjoint(rest, t.asks, Batch) => Single(pending', Batch)
        /\ None(rest, Batch) /\ None(t.asks, Batch) => None(pending', Batch)
        /\ ~None(rest, Batch) => ~None(pending', Batch)
        /\ ~None(t.asks, Batch) => ~None(pending', Batch)
    BY <1>2, <1>3, <1>5, Joining
  <2> QED
    BY <1>1, <1>7, <2>1, <2>2 DEF PumpAfter
<1>8. ASSUME AttemptAfter(t, rest, store'[t.dir])
      PROVE  AttemptInv'
  <2> SUFFICES ASSUME t.role = "attempt", start.qr = TRUE
               PROVE  /\ self'.qr = TRUE /\ self'.startIoSoon = FALSE /\ self'.ui = "free"
                      /\ Single(pending', Setup)
                      /\ ConfiguredBy(pending', self', store'[t.dir])
    BY <1>1 DEF AttemptInv
  <2>1. Single(pending', Setup)
    BY <1>2, <1>3, <1>5, <1>8, Joining DEF AttemptAfter
  <2>2. ConfiguredBy(pending', self', store'[t.dir])
    <3>1. ConfiguredBy(rest, t, store'[t.dir]) /\ ConfiguredBy(t.asks, t, store'[t.dir])
      BY <1>8 DEF AttemptAfter
    <3> QED
      BY <1>1, <1>2, <1>4, <3>1 DEF ConfiguredBy, Stems
  <2> QED
    BY <1>1, <1>8, <2>1, <2>2 DEF AttemptAfter
<1> QED
  BY <1>6, <1>7, <1>8

-----------------------------------------------------------------------------
(* The actions.                                                             *)

\* What the invariant says of the members, for the steps below.
LEMMA Known ==
  ASSUME TypeInv
  PROVE  /\ self \in Members /\ self.asks = {} /\ self.dir \in {"own", "default"}
         /\ self.pumpRunning \in BOOLEAN /\ self.retries \in Nat
         /\ server \in {"up", "ending", "down"}
         /\ start.resets \in Nat /\ start.asks \subseteq Requests \cup {"apply", "backup"}
         /\ start.events \subseteq Events
  BY DeltaChatAssumption DEF TypeInv, Members

\* An answer that the pump, or the chain of initialize, waited for is its only one.
LEMMA Answer ==
  ASSUME NEW c \in pending, NEW K
  PROVE  /\ Single(pending, K) => Single(pending \ {c}, K)
         /\ None(pending, K) => None(pending \ {c}, K)
         /\ Single(pending, K) /\ c.step \in K => None(pending \ {c}, K)
         /\ None(pending, K) => c.step \notin K
         /\ c.step \notin K /\ ~None(pending, K) => ~None(pending \ {c}, K)
  BY DEF Single, None

LEMMA ReadStep ==
  ASSUME IInv, NEW c \in pending, onReadyRead(c)
  PROVE  IInv'
<1>1. PICK got \in Holds(c) :
        /\ Becomes(Result(self, c, got), pending \ {c})
        /\ events' = IF c.step = "batch" THEN {} ELSE events
  BY DEF onReadyRead
<1>2. /\ server # "down" /\ self.spoilt # TRUE /\ c.step # "details"
      /\ store' = [store EXCEPT ![self.dir] = Does(c)]
      /\ UNCHANGED <<start, server, faults, resets, carried>>
  BY DEF onReadyRead
<1>3. c.step \in Steps /\ c.by \in Parties
  BY DEF IInv, TypeInv, IsPromise
<1>4. (c.step = "convs" => got \subseteq Chats) /\ (c.step = "batch" => got \subseteq Events)
  <2>1. CASE c.step = "convs"
    BY <1>1, <2>1 DEF Holds
  <2>2. CASE c.step = "batch"
    BY <1>1, <2>2 DEF Holds, IInv, TypeInv
  <2> QED
    BY <2>1, <2>2
<1> DEFINE t == Result(self, c, got)
           rest == pending \ {c}
<1>5. Follows(self, c, got, t)
  BY <1>2, <1>3, <1>4, ResultFollows, Known DEF IInv
<1>6. Becomes(t, rest)
  BY <1>1
<1> HIDE DEF t
<1>7. t \in Members /\ Kept(self, t) /\ FollowsPump(self, c, t) /\ FollowsSetup(self, c, got, t)
  BY <1>5 DEF Follows
<1>8. Does(c) \in {"account", "configured", store[self.dir]}
      /\ store[self.dir] \in {"empty", "account", "configured"}
  BY Known DEF Does, IInv, TypeInv
<1>9. store' \in [{"own", "default"} -> {"empty", "account", "configured"}]
      /\ store'[self.dir] = Does(c)
  BY <1>2, <1>8, Known DEF IInv, TypeInv
<1>10. events' \subseteq Events /\ (server = "down" => events' = {})
  BY <1>1, <1>2 DEF IInv, TypeInv
<1>11. PumpAfter(t, rest)
  <2> SUFFICES ASSUME server = "up", self.ui = "free", carried = {}
               PROVE  PumpAfter(t, rest)
    BY <1>7 DEF PumpAfter, Kept
  <2>1. /\ self.spoilt = FALSE
        /\ Single(pending, Onwards) /\ Single(pending, Batch)
        /\ self.pumpRunning = FALSE => self.retries = 0 /\ None(pending, Batch)
        /\ self.pumpRunning = TRUE =>
             /\ None(pending, Onwards)
             /\ \/ self.retries = 0 /\ ~None(pending, Batch)
                \/ self.retries = 1 /\ None(pending, Batch)
    BY DEF IInv, PumpInv
  <2>2. /\ Single(rest, Onwards) /\ Single(rest, Batch)
        /\ None(pending, Onwards) => None(rest, Onwards)
        /\ None(pending, Batch) => None(rest, Batch)
        /\ c.step \in Onwards => None(rest, Onwards)
        /\ c.step \in Batch => None(rest, Batch)
        /\ None(pending, Onwards) => c.step \notin Onwards
        /\ None(pending, Batch) => c.step \notin Batch
        /\ c.step \notin Batch /\ ~None(pending, Batch) => ~None(rest, Batch)
    BY <2>1, Answer
  <2> HIDE DEF rest
  <2>3. /\ t.retries = self.retries /\ t.spoilt = FALSE
        /\ t.pumpRunning \in BOOLEAN /\ self.pumpRunning \in BOOLEAN
    BY <1>7, <2>1, Known DEF Kept, Members, IInv
  <2>4. CASE c.step \in Onwards \ {"isConfigured"}
    <3>1. /\ t.pumpRunning = self.pumpRunning
          /\ Single(t.asks, Onwards) /\ None(t.asks, Batch)
      BY <1>7, <2>4 DEF FollowsPump
    <3>2. self.pumpRunning = FALSE /\ Single(t.asks, Batch)
      BY <2>1, <2>2, <2>3, <2>4, <3>1, NoneSingle
    <3> QED
      BY <2>1, <2>2, <2>3, <2>4, <3>1, <3>2 DEF PumpAfter, Disjoint
  <2>5. CASE c.step = "isConfigured"
    <3>1. c.step \in Onwards
      BY <2>5 DEF Onwards
    <3>2. self.pumpRunning = FALSE
      BY <2>1, <2>2, <2>3, <3>1
    <3>3. /\ t.pumpRunning = TRUE /\ None(t.asks, Onwards) /\ Single(t.asks, Batch)
          /\ ~None(t.asks, Batch)
      BY <1>7, <2>5, <3>2 DEF FollowsPump
    <3>4. Single(t.asks, Onwards)
      BY <3>3, NoneSingle
    <3> QED
      BY <2>1, <2>2, <2>3, <3>1, <3>2, <3>3, <3>4 DEF PumpAfter, Disjoint
  <2>6. CASE c.step = "batch"
    <3>1. c.step \in Batch
      BY <2>6 DEF Batch
    <3>2. self.pumpRunning = TRUE
      BY <2>1, <2>2, <2>3, <3>1
    <3>3. /\ t.pumpRunning = TRUE /\ None(t.asks, Onwards) /\ Single(t.asks, Batch)
          /\ ~None(t.asks, Batch)
      BY <1>7, <2>6, <3>2 DEF FollowsPump
    <3>4. Single(t.asks, Onwards)
      BY <3>3, NoneSingle
    <3> QED
      BY <2>1, <2>2, <2>3, <3>1, <3>2, <3>3, <3>4 DEF PumpAfter, Disjoint
  <2>7. CASE c.step \notin Onwards \cup Batch
    <3>1. /\ t.pumpRunning = self.pumpRunning
          /\ None(t.asks, Onwards) /\ None(t.asks, Batch)
      BY <1>7, <2>7 DEF FollowsPump
    <3>2. Single(t.asks, Onwards) /\ Single(t.asks, Batch)
      BY <3>1, NoneSingle
    <3> QED
      BY <2>1, <2>2, <2>3, <2>7, <3>1, <3>2 DEF PumpAfter, Disjoint
  <2> QED
    BY <2>4, <2>5, <2>6, <2>7 DEF Batch
<1>12. AttemptAfter(t, rest, store'[self.dir])
  <2> SUFFICES ASSUME t.role = "attempt", start.qr = TRUE
               PROVE  AttemptAfter(t, rest, store'[self.dir])
    BY DEF AttemptAfter
  <2> DEFINE on == store[self.dir]
             on2 == store'[self.dir]
  <2>1. self.role = "attempt"
    BY <1>7 DEF FollowsSetup
  <2>2. /\ self.qr = TRUE /\ self.startIoSoon = FALSE /\ self.ui = "free"
        /\ Single(pending, Setup) /\ ConfiguredBy(pending, self, on)
    BY <2>1 DEF IInv, AttemptInv
  <2>3. /\ t.qr = TRUE /\ t.startIoSoon = FALSE /\ t.ui = "free"
        /\ self.addr = TRUE => t.addr = TRUE
    BY <1>7, <2>2 DEF FollowsSetup, Kept
  <2>4. /\ Single(rest, Setup) /\ (c.step \in Setup => None(rest, Setup))
        /\ Single(t.asks, Setup) /\ (c.step \notin Setup => None(t.asks, Setup))
    BY <1>7, <2>2, Answer DEF FollowsSetup
  <2>5. ConfiguredBy(rest, t, on2)
    <3>1. \A d \in rest : d.step \in Setup => c.step \notin Setup
      BY <2>4 DEF None
    <3>2. c.step \notin Setup => on2 = on
      BY <1>9 DEF Does, Setup, Onwards
    <3>3. \A d \in rest : d.step \in {"identity", "learn", "start", "startIo"} => on2 = on
      BY <3>1, <3>2 DEF Setup
    <3>4. \A d \in rest : /\ d.step \in {"identity", "learn"} => on = "configured"
                          /\ d.step \in {"start", "startIo"} => self.addr = TRUE /\ on = "configured"
                          /\ d.step # "backup"
      BY <2>2 DEF ConfiguredBy
    <3> HIDE DEF on, on2, rest
    <3> QED
      BY <2>3, <3>3, <3>4 DEF ConfiguredBy
  <2>6. ConfiguredBy(t.asks, t, on2)
    <3>1. \A a \in t.asks :
            /\ a.step = "identity" => c.step = "isConfigured" /\ got # {}
            /\ a.step = "learn" => c.step = "configure"
            /\ a.step = "start" => (c.step = "learn" /\ t.addr = TRUE) \/ c.step = "backup"
            /\ a.step = "startIo" => c.step = "identity" /\ t.addr = TRUE
            /\ a.step # "backup"
      BY <1>7 DEF FollowsSetup
    <3>2. c.step = "isConfigured" /\ got # {} => on2 = "configured"
      <4>1. ASSUME c.step = "isConfigured", got # {}
            PROVE  on = "configured"
        BY <1>1, <4>1 DEF Holds
      <4>2. c.step = "isConfigured" => on2 = on
        BY <1>9 DEF Does
      <4> QED
        BY <4>1, <4>2
    <3>3. c.step = "configure" => on2 = "configured"
      BY <1>9 DEF Does
    <3>4. c.step \in {"learn", "identity"} => on = "configured" /\ on2 = on
      <4>1. c.step \in {"learn", "identity"} => on = "configured"
        BY <2>2 DEF ConfiguredBy
      <4>2. c.step \in {"learn", "identity"} => on2 = on
        BY <1>9 DEF Does
      <4> QED
        BY <4>1, <4>2
    <3>5. c.step # "backup"
      BY <2>2 DEF ConfiguredBy
    <3> HIDE DEF on, on2
    <3> QED
      BY <3>1, <3>2, <3>3, <3>4, <3>5 DEF ConfiguredBy
  <2> QED
    BY <2>3, <2>4, <2>5, <2>6 DEF AttemptAfter, Disjoint
<1>13. t.dir = self.dir
  BY <1>7 DEF Kept
<1>14. /\ PumpAfter(t, rest) => PumpInv'
       /\ AttemptAfter(t, rest, store'[t.dir]) => AttemptInv'
       /\ TypeInv'
  BY <1>2, <1>6, <1>7, <1>9, <1>10, Becoming DEF IInv
<1> QED
  BY <1>11, <1>12, <1>13, <1>14 DEF IInv

\* A refused batch call becomes the retry; any other refusal only ends its chain.
LEMMA ErrorStep ==
  ASSUME IInv, NEW c \in pending, RpcError(c)
  PROVE  IInv'
<1> DEFINE t == Failed(self, c)
           rest == pending \ {c}
<1>1. /\ server # "down" /\ Becomes(t, rest)
      /\ UNCHANGED <<start, store, server, events, resets, carried>>
  BY DEF RpcError
<1>2. /\ t \in Members /\ t.dir = self.dir /\ t.qr = self.qr /\ t.spoilt = self.spoilt
      /\ t.ui = self.ui /\ t.pumpRunning = self.pumpRunning /\ t.addr = self.addr
      /\ t.startIoSoon = self.startIoSoon /\ t.asks = {}
      /\ t.role = self.role \/ (self.role = "attempt" /\ t.role = "failed")
      /\ t.retries = IF c.step = "batch" THEN self.retries + 1 ELSE self.retries
  BY Known, Fails DEF IInv
<1> HIDE DEF t
<1>3. \A K : /\ None(t.asks, K) /\ Single(t.asks, K)
             /\ Single(pending, K) => Single(rest, K)
             /\ None(pending, K) => None(rest, K)
             /\ Single(pending, K) /\ c.step \in K => None(rest, K)
             /\ None(pending, K) => c.step \notin K
             /\ c.step \notin K /\ ~None(pending, K) => ~None(rest, K)
  <2>1. \A K : None(t.asks, K) /\ Single(t.asks, K)
    BY <1>2 DEF None, Single
  <2> QED
    BY <2>1, Answer
<1>4. PumpAfter(t, rest)
  <2> SUFFICES ASSUME server = "up", self.ui = "free", carried = {}
               PROVE  PumpAfter(t, rest)
    BY <1>2 DEF PumpAfter
  <2>1. /\ self.spoilt = FALSE
        /\ Single(pending, Onwards) /\ Single(pending, Batch)
        /\ self.pumpRunning = FALSE => self.retries = 0 /\ None(pending, Batch)
        /\ self.pumpRunning = TRUE =>
             /\ None(pending, Onwards)
             /\ \/ self.retries = 0 /\ ~None(pending, Batch)
                \/ self.retries = 1 /\ None(pending, Batch)
    BY DEF IInv, PumpInv
  <2> HIDE DEF rest
  <2>2. CASE c.step = "batch"
    <3>1. c.step \in Batch
      BY <2>2 DEF Batch
    <3>2. ~None(pending, Batch) /\ None(rest, Batch)
      BY <1>3, <2>1, <3>1
    <3>3. self.pumpRunning = TRUE /\ self.retries = 0
      BY <2>1, <3>2, Known DEF IInv
    <3>4. t.retries = 1 /\ t.pumpRunning = TRUE
      BY <1>2, <2>2, <3>3
    <3> QED
      BY <1>2, <1>3, <2>1, <3>2, <3>3, <3>4 DEF PumpAfter, Disjoint
  <2>3. CASE c.step # "batch"
    <3>1. c.step \notin Batch /\ t.retries = self.retries
      BY <1>2, <2>3 DEF Batch
    <3> QED
      BY <1>2, <1>3, <2>1, <3>1 DEF PumpAfter, Disjoint
  <2> QED
    BY <2>2, <2>3
<1>5. AttemptAfter(t, rest, store'[t.dir])
  <2> SUFFICES ASSUME t.role = "attempt", start.qr = TRUE
               PROVE  AttemptAfter(t, rest, store'[t.dir])
    BY DEF AttemptAfter
  <2>1. /\ self.qr = TRUE /\ self.startIoSoon = FALSE /\ self.ui = "free"
        /\ Single(pending, Setup) /\ ConfiguredBy(pending, self, store[self.dir])
    BY <1>2 DEF IInv, AttemptInv
  <2>2. ConfiguredBy(rest, t, store'[t.dir]) /\ ConfiguredBy(t.asks, t, store'[t.dir])
    BY <1>1, <1>2, <2>1 DEF ConfiguredBy
  <2> QED
    BY <1>2, <1>3, <2>1, <2>2 DEF AttemptAfter, Disjoint
<1>6. /\ store' \in [{"own", "default"} -> {"empty", "account", "configured"}]
      /\ events' \subseteq Events /\ (server = "down" => events' = {})
      /\ rest \in SUBSET pending
  BY <1>1 DEF IInv, TypeInv
<1>7. TypeInv' /\ PumpInv' /\ AttemptInv'
  BY <1>1, <1>2, <1>4, <1>5, <1>6, Becoming DEF IInv
<1> QED
  BY <1>7 DEF IInv

\* A step that asks for at most one call of no chain leaves all promises of the
\* chains, or takes away one that is of none.
LEMMA SideStep ==
  ASSUME IInv, NEW t \in Members, NEW rest \in SUBSET pending, Becomes(t, rest),
         UNCHANGED <<start, store, server, events, resets, carried>>,
         \A d \in pending : d.step \in Setup \cup Batch => d \in rest,
         None(t.asks, Setup \cup Batch),
         Kept(self, t), t.pumpRunning = self.pumpRunning, t.addr = self.addr,
         t.role = self.role, self.startIoSoon = FALSE => t.startIoSoon = FALSE
  PROVE  IInv'
<1>1. \A K : K \subseteq Setup \cup Batch =>
        /\ None(t.asks, K) /\ Single(t.asks, K)
        /\ Single(pending, K) => Single(rest, K)
        /\ (None(pending, K)) <=> (None(rest, K))
  BY DEF None, Single
<1>2. Onwards \subseteq Setup \cup Batch /\ Batch \subseteq Setup \cup Batch
      /\ Setup \subseteq Setup \cup Batch
  BY DEF Setup
<1>3. /\ None(t.asks, Onwards) /\ Single(t.asks, Onwards)
      /\ Single(pending, Onwards) => Single(rest, Onwards)
      /\ (None(pending, Onwards)) <=> (None(rest, Onwards))
      /\ None(t.asks, Batch) /\ Single(t.asks, Batch)
      /\ Single(pending, Batch) => Single(rest, Batch)
      /\ (None(pending, Batch)) <=> (None(rest, Batch))
      /\ None(t.asks, Setup) /\ Single(t.asks, Setup)
      /\ Single(pending, Setup) => Single(rest, Setup)
  BY <1>1, <1>2
<1>4. PumpAfter(t, rest)
  BY <1>3 DEF PumpAfter, PumpInv, IInv, Kept, Disjoint
<1>5. AttemptAfter(t, rest, store'[t.dir])
  <2> SUFFICES ASSUME t.role = "attempt", start.qr = TRUE
               PROVE  AttemptAfter(t, rest, store'[t.dir])
    BY DEF AttemptAfter
  <2>1. /\ self.qr = TRUE /\ self.startIoSoon = FALSE /\ self.ui = "free"
        /\ Single(pending, Setup) /\ ConfiguredBy(pending, self, store[self.dir])
    BY DEF IInv, AttemptInv
  <2>2. store'[t.dir] = store[self.dir]
    BY DEF Kept
  <2>3. ConfiguredBy(rest, t, store'[t.dir])
    BY <2>1, <2>2 DEF ConfiguredBy
  <2>4. ConfiguredBy(t.asks, t, store'[t.dir])
    <3>1. \A a \in t.asks : a.step \notin {"identity", "learn", "start", "startIo", "backup"}
      BY <1>3 DEF None, Setup
    <3> QED
      BY <3>1 DEF ConfiguredBy
  <2> QED
    BY <1>3, <2>1, <2>3, <2>4 DEF AttemptAfter, Disjoint, Kept
<1>6. /\ store' \in [{"own", "default"} -> {"empty", "account", "configured"}]
      /\ events' \subseteq Events /\ (server = "down" => events' = {})
  BY DEF IInv, TypeInv
<1>7. TypeInv' /\ PumpInv' /\ AttemptInv'
  BY <1>4, <1>5, <1>6, Becoming DEF IInv
<1> QED
  BY <1>7 DEF IInv

LEMMA DetailStep ==
  ASSUME IInv, NEW c \in pending, NEW chat \in c.about, DetailRead(c, chat)
  PROVE  IInv'
<1> DEFINE left == c.about \ {chat}
           r == [c EXCEPT !.about = left]
           e == Answered(self, c.by)
           d == Ask(self, "details", c.by, left)
           rest == pending \ {c}
<1>1. /\ c.step = "details"
      /\ IF r.about = {} THEN Becomes(e, rest) ELSE Becomes(Ask(self, "details", c.by, r.about), rest)
      /\ UNCHANGED <<start, store, server, events, resets, carried>>
  BY DEF DetailRead
<1>2. IsPromise(c)
  BY DEF IInv, TypeInv
<1>3. c.by \in Parties /\ left \in SUBSET (Chats \cup Messages)
  BY <1>2 DEF IsPromise
<1>4. r.about = left
  <2>1. "about" \in DOMAIN c
    BY <1>2 DEF IsPromise, Numbered
  <2> QED
    BY <2>1
<1>5. "details" \in Steps \ (Setup \cup Batch)
  BY DEF Steps, SelfSteps, Setup, Onwards, Batch
<1>6. /\ e \in Members /\ Same(self, e) /\ e.asks = {}
      /\ d \in Members /\ Same(self, d) /\ Adds(self, d, "details")
  BY <1>3, <1>5, Known, Asking, Answering DEF IInv
<1>7. PICK t \in {e, d} : Becomes(t, rest)
  BY <1>1, <1>4
<1> HIDE DEF e, d
<1>8. t \in Members /\ Same(self, t) /\ None(t.asks, Setup \cup Batch)
  <2>1. None(e.asks, Setup \cup Batch)
    BY <1>6 DEF None
  <2>2. None(d.asks, Setup \cup Batch)
    BY <1>5, <1>6, OneAside, Known DEF IInv
  <2> QED
    BY <1>6, <1>7, <2>1, <2>2
<1>9. \A x \in pending : x.step \in Setup \cup Batch => x \in rest
  BY <1>1, <1>5
<1>10. /\ Kept(self, t) /\ t.pumpRunning = self.pumpRunning /\ t.addr = self.addr
       /\ t.role = self.role /\ t.startIoSoon = self.startIoSoon
  BY <1>8 DEF Same, Kept
<1> QED
  BY <1>1, <1>7, <1>8, <1>9, <1>10, SideStep

\* A spoilt line is lost; the members that were left half a line were not given up.
LEMMA SpoiltStep ==
  ASSUME IInv, NEW c \in pending, LineSpoilt(c)
  PROVE  IInv'
<1> DEFINE t == [self EXCEPT !.spoilt = FALSE]
<1>1. /\ self.spoilt = TRUE /\ server # "down" /\ self' = t /\ pending' = pending \ {c}
      /\ UNCHANGED <<start, store, server, events, faults, resets, carried>>
  BY Known DEF LineSpoilt, IInv, Members
<1>2. /\ t \in Members /\ t.asks = {} /\ t.dir = self.dir /\ t.qr = self.qr
      /\ t.ui = self.ui /\ t.addr = self.addr /\ t.startIoSoon = self.startIoSoon
      /\ t.role = self.role
  BY Known DEF Members, IInv
<1> HIDE DEF t
<1>3. TypeInv'
  BY <1>1, <1>2 DEF IInv, TypeInv
<1>4. PumpInv'
  BY <1>1, <1>2 DEF IInv, PumpInv
<1>5. AttemptInv'
  <2> SUFFICES ASSUME t.role = "attempt", start.qr = TRUE
               PROVE  /\ t.qr = TRUE /\ t.startIoSoon = FALSE /\ t.ui = "free"
                      /\ Single(pending', Setup) /\ ConfiguredBy(pending', t, store[t.dir])
    BY <1>1 DEF AttemptInv
  <2>1. /\ self.qr = TRUE /\ self.startIoSoon = FALSE /\ self.ui = "free"
        /\ Single(pending, Setup) /\ ConfiguredBy(pending, self, store[self.dir])
    BY <1>2 DEF IInv, AttemptInv
  <2> QED
    BY <1>1, <1>2, <2>1 DEF ConfiguredBy, Single
<1> QED
  BY <1>3, <1>4, <1>5 DEF IInv

\* A process that ended has nothing pending, and no new one comes without a reset.
LEMMA DiesStep ==
  ASSUME IInv, ServerDies
  PROVE  IInv'
<1>1. PICK half \in {FALSE, pending # {}} : self' = [self EXCEPT !.spoilt = half]
  BY DEF ServerDies
<1>2. /\ server' = "down" /\ pending' = {} /\ events' = {}
      /\ UNCHANGED <<start, store, faults, resets, carried>>
  BY DEF ServerDies
<1>3. half \in BOOLEAN
  OBVIOUS
<1>4. /\ self' \in Members /\ self'.asks = {} /\ self'.qr = self.qr /\ self'.ui = self.ui
      /\ self'.role = self.role /\ self'.startIoSoon = self.startIoSoon
  BY <1>1, <1>3, Known DEF Members, IInv
<1>5. TypeInv'
  BY <1>2, <1>4 DEF IInv, TypeInv
<1>6. PumpInv'
  BY <1>2 DEF PumpInv
<1>7. AttemptInv'
  BY <1>2, <1>4 DEF IInv, AttemptInv, Single, ConfiguredBy
<1> QED
  BY <1>5, <1>6, <1>7 DEF IInv

LEMMA HappensStep ==
  ASSUME IInv, NEW e \in start.events, Happens(e)
  PROVE  IInv'
<1>1. /\ server = "up" /\ events' = events \cup {e}
      /\ UNCHANGED <<start, store, server, self, pending, faults, resets, carried>>
  BY DEF Happens
<1>2. e \in Events
  BY Known DEF IInv
<1>3. TypeInv'
  BY <1>1, <1>2 DEF IInv, TypeInv
<1>4. PumpInv' /\ AttemptInv'
  BY <1>1 DEF IInv, PumpInv, AttemptInv
<1> QED
  BY <1>3, <1>4 DEF IInv

LEMMA RequestStep ==
  ASSUME IInv, NEW kind \in Requests, Request(kind)
  PROVE  IInv'
<1> DEFINE p == [self EXCEPT !.owed = self.owed \cup {kind}]
           t == Ask(p, kind, kind, {})
<1>1. Becomes(t, pending) /\ UNCHANGED <<start, store, server, events, resets, carried>>
  BY DEF Request, Slot
<1>2. /\ kind \in Steps /\ kind \notin Setup \cup Batch /\ kind \in Parties /\ kind \in Owed
      /\ {} \in SUBSET (Chats \cup Messages)
  BY DEF Requests, Steps, Setup, Onwards, Batch, Parties, Owed
<1>3. p \in Members /\ Same(self, p) /\ p.asks = {}
  BY <1>2, Known DEF Members, Same, IInv
<1> HIDE DEF p
<1>4. t \in Members /\ Same(p, t) /\ Adds(p, t, kind)
  BY <1>2, <1>3, Asking
<1> HIDE DEF t
<1>5. None(t.asks, Setup \cup Batch)
  BY <1>2, <1>3, <1>4, OneAside
<1>6. /\ Kept(self, t) /\ t.pumpRunning = self.pumpRunning /\ t.addr = self.addr
      /\ t.role = self.role /\ t.startIoSoon = self.startIoSoon
  BY <1>3, <1>4 DEF Same, Kept
<1> QED
  BY <1>1, <1>4, <1>5, <1>6, SideStep

\* A step of a set-up chain that does not belong to an attempt with a QR code.
LEMMA ChainStep ==
  ASSUME IInv, NEW t \in Members, Becomes(t, pending),
         UNCHANGED <<start, store, server, events, resets, carried>>,
         None(t.asks, Onwards), None(t.asks, Batch),
         Kept(self, t), t.pumpRunning = self.pumpRunning,
         ~(t.role = "attempt" /\ start.qr = TRUE)
  PROVE  IInv'
<1>1. Single(t.asks, Onwards) /\ Single(t.asks, Batch)
  BY NoneSingle
<1>2. PumpAfter(t, pending)
  BY <1>1 DEF PumpAfter, PumpInv, IInv, Kept, Disjoint
<1>3. AttemptAfter(t, pending, store'[t.dir])
  BY DEF AttemptAfter
<1>4. /\ store' \in [{"own", "default"} -> {"empty", "account", "configured"}]
      /\ events' \subseteq Events /\ (server = "down" => events' = {})
  BY DEF IInv, TypeInv
<1>5. TypeInv' /\ PumpInv' /\ AttemptInv'
  BY <1>2, <1>3, <1>4, Becoming DEF IInv
<1> QED
  BY <1>5 DEF IInv

LEMMA SetUpStep ==
  ASSUME IInv, NEW step \in {"apply", "backup"}, SetUpAgain(step)
  PROVE  IInv'
<1> DEFINE p == [self EXCEPT !.owed = self.owed \cup {step}]
           t == Ask(p, step, step, {})
<1>1. /\ self.role = "account" /\ Becomes(t, pending)
      /\ UNCHANGED <<start, store, server, events, resets, carried>>
  BY DEF SetUpAgain, Slot
<1>2. /\ step \in Steps /\ step \notin Onwards \cup Batch /\ step \in Parties /\ step \in Owed
      /\ {} \in SUBSET (Chats \cup Messages)
  BY DEF Steps, Setup, Onwards, Batch, Parties, Owed
<1>3. p \in Members /\ Same(self, p) /\ p.asks = {}
  BY <1>2, Known DEF Members, Same, IInv
<1> HIDE DEF p
<1>4. t \in Members /\ Same(p, t) /\ Adds(p, t, step)
  BY <1>2, <1>3, Asking
<1> HIDE DEF t
<1>5. None(t.asks, Onwards) /\ None(t.asks, Batch)
  BY <1>2, <1>3, <1>4 DEF Adds, None
<1>6. Kept(self, t) /\ t.pumpRunning = self.pumpRunning /\ t.role = "account"
  BY <1>1, <1>3, <1>4 DEF Same, Kept
<1> QED
  BY <1>1, <1>4, <1>5, <1>6, ChainStep

\* The timer of a startIo that came too early is never set for a QR code.
LEMMA StartIoStep ==
  ASSUME IInv, StartIoFires
  PROVE  IInv'
<1> DEFINE p == [self EXCEPT !.startIoSoon = FALSE]
           u == [p EXCEPT !.ioRequested = TRUE]
           a == Ask(p, "startIo", "setup", {})
           t == startIo(p)
<1>1. /\ self.startIoSoon = TRUE /\ Becomes(t, pending)
      /\ UNCHANGED <<start, store, server, events, resets, carried>>
  BY Known DEF StartIoFires, Slot, Members, IInv
<1>2. t = a \/ t = u
  BY DEF startIo
<1>3. /\ p \in Members /\ Kept(self, p) /\ p.pumpRunning = self.pumpRunning
      /\ p.role = self.role /\ p.asks = {}
  BY Known DEF Members, Kept, IInv
<1> HIDE DEF p
<1>4. /\ u \in Members /\ Kept(p, u) /\ u.pumpRunning = p.pumpRunning
      /\ u.role = p.role /\ u.asks = {}
  BY <1>3 DEF Members, Kept
<1>5. a \in Members /\ Same(p, a) /\ Adds(p, a, "startIo")
  <2>1. "startIo" \in Steps /\ "setup" \in Parties /\ {} \in SUBSET (Chats \cup Messages)
    BY DEF Steps, Setup, Parties, Owed
  <2> QED
    BY <1>3, <2>1, Asking
<1> HIDE DEF t, u, a
<1>6. t \in Members /\ None(t.asks, Onwards) /\ None(t.asks, Batch)
  BY <1>2, <1>3, <1>4, <1>5 DEF Adds, None, Onwards, Batch
<1>7. Kept(self, t) /\ t.pumpRunning = self.pumpRunning /\ t.role = self.role
  BY <1>2, <1>3, <1>4, <1>5 DEF Same, Kept
<1>8. ~(t.role = "attempt" /\ start.qr = TRUE)
  BY <1>1, <1>7 DEF IInv, AttemptInv
<1> QED
  BY <1>1, <1>6, <1>7, <1>8, ChainStep DEF t

\* The retry is spent on the one promise of the pump.
LEMMA RetryStep ==
  ASSUME IInv, RetryFires
  PROVE  IInv'
<1> DEFINE p == [self EXCEPT !.retries = self.retries - 1]
           a == Ask(p, "batch", "pump", {})
<1>1. PICK t \in {p, a} :
        /\ Becomes(t, pending) /\ (p.pumpRunning = TRUE => t = a)
  BY Known DEF RetryFires, Slot, pumpEvents, IInv
<1>2. self.retries > 0 /\ UNCHANGED <<start, store, server, events, resets, carried>>
  BY DEF RetryFires, Slot
<1>3. /\ p \in Members /\ p.asks = {} /\ p.dir = self.dir /\ p.qr = self.qr
      /\ p.ui = self.ui /\ p.spoilt = self.spoilt /\ p.pumpRunning = self.pumpRunning
      /\ p.addr = self.addr /\ p.startIoSoon = self.startIoSoon /\ p.role = self.role
      /\ p.retries = self.retries - 1
  BY <1>2, Known DEF Members, IInv
<1> HIDE DEF p
<1>4. a \in Members /\ Same(p, a) /\ Adds(p, a, "batch")
  <2>1. "batch" \in Steps /\ "pump" \in Parties /\ {} \in SUBSET (Chats \cup Messages)
    BY DEF Steps, Batch, Parties
  <2> QED
    BY <1>3, <2>1, Asking
<1> HIDE DEF a
<1>5. /\ t \in Members /\ t.dir = self.dir /\ t.qr = self.qr
      /\ t.ui = self.ui /\ t.spoilt = self.spoilt /\ t.pumpRunning = self.pumpRunning
      /\ t.addr = self.addr /\ t.startIoSoon = self.startIoSoon /\ t.role = self.role
      /\ t.retries = self.retries - 1
  BY <1>3, <1>4 DEF Same
<1>6. /\ None(t.asks, Setup) /\ None(t.asks, Onwards) /\ Single(t.asks, Batch)
      /\ Single(t.asks, Onwards) /\ Single(t.asks, Setup)
      /\ self.pumpRunning = TRUE => ~None(t.asks, Batch)
  BY <1>1, <1>3, <1>4 DEF Adds, None, Single, Setup, Onwards, Batch
<1>7. PumpAfter(t, pending)
  <2> SUFFICES ASSUME server = "up", self.ui = "free", carried = {}
               PROVE  PumpAfter(t, pending)
    BY <1>5 DEF PumpAfter
  <2>1. /\ self.spoilt = FALSE /\ self.pumpRunning = TRUE /\ self.retries = 1
        /\ Single(pending, Onwards) /\ Single(pending, Batch)
        /\ None(pending, Onwards) /\ None(pending, Batch)
    BY <1>2, Known DEF IInv, PumpInv
  <2> QED
    BY <1>5, <1>6, <2>1 DEF PumpAfter, Disjoint
<1>8. AttemptAfter(t, pending, store'[t.dir])
  <2>1. \A x \in t.asks : x.step \notin Setup
    BY <1>6 DEF None
  <2>2. ConfiguredBy(t.asks, t, store'[t.dir])
    BY <2>1 DEF ConfiguredBy, Setup
  <2>3. ConfiguredBy(pending, self, store[self.dir]) => ConfiguredBy(pending, t, store'[t.dir])
    BY <1>2, <1>5 DEF ConfiguredBy
  <2> QED
    BY <1>2, <1>5, <1>6, <2>2, <2>3 DEF AttemptAfter, AttemptInv, IInv, Disjoint
<1>9. /\ store' \in [{"own", "default"} -> {"empty", "account", "configured"}]
      /\ events' \subseteq Events /\ (server = "down" => events' = {})
  BY <1>2 DEF IInv, TypeInv
<1>10. TypeInv' /\ PumpInv' /\ AttemptInv'
  BY <1>1, <1>2, <1>5, <1>7, <1>8, <1>9, Becoming DEF IInv
<1> QED
  BY <1>10 DEF IInv

LEMMA DiscardStep ==
  ASSUME IInv, Discard
  PROVE  IInv'
<1>1. /\ self' = [self EXCEPT !.role = "gone", !.ui = "gone", !.pumpRunning = FALSE]
      /\ server' = "down" /\ pending' = {} /\ events' = {}
      /\ UNCHANGED <<start, store, faults, resets, carried>>
  BY DEF Discard
<1>2. self' \in Members /\ self'.asks = {} /\ self'.role = "gone"
  BY <1>1, Known DEF Members, IInv
<1> QED
  BY <1>1, <1>2 DEF IInv, TypeInv, PumpInv, AttemptInv

\* A shutdown leaves the process to end; nothing counts on its pump any more.
LEMMA ShutdownStep ==
  ASSUME IInv, NEW s \in Members, NEW then \in {"removing", "resetting"},
         s.role = self.role, shutdown(s, then), UNCHANGED <<start, store, events>>,
         resets' \in Nat
  PROVE  IInv'
<1> DEFINE t == [s EXCEPT !.ui = then, !.pumpRunning = FALSE]
<1>1. /\ self.role = "account" /\ Becomes(t, pending)
      /\ server' = IF server = "up" THEN "ending" ELSE server
  BY DEF shutdown
<1>2. t \in Members /\ t.ui = then /\ t.role = "account"
  BY <1>1 DEF Members
<1> HIDE DEF t
<1>3. self' \in Members /\ self'.asks = {} /\ self'.ui = then /\ self'.role = "account"
  BY <1>1, <1>2 DEF Becomes, Members
<1>4. pending' = pending \cup Posted(t.asks)
  BY <1>1 DEF Becomes, Posted
<1>5. \A p \in Posted(t.asks) : IsPromise(p)
  <2>1. t.asks \in SUBSET Calls
    BY <1>2 DEF Members
  <2>2. \A p \in Posted(t.asks) : \E a \in t.asks : Stems(p, a)
    BY <2>1, Sending
  <2> QED
    BY <2>1, <2>2 DEF Calls, Stems, IsPromise
<1>6. server' = "down" => pending' = {} /\ events' = {}
  BY <1>1, <1>4 DEF IInv, TypeInv, Posted
<1>7. TypeInv'
  BY <1>1, <1>3, <1>4, <1>5, <1>6 DEF IInv, TypeInv
<1> QED
  BY <1>3, <1>7 DEF IInv, PumpInv, AttemptInv

LEMMA RemoveStep ==
  ASSUME IInv, removeAccount
  PROVE  IInv'
<1> DEFINE s == stopIo(self)
<1>1. shutdown(s, "removing") /\ UNCHANGED <<start, store, events, resets>>
  BY DEF removeAccount
<1>2. s \in Members /\ s.role = self.role
  <2>1. "stopIo" \in Steps /\ "self" \in Parties /\ {} \in SUBSET (Chats \cup Messages)
    BY DEF Steps, SelfSteps, Parties
  <2> QED
    BY <2>1, Known, Asking DEF stopIo, Same, IInv
<1>3. resets' \in Nat
  BY <1>1 DEF IInv, TypeInv
<1> QED
  BY <1>1, <1>2, <1>3, ShutdownStep

LEMMA ResetStep ==
  ASSUME IInv, resetApp
  PROVE  IInv'
<1>1. shutdown(self, "resetting") /\ UNCHANGED <<start, store, events>> /\ resets' = resets + 1
  BY DEF resetApp
<1>2. resets' \in Nat
  BY <1>1 DEF IInv, TypeInv
<1> QED
  BY <1>1, <1>2, Known, ShutdownStep DEF IInv

LEMMA PurgeStep ==
  ASSUME IInv, purgeLocalData
  PROVE  IInv'
<1>1. /\ self' = [self EXCEPT !.role = "gone", !.ui = "gone"]
      /\ store' = [store EXCEPT ![self.dir] = "empty"]
      /\ server' = "down" /\ pending' = {} /\ events' = {}
      /\ UNCHANGED <<start, faults, resets, carried>>
  BY DEF purgeLocalData
<1>2. self' \in Members /\ self'.asks = {} /\ self'.role = "gone"
  BY <1>1, Known DEF Members, IInv
<1>3. store' \in [{"own", "default"} -> {"empty", "account", "configured"}]
  BY <1>1 DEF IInv, TypeInv
<1> QED
  BY <1>1, <1>2, <1>3 DEF IInv, TypeInv, PumpInv, AttemptInv

\* The next process starts its chain; the pump of the last one, its retry and half
\* its line are what it may inherit.
LEMMA ReinitializedStep ==
  ASSUME IInv, Reinitialized
  PROVE  IInv'
<1>1. /\ self.ui = "resetting" /\ events' = {}
      /\ UNCHANGED <<start, store, faults, resets>>
  BY DEF Reinitialized
<1> DEFINE p(half) == [self EXCEPT !.ui = "free", !.owed = {"setup"}, !.spoilt = half]
           q(half) == [p(half) EXCEPT !.dir = "default", !.qr = FALSE]
           r(half) == Ask(q(half), "ids", "setup", {})
           t(half) == Ask(r(half), "convs", "self", {})
<1>2. PICK half \in {self.spoilt, pending # {}}, starts \in BOOLEAN :
        /\ self' = [t(half) EXCEPT !.asks = {}]
        /\ server' = IF starts THEN "up" ELSE "down"
        /\ pending' = IF starts THEN {Numbered(c, 0) : c \in t(half).asks} ELSE {}
        /\ carried' = carried \cup Carried(t(half))
  BY DEF Reinitialized, Initialized, fetchConversations
<1>3. half \in BOOLEAN
  BY <1>2, Known DEF Members, IInv
<1>4. /\ q(half) \in Members /\ q(half).asks = {} /\ q(half).ui = "free"
      /\ q(half).role = self.role
  <2>1. /\ p(half) \in Members /\ p(half).asks = {} /\ p(half).ui = "free"
        /\ p(half).role = self.role
    BY <1>3, Known DEF Members, Owed, IInv
  <2> HIDE DEF p
  <2> QED
    BY <2>1 DEF Members
<1>5. /\ {"ids", "convs"} \subseteq Steps /\ {"setup", "self"} \subseteq Parties
      /\ {} \in SUBSET (Chats \cup Messages)
  BY DEF Steps, Setup, Onwards, Requests, Parties, Owed
<1> HIDE DEF q
<1>6. r(half) \in Members /\ Same(q(half), r(half)) /\ Adds(q(half), r(half), "ids")
  BY <1>4, <1>5, Asking
<1> HIDE DEF r
<1>7. t(half) \in Members /\ Same(r(half), t(half)) /\ Adds(r(half), t(half), "convs")
  BY <1>5, <1>6, Asking
<1> HIDE DEF t
<1>8. PICK i \in Calls, j \in Calls :
        i.step = "ids" /\ j.step = "convs" /\ t(half).asks = {i, j}
  BY <1>4, <1>6, <1>7 DEF Adds
<1> DEFINE u == t(half)
           A == {Numbered(c, 0) : c \in u.asks}
<1>9. u \in Members /\ u.ui = "free" /\ u.role = self.role
  BY <1>4, <1>6, <1>7 DEF Same
<1>10. Promises(A, u.asks)
  BY <1>9, FirstPromises DEF Members
<1>11. Single(A, Onwards) /\ None(A, Batch)
  <2>1. Single(u.asks, Onwards) /\ None(u.asks, Batch)
    BY <1>8 DEF Single, None, Onwards, Batch
  <2>2. Onwards \in SUBSET Steps
    BY DEF Steps, Setup
  <2> QED
    BY <1>10, <2>1, <2>2, NonePromised DEF Promises
<1>12. \A c \in A : IsPromise(c)
  <2>1. \A a \in u.asks : /\ a.step \in Steps /\ a.by \in Parties /\ a.acct \in BOOLEAN
                          /\ a.about \subseteq Chats \cup Messages
    BY <1>8 DEF Calls
  <2>2. \A c \in A : \E a \in u.asks : Stems(c, a)
    BY <1>10 DEF Promises
  <2> HIDE DEF u, A
  <2> QED
    BY <2>1, <2>2 DEF Stems, IsPromise
<1>13. /\ self' \in Members /\ self'.asks = {} /\ self'.ui = "free" /\ self'.role = self.role
       /\ self'.retries = u.retries /\ self'.pumpRunning = u.pumpRunning
       /\ self'.spoilt = u.spoilt
  BY <1>2, <1>9 DEF Members
<1>14. pending' = A \/ pending' = {}
  BY <1>2
<1>15. carried' = {} => /\ u.retries = 0 /\ u.pumpRunning = FALSE /\ u.spoilt = FALSE
  <2> SUFFICES ASSUME Carried(u) = {}
               PROVE  u.retries = 0 /\ u.pumpRunning = FALSE /\ u.spoilt = FALSE
    BY <1>2
  <2>1. "retry" \notin Carried(u) /\ "pump" \notin Carried(u) /\ "line" \notin Carried(u)
    OBVIOUS
  <2> QED
    BY <1>9, <2>1 DEF Carried, Members
<1> HIDE DEF u, A
<1>16. TypeInv'
  <2>1. server' \in {"up", "ending", "down"} /\ (server' = "down" => pending' = {})
    BY <1>2
  <2> QED
    BY <1>1, <1>12, <1>13, <1>14, <2>1 DEF IInv, TypeInv
<1>17. PumpInv'
  <2>1. Single(pending', Onwards) /\ None(pending', Batch) /\ Single(pending', Batch)
    BY <1>11, <1>14, NoneSingle DEF Single, None
  <2> QED
    BY <1>13, <1>15, <2>1 DEF PumpInv
<1>18. AttemptInv'
  BY <1>1, <1>13 DEF IInv, AttemptInv
<1> QED
  BY <1>16, <1>17, <1>18 DEF IInv

LEMMA Initially ==
  ASSUME Init
  PROVE  IInv
<1> DEFINE s == [dir |-> "own", qr |-> FALSE, accountId |-> FALSE, addr |-> FALSE,
                 ioRequested |-> start.role = "attempt", pumpRunning |-> FALSE,
                 spoilt |-> FALSE, retries |-> 0, startIoSoon |-> FALSE,
                 role |-> start.role, ui |-> "free",
                 owed |-> {"setup"}, asks |-> {}]
           p == [s EXCEPT !.dir = "own", !.qr = start.qr]
           t == Ask(p, "ids", "setup", {})
<1>1. /\ start \in Starts /\ store = [own |-> start.store, default |-> "empty"]
      /\ server = "up" /\ self = [t EXCEPT !.asks = {}]
      /\ pending = {Numbered(c, 0) : c \in t.asks}
      /\ events = {} /\ resets = 0 /\ carried = {}
  BY DEF Init, Created, Initialized
<1>2. /\ start.role \in {"attempt", "account"} /\ start.qr \in BOOLEAN
      /\ start.store \in {"empty", "account", "configured"}
  BY <1>1, DeltaChatAssumption
<1>3. s \in Members
  BY <1>2 DEF Members, Owed
<1>4. /\ p \in Members /\ p.qr = start.qr /\ p.pumpRunning = FALSE /\ p.spoilt = FALSE
      /\ p.retries = 0 /\ p.startIoSoon = FALSE /\ p.ui = "free" /\ p.asks = {}
  <2>1. /\ s.pumpRunning = FALSE /\ s.spoilt = FALSE /\ s.retries = 0
        /\ s.startIoSoon = FALSE /\ s.ui = "free" /\ s.asks = {}
    OBVIOUS
  <2> HIDE DEF s
  <2> QED
    BY <1>2, <1>3, <2>1 DEF Members
<1> HIDE DEF p
<1>5. t \in Members /\ Same(p, t) /\ Adds(p, t, "ids")
  <2>1. "ids" \in Steps /\ "setup" \in Parties /\ {} \in SUBSET (Chats \cup Messages)
    BY DEF Steps, Setup, Onwards, Parties, Owed
  <2> QED
    BY <1>4, <2>1, Asking
<1> HIDE DEF t
<1>6. PICK i \in Calls : i.step = "ids" /\ t.asks = {i}
  BY <1>4, <1>5 DEF Adds
<1>7. Promises(pending, t.asks)
  BY <1>1, <1>5, FirstPromises DEF Members
<1>8. Single(pending, Onwards) /\ Single(pending, Setup) /\ None(pending, Batch)
  <2>1. Single(t.asks, Onwards) /\ Single(t.asks, Setup) /\ None(t.asks, Batch)
    BY <1>6 DEF Single, None, Batch
  <2>2. Onwards \in SUBSET Steps /\ Setup \in SUBSET Steps
    BY DEF Steps, Setup
  <2> QED
    BY <1>7, <2>1, <2>2, NonePromised DEF Promises
<1>9. \A c \in pending : IsPromise(c) /\ c.step = "ids"
  BY <1>5, <1>6, <1>7 DEF Promises, Stems, IsPromise, Calls, Members
<1>10. /\ self \in Members /\ self.asks = {} /\ self.qr = start.qr
       /\ self.pumpRunning = FALSE /\ self.spoilt = FALSE /\ self.retries = 0
       /\ self.startIoSoon = FALSE /\ self.ui = "free"
  BY <1>1, <1>4, <1>5 DEF Members, Same
<1>11. TypeInv
  BY <1>1, <1>2, <1>9, <1>10 DEF TypeInv
<1>12. PumpInv
  BY <1>8, <1>10, NoneSingle DEF PumpInv
<1>13. AttemptInv
  BY <1>8, <1>9, <1>10 DEF AttemptInv, ConfiguredBy
<1> QED
  BY <1>11, <1>12, <1>13 DEF IInv

LEMMA Inductive == IInv /\ [Next]_vars => IInv'
<1> SUFFICES ASSUME IInv, [Next]_vars
             PROVE  IInv'
  OBVIOUS
<1>1. ASSUME NEW c \in pending, Respond(c)
      PROVE  IInv'
  BY <1>1, ReadStep, ErrorStep, SpoiltStep, DetailStep DEF Respond
<1>2. CASE ServerDies
  BY <1>2, DiesStep
<1>3. ASSUME NEW e \in start.events, Happens(e)
      PROVE  IInv'
  BY <1>3, HappensStep
<1>4. ASSUME NEW kind \in start.asks \cap Requests, Request(kind)
      PROVE  IInv'
  BY <1>4, RequestStep
<1>5. ASSUME NEW step \in start.asks \ Requests, SetUpAgain(step)
      PROVE  IInv'
  <2>1. step \in {"apply", "backup"}
    BY Known DEF IInv
  <2> QED
    BY <1>5, <2>1, SetUpStep
<1>6. CASE StartIoFires
  BY <1>6, StartIoStep
<1>7. CASE RetryFires
  BY <1>7, RetryStep
<1>8. CASE Discard
  BY <1>8, DiscardStep
<1>9. CASE removeAccount
  BY <1>9, RemoveStep
<1>10. CASE purgeLocalData
  BY <1>10, PurgeStep
<1>11. CASE resetApp
  BY <1>11, ResetStep
<1>12. CASE Reinitialized
  BY <1>12, ReinitializedStep
<1>13. CASE UNCHANGED vars
  BY <1>13 DEF vars, IInv, TypeInv, PumpInv, AttemptInv, IsPromise
<1> QED
  BY <1>1, <1>2, <1>3, <1>4, <1>5, <1>6, <1>7, <1>8, <1>9, <1>10, <1>11, <1>12, <1>13
     DEF Next

-----------------------------------------------------------------------------
(* The theorems.                                                            *)

\* In a process that inherited nothing the chain of initialize and the pump have
\* at most one promise each, the chain none once the pump runs, and the pump then
\* has a batch call or a retry timer. An attempt made with a QR code has at most
\* one promise of all the steps of its set-up.
THEOREM OnePromiseAtATime == Spec => []IInv
  BY Initially, Inductive, PTL DEF Spec

\* The variables keep their types, whatever answers come in whatever order.
THEOREM TypeCorrect == Spec => []TypeOK
<1>1. IInv => TypeOK
  BY DEF IInv, TypeInv, TypeOK, Members
<1> QED
  BY <1>1, OnePromiseAtATime, PTL

\* One consumer per server process: the pump has one promise or one retry timer, as
\* long as no reset left it those of another process.
THEOREM OneConsumerHolds == Spec => []OneConsumer
<1>1. IInv => OneConsumer
  <2> SUFFICES ASSUME IInv, server = "up", self.ui = "free", carried = {},
                      self.pumpRunning = TRUE
               PROVE  Consumers = 1
    BY Known DEF OneConsumer, Free, IInv
  <2> DEFINE B == {c \in pending : c.step = "batch"}
  <2>1. /\ Single(pending, Batch)
        /\ \/ self.retries = 0 /\ ~None(pending, Batch)
           \/ self.retries = 1 /\ None(pending, Batch)
    BY DEF IInv, PumpInv
  <2>2. CASE self.retries = 0 /\ ~None(pending, Batch)
    <3>1. PICK b \in pending : B = {b}
      BY <2>1, <2>2 DEF Single, None, Batch
    <3>2. Cardinality(B) = 1
      BY <3>1, FS_Singleton
    <3> QED
      BY <2>2, <3>2 DEF Consumers
  <2>3. CASE self.retries = 1 /\ None(pending, Batch)
    <3>1. B = {}
      BY <2>3 DEF None, Batch
    <3>2. Cardinality(B) = 0
      BY <3>1, FS_EmptySet
    <3> QED
      BY <2>3, <3>2 DEF Consumers
  <2> QED
    BY <2>1, <2>2, <2>3
<1> QED
  BY <1>1, OnePromiseAtATime, PTL

\* An attempt made with a QR code becomes an account only at the end of a set-up
\* chain, when the server has configured it and its address is known.
THEOREM RegisteredByIdentityHolds == Spec => RegisteredByIdentity
<1> DEFINE P == self.role = "attempt" /\ self'.role = "account" /\ start.qr
                => self'.addr /\ store[self.dir] = "configured"
<1>1. IInv /\ [Next]_vars => [P]_vars
  <2> SUFFICES ASSUME IInv, Next, self.role = "attempt", self'.role = "account", start.qr = TRUE
               PROVE  self'.addr = TRUE /\ store[self.dir] = "configured"
    BY DeltaChatAssumption DEF IInv, TypeInv
  <2>1. /\ self.ui = "free" /\ self.startIoSoon = FALSE
        /\ ConfiguredBy(pending, self, store[self.dir])
    BY DEF IInv, AttemptInv
  <2>2. \A t \in Members : \A rest : Becomes(t, rest) => self'.role = t.role /\ self'.addr = t.addr
    BY DEF Becomes, Members
  <2>3. ASSUME NEW c \in pending, onReadyRead(c)
        PROVE  self'.addr = TRUE /\ store[self.dir] = "configured"
    <3>1. PICK got \in Holds(c) : Becomes(Result(self, c, got), pending \ {c})
      BY <2>3 DEF onReadyRead
    <3>2. c.step \in Steps \ {"details"} /\ c.by \in Parties
      BY <2>3 DEF onReadyRead, IInv, TypeInv, IsPromise
    <3>3. (c.step = "convs" => got \subseteq Chats) /\ (c.step = "batch" => got \subseteq Events)
      <4>1. CASE c.step = "convs"
        BY <3>1, <4>1 DEF Holds
      <4>2. CASE c.step = "batch"
        BY <3>1, <4>2 DEF Holds, IInv, TypeInv
      <4> QED
        BY <4>1, <4>2
    <3> DEFINE t == Result(self, c, got)
    <3>4. Follows(self, c, got, t)
      BY <3>2, <3>3, ResultFollows, Known DEF IInv
    <3>5. Becomes(t, pending \ {c})
      BY <3>1
    <3> HIDE DEF t
    <3>6. self'.role = t.role /\ self'.addr = t.addr
      BY <2>2, <3>4, <3>5 DEF Follows
    <3>7. c.step \in {"start", "startIo"} /\ (self.addr = TRUE => t.addr = TRUE)
      BY <3>4, <3>6 DEF Follows, FollowsSetup
    <3> QED
      BY <2>1, <3>6, <3>7 DEF ConfiguredBy
  <2>4. ASSUME NEW c \in pending, RpcError(c)
        PROVE  FALSE
    <3>1. Becomes(Failed(self, c), pending \ {c})
      BY <2>4 DEF RpcError
    <3>2. /\ Failed(self, c) \in Members
          /\ Failed(self, c).role = self.role \/ Failed(self, c).role = "failed"
      BY Known, Fails DEF IInv
    <3> QED
      BY <2>2, <3>1, <3>2
  <2>5. ASSUME NEW c \in pending, LineSpoilt(c)
        PROVE  FALSE
    BY <2>5, Known DEF LineSpoilt, Members, IInv
  <2>6. ASSUME NEW c \in pending, NEW chat \in c.about, DetailRead(c, chat)
        PROVE  FALSE
    <3> DEFINE e == Answered(self, c.by)
               d(about) == Ask(self, "details", c.by, about)
    <3>1. \E about : Becomes(e, pending \ {c}) \/ Becomes(d(about), pending \ {c})
      BY <2>6 DEF DetailRead
    <3>2. e.role = self.role /\ e \in Members
      BY Known, Answering DEF Same, IInv
    <3>3. Becomes(e, pending \ {c}) => FALSE
      BY <2>2, <3>2
    <3>4. ASSUME NEW about, Becomes(d(about), pending \ {c})
          PROVE  FALSE
      BY <3>4, Known DEF Becomes, Ask, Members, IInv
    <3> QED
      BY <3>1, <3>3, <3>4
  <2>7. CASE ServerDies
    BY <2>7, Known DEF ServerDies, Members, IInv
  <2>8. ASSUME NEW e \in start.events, Happens(e)
        PROVE  FALSE
    BY <2>8 DEF Happens
  <2>9. ASSUME NEW kind, Request(kind) \/ SetUpAgain(kind)
        PROVE  FALSE
    BY <2>9 DEF Request, SetUpAgain
  <2>10. CASE StartIoFires
    BY <2>1, <2>10 DEF StartIoFires
  <2>11. CASE RetryFires
    <3> DEFINE p == [self EXCEPT !.retries = self.retries - 1]
    <3>1. Becomes(p, pending) \/ Becomes(pumpEvents(p), pending)
      BY <2>11 DEF RetryFires, Slot
    <3> QED
      BY <3>1, Known DEF Becomes, pumpEvents, Ask, Members, IInv
  <2>12. CASE Discard
    BY <2>12, Known DEF Discard, Members, IInv
  <2>13. CASE removeAccount \/ resetApp
    BY <2>13 DEF removeAccount, resetApp, shutdown
  <2>14. CASE purgeLocalData \/ Reinitialized
    BY <2>1, <2>14 DEF purgeLocalData, Reinitialized
  <2> QED
    BY <2>3, <2>4, <2>5, <2>6, <2>7, <2>8, <2>9, <2>10, <2>11, <2>12, <2>13, <2>14
       DEF Next, Respond
<1> QED
  BY <1>1, OnePromiseAtATime, PTL DEF Spec, RegisteredByIdentity
=============================================================================
