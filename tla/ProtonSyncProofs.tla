-------------------------- MODULE ProtonSyncProofs --------------------------
(***************************************************************************)
(* The proofs about ProtonSync, for any labels, messages and number of calls  *)
(* in flight: the types with WorkersDrained and IoMeansSession, and that a     *)
(* listing removes only what has gone.                                        *)
(***************************************************************************)
EXTENDS ProtonSync, FiniteSetTheorems, TLAPS

-----------------------------------------------------------------------------
(* Sequences. *)

\* RemoveAt leaves one element less, all of them from before.
LEMMA Removing ==
  ASSUME NEW S, NEW s \in Seq(S), NEW i \in DOMAIN s
  PROVE  /\ RemoveAt(s, i) \in Seq(S) /\ Len(RemoveAt(s, i)) = Len(s) - 1
         /\ \A j \in DOMAIN RemoveAt(s, i) : \E k \in DOMAIN s : RemoveAt(s, i)[j] = s[k]
<1> DEFINE T == {s[k] : k \in DOMAIN s}
           a == SubSeq(s, 1, i - 1)
           b == SubSeq(s, i + 1, Len(s))
<1>1. a \in Seq(T) /\ b \in Seq(T) /\ Len(a) = i - 1 /\ Len(b) = Len(s) - i
  OBVIOUS
<1>2. i \in 1 .. Len(s) /\ Len(s) \in Nat /\ T \subseteq S
  OBVIOUS
<1>3. RemoveAt(s, i) = a \o b
  BY DEF RemoveAt
<1> HIDE DEF T, a, b
<1>4. a \o b \in Seq(T) /\ Len(a \o b) = Len(s) - 1
  BY <1>1, <1>2
<1>5. a \o b \in Seq(S) /\ \A j \in DOMAIN (a \o b) : (a \o b)[j] \in T
  BY <1>2, <1>4
<1> QED
  BY <1>3, <1>4, <1>5 DEF T

\* SetToSeq lists the elements of a finite set.
LEMMA Enumerating ==
  ASSUME NEW S, IsFiniteSet(S)
  PROVE  SetToSeq(S) \in Seq(S)
<1> DEFINE n == Cardinality(S)
           f == SetToSeq(S)
<1>1. n \in Nat /\ ExistsBijection(1..n, S)
  BY FS_CardinalityType
<1>2. \E g \in [1..n -> S] : IsInjective(g)
  BY <1>1 DEF ExistsBijection, Bijection, Injection
<1>3. f \in [1..n -> S] /\ IsInjective(f)
  BY <1>2 DEF SetToSeq
<1> QED
  BY <1>1, <1>3

-----------------------------------------------------------------------------
SignIns == {"restore_session", "login", "submit_totp"}
Methods == SignIns \cup {"list_labels", "list_messages", "message_body", "get_attachment"}
Replies == {"", "none", "ok", "err", "totp", "mailbox_password", "short", "medium", "long",
            "text", "attached", "blank"}
Calls == [method : Methods, label : Labels, msgs : SUBSET Msgs, phase : {"queued", "inside"},
          reply : Replies, there : SUBSET Msgs]
Queued == {c \in Calls : c.phase = "queued"}

\* What a call that has read the server knows: a successful sign-in has left a
\* session, and a listing that is not truncated names all there was.
Knows(w, a, s) ==
  w.phase = "inside" =>
    /\ w.method \in SignIns /\ w.reply = "ok" => a /\ s
    /\ w.method = "list_messages" /\ w.reply \in {"short", "medium"} => w.msgs = w.there

AllKnow(ws, a, s) == ws \in Seq(Calls) /\ \A i \in DOMAIN ws : Knows(ws[i], a, s)

Types ==
  /\ loginFlow \in {"none", "totp", "mailbox_password"}
  /\ lastEventId \in {"none", "latest", "stale"}
  /\ core \in {"live", "freed"} /\ thread \in {"none", "idle", "inside", "ended"}
  /\ ui \in {"startIo", "request", "free", "joining", "waiting", "purged"}
  /\ saved \in BOOLEAN /\ api \in BOOLEAN /\ keyed \in BOOLEAN /\ configured \in BOOLEAN
  /\ ioRequested \in BOOLEAN /\ ioStarted \in BOOLEAN /\ inboxKnown \in BOOLEAN
  /\ didInitialInboxStore \in BOOLEAN /\ shuttingDown \in BOOLEAN
  /\ eventThreadStop \in BOOLEAN /\ posted \in BOOLEAN
  /\ stored \in [Labels -> SUBSET Msgs] /\ unlisted \subseteq Msgs

\* Once the workers are drained nobody submits any more: the slots are shut out,
\* and a shutdown refuses what continuations submit.
Drained ==
  /\ ui \in {"joining", "waiting", "purged"} => shuttingDown
  /\ (core = "freed") <=> (ui = "purged")
  /\ ui = "purged" => workers = <<>>

\* Readiness, and the claim to be configured, rest on a session.
Ready == (configured \/ ioStarted) => api /\ (saved \/ ui = "purged")

IInv ==
  /\ Types /\ Drained /\ Ready /\ AllKnow(workers, api, saved)
  /\ mailbox \in [Msgs -> Labels \cup {Elsewhere}]
  /\ didInitialInboxStore => inboxKnown /\ keyed

-----------------------------------------------------------------------------
(* The calls in flight. *)

LEMMA NewCall ==
  ASSUME NEW method \in Methods, NEW l \in Labels, NEW M \in SUBSET Msgs
  PROVE  Call(method, l, M) \in Queued
  BY DEF Call, Queued, Calls, Replies

\* More queued calls at the end.
LEMMA Adding ==
  ASSUME NEW ws, NEW a, NEW s, AllKnow(ws, a, s), NEW calls \in Seq(Queued)
  PROVE  AllKnow(ws \o calls, a, s)
<1>1. ws \in Seq(Calls) /\ calls \in Seq(Calls)
  BY DEF AllKnow, Queued
<1>2. /\ ws \o calls \in Seq(Calls)
      /\ \A i \in DOMAIN (ws \o calls) :
           \/ i \in DOMAIN ws /\ (ws \o calls)[i] = ws[i]
           \/ i - Len(ws) \in DOMAIN calls /\ (ws \o calls)[i] = calls[i - Len(ws)]
  <2>1. /\ ws \o calls \in Seq(Calls) /\ Len(ws \o calls) = Len(ws) + Len(calls)
        /\ \A i \in 1 .. Len(ws) + Len(calls) :
             (ws \o calls)[i] = IF i <= Len(ws) THEN ws[i] ELSE calls[i - Len(ws)]
    BY <1>1
  <2> QED
    BY <1>1, <2>1
<1>3. \A j \in DOMAIN calls : calls[j].phase = "queued"
  BY DEF Queued
<1> QED
  BY <1>2, <1>3 DEF AllKnow, Knows

LEMMA Submitting ==
  ASSUME NEW ws, NEW a, NEW s, AllKnow(ws, a, s), NEW calls \in Seq(Queued)
  PROVE  AllKnow(call(ws, calls), a, s) /\ (shuttingDown => call(ws, calls) = ws)
  BY Adding DEF call

\* One call less.
LEMMA Leaving ==
  ASSUME NEW a, NEW s, AllKnow(workers, a, s), NEW i \in DOMAIN workers
  PROVE  AllKnow(Rest(i), a, s)
<1>1. workers \in Seq(Calls)
  BY DEF AllKnow
<1>2. /\ Rest(i) \in Seq(Calls)
      /\ \A j \in DOMAIN Rest(i) : \E k \in DOMAIN workers : Rest(i)[j] = workers[k]
  BY <1>1, Removing DEF Rest
<1> QED
  BY <1>2 DEF AllKnow

\* A call that has got its reply.
LEMMA Replying ==
  ASSUME NEW a, NEW s, NEW b, NEW t, AllKnow(workers, a, s), a => b, s => t,
         NEW i \in DOMAIN workers, NEW w \in Calls, Knows(w, b, t)
  PROVE  AllKnow([workers EXCEPT ![i] = w], b, t)
<1> DEFINE ws == [workers EXCEPT ![i] = w]
<1>1. workers \in Seq(Calls) /\ \A j \in DOMAIN workers : Knows(workers[j], a, s)
  BY DEF AllKnow
<1>2. ws \in Seq(Calls)
  BY <1>1
<1>3. DOMAIN ws = DOMAIN workers /\ \A j \in DOMAIN ws : ws[j] = IF j = i THEN w ELSE workers[j]
  BY <1>1
<1> HIDE DEF ws
<1>4. \A j \in DOMAIN ws : Knows(ws[j], b, t)
  BY <1>1, <1>3 DEF Knows
<1>5. AllKnow(ws, b, t)
  BY <1>2, <1>4 DEF AllKnow
<1> QED
  BY <1>5 DEF ws

\* The bodies a listing asks for.
LEMMA BodiesQueue ==
  ASSUME NEW w \in Calls, NEW first \in SUBSET Msgs, NEW left
  PROVE  Bodies(w, first, left) \in Seq(Queued)
<1> DEFINE missing == SetToSeq(first \ left)
<1>1. IsFiniteSet(first \ left)
  BY ProtonAssumption, FS_Subset
<1>2. missing \in Seq(first \ left)
  BY <1>1, Enumerating
<1>4. Bodies(w, first, left) = [k \in DOMAIN missing |-> Call("message_body", w.label, {missing[k]})]
  BY DEF Bodies
<1> HIDE DEF missing
<1>3. Len(missing) \in Nat /\ DOMAIN missing = 1 .. Len(missing)
      /\ \A k \in DOMAIN missing : missing[k] \in Msgs
  BY <1>2
<1>5. \A k \in DOMAIN missing : Call("message_body", w.label, {missing[k]}) \in Queued
  <2>1. w.label \in Labels /\ "message_body" \in Methods
    BY DEF Calls, Methods
  <2> QED
    BY <1>3, <2>1, NewCall
<1> QED
  BY <1>3, <1>4, <1>5

-----------------------------------------------------------------------------
(* Steps inside the core. *)

LEMMA InCore ==
  ASSUME IInv, workers # <<>>, UNCHANGED <<mailbox, setup, inbox, events, teardown, stored, keyed>>,
         AllKnow(workers', api', saved'), loginFlow' \in {"none", "totp", "mailbox_password"},
         api' \in BOOLEAN, saved' \in BOOLEAN, api => api', saved => saved', unlisted' \subseteq Msgs
  PROVE  IInv'
<1>1. Types'
  BY DEF IInv, Types, setup, inbox, events, teardown
<1>2. ui # "purged" /\ Drained'
  BY DEF IInv, Drained, events, teardown
<1>3. Ready'
  BY <1>2 DEF IInv, Ready, setup, teardown
<1> QED
  BY <1>1, <1>2, <1>3 DEF IInv, AllKnow, Knows, inbox

\* A call that gets a reply, and is no listing.
LEMMA Replied ==
  ASSUME IInv, NEW i \in DOMAIN workers, NEW reply \in Replies, Reply(i, reply),
         workers[i].method # "list_messages",
         api' \in BOOLEAN, saved' \in BOOLEAN, api => api', saved => saved',
         workers[i].method \in SignIns /\ reply = "ok" => api' /\ saved'
  PROVE  workers # <<>> /\ AllKnow(workers', api', saved')
<1> DEFINE w == [workers[i] EXCEPT !.phase = "inside", !.reply = reply]
<1>1. AllKnow(workers, api, saved) /\ workers \in Seq(Calls) /\ workers[i] \in Calls
  BY DEF IInv, AllKnow
<1>2. w \in Calls /\ w.method = workers[i].method /\ w.reply = reply
  BY <1>1 DEF Calls
<1>3. workers' = [workers EXCEPT ![i] = w]
  BY <1>1 DEF Reply
<1> HIDE DEF w
<1>4. Knows(w, api', saved')
  BY <1>2 DEF Knows
<1>5. workers # <<>>
  BY <1>1
<1>6. AllKnow([workers EXCEPT ![i] = w], api', saved')
  BY <1>1, <1>2, <1>4, Replying
<1> QED
  BY <1>3, <1>5, <1>6

LEMMA SignInStep ==
  ASSUME IInv, NEW i \in DOMAIN workers,
         restore_session(i) \/ login(i) \/ submit_totp(i)
  PROVE  IInv'
<1>1. /\ workers[i].method \in SignIns /\ workers[i].method # "list_messages"
      /\ UNCHANGED <<mailbox, setup, inbox, events, teardown, stored, keyed, unlisted>>
      /\ loginFlow' \in {"none", "totp", "mailbox_password"}
  BY DEF restore_session, login, submit_totp, finish_login, Enters, SignIns, IInv, Types, session
<1>2. api \in BOOLEAN /\ saved \in BOOLEAN
  BY DEF IInv, Types
<1>3. \E reply \in Replies :
        /\ Reply(i, reply) /\ (api' = api \/ api' = TRUE) /\ (saved' = saved \/ saved' = TRUE)
        /\ reply = "ok" => api' /\ saved'
  <2>1. CASE restore_session(i)
    BY <2>1, <1>2 DEF restore_session, Replies
  <2>2. CASE login(i)
    BY <2>2, <1>2 DEF login, finish_login, session, Replies
  <2>3. CASE submit_totp(i)
    BY <2>3, <1>2 DEF submit_totp, finish_login, session, Replies
  <2> QED
    BY <2>1, <2>2, <2>3
<1>4. PICK reply \in Replies :
        /\ Reply(i, reply) /\ (api' = api \/ api' = TRUE) /\ (saved' = saved \/ saved' = TRUE)
        /\ reply = "ok" => api' /\ saved'
  BY <1>3
<1>5. api' \in BOOLEAN /\ saved' \in BOOLEAN /\ (api => api') /\ (saved => saved')
  <2>1. api' \in BOOLEAN /\ (api => api')
    <3>1. CASE api' = api
      BY <1>2, <3>1
    <3>2. CASE api' = TRUE
      BY <3>2
    <3> QED
      BY <1>4, <3>1, <3>2
  <2>2. saved' \in BOOLEAN /\ (saved => saved')
    <3>1. CASE saved' = saved
      BY <1>2, <3>1
    <3>2. CASE saved' = TRUE
      BY <3>2
    <3> QED
      BY <1>4, <3>1, <3>2
  <2> QED
    BY <2>1, <2>2
<1>6. workers # <<>> /\ AllKnow(workers', api', saved')
  BY <1>1, <1>4, <1>5, Replied
<1> QED
  BY <1>1, <1>5, <1>6, InCore DEF IInv, Types

LEMMA ReadStep ==
  ASSUME IInv, NEW i \in DOMAIN workers,
         list_labels(i) \/ message_body(i) \/ get_attachment(i)
  PROVE  IInv'
<1>1. /\ workers[i].method \notin SignIns /\ workers[i].method # "list_messages"
      /\ UNCHANGED <<mailbox, setup, inbox, events, teardown, stored, keyed, unlisted, session>>
  BY DEF list_labels, message_body, get_attachment, Enters, SignIns
<1>2. \E reply \in Replies : Reply(i, reply)
  BY DEF list_labels, message_body, get_attachment, Answer, Replies
<1>3. workers # <<>> /\ AllKnow(workers', api', saved')
  BY <1>1, <1>2, Replied DEF IInv, Types, session
<1> QED
  BY <1>1, <1>3, InCore DEF IInv, Types, session

LEMMA ListStep ==
  ASSUME IInv, NEW i \in DOMAIN workers, list_messages(i)
  PROVE  IInv'
<1> DEFINE all == Here(workers[i].label)
<1>1. /\ workers[i].method = "list_messages" /\ UNCHANGED session
      /\ UNCHANGED <<mailbox, setup, inbox, events, teardown, stored, keyed>>
      /\ unlisted' \subseteq unlisted
  BY DEF list_messages, Enters
<1>2. AllKnow(workers, api, saved) /\ workers \in Seq(Calls) /\ workers[i] \in Calls
  BY DEF IInv, AllKnow
<1>3. \A c \in Calls : Knows(c, api, saved) => AllKnow([workers EXCEPT ![i] = c], api, saved)
  BY <1>2, Replying
<1>4. CASE Reply(i, "err")
  <2> DEFINE w == [workers[i] EXCEPT !.phase = "inside", !.reply = "err"]
  <2>1. w \in Calls /\ w.method = "list_messages" /\ w.reply = "err"
    BY <1>1, <1>2 DEF Calls, Replies
  <2>2. workers' = [workers EXCEPT ![i] = w]
    BY <1>2, <1>4 DEF Reply
  <2> HIDE DEF w
  <2>3. Knows(w, api, saved)
    BY <2>1 DEF Knows, SignIns
  <2>4. AllKnow([workers EXCEPT ![i] = w], api, saved)
    BY <2>1, <2>3, <1>3
  <2>5. workers # <<>>
    BY <1>2
  <2> QED
    BY <1>1, <2>2, <2>4, <2>5, InCore DEF IInv, Types, session
<1>5. ASSUME NEW size \in {"short", "medium", "long"}, NEW got \in SUBSET all,
             size # "long" => got = all,
             workers' = [workers EXCEPT ![i].phase = "inside", ![i].reply = size,
                                        ![i].msgs = got, ![i].there = all]
      PROVE  IInv'
  <2> DEFINE w == [workers[i] EXCEPT !.phase = "inside", !.reply = size,
                                     !.msgs = got, !.there = all]
  <2>1. all \subseteq Msgs
    BY DEF Here
  <2> HIDE DEF all
  <2>2. w \in Calls /\ w.method = "list_messages" /\ w.reply = size /\ w.msgs = got /\ w.there = all
    BY <1>1, <1>2, <2>1 DEF Calls, Replies
  <2>3. workers' = [workers EXCEPT ![i] = w]
    BY <1>2, <1>5
  <2> HIDE DEF w
  <2>4. Knows(w, api, saved)
    BY <1>5, <2>2 DEF Knows, SignIns
  <2>5. AllKnow([workers EXCEPT ![i] = w], api, saved)
    BY <2>2, <2>4, <1>3
  <2>6. workers # <<>>
    BY <1>2
  <2> QED
    BY <1>1, <2>3, <2>5, <2>6, InCore DEF IInv, Types, session
<1> QED
  BY <1>4, <1>5 DEF list_messages

-----------------------------------------------------------------------------
(* Continuations. *)

LEMMA Continues ==
  ASSUME IInv, workers # <<>>,
         UNCHANGED <<mailbox, session, lastEventId, posted, teardown, keyed, unlisted>>,
         AllKnow(workers', api, saved),
         thread' \in {"none", "idle", "inside", "ended"}, eventThreadStop' \in BOOLEAN,
         stored' \in [Labels -> SUBSET Msgs],
         configured' \in BOOLEAN, ioRequested' \in BOOLEAN, ioStarted' \in BOOLEAN,
         (configured' \/ ioStarted') => api /\ saved,
         inboxKnown' \in BOOLEAN, didInitialInboxStore' \in BOOLEAN,
         didInitialInboxStore' => inboxKnown' /\ keyed
  PROVE  IInv'
<1>1. Types'
  BY DEF IInv, Types, session, teardown
<1>2. Drained'
  BY DEF IInv, Drained, teardown
<1>3. Ready'
  BY DEF Ready, session
<1> QED
  BY <1>1, <1>2, <1>3 DEF IInv, session

\* What is left of the calls, and what the continuation submits.
LEMMA Left ==
  ASSUME IInv, NEW i \in DOMAIN workers
  PROVE  /\ workers # <<>> /\ ui # "purged" /\ workers[i] \in Calls
         /\ Knows(workers[i], api, saved) /\ AllKnow(Rest(i), api, saved)
         /\ \A calls \in Seq(Queued) : /\ AllKnow(call(Rest(i), calls), api, saved)
                                       /\ AllKnow(Rest(i) \o calls, api, saved)
         /\ \A m \in Methods : workers' = call(Rest(i), <<Call(m, Inbox, {})>>)
                               => AllKnow(workers', api, saved)
<1>1. AllKnow(workers, api, saved) /\ workers \in Seq(Calls)
  BY DEF IInv, AllKnow
<1>2. workers # <<>> /\ ui # "purged" /\ workers[i] \in Calls /\ Knows(workers[i], api, saved)
  BY <1>1 DEF IInv, Drained, AllKnow
<1>3. AllKnow(Rest(i), api, saved)
  BY <1>1, Leaving
<1>4. \A calls \in Seq(Queued) : /\ AllKnow(call(Rest(i), calls), api, saved)
                                 /\ AllKnow(Rest(i) \o calls, api, saved)
  BY <1>3, Submitting, Adding
<1>5. \A m \in Methods : <<Call(m, Inbox, {})>> \in Seq(Queued)
  BY NewCall, ProtonAssumption
<1> QED
  BY <1>2, <1>3, <1>4, <1>5

\* The members a continuation leaves alone are as the invariant says.
LEMMA AsBefore ==
  ASSUME IInv, workers # <<>>
  PROVE  /\ thread \in {"none", "idle", "inside", "ended"} /\ eventThreadStop \in BOOLEAN
         /\ stored \in [Labels -> SUBSET Msgs]
         /\ configured \in BOOLEAN /\ ioRequested \in BOOLEAN /\ ioStarted \in BOOLEAN
         /\ (configured \/ ioStarted) => api /\ saved
         /\ inboxKnown \in BOOLEAN /\ didInitialInboxStore \in BOOLEAN /\ keyed \in BOOLEAN
         /\ didInitialInboxStore => inboxKnown /\ keyed
  BY DEF IInv, Types, Ready, Drained

LEMMA SignedInStep ==
  ASSUME IInv, NEW i \in DOMAIN workers, SignedIn(i)
  PROVE  IInv' /\ UNCHANGED stored
<1>1. /\ workers[i].method \in SignIns /\ workers[i].reply = "ok" /\ workers[i].phase = "inside"
      /\ UNCHANGED <<mailbox, session, lastEventId, posted, teardown, keyed, unlisted>>
      /\ UNCHANGED <<inbox, stored>>
      /\ configured' = TRUE /\ ioStarted' = (ioStarted \/ ioRequested) /\ ioRequested' = FALSE
      /\ thread' \in {thread, "idle"} /\ eventThreadStop' \in {eventThreadStop, FALSE}
      /\ workers' = call(Rest(i), <<Call("list_labels", Inbox, {})>>)
  <2>1. eventThreadStop \in BOOLEAN
    BY DEF IInv, Types
  <2> QED
    BY <2>1 DEF SignedIn, Returns, SignIns, startEventLoop, Submits
<1>2. api /\ saved
  BY <1>1, Left DEF Knows
<1>3. workers # <<>> /\ AllKnow(workers', api, saved)
  BY <1>1, Left DEF Methods
<1>4. (ioStarted \/ ioRequested) \in BOOLEAN
  OBVIOUS
<1> QED
  BY <1>1, <1>2, <1>3, <1>4, AsBefore, Continues DEF inbox

LEMMA ConfigureStep ==
  ASSUME IInv, NEW i \in DOMAIN workers,
         configure(i) \/ ConfigureFails(i) \/ FetchFails(i) \/ AttachmentsFetched(i)
  PROVE  IInv' /\ \A l \in Labels : stored[l] \subseteq stored'[l]
<1>1. /\ UNCHANGED <<mailbox, session, lastEventId, posted, teardown, keyed, unlisted>>
      /\ UNCHANGED <<setup, inbox, thread, eventThreadStop>>
      /\ \/ UNCHANGED stored
         \/ stored' = [stored EXCEPT ![workers[i].label] = stored[workers[i].label] \cup workers[i].msgs]
      /\ \/ workers' = Rest(i)
         \/ \E m \in Methods : workers' = call(Rest(i), <<Call(m, Inbox, {})>>)
  BY DEF configure, ConfigureFails, FetchFails, AttachmentsFetched, storeMessage, Returns, Submits,
         Methods, SignIns
<1>2. workers # <<>> /\ AllKnow(workers', api, saved)
  BY <1>1, Left
<1>3. stored' \in [Labels -> SUBSET Msgs] /\ \A l \in Labels : stored[l] \subseteq stored'[l]
  <2>1. workers[i] \in Calls /\ stored \in [Labels -> SUBSET Msgs]
    BY Left DEF IInv, Types
  <2>2. workers[i].msgs \subseteq Msgs
    BY <2>1 DEF Calls
  <2> QED
    BY <1>1, <2>1, <2>2
<1> QED
  BY <1>1, <1>2, <1>3, AsBefore, Continues DEF setup, inbox

LEMMA LabelsStep ==
  ASSUME IInv, NEW i \in DOMAIN workers, LabelsListed(i)
  PROVE  IInv' /\ UNCHANGED stored
<1>1. /\ UNCHANGED <<mailbox, session, lastEventId, posted, teardown, keyed, unlisted>>
      /\ UNCHANGED <<setup, thread, eventThreadStop, stored>>
      /\ inboxKnown' = TRUE /\ didInitialInboxStore' = (didInitialInboxStore \/ keyed)
      /\ \/ workers' = Rest(i)
         \/ workers' = call(Rest(i), <<Call("list_messages", Inbox, {})>>)
  BY DEF LabelsListed, Returns, Initial, Submits
<1>2. workers # <<>> /\ AllKnow(workers', api, saved)
  BY <1>1, Left DEF Methods
<1>3. (didInitialInboxStore \/ keyed) \in BOOLEAN /\ (didInitialInboxStore \/ keyed => keyed)
  BY DEF IInv, Types
<1> QED
  BY <1>1, <1>2, <1>3, AsBefore, Continues DEF setup

\* A complete listing removes only what was not there.
LEMMA ListedStep ==
  ASSUME IInv, NEW i \in DOMAIN workers, MessagesListed(i)
  PROVE  /\ IInv'
         /\ \A l \in Labels : \A m \in stored[l] \ stored'[l] :
              ListingEnds(i, l) /\ m \notin workers[i].there
<1> DEFINE w == workers[i]
<1>1. /\ UNCHANGED <<mailbox, session, lastEventId, posted, teardown, keyed, unlisted>>
      /\ UNCHANGED <<setup, inbox, thread, eventThreadStop>>
      /\ w.method = "list_messages" /\ w.phase = "inside" /\ w.reply \in {"short", "medium", "long"}
  BY DEF MessagesListed, Returns
<1>2. w \in Calls /\ Knows(w, api, saved) /\ workers # <<>> /\ stored \in [Labels -> SUBSET Msgs]
  BY Left DEF IInv, Types
<1>3. \/ UNCHANGED stored
      \/ stored' = [stored EXCEPT ![w.label] = Reconciled(w)]
  BY DEF MessagesListed
<1>4. Reconciled(w) \subseteq stored[w.label] /\ stored[w.label] \ Reconciled(w) \subseteq Msgs \ w.there
  <2>1. stored[w.label] \subseteq Msgs /\ (w.reply # "long" => w.msgs = w.there)
    BY <1>1, <1>2 DEF Calls, Knows
  <2> QED
    BY <2>1 DEF Reconciled
<1>5. /\ stored' \in [Labels -> SUBSET Msgs]
      /\ \A l \in Labels : \A m \in stored[l] \ stored'[l] : w.label = l /\ m \notin w.there
  BY <1>2, <1>3, <1>4
<1>6. \/ workers' = Rest(i)
      \/ \E first \in SUBSET w.msgs : \E left : workers' = Rest(i) \o Bodies(w, first, left)
  BY DEF MessagesListed
<1>7. AllKnow(workers', api, saved)
  <2>1. w.msgs \subseteq Msgs
    BY <1>2 DEF Calls
  <2> HIDE DEF w
  <2>2. \A first \in SUBSET w.msgs : \A left : Bodies(w, first, left) \in Seq(Queued)
    BY <1>2, <2>1, BodiesQueue
  <2> QED
    BY <1>6, <2>2, Left
<1>8. IsPrefix(Rest(i), workers')
  <2>1. Rest(i) \in Seq(Calls)
    BY <1>2, Left DEF AllKnow
  <2>2. \A first \in SUBSET w.msgs : \A left : Bodies(w, first, left) \in Seq(Queued)
    BY <1>2, BodiesQueue DEF Calls
  <2> QED
    BY <1>6, <2>1, <2>2 DEF IsPrefix
<1>9. \A l \in Labels : \A m \in stored[l] \ stored'[l] :
        ListingEnds(i, l) /\ m \notin workers[i].there
  BY <1>1, <1>5, <1>8 DEF ListingEnds
<1> QED
  BY <1>1, <1>2, <1>5, <1>7, <1>9, AsBefore, Continues DEF setup, inbox

LEMMA PersistStep ==
  ASSUME IInv, NEW i \in DOMAIN workers, persistMessage(i)
  PROVE  IInv' /\ \A l \in Labels : stored[l] \subseteq stored'[l]
<1> DEFINE w == workers[i]
<1>1. /\ UNCHANGED <<mailbox, session, lastEventId, posted, teardown, keyed, unlisted>>
      /\ UNCHANGED <<setup, inbox, thread, eventThreadStop>>
      /\ \/ UNCHANGED stored
         \/ stored' = [stored EXCEPT ![w.label] = stored[w.label] \cup w.msgs]
      /\ \/ workers' = Rest(i)
         \/ workers' = call(Rest(i), <<Call("get_attachment", w.label, w.msgs)>>)
  BY DEF persistMessage, storeMessage, Returns
<1>2. w \in Calls /\ workers # <<>> /\ stored \in [Labels -> SUBSET Msgs]
  BY Left DEF IInv, Types
<1>3. w.msgs \subseteq Msgs /\ w.label \in Labels
  BY <1>2 DEF Calls
<1>4. <<Call("get_attachment", w.label, w.msgs)>> \in Seq(Queued)
  BY <1>3, NewCall DEF Methods
<1>5. AllKnow(workers', api, saved)
  BY <1>1, <1>4, Left
<1>6. stored' \in [Labels -> SUBSET Msgs] /\ \A l \in Labels : stored[l] \subseteq stored'[l]
  BY <1>1, <1>2, <1>3
<1> QED
  BY <1>1, <1>2, <1>5, <1>6, AsBefore, Continues DEF setup, inbox

LEMMA RefusedStep ==
  ASSUME IInv, NEW i \in DOMAIN workers, Refused(i)
  PROVE  IInv' /\ UNCHANGED stored
<1>1. /\ workers' = Rest(i)
      /\ UNCHANGED <<mailbox, session, setup, inbox, events, teardown, stored, keyed, unlisted>>
  BY DEF Refused
<1> QED
  BY <1>1, Left, AsBefore, Continues DEF setup, inbox, events

-----------------------------------------------------------------------------
(* The UI thread, the event thread and the server. *)

LEMMA SlotStep ==
  ASSUME IInv,
         \/ fetchConversations \/ (\E l \in Labels : fetchMessages(l))
         \/ (\E l \in Labels, m \in Msgs : fetchMessageBody(l, m)) \/ Deliver
  PROVE  IInv' /\ UNCHANGED stored
<1>1. /\ ui = "free"
      /\ UNCHANGED <<mailbox, session, setup, inbox, lastEventId, thread, eventThreadStop,
                     teardown, stored, keyed, unlisted>>
      /\ posted' = posted \/ posted' = FALSE
      /\ \E method \in Methods, l \in Labels, M \in SUBSET Msgs :
           workers' = call(workers, <<Call(method, l, M)>>)
  BY ProtonAssumption
     DEF fetchConversations, fetchMessages, fetchMessageBody, Deliver, UserStep, Submit, events, Methods
<1>2. PICK method \in Methods, l \in Labels, M \in SUBSET Msgs :
         workers' = call(workers, <<Call(method, l, M)>>)
  BY <1>1
<1>3. <<Call(method, l, M)>> \in Seq(Queued)
  BY NewCall
<1>4. AllKnow(workers', api, saved)
  BY <1>2, <1>3, Submitting DEF IInv
<1>5. Types'
  <2>1. posted \in BOOLEAN
    BY DEF IInv, Types
  <2>2. posted' \in BOOLEAN
    BY <1>1, <2>1, Zenon
  <2> QED
    BY <1>1, <2>2 DEF IInv, Types, session, setup, inbox, teardown
<1>6. Drained' /\ Ready'
  BY <1>1 DEF IInv, Drained, Ready, session, setup, teardown
<1> QED
  BY <1>1, <1>4, <1>5, <1>6 DEF IInv, session, inbox

LEMMA UiStep ==
  ASSUME IInv, startIo \/ IoRequested \/ removeAccount \/ Joined
  PROVE  IInv' /\ UNCHANGED stored
<1>0. IInv /\ Types
  BY DEF IInv
<1>1. CASE startIo
  <2>1. /\ UNCHANGED <<mailbox, session, configured, ioRequested, inbox, events, core,
                       shuttingDown, stored, keyed, workers, unlisted>>
        /\ ioStarted' = (ioStarted \/ configured) /\ ui = "startIo" /\ ui' \in {"free", "request"}
    BY <1>1 DEF startIo, Starts
  <2>2. (ioStarted \/ configured) \in BOOLEAN
    OBVIOUS
  <2>3. Types' /\ Drained' /\ Ready'
    BY <1>0, <2>1, <2>2 DEF IInv, Types, Drained, Ready, session, inbox, events
  <2> QED
    BY <1>0, <2>1, <2>3 DEF IInv, session, inbox
<1>2. CASE IoRequested
  BY <1>0, <1>2 DEF IoRequested, IInv, Types, Drained, Ready, session, inbox, events
<1>3. CASE removeAccount
  <2>1. (eventThreadStop \/ thread # "none") \in BOOLEAN
    OBVIOUS
  <2>2. /\ UNCHANGED <<mailbox, session, setup, inbox, lastEventId, thread, posted, core,
                       stored, keyed, workers, unlisted>>
        /\ shuttingDown' = TRUE /\ ui = "free" /\ ui' \in {"waiting", "joining"}
        /\ eventThreadStop' \in BOOLEAN
    BY <1>3, <2>1 DEF removeAccount, Stops
  <2>3. Types' /\ Drained' /\ Ready'
    BY <1>0, <2>2 DEF IInv, Types, Drained, Ready, session, setup, inbox
  <2> QED
    BY <1>0, <2>2, <2>3 DEF IInv, session, inbox
<1>4. CASE Joined
  BY <1>0, <1>4 DEF Joined, IInv, Types, Drained, Ready, session, setup, inbox
<1> QED
  BY <1>1, <1>2, <1>3, <1>4

LEMMA PurgeStep ==
  ASSUME IInv, purgeLocalData
  PROVE  IInv' /\ ui' # ui
<1>1. /\ ui = "waiting" /\ workers = <<>> /\ workers' = <<>> /\ core' = "freed" /\ ui' = "purged"
      /\ stored' = [l \in Labels |-> {}] /\ saved' = FALSE
      /\ UNCHANGED <<mailbox, loginFlow, api, setup, inbox, events, shuttingDown, keyed, unlisted>>
  BY DEF purgeLocalData, Waited
<1>2. Types'
  <2>1. saved' \in BOOLEAN /\ stored' \in [Labels -> SUBSET Msgs]
    BY <1>1
  <2> QED
    BY <1>1, <2>1 DEF IInv, Types, setup, inbox, events
<1>3. Drained' /\ Ready'
  BY <1>1 DEF IInv, Drained, Ready, setup
<1>4. AllKnow(workers', api', saved')
  BY <1>1 DEF AllKnow
<1> QED
  BY <1>1, <1>2, <1>3, <1>4 DEF IInv, inbox

LEMMA EventThreadStep ==
  ASSUME IInv, EventStep
  PROVE  IInv' /\ UNCHANGED stored
<1>1. /\ UNCHANGED <<mailbox, session, setup, inbox, teardown, stored, keyed, workers,
                     eventThreadStop, unlisted>>
      /\ lastEventId' \in {lastEventId, "latest"} /\ thread' \in {"ended", "inside", "idle"}
      /\ posted' \in BOOLEAN
  <2>1. (posted \/ Lists) \in BOOLEAN /\ posted \in BOOLEAN
    BY DEF IInv, Types
  <2> QED
    BY <2>1 DEF EventStep, ThreadEnters, FirstContact, Changed, NoEvent, ThreadStep, AfterCall
<1>2. Types'
  BY <1>1 DEF IInv, Types, session, setup, inbox, teardown
<1>3. Drained' /\ Ready'
  BY <1>1 DEF IInv, Drained, Ready, session, setup, teardown
<1> QED
  BY <1>1, <1>2, <1>3 DEF IInv, session, inbox

LEMMA ServerStep ==
  ASSUME IInv, NEW m \in Msgs, NEW to \in Labels \cup {Elsewhere}, MailMoves(m, to)
  PROVE  IInv' /\ UNCHANGED stored
<1>1. /\ mailbox' = [mailbox EXCEPT ![m] = to] /\ unlisted' \subseteq unlisted \cup {m}
      /\ lastEventId' \in {"none", "stale"}
      /\ UNCHANGED <<session, setup, inbox, thread, eventThreadStop, posted, teardown,
                     stored, keyed, workers>>
  BY DEF MailMoves
<1>2. Types'
  BY <1>1 DEF IInv, Types, session, setup, inbox, teardown
<1>3. Drained' /\ Ready'
  BY <1>1 DEF IInv, Drained, Ready, session, setup, teardown
<1> QED
  BY <1>1, <1>2, <1>3 DEF IInv, session, inbox

\* What a step may remove from the store.
OnlyGone ==
  ui' = ui => \A l \in Labels : \A m \in stored[l] \ stored'[l] :
                \E i \in DOMAIN workers : ListingEnds(i, l) /\ m \notin workers[i].there

LEMMA Steps ==
  ASSUME IInv, Next
  PROVE  IInv' /\ OnlyGone
<1>1. CASE startIo \/ IoRequested \/ removeAccount \/ Joined
  BY <1>1, UiStep DEF OnlyGone
<1>2. CASE \/ fetchConversations \/ (\E l \in Labels : fetchMessages(l))
           \/ (\E l \in Labels, m \in Msgs : fetchMessageBody(l, m)) \/ Deliver
  BY <1>2, SlotStep DEF OnlyGone
<1>3. CASE purgeLocalData
  BY <1>3, PurgeStep DEF OnlyGone
<1>4. CASE \E m \in Msgs, l \in Labels \cup {Elsewhere} : MailMoves(m, l)
  BY <1>4, ServerStep DEF OnlyGone
<1>5. CASE EventStep
  BY <1>5, EventThreadStep DEF OnlyGone
<1>6. ASSUME NEW i \in DOMAIN workers, WorkerStep(i)
      PROVE  IInv' /\ OnlyGone
  <2>1. CASE restore_session(i) \/ login(i) \/ submit_totp(i)
    <3>1. UNCHANGED stored
      BY <2>1 DEF restore_session, login, submit_totp, Enters
    <3> QED
      BY <2>1, <3>1, SignInStep DEF OnlyGone
  <2>2. CASE list_labels(i) \/ message_body(i) \/ get_attachment(i)
    <3>1. UNCHANGED stored
      BY <2>2 DEF list_labels, message_body, get_attachment, Enters
    <3> QED
      BY <2>2, <3>1, ReadStep DEF OnlyGone
  <2>3. CASE list_messages(i)
    <3>1. UNCHANGED stored
      BY <2>3 DEF list_messages, Enters
    <3> QED
      BY <2>3, <3>1, ListStep DEF OnlyGone
  <2>4. CASE SignedIn(i)
    BY <2>4, SignedInStep DEF OnlyGone
  <2>5. CASE configure(i) \/ ConfigureFails(i) \/ FetchFails(i) \/ AttachmentsFetched(i)
    BY <2>5, ConfigureStep DEF OnlyGone
  <2>6. CASE LabelsListed(i)
    BY <2>6, LabelsStep DEF OnlyGone
  <2>7. CASE MessagesListed(i)
    BY <2>7, ListedStep DEF OnlyGone
  <2>8. CASE persistMessage(i)
    BY <2>8, PersistStep DEF OnlyGone
  <2>9. CASE Refused(i)
    BY <2>9, RefusedStep DEF OnlyGone
  <2> QED
    BY <1>6, <2>1, <2>2, <2>3, <2>4, <2>5, <2>6, <2>7, <2>8, <2>9 DEF WorkerStep
<1> QED
  BY <1>1, <1>2, <1>3, <1>4, <1>5, <1>6 DEF Next

LEMMA Invariant == Spec => []IInv
<1>1. Init => IInv
  <2> SUFFICES ASSUME Init PROVE IInv
    OBVIOUS
  <2>1. AllKnow(workers, api, saved)
    <3>1. Call("restore_session", Inbox, {}) \in Queued
      BY NewCall, ProtonAssumption DEF Methods, SignIns
    <3>2. workers = <<Call("restore_session", Inbox, {})>>
      BY DEF Init
    <3> QED
      BY <3>1, <3>2 DEF AllKnow, Knows, Queued
  <2>2. Types /\ Drained /\ Ready
    BY DEF Init, Types, Drained, Ready
  <2> QED
    BY <2>1, <2>2 DEF Init, IInv
<1>2. IInv /\ UNCHANGED vars => IInv'
  <2> SUFFICES ASSUME IInv, UNCHANGED vars PROVE IInv'
    OBVIOUS
  <2>1. Types' /\ Drained' /\ Ready'
    BY DEF vars, session, setup, inbox, events, teardown, IInv, Types, Drained, Ready
  <2> QED
    BY <2>1 DEF vars, session, inbox, IInv
<1> QED
  BY <1>1, <1>2, Steps, PTL DEF Spec

-----------------------------------------------------------------------------
(* The theorems. *)

\* The workers are drained when the core goes; readiness is never told without a
\* session; the inbox counts as stored only with the key.
THEOREM TypeCorrect == Spec => []TypeOK
<1>1. IInv => TypeOK
  <2> SUFFICES ASSUME IInv PROVE TypeOK
    OBVIOUS
  <2>1. WorkersDrained /\ IoMeansSession
    BY DEF IInv, Drained, Ready, WorkersDrained, IoMeansSession
  <2>2. \A i \in DOMAIN workers : workers[i].msgs \subseteq Msgs /\ workers[i].there \subseteq Msgs
    <3>1. \A i \in DOMAIN workers : workers[i] \in Calls
      BY DEF IInv, AllKnow
    <3> QED
      BY <3>1 DEF Calls
  <2> QED
    BY <2>1, <2>2 DEF IInv, Types, TypeOK
<1> QED
  BY <1>1, Invariant, PTL

\* No listing, however stale when it is applied, removes a message that was under
\* the label when that listing was read, and no other call that ends removes any.
THEOREM OnlyGoneIsRemoved == Spec => RemovesOnlyGone
<1>1. IInv /\ Next => OnlyGone
  BY Steps
<1>2. IInv /\ UNCHANGED vars => OnlyGone
  BY DEF vars, OnlyGone
<1> QED
  BY <1>1, <1>2, Invariant, PTL DEF Spec, RemovesOnlyGone, OnlyGone

=============================================================================
