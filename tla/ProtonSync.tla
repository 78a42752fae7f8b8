----------------------------- MODULE ProtonSync -----------------------------
(***************************************************************************)
(* One ProtonBackend, its core and the Proton server: signing in, the calls  *)
(* on worker threads, the event thread, and the teardown that must outlast   *)
(* them all.                                                                 *)
(*                                                                          *)
(* A call is queued, enters the core, where it reads the server, and goes on *)
(* with its continuation on the same worker thread.  The UI thread runs the  *)
(* slots and is blocked during a teardown.  The store is, per label, the     *)
(* messages with a readable copy (module EmailStore has its inside); the     *)
(* attachments of a message are fetched by one call.                         *)
(*                                                                          *)
(* Left out: resetApp, after which the source itself asks for a restart;     *)
(* rotations, whose wipe is in module EmailStore; the retry of an empty      *)
(* label list, which list_labels never returns.                              *)
(***************************************************************************)
EXTENDS Naturals, Sequences, FiniteSets, SequencesExt, FiniteSetsExt

CONSTANTS
  Labels, Msgs, Inbox,
  MaxCalls        \* bound: calls in flight when a slot submits another; the user
                  \* leaves room for one that the event thread has posted

Elsewhere == "elsewhere"

ASSUME ProtonAssumption ==
  /\ Inbox \in Labels /\ Elsewhere \notin Labels /\ IsFiniteSet(Msgs)
  /\ MaxCalls \in Nat

VARIABLES
  mailbox,          \* server: message -> its label, or Elsewhere: not there yet, gone,
                    \* or in a label that nobody lists
  saved,            \* a session is on disk
  loginFlow, api,   \* CoreState: the open login flow, and is there an API session?
  lastEventId,      \* CoreState: "none", "latest", or "stale" once the server changed
  core,             \* m_core: "live", or "freed"
  stored,           \* label -> readable messages of the local store
  keyed,            \* m_key is set
  configured, ioRequested,
  ioStarted,        \* ioStarted(true) has been emitted
  inboxKnown,       \* m_inboxLocalId is set
  didInitialInboxStore, shuttingDown,
  thread, eventThreadStop,   \* the event thread: "none", "idle", "inside", "ended"
  workers,          \* calls in flight
  posted,           \* a listing of the inbox is posted to the UI thread
  ui,               \* the step of startIo or of the teardown, "free", or "purged"
  unlisted          \* ghost: reported arrivals that no listing of the inbox has read

session == <<saved, loginFlow, api>>
setup == <<configured, ioRequested, ioStarted>>
inbox == <<inboxKnown, didInitialInboxStore>>
events == <<lastEventId, thread, eventThreadStop, posted>>
teardown == <<core, shuttingDown, ui>>
vars == <<mailbox, session, setup, inbox, events, teardown, stored, keyed, workers, unlisted>>

Here(l) == {m \in Msgs : mailbox[m] = l}
StoredSomewhere == UNION {stored[l] : l \in Labels}

Call(method, l, m) ==
  [method |-> method, label |-> l, msgs |-> m,
   phase |-> "queued", reply |-> "", there |-> {}]

\* call: nothing starts once the backend is shutting down.
call(ws, calls) == IF shuttingDown THEN ws ELSE ws \o calls
Submit(method, l) == call(workers, <<Call(method, l, {})>>)

\* A backend that has been initialized, with or without the key, and
\* whose configure has been called; startIo comes next.
Init ==
  /\ mailbox = [m \in Msgs |-> Elsewhere]
  /\ saved \in BOOLEAN /\ loginFlow = "none" /\ api = FALSE /\ lastEventId = "none"
  /\ core = "live" /\ stored = [l \in Labels |-> {}] /\ keyed \in BOOLEAN
  /\ configured = FALSE /\ ioRequested = FALSE /\ ioStarted = FALSE
  /\ inboxKnown = FALSE /\ didInitialInboxStore = FALSE
  /\ shuttingDown = FALSE /\ thread = "none" /\ eventThreadStop = FALSE
  /\ workers = <<Call("restore_session", Inbox, {})>>
  /\ posted = FALSE /\ ui = "startIo" /\ unlisted = {}

-----------------------------------------------------------------------------
(* The UI thread.                                                            *)

\* startIo reports readiness, or leaves that to the sign-in.  Both sides test and
\* set plain members, so a sign-in that ends between the two steps of startIo
\* goes unnoticed.
StartsAtOnce == TRUE
Starts == configured
startIo ==
  /\ ui = "startIo"
  /\ ioStarted' = (ioStarted \/ Starts)
  /\ ui' = IF Starts THEN "free" ELSE "request"
  /\ UNCHANGED <<mailbox, session, configured, ioRequested, inbox, events, core,
                 shuttingDown, stored, keyed, workers, unlisted>>

IoRequested ==
  /\ ui = "request"
  /\ ioRequested' = TRUE /\ ui' = "free"
  /\ UNCHANGED <<mailbox, session, configured, ioStarted, inbox, events, core,
                 shuttingDown, stored, keyed, workers, unlisted>>

UserStep ==
  /\ ui = "free" /\ Len(workers) + 1 < MaxCalls
  /\ UNCHANGED <<mailbox, session, setup, inbox, events, teardown, stored, keyed, unlisted>>

fetchConversations ==
  UserStep /\ workers' = Submit("list_labels", Inbox)

\* A label is opened from the list of labels.
fetchMessages(l) ==
  UserStep /\ inboxKnown /\ workers' = Submit("list_messages", l)

\* A stored message answers at once and needs no step; one that is not stored,
\* or whose shard has no Content-Type, is fetched.
fetchMessageBody(l, m) ==
  /\ UserStep /\ inboxKnown
  /\ workers' = call(workers, <<Call("message_body", l, {m})>>)

\* The call the event thread has posted.
Deliver ==
  /\ ui = "free" /\ Len(workers) < MaxCalls /\ posted /\ posted' = FALSE
  /\ workers' = Submit("list_messages", Inbox)
  /\ UNCHANGED <<mailbox, session, setup, inbox, lastEventId, thread, eventThreadStop,
                 teardown, stored, keyed, unlisted>>

StopsNot == eventThreadStop
Stops == eventThreadStop \/ thread # "none"

\* shutdown, up to the join of the event thread or, when there is none to
\* join, up to the wait for the workers.
removeAccount ==
  /\ ui = "free"
  /\ shuttingDown' = TRUE
  /\ ui' = IF thread = "none" THEN "waiting" ELSE "joining"
  /\ eventThreadStop' = Stops
  /\ UNCHANGED <<mailbox, session, setup, inbox, lastEventId, thread, posted, core,
                 stored, keyed, workers, unlisted>>

Joined ==
  /\ ui = "joining" /\ thread = "ended"
  /\ thread' = "none" /\ ui' = "waiting"
  /\ UNCHANGED <<mailbox, session, setup, inbox, lastEventId, eventThreadStop, posted,
                 core, shuttingDown, stored, keyed, workers, unlisted>>

\* No worker is left: the core is freed, then purgeLocalData removes its
\* directory with the session and the store.
Waited == ui = "waiting" /\ workers = <<>>

purgeLocalData ==
  /\ Waited
  /\ core' = "freed" /\ ui' = "purged"
  /\ stored' = [l \in Labels |-> {}] /\ saved' = FALSE
  /\ UNCHANGED <<mailbox, loginFlow, api, setup, inbox, events, shuttingDown, keyed,
                 workers, unlisted>>

-----------------------------------------------------------------------------
(* The calls, inside the core.                                               *)

Enters(i, method) ==
  /\ workers[i].method = method /\ workers[i].phase = "queued" /\ ~shuttingDown
  /\ UNCHANGED <<mailbox, setup, inbox, events, teardown, stored, keyed>>

Reply(i, reply) == workers' = [workers EXCEPT ![i].phase = "inside", ![i].reply = reply]

\* A stored session gives the API session back without a password.  Reading it may
\* fail, and so may resuming it.
restore_session(i) ==
  /\ Enters(i, "restore_session")
  /\ \/ ~saved /\ Reply(i, "none") /\ UNCHANGED api
     \/ saved /\ Reply(i, "ok") /\ api' = TRUE
     \/ Reply(i, "err") /\ UNCHANGED api
  /\ UNCHANGED <<saved, loginFlow, unlisted>>

\* The completed flow has put the session on disk, also when building the API
\* session from it fails.
finish_login(i) ==
  /\ loginFlow' = "none" /\ saved' = TRUE
  /\ \/ Reply(i, "ok") /\ api' = TRUE
     \/ Reply(i, "err") /\ UNCHANGED api

login(i) ==
  /\ Enters(i, "login")
  /\ \/ Reply(i, "err") /\ UNCHANGED session
     \/ /\ loginFlow' \in {"totp", "mailbox_password"}
        /\ Reply(i, loginFlow') /\ UNCHANGED <<saved, api>>
     \/ finish_login(i)
  /\ UNCHANGED unlisted

submit_totp(i) ==
  /\ Enters(i, "submit_totp")
  /\ \/ Reply(i, "err") /\ UNCHANGED session
     \/ /\ loginFlow = "totp" /\ loginFlow' = "mailbox_password"
        /\ Reply(i, loginFlow') /\ UNCHANGED <<saved, api>>
     \/ loginFlow = "totp" /\ finish_login(i)
  /\ UNCHANGED unlisted

\* Any call may fail; without an API session it does.
Answer(i, replies) ==
  \/ Reply(i, "err")
  \/ api /\ \E reply \in replies : Reply(i, reply)

list_labels(i) ==
  /\ Enters(i, "list_labels") /\ Answer(i, {"ok"}) /\ UNCHANGED <<session, unlisted>>

\* Msgs are some of a label's messages; the others decide how long its listing
\* is: at most 20, at most 100, or more than the 100 a listing names.
list_messages(i) ==
  /\ Enters(i, "list_messages")
  /\ LET all == Here(workers[i].label) IN
     \/ Reply(i, "err") /\ UNCHANGED unlisted
     \/ /\ api
        /\ \E size \in {"short", "medium", "long"}, got \in SUBSET all :
             /\ size # "long" => got = all
             /\ workers' = [workers EXCEPT ![i].phase = "inside", ![i].reply = size,
                                           ![i].msgs = got, ![i].there = all]
        /\ unlisted' = IF workers[i].label = Inbox THEN unlisted \ all ELSE unlisted
  /\ UNCHANGED session

\* A body has a text, a text and attachments, or no text.
message_body(i) ==
  /\ Enters(i, "message_body") /\ Answer(i, {"text", "attached", "blank"})
  /\ UNCHANGED <<session, unlisted>>

get_attachment(i) ==
  /\ Enters(i, "get_attachment") /\ Answer(i, {"ok"})
  /\ UNCHANGED <<session, unlisted>>

-----------------------------------------------------------------------------
(* Their continuations, on the worker threads.                               *)

Returns(i, method, reply) ==
  /\ workers[i].method = method /\ workers[i].phase = "inside"
  /\ workers[i].reply = reply
  /\ UNCHANGED <<mailbox, session, lastEventId, posted, teardown, keyed,
                 unlisted>>

Rest(i) == RemoveAt(workers, i)
Submits(i, method) == workers' = call(Rest(i), <<Call(method, Inbox, {})>>)

startEventLoop ==
  /\ thread' = IF thread = "none" THEN "idle" ELSE thread
  /\ eventThreadStop' = (eventThreadStop /\ thread # "none")

\* The end of configure.  It does not ask whether the backend is shutting down.
SignedIn(i) ==
  /\ \E m \in {"restore_session", "login", "submit_totp"} : Returns(i, m, "ok")
  /\ configured' = TRUE
  /\ ioStarted' = (ioStarted \/ ioRequested) /\ ioRequested' = FALSE
  /\ startEventLoop
  /\ Submits(i, "list_labels")
  /\ UNCHANGED <<inbox, stored>>

\* configure goes on with the next call: a login where there was no session,
\* the code where the login asks for one and the user has given it.
configure(i) ==
  /\ \/ Returns(i, "restore_session", "none") /\ Submits(i, "login")
     \/ Returns(i, "login", "totp") /\ Submits(i, "submit_totp")
  /\ UNCHANGED <<setup, inbox, thread, eventThreadStop, stored>>

\* configure gives up: no code, two passwords, or an error.
ConfigureFails(i) ==
  /\ \/ Returns(i, "login", "totp")
     \/ \E m \in {"login", "submit_totp"} : Returns(i, m, "mailbox_password")
     \/ \E m \in {"restore_session", "login", "submit_totp"} : Returns(i, m, "err")
  /\ workers' = Rest(i)
  /\ UNCHANGED <<setup, inbox, thread, eventThreadStop, stored>>

Initial == didInitialInboxStore \/ keyed

\* The labels name the inbox; the first time they do, and the key is there, the
\* inbox is listed.
LabelsListed(i) ==
  /\ Returns(i, "list_labels", "ok")
  /\ inboxKnown' = TRUE
  /\ didInitialInboxStore' = Initial
  /\ IF keyed /\ ~didInitialInboxStore THEN Submits(i, "list_messages")
                                       ELSE workers' = Rest(i)
  /\ UNCHANGED <<setup, thread, eventThreadStop, stored>>

\* reconcileConversation, for a complete listing only.
ReconciledNever(w) == stored[w.label]
ReconciledAlways(w) == stored[w.label] \cap w.msgs
Reconciled(w) ==
  IF w.reply = "long" THEN stored[w.label] ELSE stored[w.label] \cap w.msgs

\* The bodies asked for: of the first 20 messages, those the store does not have
\* under any label.
Bodies(w, first, left) ==
  LET Body(m) == Call("message_body", w.label, {m})
      missing == SetToSeq(first \ left)
  IN  [k \in DOMAIN missing |-> Body(missing[k])]

MessagesListed(i) ==
  /\ \E size \in {"short", "medium", "long"} : Returns(i, "list_messages", size)
  /\ LET w == workers[i] IN
     IF keyed /\ ~shuttingDown
     THEN /\ stored' = [stored EXCEPT ![w.label] = Reconciled(w)]
          /\ \E first \in SUBSET w.msgs :
               /\ w.reply = "short" => first = w.msgs
               /\ workers' = Rest(i) \o
                     Bodies(w, first, UNION {stored'[l] : l \in Labels})
     ELSE workers' = Rest(i) /\ UNCHANGED stored
  /\ UNCHANGED <<setup, inbox, thread, eventThreadStop>>

\* The complete message is written, unless the teardown has begun.
storeMessage(w) ==
  stored' = IF shuttingDown THEN stored ELSE [stored EXCEPT ![w.label] = @ \cup w.msgs]

\* persistMessage: a body is kept only with the key and a text, and after its
\* attachments.
persistMessage(i) ==
  /\ \E body \in {"text", "attached", "blank"} : Returns(i, "message_body", body)
  /\ LET w == workers[i] IN
     IF ~keyed \/ w.reply = "blank" THEN workers' = Rest(i) /\ UNCHANGED stored
     ELSE IF w.reply = "text" THEN workers' = Rest(i) /\ storeMessage(w)
     ELSE /\ workers' = call(Rest(i), <<Call("get_attachment", w.label, w.msgs)>>)
          /\ UNCHANGED stored
  /\ UNCHANGED <<setup, inbox, thread, eventThreadStop>>

AttachmentsFetched(i) ==
  /\ Returns(i, "get_attachment", "ok")
  /\ workers' = Rest(i) /\ storeMessage(workers[i])
  /\ UNCHANGED <<setup, inbox, thread, eventThreadStop>>

\* A call that failed inside the core, or met the shutdown when its thread
\* started: at most an error is shown.
FetchFails(i) ==
  /\ \E m \in {"list_labels", "list_messages", "message_body", "get_attachment"} :
       Returns(i, m, "err")
  /\ workers' = Rest(i)
  /\ UNCHANGED <<setup, inbox, thread, eventThreadStop, stored>>

Refused(i) ==
  /\ workers[i].phase = "queued" /\ shuttingDown
  /\ workers' = Rest(i)
  /\ UNCHANGED <<mailbox, session, setup, inbox, events, teardown, stored, keyed, unlisted>>

-----------------------------------------------------------------------------
(* The event thread, and wait_event inside the core.                         *)

ThreadStep == UNCHANGED <<mailbox, session, setup, inbox, teardown, stored, keyed,
                          workers, eventThreadStop, unlisted>>

\* A core that is gone answers at once with an error and changes nothing.
ThreadEnters ==
  /\ thread = "idle" /\ core = "live"
  /\ thread' = IF eventThreadStop THEN "ended" ELSE "inside"
  /\ UNCHANGED <<lastEventId, posted>> /\ ThreadStep

AfterCall == IF eventThreadStop THEN "ended" ELSE "idle"

\* The first contact records where the server is, and reports nothing.
FirstContact ==
  /\ thread = "inside" /\ api /\ lastEventId = "none"
  /\ lastEventId' = "latest" /\ thread' = AfterCall
  /\ UNCHANGED posted /\ ThreadStep

\* A change: the inbox is to be listed, if it is known and can be stored.
ListsOnce == inboxKnown /\ keyed /\ ~eventThreadStop /\ ~didInitialInboxStore
Lists == inboxKnown /\ keyed /\ ~eventThreadStop
Changed ==
  /\ thread = "inside" /\ api /\ lastEventId = "stale"
  /\ lastEventId' = "latest" /\ thread' = AfterCall
  /\ posted' = (posted \/ Lists) /\ ThreadStep

\* The 2 s are over without a change, or the call failed.
NoEvent ==
  /\ thread = "inside"
  /\ thread' = AfterCall
  /\ UNCHANGED <<lastEventId, posted>> /\ ThreadStep

-----------------------------------------------------------------------------
(* The server.  During a teardown no call reads it any more.                 *)

MailMoves(m, to) ==
  /\ ~shuttingDown /\ mailbox[m] # to
  /\ mailbox' = [mailbox EXCEPT ![m] = to]
  /\ unlisted' = IF to = Inbox /\ lastEventId # "none" THEN unlisted \cup {m}
                                                      ELSE unlisted \ {m}
  /\ lastEventId' = IF lastEventId = "none" THEN "none" ELSE "stale"
  /\ UNCHANGED <<session, setup, inbox, thread, eventThreadStop, posted, teardown,
                 stored, keyed, workers>>

-----------------------------------------------------------------------------
WorkerStep(i) ==
  \/ restore_session(i) \/ login(i) \/ submit_totp(i)
  \/ list_labels(i) \/ list_messages(i) \/ message_body(i) \/ get_attachment(i)
  \/ SignedIn(i) \/ configure(i) \/ ConfigureFails(i)
  \/ LabelsListed(i) \/ MessagesListed(i) \/ persistMessage(i)
  \/ AttachmentsFetched(i) \/ FetchFails(i) \/ Refused(i)

EventStep == ThreadEnters \/ FirstContact \/ Changed \/ NoEvent

Next ==
  \/ startIo \/ IoRequested \/ fetchConversations
  \/ \E l \in Labels : fetchMessages(l)
  \/ \E l \in Labels, m \in Msgs : fetchMessageBody(l, m)
  \/ \E m \in Msgs, l \in Labels \cup {Elsewhere} : MailMoves(m, l)
  \/ Deliver \/ removeAccount \/ Joined \/ purgeLocalData
  \/ \E i \in DOMAIN workers : WorkerStep(i)
  \/ EventStep

Spec == Init /\ [][Next]_vars

\* Calls end (the transport's timeouts) and their threads run, so that the oldest
\* call is always on its way out; the event thread runs, the event loop delivers,
\* and a slot that waits goes on.
FairSpec ==
  /\ Spec
  /\ WF_vars(workers # <<>> /\ WorkerStep(1))
  /\ WF_vars(EventStep) /\ WF_vars(Deliver)
  /\ SF_vars(FirstContact) /\ SF_vars(Changed)
  /\ WF_vars(startIo \/ IoRequested \/ Joined \/ purgeLocalData)

-----------------------------------------------------------------------------
(* Properties.                                                              *)

\* "shutdown() drains them before freeing the core": no worker is left when the
\* core goes, however many calls the last continuations still submit.
WorkersDrained == core = "freed" => workers = <<>>

\* "ioStarted reports SESSION readiness": whatever the order of startIo and
\* the sign-in, it is never told without an API session, on which the
\* add flow relies for its proof of the credentials.
IoMeansSession == ioStarted => api /\ (saved \/ ui = "purged")

\* Every variable keeps its type; the inbox counts as stored only with the key;
\* readiness and teardown are as stated above.
TypeOK ==
  /\ WorkersDrained /\ IoMeansSession
  /\ didInitialInboxStore => inboxKnown /\ keyed
  /\ loginFlow \in {"none", "totp", "mailbox_password"}
  /\ lastEventId \in {"none", "latest", "stale"}
  /\ core \in {"live", "freed"} /\ thread \in {"none", "idle", "inside", "ended"}
  /\ ui \in {"startIo", "request", "free", "joining", "waiting", "purged"}
  /\ {saved, api, keyed, configured, ioRequested, ioStarted, inboxKnown,
      didInitialInboxStore, shuttingDown, eventThreadStop, posted} \subseteq BOOLEAN
  /\ \A l \in Labels : stored[l] \subseteq Msgs
  /\ unlisted \subseteq Msgs
  /\ \A i \in DOMAIN workers :
       workers[i].msgs \subseteq Msgs /\ workers[i].there \subseteq Msgs

\* "nothing captures a live this/m_core past teardown": no thread, the event
\* thread included, is inside a core that has been freed.
NothingPastTeardown ==
  core = "freed" => /\ thread # "inside"
                    /\ \A i \in DOMAIN workers : workers[i].phase # "inside"

\* The listing of a label whose call ends in this step, read but not refused.
ListingEnds(i, l) ==
  /\ workers[i].method = "list_messages" /\ workers[i].label = l
  /\ workers[i].phase = "inside" /\ workers[i].reply # "err"
  /\ IsPrefix(Rest(i), workers')

\* Only a listing of the label removes a message from it, and only one which the
\* server did not have there when that very listing was read: a truncated one, whose
\* rest is on later pages, removes nothing, whatever other calls are in flight.
RemovesOnlyGone ==
  [][ ui' = ui =>
      \A l \in Labels : \A m \in stored[l] \ stored'[l] :
        \E i \in DOMAIN workers : ListingEnds(i, l) /\ m \notin workers[i].there ]_vars

\* No call fails, every message has a text, no listing exceeds 20 messages.
Reliable ==
  \A i \in DOMAIN workers : workers[i].reply \notin {"err", "blank", "medium", "long"}

\* If no call fails and the key is there, mail that arrives after the first
\* contact gets listed without the user: an event that comes before the labels do
\* is made up for by the initial listing.
PushLists ==
  [](keyed /\ Reliable) =>
    \A m \in Msgs : m \in unlisted /\ inboxKnown ~> m \notin unlisted \/ shuttingDown

\* The inbox has the messages S, and a message is fetched only for its label: the
\* user no longer opens one that has gone from it.
AtRest(S) ==
  /\ Here(Inbox) = S /\ Reliable /\ keyed /\ ~shuttingDown
  /\ \A i \in DOMAIN workers :
       workers[i].method \in {"message_body", "get_attachment"}
       => workers[i].msgs \subseteq Here(workers[i].label)

Listing(l) ==
  \E i \in DOMAIN workers : /\ workers[i].method = "list_messages"
                            /\ workers[i].label = l /\ workers[i].phase = "queued"

\* Whatever stale listings, late bodies, and moves between labels left behind, an
\* inbox at rest that is listed again and again comes to hold none but its messages,
\* each of which is stored, there or under a label it has moved from: the fetch passes
\* over it then.  The inbox holds them all if every label is listed again and again.
RelistingCatchesUp ==
  \A S \in SUBSET Msgs :
    <>[]AtRest(S) /\ []<>Listing(Inbox) =>
      /\ <>[](stored[Inbox] \subseteq S /\ S \subseteq StoredSomewhere)
      /\ (\A l \in Labels \ {Inbox} : []<>Listing(l)) => <>[](stored[Inbox] = S)

\* A teardown ends: the UI thread does not wait for ever for the event thread or
\* for workers that submit further calls.
TeardownEnds == shuttingDown ~> ui = "purged"
=============================================================================
