------------------------------ MODULE DeltaChat ------------------------------
(***************************************************************************)
(* DeltaChatBackend: JSON-RPC calls to a deltachat-rpc-server process, and   *)
(* the chains of continuations that the responses run.  Everything of the    *)
(* program runs on the UI thread; the server works on all calls at once and   *)
(* answers them in any order, with a result or with an error, and may end.    *)
(*                                                                          *)
(* A call is pending from writeRequest until its response is read; the       *)
(* effect on the server is taken to happen at that moment.  What the chain of *)
(* a call does next is a function from the members of the backend (the       *)
(* record self) to their next values, which collects new calls in asks.      *)
(* Of the signals the model keeps what they do to others: who still waits for *)
(* an answer (owed), and what becomes of the attempt or account (role).       *)
(***************************************************************************)
EXTENDS Integers, FiniteSets

CONSTANTS
  Starts,      \* the situations to consider, one per behaviour: how the backend is
               \* created, what the user asks for, what happens in the chats, and
               \* bounds on refused calls, on resets of the app, and on the calls
               \* pending when the user asks for, or the server reports, something
  Chats,       \* chat ids
  Messages     \* messages that may arrive

Requests == {"convs", "msgs", "body", "save", "send"}
Owed == Requests \cup {"setup", "apply", "backup"}
Events == Messages \cup {"MsgsChanged", "ChatModified"}

ASSUME DeltaChatAssumption ==
  /\ \A s \in Starts : /\ s.role \in {"attempt", "account"} /\ s.qr \in BOOLEAN
                       /\ s.store \in {"empty", "account", "configured"}
                       /\ s.asks \subseteq Requests \cup {"apply", "backup"}
                       /\ s.events \subseteq Events /\ {s.faults, s.resets, s.calls} \subseteq Nat
  /\ Messages \cap {"MsgsChanged", "ChatModified"} = {}

VARIABLES
  start,    \* the situation
  store,    \* directory -> what the server persists there
  server,   \* "up", "ending" (terminated, still read from) or "down"
  self,     \* the members of the backend, and what it owes to others
  pending,  \* m_pending, but for promises whose process has gone
  events,   \* events the server has not handed out
  faults, resets,
  carried   \* ghost: what outlived the process it belonged to

vars == <<start, store, server, self, pending, events, faults, resets, carried>>

\* A promise: the step of the chain that waits for it, for whom, whether the
\* account id was known, and what it is about; n tells equal calls apart.
Call(step, by, acct, about) ==
  [step |-> step, by |-> by, acct |-> acct, about |-> about]
Ask(s, step, by, about) ==
  [s EXCEPT !.asks = @ \cup {Call(step, by, s.accountId, about)}]

Numbered(c, n) == [step |-> c.step, by |-> c.by, acct |-> c.acct,
                   about |-> c.about, n |-> n]
FreeNumber(c) ==
  CHOOSE n \in 0..Cardinality(pending) :
    /\ Numbered(c, n) \notin pending
    /\ \A k \in 0..n - 1 : Numbered(c, k) \in pending
Written(calls) == {Numbered(c, FreeNumber(c)) : c \in calls}

\* initialize: the directory and the QR code are taken from the parameters, the
\* server is started and asked for its accounts; no other member is touched.
Initialized(s, dir, qr) ==
  Ask([s EXCEPT !.dir = dir, !.qr = qr], "ids", "setup", {})

Created ==
  Initialized([dir |-> "own", qr |-> FALSE, accountId |-> FALSE, addr |-> FALSE,
               ioRequested |-> start.role = "attempt", pumpRunning |-> FALSE,
               spoilt |-> FALSE, retries |-> 0, startIoSoon |-> FALSE,
               role |-> start.role, ui |-> "free",
               owed |-> {"setup"}, asks |-> {}], "own", start.qr)

\* addAccount creates the backend and calls startIo in one slot; a persisted
\* account is only initialized.
Init ==
  /\ start \in Starts
  /\ store = [own |-> start.store, default |-> "empty"]
  /\ server = "up"
  /\ self = [Created EXCEPT !.asks = {}]
  /\ pending = {Numbered(c, 0) : c \in Created.asks}
  /\ events = {} /\ faults = 0 /\ resets = 0 /\ carried = {}

-----------------------------------------------------------------------------
(* What the controller makes of a signal.                                    *)

Answered(s, by) == [s EXCEPT !.owed = @ \ {by}]

\* ioStarted(true) resolves an attempt; ioStarted(false), configured(false) end it.
ioStarted(s, by) ==
  Answered([s EXCEPT !.role = IF @ = "attempt" THEN "account" ELSE @], by)
attemptFailed(s, by) ==
  Answered([s EXCEPT !.role = IF @ = "attempt" THEN "failed" ELSE @], by)

-----------------------------------------------------------------------------
(* The chains: what runs when the response of a step has been read.          *)

startIo(s) == IF s.accountId THEN Ask(s, "startIo", "setup", {})
                             ELSE [s EXCEPT !.ioRequested = TRUE]

pumpEvents(s) == Ask(s, "batch", "pump", {})
startEventPump(s) ==
  IF s.pumpRunning THEN s ELSE pumpEvents([s EXCEPT !.pumpRunning = TRUE])

setupFromQr(s, by) == Ask(s, "apply", by, {})
fetchConversations(s, by) == Ask(s, "convs", by, {})
fetchMessages(s, by) == Ask(s, "msgs", by, {})
refreshConversationRow(s) == Ask(s, "row", "self", {})

\* The account is selected: a startIo that came before its id may fire now, when
\* no QR code is going to start it.
SelectedAnyway(s) ==
  IF s.ioRequested
  THEN Ask([s EXCEPT !.ioRequested = FALSE, !.startIoSoon = TRUE],
           "isConfigured", "setup", {})
  ELSE Ask(s, "isConfigured", "setup", {})
Selected(s) ==
  LET fires == s.ioRequested /\ ~s.qr
  IN Ask([s EXCEPT !.ioRequested = @ /\ ~fires, !.startIoSoon = @ \/ fires],
         "isConfigured", "setup", {})

\* is_configured: the pump starts in any case.
ConfiguredSo(s, configured) ==
  LET r == startEventPump(s) IN
  IF configured THEN Ask(r, "identity", "setup", {})
  ELSE IF s.qr THEN setupFromQr(r, "setup")
  ELSE Answered(r, "setup")

\* A batch of events; the next one is asked for at once.
handleEvents(s, batch) ==
  LET r == [s EXCEPT !.asks = @ \cup
              {Call("arrived", "self", s.accountId, {m}) : m \in batch \cap Messages}]
  IN IF "ChatModified" \in batch THEN refreshConversationRow(r) ELSE r
BatchReadOnce(s, batch) == handleEvents(s, batch)
BatchRead(s, batch) == pumpEvents(handleEvents(s, batch))

\* The chain of initialize: the first account is selected or one is added, then
\* its identity is learnt and it goes online.
InitializeStep(s, c, got) ==
  CASE c.step = "ids" /\ got = {} -> Ask(s, "add", "setup", {})
    [] c.step = "add" \/ (c.step = "ids" /\ got # {}) ->
         Ask([s EXCEPT !.accountId = TRUE], "select", "setup", {})
    [] c.step = "select" -> Selected(s)
    [] c.step = "isConfigured" -> ConfiguredSo(s, got # {})
    [] c.step = "identity" -> startIo(Answered([s EXCEPT !.addr = TRUE], "setup"))

\* The chains of setupFromQr and getBackupFromQr.
SetupStep(s, c) ==
  CASE c.step = "apply" -> Ask(s, "configure", c.by, {})
    [] c.step = "configure" -> Ask(s, "learn", c.by, {})
    [] c.step = "learn" -> Ask([s EXCEPT !.addr = TRUE], "start", c.by, {})
    [] c.step = "backup" -> Ask(s, "start", c.by, {})
    [] c.step = "start" -> ioStarted(s, c.by)

\* Details of the listed chats are fetched in parallel, as one entry that
\* stands for a promise per chat; nothing to list is answered at once.
Listed(s, c, chats) ==
  IF chats = {} THEN Answered(s, c.by) ELSE Ask(s, "details", c.by, chats)

\* The messages of a chat; an empty one is answered at once, and seen messages
\* are marked afterwards, which lists the chats again.
MessagesStep(s, c, got) ==
  CASE c.step = "msgs" /\ got = {} -> Answered(s, c.by)
    [] c.step = "msgs" /\ got # {} -> Ask(s, "texts", c.by, {})
    [] c.step = "texts" -> Ask(Answered(s, c.by), "seen", "self", {})
    [] c.step = "seen" -> fetchConversations(s, "self")

\* A sent message is fetched with the rest of its chat.
Sent(s) == fetchMessages(Answered(s, "send"), "self")

\* A message that is gone by now is not told.
Arrived(s, got) == IF got = {} THEN s ELSE refreshConversationRow(s)

\* A response with a result, got being what it holds where that matters.
Result(s, c, got) ==
  CASE c.step \in {"ids", "add", "select", "isConfigured", "identity"} ->
         InitializeStep(s, c, got)
    [] c.step \in {"apply", "configure", "learn", "backup", "start"} -> SetupStep(s, c)
    [] c.step = "startIo" -> ioStarted(s, c.by)
    [] c.step = "convs" -> Listed(s, c, got)
    [] c.step \in {"msgs", "texts", "seen"} -> MessagesStep(s, c, got)
    [] c.step = "send" -> Sent(s)
    [] c.step \in {"body", "save"} -> Answered(s, c.by)
    [] c.step = "batch" -> BatchRead(s, got)
    [] c.step = "arrived" -> Arrived(s, got)
    [] c.step \in {"row", "stopIo"} -> s

\* The steps of a set-up chain report a failure as configured(false), a plain
\* startIo as ioStarted(false), the pump by its retry, all others as an error.
FailedQuietly(s, c) ==
  IF c.step = "batch" THEN [s EXCEPT !.retries = @ + 1]
  ELSE IF c.step \in {"apply", "configure", "learn", "backup", "start"} THEN s
  ELSE Answered(s, c.by)
FailedNoRetry(s, c) ==
  IF c.step \in {"apply", "configure", "learn", "backup", "start", "startIo"}
  THEN attemptFailed(s, c.by) ELSE Answered(s, c.by)
Failed(s, c) ==
  CASE c.step \in {"apply", "configure", "learn", "backup", "start", "startIo"} ->
         attemptFailed(s, c.by)
    [] c.step = "batch" -> [s EXCEPT !.retries = @ + 1]
    [] OTHER -> Answered(s, c.by)

-----------------------------------------------------------------------------
(* The server.                                                               *)

AccountSteps == {"start", "startIo", "select", "isConfigured", "identity", "apply",
                 "configure", "learn", "backup", "convs", "details", "msgs", "texts",
                 "seen", "send", "body", "save", "arrived", "row", "stopIo"}

\* What a response may hold: the accounts, whether this one is configured, some
\* of the chats or messages, all events so far.
Holds(c) ==
  CASE c.step = "ids" -> {IF store[self.dir] = "empty" THEN {} ELSE {1}}
    [] c.step = "isConfigured" -> {IF store[self.dir] = "configured" THEN {1} ELSE {}}
    [] c.step = "convs" -> SUBSET Chats
    [] c.step \in {"msgs", "arrived"} -> {{}, {1}}
    [] c.step = "batch" -> {events} \ {{}}
    [] OTHER -> {{}}

Does(c) ==
  CASE c.step = "add" -> "account"
    [] c.step \in {"configure", "backup"} -> "configured"
    [] OTHER -> store[self.dir]

\* A step of the backend: its new calls are written to the server, where one
\* that has been told to end does not answer any more.
BecomesPending(s, rest) ==
  /\ self' = [s EXCEPT !.asks = {}]
  /\ pending' = rest \cup Written(s.asks)
Becomes(s, rest) ==
  /\ self' = [s EXCEPT !.asks = {}]
  /\ pending' = rest \cup IF server = "up" THEN Written(s.asks) ELSE {}

\* onReadyRead: a line with the result of c.  The first line of a process that
\* was started over the unread half of its predecessor's last does not parse.
onReadyRead(c) ==
  /\ server # "down" /\ ~self.spoilt /\ c.step # "details"
  /\ c.step \in AccountSteps => c.acct
  /\ \E got \in Holds(c) :
       /\ Becomes(Result(self, c, got), pending \ {c})
       /\ events' = IF c.step = "batch" THEN {} ELSE events
  /\ store' = [store EXCEPT ![self.dir] = Does(c)]
  /\ UNCHANGED <<start, server, faults, resets, carried>>

\* A line with an error: unavoidable without an account, possible with an id that
\* is another store's.
Refusal(c) ==
  IF c.step \in AccountSteps /\ (~c.acct \/ resets > 0)
  THEN UNCHANGED faults ELSE faults < start.faults /\ faults' = faults + 1

RpcError(c) ==
  /\ server # "down" /\ ~self.spoilt /\ c.step # "details"
  /\ Refusal(c)
  /\ Becomes(Failed(self, c), pending \ {c})
  /\ UNCHANGED <<start, store, server, events, resets, carried>>

\* whenAll: the listing goes on when the last detail is there; a result that is
\* an error makes the whole listing one.
DetailRead(c, chat) ==
  /\ server # "down" /\ ~self.spoilt /\ c.step = "details" /\ chat \in c.about
  /\ UNCHANGED faults \/ Refusal(c)
  /\ LET rest == [c EXCEPT !.about = @ \ {chat}] IN
     IF rest.about = {} THEN Becomes(Answered(self, c.by), pending \ {c})
     ELSE Becomes(Ask(self, "details", c.by, rest.about), pending \ {c})
  /\ UNCHANGED <<start, store, server, events, resets, carried>>

LineSpoilt(c) ==
  /\ server # "down" /\ self.spoilt
  /\ self' = [self EXCEPT !.spoilt = FALSE] /\ pending' = pending \ {c}
  /\ UNCHANGED <<start, store, server, events, faults, resets, carried>>

Respond(c) ==
  \/ onReadyRead(c) \/ RpcError(c) \/ LineSpoilt(c)
  \/ \E chat \in c.about : DetailRead(c, chat)

\* The process ends by itself; onProcessError tells, and no promise is resolved.
ServerDies ==
  /\ server = "up" /\ self.ui = "free"
  /\ server' = "down" /\ pending' = {} /\ events' = {}
  /\ \E half \in {FALSE, pending # {}} : self' = [self EXCEPT !.spoilt = half]
  /\ UNCHANGED <<start, store, faults, resets, carried>>

\* Events of the chats; a message that is still to be fetched is not sent again.
Unheard(e) == \/ e \in events
              \/ \E c \in pending : c.step = "arrived" /\ e \in c.about

Happens(e) ==
  /\ server = "up" /\ store[self.dir] = "configured" /\ Cardinality(pending) <= start.calls
  /\ ~Unheard(e) /\ events' = events \cup {e}
  /\ UNCHANGED <<start, store, server, self, pending, faults, resets, carried>>

-----------------------------------------------------------------------------
(* The user, the controller and the timers; all wait while a slot runs.      *)

Free == self.ui = "free"
Room == Cardinality(pending) <= start.calls

Slot(s) ==
  /\ Free /\ Becomes(s, pending)
  /\ UNCHANGED <<start, store, server, events, faults, resets, carried>>

\* What a user asks for, one request of a kind at a time.
Request(kind) ==
  /\ self.role = "account" /\ Room /\ kind \notin self.owed
  /\ Slot(Ask([self EXCEPT !.owed = @ \cup {kind}], kind, kind, {}))

\* The QR slots of the controller, on a registered account.
SetUpAgain(step) ==
  /\ self.role = "account" /\ Room /\ step \notin self.owed
  /\ Slot(Ask([self EXCEPT !.owed = @ \cup {step}], step, step, {}))

StartIoFires == self.startIoSoon /\ Slot(startIo([self EXCEPT !.startIoSoon = FALSE]))

RetryFires ==
  /\ self.retries > 0
  /\ LET s == [self EXCEPT !.retries = @ - 1]
     IN Slot(IF s.pumpRunning THEN pumpEvents(s) ELSE s)

\* Failed, or not resolved within 90 s: the controller deletes the backend.
Discard ==
  /\ Free /\ self.role \in {"attempt", "failed"}
  /\ self' = [self EXCEPT !.role = "gone", !.ui = "gone", !.pumpRunning = FALSE]
  /\ server' = "down" /\ pending' = {} /\ events' = {}
  /\ UNCHANGED <<start, store, faults, resets, carried>>

\* shutdown: the process is told to end, and what it still says is read.
shutdown(s, then) ==
  /\ Free /\ self.role = "account"
  /\ Becomes([s EXCEPT !.ui = then, !.pumpRunning = FALSE], pending)
  /\ server' = IF server = "up" THEN "ending" ELSE server

\* removeAccount calls stopIo before it shuts the backend down.
stopIo(s) == Ask(s, "stopIo", "self", {})
removeAccount ==
  /\ shutdown(stopIo(self), "removing")
  /\ UNCHANGED <<start, store, events, faults, resets, carried>>

purgeLocalData ==
  /\ self.ui = "removing"
  /\ self' = [self EXCEPT !.role = "gone", !.ui = "gone"]
  /\ store' = [store EXCEPT ![self.dir] = "empty"]
  /\ server' = "down" /\ pending' = {} /\ events' = {}
  /\ UNCHANGED <<start, faults, resets, carried>>

resetApp ==
  /\ resets < start.resets /\ resets' = resets + 1
  /\ shutdown(self, "resetting")
  /\ UNCHANGED <<start, store, events, faults, carried>>

\* What a reset leaves to the next process: a retry timer or a running pump of the
\* last one, or half a line.
Carried(s) ==
  {x \in {"retry", "pump", "line"} :
     CASE x = "retry" -> s.retries > 0
       [] x = "pump" -> s.pumpRunning
       [] x = "line" -> s.spoilt}

\* initialize without parameters, then a listing; the start may fail.
Reinitialized ==
  /\ self.ui = "resetting"
  /\ \E half \in {self.spoilt, pending # {}}, starts \in BOOLEAN :
       LET s == fetchConversations(
                  Initialized([self EXCEPT !.ui = "free", !.owed = {"setup"},
                                           !.spoilt = half], "default", FALSE), "self")
       IN /\ self' = [s EXCEPT !.asks = {}]
          /\ server' = IF starts THEN "up" ELSE "down"
          /\ pending' = IF starts THEN {Numbered(c, 0) : c \in s.asks} ELSE {}
          /\ carried' = carried \cup Carried(s)
  /\ events' = {}
  /\ UNCHANGED <<start, store, faults, resets>>

Next ==
  \/ \E c \in pending : Respond(c)
  \/ ServerDies
  \/ \E e \in start.events : Happens(e)
  \/ \E kind \in start.asks \cap Requests : Request(kind)
  \/ \E step \in start.asks \ Requests : SetUpAgain(step)
  \/ StartIoFires \/ RetryFires
  \/ Discard \/ removeAccount \/ purgeLocalData \/ resetApp \/ Reinitialized

Spec == Init /\ [][Next]_vars

\* Fairness: the server answers every call, with a result or an error, and the
\* event loop reads it; timers fire and shutdowns end.  The 90 s timer of an
\* attempt is not counted on.
SelfSteps == {"convs", "details", "msgs", "texts", "seen", "arrived", "row", "stopIo"}
FairSpec ==
  /\ Spec
  /\ \A by \in Owed \cup {"pump"} : WF_vars(\E c \in pending : c.by = by /\ Respond(c))
  /\ \A k \in SelfSteps :
       WF_vars(\E c \in pending : c.by = "self" /\ c.step = k /\ Respond(c))
  /\ WF_vars(StartIoFires) /\ WF_vars(RetryFires)
  /\ WF_vars(purgeLocalData) /\ WF_vars(Reinitialized)

-----------------------------------------------------------------------------
(* Properties.                                                              *)

\* Every variable keeps its type.
TypeOK ==
  /\ \A d \in {"own", "default"} : store[d] \in {"empty", "account", "configured"}
  /\ server \in {"up", "ending", "down"} /\ events \subseteq Events
  /\ self.role \in {"attempt", "account", "failed", "gone"} /\ self.asks = {}
  /\ self.ui \in {"free", "removing", "resetting", "gone"}
  /\ self.owed \subseteq Owed
  /\ server = "down" => pending = {} /\ events = {}

\* "Prefer the backend-reported identity": an attempt made with a QR code becomes an
\* account only when the server has configured it and its address is known;
\* else accounts would register as "deltachat#deltachat" and collide.
RegisteredByIdentity ==
  [][ self.role = "attempt" /\ self'.role = "account" /\ start.qr
      => self'.addr /\ store[self.dir] = "configured" ]_vars

\* "One consumer per server process": from the time the pump runs there is one
\* outstanding batch call or one retry timer, never two and never none, however
\* batches fail.  What a reset carried over may break this.
Consumers == Cardinality({c \in pending : c.step = "batch"}) + self.retries
OneConsumer ==
  server = "up" /\ Free /\ carried = {} /\ self.pumpRunning => Consumers = 1

\* Every request, and the set-up, is answered or refused, while the process
\* lives: promises are matched by id, whatever the order of the responses.
RequestsAnswered ==
  \A by \in Owed :
    by \in self.owed /\ carried = {} ~> by \notin self.owed \/ server # "up"

\* Once the pump runs, every event is handed out and every arrived message
\* fetched, although batches may fail, until the process ends.
EventsHeard ==
  \A e \in Events :
    Unheard(e) /\ self.pumpRunning /\ carried = {} ~> ~Unheard(e) \/ server # "up"
=============================================================================
