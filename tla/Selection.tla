----------------------------- MODULE Selection -----------------------------
(***************************************************************************)
(* What AccountController shows: the active account, conversation and       *)
(* message, the lists behind them, and the answers of the backends that      *)
(* keep arriving while the user moves on.  The controller runs on the UI    *)
(* thread, so a slot is one action; a backend reads its store on a worker    *)
(* thread (Work) and its signal is delivered later (Deliver), in any order   *)
(* relative to other signals.                                               *)
(*                                                                          *)
(* A conversation is <<account, folder>>: the compound id.  Accounts and     *)
(* folders are numbers, which gives QMap's and the folder list's order.      *)
(* The controller's members are the fields of the record ui; a slot is a     *)
(* function from that record to the next one.                               *)
(***************************************************************************)
EXTENDS Integers, FiniteSets, SequencesExt

CONSTANTS
  Conversations,        \* compound ids that may exist
  Messages,             \* message ids; accounts may hold the same one
  Chat, Polling,        \* accounts of family "chat"; accounts that poll
  kMaxEmptyRefetches,
  Scenarios             \* the situations to consider, one per behaviour: the
                        \* conversations and messages there are, whether the user
                        \* opens messages (those the stores hold from the start,
                        \* which then stay as they are), whether
                        \* accounts are removed and the app is reset, whether slots
                        \* are called with ids that no view shows, and a bound on the
                        \* calls in flight when the user or a server acts

AccountIds == {c[1] : c \in Conversations}
Inbox == 1
NoAccount == 0
NoConv == <<0, 0>>
NoMsg == "none"
Unknown == "unknown"   \* an id no backend holds, which the IPC slot accepts too
NoBody == <<NoAccount, NoMsg>>
NoPane == [msg |-> NoMsg, body |-> NoBody]

ASSUME SelectionAssumption ==
  /\ Conversations \subseteq (Nat \ {0}) \X (Nat \ {0})
  /\ {NoMsg, Unknown} \cap Messages = {}
  /\ Chat \cup Polling \subseteq AccountIds /\ Chat \cap Polling = {}
  /\ kMaxEmptyRefetches \in Nat
  /\ \A s \in Scenarios : /\ s.convs \subseteq Conversations /\ s.msgs \subseteq Messages
                          /\ {s.reading, s.removing, s.anyId} \subseteq BOOLEAN
                          /\ s.inFlight \in Nat

VARIABLES
  scenario,  \* the situation
  store,     \* conversation -> the messages its backend holds for it
  folders,   \* account -> its conversations in the backend's own list
  ui,        \* the controller
  asked,     \* calls a backend has accepted and not looked at yet
  answers    \* signals emitted or posted and not delivered yet

vars == <<scenario, store, folders, ui, asked, answers>>

ConvsOf(a) == {c \in Conversations : c[1] = a}
Registered(s) == ToSet(s.accounts)
First(S) == CHOOSE c \in S : \A d \in S : c[1] < d[1] \/ (c[1] = d[1] /\ c[2] <= d[2])

\* The conversation named INBOX, else the first one.
Pick(S) == LET inboxes == {c \in S : c[2] = Inbox}
           IN IF inboxes # {} THEN First(inboxes) ELSE First(S)

AskConvs(a) == [kind |-> "convs", account |-> a]
AskMsgs(c) == [kind |-> "msgs", conv |-> c]
AskRow(c) == [kind |-> "row", conv |-> c]
AskBody(c, m) == [kind |-> "body", conv |-> c, msg |-> m]

Init ==
  /\ scenario \in Scenarios
  /\ LET kept == IF scenario.reading THEN scenario.convs ELSE {} IN
       /\ store = [c \in Conversations |-> IF c \in kept THEN scenario.msgs ELSE {}]
       /\ folders = [a \in AccountIds |-> {c \in kept : c[1] = a}]
  /\ ui = [accounts |-> <<>>, convs |-> [a \in AccountIds |-> {}],
           merged |-> {}, account |-> NoAccount, conv |-> NoConv, msg |-> NoMsg,
           list |-> {}, pane |-> NoPane, emptyId |-> NoConv, emptyCount |-> 0,
           autoSelected |-> FALSE, pending |-> NoAccount, debounce |-> {},
           asks |-> {}, refetches |-> 0]
  /\ asked = {} /\ answers = {}

-----------------------------------------------------------------------------
(* The slots and helpers, as functions of the controller's state.  The field *)
(* asks collects the backend calls of a slot; refetches is a ghost: empty    *)
(* refetches since the conversation was opened or last had a message.        *)

fetchConversations(s, A) == [s EXCEPT !.asks = @ \cup {AskConvs(a) : a \in A}]

fetchMessages(s, c) ==
  [s EXCEPT !.conv = c, !.refetches = 0,
            !.asks = IF c[1] \in Registered(s) THEN @ \cup {AskMsgs(c)} ELSE @]

\* selectDefaultConversation: INBOX or first, or remember that it is due.
selectDefaultConversation(s, a) ==
  IF s.convs[a] = {}
  THEN fetchConversations([s EXCEPT !.pending = a], {a})
  ELSE fetchMessages([s EXCEPT !.pending = NoAccount], Pick(s.convs[a]))

Merged(s) == UNION {s.convs[a] : a \in IF s.account = NoAccount
                                       THEN AccountIds ELSE {s.account}}

\* The first part of rebuildMergedConversations: an open conversation that
\* shows nothing is fetched again, at most kMaxEmptyRefetches times.
RefetchUncapped(s) ==
  IF s.conv = NoConv \/ s.list # {} THEN s
  ELSE [fetchMessages(s, s.conv) EXCEPT
          !.refetches = IF s.refetches > kMaxEmptyRefetches THEN @ ELSE s.refetches + 1]
Refetch(s) ==
  LET count == IF s.conv # s.emptyId THEN 0 ELSE s.emptyCount IN
  IF s.conv = NoConv \/ s.list # {} THEN s
  ELSE IF count < kMaxEmptyRefetches
  THEN [fetchMessages(s, s.conv) EXCEPT
          !.emptyId = s.conv, !.emptyCount = count + 1,
          !.refetches = s.refetches + 1]
  ELSE [s EXCEPT !.emptyId = s.conv, !.emptyCount = count]

\* The second: the one-time default selection.
AutoSelect(s) ==
  IF ~s.autoSelected /\ s.conv = NoConv /\ s.merged # {}
  THEN fetchMessages([s EXCEPT !.autoSelected = TRUE], Pick(s.merged)) ELSE s

\* The third: a pending selection, unless the user has moved on.
ResolvePendingAnyway(s) ==
  IF s.pending # NoAccount /\ s.convs[s.pending] # {}
  THEN selectDefaultConversation(s, s.pending) ELSE s
ResolvePendingNever(s) == s
ResolvePending(s) ==
  IF s.pending = NoAccount THEN s
  ELSE IF s.account # s.pending THEN [s EXCEPT !.pending = NoAccount]
  ELSE IF s.convs[s.pending] # {} /\ s.pending \in Registered(s)
  THEN selectDefaultConversation(s, s.pending) ELSE s

rebuildMergedConversations(s) ==
  ResolvePending(AutoSelect(Refetch([s EXCEPT !.merged = Merged(s)])))

\* Activating an account that polls also starts a sync, whose result may come
\* at any time in any case (Poll).  An id that no account has becomes the active
\* one too.
selectAccount(s, a) ==
  LET r == rebuildMergedConversations([s EXCEPT !.account = a]) IN
  IF a \notin Registered(s) THEN r
  ELSE IF a \in Chat THEN fetchConversations(r, {a}) ELSE selectDefaultConversation(r, a)

ensureActiveAccount(s) ==
  IF s.account = NoAccount /\ s.accounts # <<>>
  THEN selectAccount(s, Head(s.accounts)) ELSE s

fetchMessageBody(s, c, m) ==
  [s EXCEPT !.msg = m,
            !.asks = IF c[1] \in Registered(s) THEN @ \cup {AskBody(c, m)} ELSE @]

selectMessage(s, m) ==
  LET r == [s EXCEPT !.msg = m, !.pane = [msg |-> m, body |-> NoBody]]
  IN IF s.conv = NoConv THEN r ELSE fetchMessageBody(r, s.conv, m)

registerAccount(s, a) ==
  ensureActiveAccount(fetchConversations([s EXCEPT !.accounts = Append(@, a)], {a}))

\* Removal rebuilds the list while the removed account is still the active one.
removeAccount(s, i) ==
  LET a == s.accounts[i]
      r == rebuildMergedConversations(
             [s EXCEPT !.accounts = RemoveAt(@, i), !.convs[a] = {}])
  IN [r EXCEPT !.account = IF @ = a THEN NoAccount ELSE @]

resetApp(s) ==
  fetchConversations(
    [s EXCEPT !.list = {}, !.merged = {}, !.convs = [a \in AccountIds |-> {}],
              !.autoSelected = FALSE, !.account = NoAccount, !.conv = NoConv,
              !.msg = NoMsg, !.pane = NoPane, !.refetches = 0],
    Registered(s))

-----------------------------------------------------------------------------
(* The handlers connectBackend installs.                                     *)

conversationsReadyUnguarded(s, a, convs) ==
  rebuildMergedConversations([s EXCEPT !.convs[a] = convs])
conversationsReady(s, a, convs) ==
  IF a \notin Registered(s) THEN s
  ELSE rebuildMergedConversations([s EXCEPT !.convs[a] = convs])

\* No test for a removed account here, unlike in the other handlers.
messagesReady(s, c, msgs) ==
  IF c # s.conv THEN s
  ELSE [s EXCEPT !.list = {<<c, m>> : m \in msgs},
                 !.emptyCount = IF msgs # {} THEN 0 ELSE @,
                 !.refetches = IF msgs # {} THEN 0 ELSE @]

\* messageBodyReady (chat) and messageBodyStored (mail, which reads the body
\* from the answering account's store at delivery) fill the open entry with
\* that message id, whatever account it was opened from.
messageBodyStoredAny(s, c, m) ==
  IF s.msg = s.pane.msg /\ s.msg # NoMsg THEN [s EXCEPT !.pane.body = <<c[1], m>>] ELSE s
messageBodyStored(s, c, m) ==
  IF /\ m = s.msg /\ m = s.pane.msg
     /\ c[1] \in Chat \/ ( /\ c[1] \in Registered(s)
                          /\ \E d \in ConvsOf(c[1]) : m \in store[d] )
  THEN [s EXCEPT !.pane.body = <<c[1], m>>] ELSE s

messageArrived(s, c, m) ==
  IF c[1] \in Registered(s) /\ c = s.conv /\ \A e \in s.list : e[2] # m
  THEN [s EXCEPT !.list = @ \cup {<<c, m>>}] ELSE s

conversationUpserted(s, c) ==
  IF c[1] \in Registered(s)
  THEN rebuildMergedConversations([s EXCEPT !.convs[c[1]] = @ \cup {c}]) ELSE s

storageChanged(s, a) ==
  IF a \in Registered(s) THEN [s EXCEPT !.debounce = @ \cup {a}] ELSE s

\* The 300 ms timer of an account: refetch what the user may be looking at.
debouncedListsOnly(s, a) ==
  LET r == [s EXCEPT !.debounce = @ \ {a}]
  IN IF a \in Registered(s) THEN fetchConversations(r, {a}) ELSE r
debounced(s, a) ==
  LET r == [s EXCEPT !.debounce = @ \ {a}] IN
  IF a \notin Registered(s) THEN r
  ELSE LET f == fetchConversations(r, {a})
       IN IF s.conv[1] = a THEN fetchMessages(f, s.conv) ELSE f

Delivered(s, x) ==
  CASE x.kind = "convs" -> conversationsReady(s, x.account, x.convs)
    [] x.kind = "synced" ->
         LET r == conversationsReady(s, x.account, x.convs)
             inbox == <<x.account, Inbox>>
         IN IF inbox \in x.convs /\ x.account \in Registered(s)
            THEN [r EXCEPT !.asks = @ \cup {AskMsgs(inbox)}] ELSE r
    [] x.kind = "msgs" -> messagesReady(s, x.conv, x.msgs)
    [] x.kind = "body" -> messageBodyStored(s, x.conv, x.msg)
    [] x.kind = "arrived" ->
         [messageArrived(s, x.conv, x.msg) EXCEPT !.asks = @ \cup {AskRow(x.conv)}]
    [] x.kind = "row" -> conversationUpserted(s, x.conv)
    [] x.kind = "changed" -> storageChanged(s, x.account)

-----------------------------------------------------------------------------
(* Actions.                                                                  *)

\* A slot's calls reach their backends' queues when it returns.  The slots are called
\* by the views and over IPC, with any id.
Becomes(s) ==
  /\ ui' = [s EXCEPT !.asks = {}]
  /\ asked' = asked \cup s.asks

InFlight == Cardinality(asked) + Cardinality(answers)
Room == InFlight < scenario.inFlight

Slot(s) == Room /\ Becomes(s) /\ UNCHANGED <<store, folders, answers>>

Register(a) == a \notin Registered(ui) /\ Slot(registerAccount(ui, a))
SelectAccount(a) ==
  (scenario.anyId \/ a \in Registered(ui)) /\ Slot(selectAccount(ui, a))
OpenConversation(c) ==
  (scenario.anyId \/ c \in ui.merged) /\ Slot(fetchMessages(ui, c))
SelectMessage(e) == scenario.reading /\ Slot(selectMessage(ui, e[2]))
FetchBody(m) == scenario.reading /\ ui.conv # NoConv /\ Slot(fetchMessageBody(ui, ui.conv, m))
TriggerSync == Slot(fetchConversations(ui, Registered(ui)))
Reset == scenario.removing /\ Slot(resetApp(ui))

\* shutdown waits for the account's workers; what they posted may still come.
OwnerOf(r) == IF "account" \in DOMAIN r THEN r.account ELSE r.conv[1]
RemoveAccount(i) ==
  LET s == removeAccount(ui, i)
      Others(Q) == {r \in Q : OwnerOf(r) # ui.accounts[i]}
  IN /\ scenario.removing
     /\ ui' = [s EXCEPT !.asks = {}]
     /\ asked' = Others(asked \cup s.asks)
     /\ answers' \in {answers, Others(answers)}
     /\ UNCHANGED <<store, folders>>

\* A worker reads the store; a body that is not there is not announced.
Work(r) ==
  /\ asked' = asked \ {r}
  /\ answers' = answers \cup
       CASE r.kind = "convs" ->
              {[kind |-> "convs", account |-> r.account, convs |-> folders[r.account]]}
         [] r.kind = "msgs" ->
              {[kind |-> "msgs", conv |-> r.conv, msgs |-> store[r.conv]]}
         [] r.kind = "row" -> {[kind |-> "row", conv |-> r.conv]}
         [] r.kind = "body" ->
              IF \E d \in ConvsOf(r.conv[1]) : r.msg \in store[d]
              THEN {[kind |-> "body", conv |-> r.conv, msg |-> r.msg]} ELSE {}
  /\ UNCHANGED <<store, folders, ui>>

Deliver(x) ==
  /\ LET s == Delivered(ui, x) IN Becomes(s)
  /\ answers' = answers \ {x}
  /\ UNCHANGED <<store, folders>>

DebounceFires(a) ==
  /\ a \in ui.debounce
  /\ Becomes(debounced(ui, a))
  /\ UNCHANGED <<store, folders, answers>>

\* The servers.  A polling account announces a whole sync, also when nothing
\* changed; the others announce each change, and chat backends also send the
\* message that has arrived.
Synced(a) == [kind |-> "synced", account |-> a, convs |-> folders'[a]]
Changed(a) == IF a \in Polling THEN Synced(a) ELSE [kind |-> "changed", account |-> a]

MailArrives(c, m) ==
  /\ ~scenario.reading /\ Room /\ c[1] \in Registered(ui) /\ m \notin store[c]
  /\ store' = [store EXCEPT ![c] = @ \cup {m}]
  /\ folders' = [folders EXCEPT ![c[1]] = @ \cup {c}]
  /\ answers' = answers \cup {Changed(c[1])} \cup
       IF c[1] \in Chat THEN {[kind |-> "arrived", conv |-> c, msg |-> m]} ELSE {}
  /\ UNCHANGED <<ui, asked>>

MailRemoved(c, m) ==
  /\ ~scenario.reading /\ Room /\ c[1] \in Registered(ui) /\ m \in store[c]
  /\ store' = [store EXCEPT ![c] = @ \ {m}]
  /\ UNCHANGED folders
  /\ answers' = answers \cup {Changed(c[1])}
  /\ UNCHANGED <<ui, asked>>

\* Proton stores bodies ahead of their opening, and announces each.
Prefetched(c, m) ==
  /\ scenario.reading /\ Room
  /\ c[1] \in Registered(ui) \ (Chat \cup Polling) /\ m \in store[c]
  /\ answers' = answers \cup {[kind |-> "body", conv |-> c, msg |-> m]}
  /\ UNCHANGED <<store, folders, ui, asked>>

FolderListed(c) ==
  /\ Room /\ c[1] \in Registered(ui) /\ c \notin folders[c[1]]
  /\ folders' = [folders EXCEPT ![c[1]] = @ \cup {c}]
  /\ answers' = answers \cup {Changed(c[1])}
  /\ UNCHANGED <<store, ui, asked>>

Poll(a) ==
  /\ a \in Polling /\ a \in Registered(ui)
  /\ UNCHANGED <<store, folders, ui, asked>>
  /\ answers' = answers \cup {Synced(a)}

Next ==
  /\ UNCHANGED scenario
  /\ \/ \E a \in {c[1] : c \in scenario.convs} :
          Register(a) \/ SelectAccount(a) \/ DebounceFires(a) \/ Poll(a)
     \/ \E i \in DOMAIN ui.accounts : RemoveAccount(i)
     \/ \E c \in scenario.convs :
          \/ OpenConversation(c) \/ FolderListed(c)
          \/ \E m \in scenario.msgs : MailArrives(c, m) \/ MailRemoved(c, m) \/ Prefetched(c, m)
     \/ \E e \in ui.list : SelectMessage(e)
     \/ \E m \in scenario.msgs \cup {Unknown} : FetchBody(m)
     \/ TriggerSync \/ Reset
     \/ \E r \in asked : Work(r)
     \/ \E x \in answers : Deliver(x)

Spec == Init /\ [][Next]_vars

\* Fairness: worker threads and the event loop get to every call and signal,
\* running timers fire, and the 60 s poll goes on.
Calls == {AskConvs(a) : a \in AccountIds}
         \cup UNION {{AskMsgs(c), AskRow(c)} : c \in Conversations}
Signals ==
  [kind : {"convs", "synced"}, account : AccountIds, convs : SUBSET Conversations]
  \cup [kind : {"msgs"}, conv : Conversations, msgs : SUBSET Messages]
  \cup [kind : {"changed"}, account : AccountIds]
  \cup [kind : {"row"}, conv : Conversations]

FairSpec ==
  /\ Spec
  /\ \A r \in Calls : WF_vars(r \in asked /\ Work(r) /\ UNCHANGED scenario)
  /\ \A x \in Signals : WF_vars(x \in answers /\ Deliver(x) /\ UNCHANGED scenario)
  /\ \A a \in AccountIds : WF_vars(DebounceFires(a) /\ UNCHANGED scenario)
                          /\ WF_vars(Poll(a) /\ UNCHANGED scenario)

-----------------------------------------------------------------------------
(* Properties.                                                              *)

\* Types.  Ghost signals: conversations in the controller belong to registered
\* accounts, although the signals of a removed account may still be queued.
TypeOK ==
  /\ \A a \in AccountIds : ui.convs[a] # {} => a \in Registered(ui)
  /\ \A c \in Conversations : store[c] \subseteq Messages /\ folders[c[1]] \subseteq ConvsOf(c[1])
  /\ ui.conv \in Conversations \cup {NoConv} /\ ui.emptyCount \in 0..kMaxEmptyRefetches
  /\ ui.asks = {} /\ ui.merged \subseteq Conversations
  /\ ui.list \subseteq Conversations \X Messages

\* "A genuinely empty folder must not refetch on every 60s poll forever": an
\* open conversation is refetched for being empty at most kMaxEmptyRefetches
\* times, however signals, selections and other accounts interleave.
RefetchBounded == ui.refetches <= kMaxEmptyRefetches

\* The "wrong account" race: with an account active, no late answer, timer or
\* selection opens a conversation of another account; only a call that names it does.
NoYank ==
  [][ ui'.conv # ui.conv /\ ui'.conv # NoConv /\ ui'.account # NoAccount
      => ui'.conv[1] = ui'.account \/ \E c \in Conversations : OpenConversation(c) ]_vars

\* A selection deferred until the account's conversations land is made once
\* the backend has some.
PendingResolves ==
  \A a \in AccountIds : ~<>[](ui.pending = a /\ folders[a] # {})

\* The open inbox catches up: once its content is stable and it stays open, the
\* list ends up equal to it.  For an account that polls also when an older answer
\* arrives last, which the next poll mends; for one that only announces its changes
\* as long as nothing is in flight when one happens, since nothing mends it there.
InboxCatchesUp ==
  \A c \in {d \in Conversations : d[2] = Inbox}, S \in SUBSET Messages :
    <>[]( /\ ui.conv = c /\ store[c] = S /\ c \in folders[c[1]]
          /\ c[1] \in Polling \/ scenario.inFlight <= 1)
    => <>[](ui.list = {<<c, m>> : m \in S})

\* "Only the open message": what lands in the pane is the body of the message that
\* is open and shown there, whatever bodies arrive late, unasked or from accounts
\* that hold the same id, and also when a fetch over IPC has moved the active message
\* away from the pane's.  The account is not compared.
OnlyOpenMessageFills ==
  [][ ui'.pane.body # ui.pane.body /\ ui'.pane.body # NoBody
      => ui'.pane.body[2] = ui'.pane.msg /\ ui'.pane.msg = ui'.msg ]_vars
=============================================================================
