-------------------------- MODULE SelectionProofs --------------------------
(***************************************************************************)
(* The proofs about Selection, for any conversations, messages, accounts,    *)
(* cap and scenarios: the types, the bound on refetches, and the two action   *)
(* properties about what late answers may do to the screen.                   *)
(*                                                                         *)
(* A slot is a composition of functions of the controller's state, so there   *)
(* is one lemma per function: from a Good state it makes a Good one, and      *)
(* moves the open conversation only to the active account (Along).            *)
(***************************************************************************)
EXTENDS Selection, FiniteSetTheorems, WellFoundedInduction, TLAPS

-----------------------------------------------------------------------------
(* Sequences. *)

\* RemoveAt leaves the other elements, in order.
LEMMA Removing ==
  ASSUME NEW S, NEW s \in Seq(S), NEW i \in DOMAIN s
  PROVE  /\ RemoveAt(s, i) \in Seq(S)
         /\ Len(RemoveAt(s, i)) = Len(s) - 1
         /\ \A j \in DOMAIN RemoveAt(s, i) :
              LET k == IF j < i THEN j ELSE j + 1
              IN  k \in DOMAIN s /\ RemoveAt(s, i)[j] = s[k]
<1> DEFINE a == SubSeq(s, 1, i - 1)
           b == SubSeq(s, i + 1, Len(s))
<1>1. i \in 1 .. Len(s) /\ Len(s) \in Nat
  OBVIOUS
<1>2. a \in Seq(S) /\ Len(a) = i - 1 /\ \A j \in 1 .. i - 1 : a[j] = s[j]
  BY <1>1
<1>3. b \in Seq(S) /\ Len(b) = Len(s) - i /\ \A j \in 1 .. Len(s) - i : b[j] = s[i + j]
  BY <1>1
<1> HIDE DEF a, b
<1>5. /\ a \o b \in Seq(S) /\ Len(a \o b) = Len(a) + Len(b)
      /\ \A j \in 1 .. Len(a) + Len(b) :
           (a \o b)[j] = IF j <= Len(a) THEN a[j] ELSE b[j - Len(a)]
  BY <1>2, <1>3
<1>4. /\ Len(a \o b) = Len(s) - 1
      /\ \A j \in 1 .. Len(s) - 1 : (a \o b)[j] = IF j <= i - 1 THEN a[j] ELSE b[j - (i - 1)]
  <2>1. Len(a) = i - 1 /\ Len(a) + Len(b) = Len(s) - 1
    BY <1>1, <1>2, <1>3
  <2> QED
    BY <2>1, <1>5
<1>6. \A j \in 1 .. Len(s) - 1 : /\ IF j < i THEN j \in 1 .. Len(s) ELSE j + 1 \in 1 .. Len(s)
                                 /\ (a \o b)[j] = IF j < i THEN s[j] ELSE s[j + 1]
  <2> TAKE j \in 1 .. Len(s) - 1
  <2>1. CASE j < i
    BY <2>1, <1>1, <1>2, <1>4
  <2>2. CASE ~(j < i)
    <3>1. j - (i - 1) \in 1 .. Len(s) - i /\ j + 1 \in 1 .. Len(s)
      BY <2>2, <1>1
    <3>2. (a \o b)[j] = s[i + (j - (i - 1))]
      BY <3>1, <2>2, <1>3, <1>4
    <3>3. i + (j - (i - 1)) = j + 1
      BY <1>1
    <3> QED
      BY <2>2, <3>1, <3>2, <3>3
  <2> QED
    BY <2>1, <2>2
<1>7. RemoveAt(s, i) = a \o b
  BY DEF RemoveAt, a, b
<1>8. DOMAIN s = 1 .. Len(s) /\ DOMAIN (a \o b) = 1 .. Len(s) - 1
  BY <1>1, <1>4, <1>5
<1> QED
  BY <1>4, <1>5, <1>6, <1>7, <1>8

-----------------------------------------------------------------------------
Names == Messages \cup {NoMsg, Unknown}
MaybeConv == Conversations \cup {NoConv}
MaybeAccount == AccountIds \cup {NoAccount}

Requests ==
  [kind : {"convs"}, account : AccountIds]
  \cup [kind : {"msgs", "row"}, conv : Conversations]
  \cup [kind : {"body"}, conv : Conversations, msg : Names]

Answers ==
  [kind : {"convs", "synced"}, account : AccountIds, convs : SUBSET Conversations]
  \cup [kind : {"msgs"}, conv : Conversations, msgs : SUBSET Messages]
  \cup [kind : {"body"}, conv : Conversations, msg : Names]
  \cup [kind : {"arrived"}, conv : Conversations, msg : Messages]
  \cup [kind : {"row"}, conv : Conversations]
  \cup [kind : {"changed"}, account : AccountIds]

Panes == [msg : Names, body : MaybeAccount \X Names]

\* The controller's members.
State ==
  [accounts : Seq(AccountIds), convs : [AccountIds -> SUBSET Conversations],
   merged : SUBSET Conversations, account : MaybeAccount, conv : MaybeConv, msg : Names,
   list : SUBSET (Conversations \X Messages), pane : Panes, emptyId : MaybeConv,
   emptyCount : 0 .. kMaxEmptyRefetches, autoSelected : BOOLEAN, pending : MaybeAccount,
   debounce : SUBSET AccountIds, asks : SUBSET Requests, refetches : Nat]

\* The refetches of the open conversation are counted in emptyCount.
Counted(s) == s.refetches > 0 => s.emptyId = s.conv /\ s.refetches <= s.emptyCount

\* Only registered accounts have conversations, and each has its own.
Housed(s) ==
  \A a \in AccountIds : /\ s.convs[a] \subseteq ConvsOf(a)
                        /\ s.convs[a] # {} => a \in Registered(s)

Good(s) == s \in State /\ Counted(s) /\ Housed(s)

\* The list of conversations is the active account's.
Mine(s) == s.account # NoAccount => \A c \in s.merged : c[1] = s.account

IInv ==
  /\ scenario \in Scenarios
  /\ store \in [Conversations -> SUBSET Messages]
  /\ folders \in [AccountIds -> SUBSET Conversations]
  /\ \A a \in AccountIds : folders[a] \subseteq ConvsOf(a)
  /\ Good(ui) /\ Mine(ui) /\ ui.asks = {}
  /\ asked \subseteq Requests /\ answers \subseteq Answers
  /\ \A x \in answers : x.kind \in {"convs", "synced"} => x.convs \subseteq ConvsOf(x.account)

\* What the helpers leave alone.
Same(s, t) ==
  /\ t.accounts = s.accounts /\ t.convs = s.convs /\ t.account = s.account
  /\ t.pane = s.pane

\* The open conversation stays, or it is one of the active account.
Along(s, t) == t.conv = s.conv \/ t.account = NoAccount \/ t.conv[1] = t.account

-----------------------------------------------------------------------------
(* Numbers and the choice of a default conversation.                        *)

LEMMA Least ==
  ASSUME NEW S, S \subseteq Nat, S # {}
  PROVE  \E m \in S : \A k \in S : m <= k
<1> DEFINE R == OpToRel(<, Nat)
<1>1. IsWellFoundedOn(R, Nat)
  BY NatLessThanWellFounded, Zenon
<1>2. \A x, y \in Nat : <<x, y>> \in R <=> x < y
  BY DEF OpToRel
<1> HIDE DEF R
<1>3. \E x \in S : \A y \in S : <<y, x>> \notin R
  BY <1>1, WFMin
<1>4. \A x, y \in Nat : ~(y < x) => x <= y
  OBVIOUS
<1> QED
  BY <1>2, <1>3, <1>4

LEMMA Ids ==
  /\ AccountIds \subseteq Nat \ {0} /\ NoAccount \notin AccountIds
  /\ NoConv \notin Conversations /\ NoConv[1] = NoAccount
  /\ \A c \in Conversations : c[1] \in AccountIds /\ c[2] \in Nat /\ c \in ConvsOf(c[1])
  /\ kMaxEmptyRefetches \in Nat /\ Unknown \notin Messages /\ NoMsg \notin Messages
  BY SelectionAssumption DEF AccountIds, NoAccount, NoConv, ConvsOf

\* First finds the least of any conversations, as the map's order does.
LEMMA FirstExists ==
  ASSUME NEW S, S \subseteq Conversations, S # {}
  PROVE  First(S) \in S
<1> DEFINE A == {c[1] : c \in S}
<1>1. PICK m \in A : \A k \in A : m <= k
  <2>1. A \subseteq Nat /\ A # {}
    BY Ids
  <2> QED
    BY <2>1, Least
<1> DEFINE B == {c[2] : c \in {d \in S : d[1] = m}}
<1>2. PICK n \in B : \A k \in B : n <= k
  <2>1. B \subseteq Nat /\ B # {}
    BY Ids, <1>1
  <2> QED
    BY <2>1, Least
<1>3. PICK c \in S : c[1] = m /\ c[2] = n
  BY <1>2
<1>4. \A d \in S : c[1] < d[1] \/ (c[1] = d[1] /\ c[2] <= d[2])
  <2> TAKE d \in S
  <2>1. m <= d[1] /\ m \in Nat /\ d[1] \in Nat
    BY <1>1, Ids
  <2>2. d[1] = m => n <= d[2]
    BY <1>2
  <2> QED
    BY <1>3, <2>1, <2>2
<1> QED
  BY <1>4 DEF First

LEMMA PickExists ==
  ASSUME NEW S, S \subseteq Conversations, S # {}
  PROVE  Pick(S) \in S
<1>1. CASE {c \in S : c[2] = Inbox} # {}
  <2>1. First({c \in S : c[2] = Inbox}) \in {c \in S : c[2] = Inbox}
    BY <1>1, FirstExists
  <2> QED
    BY <1>1, <2>1 DEF Pick
<1>2. CASE {c \in S : c[2] = Inbox} = {}
  BY <1>2, FirstExists DEF Pick
<1> QED
  BY <1>1, <1>2

-----------------------------------------------------------------------------
(* The helpers, one by one. *)

\* Asking for more calls changes nothing else.
LEMMA FetchConvs ==
  ASSUME NEW s, Good(s), NEW A \in SUBSET AccountIds
  PROVE  LET t == fetchConversations(s, A)
         IN  /\ Good(t) /\ Same(s, t) /\ t.conv = s.conv /\ t.merged = s.merged
             /\ t.msg = s.msg /\ t.list = s.list /\ t.pending = s.pending
<1>1. {AskConvs(a) : a \in A} \subseteq Requests
  BY DEF AskConvs, Requests
<1> DEFINE t == fetchConversations(s, A)
<1>2. t = [s EXCEPT !.asks = s.asks \cup {AskConvs(a) : a \in A}]
  BY DEF fetchConversations
<1>3. t \in State
  BY <1>1, <1>2 DEF Good, State
<1>4. /\ t.convs = s.convs /\ t.accounts = s.accounts /\ t.account = s.account /\ t.pane = s.pane
      /\ t.conv = s.conv /\ t.merged = s.merged /\ t.refetches = s.refetches
      /\ t.emptyId = s.emptyId /\ t.emptyCount = s.emptyCount
      /\ t.msg = s.msg /\ t.list = s.list /\ t.pending = s.pending
  BY <1>2 DEF Good, State
<1> QED
  BY <1>3, <1>4 DEF Good, Counted, Housed, Registered, Same

\* Opening a conversation starts its count of refetches anew.
LEMMA FetchMsgs ==
  ASSUME NEW s, Good(s), NEW c \in MaybeConv
  PROVE  LET t == fetchMessages(s, c)
         IN  /\ Good(t) /\ Same(s, t) /\ t.conv = c /\ t.merged = s.merged /\ t.refetches = 0
             /\ t.emptyId = s.emptyId /\ t.emptyCount = s.emptyCount
             /\ t.msg = s.msg /\ t.list = s.list /\ t.pending = s.pending
<1> DEFINE Q == IF c[1] \in Registered(s) THEN s.asks \cup {AskMsgs(c)} ELSE s.asks
           t == fetchMessages(s, c)
<1>1. Q \subseteq Requests
  <2>1. s.asks \subseteq Requests /\ Registered(s) \subseteq AccountIds
    BY DEF Good, State, Registered, ToSet
  <2>2. c[1] \in AccountIds => AskMsgs(c) \in Requests
    BY Ids DEF AskMsgs, Requests, MaybeConv
  <2> QED
    BY <2>1, <2>2
<1>2. t = [s EXCEPT !.conv = c, !.refetches = 0, !.asks = Q]
  BY DEF fetchMessages
<1> HIDE DEF Q, t
<1>3. t \in State
  BY <1>1, <1>2 DEF Good, State
<1>4. /\ t.convs = s.convs /\ t.accounts = s.accounts /\ t.account = s.account /\ t.pane = s.pane
      /\ t.conv = c /\ t.merged = s.merged /\ t.refetches = 0
      /\ t.emptyId = s.emptyId /\ t.emptyCount = s.emptyCount
      /\ t.msg = s.msg /\ t.list = s.list /\ t.pending = s.pending
  BY <1>2 DEF Good, State
<1> QED
  BY <1>3, <1>4 DEF Good, Counted, Housed, Registered, Same, t

\* The default selection opens a conversation of the account, or waits for one.
LEMMA SelectsDefault ==
  ASSUME NEW s, Good(s), NEW a \in AccountIds
  PROVE  LET t == selectDefaultConversation(s, a)
         IN  /\ Good(t) /\ Same(s, t) /\ t.merged = s.merged
             /\ t.conv = s.conv \/ t.conv[1] = a
<1>1. CASE s.convs[a] = {}
  <2> DEFINE p == [s EXCEPT !.pending = a]
  <2>1. /\ p \in State /\ p.convs = s.convs /\ p.accounts = s.accounts /\ p.account = s.account
        /\ p.pane = s.pane /\ p.conv = s.conv /\ p.merged = s.merged
        /\ p.refetches = s.refetches /\ p.emptyId = s.emptyId /\ p.emptyCount = s.emptyCount
    BY DEF Good, State, MaybeAccount
  <2>2. Good(p) /\ Same(s, p)
    BY <2>1 DEF Good, Counted, Housed, Registered, Same
  <2> HIDE DEF p
  <2>3. selectDefaultConversation(s, a) = fetchConversations(p, {a})
    BY <1>1 DEF selectDefaultConversation, p
  <2> QED
    BY <2>1, <2>2, <2>3, FetchConvs DEF Same
<1>2. CASE s.convs[a] # {}
  <2> DEFINE p == [s EXCEPT !.pending = NoAccount]
  <2>1. /\ p \in State /\ p.convs = s.convs /\ p.accounts = s.accounts /\ p.account = s.account
        /\ p.pane = s.pane /\ p.conv = s.conv /\ p.merged = s.merged
        /\ p.refetches = s.refetches /\ p.emptyId = s.emptyId /\ p.emptyCount = s.emptyCount
    BY DEF Good, State, MaybeAccount
  <2>2. Good(p) /\ Same(s, p)
    BY <2>1 DEF Good, Counted, Housed, Registered, Same
  <2>3. Pick(s.convs[a]) \in s.convs[a] /\ s.convs[a] \subseteq Conversations
    BY <1>2, PickExists DEF Good, State
  <2>4. Pick(s.convs[a]) \in MaybeConv /\ Pick(s.convs[a])[1] = a
    BY <2>3 DEF Good, Housed, ConvsOf, MaybeConv
  <2> HIDE DEF p
  <2>5. selectDefaultConversation(s, a) = fetchMessages(p, Pick(s.convs[a]))
    BY <1>2 DEF selectDefaultConversation, p
  <2> QED
    BY <2>1, <2>2, <2>4, <2>5, FetchMsgs DEF Same
<1> QED
  BY <1>1, <1>2

\* An open conversation that shows nothing is fetched again while its count allows.
LEMMA Refetches ==
  ASSUME NEW s, Good(s)
  PROVE  LET t == Refetch(s)
         IN  Good(t) /\ Same(s, t) /\ t.conv = s.conv /\ t.merged = s.merged
<1> DEFINE count == IF s.conv # s.emptyId THEN 0 ELSE s.emptyCount
           f == fetchMessages(s, s.conv)
<1>1. /\ count \in 0 .. kMaxEmptyRefetches /\ s.conv \in MaybeConv /\ s.refetches \in Nat
      /\ s.refetches <= count
  BY Ids DEF Good, State, Counted
<1>2. CASE s.conv = NoConv \/ s.list # {}
  <2>1. Refetch(s) = s
    BY <1>2 DEF Refetch
  <2> QED
    BY <2>1 DEF Same
<1>3. CASE ~(s.conv = NoConv \/ s.list # {}) /\ count < kMaxEmptyRefetches
  <2>1. Good(f) /\ Same(s, f) /\ f.conv = s.conv /\ f.merged = s.merged
    BY <1>1, FetchMsgs
  <2> DEFINE t == [f EXCEPT !.emptyId = s.conv, !.emptyCount = count + 1,
                            !.refetches = s.refetches + 1]
  <2>2. Refetch(s) = t
    BY <1>3 DEF Refetch
  <2> HIDE DEF f
  <2>3. count + 1 \in 0 .. kMaxEmptyRefetches /\ s.refetches + 1 \in Nat
        /\ s.refetches + 1 <= count + 1
    BY <1>1, <1>3, Ids
  <2> HIDE DEF count
  <2>4. /\ t \in State /\ t.convs = f.convs /\ t.accounts = f.accounts /\ t.account = f.account
        /\ t.pane = f.pane /\ t.conv = f.conv /\ t.merged = f.merged
        /\ t.refetches = s.refetches + 1 /\ t.emptyId = s.conv /\ t.emptyCount = count + 1
    BY <2>1, <2>3, <1>1 DEF Good, State
  <2> HIDE DEF t
  <2>5. Good(t) /\ Same(f, t)
    BY <2>1, <2>3, <2>4 DEF Good, Counted, Housed, Registered, Same
  <2> QED
    BY <2>1, <2>2, <2>4, <2>5 DEF Same
<1>4. CASE ~(s.conv = NoConv \/ s.list # {}) /\ ~(count < kMaxEmptyRefetches)
  <2> DEFINE t == [s EXCEPT !.emptyId = s.conv, !.emptyCount = count]
  <2>1. Refetch(s) = t
    BY <1>4 DEF Refetch
  <2> HIDE DEF count
  <2>2. /\ t \in State /\ t.convs = s.convs /\ t.accounts = s.accounts /\ t.account = s.account
        /\ t.pane = s.pane /\ t.conv = s.conv /\ t.merged = s.merged
        /\ t.refetches = s.refetches /\ t.emptyId = s.conv /\ t.emptyCount = count
    BY <1>1 DEF Good, State
  <2> HIDE DEF t
  <2> QED
    BY <1>1, <2>1, <2>2 DEF Good, Counted, Housed, Registered, Same
<1> QED
  BY <1>2, <1>3, <1>4

\* The one-time selection opens a conversation of the list.
LEMMA AutoSelects ==
  ASSUME NEW s, Good(s), Mine(s)
  PROVE  LET t == AutoSelect(s)
         IN  Good(t) /\ Same(s, t) /\ Along(s, t) /\ t.merged = s.merged
<1>1. CASE ~s.autoSelected /\ s.conv = NoConv /\ s.merged # {}
  <2> DEFINE p == [s EXCEPT !.autoSelected = TRUE]
  <2>1. /\ p \in State /\ p.convs = s.convs /\ p.accounts = s.accounts /\ p.account = s.account
        /\ p.pane = s.pane /\ p.conv = s.conv /\ p.merged = s.merged
        /\ p.refetches = s.refetches /\ p.emptyId = s.emptyId /\ p.emptyCount = s.emptyCount
    BY DEF Good, State
  <2>2. Good(p) /\ Same(s, p)
    BY <2>1 DEF Good, Counted, Housed, Registered, Same
  <2>3. Pick(s.merged) \in s.merged /\ s.merged \subseteq Conversations
    BY <1>1, PickExists DEF Good, State
  <2> HIDE DEF p
  <2>4. AutoSelect(s) = fetchMessages(p, Pick(s.merged))
    BY <1>1 DEF AutoSelect, p
  <2>5. Pick(s.merged) \in MaybeConv
        /\ (s.account # NoAccount => Pick(s.merged)[1] = s.account)
    BY <2>3 DEF Mine, MaybeConv
  <2> QED
    BY <2>1, <2>2, <2>4, <2>5, FetchMsgs DEF Same, Along
<1>2. CASE ~(~s.autoSelected /\ s.conv = NoConv /\ s.merged # {})
  <2>1. AutoSelect(s) = s
    BY <1>2 DEF AutoSelect
  <2> QED
    BY <2>1 DEF Same, Along
<1> QED
  BY <1>1, <1>2

\* A pending selection is made for the active account only.
LEMMA ResolvesPending ==
  ASSUME NEW s, Good(s)
  PROVE  LET t == ResolvePending(s)
         IN  Good(t) /\ Same(s, t) /\ Along(s, t) /\ t.merged = s.merged
<1>1. CASE s.pending = NoAccount
  BY <1>1 DEF ResolvePending, Same, Along
<1>2. CASE s.pending # NoAccount /\ s.account # s.pending
  <2> DEFINE p == [s EXCEPT !.pending = NoAccount]
  <2>1. /\ p \in State /\ p.convs = s.convs /\ p.accounts = s.accounts /\ p.account = s.account
        /\ p.pane = s.pane /\ p.conv = s.conv /\ p.merged = s.merged
        /\ p.refetches = s.refetches /\ p.emptyId = s.emptyId /\ p.emptyCount = s.emptyCount
    BY DEF Good, State, MaybeAccount
  <2>2. ResolvePending(s) = p
    BY <1>2 DEF ResolvePending
  <2> QED
    BY <2>1, <2>2 DEF Good, Counted, Housed, Registered, Same, Along
<1>3. CASE s.pending # NoAccount /\ s.account = s.pending
  <2>1. s.pending \in AccountIds
    BY <1>3 DEF Good, State, MaybeAccount
  <2>2. ResolvePending(s) \in {s, selectDefaultConversation(s, s.pending)}
    BY <1>3 DEF ResolvePending
  <2> QED
    BY <1>3, <2>1, <2>2, SelectsDefault DEF Same, Along
<1> QED
  BY <1>1, <1>2, <1>3

\* Rebuilding the list yanks nobody to another account's conversation.
LEMMA Rebuilds ==
  ASSUME NEW s, Good(s)
  PROVE  LET t == rebuildMergedConversations(s)
         IN  Good(t) /\ Mine(t) /\ Same(s, t) /\ Along(s, t)
<1> DEFINE m == [s EXCEPT !.merged = Merged(s)]
           r == Refetch(m)
           u == AutoSelect(r)
<1>1. /\ Merged(s) \subseteq Conversations
      /\ s.account # NoAccount => \A c \in Merged(s) : c[1] = s.account
  <2>1. /\ s.account \in MaybeAccount
        /\ \A a \in AccountIds : s.convs[a] \subseteq Conversations /\ s.convs[a] \subseteq ConvsOf(a)
    BY DEF Good, State, Housed
  <2> QED
    BY <2>1 DEF Merged, MaybeAccount, ConvsOf
<1>2. /\ m \in State /\ m.convs = s.convs /\ m.accounts = s.accounts /\ m.account = s.account
      /\ m.pane = s.pane /\ m.conv = s.conv /\ m.merged = Merged(s)
      /\ m.refetches = s.refetches /\ m.emptyId = s.emptyId /\ m.emptyCount = s.emptyCount
  BY <1>1 DEF Good, State
<1>3. Good(m) /\ Mine(m) /\ Same(s, m)
  BY <1>1, <1>2 DEF Good, Counted, Housed, Registered, Same, Mine
<1> HIDE DEF m
<1>4. Good(r) /\ Same(m, r) /\ r.conv = m.conv /\ r.merged = m.merged
  BY <1>3, Refetches
<1>5. Mine(r)
  BY <1>3, <1>4 DEF Mine, Same
<1> HIDE DEF r
<1>6. Good(u) /\ Same(r, u) /\ Along(r, u) /\ u.merged = r.merged
  BY <1>4, <1>5, AutoSelects
<1> HIDE DEF u
<1>7. LET t == ResolvePending(u)
      IN  Good(t) /\ Same(u, t) /\ Along(u, t) /\ t.merged = u.merged
  BY <1>6, ResolvesPending
<1>8. rebuildMergedConversations(s) = ResolvePending(u)
  BY DEF rebuildMergedConversations, u, r, m
<1> QED
  BY <1>2, <1>3, <1>4, <1>5, <1>6, <1>7, <1>8 DEF Same, Along, Mine

\* Activating an account may open a conversation, of that account.
LEMMA SelectsAccount ==
  ASSUME NEW s, Good(s), NEW a \in AccountIds
  PROVE  LET t == selectAccount(s, a)
         IN  /\ Good(t) /\ Mine(t) /\ t.pane = s.pane /\ t.accounts = s.accounts
             /\ t.convs = s.convs /\ t.account = a /\ Along(s, t)
<1> DEFINE p == [s EXCEPT !.account = a]
           r == rebuildMergedConversations(p)
<1>1. /\ p \in State /\ p.convs = s.convs /\ p.accounts = s.accounts /\ p.account = a
      /\ p.pane = s.pane /\ p.conv = s.conv /\ p.merged = s.merged
      /\ p.refetches = s.refetches /\ p.emptyId = s.emptyId /\ p.emptyCount = s.emptyCount
  BY DEF Good, State, MaybeAccount
<1>2. Good(p)
  BY <1>1 DEF Good, Counted, Housed, Registered
<1> HIDE DEF p
<1>3. Good(r) /\ Mine(r) /\ Same(p, r) /\ Along(p, r)
  BY <1>2, Rebuilds
<1> HIDE DEF r
<1>4. selectAccount(s, a) \in {r, fetchConversations(r, {a}), selectDefaultConversation(r, a)}
  BY DEF selectAccount, r, p
<1>5. CASE selectAccount(s, a) = fetchConversations(r, {a})
  BY <1>1, <1>3, <1>5, FetchConvs DEF Same, Along, Mine
<1>6. CASE selectAccount(s, a) = selectDefaultConversation(r, a)
  BY <1>1, <1>3, <1>6, SelectsDefault DEF Same, Along, Mine
<1>7. CASE selectAccount(s, a) = r
  BY <1>1, <1>3, <1>7 DEF Same, Along
<1> QED
  BY <1>4, <1>5, <1>6, <1>7

-----------------------------------------------------------------------------
(* The slots and the handlers of signals. *)

\* The pane keeps its body, loses it, or has got that of the open message it shows.
Filled(s, t) ==
  \/ t.pane.body = s.pane.body \/ t.pane.body = NoBody
  \/ t.pane.body[2] = t.pane.msg /\ t.pane.msg = t.msg

\* The active account's conversations only, and only the open message's body.
Calm(s, t) == (Along(s, t) \/ t.conv = NoConv) /\ Filled(s, t)

\* A step of the controller: as calm as that, or a call that opens a conversation by id.
Opened == \E c \in Conversations : OpenConversation(c)
Tame(t) == Filled(ui, t) /\ (Along(ui, t) \/ t.conv = NoConv \/ Opened)

\* More calls of a slot change nothing else.
LEMMA Asks ==
  ASSUME NEW s, Good(s), Mine(s), NEW Q \in SUBSET Requests
  PROVE  LET t == [s EXCEPT !.asks = @ \cup Q]
         IN  Good(t) /\ Mine(t) /\ Same(s, t) /\ t.conv = s.conv /\ t.msg = s.msg
<1> DEFINE t == [s EXCEPT !.asks = s.asks \cup Q]
<1>1. /\ t \in State /\ t.convs = s.convs /\ t.accounts = s.accounts /\ t.account = s.account
      /\ t.pane = s.pane /\ t.conv = s.conv /\ t.merged = s.merged /\ t.msg = s.msg
      /\ t.refetches = s.refetches /\ t.emptyId = s.emptyId /\ t.emptyCount = s.emptyCount
  BY DEF Good, State
<1> HIDE DEF t
<1>2. Good(t) /\ Mine(t) /\ Same(s, t)
  BY <1>1 DEF Good, Counted, Housed, Registered, Same, Mine
<1> QED
  BY <1>1, <1>2 DEF t

LEMMA Registers ==
  ASSUME NEW s, Good(s), Mine(s), NEW a \in AccountIds
  PROVE  LET t == registerAccount(s, a)
         IN  Good(t) /\ Mine(t) /\ Calm(s, t)
<1> DEFINE p == [s EXCEPT !.accounts = Append(s.accounts, a)]
           f == fetchConversations(p, {a})
<1>1. s.accounts \in Seq(AccountIds)
  BY DEF Good, State
<1>2. /\ Append(s.accounts, a) \in Seq(AccountIds)
      /\ Registered(s) \subseteq ToSet(Append(s.accounts, a))
  BY <1>1 DEF Registered, ToSet
<1>3. /\ p \in State /\ p.convs = s.convs /\ p.accounts = Append(s.accounts, a)
      /\ p.account = s.account /\ p.pane = s.pane /\ p.conv = s.conv /\ p.merged = s.merged
      /\ p.refetches = s.refetches /\ p.emptyId = s.emptyId /\ p.emptyCount = s.emptyCount
  BY <1>2 DEF Good, State
<1> HIDE DEF p
<1>4. Good(p)
  BY <1>2, <1>3 DEF Good, Counted, Housed, Registered
<1>5. Good(f) /\ Same(p, f) /\ f.conv = p.conv /\ f.merged = p.merged
  BY <1>4, FetchConvs
<1>6. registerAccount(s, a) = ensureActiveAccount(f)
  BY DEF registerAccount, f, p
<1> HIDE DEF f
<1>7. CASE f.account = NoAccount /\ f.accounts # <<>>
  <2>1. Head(f.accounts) \in AccountIds
    BY <1>5, <1>7 DEF Good, State
  <2>2. ensureActiveAccount(f) = selectAccount(f, Head(f.accounts))
    BY <1>7 DEF ensureActiveAccount
  <2> QED
    BY <1>3, <1>5, <1>6, <2>1, <2>2, SelectsAccount DEF Same, Along, Calm, Filled
<1>8. CASE ~(f.account = NoAccount /\ f.accounts # <<>>)
  <2>1. ensureActiveAccount(f) = f
    BY <1>8 DEF ensureActiveAccount
  <2> QED
    BY <1>3, <1>5, <1>6, <2>1 DEF Same, Along, Calm, Filled, Mine
<1> QED
  BY <1>7, <1>8

\* Removal leaves no conversation of the account, and no account active that was.
LEMMA Removes ==
  ASSUME NEW s, Good(s), NEW i \in DOMAIN s.accounts
  PROVE  LET t == removeAccount(s, i)
         IN  Good(t) /\ Mine(t) /\ Calm(s, t)
<1> DEFINE a == s.accounts[i]
           rest == RemoveAt(s.accounts, i)
           p == [s EXCEPT !.accounts = rest, !.convs = [s.convs EXCEPT ![a] = {}]]
           r == rebuildMergedConversations(p)
           t == [r EXCEPT !.account = IF r.account = a THEN NoAccount ELSE r.account]
<1>1. s.accounts \in Seq(AccountIds) /\ a \in AccountIds
  BY DEF Good, State
<1>2. rest \in Seq(AccountIds) /\ \A b \in Registered(s) : b # a => b \in ToSet(rest)
  <2>1. /\ rest \in Seq(AccountIds) /\ Len(rest) = Len(s.accounts) - 1
        /\ \A j \in DOMAIN rest :
             LET k == IF j < i THEN j ELSE j + 1
             IN  k \in DOMAIN s.accounts /\ rest[j] = s.accounts[k]
    BY <1>1, Removing
  <2> HIDE DEF rest
  <2>2. \A k \in DOMAIN s.accounts : s.accounts[k] # a => \E j \in DOMAIN rest : rest[j] = s.accounts[k]
    <3> SUFFICES ASSUME NEW k \in DOMAIN s.accounts, k # i
                 PROVE  \E j \in DOMAIN rest : rest[j] = s.accounts[k]
      OBVIOUS
    <3>1. /\ i \in 1 .. Len(s.accounts) /\ k \in 1 .. Len(s.accounts) /\ Len(s.accounts) \in Nat
          /\ DOMAIN rest = 1 .. Len(s.accounts) - 1
      BY <1>1, <2>1
    <3>2. CASE k < i
      BY <2>1, <3>1, <3>2
    <3>3. CASE ~(k < i)
      <4>1. k - 1 \in DOMAIN rest /\ ~(k - 1 < i) /\ (k - 1) + 1 = k
        BY <3>1, <3>3
      <4> QED
        BY <2>1, <4>1
    <3> QED
      BY <3>2, <3>3
  <2> QED
    BY <2>1, <2>2 DEF Registered, ToSet
<1> HIDE DEF a, rest
<1>3. /\ p \in State /\ p.convs = [s.convs EXCEPT ![a] = {}] /\ p.accounts = rest
      /\ p.account = s.account /\ p.pane = s.pane /\ p.conv = s.conv /\ p.merged = s.merged
      /\ p.refetches = s.refetches /\ p.emptyId = s.emptyId /\ p.emptyCount = s.emptyCount
  BY <1>1, <1>2 DEF Good, State
<1> HIDE DEF p
<1>4. Good(p)
  <2>1. Housed(p)
    <3> SUFFICES ASSUME NEW b \in AccountIds
                 PROVE  /\ p.convs[b] \subseteq ConvsOf(b)
                        /\ p.convs[b] # {} => b \in Registered(p)
      BY DEF Housed
    <3>1. p.convs[b] = IF b = a THEN {} ELSE s.convs[b]
      BY <1>3 DEF Good, State
    <3> QED
      BY <1>2, <1>3, <3>1 DEF Good, Housed, Registered
  <2> QED
    BY <1>3, <2>1 DEF Good, Counted
<1>5. Good(r) /\ Mine(r) /\ Same(p, r) /\ Along(p, r)
  BY <1>4, Rebuilds
<1>6. removeAccount(s, i) = t
  BY DEF removeAccount, t, r, p, a, rest
<1> HIDE DEF r
<1>7. /\ t \in State /\ t.convs = r.convs /\ t.accounts = r.accounts
      /\ t.account \in {r.account, NoAccount} /\ t.pane = r.pane /\ t.conv = r.conv
      /\ t.merged = r.merged /\ t.refetches = r.refetches /\ t.emptyId = r.emptyId
      /\ t.emptyCount = r.emptyCount
  BY <1>5 DEF Good, State, MaybeAccount
<1> HIDE DEF t
<1>8. Good(t) /\ Mine(t)
  BY <1>5, <1>7 DEF Good, Counted, Housed, Registered, Mine
<1> QED
  BY <1>3, <1>5, <1>6, <1>7, <1>8 DEF Calm, Filled, Along, Same

LEMMA Resets ==
  ASSUME NEW s, Good(s)
  PROVE  LET t == resetApp(s)
         IN  Good(t) /\ Mine(t) /\ Calm(s, t)
<1> DEFINE p == [s EXCEPT !.list = {}, !.merged = {}, !.convs = [a \in AccountIds |-> {}],
                          !.autoSelected = FALSE, !.account = NoAccount, !.conv = NoConv,
                          !.msg = NoMsg, !.pane = NoPane, !.refetches = 0]
<1>1. NoPane \in Panes /\ NoConv \in MaybeConv /\ NoAccount \in MaybeAccount /\ NoMsg \in Names
  BY DEF NoPane, NoBody, Panes, MaybeConv, MaybeAccount, Names
<1>2. p \in State
  BY <1>1 DEF Good, State
<1>3. /\ p.convs = [a \in AccountIds |-> {}] /\ p.account = NoAccount /\ p.conv = NoConv
      /\ p.pane = NoPane /\ p.merged = {} /\ p.refetches = 0
      /\ p.accounts = s.accounts
  BY DEF Good, State
<1> HIDE DEF p
<1>4. Good(p) /\ Registered(s) \subseteq AccountIds
  BY <1>2, <1>3 DEF Good, Counted, Housed, State, Registered, ToSet
<1>5. resetApp(s) = fetchConversations(p, Registered(s))
  BY DEF resetApp, p
<1> QED
  BY <1>3, <1>4, <1>5, FetchConvs DEF Calm, Filled, Same, Mine, NoPane

LEMMA FetchesBody ==
  ASSUME NEW s, Good(s), Mine(s), NEW c \in Conversations, NEW m \in Names
  PROVE  LET t == fetchMessageBody(s, c, m)
         IN  Good(t) /\ Mine(t) /\ Same(s, t) /\ t.conv = s.conv /\ t.msg = m
<1> DEFINE p == [s EXCEPT !.msg = m]
           Q == IF c[1] \in Registered(s) THEN {AskBody(c, m)} ELSE {}
<1>1. /\ p \in State /\ p.convs = s.convs /\ p.accounts = s.accounts /\ p.account = s.account
      /\ p.pane = s.pane /\ p.conv = s.conv /\ p.merged = s.merged /\ p.msg = m
      /\ p.refetches = s.refetches /\ p.emptyId = s.emptyId /\ p.emptyCount = s.emptyCount
      /\ p.asks = s.asks
  BY DEF Good, State
<1>2. Q \in SUBSET Requests
  BY DEF AskBody, Requests
<1>3. fetchMessageBody(s, c, m) = [p EXCEPT !.asks = p.asks \cup Q]
  BY <1>1 DEF fetchMessageBody, Good, State
<1> HIDE DEF p, Q
<1>4. Good(p) /\ Mine(p) /\ Same(s, p)
  BY <1>1 DEF Good, Counted, Housed, Registered, Same, Mine
<1> QED
  BY <1>1, <1>2, <1>3, <1>4, Asks DEF Same

LEMMA SelectsMessage ==
  ASSUME NEW s, Good(s), Mine(s), NEW m \in Messages
  PROVE  LET t == selectMessage(s, m)
         IN  Good(t) /\ Mine(t) /\ Calm(s, t)
<1> DEFINE pane == [msg |-> m, body |-> NoBody]
           p == [s EXCEPT !.msg = m, !.pane = pane]
<1>1. pane \in Panes
  BY Ids DEF Panes, Names, MaybeAccount, NoBody
<1>2. /\ p \in State /\ p.convs = s.convs /\ p.accounts = s.accounts /\ p.account = s.account
      /\ p.pane = pane /\ p.conv = s.conv /\ p.merged = s.merged /\ p.msg = m
      /\ p.refetches = s.refetches /\ p.emptyId = s.emptyId /\ p.emptyCount = s.emptyCount
  BY <1>1 DEF Good, State, Names
<1>3. selectMessage(s, m) = IF s.conv = NoConv THEN p ELSE fetchMessageBody(p, s.conv, m)
  BY DEF selectMessage
<1>4. pane.body = NoBody
  OBVIOUS
<1> HIDE DEF p, pane
<1>5. Good(p) /\ Mine(p)
  BY <1>2 DEF Good, Counted, Housed, Registered, Mine
<1>6. CASE s.conv = NoConv
  BY <1>2, <1>3, <1>4, <1>5, <1>6 DEF Calm, Filled, Along
<1>7. CASE s.conv # NoConv
  <2>1. s.conv \in Conversations /\ m \in Names
    BY <1>7 DEF Good, State, MaybeConv, Names
  <2> QED
    BY <1>2, <1>3, <1>4, <1>5, <1>7, <2>1, FetchesBody DEF Calm, Filled, Along, Same
<1> QED
  BY <1>6, <1>7

-----------------------------------------------------------------------------
(* The handlers connectBackend installs. *)

LEMMA ConvsReady ==
  ASSUME NEW s, Good(s), Mine(s), NEW a \in AccountIds,
         NEW C \in SUBSET Conversations, C \subseteq ConvsOf(a)
  PROVE  LET t == conversationsReady(s, a, C)
         IN  Good(t) /\ Mine(t) /\ Same([s EXCEPT !.convs = t.convs], t) /\ Along(s, t)
<1> DEFINE p == [s EXCEPT !.convs = [s.convs EXCEPT ![a] = C]]
<1>1. CASE a \notin Registered(s)
  <2>1. conversationsReady(s, a, C) = s
    BY <1>1 DEF conversationsReady
  <2> QED
    BY <2>1 DEF Same, Along, Good, State
<1>2. CASE a \in Registered(s)
  <2>1. /\ p \in State /\ p.convs = [s.convs EXCEPT ![a] = C] /\ p.accounts = s.accounts
        /\ p.account = s.account /\ p.pane = s.pane /\ p.conv = s.conv /\ p.merged = s.merged
        /\ p.refetches = s.refetches /\ p.emptyId = s.emptyId /\ p.emptyCount = s.emptyCount
    BY DEF Good, State
  <2>2. conversationsReady(s, a, C) = rebuildMergedConversations(p)
    BY <1>2 DEF conversationsReady
  <2> HIDE DEF p
  <2>3. Housed(p)
    <3> SUFFICES ASSUME NEW b \in AccountIds
                 PROVE  /\ p.convs[b] \subseteq ConvsOf(b)
                        /\ p.convs[b] # {} => b \in Registered(p)
      BY DEF Housed
    <3>1. p.convs[b] = IF b = a THEN C ELSE s.convs[b]
      BY <2>1 DEF Good, State
    <3> QED
      BY <1>2, <2>1, <3>1 DEF Good, Housed, Registered
  <2>4. Good(p)
    BY <2>1, <2>3 DEF Good, Counted
  <2> DEFINE t == rebuildMergedConversations(p)
             q == [s EXCEPT !.convs = t.convs]
  <2>5. Good(t) /\ Mine(t) /\ Same(p, t) /\ Along(p, t)
    BY <2>4, Rebuilds
  <2> HIDE DEF t
  <2>6. /\ q.convs = t.convs /\ q.accounts = s.accounts /\ q.account = s.account /\ q.pane = s.pane
    BY DEF Good, State
  <2> QED
    BY <2>1, <2>2, <2>5, <2>6 DEF Same, Along, t
<1> QED
  BY <1>1, <1>2

LEMMA Upserts ==
  ASSUME NEW s, Good(s), Mine(s), NEW c \in Conversations
  PROVE  LET t == conversationUpserted(s, c)
         IN  Good(t) /\ Mine(t) /\ Calm(s, t)
<1> DEFINE a == c[1]
           C == s.convs[a] \cup {c}
<1>1. a \in AccountIds /\ c \in ConvsOf(a)
  BY Ids
<1>2. C \in SUBSET Conversations /\ C \subseteq ConvsOf(a)
  BY <1>1 DEF Good, State, Housed
<1>3. conversationUpserted(s, c) = conversationsReady(s, a, C)
  BY DEF conversationUpserted, conversationsReady
<1> HIDE DEF a, C
<1>4. LET t == conversationsReady(s, a, C)
      IN  Good(t) /\ Mine(t) /\ Same([s EXCEPT !.convs = t.convs], t) /\ Along(s, t)
  BY <1>1, <1>2, ConvsReady
<1> QED
  BY <1>3, <1>4 DEF Good, State, Same, Calm, Filled

\* A listing fills the list of the open conversation only; one that is not empty
\* ends the count of refetches.
LEMMA MsgsReady ==
  ASSUME NEW s, Good(s), Mine(s), NEW c \in Conversations, NEW M \in SUBSET Messages
  PROVE  LET t == messagesReady(s, c, M)
         IN  Good(t) /\ Mine(t) /\ Calm(s, t)
<1>1. CASE c # s.conv
  <2>1. messagesReady(s, c, M) = s
    BY <1>1 DEF messagesReady
  <2> QED
    BY <2>1 DEF Calm, Filled, Along
<1>2. CASE c = s.conv
  <2> DEFINE L == {<<c, m>> : m \in M}
             n == IF M # {} THEN 0 ELSE s.emptyCount
             k == IF M # {} THEN 0 ELSE s.refetches
             t == [s EXCEPT !.list = L, !.emptyCount = n, !.refetches = k]
  <2>1. messagesReady(s, c, M) = t
    BY <1>2 DEF messagesReady
  <2>2. /\ L \subseteq Conversations \X Messages /\ n \in 0 .. kMaxEmptyRefetches /\ k \in Nat
        /\ k > 0 => s.refetches > 0 /\ k = s.refetches /\ n = s.emptyCount
    BY Ids DEF Good, State
  <2> HIDE DEF L, n, k
  <2>3. /\ t \in State /\ t.convs = s.convs /\ t.accounts = s.accounts
        /\ t.account = s.account /\ t.pane = s.pane /\ t.conv = s.conv /\ t.merged = s.merged
        /\ t.refetches = k /\ t.emptyId = s.emptyId /\ t.emptyCount = n
    BY <2>2 DEF Good, State
  <2> HIDE DEF t
  <2>4. Good(t) /\ Mine(t)
    BY <2>2, <2>3 DEF Good, Counted, Housed, Registered, Mine
  <2> QED
    BY <2>1, <2>3, <2>4 DEF Calm, Filled, Along
<1> QED
  BY <1>1, <1>2

\* A body fills the pane only where the pane, the open message and the body agree.
LEMMA BodyStored ==
  ASSUME NEW s, Good(s), Mine(s), NEW c \in Conversations, NEW m \in Names
  PROVE  LET t == messageBodyStored(s, c, m)
         IN  Good(t) /\ Mine(t) /\ Calm(s, t)
<1> DEFINE pane == [s.pane EXCEPT !.body = <<c[1], m>>]
           p == [s EXCEPT !.pane = pane]
<1>1. s.pane \in Panes /\ c[1] \in MaybeAccount
  BY Ids DEF Good, State, MaybeAccount
<1>2. pane \in Panes /\ pane.msg = s.pane.msg /\ pane.body[2] = m
  BY <1>1 DEF Panes
<1>3. messageBodyStored(s, c, m) = s
      \/ (messageBodyStored(s, c, m) = p /\ m = s.msg /\ m = s.pane.msg)
  BY DEF messageBodyStored
<1> HIDE DEF pane
<1>4. /\ p \in State /\ p.convs = s.convs /\ p.accounts = s.accounts
      /\ p.account = s.account /\ p.pane = pane /\ p.conv = s.conv /\ p.merged = s.merged
      /\ p.refetches = s.refetches /\ p.emptyId = s.emptyId /\ p.emptyCount = s.emptyCount
      /\ p.msg = s.msg
  BY <1>2 DEF Good, State
<1> HIDE DEF p
<1>5. Good(p) /\ Mine(p)
  BY <1>4 DEF Good, Counted, Housed, Registered, Mine
<1>6. CASE messageBodyStored(s, c, m) = s
  BY <1>6 DEF Calm, Filled, Along
<1>7. CASE messageBodyStored(s, c, m) = p /\ m = s.msg /\ m = s.pane.msg
  BY <1>2, <1>4, <1>5, <1>7 DEF Calm, Filled, Along
<1> QED
  BY <1>3, <1>6, <1>7

LEMMA Arrives ==
  ASSUME NEW s, Good(s), Mine(s), NEW c \in Conversations, NEW m \in Messages
  PROVE  LET t == messageArrived(s, c, m)
         IN  Good(t) /\ Mine(t) /\ Calm(s, t)
<1> DEFINE p == [s EXCEPT !.list = s.list \cup {<<c, m>>}]
<1>1. messageArrived(s, c, m) \in {s, p}
  BY DEF messageArrived
<1>2. /\ p \in State /\ p.convs = s.convs /\ p.accounts = s.accounts
      /\ p.account = s.account /\ p.pane = s.pane /\ p.conv = s.conv /\ p.merged = s.merged
      /\ p.refetches = s.refetches /\ p.emptyId = s.emptyId /\ p.emptyCount = s.emptyCount
  BY DEF Good, State
<1> HIDE DEF p
<1>3. Good(p) /\ Mine(p)
  BY <1>2 DEF Good, Counted, Housed, Registered, Mine
<1> QED
  BY <1>1, <1>2, <1>3 DEF Calm, Filled, Along

LEMMA Changes ==
  ASSUME NEW s, Good(s), Mine(s), NEW a \in AccountIds
  PROVE  LET t == storageChanged(s, a)
         IN  Good(t) /\ Mine(t) /\ Calm(s, t)
<1> DEFINE p == [s EXCEPT !.debounce = s.debounce \cup {a}]
<1>1. storageChanged(s, a) \in {s, p}
  BY DEF storageChanged
<1>2. /\ p \in State /\ p.convs = s.convs /\ p.accounts = s.accounts
      /\ p.account = s.account /\ p.pane = s.pane /\ p.conv = s.conv /\ p.merged = s.merged
      /\ p.refetches = s.refetches /\ p.emptyId = s.emptyId /\ p.emptyCount = s.emptyCount
  BY DEF Good, State
<1> HIDE DEF p
<1>3. Good(p) /\ Mine(p)
  BY <1>2 DEF Good, Counted, Housed, Registered, Mine
<1> QED
  BY <1>1, <1>2, <1>3 DEF Calm, Filled, Along

\* The debounce timer fetches the open conversation again, and opens none.
LEMMA Debounces ==
  ASSUME NEW s, Good(s), Mine(s), NEW a \in AccountIds
  PROVE  LET t == debounced(s, a)
         IN  Good(t) /\ Mine(t) /\ Calm(s, t)
<1> DEFINE p == [s EXCEPT !.debounce = s.debounce \ {a}]
           f == fetchConversations(p, {a})
           g == fetchMessages(f, s.conv)
<1>1. /\ p \in State /\ p.convs = s.convs /\ p.accounts = s.accounts
      /\ p.account = s.account /\ p.pane = s.pane /\ p.conv = s.conv /\ p.merged = s.merged
      /\ p.refetches = s.refetches /\ p.emptyId = s.emptyId /\ p.emptyCount = s.emptyCount
  BY DEF Good, State
<1>2. debounced(s, a) \in {p, f, g}
  BY DEF debounced
<1> HIDE DEF p
<1>3. Good(p) /\ Mine(p)
  BY <1>1 DEF Good, Counted, Housed, Registered, Mine
<1>4. Good(f) /\ Same(p, f) /\ f.conv = p.conv /\ f.merged = p.merged
  BY <1>3, FetchConvs
<1> HIDE DEF f
<1>5. s.conv \in MaybeConv
  BY DEF Good, State
<1>6. Good(g) /\ Same(f, g) /\ g.conv = s.conv /\ g.merged = f.merged
  BY <1>4, <1>5, FetchMsgs
<1> HIDE DEF g
<1> QED
  BY <1>1, <1>2, <1>3, <1>4, <1>6 DEF Calm, Filled, Along, Same, Mine

LEMMA Delivers ==
  ASSUME NEW s, Good(s), Mine(s), NEW x \in Answers,
         x.kind \in {"convs", "synced"} => x.convs \subseteq ConvsOf(x.account)
  PROVE  LET t == Delivered(s, x)
         IN  Good(t) /\ Mine(t) /\ Calm(s, t)
<1>1. CASE x \in [kind : {"convs", "synced"}, account : AccountIds, convs : SUBSET Conversations]
  <2> DEFINE r == conversationsReady(s, x.account, x.convs)
             inbox == <<x.account, Inbox>>
  <2>1. Good(r) /\ Mine(r) /\ Same([s EXCEPT !.convs = r.convs], r) /\ Along(s, r)
    BY <1>1, ConvsReady
  <2>2. Calm(s, r)
    BY <2>1 DEF Good, State, Same, Calm, Filled
  <2>3. CASE x.kind = "convs"
    <3>1. Delivered(s, x) = r
      BY <2>3 DEF Delivered
    <3> QED
      BY <2>1, <2>2, <3>1
  <2>4. CASE x.kind = "synced"
    <3> DEFINE more == [r EXCEPT !.asks = @ \cup {AskMsgs(inbox)}]
    <3>1. Delivered(s, x) = IF inbox \in x.convs /\ x.account \in Registered(s) THEN more ELSE r
      BY <2>4 DEF Delivered
    <3>2. CASE inbox \in x.convs
      <4>1. inbox \in Conversations
        BY <1>1, <3>2
      <4>2. {AskMsgs(inbox)} \in SUBSET Requests
        BY <4>1 DEF AskMsgs, Requests
      <4> HIDE DEF r, inbox
      <4>3. Good(more) /\ Mine(more) /\ Same(r, more) /\ more.conv = r.conv /\ more.msg = r.msg
        BY <2>1, <4>2, Asks
      <4> HIDE DEF more
      <4>4. Calm(s, more)
        BY <2>2, <4>3 DEF Calm, Filled, Along, Same
      <4> QED
        BY <2>1, <2>2, <3>1, <4>3, <4>4
    <3>3. CASE inbox \notin x.convs
      BY <2>1, <2>2, <3>1, <3>3
    <3> QED
      BY <3>2, <3>3
  <2> QED
    BY <1>1, <2>3, <2>4
<1>2. CASE x \in [kind : {"msgs"}, conv : Conversations, msgs : SUBSET Messages]
  <2>1. Delivered(s, x) = messagesReady(s, x.conv, x.msgs)
    BY <1>2 DEF Delivered
  <2> QED
    BY <1>2, <2>1, MsgsReady
<1>3. CASE x \in [kind : {"body"}, conv : Conversations, msg : Names]
  <2>1. Delivered(s, x) = messageBodyStored(s, x.conv, x.msg)
    BY <1>3 DEF Delivered
  <2> QED
    BY <1>3, <2>1, BodyStored
<1>4. CASE x \in [kind : {"arrived"}, conv : Conversations, msg : Messages]
  <2> DEFINE r == messageArrived(s, x.conv, x.msg)
             more == [r EXCEPT !.asks = @ \cup {AskRow(x.conv)}]
  <2>1. Delivered(s, x) = more
    BY <1>4 DEF Delivered
  <2>2. Good(r) /\ Mine(r) /\ Calm(s, r)
    BY <1>4, Arrives
  <2>3. {AskRow(x.conv)} \in SUBSET Requests
    BY <1>4 DEF AskRow, Requests
  <2> HIDE DEF r
  <2>4. Good(more) /\ Mine(more) /\ Same(r, more) /\ more.conv = r.conv /\ more.msg = r.msg
    BY <2>2, <2>3, Asks
  <2> HIDE DEF more
  <2> QED
    BY <2>1, <2>2, <2>4 DEF Calm, Filled, Along, Same
<1>5. CASE x \in [kind : {"row"}, conv : Conversations]
  <2>1. Delivered(s, x) = conversationUpserted(s, x.conv)
    BY <1>5 DEF Delivered
  <2> QED
    BY <1>5, <2>1, Upserts
<1>6. CASE x \in [kind : {"changed"}, account : AccountIds]
  <2>1. Delivered(s, x) = storageChanged(s, x.account)
    BY <1>6 DEF Delivered
  <2> QED
    BY <1>6, <2>1, Changes
<1> QED
  BY <1>1, <1>2, <1>3, <1>4, <1>5, <1>6 DEF Answers

-----------------------------------------------------------------------------
(* The actions. *)

\* What the next state owes: the invariant of the controller and of the calls, and calm.
Sound == Good(ui') /\ Mine(ui') /\ ui'.asks = {} /\ Tame(ui')

LEMMA Becoming ==
  ASSUME NEW t, Good(t), Mine(t), Tame(t), Becomes(t), asked \subseteq Requests
  PROVE  Sound /\ asked' \subseteq Requests
<1>1. ui' = [t EXCEPT !.asks = {}] /\ asked' = asked \cup t.asks
  BY DEF Becomes
<1>2. /\ ui' \in State /\ ui'.convs = t.convs /\ ui'.accounts = t.accounts
      /\ ui'.account = t.account /\ ui'.pane = t.pane /\ ui'.conv = t.conv /\ ui'.merged = t.merged
      /\ ui'.refetches = t.refetches /\ ui'.emptyId = t.emptyId /\ ui'.emptyCount = t.emptyCount
      /\ ui'.msg = t.msg /\ ui'.asks = {} /\ t.asks \subseteq Requests
  BY <1>1 DEF Good, State
<1>3. Good(ui') /\ Mine(ui')
  BY <1>2 DEF Good, Counted, Housed, Registered, Mine
<1>4. Tame(ui')
  BY <1>2 DEF Tame, Filled, Along
<1> QED
  BY <1>1, <1>2, <1>3, <1>4 DEF Sound

\* Slots of the user and of the IPC server.
LEMMA SlotStep ==
  ASSUME IInv, NEW t, Slot(t), Good(t), Mine(t), Calm(ui, t) \/ Tame(t)
  PROVE  Sound /\ asked' \subseteq Requests /\ UNCHANGED <<store, folders, answers>>
<1>1. Becomes(t) /\ UNCHANGED <<store, folders, answers>> /\ asked \subseteq Requests
  BY DEF Slot, IInv
<1>2. Tame(t)
  BY DEF Calm, Tame
<1> QED
  BY <1>1, <1>2, Becoming

LEMMA UserStep ==
  ASSUME IInv,
         \/ \E a \in {c[1] : c \in scenario.convs} : Register(a) \/ SelectAccount(a)
         \/ \E c \in scenario.convs : OpenConversation(c)
         \/ \E e \in ui.list : SelectMessage(e)
         \/ \E m \in scenario.msgs \cup {Unknown} : FetchBody(m)
         \/ TriggerSync \/ Reset
  PROVE  Sound /\ asked' \subseteq Requests /\ UNCHANGED <<store, folders, answers>>
<1> USE DEF IInv
<1>0. /\ Good(ui) /\ Mine(ui)
      /\ scenario.convs \subseteq Conversations /\ scenario.msgs \subseteq Messages
  BY SelectionAssumption
<1>1. CASE \E a \in {c[1] : c \in scenario.convs} : Register(a)
  <2>1. PICK a \in {c[1] : c \in scenario.convs} : Register(a)
    BY <1>1
  <2>2. a \in AccountIds
    BY <1>0, Ids
  <2>3. Slot(registerAccount(ui, a))
    BY <2>1 DEF Register
  <2> QED
    BY <1>0, <2>2, <2>3, Registers, SlotStep
<1>2. CASE \E a \in {c[1] : c \in scenario.convs} : SelectAccount(a)
  <2>1. PICK a \in {c[1] : c \in scenario.convs} : SelectAccount(a)
    BY <1>2
  <2>2. a \in AccountIds
    BY <1>0, Ids
  <2> DEFINE t == selectAccount(ui, a)
  <2>3. Slot(t)
    BY <2>1 DEF SelectAccount
  <2>4. Good(t) /\ Mine(t) /\ t.pane = ui.pane /\ Along(ui, t)
    BY <1>0, <2>2, SelectsAccount
  <2> HIDE DEF t
  <2>5. Calm(ui, t)
    BY <2>4 DEF Calm, Filled
  <2> QED
    BY <2>3, <2>4, <2>5, SlotStep
<1>3. CASE \E c \in scenario.convs : OpenConversation(c)
  <2>1. PICK c \in scenario.convs : OpenConversation(c)
    BY <1>3
  <2> DEFINE t == fetchMessages(ui, c)
  <2>2. c \in MaybeConv /\ Opened /\ Slot(t)
    BY <1>0, <2>1 DEF OpenConversation, MaybeConv, Opened
  <2>3. Good(t) /\ Same(ui, t) /\ t.conv = c /\ t.merged = ui.merged
    BY <1>0, <2>2, FetchMsgs
  <2> HIDE DEF t
  <2>4. Mine(t) /\ Tame(t)
    BY <1>0, <2>2, <2>3 DEF Mine, Tame, Filled, Same
  <2> QED
    BY <2>2, <2>3, <2>4, SlotStep
<1>4. CASE \E e \in ui.list : SelectMessage(e)
  <2>1. PICK e \in ui.list : SelectMessage(e)
    BY <1>4
  <2>2. e[2] \in Messages
    BY <1>0, <2>1 DEF Good, State
  <2>3. Slot(selectMessage(ui, e[2]))
    BY <2>1 DEF SelectMessage
  <2> QED
    BY <1>0, <2>2, <2>3, SelectsMessage, SlotStep
<1>5. CASE \E m \in scenario.msgs \cup {Unknown} : FetchBody(m)
  <2>1. PICK m \in scenario.msgs \cup {Unknown} : FetchBody(m)
    BY <1>5
  <2> DEFINE t == fetchMessageBody(ui, ui.conv, m)
  <2>2. Slot(t) /\ ui.conv \in Conversations /\ m \in Names
    BY <1>0, <2>1 DEF FetchBody, Good, State, MaybeConv, Names
  <2>3. Good(t) /\ Mine(t) /\ Same(ui, t) /\ t.conv = ui.conv
    BY <1>0, <2>2, FetchesBody
  <2> HIDE DEF t
  <2>4. Calm(ui, t)
    BY <2>3 DEF Calm, Filled, Along, Same
  <2> QED
    BY <2>2, <2>3, <2>4, SlotStep
<1>6. CASE TriggerSync
  <2> DEFINE t == fetchConversations(ui, Registered(ui))
  <2>1. Slot(t) /\ Registered(ui) \in SUBSET AccountIds
    BY <1>0, <1>6 DEF TriggerSync, Good, State, Registered, ToSet
  <2>2. Good(t) /\ Same(ui, t) /\ t.conv = ui.conv /\ t.merged = ui.merged
    BY <1>0, <2>1, FetchConvs
  <2> HIDE DEF t
  <2>3. Mine(t) /\ Calm(ui, t)
    BY <1>0, <2>2 DEF Mine, Calm, Filled, Along, Same
  <2> QED
    BY <2>1, <2>2, <2>3, SlotStep
<1>7. CASE Reset
  <2>1. Slot(resetApp(ui))
    BY <1>7 DEF Reset
  <2> QED
    BY <1>0, <2>1, Resets, SlotStep
<1> QED
  BY <1>1, <1>2, <1>3, <1>4, <1>5, <1>6, <1>7

\* What changes the store and the calls of the backends keeps their types.
Lists ==
  /\ store' \in [Conversations -> SUBSET Messages]
  /\ folders' \in [AccountIds -> SUBSET Conversations]
  /\ \A a \in AccountIds : folders'[a] \subseteq ConvsOf(a)
  /\ asked' \subseteq Requests /\ answers' \subseteq Answers
  /\ \A x \in answers' : x.kind \in {"convs", "synced"} => x.convs \subseteq ConvsOf(x.account)

LEMMA RemovalStep ==
  ASSUME IInv, NEW i \in DOMAIN ui.accounts, RemoveAccount(i)
  PROVE  Sound /\ Lists
<1> DEFINE s == removeAccount(ui, i)
<1>1. Good(s) /\ Mine(s) /\ Calm(ui, s)
  BY Removes DEF IInv
<1>2. /\ ui' = [s EXCEPT !.asks = {}] /\ asked' \subseteq asked \cup s.asks
      /\ answers' \subseteq answers /\ UNCHANGED <<store, folders>>
  BY DEF RemoveAccount
<1> HIDE DEF s
<1>3. /\ ui' \in State /\ ui'.convs = s.convs /\ ui'.accounts = s.accounts
      /\ ui'.account = s.account /\ ui'.pane = s.pane /\ ui'.conv = s.conv /\ ui'.merged = s.merged
      /\ ui'.refetches = s.refetches /\ ui'.emptyId = s.emptyId /\ ui'.emptyCount = s.emptyCount
      /\ ui'.msg = s.msg /\ ui'.asks = {} /\ s.asks \subseteq Requests
  BY <1>1, <1>2 DEF Good, State
<1>4. Sound
  BY <1>1, <1>3 DEF Good, Counted, Housed, Registered, Mine, Calm, Filled, Along, Tame, Sound
<1>5. Lists
  BY <1>2, <1>3 DEF IInv, Lists
<1> QED
  BY <1>4, <1>5

LEMMA DeliveryStep ==
  ASSUME IInv,
         \/ \E x \in answers : Deliver(x)
         \/ \E a \in AccountIds : DebounceFires(a)
  PROVE  Sound /\ Lists
<1>1. ASSUME NEW x \in answers, Deliver(x)
      PROVE  Sound /\ Lists
  <2> DEFINE s == Delivered(ui, x)
  <2>1. Becomes(s) /\ answers' \subseteq answers /\ UNCHANGED <<store, folders>>
    BY <1>1 DEF Deliver
  <2>2. Good(s) /\ Mine(s) /\ Calm(ui, s)
    BY Delivers DEF IInv
  <2> HIDE DEF s
  <2>3. Sound /\ asked' \subseteq Requests
    BY <2>1, <2>2, Becoming DEF IInv, Calm, Tame
  <2> QED
    BY <2>1, <2>3 DEF IInv, Lists
<1>2. ASSUME NEW a \in AccountIds, DebounceFires(a)
      PROVE  Sound /\ Lists
  <2>1. Becomes(debounced(ui, a)) /\ UNCHANGED <<store, folders, answers>>
    BY <1>2 DEF DebounceFires
  <2>2. LET s == debounced(ui, a)
        IN  Good(s) /\ Mine(s) /\ Calm(ui, s)
    BY Debounces DEF IInv
  <2>3. Sound /\ asked' \subseteq Requests
    BY <2>1, <2>2, Becoming DEF IInv, Calm, Tame
  <2> QED
    BY <2>1, <2>3 DEF IInv, Lists
<1> QED
  BY <1>1, <1>2

LEMMA WorkStep ==
  ASSUME IInv, NEW r \in asked, Work(r)
  PROVE  Lists /\ ui' = ui
<1> DEFINE convs == [kind |-> "convs", account |-> r.account, convs |-> folders[r.account]]
           msgs == [kind |-> "msgs", conv |-> r.conv, msgs |-> store[r.conv]]
           row == [kind |-> "row", conv |-> r.conv]
           body == [kind |-> "body", conv |-> r.conv, msg |-> r.msg]
<1>1. /\ r \in Requests /\ asked' \subseteq asked /\ UNCHANGED <<store, folders, ui>>
      /\ asked \subseteq Requests
  BY DEF IInv, Work
<1>2. CASE r \in [kind : {"convs"}, account : AccountIds]
  <2>1. answers' = answers \cup {convs}
    BY <1>2 DEF Work
  <2>2. /\ convs \in Answers /\ convs.convs \subseteq ConvsOf(convs.account)
    BY <1>2 DEF Answers, IInv
  <2> HIDE DEF convs
  <2> QED
    BY <1>1, <2>1, <2>2 DEF IInv, Lists
<1>3. CASE r \in [kind : {"msgs", "row"}, conv : Conversations] /\ r.kind = "msgs"
  <2>1. answers' = answers \cup {msgs}
    BY <1>3 DEF Work
  <2>2. msgs \in Answers /\ msgs.kind = "msgs"
    BY <1>3 DEF Answers, IInv
  <2> HIDE DEF msgs
  <2> QED
    BY <1>1, <2>1, <2>2 DEF IInv, Lists
<1>4. CASE r \in [kind : {"msgs", "row"}, conv : Conversations] /\ r.kind = "row"
  <2>1. answers' = answers \cup {row}
    BY <1>4 DEF Work
  <2>2. row \in Answers /\ row.kind = "row"
    BY <1>4 DEF Answers, IInv
  <2> HIDE DEF row
  <2> QED
    BY <1>1, <2>1, <2>2 DEF IInv, Lists
<1>5. CASE r \in [kind : {"body"}, conv : Conversations, msg : Names]
  <2>1. answers' \in {answers, answers \cup {body}}
    BY <1>5 DEF Work
  <2>2. body \in Answers /\ body.kind = "body"
    BY <1>5 DEF Answers, IInv
  <2> HIDE DEF body
  <2> QED
    BY <1>1, <2>1, <2>2 DEF IInv, Lists
<1> QED
  BY <1>1, <1>2, <1>3, <1>4, <1>5 DEF Requests

LEMMA Announces ==
  ASSUME IInv, NEW a \in AccountIds,
         folders' \in [AccountIds -> SUBSET Conversations], folders'[a] \subseteq ConvsOf(a)
  PROVE  /\ Synced(a) \in Answers /\ Synced(a).convs \subseteq ConvsOf(Synced(a).account)
         /\ Changed(a) \in Answers
         /\ Changed(a).kind \in {"convs", "synced"} =>
              Changed(a).convs \subseteq ConvsOf(Changed(a).account)
<1>1. Synced(a) \in Answers /\ Synced(a).convs \subseteq ConvsOf(Synced(a).account)
  BY DEF Synced, Answers
<1>2. [kind |-> "changed", account |-> a] \in Answers
  BY DEF Answers
<1> QED
  BY <1>1, <1>2 DEF Changed

LEMMA ServerStep ==
  ASSUME IInv,
         \/ \E a \in AccountIds : Poll(a)
         \/ \E c \in Conversations :
              FolderListed(c) \/ \E m \in Messages : \/ MailArrives(c, m) \/ MailRemoved(c, m)
                                                 \/ Prefetched(c, m)
  PROVE  Lists /\ ui' = ui
<1>1. ASSUME NEW a \in AccountIds, Poll(a)
      PROVE  Lists /\ ui' = ui
  <2>1. UNCHANGED <<store, folders, ui, asked>> /\ answers' = answers \cup {Synced(a)}
    BY <1>1 DEF Poll
  <2>2. Synced(a) \in Answers /\ Synced(a).convs \subseteq ConvsOf(Synced(a).account)
    BY <2>1, Announces DEF IInv
  <2> QED
    BY <2>1, <2>2 DEF IInv, Lists
<1>2. ASSUME NEW c \in Conversations, FolderListed(c)
      PROVE  Lists /\ ui' = ui
  <2>0. c[1] \in AccountIds /\ c \in ConvsOf(c[1])
    BY Ids
  <2>1. /\ folders' = [folders EXCEPT ![c[1]] = folders[c[1]] \cup {c}]
        /\ UNCHANGED <<store, ui, asked>> /\ answers' = answers \cup {Changed(c[1])}
    BY <1>2 DEF FolderListed
  <2>2. /\ folders' \in [AccountIds -> SUBSET Conversations]
        /\ \A a \in AccountIds : folders'[a] \subseteq ConvsOf(a)
    BY <2>0, <2>1 DEF IInv
  <2>3. /\ Changed(c[1]) \in Answers
        /\ Changed(c[1]).kind \in {"convs", "synced"} =>
             Changed(c[1]).convs \subseteq ConvsOf(Changed(c[1]).account)
    BY <2>0, <2>2, Announces
  <2> QED
    BY <2>1, <2>2, <2>3 DEF IInv, Lists
<1>3. ASSUME NEW c \in Conversations, NEW m \in Messages, MailArrives(c, m)
      PROVE  Lists /\ ui' = ui
  <2> DEFINE arrived == [kind |-> "arrived", conv |-> c, msg |-> m]
  <2>0. c[1] \in AccountIds /\ c \in ConvsOf(c[1])
    BY Ids
  <2>1. /\ store' = [store EXCEPT ![c] = store[c] \cup {m}]
        /\ folders' = [folders EXCEPT ![c[1]] = folders[c[1]] \cup {c}]
        /\ UNCHANGED <<ui, asked>>
        /\ answers' \subseteq answers \cup {Changed(c[1]), arrived}
    BY <1>3 DEF MailArrives
  <2>2. /\ folders' \in [AccountIds -> SUBSET Conversations]
        /\ \A a \in AccountIds : folders'[a] \subseteq ConvsOf(a)
    BY <2>0, <2>1 DEF IInv
  <2>3. store' \in [Conversations -> SUBSET Messages]
    BY <2>1 DEF IInv
  <2>4. /\ Changed(c[1]) \in Answers
        /\ Changed(c[1]).kind \in {"convs", "synced"} =>
             Changed(c[1]).convs \subseteq ConvsOf(Changed(c[1]).account)
    BY <2>0, <2>2, Announces
  <2>5. arrived \in Answers /\ arrived.kind = "arrived"
    BY DEF Answers
  <2> HIDE DEF arrived
  <2> QED
    BY <2>1, <2>2, <2>3, <2>4, <2>5 DEF IInv, Lists
<1>4. ASSUME NEW c \in Conversations, NEW m \in Messages, MailRemoved(c, m)
      PROVE  Lists /\ ui' = ui
  <2>1. /\ store' = [store EXCEPT ![c] = store[c] \ {m}] /\ UNCHANGED <<folders, ui, asked>>
        /\ answers' = answers \cup {Changed(c[1])}
    BY <1>4 DEF MailRemoved
  <2>2. store' \in [Conversations -> SUBSET Messages]
    BY <2>1 DEF IInv
  <2>3. /\ Changed(c[1]) \in Answers
        /\ Changed(c[1]).kind \in {"convs", "synced"} =>
             Changed(c[1]).convs \subseteq ConvsOf(Changed(c[1]).account)
    BY <2>1, Ids, Announces DEF IInv
  <2> QED
    BY <2>1, <2>2, <2>3 DEF IInv, Lists
<1>5. ASSUME NEW c \in Conversations, NEW m \in Messages, Prefetched(c, m)
      PROVE  Lists /\ ui' = ui
  <2> DEFINE body == [kind |-> "body", conv |-> c, msg |-> m]
  <2>1. UNCHANGED <<store, folders, ui, asked>> /\ answers' = answers \cup {body}
    BY <1>5 DEF Prefetched
  <2>2. body \in Answers /\ body.kind = "body"
    BY DEF Answers, Names
  <2> HIDE DEF body
  <2> QED
    BY <2>1, <2>2 DEF IInv, Lists
<1> QED
  BY <1>1, <1>2, <1>3, <1>4, <1>5

\* Every step keeps the invariant and is tame.
LEMMA Steps ==
  ASSUME IInv, Next
  PROVE  IInv' /\ Tame(ui')
<1>0. /\ UNCHANGED scenario /\ scenario.convs \subseteq Conversations
      /\ scenario.msgs \subseteq Messages
      /\ \A c \in Conversations : c[1] \in AccountIds
  BY SelectionAssumption, Ids DEF Next, IInv
<1>1. ASSUME Sound, Lists
      PROVE  IInv' /\ Tame(ui')
  <2>1. Good(ui)' /\ Mine(ui)'
    BY <1>1 DEF Sound, Good, Mine, State, Counted, Housed, Registered
  <2> QED
    BY <1>0, <1>1, <2>1 DEF Sound, Lists, IInv
<1>2. ASSUME ui' = ui, Lists
      PROVE  IInv' /\ Tame(ui')
  <2>1. Sound
    BY <1>2 DEF Sound, Tame, Filled, Along, IInv
  <2> QED
    BY <1>1, <1>2, <2>1
<1>3. CASE \/ \E a \in {c[1] : c \in scenario.convs} : Register(a) \/ SelectAccount(a)
           \/ \E c \in scenario.convs : OpenConversation(c)
           \/ \E e \in ui.list : SelectMessage(e)
           \/ \E m \in scenario.msgs \cup {Unknown} : FetchBody(m)
           \/ TriggerSync \/ Reset
  <2>1. Sound /\ asked' \subseteq Requests /\ UNCHANGED <<store, folders, answers>>
    BY <1>3, UserStep
  <2>2. Lists
    BY <2>1 DEF IInv, Lists
  <2> QED
    BY <1>1, <2>1, <2>2
<1>4. CASE \E i \in DOMAIN ui.accounts : RemoveAccount(i)
  BY <1>1, <1>4, RemovalStep
<1>5. CASE \/ \E x \in answers : Deliver(x)
           \/ \E a \in {c[1] : c \in scenario.convs} : DebounceFires(a)
  <2>1. \/ \E x \in answers : Deliver(x)
        \/ \E a \in AccountIds : DebounceFires(a)
    BY <1>0, <1>5
  <2> QED
    BY <1>1, <2>1, DeliveryStep
<1>6. CASE \E r \in asked : Work(r)
  BY <1>2, <1>6, WorkStep
<1>7. CASE \/ \E a \in {c[1] : c \in scenario.convs} : Poll(a)
           \/ \E c \in scenario.convs :
                FolderListed(c) \/ \E m \in scenario.msgs : \/ MailArrives(c, m) \/ MailRemoved(c, m)
                                                       \/ Prefetched(c, m)
  <2>1. \/ \E a \in AccountIds : Poll(a)
        \/ \E c \in Conversations :
             FolderListed(c) \/ \E m \in Messages : \/ MailArrives(c, m) \/ MailRemoved(c, m)
                                                \/ Prefetched(c, m)
    BY <1>0, <1>7
  <2> QED
    BY <1>2, <2>1, ServerStep
<1> QED
  BY <1>3, <1>4, <1>5, <1>6, <1>7 DEF Next

LEMMA Starts == Init => IInv
<1> SUFFICES ASSUME Init PROVE IInv
  OBVIOUS
<1>1. NoPane \in Panes /\ NoConv \in MaybeConv /\ NoAccount \in MaybeAccount /\ NoMsg \in Names
  BY DEF NoPane, NoBody, Panes, MaybeConv, MaybeAccount, Names
<1>2. ui \in State
  BY <1>1, Ids DEF Init, State
<1>3. Good(ui) /\ Mine(ui) /\ ui.asks = {}
  BY <1>2 DEF Init, Good, Counted, Housed, Mine, NoAccount
<1> DEFINE kept == IF scenario.reading THEN scenario.convs ELSE {}
<1>4. /\ scenario \in Scenarios /\ asked = {} /\ answers = {}
      /\ store = [c \in Conversations |-> IF c \in kept THEN scenario.msgs ELSE {}]
      /\ folders = [a \in AccountIds |-> {c \in kept : c[1] = a}]
  BY DEF Init
<1>5. kept \subseteq Conversations /\ scenario.msgs \subseteq Messages
  BY <1>4, SelectionAssumption
<1> HIDE DEF kept
<1>6. /\ store \in [Conversations -> SUBSET Messages]
      /\ folders \in [AccountIds -> SUBSET Conversations]
      /\ \A a \in AccountIds : folders[a] \subseteq ConvsOf(a)
  BY <1>4, <1>5 DEF ConvsOf
<1> QED
  BY <1>3, <1>4, <1>6 DEF IInv

LEMMA Stutters == IInv /\ UNCHANGED vars => IInv'
<1> SUFFICES ASSUME IInv, UNCHANGED vars PROVE IInv'
  OBVIOUS
<1>1. Good(ui)' /\ Mine(ui)'
  BY DEF vars, IInv, Good, Mine, State, Counted, Housed, Registered
<1> QED
  BY <1>1 DEF vars, IInv

LEMMA Invariant == Spec => []IInv
<1>1. IInv /\ [Next]_vars => IInv'
  BY Steps, Stutters
<1> QED
  BY <1>1, Starts, PTL DEF Spec

-----------------------------------------------------------------------------
(* The theorems. *)

\* No conversation of a removed account is shown or kept, whatever of its signals
\* is still queued, and the controller's members keep their types.
THEOREM TypeCorrect == Spec => []TypeOK
<1>1. IInv => TypeOK
  <2> SUFFICES ASSUME IInv PROVE TypeOK
    OBVIOUS
  <2>1. /\ \A a \in AccountIds : ui.convs[a] # {} => a \in Registered(ui)
        /\ \A c \in Conversations :
             store[c] \subseteq Messages /\ folders[c[1]] \subseteq ConvsOf(c[1])
    BY Ids DEF IInv, Good, Housed
  <2>2. /\ ui.conv \in Conversations \cup {NoConv} /\ ui.emptyCount \in 0 .. kMaxEmptyRefetches
        /\ ui.merged \subseteq Conversations /\ ui.list \subseteq Conversations \X Messages
    BY DEF IInv, Good, State, MaybeConv
  <2> QED
    BY <2>1, <2>2 DEF TypeOK, IInv
<1> QED
  BY <1>1, Invariant, PTL

\* An open conversation that stays empty is fetched again at most
\* kMaxEmptyRefetches times, for any cap and any interleaving.
THEOREM Bounded == Spec => []RefetchBounded
<1>1. IInv => RefetchBounded
  <2> SUFFICES ASSUME IInv PROVE RefetchBounded
    OBVIOUS
  <2>1. /\ ui.emptyCount \in 0 .. kMaxEmptyRefetches /\ ui.refetches \in Nat
        /\ ui.refetches > 0 => ui.refetches <= ui.emptyCount
    BY DEF IInv, Good, State, Counted
  <2> QED
    BY <2>1, Ids DEF RefetchBounded
<1> QED
  BY <1>1, Invariant, PTL

\* No late answer, timer or selection opens a conversation of an account that is not
\* the active one: only a call that names the conversation does.
THEOREM NobodyIsYanked == Spec => NoYank
<1>1. IInv /\ Next =>
        (ui'.conv # ui.conv /\ ui'.conv # NoConv /\ ui'.account # NoAccount
           => ui'.conv[1] = ui'.account \/ \E c \in Conversations : OpenConversation(c))
  BY Steps DEF Tame, Along, Opened
<1> QED
  BY <1>1, Invariant, PTL DEF Spec, NoYank, vars

\* Only the body of the message that is open and in the pane ever fills the pane.
THEOREM OnlyOpenFills == Spec => OnlyOpenMessageFills
<1>1. IInv /\ Next =>
        (ui'.pane.body # ui.pane.body /\ ui'.pane.body # NoBody
           => ui'.pane.body[2] = ui'.pane.msg /\ ui'.pane.msg = ui'.msg)
  BY Steps DEF Tame, Filled
<1> QED
  BY <1>1, Invariant, PTL DEF Spec, OnlyOpenMessageFills, vars

=============================================================================
