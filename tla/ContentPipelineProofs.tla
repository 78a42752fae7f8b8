----------------------- MODULE ContentPipelineProofs -----------------------
(***************************************************************************)
(* Proofs about ContentPipeline and the rewriter of HtmlSanitize, for all  *)
(* documents of tags and characters and all chunks.                        *)
(*                                                                         *)
(* What a recursive function makes of a sequence is shown by its shortest  *)
(* counterexample (Least, Climbing), and that there is such a function by  *)
(* Recursion.                                                              *)
(*                                                                         *)
(* The stream, for every document: writing one piece and then another is   *)
(* writing both (WritingOn), what went to the sink stays there             *)
(* (WritingKeeps).  So the open stream stands where one call would stand   *)
(* after the chunks it took so far, and has handed out all of its sink     *)
(* (Place); the chunks to come only continue that (TakenGoes).  If none is *)
(* refused, the chunks it takes are the body (TakenAll).                   *)
(*                                                                         *)
(* The views, for documents that nest: token by token (Stepwise) the       *)
(* rewriter knows the open elements and puts out one piece or nothing      *)
(* (Along); what it puts out nests again (OutNests).  So a second pass can *)
(* be followed too: display leaves its own tokens as they are              *)
(* (DisplayTwice), and the reader makes of them what it made of the        *)
(* original ones (ReaderAgrees).  What is open at a position is what       *)
(* encloses it (EnclosingIs), therefore the text that comes out is the     *)
(* visible one (TextIs).  The text pass is followed the same way, for the  *)
(* messages of which only the text is stored (AssembledIs).                *)
(***************************************************************************)
EXTENDS ContentPipeline, FiniteSetTheorems, SequenceTheorems, WellFoundedInduction, TLAPS

-----------------------------------------------------------------------------
(* Writing, byte by byte. *)

\* A set of numbers that is not empty has a least element.
LEMMA Least ==
  ASSUME NEW S, S \subseteq Nat, S # {}
  PROVE  \E m \in S : \A k \in S : m <= k
<1> DEFINE R == OpToRel(<, Nat)
<1>1. IsWellFoundedOn(R, Nat)
  BY NatLessThanWellFounded, Zenon
<1>2. \A x, y \in Nat : <<x, y>> \in R <=> x < y
  BY DEF OpToRel
<1> HIDE DEF R
<1>3. \E x \in S : \A y \in S : <<y, x>> \notin R
  BY <1>1, WFMin
<1>4. \A x, y \in Nat : ~(y < x) => x <= y
  OBVIOUS
<1> QED
  BY <1>2, <1>3, <1>4

\* Up a ladder: what holds of 0 and, with a number, of the next one.
LEMMA Climbing ==
  ASSUME NEW N \in Nat, NEW P, 0 \in P, \A n \in 0 .. N - 1 : n \in P => n + 1 \in P
  PROVE  \A n \in 0 .. N : n \in P
<1> DEFINE Off == {n \in 0 .. N : n \notin P}
<1> SUFFICES ASSUME Off # {}
             PROVE  FALSE
  OBVIOUS
<1>1. PICK n \in Off : \A k \in Off : n <= k
  <2>1. Off \subseteq Nat
    OBVIOUS
  <2> HIDE DEF Off
  <2> QED
    BY <2>1, Least
<1>2. n \in 0 .. N /\ n \notin P
  OBVIOUS
<1>3. n - 1 \in 0 .. N - 1 /\ ~(n <= n - 1)
  BY <1>2
<1>4. n - 1 \in P
  BY <1>1, <1>3
<1>5. (n - 1) + 1 = n
  BY <1>2
<1>6. \A k \in 0 .. N - 1 : k \in P => k + 1 \in P
  OBVIOUS
<1> HIDE DEF Off
<1>7. (n - 1) + 1 \in P
  BY <1>3, <1>4, <1>6
<1> QED
  BY <1>2, <1>5, <1>7

\* f has a value for each position, G of the one before.
Iterates(f, N, D, b, G) ==
  f \in [0 .. N -> D] /\ f[0] = b /\ \A n \in 1 .. N : f[n] = G[n][f[n - 1]]

\* There is such a function.
LEMMA Recursion ==
  ASSUME NEW N \in Nat, NEW D, NEW b \in D, NEW G,
         \A n \in 1 .. N : \A d \in D : G[n][d] \in D
  PROVE  \E f : Iterates(f, N, D, b, G)
<1> DEFINE Is(f, m) == f \in [0 .. m -> D] /\ f[0] = b /\ \A n \in 1 .. m : f[n] = G[n][f[n - 1]]
           P == {m \in 0 .. N : \E f : Is(f, m)}
<1>1. 0 \in P
  <2>1. Is([n \in 0 .. 0 |-> b], 0)
    OBVIOUS
  <2> HIDE DEF Is
  <2> QED
    BY <2>1
<1>2. ASSUME NEW m \in 0 .. N - 1, m \in P
      PROVE  m + 1 \in P
  <2>1. PICK f : Is(f, m)
    <3> HIDE DEF Is
    <3> QED
      BY <1>2
  <2>2. f[m] \in D /\ m + 1 \in 1 .. N
    BY <2>1
  <2> DEFINE next == G[m + 1][f[m]]
             g == [n \in 0 .. m + 1 |-> IF n = m + 1 THEN next ELSE f[n]]
  <2>3. next \in D
    BY <2>2
  <2> HIDE DEF next
  <2>4. g \in [0 .. m + 1 -> D] /\ g[0] = b
    <3>1. \A n \in 0 .. m + 1 : n = m + 1 \/ n \in 0 .. m
      OBVIOUS
    <3>2. \A n \in 0 .. m + 1 : (IF n = m + 1 THEN next ELSE f[n]) \in D
      BY <2>1, <2>3, <3>1
    <3>3. 0 \in 0 .. m + 1 /\ 0 # m + 1
      OBVIOUS
    <3> QED
      BY <2>1, <3>2, <3>3
  <2>5. ASSUME NEW n \in 1 .. m + 1
        PROVE  g[n] = G[n][g[n - 1]]
    <3>1. CASE n = m + 1
      <4>1. g[n] = next /\ g[n - 1] = f[m] /\ n - 1 = m
        BY <3>1
      <4> HIDE DEF g
      <4> QED
        BY <3>1, <4>1 DEF next
    <3>2. CASE n # m + 1
      <4>1. n \in 1 .. m /\ g[n] = f[n] /\ g[n - 1] = f[n - 1]
        BY <3>2
      <4> HIDE DEF g
      <4> QED
        BY <2>1, <4>1
    <3> QED
      BY <3>1, <3>2
  <2>6. Is(g, m + 1)
    <3> HIDE DEF g
    <3> QED
      BY <2>4, <2>5
  <2>7. m + 1 \in 0 .. N
    OBVIOUS
  <2> HIDE DEF Is
  <2> QED
    BY <2>6, <2>7
<1> HIDE DEF P
<1>3. \A n \in 0 .. N : n \in P
  BY <1>1, <1>2, Climbing
<1>4. N \in P
  BY <1>3
<1>5. \E f : Is(f, N)
  <2> HIDE DEF Is
  <2> QED
    BY <1>4 DEF P
<1> QED
  BY <1>5 DEF Iterates

\* FlattenSeq puts one sequence after the other.
LEMMA Flat ==
  ASSUME NEW S, NEW ss \in Seq(Seq(S))
  PROVE  \E f \in [0 .. Len(ss) -> Seq(S)] :
           /\ f[0] = <<>> /\ f[Len(ss)] = FlattenSeq(ss)
           /\ \A n \in 1 .. Len(ss) : f[n] = f[n - 1] \o ss[n]
<1> DEFINE N == Len(ss)
           D == Seq(S)
           G == [n \in 1 .. N |-> [d \in D |-> d \o ss[n]]]
<1>1. N \in Nat /\ <<>> \in D /\ \A n \in 1 .. N : ss[n] \in D
  OBVIOUS
<1>2. \A n \in 1 .. N : \A d \in D : G[n][d] \in D
  <2>1. \A n \in 1 .. N : \A d \in D : d \o ss[n] \in D
    BY <1>1
  <2> QED
    BY <2>1
<1>3. PICK f \in [0 .. N -> D] : f[0] = <<>> /\ \A n \in 1 .. N : f[n] = G[n][f[n - 1]]
  <2> DEFINE b == <<>>
  <2>1. N \in Nat /\ b \in D
    BY <1>1
  <2> HIDE DEF G, N, D, b
  <2>2. \E f : Iterates(f, N, D, b, G)
    BY <2>1, <1>2, Recursion
  <2> QED
    BY <2>2 DEF Iterates, b
<1>4. \A n \in 1 .. N : f[n] = f[n - 1] \o ss[n]
  <2> SUFFICES ASSUME NEW n \in 1 .. N
               PROVE  f[n] = f[n - 1] \o ss[n]
    OBVIOUS
  <2>1. n - 1 \in 0 .. N
    BY <1>1
  <2>2. f[n - 1] \in D
    BY <1>3, <2>1
  <2> QED
    BY <1>3, <2>2
<1>5. f[N] = FlattenSeq(ss)
  <2>1. CASE N = 0
    BY <1>3, <2>1 DEF FlattenSeq
  <2>2. CASE N # 0
    <3> DEFINE Is(h) == h = [i \in 1 .. N |-> IF i = 1 THEN ss[i] ELSE h[i - 1] \o ss[i]]
               g == CHOOSE h : Is(h)
               h0 == [i \in 1 .. N |-> f[i]]
    <3>1. FlattenSeq(ss) = g[N]
      BY <2>2 DEF FlattenSeq
    <3>2. Is(h0)
      <4>1. \A i \in 1 .. N : h0[i] = IF i = 1 THEN ss[i] ELSE h0[i - 1] \o ss[i]
        <5> SUFFICES ASSUME NEW i \in 1 .. N
                     PROVE  h0[i] = IF i = 1 THEN ss[i] ELSE h0[i - 1] \o ss[i]
          OBVIOUS
        <5>1. CASE i = 1
          <6>1. f[1] = f[0] \o ss[1]
            <7>1. 1 \in 1 .. N /\ 1 - 1 = 0
              BY <5>1
            <7>2. f[1] = f[1 - 1] \o ss[1]
              BY <1>4, <7>1
            <7> QED
              BY <7>1, <7>2
          <6>2. ss[1] \in D
            BY <1>1, <5>1
          <6> QED
            BY <1>3, <5>1, <6>1, <6>2
        <5>2. CASE i # 1
          <6>1. i - 1 \in 1 .. N
            BY <1>1, <5>2
          <6>2. f[i] = f[i - 1] \o ss[i]
            BY <1>4
          <6> QED
            BY <5>2, <6>1, <6>2
        <5> QED
          BY <5>1, <5>2
      <4>2. h0 = [i \in 1 .. N |-> h0[i]]
        OBVIOUS
      <4> HIDE DEF h0
      <4> QED
        BY <4>1, <4>2
    <3> HIDE DEF Is
    <3>3. Is(g)
      BY <3>2
    <3> HIDE DEF g, h0
    <3>4. \A i \in 1 .. N : g[i] = IF i = 1 THEN ss[i] ELSE g[i - 1] \o ss[i]
      BY <3>3 DEF Is
    <3> DEFINE P == {n \in 0 .. N : n # 0 => g[n] = f[n]}
    <3>5. 0 \in P
      BY <1>1
    <3>6. ASSUME NEW n \in 0 .. N - 1, n \in P
          PROVE  n + 1 \in P
      <4>1. n + 1 \in 1 .. N /\ f[n + 1] = f[n] \o ss[n + 1]
        <5>1. n + 1 \in 1 .. N /\ (n + 1) - 1 = n
          BY <1>1
        <5> QED
          BY <1>4, <5>1
      <4>2. CASE n = 0
        <5>1. ss[1] \in D /\ f[0] = <<>>
          BY <1>1, <1>3, <4>1, <4>2
        <5>2. g[1] = ss[1]
          BY <3>4, <4>1, <4>2
        <5>3. n + 1 = 1
          BY <4>2
        <5>4. f[1] = ss[1]
          BY <4>1, <4>2, <5>1, <5>3
        <5> QED
          BY <4>1, <5>2, <5>3, <5>4
      <4>3. CASE n # 0
        <5>1. g[n + 1] = g[n] \o ss[n + 1]
          <6>1. n + 1 # 1 /\ (n + 1) - 1 = n
            BY <4>3
          <6> QED
            BY <3>4, <4>1, <6>1
        <5>2. g[n] = f[n]
          BY <3>6, <4>3
        <5>3. g[n + 1] = f[n + 1]
          BY <4>1, <5>1, <5>2
        <5>4. n + 1 \in 0 .. N
          BY <4>1
        <5> QED
          BY <5>3, <5>4
      <4> QED
        BY <4>2, <4>3
    <3> HIDE DEF P, N
    <3>7. \A n \in 0 .. N : n \in P
      BY <1>1, <3>5, <3>6, Climbing
    <3> QED
      BY <1>1, <2>2, <3>1, <3>7 DEF P
  <2> QED
    BY <2>1, <2>2
<1> QED
  BY <1>3, <1>4, <1>5

\* One sequence more is put at the end.
LEMMA Flattened ==
  ASSUME NEW S, NEW ss \in Seq(Seq(S)), NEW x \in Seq(S)
  PROVE  FlattenSeq(Append(ss, x)) = FlattenSeq(ss) \o x
<1> DEFINE N == Len(ss)
           tt == Append(ss, x)
<1>1. /\ N \in Nat /\ tt \in Seq(Seq(S)) /\ Len(tt) = N + 1 /\ tt[N + 1] = x
      /\ \A n \in 1 .. N : tt[n] = ss[n]
  OBVIOUS
<1>2. PICK f \in [0 .. N -> Seq(S)] :
        /\ f[0] = <<>> /\ f[N] = FlattenSeq(ss)
        /\ \A n \in 1 .. N : f[n] = f[n - 1] \o ss[n]
  BY Flat
<1> HIDE DEF tt
<1>3. PICK g \in [0 .. Len(tt) -> Seq(S)] :
        /\ g[0] = <<>> /\ g[Len(tt)] = FlattenSeq(tt)
        /\ \A n \in 1 .. Len(tt) : g[n] = g[n - 1] \o tt[n]
  BY <1>1, Flat
<1> DEFINE P == {n \in 0 .. N : f[n] = g[n]}
<1>4. 0 \in P
  BY <1>1, <1>2, <1>3
<1>5. ASSUME NEW n \in 0 .. N - 1, n \in P
      PROVE  n + 1 \in P
  <2>1. n + 1 \in 1 .. N /\ (n + 1) - 1 = n /\ n + 1 \in 1 .. Len(tt) /\ n + 1 \in 0 .. N
    BY <1>1
  <2>2. f[n + 1] = f[n] \o ss[n + 1] /\ g[n + 1] = g[n] \o tt[n + 1]
    <3>1. f[n + 1] = f[(n + 1) - 1] \o ss[n + 1]
      BY <1>2, <2>1
    <3>2. g[n + 1] = g[(n + 1) - 1] \o tt[n + 1]
      BY <1>3, <2>1
    <3> QED
      BY <2>1, <3>1, <3>2
  <2>3. tt[n + 1] = ss[n + 1] /\ f[n] = g[n]
    BY <1>1, <1>5, <2>1
  <2> QED
    BY <2>1, <2>2, <2>3
<1> HIDE DEF P, N
<1>6. \A n \in 0 .. N : n \in P
  BY <1>1, <1>4, <1>5, Climbing
<1>7. f[N] = g[N]
  BY <1>1, <1>6 DEF P
<1>8. g[N + 1] = g[N] \o x
  <2>1. N + 1 \in 1 .. Len(tt) /\ (N + 1) - 1 = N
    BY <1>1
  <2>2. g[N + 1] = g[(N + 1) - 1] \o tt[N + 1]
    BY <1>3, <2>1
  <2> QED
    BY <1>1, <2>1, <2>2
<1> QED
  BY <1>1, <1>2, <1>3, <1>7, <1>8 DEF N, tt

\* It is made of their elements.
LEMMA Flattening ==
  ASSUME NEW S, NEW ss \in Seq(Seq(S))
  PROVE  FlattenSeq(ss) \in Seq(S)
<1>1. Len(ss) \in 0 .. Len(ss)
  OBVIOUS
<1>2. PICK f \in [0 .. Len(ss) -> Seq(S)] : f[Len(ss)] = FlattenSeq(ss)
  BY Flat
<1>3. f[Len(ss)] \in Seq(S)
  BY <1>1
<1> QED
  BY <1>2, <1>3

\* after is what the bytes make of the rewriter, byte by byte.
Runs(after, policy, rw, bytes) ==
  after = [n \in 0 .. Len(bytes) |->
             IF n = 0 THEN rw ELSE Feed(policy, after[n - 1], bytes[n])]

\* Fed is Feed: a singleton has one element to choose.
LEMMA Feeding == \A policy, rw, u : Fed(policy, rw, u) = Feed(policy, rw, u)
<1> SUFFICES ASSUME NEW policy, NEW rw, NEW u
             PROVE  Fed(policy, rw, u) = Feed(policy, rw, u)
  OBVIOUS
<1> DEFINE F(r) == Feed(policy, r, u)
<1>1. Fed(policy, rw, u) = CHOOSE x \in {F(r) : r \in {rw}} : TRUE
  BY DEF Fed
<1> HIDE DEF F
<1>2. {F(r) : r \in {rw}} = {F(rw)}
  OBVIOUS
<1>3. (CHOOSE x \in {F(r) : r \in {rw}} : TRUE) = F(rw)
  BY <1>2
<1> QED
  BY <1>1, <1>3 DEF F

\* There is such a function: a shortest sequence without one could be fed one
\* byte less.
LEMMA RunsExist ==
  ASSUME NEW policy, NEW rw, NEW S, NEW bytes \in Seq(S)
  PROVE  \E after : Runs(after, policy, rw, bytes)
<1> DEFINE F(r, u) == Feed(policy, r, u)
           Is(g, m) == g = [n \in 0 .. m |-> IF n = 0 THEN rw ELSE F(g[n - 1], bytes[n])]
           Missing == {m \in Nat : ~\E g : Is(g, m)}
<1> HIDE DEF F
<1>1. Missing = {}
  <2> SUFFICES ASSUME Missing # {}
               PROVE  FALSE
    OBVIOUS
  <2>1. PICK m \in Missing : \A k \in Missing : m <= k
    BY Least
  <2>2. CASE m = 0
    <3>1. Is([n \in 0 .. 0 |-> rw], 0)
      OBVIOUS
    <3> QED
      BY <2>1, <2>2, <3>1
  <2>3. CASE m # 0
    <3>1. m - 1 \in Nat /\ m - 1 \notin Missing
      <4>1. m \in Nat
        OBVIOUS
      <4> HIDE DEF Missing
      <4>2. m - 1 \in Nat /\ ~(m <= m - 1)
        BY <2>3, <4>1
      <4> QED
        BY <2>1, <4>2
    <3>2. PICK g : Is(g, m - 1)
      <4> HIDE DEF Is
      <4> QED
        BY <3>1
    <3> DEFINE h == [n \in 0 .. m |-> IF n = m THEN F(g[m - 1], bytes[m]) ELSE g[n]]
    <3>3. \A n \in 0 .. m - 1 : g[n] = IF n = 0 THEN rw ELSE F(g[n - 1], bytes[n])
      BY <3>1, <3>2
    <3>4. \A n \in 0 .. m - 1 : h[n] = g[n]
      BY <2>1, <2>3
    <3>5. \A n \in 0 .. m : h[n] = IF n = 0 THEN rw ELSE F(h[n - 1], bytes[n])
      <4> SUFFICES ASSUME NEW n \in 0 .. m
                   PROVE  h[n] = IF n = 0 THEN rw ELSE F(h[n - 1], bytes[n])
        OBVIOUS
      <4>1. CASE n = m
        <5>1. h[n] = F(g[m - 1], bytes[m]) /\ h[m - 1] = g[m - 1]
          BY <2>1, <2>3, <3>4, <4>1
        <5> QED
          BY <2>3, <4>1, <5>1
      <4>2. CASE n # m /\ n = 0
        BY <2>1, <2>3, <3>1, <3>3, <3>4, <4>2
      <4>3. CASE n # m /\ n # 0
        <5>1. n \in 0 .. m - 1 /\ n - 1 \in 0 .. m - 1
          BY <2>1, <4>3
        <5> HIDE DEF h
        <5> QED
          BY <3>3, <3>4, <4>3, <5>1
      <4> QED
        BY <4>1, <4>2, <4>3
    <3>6. Is(h, m)
      <4>1. h = [n \in 0 .. m |-> h[n]]
        OBVIOUS
      <4> HIDE DEF h
      <4> QED
        BY <3>5, <4>1
    <3> QED
      BY <2>1, <3>6
  <2> QED
    BY <2>2, <2>3
<1>2. Len(bytes) \in Nat
  OBVIOUS
<1> QED
  BY <1>1, <1>2 DEF Runs, F

\* There is only one, and more bytes do not change what it was before them.
LEMMA RunsAgree ==
  ASSUME NEW policy, NEW rw, NEW S, NEW bytes \in Seq(S), NEW u \in S, NEW f, NEW g,
         Runs(f, policy, rw, bytes), Runs(g, policy, rw, bytes) \/ Runs(g, policy, rw, Append(bytes, u))
  PROVE  \A n \in 0 .. Len(bytes) : f[n] = g[n]
<1> DEFINE Differ == {n \in 0 .. Len(bytes) : f[n] # g[n]}
           F(r, x) == Feed(policy, r, x)
<1> HIDE DEF F
<1>0. Len(bytes) \in Nat
  OBVIOUS
<1>1. \A n \in 0 .. Len(bytes) : f[n] = IF n = 0 THEN rw ELSE F(f[n - 1], bytes[n])
  BY DEF Runs, F
<1>2. \A n \in 0 .. Len(bytes) : g[n] = IF n = 0 THEN rw ELSE F(g[n - 1], bytes[n])
  <2>1. CASE Runs(g, policy, rw, bytes)
    BY <2>1 DEF Runs, F
  <2>2. CASE Runs(g, policy, rw, Append(bytes, u))
    <3>1. Len(Append(bytes, u)) = Len(bytes) + 1
          /\ \A n \in 1 .. Len(bytes) : Append(bytes, u)[n] = bytes[n]
      OBVIOUS
    <3>2. \A n \in 0 .. Len(bytes) + 1 : g[n] = IF n = 0 THEN rw ELSE F(g[n - 1], Append(bytes, u)[n])
      BY <2>2, <3>1 DEF Runs, F
    <3> QED
      BY <1>0, <3>1, <3>2
  <2> QED
    BY <2>1, <2>2
<1> SUFFICES ASSUME Differ # {}
             PROVE  FALSE
  OBVIOUS
<1>3. PICK n \in Differ : \A k \in Differ : n <= k
  <2>1. Differ \subseteq Nat
    BY <1>0
  <2> QED
    BY <2>1, Least
<1>4. n # 0
  BY <1>0, <1>1, <1>2, <1>3
<1>5. n - 1 \in 0 .. Len(bytes) /\ n - 1 \notin Differ
  BY <1>0, <1>3, <1>4
<1> QED
  BY <1>1, <1>2, <1>3, <1>4, <1>5

\* Writing nothing changes nothing; the last byte is fed last.
LEMMA Writing ==
  ASSUME NEW policy, NEW rw, NEW S, NEW bytes \in Seq(S), NEW u \in S
  PROVE  /\ Write(policy, rw, <<>>) = rw
         /\ Write(policy, rw, Append(bytes, u)) = Feed(policy, Write(policy, rw, bytes), u)
<1> DEFINE Ran(s) == CHOOSE after : Runs(after, policy, rw, s)
<1>1. \A s : Write(policy, rw, s) = Ran(s)[Len(s)]
  <2> TAKE s
  <2>1. Write(policy, rw, s) =
          (CHOOSE after : after = [n \in 0 .. Len(s) |->
             IF n = 0 THEN rw ELSE Fed(policy, after[n - 1], s[n])])[Len(s)]
    BY DEF Write
  <2>2. \A after : (after = [n \in 0 .. Len(s) |->
             IF n = 0 THEN rw ELSE Fed(policy, after[n - 1], s[n])]) <=> Runs(after, policy, rw, s)
    BY Feeding DEF Runs
  <2> QED
    BY <2>1, <2>2
<1> HIDE DEF Ran
<1>2. ASSUME NEW s \in Seq(S)
      PROVE  Runs(Ran(s), policy, rw, s)
  BY RunsExist DEF Ran
<1>3. <<>> \in Seq(S) /\ Append(bytes, u) \in Seq(S) /\ Len(bytes) \in Nat /\ Len(<<>>) = 0
      /\ Len(Append(bytes, u)) = Len(bytes) + 1 /\ Append(bytes, u)[Len(bytes) + 1] = u
  OBVIOUS
<1>4. Write(policy, rw, <<>>) = rw
  <2>1. Runs(Ran(<<>>), policy, rw, <<>>)
    BY <1>2, <1>3
  <2>2. Ran(<<>>)[0] = rw
    BY <1>3, <2>1 DEF Runs
  <2> QED
    BY <1>1, <1>3, <2>2
<1>5. Write(policy, rw, Append(bytes, u)) = Feed(policy, Write(policy, rw, bytes), u)
  <2> DEFINE f == Ran(bytes)
             g == Ran(Append(bytes, u))
             n == Len(bytes)
             F(r, x) == Feed(policy, r, x)
  <2>1. Runs(f, policy, rw, bytes) /\ Runs(g, policy, rw, Append(bytes, u))
    BY <1>2, <1>3
  <2> HIDE DEF F, f, g
  <2>2. f[n] = g[n]
    <3>1. \A k \in 0 .. Len(bytes) : f[k] = g[k]
      BY <2>1, RunsAgree
    <3> QED
      BY <1>3, <3>1
  <2>3. g = [k \in 0 .. n + 1 |-> IF k = 0 THEN rw ELSE F(g[k - 1], Append(bytes, u)[k])]
    BY <1>3, <2>1 DEF Runs, F
  <2>4. g[n + 1] = F(g[n], u)
    BY <1>3, <2>3
  <2> QED
    BY <1>1, <1>3, <2>2, <2>4 DEF F, f, g
<1> QED
  BY <1>4, <1>5

\* The same, for no bytes at all.
LEMMA WritingNothing ==
  ASSUME NEW policy, NEW rw
  PROVE  Write(policy, rw, <<>>) = rw
<1>1. <<>> \in Seq({0}) /\ 0 \in {0}
  OBVIOUS
<1> QED
  BY <1>1, Writing

\* Writing one piece and then another is writing both at once.
LEMMA WritingOn ==
  ASSUME NEW policy, NEW rw, NEW S, NEW a \in Seq(S), NEW b \in Seq(S)
  PROVE  Write(policy, Write(policy, rw, a), b) = Write(policy, rw, a \o b)
<1> DEFINE here == Write(policy, rw, a)
           In(s) == Write(policy, here, s)
           At(s) == Write(policy, rw, s)
           F(r, u) == Feed(policy, r, u)
           to(k) == SubSeq(b, 1, k)
           Wrong == {k \in 0 .. Len(b) : In(to(k)) # At(a \o to(k))}
<1>1. In(<<>>) = At(a)
  BY WritingNothing
<1>2. ASSUME NEW s \in Seq(S), NEW u \in S
      PROVE  In(Append(s, u)) = F(In(s), u) /\ At(Append(s, u)) = F(At(s), u)
  BY <1>2, Writing
<1> HIDE DEF In, At, F, here
<1>3. Len(b) \in Nat /\ to(0) = <<>> /\ to(Len(b)) = b /\ a \o <<>> = a
  OBVIOUS
<1>4. Wrong = {}
  <2> SUFFICES ASSUME Wrong # {}
               PROVE  FALSE
    OBVIOUS
  <2>1. PICK k \in Wrong : \A j \in Wrong : k <= j
    <3>1. Wrong \subseteq Nat
      BY <1>3
    <3> HIDE DEF Wrong
    <3> QED
      BY <3>1, Least
  <2>2. k \in 0 .. Len(b) /\ In(to(k)) # At(a \o to(k))
    OBVIOUS
  <2>3. k # 0
    BY <1>1, <1>3, <2>2
  <2>4. k - 1 \in 0 .. Len(b) /\ ~(k <= k - 1)
    BY <1>3, <2>2, <2>3
  <2>5. In(to(k - 1)) = At(a \o to(k - 1))
    BY <2>1, <2>4
  <2>6. /\ to(k - 1) \in Seq(S) /\ b[k] \in S
        /\ to(k) = Append(to(k - 1), b[k])
    BY <1>3, <2>2, <2>3
  <2> HIDE DEF to
  <2>7. a \o to(k) = Append(a \o to(k - 1), b[k]) /\ a \o to(k - 1) \in Seq(S)
    BY <2>6
  <2> QED
    BY <1>2, <2>2, <2>5, <2>6, <2>7
<1>5. Len(b) \in 0 .. Len(b) /\ Len(b) \notin Wrong
  BY <1>3, <1>4
<1>6. In(to(Len(b))) = At(a \o to(Len(b)))
  BY <1>5
<1> QED
  BY <1>3, <1>6 DEF In, At, here

\* What the bytes of a document are: every tag among them is one of its tags.
UnitsOf(doc) ==
  LET tokens == {doc[i] : i \in DOMAIN doc}
  IN  {[kind |-> "tag", tag |-> t] : t \in {t \in tokens : t.kind # "char"}}
      \cup {[kind |-> "gt"]} \cup {t \in tokens : t.kind = "char"}
      \cup {[kind |-> "lead", c |-> t.c] : t \in tokens}
      \cup {[kind |-> "cont", c |-> t.c] : t \in tokens}

\* Units spells a document with these.
LEMMA Spelling ==
  ASSUME NEW T, NEW doc \in Seq(T)
  PROVE  Units(doc) \in Seq(UnitsOf(doc))
<1> DEFINE U == UnitsOf(doc)
           bytes(t) == IF t.kind # "char" THEN <<[kind |-> "tag", tag |-> t], [kind |-> "gt"]>>
                       ELSE IF t.c \in Wide THEN <<[kind |-> "lead", c |-> t.c], [kind |-> "cont", c |-> t.c]>>
                       ELSE <<t>>
           ss == [i \in DOMAIN doc |-> bytes(doc[i])]
<1>1. ASSUME NEW i \in DOMAIN doc
      PROVE  bytes(doc[i]) \in Seq(U)
  <2> DEFINE t == doc[i]
  <2>0. t \in {doc[j] : j \in DOMAIN doc}
    OBVIOUS
  <2> HIDE DEF t
  <2>1. [kind |-> "gt"] \in U /\ [kind |-> "lead", c |-> t.c] \in U /\ [kind |-> "cont", c |-> t.c] \in U
    BY <2>0 DEF UnitsOf
  <2>2. t.kind # "char" => [kind |-> "tag", tag |-> t] \in U
    BY <2>0 DEF UnitsOf
  <2>3. t.kind = "char" => t \in U
    BY <2>0 DEF UnitsOf
  <2> HIDE DEF U
  <2>4. bytes(t) \in Seq(U)
    BY <2>1, <2>2, <2>3
  <2> QED
    BY <2>4 DEF t
<1>2. Units(doc) = FlattenSeq(ss)
  BY DEF Units
<1> HIDE DEF bytes, U
<1>3. ss \in Seq(Seq(U))
  BY <1>1
<1> HIDE DEF ss
<1> QED
  BY <1>2, <1>3, Flattening DEF U

-----------------------------------------------------------------------------
\* Tags and characters.
Tokens(s) == \E T : s \in Seq(T) /\ \A t \in T : t.kind \in {"start", "end", "char"}

\* t continues s.
Continues(t, s) == Len(s) <= Len(t) /\ \A i \in 1 .. Len(s) : t[i] = s[i]

Rewriter(rw) ==
  /\ \E tag, open, out, blocked : rw = [tag |-> tag, open |-> open, out |-> out, blocked |-> blocked]
  /\ rw.tag # NoTag => rw.tag.kind \in {"start", "end"}
  /\ Tokens(rw.out)

\* Only tags are put together from the bytes of a tag.
Unit(u) == u.kind = "tag" => u.tag.kind \in {"start", "end"}

\* No tokens are tokens.
LEMMA NoTokens == Tokens(<<>>)
<1> DEFINE T == {}
<1>1. <<>> \in Seq(T) /\ \A t \in T : t.kind \in {"start", "end", "char"}
  OBVIOUS
<1> HIDE DEF T
<1> QED
  BY <1>1 DEF Tokens

\* One token alone.
LEMMA OneToken ==
  ASSUME NEW t, t.kind \in {"start", "end", "char"}
  PROVE  Tokens(<<t>>)
<1> DEFINE T == {t}
<1>1. <<t>> \in Seq(T) /\ \A x \in T : x.kind \in {"start", "end", "char"}
  OBVIOUS
<1> HIDE DEF T
<1> QED
  BY <1>1 DEF Tokens

\* What is emitted comes after what went to the sink before.
LEMMA Emitting ==
  ASSUME NEW rw, NEW tokens, Tokens(rw.out), Tokens(tokens)
  PROVE  Tokens(Emit(rw, tokens)) /\ Continues(Emit(rw, tokens), rw.out)
<1> DEFINE a == rw.out
<1>1. PICK A : a \in Seq(A) /\ \A t \in A : t.kind \in {"start", "end", "char"}
  BY DEF Tokens
<1>2. PICK B : tokens \in Seq(B) /\ \A t \in B : t.kind \in {"start", "end", "char"}
  BY DEF Tokens
<1>3. Emit(rw, tokens) = a \/ Emit(rw, tokens) = a \o tokens
  BY DEF Emit
<1> HIDE DEF a
<1> DEFINE C == A \cup B
<1>4. a \in Seq(C) /\ tokens \in Seq(C) /\ \A t \in C : t.kind \in {"start", "end", "char"}
  <2>1. A \subseteq C /\ B \subseteq C
    OBVIOUS
  <2>2. \A t \in C : t.kind \in {"start", "end", "char"}
    BY <1>1, <1>2
  <2> HIDE DEF C
  <2> QED
    BY <1>1, <1>2, <2>1, <2>2, SeqMonotonic
<1> HIDE DEF C
<1>5. /\ a \o tokens \in Seq(C)
      /\ Len(a) <= Len(a \o tokens)
      /\ \A i \in 1 .. Len(a) : (a \o tokens)[i] = a[i]
  BY <1>4
<1>6. Tokens(a) /\ Tokens(a \o tokens)
  BY <1>4, <1>5 DEF Tokens
<1>7. Continues(a, a) /\ Continues(a \o tokens, a)
  BY <1>4, <1>5 DEF Continues
<1> QED
  BY <1>3, <1>6, <1>7 DEF a

\* The display handlers put tags in place of a start tag, or nothing.
LEMMA Display ==
  ASSUME NEW el
  PROVE  Tokens(Handler("display", el).start)
<1>1. Handler("display", el) = display(el)
  BY DEF Handler
<1>2. CASE el.name \in Dangerous \cup {"img"}
  <2>1. Handler("display", el).start = <<>>
    BY <1>1, <1>2 DEF display, Removed
  <2> QED
    BY <2>1, NoTokens
<1>3. CASE el.name \notin Dangerous \cup {"img"}
  <2> DEFINE t == StartTag(el.name, Only(Hygiene(el), DOMAIN Hygiene(el) \ EventAttrs))
  <2>1. Handler("display", el).start = <<t>>
    BY <1>1, <1>3 DEF display, Kept
  <2>2. t.kind = "start"
    BY DEF StartTag
  <2> HIDE DEF t
  <2> QED
    BY <2>1, <2>2, OneToken
<1> QED
  BY <1>2, <1>3

\* A rewriter with other open elements, another sink or no tag is one.
LEMMA Altering ==
  ASSUME NEW rw, Rewriter(rw), NEW open, NEW out, Tokens(out)
  PROVE  /\ Rewriter([rw EXCEPT !.out = out])
         /\ Rewriter([rw EXCEPT !.open = open])
         /\ Rewriter([rw EXCEPT !.tag = NoTag])
         /\ [rw EXCEPT !.out = out].out = out
         /\ [rw EXCEPT !.open = open].out = rw.out
         /\ [rw EXCEPT !.tag = NoTag].out = rw.out
<1>1. PICK t, o, s, b : rw = [tag |-> t, open |-> o, out |-> s, blocked |-> b]
  BY DEF Rewriter
<1>2. /\ [rw EXCEPT !.out = out] = [tag |-> t, open |-> o, out |-> out, blocked |-> b]
      /\ [rw EXCEPT !.open = open] = [tag |-> t, open |-> open, out |-> s, blocked |-> b]
      /\ [rw EXCEPT !.tag = NoTag] = [tag |-> NoTag, open |-> o, out |-> s, blocked |-> b]
  <2>1. [rw EXCEPT !.out = out] = [tag |-> t, open |-> o, out |-> out, blocked |-> b]
    BY <1>1
  <2>2. [rw EXCEPT !.open = open] = [tag |-> t, open |-> open, out |-> s, blocked |-> b]
    BY <1>1
  <2>3. [rw EXCEPT !.tag = NoTag] = [tag |-> NoTag, open |-> o, out |-> s, blocked |-> b]
    BY <1>1
  <2> QED
    BY <2>1, <2>2, <2>3
<1>3. rw.tag = t /\ rw.out = s /\ Tokens(s) /\ (t # NoTag => t.kind \in {"start", "end"})
  BY <1>1 DEF Rewriter
<1>4. ASSUME NEW x, NEW y, NEW z, NEW w, Tokens(z), x # NoTag => x.kind \in {"start", "end"}
      PROVE  Rewriter([tag |-> x, open |-> y, out |-> z, blocked |-> w])
  BY <1>4 DEF Rewriter
<1> QED
  BY <1>2, <1>3, <1>4

\* What a start tag leaves.
Opened(rw, open, out, blocked) == [rw EXCEPT !.out = out, !.blocked = blocked, !.open = open]

\* That is a rewriter, with the sink it was given.
LEMMA Opening ==
  ASSUME NEW rw, Rewriter(rw), NEW open, NEW out, NEW blocked, Tokens(out)
  PROVE  Rewriter(Opened(rw, open, out, blocked)) /\ Opened(rw, open, out, blocked).out = out
<1> DEFINE x == Opened(rw, open, out, blocked)
<1>1. PICK t, o, s, b : rw = [tag |-> t, open |-> o, out |-> s, blocked |-> b]
  BY DEF Rewriter
<1>2. x = [[[rw EXCEPT !.out = out] EXCEPT !.blocked = blocked] EXCEPT !.open = open]
  BY DEF Opened
<1> HIDE DEF x
<1>3. [rw EXCEPT !.out = out] = [tag |-> t, open |-> o, out |-> out, blocked |-> b]
  BY <1>1
<1>4. [[tag |-> t, open |-> o, out |-> out, blocked |-> b] EXCEPT !.blocked = blocked]
        = [tag |-> t, open |-> o, out |-> out, blocked |-> blocked]
  OBVIOUS
<1>5. [[tag |-> t, open |-> o, out |-> out, blocked |-> blocked] EXCEPT !.open = open]
        = [tag |-> t, open |-> open, out |-> out, blocked |-> blocked]
  OBVIOUS
<1>6. x = [tag |-> t, open |-> open, out |-> out, blocked |-> blocked]
  BY <1>2, <1>3, <1>4, <1>5
<1>7. rw.tag = t /\ (t # NoTag => t.kind \in {"start", "end"})
  BY <1>1 DEF Rewriter
<1>8. ASSUME NEW p, NEW q, NEW z, NEW w, Tokens(z), p # NoTag => p.kind \in {"start", "end"}
      PROVE  Rewriter([tag |-> p, open |-> q, out |-> z, blocked |-> w])
  BY <1>8 DEF Rewriter
<1> QED
  BY <1>6, <1>7, <1>8 DEF x

\* A byte keeps a rewriter one, and what went to the sink stays there.
LEMMA FeedKeeps ==
  ASSUME NEW rw, Rewriter(rw), NEW u, Unit(u)
  PROVE  /\ Rewriter(Feed("display", rw, u))
         /\ Continues(Feed("display", rw, u).out, rw.out)
<1>0. Tokens(rw.out) /\ Continues(rw.out, rw.out)
  <2>1. Tokens(rw.out)
    BY DEF Rewriter
  <2> QED
    BY <2>1 DEF Tokens, Continues
<1>1. ASSUME NEW c, NEW r, Rewriter(r)
      PROVE  /\ Rewriter(OnText("display", r, c))
             /\ Continues(OnText("display", r, c).out, r.out)
  <2>0. Tokens(r.out) /\ Continues(r.out, r.out)
    <3>1. Tokens(r.out)
      BY <1>1 DEF Rewriter
    <3> QED
      BY <3>1 DEF Tokens, Continues
  <2> DEFINE e == Emit(r, <<Char(c)>>)
  <2>1. Tokens(<<Char(c)>>)
    <3>1. Char(c).kind = "char"
      BY DEF Char
    <3> QED
      BY <3>1, OneToken
  <2>2. Tokens(e) /\ Continues(e, r.out)
    BY <2>0, <2>1, Emitting
  <2>3. OnText("display", r, c) = r \/ OnText("display", r, c) = [r EXCEPT !.out = e]
    BY DEF OnText
  <2> HIDE DEF e
  <2>4. Rewriter([r EXCEPT !.out = e]) /\ [r EXCEPT !.out = e].out = e
    BY <1>1, <2>2, Altering
  <2> QED
    BY <1>1, <2>0, <2>2, <2>3, <2>4
<1>2. ASSUME NEW t, NEW r, Rewriter(r)
      PROVE  /\ Rewriter(OnTag("display", r, t))
             /\ Continues(OnTag("display", r, t).out, r.out)
  <2>0. Tokens(r.out) /\ Continues(r.out, r.out)
    <3>1. Tokens(r.out)
      BY <1>2 DEF Rewriter
    <3> QED
      BY <3>1 DEF Tokens, Continues
  <2>1. CASE t.kind = "start"
    <3> DEFINE h == Handler("display", t)
               e == Emit(r, h.start)
               b == r.blocked \/ IsBlocked("display", t)
               o == IF t.name \in Void THEN r.open
                    ELSE Append(r.open, [name |-> t.name, drops |-> h.drops, end |-> h.end])
    <3>1. OnTag("display", r, t) = Opened(r, o, e, b)
      BY <2>1 DEF OnTag, OnStart, Opened
    <3>2. Tokens(e) /\ Continues(e, r.out)
      BY <2>0, Display, Emitting
    <3> HIDE DEF e, b, o
    <3>3. Rewriter(Opened(r, o, e, b)) /\ Opened(r, o, e, b).out = e
      BY <1>2, <3>2, Opening
    <3> QED
      BY <3>1, <3>2, <3>3
  <2>2. CASE t.kind # "start"
    <3> DEFINE match == SelectLastInSeq(r.open, LAMBDA e : e.name = t.name)
               under == SubSeq(r.open, 1, match - 1)
               below == [r EXCEPT !.open = under]
               ends  == {r.open[i].end : i \in match .. Len(r.open)}
               named == CASE match = 0    -> t.name
                          [] Gone \in ends -> Gone
                          [] "p" \in ends  -> "p"
                          [] OTHER         -> t.name
               a == Emit(r, <<EndTag(t.name)>>)
               b == IF named = Gone THEN below.out ELSE Emit(below, <<EndTag(named)>>)
    <3>1. OnTag("display", r, t) = IF match = 0 THEN [r EXCEPT !.out = a] ELSE [below EXCEPT !.out = b]
      BY <2>2 DEF OnTag, OnEnd
    <3> HIDE DEF match, named
    <3>2. Rewriter(below) /\ below.out = r.out
      <4> HIDE DEF under
      <4> QED
        BY <1>2, <2>0, Altering
    <3>3. \A name : Tokens(<<EndTag(name)>>)
      <4>1. \A name : EndTag(name).kind = "end"
        BY DEF EndTag
      <4> QED
        BY <4>1, OneToken
    <3>4. Tokens(a) /\ Continues(a, r.out)
      BY <2>0, <3>3, Emitting
    <3> HIDE DEF below
    <3>5. Tokens(b) /\ Continues(b, r.out)
      BY <2>0, <3>2, <3>3, Emitting
    <3> HIDE DEF a, b
    <3>6. Rewriter([r EXCEPT !.out = a]) /\ [r EXCEPT !.out = a].out = a
      BY <1>2, <3>4, Altering
    <3>7. Rewriter([below EXCEPT !.out = b]) /\ [below EXCEPT !.out = b].out = b
      BY <3>2, <3>5, Altering
    <3> QED
      BY <3>1, <3>4, <3>5, <3>6, <3>7
  <2> QED
    BY <2>1, <2>2
<1>3. CASE u.kind = "tag" /\ rw.tag = NoTag
  <2>1. Feed("display", rw, u) = [rw EXCEPT !.tag = u.tag]
    BY <1>3 DEF Feed
  <2>2. u.tag.kind \in {"start", "end"}
    BY <1>3 DEF Unit
  <2>3. PICK t, o, s, b : rw = [tag |-> t, open |-> o, out |-> s, blocked |-> b]
    BY DEF Rewriter
  <2>4. [rw EXCEPT !.tag = u.tag] = [tag |-> u.tag, open |-> o, out |-> s, blocked |-> b]
    BY <2>3
  <2> QED
    BY <1>0, <2>1, <2>2, <2>3, <2>4 DEF Rewriter
<1>4. CASE u.kind = "gt" /\ rw.tag # NoTag
  <2> DEFINE r == [rw EXCEPT !.tag = NoTag]
             t == rw.tag
  <2>1. Feed("display", rw, u) = OnTag("display", r, t)
    BY <1>4 DEF Feed
  <2>2. Rewriter(r) /\ r.out = rw.out
    BY <1>0, Altering
  <2> HIDE DEF r, t
  <2> QED
    BY <1>2, <2>1, <2>2
<1>5. CASE u.kind = "gt" /\ rw.tag = NoTag
  <2>1. Feed("display", rw, u) = OnText("display", rw, ">")
    BY <1>5 DEF Feed
  <2> QED
    BY <1>1, <2>1
<1>6. CASE u.kind \in {"char", "cont"} /\ rw.tag = NoTag
  <2>1. Feed("display", rw, u) = OnText("display", rw, u.c)
    BY <1>6 DEF Feed
  <2> QED
    BY <1>1, <2>1
<1>7. CASE /\ ~(u.kind = "tag" /\ rw.tag = NoTag)
           /\ u.kind # "gt"
           /\ ~(u.kind \in {"char", "cont"} /\ rw.tag = NoTag)
  <2>1. Feed("display", rw, u) = rw
    BY <1>7 DEF Feed
  <2> QED
    BY <1>0, <2>1
<1> QED
  BY <1>3, <1>4, <1>5, <1>6, <1>7

\* So do any number of bytes.
LEMMA WritingKeeps ==
  ASSUME NEW rw, Rewriter(rw), NEW S, NEW bytes \in Seq(S), \A u \in S : Unit(u)
  PROVE  /\ Rewriter(Write("display", rw, bytes))
         /\ Continues(Write("display", rw, bytes).out, rw.out)
<1> DEFINE At(s) == Write("display", rw, s)
           F(r, u) == Feed("display", r, u)
           to(k) == SubSeq(bytes, 1, k)
           Good(r) == Rewriter(r) /\ Continues(r.out, rw.out)
           Bad == {k \in 0 .. Len(bytes) : ~Good(At(to(k)))}
<1>1. At(<<>>) = rw /\ \A s \in Seq(S), u \in S : At(Append(s, u)) = F(At(s), u)
  BY WritingNothing, Writing
<1>2. Good(rw)
  <2>1. Tokens(rw.out)
    BY DEF Rewriter
  <2> QED
    BY <2>1 DEF Tokens, Continues
<1>3. ASSUME NEW r, Good(r), NEW u \in S
      PROVE  Good(F(r, u))
  <2>1. Rewriter(F(r, u)) /\ Continues(F(r, u).out, r.out)
    BY <1>3, FeedKeeps
  <2> HIDE DEF F
  <2>2. Continues(r.out, rw.out) /\ Tokens(rw.out) /\ Tokens(r.out)
    BY <1>3 DEF Rewriter
  <2>3. Continues(F(r, u).out, rw.out)
    BY <2>1, <2>2 DEF Continues, Tokens
  <2> QED
    BY <2>1, <2>3
<1> HIDE DEF At, F, Good
<1>4. Len(bytes) \in Nat /\ to(0) = <<>> /\ to(Len(bytes)) = bytes
  OBVIOUS
<1>5. Bad = {}
  <2> SUFFICES ASSUME Bad # {}
               PROVE  FALSE
    OBVIOUS
  <2>1. PICK k \in Bad : \A j \in Bad : k <= j
    <3>1. Bad \subseteq Nat
      OBVIOUS
    <3> HIDE DEF Bad
    <3> QED
      BY <3>1, Least
  <2>2. k \in 0 .. Len(bytes) /\ ~Good(At(to(k)))
    OBVIOUS
  <2>3. k # 0
    BY <1>1, <1>2, <1>4, <2>2
  <2>4. k - 1 \in 0 .. Len(bytes) /\ ~(k <= k - 1)
    BY <1>4, <2>2, <2>3
  <2>5. Good(At(to(k - 1)))
    BY <2>1, <2>4
  <2>6. /\ to(k - 1) \in Seq(S) /\ bytes[k] \in S
        /\ to(k) = Append(to(k - 1), bytes[k])
    BY <1>4, <2>2, <2>3
  <2> HIDE DEF to
  <2> QED
    BY <1>1, <1>3, <2>2, <2>5, <2>6
<1>6. Len(bytes) \in 0 .. Len(bytes)
  BY <1>4
<1>7. Good(At(to(Len(bytes))))
  BY <1>5, <1>6
<1> QED
  BY <1>4, <1>7 DEF Good, At

\* What was handed out and what is new since are the whole sink.
LEMMA Completing ==
  ASSUME NEW s, NEW t, Tokens(s), Tokens(t), Continues(t, s)
  PROVE  s \o SubSeq(t, Len(s) + 1, Len(t)) = t
<1>1. PICK A : s \in Seq(A)
  BY DEF Tokens
<1>2. PICK B : t \in Seq(B)
  BY DEF Tokens
<1>3. Len(s) \in Nat /\ Len(t) \in Nat /\ Len(s) <= Len(t) /\ \A i \in 1 .. Len(s) : t[i] = s[i]
  BY <1>1, <1>2 DEF Continues
<1>4. s = SubSeq(t, 1, Len(s))
  BY <1>1, <1>2, <1>3
<1>5. SubSeq(t, 1, Len(s)) \o SubSeq(t, Len(s) + 1, Len(t)) = SubSeq(t, 1, Len(t))
  <2>1. 1 \in 1 .. Len(t) + 1 /\ Len(s) \in 1 - 1 .. Len(t) /\ Len(t) \in Len(s) .. Len(t)
    BY <1>3
  <2> QED
    BY <1>2, <2>1, ConcatAdjacentSubSeq
<1>6. SubSeq(t, 1, Len(t)) = t
  BY <1>2
<1> QED
  BY <1>4, <1>5, <1>6

\* What is continued is a prefix.
LEMMA Beginning ==
  ASSUME NEW s, NEW t, Tokens(s), Tokens(t), Continues(t, s)
  PROVE  IsPrefix(s, t)
<1>1. PICK A : s \in Seq(A)
  BY DEF Tokens
<1>2. PICK B : t \in Seq(B)
  BY DEF Tokens
<1>3. Len(s) \in Nat /\ Len(t) \in Nat /\ Len(s) <= Len(t) /\ \A i \in 1 .. Len(s) : t[i] = s[i]
  BY <1>1, <1>2 DEF Continues
<1>4. SubSeq(s, 1, Len(s)) = SubSeq(t, 1, Len(s))
  BY <1>1, <1>2, <1>3
<1> QED
  BY <1>3, <1>4 DEF IsPrefix

\* The bytes of a document that arrives.
LEMMA Bytes ==
  ASSUME NEW doc \in Docs
  PROVE  /\ Units(doc) \in Seq(UnitsOf(doc))
         /\ \A u \in UnitsOf(doc) : Unit(u)
         /\ Len(Units(doc)) \in Nat
         /\ Tokens(doc) /\ doc # NoHtml
<1> DEFINE T == {doc[i] : i \in DOMAIN doc}
<1>1. doc \in Seq(T) /\ \A t \in T : t.kind \in {"start", "end", "char"}
  BY DocsAssumption DEF Document, Token
<1>2. Units(doc) \in Seq(UnitsOf(doc))
  BY <1>1, Spelling
<1>3. \A u \in UnitsOf(doc) : Unit(u)
  BY <1>1 DEF UnitsOf, Unit
<1> HIDE DEF T
<1>4. Tokens(doc)
  BY <1>1 DEF Tokens
<1>5. doc # NoHtml
  <2>1. NoHtml[1].kind = "nothing stored" /\ 1 \in DOMAIN NoHtml
    <3> DEFINE none == [kind |-> "nothing stored"]
    <3>1. none.kind = "nothing stored"
      OBVIOUS
    <3>2. NoHtml = <<none>>
      BY DEF NoHtml
    <3>3. \A r : <<r>>[1] = r /\ 1 \in DOMAIN <<r>>
      OBVIOUS
    <3> HIDE DEF none
    <3>4. <<none>>[1] = none /\ 1 \in DOMAIN <<none>>
      BY <3>3
    <3> QED
      BY <3>1, <3>2, <3>4
  <2>2. \A i \in DOMAIN doc : doc[i].kind # "nothing stored"
    BY DocsAssumption DEF Document, Token
  <2> QED
    BY <2>1, <2>2
<1> QED
  BY <1>2, <1>3, <1>4, <1>5

\* A stream begins with an empty sink.
LEMMA FreshRewriter == Rewriter(HtmlRewriter) /\ HtmlRewriter.out = <<>>
<1>1. HtmlRewriter = [tag |-> NoTag, open |-> <<>>, out |-> <<>>, blocked |-> FALSE]
  BY DEF HtmlRewriter
<1> QED
  BY <1>1, NoTokens DEF Rewriter

-----------------------------------------------------------------------------
\* The bytes of one token.
BytesOf(t) ==
  IF t.kind # "char" THEN <<[kind |-> "tag", tag |-> t], [kind |-> "gt"]>>
  ELSE IF t.c \in Wide THEN <<[kind |-> "lead", c |-> t.c], [kind |-> "cont", c |-> t.c]>>
  ELSE <<t>>

\* The bytes of one more token come at the end.
LEMMA UnitsOn ==
  ASSUME NEW T, NEW s \in Seq(T), NEW t \in T
  PROVE  /\ Units(<<>>) = <<>>
         /\ Units(Append(s, t)) = Units(s) \o BytesOf(t)
         /\ \E U : Units(s) \in Seq(U) /\ BytesOf(t) \in Seq(U)
<1> DEFINE U == {[kind |-> "tag", tag |-> x] : x \in T} \cup {[kind |-> "gt"]} \cup T
                \cup {[kind |-> "lead", c |-> x.c] : x \in T} \cup {[kind |-> "cont", c |-> x.c] : x \in T}
           of(d) == [i \in DOMAIN d |-> BytesOf(d[i])]
<1>1. \A x \in T : BytesOf(x) \in Seq(U)
  <2> SUFFICES ASSUME NEW x \in T
               PROVE  BytesOf(x) \in Seq(U)
    OBVIOUS
  <2>1. /\ [kind |-> "tag", tag |-> x] \in U /\ [kind |-> "gt"] \in U /\ x \in U
        /\ [kind |-> "lead", c |-> x.c] \in U /\ [kind |-> "cont", c |-> x.c] \in U
    OBVIOUS
  <2> HIDE DEF U
  <2> QED
    BY <2>1 DEF BytesOf
<1>2. \A d : Units(d) = FlattenSeq(of(d))
  BY DEF Units, BytesOf
<1> HIDE DEF U
<1>3. of(s) \in Seq(Seq(U)) /\ BytesOf(t) \in Seq(U)
  <2>1. \A i \in DOMAIN s : BytesOf(s[i]) \in Seq(U)
    BY <1>1
  <2> DEFINE V == Seq(U)
  <2> HIDE DEF V
  <2>2. of(s) \in Seq(V)
    BY <2>1 DEF V
  <2> QED
    BY <1>1, <2>2 DEF V
<1>4. of(Append(s, t)) = Append(of(s), BytesOf(t))
  <2> DEFINE F(x) == BytesOf(x)
             a == [i \in DOMAIN Append(s, t) |-> F(Append(s, t)[i])]
             b == Append([i \in DOMAIN s |-> F(s[i])], F(t))
  <2> HIDE DEF F
  <2>1. a = b
    OBVIOUS
  <2> QED
    BY <2>1 DEF F
<1>5. of(<<>>) = <<>> /\ Len(<<>>) = 0
  OBVIOUS
<1> HIDE DEF of
<1>6. Units(<<>>) = <<>>
  BY <1>2, <1>5 DEF FlattenSeq
<1>7. Units(Append(s, t)) = Units(s) \o BytesOf(t)
  BY <1>2, <1>3, <1>4, Flattened
<1>8. Units(s) \in Seq(U)
  BY <1>2, <1>3, Flattening
<1> QED
  BY <1>3, <1>6, <1>7, <1>8

-----------------------------------------------------------------------------
(* The rewriter, token by token. *)

\* Between two tokens.
Between(rw) == rw = [tag |-> NoTag, open |-> rw.open, out |-> rw.out, blocked |-> rw.blocked]

OnToken(p, rw, t) == IF t.kind = "char" THEN OnText(p, rw, t.c) ELSE OnTag(p, rw, t)

\* A second element.
LEMMA Pairing == \A a, b : Append(<<a>>, b) = <<a, b>>
<1> SUFFICES ASSUME NEW a, NEW b
             PROVE  Append(<<a>>, b) = <<a, b>>
  OBVIOUS
<1> DEFINE S == {a, b}
           x == Append(<<a>>, b)
           y == <<a, b>>
<1>1. a \in S /\ b \in S
  OBVIOUS
<1> HIDE DEF S
<1>2. <<a>> \in Seq(S) /\ Len(<<a>>) = 1 /\ <<a>>[1] = a
  BY <1>1
<1>3. x \in Seq(S) /\ Len(x) = 2 /\ x[1] = a /\ x[2] = b
  BY <1>1, <1>2
<1>4. y \in Seq(S) /\ Len(y) = 2 /\ y[1] = a /\ y[2] = b
  BY <1>1
<1> HIDE DEF x, y
<1>5. \A i \in 1 .. 2 : x[i] = y[i]
  <2>1. \A i \in 1 .. 2 : i = 1 \/ i = 2
    OBVIOUS
  <2> QED
    BY <1>3, <1>4, <2>1
<1>6. x = y
  BY <1>3, <1>4, <1>5, SeqEqual
<1> QED
  BY <1>6 DEF x, y

\* The bytes of a token do what the token does.
LEMMA WritingToken ==
  ASSUME NEW p, NEW rw, Between(rw), NEW t, t.kind \in {"start", "end", "char"}
  PROVE  Write(p, rw, BytesOf(t)) = OnToken(p, rw, t)
<1> DEFINE F(r, u) == Feed(p, r, u)
           W(x) == Write(p, rw, x)
<1>0. ASSUME NEW S, NEW x \in Seq(S), NEW u \in S
      PROVE  W(Append(x, u)) = F(W(x), u)
  BY <1>0, Writing
<1>00. W(<<>>) = rw
  BY WritingNothing
<1> HIDE DEF F, W
<1>1. ASSUME NEW a
      PROVE  W(<<a>>) = F(rw, a)
  <2> DEFINE S == {a}
             n == <<>>
  <2>1. n \in Seq(S) /\ a \in S /\ Append(n, a) = <<a>>
    OBVIOUS
  <2>2. W(n) = rw
    BY <1>00
  <2> HIDE DEF S, n
  <2>3. W(Append(n, a)) = F(W(n), a)
    BY <1>0, <2>1
  <2> QED
    BY <2>1, <2>2, <2>3
<1>2. ASSUME NEW a, NEW b
      PROVE  W(<<a, b>>) = F(F(rw, a), b)
  <2> DEFINE S == {a, b}
             n == <<a>>
  <2>1. n \in Seq(S) /\ b \in S
    OBVIOUS
  <2>2. Append(n, b) = <<a, b>>
    BY Pairing
  <2>3. W(n) = F(rw, a)
    BY <1>1
  <2> HIDE DEF S, n
  <2>4. W(Append(n, b)) = F(W(n), b)
    BY <1>0, <2>1
  <2> QED
    BY <2>2, <2>3, <2>4
<1>3. rw.tag = NoTag
  BY DEF Between
<1>4. CASE t.kind # "char"
  <2> DEFINE u == [kind |-> "tag", tag |-> t]
             g == [kind |-> "gt"]
             r == [rw EXCEPT !.tag = t]
  <2>1. BytesOf(t) = <<u, g>>
    BY <1>4 DEF BytesOf
  <2>2. F(rw, u) = r
    BY <1>3 DEF F, Feed
  <2>3. r.tag = t /\ [r EXCEPT !.tag = NoTag] = rw
    <3>1. r = [tag |-> t, open |-> rw.open, out |-> rw.out, blocked |-> rw.blocked]
      BY DEF Between
    <3> HIDE DEF r
    <3>2. [r EXCEPT !.tag = NoTag] = [tag |-> NoTag, open |-> rw.open, out |-> rw.out, blocked |-> rw.blocked]
      BY <3>1
    <3>3. r.tag = t
      BY <3>1
    <3> QED
      BY <3>2, <3>3 DEF Between
  <2>4. t # NoTag
    BY DEF NoTag
  <2> HIDE DEF r
  <2>5. F(r, g) = OnTag(p, rw, t)
    BY <2>3, <2>4 DEF F, Feed
  <2> HIDE DEF u, g
  <2>6. W(<<u, g>>) = F(F(rw, u), g)
    BY <1>2
  <2> QED
    BY <1>4, <2>1, <2>2, <2>5, <2>6 DEF OnToken, W
<1>5. CASE t.kind = "char" /\ t.c \in Wide
  <2> DEFINE u == [kind |-> "lead", c |-> t.c]
             g == [kind |-> "cont", c |-> t.c]
  <2>1. BytesOf(t) = <<u, g>>
    BY <1>5 DEF BytesOf
  <2>2. F(rw, u) = rw
    BY <1>3 DEF F, Feed
  <2>3. F(rw, g) = OnText(p, rw, t.c)
    BY <1>3 DEF F, Feed
  <2> HIDE DEF u, g
  <2>4. W(<<u, g>>) = F(F(rw, u), g)
    BY <1>2
  <2> QED
    BY <1>5, <2>1, <2>2, <2>3, <2>4 DEF OnToken, W
<1>6. CASE t.kind = "char" /\ t.c \notin Wide
  <2>1. BytesOf(t) = <<t>>
    BY <1>6 DEF BytesOf
  <2>2. F(rw, t) = OnText(p, rw, t.c)
    BY <1>3, <1>6 DEF F, Feed
  <2> QED
    BY <1>1, <1>6, <2>1, <2>2 DEF OnToken, W
<1> QED
  BY <1>4, <1>5, <1>6

\* What is in the sink when these tokens come after out.
Put(open, out, tokens) == IF Silent(open) THEN out ELSE out \o tokens

\* The element an end tag of this name closes; what the tag becomes when
\* these are the end names of what it closes.
LastOf(open, name) == SelectLastInSeq(open, LAMBDA e : e.name = name)
EndsFrom(open, m) == {open[i].end : i \in m .. Len(open)}
EndName(ends, name) ==
  CASE Gone \in ends -> Gone
    [] "p" \in ends  -> "p"
    [] OTHER         -> name

\* A rewriter between two tokens, written out; its fields can be replaced.
Rec(o, s, b) == [tag |-> NoTag, open |-> o, out |-> s, blocked |-> b]

\* These are its fields.
LEMMA Records ==
  /\ \A o, s, b : Between(Rec(o, s, b)) /\ Rec(o, s, b).open = o /\ Rec(o, s, b).out = s
  /\ \A o, s, b, x : [Rec(o, s, b) EXCEPT !.out = x] = Rec(o, x, b)
  /\ \A o, s, b, x : [Rec(o, s, b) EXCEPT !.open = x] = Rec(x, s, b)
  /\ \A o, s, b, x : [Rec(o, s, b) EXCEPT !.blocked = x] = Rec(o, s, x)
<1>1. \A o, s, b : Between(Rec(o, s, b)) /\ Rec(o, s, b).open = o /\ Rec(o, s, b).out = s
  BY DEF Rec, Between
<1>2. \A o, s, b, x : [Rec(o, s, b) EXCEPT !.out = x] = Rec(o, x, b)
  BY DEF Rec
<1>3. \A o, s, b, x : [Rec(o, s, b) EXCEPT !.open = x] = Rec(x, s, b)
  BY DEF Rec
<1>4. \A o, s, b, x : [Rec(o, s, b) EXCEPT !.blocked = x] = Rec(o, s, x)
  BY DEF Rec
<1> QED
  BY <1>1, <1>2, <1>3, <1>4

\* A character is shown or not.
LEMMA CharDoes ==
  ASSUME NEW p, NEW rw, Between(rw), NEW t, t.kind = "char"
  PROVE  LET new == OnToken(p, rw, t)
         IN  /\ Between(new) /\ new.open = rw.open
             /\ new.out = IF Shows(p, t.c) THEN Put(rw.open, rw.out, <<Char(t.c)>>) ELSE rw.out
<1> DEFINE o == rw.open
           s == rw.out
           b == rw.blocked
           e == Put(o, s, <<Char(t.c)>>)
<1>1. rw = Rec(o, s, b)
  BY DEF Between, Rec
<1>2. OnToken(p, rw, t) = IF Shows(p, t.c) THEN [rw EXCEPT !.out = e] ELSE rw
  BY DEF OnToken, OnText, Emit, Put
<1> HIDE DEF o, s, b, e
<1>3. [rw EXCEPT !.out = e] = Rec(o, e, b)
  BY <1>1, Records
<1>4. Between(Rec(o, e, b)) /\ Rec(o, e, b).open = o /\ Rec(o, e, b).out = e
  BY Records
<1> QED
  BY <1>2, <1>3, <1>4 DEF e, o, s

\* A start tag is replaced, and opens an element that is not void.
LEMMA StartDoes ==
  ASSUME NEW p, NEW rw, Between(rw), NEW t, t.kind = "start"
  PROVE  LET new == OnToken(p, rw, t)
             h   == Handler(p, t)
         IN  /\ Between(new)
             /\ new.open = IF t.name \in Void THEN rw.open
                           ELSE Append(rw.open, [name |-> t.name, drops |-> h.drops, end |-> h.end])
             /\ new.out = Put(rw.open, rw.out, h.start)
<1> DEFINE o == rw.open
           s == rw.out
           b == rw.blocked
           h == Handler(p, t)
           e == Put(o, s, h.start)
           o2 == IF t.name \in Void THEN o
                 ELSE Append(o, [name |-> t.name, drops |-> h.drops, end |-> h.end])
           b2 == b \/ IsBlocked(p, t)
<1>1. rw = Rec(o, s, b)
  BY DEF Between, Rec
<1>2. OnToken(p, rw, t) = Opened(rw, o2, e, b2)
  BY DEF OnToken, OnTag, OnStart, Opened, Emit, Put
<1>3. Opened(rw, o2, e, b2) = [[[rw EXCEPT !.out = e] EXCEPT !.blocked = b2] EXCEPT !.open = o2]
  BY DEF Opened
<1> HIDE DEF o, s, b, h, e, o2, b2
<1>4. [rw EXCEPT !.out = e] = Rec(o, e, b)
  BY <1>1, Records
<1>5. [Rec(o, e, b) EXCEPT !.blocked = b2] = Rec(o, e, b2)
  BY Records
<1>6. [Rec(o, e, b2) EXCEPT !.open = o2] = Rec(o2, e, b2)
  BY Records
<1>7. OnToken(p, rw, t) = Rec(o2, e, b2)
  BY <1>2, <1>3, <1>4, <1>5, <1>6
<1>8. Between(Rec(o2, e, b2)) /\ Rec(o2, e, b2).open = o2 /\ Rec(o2, e, b2).out = e
  BY Records
<1> QED
  BY <1>7, <1>8 DEF e, o2, o, s, h

\* What is open, and in the sink, after an end tag that closes the element m.
EndedOpen(open, m) == IF m = 0 THEN open ELSE SubSeq(open, 1, m - 1)
EndedOut(open, out, m, name) ==
  LET named == EndName(EndsFrom(open, m), name)
  IN  CASE m = 0                    -> Put(open, out, <<EndTag(name)>>)
        [] m # 0 /\ named = Gone    -> out
        [] m # 0 /\ named # Gone    -> Put(SubSeq(open, 1, m - 1), out, <<EndTag(named)>>)

\* An end tag closes an element, or none.
LEMMA EndDoes ==
  ASSUME NEW p, NEW rw, Between(rw), NEW t, t.kind = "end"
  PROVE  LET new == OnToken(p, rw, t)
             m   == LastOf(rw.open, t.name)
         IN  /\ Between(new)
             /\ new.open = EndedOpen(rw.open, m)
             /\ new.out = EndedOut(rw.open, rw.out, m, t.name)
<1> DEFINE o == rw.open
           s == rw.out
           b == rw.blocked
           m == LastOf(o, t.name)
           named == EndName(EndsFrom(o, m), t.name)
           under == SubSeq(o, 1, m - 1)
           below == [rw EXCEPT !.open = under]
           a == Put(o, s, <<EndTag(t.name)>>)
           c == IF named = Gone THEN s ELSE Put(under, s, <<EndTag(named)>>)
<1>1. rw = Rec(o, s, b)
  BY DEF Between, Rec
<1>2. below = Rec(under, s, b)
  <2> HIDE DEF o, s, b, under
  <2> QED
    BY <1>1, Records
<1>3. CASE m = 0
  <2>1. OnToken(p, rw, t) = [rw EXCEPT !.out = a]
    BY <1>3 DEF OnToken, OnTag, OnEnd, LastOf, Emit, Put
  <2> HIDE DEF o, s, b, m, named, under, below, a, c
  <2>2. [rw EXCEPT !.out = a] = Rec(o, a, b)
    BY <1>1, Records
  <2>3. Between(Rec(o, a, b)) /\ Rec(o, a, b).open = o /\ Rec(o, a, b).out = a
    BY Records
  <2> QED
    BY <1>3, <2>1, <2>2, <2>3 DEF o, s, m, a, EndedOpen, EndedOut
<1>4. CASE m # 0
  <2>1. OnToken(p, rw, t) = [below EXCEPT !.out = IF named = Gone THEN below.out
                                                  ELSE Emit(below, <<EndTag(named)>>)]
    BY <1>4 DEF OnToken, OnTag, OnEnd, LastOf, EndName, EndsFrom
  <2> HIDE DEF o, s, b, m, named, under, below, a, c
  <2>2. below.open = under /\ below.out = s
    BY <1>2, Records
  <2>3. OnToken(p, rw, t) = [below EXCEPT !.out = c]
    BY <2>1, <2>2 DEF c, Emit, Put
  <2>4. [below EXCEPT !.out = c] = Rec(under, c, b)
    BY <1>2, Records
  <2>5. Between(Rec(under, c, b)) /\ Rec(under, c, b).open = under /\ Rec(under, c, b).out = c
    BY Records
  <2> QED
    BY <1>4, <2>3, <2>4, <2>5 DEF o, s, m, c, named, under, EndedOpen, EndedOut
<1> QED
  BY <1>3, <1>4

\* The rewriter after n tokens of a document.
After(p, doc, n) == OneShot(p, SubSeq(doc, 1, n))

\* It goes from token to token.
LEMMA Stepwise ==
  ASSUME NEW p, NEW T, NEW doc \in Seq(T), \A t \in T : t.kind \in {"start", "end", "char"}
  PROVE  /\ After(p, doc, 0) = Rec(<<>>, <<>>, FALSE)
         /\ After(p, doc, Len(doc)) = OneShot(p, doc)
         /\ \A n \in 0 .. Len(doc) : Between(After(p, doc, n))
         /\ \A n \in 1 .. Len(doc) : After(p, doc, n) = OnToken(p, After(p, doc, n - 1), doc[n])
<1> DEFINE R(n) == After(p, doc, n)
           N == Len(doc)
           to(n) == SubSeq(doc, 1, n)
           W(rw, b) == Write(p, rw, b)
<1>1. N \in Nat /\ to(0) = <<>> /\ to(N) = doc /\ \A n \in 0 .. N : to(n) \in Seq(T)
  OBVIOUS
<1>2. \A n \in 1 .. N : to(n) = Append(to(n - 1), doc[n]) /\ doc[n] \in T /\ n - 1 \in 0 .. N
  OBVIOUS
<1>3. R(0) = Rec(<<>>, <<>>, FALSE)
  <2> DEFINE e == <<>>
  <2>1. \A T1 : \A s \in Seq(T1), t \in T1 : Units(<<>>) = <<>>
    BY UnitsOn
  <2>2. <<>> \in Seq({1}) /\ 1 \in {1}
    OBVIOUS
  <2>3. Units(<<>>) = <<>>
    BY <2>1, <2>2
  <2> QED
    BY <1>1, <2>3, WritingNothing DEF After, OneShot, HtmlRewriter, Rec
<1>4. ASSUME NEW n \in 1 .. N, Between(R(n - 1))
      PROVE  R(n) = OnToken(p, R(n - 1), doc[n])
  <2> DEFINE s == to(n - 1)
             t == doc[n]
             a == Units(s)
             b == BytesOf(t)
  <2>1. s \in Seq(T) /\ t \in T /\ to(n) = Append(s, t)
    BY <1>1, <1>2
  <2> HIDE DEF s, t
  <2>2. Units(Append(s, t)) = a \o b /\ \E U : a \in Seq(U) /\ b \in Seq(U)
    BY <2>1, UnitsOn
  <2> HIDE DEF a, b, W
  <2>3. W(HtmlRewriter, a \o b) = W(W(HtmlRewriter, a), b)
    <3>1. PICK U : a \in Seq(U) /\ b \in Seq(U)
      BY <2>2
    <3> QED
      BY <3>1, WritingOn DEF W
  <2>4. R(n - 1) = W(HtmlRewriter, a) /\ R(n) = W(HtmlRewriter, a \o b)
    BY <2>1, <2>2 DEF After, OneShot, W, a, s
  <2>5. t.kind \in {"start", "end", "char"}
    BY <2>1
  <2> HIDE DEF R
  <2>6. Between(W(HtmlRewriter, a))
    BY <1>4, <2>4
  <2>7. W(W(HtmlRewriter, a), b) = OnToken(p, W(HtmlRewriter, a), t)
    BY <2>5, <2>6, WritingToken DEF W, b
  <2> QED
    BY <2>3, <2>4, <2>7 DEF t
<1> HIDE DEF R
<1> DEFINE P == {n \in 0 .. N : Between(R(n))}
<1>5. 0 \in P
  <2>1. Between(R(0))
    <3>1. \A o, s, b : Between(Rec(o, s, b))
      BY Records
    <3>2. Between(Rec(<<>>, <<>>, FALSE))
      BY <3>1, Zenon
    <3> QED
      BY <1>3, <3>2
  <2> QED
    BY <1>1, <2>1
<1>6. ASSUME NEW n \in 0 .. N - 1, n \in P
      PROVE  n + 1 \in P
  <2> DEFINE t == doc[n + 1]
  <2>1. n + 1 \in 1 .. N /\ (n + 1) - 1 = n
    BY <1>1
  <2>2. t.kind \in {"start", "end", "char"}
    BY <1>2, <2>1
  <2>3. R(n + 1) = OnToken(p, R(n), t)
    <3>1. Between(R((n + 1) - 1))
      BY <1>6, <2>1
    <3>2. R(n + 1) = OnToken(p, R((n + 1) - 1), doc[n + 1])
      BY <1>4, <2>1, <3>1
    <3> QED
      BY <2>1, <3>2
  <2>4. Between(R(n))
    BY <1>6
  <2> HIDE DEF t
  <2>5. Between(OnToken(p, R(n), t))
    BY <2>2, <2>4, CharDoes, StartDoes, EndDoes
  <2> QED
    BY <1>1, <2>1, <2>3, <2>5
<1> HIDE DEF P, N
<1>7. \A n \in 0 .. N : n \in P
  BY <1>1, <1>5, <1>6, Climbing
<1>8. \A n \in 0 .. N : Between(R(n))
  BY <1>7 DEF P
<1>9. \A n \in 1 .. N : R(n) = OnToken(p, R(n - 1), doc[n])
  BY <1>2, <1>4, <1>8
<1>10. R(N) = OneShot(p, doc)
  BY <1>1 DEF R, After
<1> QED
  BY <1>3, <1>8, <1>9, <1>10 DEF R, N

\* The largest of finitely many numbers.
LEMMA Largest ==
  ASSUME NEW N \in Nat, NEW S \in SUBSET (0 .. N), S # {}
  PROVE  Max(S) \in S /\ \A k \in S : k <= Max(S)
<1> DEFINE D == {N - k : k \in S}
<1>1. PICK d \in D : \A e \in D : d <= e
  <2>0. PICK k \in S : TRUE
    OBVIOUS
  <2>1. D \subseteq Nat /\ N - k \in D
    OBVIOUS
  <2> HIDE DEF D
  <2> QED
    BY <2>1, Least
<1>2. PICK m \in S : d = N - m
  OBVIOUS
<1>3. \A k \in S : m >= k
  <2> SUFFICES ASSUME NEW k \in S
               PROVE  m >= k
    OBVIOUS
  <2>1. N - k \in D
    OBVIOUS
  <2> HIDE DEF D
  <2>2. d <= N - k
    BY <1>1, <2>1
  <2> QED
    BY <1>2, <2>2
<1>4. Max(S) \in S /\ \A k \in S : Max(S) >= k
  BY <1>3 DEF Max
<1> QED
  BY <1>4

\* The last open element of a name, if there is one.
LEMMA LastIs ==
  ASSUME NEW E, NEW open \in Seq(E), NEW name
  PROVE  LET m == LastOf(open, name)
         IN  /\ m \in 0 .. Len(open)
             /\ m = 0 => \A i \in 1 .. Len(open) : open[i].name # name
             /\ m # 0 => open[m].name = name /\ \A i \in m + 1 .. Len(open) : open[i].name # name
<1> DEFINE I == {i \in 1 .. Len(open) : open[i].name = name}
           m == LastOf(open, name)
<1>1. m = IF I # {} THEN Max(I) ELSE 0
  BY DEF LastOf, SelectLastInSeq
<1>2. Len(open) \in Nat
  OBVIOUS
<1>3. CASE I = {}
  <2>1. m = 0
    BY <1>1, <1>3
  <2>2. \A i \in 1 .. Len(open) : open[i].name # name
    BY <1>3
  <2> HIDE DEF m
  <2> QED
    BY <1>2, <2>1, <2>2 DEF m
<1>4. CASE I # {}
  <2>1. I \in SUBSET (0 .. Len(open))
    BY <1>2
  <2>2. m = Max(I)
    BY <1>1, <1>4
  <2> HIDE DEF I, m
  <2>3. m \in I /\ \A k \in I : k <= m
    BY <1>2, <1>4, <2>1, <2>2, Largest
  <2>4. m \in 1 .. Len(open) /\ open[m].name = name
    BY <2>3 DEF I
  <2>5. \A i \in m + 1 .. Len(open) : open[i].name # name
    <3> SUFFICES ASSUME NEW i \in m + 1 .. Len(open), open[i].name = name
                 PROVE  FALSE
      OBVIOUS
    <3>1. i \in 1 .. Len(open) /\ ~(i <= m)
      BY <1>2, <2>4
    <3>2. i \in I
      BY <3>1 DEF I
    <3> QED
      BY <2>3, <3>1, <3>2
  <2> QED
    BY <2>4, <2>5 DEF m
<1> QED
  BY <1>3, <1>4

-----------------------------------------------------------------------------
(* A second pass. *)

\* The rewriter puts this token out as it reads it.
Stays(p, t) ==
  /\ t.kind \in {"start", "end", "char"}
  /\ t.kind = "char" => Shows(p, t.c) /\ t = Char(t.c)
  /\ t.kind = "start" => LET h == Handler(p, t)
                         IN  h.start = <<t>> /\ ~h.drops /\ h.end = AsRead
  /\ t.kind = "end" => t.name # Gone /\ t = EndTag(t.name)

\* Of a sequence, what comes before an element and it.
LEMMA OneMore ==
  ASSUME NEW T, NEW s \in Seq(T), NEW n \in 1 .. Len(s)
  PROVE  SubSeq(s, 1, n) = SubSeq(s, 1, n - 1) \o <<s[n]>>
<1>1. Len(s) \in Nat /\ 1 \in 1 .. Len(s) /\ n \in 1 .. Len(s)
  OBVIOUS
<1> QED
  BY <1>1, SubSeqRecursiveSecond

\* So it puts out a sequence of these.
LEMMA LeftAlone ==
  ASSUME NEW p, NEW T, NEW s \in Seq(T), \A t \in T : Stays(p, t)
  PROVE  OneShot(p, s).out = s
<1> DEFINE R(n) == After(p, s, n)
           N == Len(s)
           to(n) == SubSeq(s, 1, n)
           Entry(x) == [name |-> x.name, drops |-> Handler(p, x).drops, end |-> Handler(p, x).end]
           E == {Entry(x) : x \in {t \in T : t.kind = "start"}}
           P == {n \in 0 .. N : R(n).out = to(n) /\ R(n).open \in Seq(E)}
<1>1. \A e \in E : ~e.drops /\ e.end = AsRead
  <2> SUFFICES ASSUME NEW x \in T, x.kind = "start"
               PROVE  ~Entry(x).drops /\ Entry(x).end = AsRead
    OBVIOUS
  <2>1. Stays(p, x)
    OBVIOUS
  <2>2. ~Handler(p, x).drops /\ Handler(p, x).end = AsRead
    BY <2>1 DEF Stays
  <2> QED
    BY <2>2
<1>2. \A open \in Seq(E) : ~Silent(open)
  <2> HIDE DEF E
  <2> QED
    BY <1>1 DEF Silent
<1>3. \A t \in T : t.kind \in {"start", "end", "char"}
  BY DEF Stays
<1>4. /\ R(0) = Rec(<<>>, <<>>, FALSE)
      /\ R(N) = OneShot(p, s)
      /\ \A n \in 0 .. N : Between(R(n))
      /\ \A n \in 1 .. N : R(n) = OnToken(p, R(n - 1), s[n])
  BY <1>3, Stepwise
<1>5. /\ N \in Nat /\ to(0) = <<>> /\ to(N) = s
      /\ \A n \in 1 .. N : s[n] \in T /\ n - 1 \in 0 .. N
  OBVIOUS
<1>6. \A n \in 1 .. N : to(n) = to(n - 1) \o <<s[n]>>
  BY OneMore
<1>7. 0 \in P
  <2>1. R(0).out = <<>> /\ R(0).open = <<>>
    <3>1. \A o, x, b : Rec(o, x, b).open = o /\ Rec(o, x, b).out = x
      BY Records
    <3>2. Rec(<<>>, <<>>, FALSE).out = <<>> /\ Rec(<<>>, <<>>, FALSE).open = <<>>
      BY <3>1, Zenon
    <3> QED
      BY <1>4, <3>2
  <2> HIDE DEF R, to, E
  <2>2. R(0).open \in Seq(E)
    <3>1. <<>> \in Seq(E)
      OBVIOUS
    <3> QED
      BY <2>1, <3>1
  <2> QED
    BY <1>5, <2>1, <2>2
<1> HIDE DEF R, to
<1>8. ASSUME NEW n \in 1 .. N, R(n - 1).out = to(n - 1), R(n - 1).open \in Seq(E)
      PROVE  R(n).out = to(n) /\ R(n).open \in Seq(E)
  <2> DEFINE rw == R(n - 1)
             t == s[n]
             o == rw.open
             h == Handler(p, t)
             m == LastOf(o, t.name)
             new == OnToken(p, rw, t)
  <2>1. t \in T /\ Between(rw) /\ R(n) = new /\ Stays(p, t)
    BY <1>4, <1>5
  <2>2. rw.out = to(n - 1) /\ to(n) = to(n - 1) \o <<t>> /\ o \in Seq(E) /\ ~Silent(o)
    BY <1>2, <1>6, <1>8
  <2>3. ASSUME NEW open, ~Silent(open)
        PROVE  Put(open, rw.out, <<t>>) = to(n)
    BY <2>2, <2>3 DEF Put
  <2>4. CASE t.kind = "char"
    <3>1. Shows(p, t.c) /\ Char(t.c) = t
      BY <2>1, <2>4 DEF Stays
    <3> HIDE DEF rw, t
    <3>2. new.open = rw.open /\ new.out = IF Shows(p, t.c) THEN Put(rw.open, rw.out, <<Char(t.c)>>) ELSE rw.out
      BY <2>1, <2>4, CharDoes
    <3> HIDE DEF new
    <3> QED
      BY <2>1, <2>2, <2>3, <3>1, <3>2
  <2>5. CASE t.kind = "start"
    <3>1. h.start = <<t>>
      BY <2>1, <2>5 DEF Stays
    <3>2. Entry(t) \in E
      BY <2>1, <2>5
    <3> HIDE DEF rw, t
    <3>3. /\ new.open = IF t.name \in Void THEN rw.open ELSE Append(rw.open, Entry(t))
          /\ new.out = Put(rw.open, rw.out, h.start)
      BY <2>1, <2>5, StartDoes
    <3> HIDE DEF new, h, E, Entry
    <3>4. new.open \in Seq(E)
      BY <2>2, <3>2, <3>3
    <3> QED
      BY <2>1, <2>2, <2>3, <3>1, <3>3, <3>4
  <2>6. CASE t.kind = "end"
    <3>1. t.name # Gone /\ EndTag(t.name) = t
      BY <2>1, <2>6 DEF Stays
    <3> DEFINE named == EndName(EndsFrom(o, m), t.name)
    <3> HIDE DEF rw, t
    <3>2. new.open = EndedOpen(o, m) /\ new.out = EndedOut(o, rw.out, m, t.name)
      BY <2>1, <2>6, EndDoes
    <3>3. m \in 0 .. Len(o) /\ Len(o) \in Nat
      BY <2>2, LastIs
    <3> HIDE DEF new, E
    <3>4. CASE m = 0
      BY <2>1, <2>2, <2>3, <3>1, <3>2, <3>4 DEF EndedOpen, EndedOut
    <3>5. CASE m # 0
      <4>1. EndsFrom(o, m) = {AsRead}
        <5>1. \A i \in m .. Len(o) : o[i].end = AsRead
          BY <1>1, <2>2, <3>3, <3>5
        <5>2. m \in m .. Len(o)
          BY <3>3
        <5> HIDE DEF o, m
        <5> QED
          BY <5>1, <5>2 DEF EndsFrom
      <4>2. named = t.name
        BY <4>1 DEF EndName, Gone, AsRead
      <4> HIDE DEF named
      <4>3. new.open \in Seq(E)
        <5> HIDE DEF o, m
        <5>1. SubSeq(o, 1, m - 1) \in Seq(E)
          BY <2>2, <3>3, <3>5
        <5> QED
          BY <3>2, <3>5, <5>1 DEF EndedOpen
      <4>4. ~Silent(new.open)
        BY <1>2, <4>3
      <4>5. new.out = Put(new.open, rw.out, <<t>>)
        BY <3>1, <3>2, <3>5, <4>2 DEF EndedOpen, EndedOut, named
      <4> QED
        BY <2>1, <2>3, <4>3, <4>4, <4>5
    <3> QED
      BY <3>4, <3>5
  <2> QED
    BY <2>1, <2>4, <2>5, <2>6 DEF Stays
<1> HIDE DEF E, N
<1>9. ASSUME NEW n \in 0 .. N - 1, n \in P
      PROVE  n + 1 \in P
  <2>1. n + 1 \in 1 .. N /\ (n + 1) - 1 = n
    BY <1>5
  <2>2. R((n + 1) - 1).out = to((n + 1) - 1) /\ R((n + 1) - 1).open \in Seq(E)
    BY <1>9, <2>1
  <2>3. R(n + 1).out = to(n + 1) /\ R(n + 1).open \in Seq(E)
    BY <1>8, <2>1, <2>2
  <2> QED
    BY <1>5, <2>1, <2>3
<1> HIDE DEF P
<1>10. \A n \in 0 .. N : n \in P
  BY <1>5, <1>7, <1>9, Climbing
<1>11. R(N).out = to(N)
  BY <1>5, <1>10 DEF P
<1> QED
  BY <1>4, <1>5, <1>11

-----------------------------------------------------------------------------
(* What g makes of the elements of s, one after the other. *)
Spelled(s, g) == FlattenSeq([i \in DOMAIN s |-> g[s[i]]])

\* g makes sequences of elements of V of the elements of S.
Spells(g, S, V) == \A x \in S : g[x] \in Seq(V)

\* Sequences of no element and of one.
LEMMA Small == \A S : <<>> \in Seq(S) /\ \A x \in S : <<x>> \in Seq(S)
  OBVIOUS

\* Nothing is made of nothing, by position or not.
LEMMA SpelledNothing == Len(<<>>) = 0 /\ FlattenSeq(<<>>) = <<>> /\ \A g : Spelled(<<>>, g) = <<>>
<1>1. FlattenSeq(<<>>) = <<>>
  BY DEF FlattenSeq
<1>2. \A g : [i \in DOMAIN <<>> |-> g[<<>>[i]]] = <<>>
  OBVIOUS
<1> QED
  BY <1>1, <1>2 DEF Spelled

\* One element more adds what g makes of it.
LEMMA SpelledOn ==
  ASSUME NEW S, NEW V, NEW g, Spells(g, S, V), NEW s \in Seq(S), NEW x \in S
  PROVE  Spelled(Append(s, x), g) = Spelled(s, g) \o g[x]
<1> DEFINE of(d) == [i \in DOMAIN d |-> g[d[i]]]
           W == Seq(V)
<1>1. \A y \in S : g[y] \in W
  BY DEF Spells
<1>2. of(Append(s, x)) = Append(of(s), g[x])
  OBVIOUS
<1> HIDE DEF W
<1>3. \A i \in DOMAIN s : g[s[i]] \in W
  BY <1>1
<1>4. of(s) \in Seq(W) /\ g[x] \in W
  BY <1>1, <1>3
<1>5. \A d : Spelled(d, g) = FlattenSeq(of(d))
  BY DEF Spelled
<1> HIDE DEF of
<1>6. FlattenSeq(Append(of(s), g[x])) = FlattenSeq(of(s)) \o g[x]
  BY <1>4, Flattened DEF W
<1> QED
  BY <1>2, <1>5, <1>6

\* A sequence of these.
LEMMA SpelledSeq ==
  ASSUME NEW S, NEW V, NEW g, Spells(g, S, V), NEW s \in Seq(S)
  PROVE  Spelled(s, g) \in Seq(V)
<1> DEFINE W == Seq(V)
           ss == [i \in DOMAIN s |-> g[s[i]]]
<1>1. \A i \in DOMAIN s : g[s[i]] \in W
  BY DEF Spells
<1> HIDE DEF W
<1>2. ss \in Seq(W)
  BY <1>1
<1> HIDE DEF ss
<1>3. FlattenSeq(ss) \in Seq(V)
  BY <1>2, Flattening DEF W
<1> QED
  BY <1>3 DEF Spelled, ss

\* What g makes of a sequence that it leaves as it is.
LEMMA SpelledSame ==
  ASSUME NEW S, NEW g, \A x \in S : g[x] = <<x>>, NEW s \in Seq(S)
  PROVE  Spelled(s, g) = s
<1> DEFINE N == Len(s)
           to(n) == SubSeq(s, 1, n)
           P == {n \in 0 .. N : Spelled(to(n), g) = to(n)}
<1>1. N \in Nat /\ to(0) = <<>> /\ to(N) = s /\ \A n \in 0 .. N : to(n) \in Seq(S)
  OBVIOUS
<1>2. Spells(g, S, S)
  <2>1. ASSUME NEW x \in S
        PROVE  g[x] \in Seq(S)
    <3>1. g[x] = <<x>>
      OBVIOUS
    <3> QED
      BY <3>1, Small
  <2> QED
    BY <2>1 DEF Spells
<1>3. 0 \in P
  <2>1. Spelled(to(0), g) = to(0)
    BY <1>1, SpelledNothing
  <2> HIDE DEF to, N
  <2> QED
    BY <1>1, <2>1
<1>4. \A n \in 0 .. N - 1 : /\ to(n + 1) = Append(to(n), s[n + 1]) /\ s[n + 1] \in S
                           /\ Append(to(n), s[n + 1]) = to(n) \o <<s[n + 1]>>
                           /\ n + 1 \in 0 .. N /\ n \in 0 .. N
  OBVIOUS
<1> HIDE DEF to, N
<1>5. ASSUME NEW n \in 0 .. N - 1, n \in P
      PROVE  n + 1 \in P
  <2> DEFINE x == s[n + 1]
             d == to(n)
  <2>1. d \in Seq(S) /\ x \in S /\ to(n + 1) = Append(d, x) /\ Append(d, x) = d \o <<x>>
    BY <1>1, <1>4
  <2>2. g[x] = <<x>>
    BY <2>1
  <2>3. Spelled(d, g) = d
    BY <1>5
  <2> HIDE DEF x, d
  <2>4. Spelled(Append(d, x), g) = Spelled(d, g) \o g[x]
    BY <1>2, <2>1, SpelledOn
  <2> QED
    BY <1>4, <2>1, <2>2, <2>3, <2>4
<1> HIDE DEF P
<1>6. \A n \in 0 .. N : n \in P
  BY <1>1, <1>3, <1>5, Climbing
<1> QED
  BY <1>1, <1>6 DEF P

\* Without a set nothing of it is left; a sequence that has nothing of it
\* stays as it is.
LEMMA WithoutIs ==
  ASSUME NEW S, NEW X, NEW s \in Seq(S)
  PROVE  /\ Without(s, X) \in Seq(S \ X)
         /\ S \cap X = {} => Without(s, X) = s
<1> DEFINE V == S \ X
           g == [x \in S |-> IF x \in X THEN <<>> ELSE <<x>>]
<1>1. \A x \in S : g[x] = IF x \in X THEN <<>> ELSE <<x>>
  OBVIOUS
<1>2. Spells(g, S, V)
  <2>1. \A x \in S : x \in V \/ x \in X
    OBVIOUS
  <2> HIDE DEF V, g
  <2>2. ASSUME NEW x \in S
        PROVE  g[x] \in Seq(V)
    <3>1. CASE x \in X
      BY <1>1, <3>1, Small
    <3>2. CASE x \notin X
      BY <1>1, <2>1, <3>2, Small
    <3> QED
      BY <3>1, <3>2
  <2> QED
    BY <2>2 DEF Spells
<1>3. Without(s, X) = Spelled(s, g)
  <2>1. \A i \in DOMAIN s : s[i] \in S
    OBVIOUS
  <2>2. [i \in DOMAIN s |-> IF s[i] \in X THEN <<>> ELSE <<s[i]>>] = [i \in DOMAIN s |-> g[s[i]]]
    BY <2>1
  <2> QED
    BY <2>2 DEF Without, Spelled
<1> HIDE DEF g, V
<1>4. Without(s, X) \in Seq(V)
  BY <1>2, <1>3, SpelledSeq
<1>5. ASSUME S \cap X = {}
      PROVE  Without(s, X) = s
  <2>1. \A x \in S : g[x] = <<x>>
    BY <1>1, <1>5
  <2> QED
    BY <1>3, <2>1, SpelledSame
<1> QED
  BY <1>4, <1>5 DEF V

\* A cleaned link is clean.
LEMMA CleanTwice ==
  ASSUME NEW href, href = [page |-> href.page, query |-> href.query], NEW S, href.query \in Seq(S)
  PROVE  clean_link(clean_link(href)) = clean_link(href)
<1> DEFINE q == href.query
           c == Without(q, Trackers)
           V == S \ Trackers
<1>1. c \in Seq(V)
  BY WithoutIs
<1>2. V \cap Trackers = {}
  OBVIOUS
<1>3. \A k \in Seq(V) : Without(k, Trackers) = k
  <2> HIDE DEF V
  <2> QED
    BY <1>2, WithoutIs
<1>4. Without(c, Trackers) = c
  BY <1>1, <1>3
<1> DEFINE Link(p, k) == [page |-> p, query |-> k]
<1>5. \A p, k : clean_link(Link(p, k)) = Link(p, Without(k, Trackers))
  BY DEF clean_link
<1>6. href = Link(href.page, q)
  OBVIOUS
<1> HIDE DEF q, c, Link
<1>7. clean_link(href) = Link(href.page, c)
  BY <1>5, <1>6 DEF c
<1> QED
  BY <1>4, <1>5, <1>7

\* What the display handlers make of a tag that they keep.
DisplayAttrs(el) == Only(Hygiene(el), DOMAIN Hygiene(el) \ EventAttrs)
Displayed(el) == StartTag(el.name, DisplayAttrs(el))

\* No event handler is left, and links are clean.
LEMMA DisplayedAttrs ==
  ASSUME NEW el, Token(el), el.kind = "start"
  PROVE  /\ DisplayAttrs(el) = [a \in DOMAIN Hygiene(el) \ EventAttrs |-> Hygiene(el)[a]]
         /\ Hygiene(Displayed(el)) = DisplayAttrs(el)
         /\ DOMAIN DisplayAttrs(el) \cap EventAttrs = {}
<1> DEFINE H == Hygiene(el)
           A == DisplayAttrs(el)
           x == Displayed(el)
<1>1. A = [a \in DOMAIN H \ EventAttrs |-> H[a]]
  <2> HIDE DEF H
  <2>1. DOMAIN H \cap (DOMAIN H \ EventAttrs) = DOMAIN H \ EventAttrs
    OBVIOUS
  <2> QED
    BY <2>1 DEF DisplayAttrs, Only, H
<1>2. x.name = el.name /\ x.attrs = A
  BY DEF Displayed, StartTag
<1>3. DOMAIN A \cap EventAttrs = {}
  BY <1>1
<1>4. Hygiene(x) = A
  <2>1. CASE el.name # "a"
    BY <1>2, <2>1 DEF Hygiene
  <2>2. CASE el.name = "a"
    <3> DEFINE T == el.attrs
               D == DOMAIN T \cup {"rel", "target"}
               DA == DOMAIN A
    <3>1. H = LinkAttrs(T) /\ Hygiene(x) = LinkAttrs(A)
      BY <1>2, <2>2 DEF Hygiene
    <3>2. DOMAIN H = D
      BY <3>1 DEF LinkAttrs
    <3>3. DA = D \ EventAttrs
      BY <1>1, <3>2
    <3>4. "rel" \in DA /\ "target" \in DA
      BY <3>3 DEF EventAttrs
    <3>5. DOMAIN LinkAttrs(A) = DA
      BY <3>4 DEF LinkAttrs
    <3>6. ASSUME NEW a \in DA
          PROVE  LinkAttrs(A)[a] = A[a]
      <4>1. A[a] = H[a] /\ a \in D
        BY <1>1, <3>2, <3>3
      <4>2. \A B : a \in DOMAIN B \cup {"rel", "target"} =>
              LinkAttrs(B)[a] = CASE a = "rel"    -> "noreferrer noopener"
                                  [] a = "target" -> "_blank"
                                  [] a = "href"   -> clean_link(B.href)
                                  [] OTHER        -> B[a]
        BY DEF LinkAttrs
      <4> HIDE DEF H, A
      <4>3. CASE a \in {"rel", "target"}
        BY <3>1, <3>6, <4>1, <4>2, <4>3
      <4>4. CASE a = "href"
        <5>1. A[a] = clean_link(T.href) /\ a \in DOMAIN T
          BY <3>1, <4>1, <4>2, <4>4
        <5>2. clean_link(clean_link(T.href)) = clean_link(T.href)
          <6> DEFINE href == T.href
          <6>1. /\ href = [page |-> href.page, query |-> href.query]
                /\ href.query \in Seq({href.query[k] : k \in DOMAIN href.query})
            BY <4>4, <5>1 DEF Token
          <6> HIDE DEF href
          <6>2. clean_link(clean_link(href)) = clean_link(href)
            BY <6>1, CleanTwice
          <6> QED
            BY <6>2 DEF href
        <5>3. LinkAttrs(A)[a] = clean_link(A.href)
          BY <3>6, <4>2, <4>4
        <5>4. A[a] = A.href
          BY <4>4
        <5> HIDE DEF T
        <5> QED
          BY <5>1, <5>2, <5>3, <5>4
      <4>5. CASE a \notin {"rel", "target", "href"}
        BY <3>6, <4>2, <4>5
      <4> QED
        BY <4>3, <4>4, <4>5
    <3>7. /\ A = [a \in DA |-> A[a]]
          /\ LinkAttrs(A) = [a \in DOMAIN LinkAttrs(A) |-> LinkAttrs(A)[a]]
      <4>1. A = [a \in DA |-> A[a]]
        BY <1>1
      <4>2. \A B : LinkAttrs(B) = [a \in DOMAIN LinkAttrs(B) |-> LinkAttrs(B)[a]]
        BY DEF LinkAttrs
      <4> QED
        BY <4>1, <4>2
    <3> HIDE DEF A
    <3>8. LinkAttrs(A) = A
      BY <3>5, <3>6, <3>7
    <3> QED
      BY <3>1, <3>8
  <2> QED
    BY <2>1, <2>2
<1> QED
  BY <1>1, <1>3, <1>4

\* What the display handlers make of a tag they leave alone.
LEMMA DisplayedStays ==
  ASSUME NEW el, Token(el), el.kind = "start", el.name \notin Dangerous \cup {"img"}
  PROVE  /\ Handler("display", el).start = <<Displayed(el)>>
         /\ ~Handler("display", el).drops /\ Handler("display", el).end = AsRead
         /\ Stays("display", Displayed(el))
<1>1. \A x : x.name \notin Dangerous \cup {"img"} =>
        /\ Handler("display", x).start = <<Displayed(x)>>
        /\ ~Handler("display", x).drops /\ Handler("display", x).end = AsRead
  BY DEF Handler, display, Kept, Displayed, DisplayAttrs
<1> DEFINE x == Displayed(el)
           A == DisplayAttrs(el)
<1>2. x.kind = "start" /\ x.name = el.name /\ x = StartTag(el.name, A)
  BY DEF Displayed, StartTag
<1>3. Displayed(x) = x
  <2>1. Hygiene(x) = A /\ DOMAIN A \cap EventAttrs = {} /\ A = [a \in DOMAIN A |-> A[a]]
    BY DisplayedAttrs
  <2> HIDE DEF x, A
  <2>2. DOMAIN A \cap (DOMAIN A \ EventAttrs) = DOMAIN A
    BY <2>1
  <2>3. DisplayAttrs(x) = A
    BY <2>1, <2>2 DEF DisplayAttrs, Only
  <2> QED
    BY <1>2, <2>3 DEF Displayed
<1> HIDE DEF x
<1>4. Stays("display", x)
  BY <1>1, <1>2, <1>3 DEF Stays
<1> QED
  BY <1>1, <1>4 DEF x

-----------------------------------------------------------------------------
(* The handlers of the passes, name by name. *)

Passes == {"display", "reader", "text"}

Drops(p, name) ==
  name \in IF p = "display" THEN Dangerous \cup {"img"} ELSE IF p = "reader" THEN ReaderGone ELSE TextGone
Keeps(p, name) ==
  IF p = "reader" THEN name \in {"td", "th", "html", "body"} \cup READER_KEEP ELSE ~Drops(p, name)
OutName(p, name) == IF p = "reader" /\ name \in {"td", "th"} THEN "p" ELSE name
EndOf(p, name) ==
  IF Keeps(p, name) THEN IF p = "reader" /\ name \in {"td", "th"} THEN "p" ELSE AsRead ELSE Gone

\* A handler answers by the name; only the attributes it keeps are others.
LEMMA HandlerIs ==
  ASSUME NEW p \in Passes, NEW el
  PROVE  LET h == Handler(p, el)
         IN  /\ h.drops = Drops(p, el.name)
             /\ h.end = EndOf(p, el.name)
             /\ Keeps(p, el.name) => /\ ~h.drops
                                     /\ \E attrs : h.start = <<StartTag(OutName(p, el.name), attrs)>>
             /\ ~Keeps(p, el.name) => h.start = <<>>
<1> DEFINE n == el.name
           R(h) == /\ h.drops = Drops(p, n)
                   /\ h.end = EndOf(p, n)
                   /\ Keeps(p, n) => ~h.drops /\ \E attrs : h.start = <<StartTag(OutName(p, n), attrs)>>
                   /\ ~Keeps(p, n) => h.start = <<>>
           G(h, s, d, e) == h.start = s /\ h.drops = d /\ h.end = e
<1>1. /\ G(Removed, <<>>, TRUE, Gone) /\ G(Unwrapped, <<>>, FALSE, Gone)
      /\ \A name, attrs : G(Kept(name, attrs), <<StartTag(name, attrs)>>, FALSE, AsRead)
      /\ \A name, attrs, e : G(Renamed(Kept(name, attrs), e), <<StartTag(name, attrs)>>, FALSE, e)
  BY DEF Removed, Unwrapped, Kept, Renamed
<1>0. ASSUME NEW h, NEW attrs, G(h, <<StartTag(OutName(p, n), attrs)>>, FALSE, EndOf(p, n)),
             Keeps(p, n), ~Drops(p, n), Drops(p, n) \in BOOLEAN
      PROVE  R(h)
  <2>1. h.start = <<StartTag(OutName(p, n), attrs)>> /\ h.drops = FALSE /\ h.end = EndOf(p, n)
    BY <1>0
  <2>2. \E a : h.start = <<StartTag(OutName(p, n), a)>>
    BY <2>1, Zenon
  <2> QED
    BY <1>0, <2>1, <2>2
<1> HIDE DEF G
<1>2. CASE p = "display"
  <2>1. Handler(p, el) = display(el)
    BY <1>2 DEF Handler
  <2>2. CASE n \in Dangerous \cup {"img"}
    <3>1. Handler(p, el) = Removed
      BY <2>1, <2>2 DEF display
    <3>2. Drops(p, n) = TRUE /\ Keeps(p, n) = FALSE
      BY <1>2, <2>2 DEF Drops, Keeps
    <3>3. R(Removed)
      BY <1>1, <3>2 DEF EndOf, G
    <3> HIDE DEF R
    <3>4. R(Handler(p, el))
      BY <3>1, <3>3
    <3> QED
      BY <3>4 DEF R
  <2>3. CASE n \notin Dangerous \cup {"img"}
    <3>1. Handler(p, el) = Kept(n, Only(Hygiene(el), DOMAIN Hygiene(el) \ EventAttrs))
      BY <2>1, <2>3 DEF display
    <3>2. Drops(p, n) = FALSE /\ Keeps(p, n) /\ EndOf(p, n) = AsRead /\ OutName(p, n) = n
      BY <1>2, <2>3 DEF Drops, Keeps, EndOf, OutName
    <3>3. \A attrs : R(Kept(n, attrs))
      BY <1>0, <1>1, <3>2
    <3> HIDE DEF R
    <3>4. R(Handler(p, el))
      BY <3>1, <3>3
    <3> QED
      BY <3>4 DEF R
  <2> QED
    BY <2>2, <2>3
<1>3. CASE p = "reader"
  <2>1. Handler(p, el) = reader(el)
    BY <1>3 DEF Handler
  <2>2. CASE n \in ReaderGone
    <3>1. Handler(p, el) = Removed
      <4>1. /\ n \notin {"td", "th"} /\ n \notin TableParts \ {"td", "th"}
            /\ n \notin READER_KEEP /\ n \notin {"html", "body"}
        BY <2>2 DEF ReaderGone, Dangerous, READER_KEEP, TableParts
      <4> HIDE DEF n
      <4> QED
        BY <2>1, <2>2, <4>1 DEF reader, n
    <3>2. Drops(p, n) = TRUE /\ Keeps(p, n) = FALSE
      BY <1>3, <2>2 DEF Drops, Keeps, ReaderGone, Dangerous, READER_KEEP
    <3>3. R(Removed)
      BY <1>1, <3>2 DEF EndOf, G
    <3> HIDE DEF R
    <3>4. R(Handler(p, el))
      BY <3>1, <3>3
    <3> QED
      BY <3>4 DEF R
  <2>3. CASE n \in {"td", "th"}
    <3>1. n \notin ReaderGone
      BY <2>3 DEF ReaderGone, Dangerous
    <3>2. Handler(p, el) = Renamed(Kept("p", NoAttrs), "p")
      <4>1. ~(n \in TableParts \ {"td", "th"}) /\ ~(n \in READER_KEEP) /\ ~(n \in {"html", "body"})
        BY <2>3 DEF READER_KEEP
      <4> QED
        BY <2>1, <2>3, <3>1, <4>1 DEF reader
    <3>3. Drops(p, n) = FALSE /\ Keeps(p, n) /\ EndOf(p, n) = "p" /\ OutName(p, n) = "p"
      BY <1>3, <2>3, <3>1 DEF Drops, Keeps, EndOf, OutName
    <3>4. R(Renamed(Kept("p", NoAttrs), "p"))
      BY <1>0, <1>1, <3>3
    <3> HIDE DEF R
    <3>5. R(Handler(p, el))
      BY <3>2, <3>4
    <3> QED
      BY <3>5 DEF R
  <2>4. CASE n \in READER_KEEP \cup {"html", "body"}
    <3>1. n \notin ReaderGone /\ n \notin {"td", "th"} /\ n \notin TableParts
      BY <2>4 DEF ReaderGone, Dangerous, READER_KEEP, TableParts
    <3>2. \E attrs : Handler(p, el) = Kept(n, attrs)
      <4>1. CASE n \in READER_KEEP
        <5>1. Handler(p, el) = Kept(n, Only(Hygiene(el), Allowed(n)))
          <6>1. n \notin {"html", "body"}
            BY <4>1 DEF READER_KEEP
          <6> QED
            BY <2>1, <3>1, <4>1, <6>1 DEF reader
        <5> QED
          BY <5>1
      <4>2. CASE n \in {"html", "body"}
        <5>1. n \notin READER_KEEP
          BY <4>2 DEF READER_KEEP
        <5>2. Handler(p, el) = Kept(n, el.attrs)
          BY <2>1, <3>1, <4>2, <5>1 DEF reader
        <5> QED
          BY <5>2
      <4> QED
        BY <2>4, <4>1, <4>2
    <3>3. Drops(p, n) = FALSE /\ Keeps(p, n) /\ EndOf(p, n) = AsRead /\ OutName(p, n) = n
      <4>1. p = "reader" /\ p # "display"
        BY <1>3
      <4>2. Keeps(p, n)
        BY <2>4, <4>1 DEF Keeps
      <4> QED
        BY <3>1, <4>1, <4>2 DEF Drops, EndOf, OutName
    <3>4. \A attrs : R(Kept(n, attrs))
      BY <1>0, <1>1, <3>3
    <3> HIDE DEF R
    <3>5. R(Handler(p, el))
      BY <3>2, <3>4
    <3> QED
      BY <3>5 DEF R
  <2>5. CASE n \notin ReaderGone \cup {"td", "th", "html", "body"} \cup READER_KEEP
    <3>1. Handler(p, el) = Unwrapped
      BY <2>1, <2>5 DEF reader
    <3>2. Drops(p, n) = FALSE /\ Keeps(p, n) = FALSE
      BY <1>3, <2>5 DEF Drops, Keeps
    <3>3. R(Unwrapped)
      BY <1>1, <3>2 DEF EndOf, G
    <3> HIDE DEF R
    <3>4. R(Handler(p, el))
      BY <3>1, <3>3
    <3> QED
      BY <3>4 DEF R
  <2> QED
    BY <2>2, <2>3, <2>4, <2>5
<1>4. CASE p = "text"
  <2>1. Handler(p, el) = text(el)
    BY <1>4 DEF Handler
  <2>2. CASE n \in TextGone
    <3>1. Handler(p, el) = Removed
      BY <2>1, <2>2 DEF text
    <3>2. Drops(p, n) = TRUE /\ Keeps(p, n) = FALSE
      BY <1>4, <2>2 DEF Drops, Keeps
    <3>3. R(Removed)
      BY <1>1, <3>2 DEF EndOf, G
    <3> HIDE DEF R
    <3>4. R(Handler(p, el))
      BY <3>1, <3>3
    <3> QED
      BY <3>4 DEF R
  <2>3. CASE n \notin TextGone
    <3>1. Handler(p, el) = Kept(n, el.attrs)
      BY <2>1, <2>3 DEF text
    <3>2. Drops(p, n) = FALSE /\ Keeps(p, n) /\ EndOf(p, n) = AsRead /\ OutName(p, n) = n
      BY <1>4, <2>3 DEF Drops, Keeps, EndOf, OutName
    <3>3. \A attrs : R(Kept(n, attrs))
      BY <1>0, <1>1, <3>2
    <3> HIDE DEF R
    <3>4. R(Handler(p, el))
      BY <3>1, <3>3
    <3> QED
      BY <3>4 DEF R
  <2> QED
    BY <2>2, <2>3
<1> QED
  BY <1>2, <1>3, <1>4 DEF Passes

\* What names become.
LEMMA NamesAre ==
  ASSUME NEW p \in Passes, NEW name, name # Gone
  PROVE  /\ Keeps(p, name) => ~Drops(p, name)
         /\ OutName(p, name) # Gone /\ (OutName(p, name) \in Void <=> name \in Void)
         /\ EndOf(p, name) = Gone <=> ~Keeps(p, name)
         /\ Keeps(p, name) => EndName({EndOf(p, name)}, name) = OutName(p, name)
         /\ ~Keeps(p, name) => EndName({EndOf(p, name)}, name) = Gone
<1>1. Keeps(p, name) => ~Drops(p, name)
  BY DEF Keeps, Drops, ReaderGone, Dangerous, READER_KEEP
<1>2. OutName(p, name) # Gone /\ (OutName(p, name) \in Void <=> name \in Void)
  BY DEF OutName, Gone, Void
<1>3. "p" # Gone /\ AsRead # Gone /\ AsRead # "p"
  BY DEF Gone, AsRead
<1>4. EndOf(p, name) = Gone <=> ~Keeps(p, name)
  BY <1>3 DEF EndOf
<1>5. ASSUME Keeps(p, name)
      PROVE  EndName({EndOf(p, name)}, name) = OutName(p, name)
  BY <1>3, <1>5 DEF EndName, EndOf, OutName
<1>6. ASSUME ~Keeps(p, name)
      PROVE  EndName({EndOf(p, name)}, name) = Gone
  BY <1>6 DEF EndName, EndOf
<1> QED
  BY <1>1, <1>2, <1>4, <1>5, <1>6

-----------------------------------------------------------------------------
(* The rewriter on tags that nest. *)

\* A token whose name is one.
Named(t) == t.kind \in {"start", "end", "char"} /\ (t.kind # "char" => t.name # Gone)

\* The open elements w, by name, are w2 after t, which closes the last one.
Turn(w, t, w2) ==
  \/ t.kind = "start" /\ t.name \notin Void /\ w2 = Append(w, t.name)
  \/ t.kind = "end" /\ w = Append(w2, t.name)
  \/ t.kind = "start" /\ t.name \in Void /\ w2 = w
  \/ t.kind = "char" /\ w2 = w

\* What the rewriter knows of them; whether it puts anything out in them;
\* what it puts out for a token elsewhere.
Entry(p, name) == [name |-> name, drops |-> Drops(p, name), end |-> EndOf(p, name)]
Entries(p, w) == [i \in DOMAIN w |-> Entry(p, w[i])]
Hid(p, w) == \E i \in DOMAIN w : Drops(p, w[i])
Piece(p, t) ==
  CASE t.kind = "char"  -> IF Shows(p, t.c) THEN <<Char(t.c)>> ELSE <<>>
    [] t.kind = "start" -> Handler(p, t).start
    [] t.kind = "end"   -> IF Keeps(p, t.name) THEN <<EndTag(OutName(p, t.name))>> ELSE <<>>

\* One element more, or none.
LEMMA EntriesOn ==
  ASSUME NEW p, NEW S, NEW w \in Seq(S)
  PROVE  /\ Entries(p, <<>>) = <<>> /\ ~Hid(p, <<>>)
         /\ Entries(p, w) \in Seq({Entry(p, y) : y \in S}) /\ Len(Entries(p, w)) = Len(w)
         /\ Silent(Entries(p, w)) <=> Hid(p, w)
         /\ \A x \in S : /\ Entries(p, Append(w, x)) = Append(Entries(p, w), Entry(p, x))
                         /\ Hid(p, Append(w, x)) <=> Hid(p, w) \/ Drops(p, x)
<1>1. Entries(p, <<>>) = <<>> /\ ~Hid(p, <<>>)
  BY DEF Entries, Hid
<1>2. ASSUME NEW x \in S
      PROVE  Entries(p, Append(w, x)) = Append(Entries(p, w), Entry(p, x))
  <2> DEFINE F(y) == Entry(p, y)
             a == [i \in DOMAIN Append(w, x) |-> F(Append(w, x)[i])]
             b == Append([i \in DOMAIN w |-> F(w[i])], F(x))
  <2> HIDE DEF F
  <2>1. a = b
    OBVIOUS
  <2> QED
    BY <2>1 DEF F, Entries
<1>3. Entries(p, w) \in Seq({Entry(p, y) : y \in S}) /\ Len(Entries(p, w)) = Len(w)
  <2> DEFINE F(y) == Entry(p, y)
             V == {F(y) : y \in S}
             a == [i \in DOMAIN w |-> F(w[i])]
  <2>1. \A i \in DOMAIN w : F(w[i]) \in V
    OBVIOUS
  <2> HIDE DEF F, V
  <2>2. a \in Seq(V) /\ Len(a) = Len(w)
    BY <2>1
  <2> QED
    BY <2>2 DEF F, V, Entries
<1>4. ASSUME NEW x \in S
      PROVE  Hid(p, Append(w, x)) <=> Hid(p, w) \/ Drops(p, x)
  <2> DEFINE a == Append(w, x)
             N == Len(w)
  <2>1. /\ N \in Nat /\ DOMAIN w = 1 .. N /\ DOMAIN a = 1 .. N + 1
        /\ a[N + 1] = x /\ \A i \in 1 .. N : a[i] = w[i]
    OBVIOUS
  <2> HIDE DEF a, N
  <2>2. \A i \in 1 .. N + 1 : i \in 1 .. N \/ i = N + 1
    BY <2>1
  <2>3. \A i \in 1 .. N : i \in 1 .. N + 1
    BY <2>1
  <2>4. N + 1 \in 1 .. N + 1
    BY <2>1
  <2>5. Hid(p, a) <=> Hid(p, w) \/ Drops(p, x)
    BY <2>1, <2>2, <2>3, <2>4 DEF Hid
  <2> QED
    BY <2>5 DEF a
<1>5. Silent(Entries(p, w)) <=> Hid(p, w)
  <2>1. /\ DOMAIN Entries(p, w) = DOMAIN w
        /\ \A i \in DOMAIN w : Entries(p, w)[i].drops = Drops(p, w[i])
    BY DEF Entries, Entry
  <2> QED
    BY <2>1 DEF Silent, Hid
<1> QED
  BY <1>1, <1>2, <1>3, <1>4, <1>5

\* The last open element has the name, so it is the one that gets closed.
LEMMA LastOfEntries ==
  ASSUME NEW p, NEW S, NEW w \in Seq(S), NEW x \in S
  PROVE  LET open == Entries(p, Append(w, x))
             m    == LastOf(open, x)
         IN  /\ m = Len(w) + 1 /\ EndsFrom(open, m) = {EndOf(p, x)}
             /\ SubSeq(open, 1, m - 1) = Entries(p, w)
<1> DEFINE E == {Entry(p, y) : y \in S}
           u == Entries(p, w)
           e == Entry(p, x)
           open == Append(u, e)
           m == LastOf(open, x)
           N == Len(w)
<1>1. u \in Seq(E) /\ Len(u) = N /\ Entries(p, Append(w, x)) = open
  BY EntriesOn
<1>2. e \in E /\ e.name = x /\ e.end = EndOf(p, x) /\ N \in Nat
  BY DEF Entry
<1> HIDE DEF E, u, e, N
<1>3. /\ open \in Seq(E) /\ Len(open) = N + 1 /\ open[N + 1] = e
      /\ SubSeq(open, 1, N) = u
  BY <1>1, <1>2
<1> HIDE DEF open, m
<1>4. /\ m \in 0 .. N + 1
      /\ m = 0 => \A i \in 1 .. N + 1 : open[i].name # x
      /\ m # 0 => \A i \in m + 1 .. N + 1 : open[i].name # x
  BY <1>3, LastIs DEF m
<1>5. m = N + 1
  <2>1. N + 1 \in 1 .. N + 1 /\ (m \in 1 .. N => N + 1 \in m + 1 .. N + 1)
    BY <1>2
  <2>2. m # 0
    BY <1>2, <1>3, <1>4, <2>1
  <2>3. m \notin 1 .. N
    BY <1>2, <1>3, <1>4, <2>1, <2>2
  <2> QED
    BY <1>2, <1>4, <2>2, <2>3
<1>6. EndsFrom(open, m) = {EndOf(p, x)}
  <2>1. m .. Len(open) = {N + 1}
    BY <1>2, <1>3, <1>5
  <2>2. EndsFrom(open, m) = {open[N + 1].end}
    BY <2>1 DEF EndsFrom
  <2> QED
    BY <1>2, <1>3, <2>2
<1>7. m - 1 = N
  BY <1>2, <1>5
<1> QED
  BY <1>1, <1>3, <1>5, <1>6, <1>7 DEF m, u, N

\* One token more of a document, when the rewriter knows of w.
LEMMA AnotherToken ==
  ASSUME NEW p, NEW T, \A x \in T : x.kind \in {"start", "end", "char"}, NEW d \in Seq(T), NEW t \in T
  PROVE  /\ Between(OneShot(p, d))
         /\ OneShot(p, Append(d, t)) = OnToken(p, OneShot(p, d), t)
<1> DEFINE N == Len(d)
           a == Append(d, t)
<1>1. /\ N \in Nat /\ a \in Seq(T) /\ Len(a) = N + 1 /\ a[N + 1] = t
      /\ SubSeq(a, 1, N) = d /\ SubSeq(a, 1, N + 1) = a
  OBVIOUS
<1>2. N + 1 \in 1 .. N + 1 /\ (N + 1) - 1 = N /\ N \in 0 .. N + 1
  BY <1>1
<1> HIDE DEF N, a
<1>3. /\ \A n \in 0 .. Len(a) : Between(After(p, a, n))
      /\ \A n \in 1 .. Len(a) : After(p, a, n) = OnToken(p, After(p, a, n - 1), a[n])
  BY <1>1, Stepwise
<1>4. Between(After(p, a, N)) /\ After(p, a, N + 1) = OnToken(p, After(p, a, N), t)
  <2>1. After(p, a, N + 1) = OnToken(p, After(p, a, (N + 1) - 1), a[N + 1])
    BY <1>1, <1>2, <1>3
  <2> QED
    BY <1>1, <1>2, <1>3, <2>1
<1>5. After(p, a, N) = OneShot(p, d) /\ After(p, a, N + 1) = OneShot(p, a)
  BY <1>1 DEF After
<1>6. Between(OneShot(p, d)) /\ OneShot(p, a) = OnToken(p, OneShot(p, d), t)
  BY <1>4, <1>5
<1> QED
  BY <1>6 DEF a

\* The tokens that come out for those of T.
Pieces(p, T) == {Piece(p, t)[1] : t \in {x \in T : Piece(p, x) # <<>>}}

\* A piece is one of these or nothing.
LEMMA PieceIs ==
  ASSUME NEW p \in Passes, NEW T, NEW t \in T, Named(t)
  PROVE  /\ Piece(p, t) \in Seq(Pieces(p, T))
         /\ Piece(p, t) # <<>> => Piece(p, t) = <<Piece(p, t)[1]>> /\ Piece(p, t)[1] \in Pieces(p, T)
<1> DEFINE x == Piece(p, t)
<1>1. x = <<>> \/ \E y : x = <<y>>
  <2>1. CASE t.kind = "char"
    <3>1. x = <<>> \/ x = <<Char(t.c)>>
      BY <2>1 DEF Piece
    <3> QED
      BY <3>1, Zenon
  <2>2. CASE t.kind = "start"
    <3>1. x = Handler(p, t).start
      BY <2>2 DEF Piece
    <3>2. x = <<>> \/ \E attrs : x = <<StartTag(OutName(p, t.name), attrs)>>
      BY <3>1, HandlerIs
    <3> HIDE DEF x
    <3> QED
      BY <3>2, Zenon
  <2>3. CASE t.kind = "end"
    <3>1. x = <<>> \/ x = <<EndTag(OutName(p, t.name))>>
      BY <2>3 DEF Piece
    <3> QED
      BY <3>1, Zenon
  <2> QED
    BY <2>1, <2>2, <2>3 DEF Named
<1>2. x # <<>> => x[1] \in Pieces(p, T)
  BY DEF Pieces
<1> HIDE DEF x
<1>3. x # <<>> => x = <<x[1]>>
  <2>1. \A y : <<y>>[1] = y
    OBVIOUS
  <2> QED
    BY <1>1, <2>1
<1>4. x \in Seq(Pieces(p, T))
  <2>1. CASE x = <<>>
    BY <2>1, Small
  <2>2. CASE x # <<>>
    BY <1>2, <1>3, <2>2, Small
  <2> QED
    BY <2>1, <2>2
<1> QED
  BY <1>2, <1>3, <1>4 DEF x

\* Then it puts out the piece or nothing, and knows of what is open next.
LEMMA TurnDoes ==
  ASSUME NEW p \in Passes, NEW rw, Between(rw), NEW T, NEW t \in T, Named(t),
         NEW S, NEW w \in Seq(S), NEW w2 \in Seq(S), Turn(w, t, w2), t.kind # "char" => t.name \in S,
         rw.open = Entries(p, w), rw.out \in Seq(Pieces(p, T))
  PROVE  LET new == OnToken(p, rw, t)
         IN  /\ new.open = Entries(p, w2)
             /\ new.out = IF Hid(p, w) THEN rw.out ELSE rw.out \o Piece(p, t)
             /\ new.out \in Seq(Pieces(p, T))
<1> DEFINE new == OnToken(p, rw, t)
           s == rw.out
           V == Pieces(p, T)
           x == Piece(p, t)
           y == IF Hid(p, w) THEN s ELSE s \o x
<1>1. \A tokens : Put(rw.open, s, tokens) = IF Hid(p, w) THEN s ELSE s \o tokens
  <2>1. Silent(Entries(p, w)) <=> Hid(p, w)
    BY EntriesOn
  <2> QED
    BY <2>1 DEF Put
<1>2. x \in Seq(V) /\ s \in Seq(V)
  BY PieceIs
<1>3. y \in Seq(V) /\ s \o <<>> = s
  <2> HIDE DEF x, s, V
  <2> QED
    BY <1>2
<1> HIDE DEF x, s, V, new
<1>4. CASE t.kind = "char"
  <2>1. new.open = rw.open /\ new.out = IF Shows(p, t.c) THEN Put(rw.open, s, <<Char(t.c)>>) ELSE s
    BY <1>4, CharDoes DEF new, s
  <2>2. w2 = w
    BY <1>4 DEF Turn
  <2>3. x = IF Shows(p, t.c) THEN <<Char(t.c)>> ELSE <<>>
    BY <1>4 DEF Piece, x
  <2>4. new.open = Entries(p, w2) /\ new.out = y
    BY <1>1, <1>3, <2>1, <2>2, <2>3
  <2> QED
    BY <1>3, <2>4 DEF new, s, V, x
<1>5. CASE t.kind = "start"
  <2> DEFINE h == Handler(p, t)
  <2>1. /\ new.open = IF t.name \in Void THEN rw.open
                      ELSE Append(rw.open, [name |-> t.name, drops |-> h.drops, end |-> h.end])
        /\ new.out = Put(rw.open, s, h.start)
    BY <1>5, StartDoes DEF new, s
  <2>2. h.start = x
    BY <1>5 DEF Piece, x
  <2>3. [name |-> t.name, drops |-> h.drops, end |-> h.end] = Entry(p, t.name)
    BY HandlerIs DEF Entry
  <2> HIDE DEF h
  <2>4. w2 = IF t.name \in Void THEN w ELSE Append(w, t.name)
    BY <1>5 DEF Turn
  <2>5. new.open = Entries(p, w2)
    <3>1. t.name \in S
      BY <1>5
    <3>2. Entries(p, Append(w, t.name)) = Append(Entries(p, w), Entry(p, t.name))
      <4>1. \A x1 \in S : Entries(p, Append(w, x1)) = Append(Entries(p, w), Entry(p, x1))
        BY EntriesOn
      <4> QED
        BY <3>1, <4>1
    <3> QED
      BY <2>1, <2>3, <2>4, <3>2
  <2>6. new.out = y
    BY <1>1, <2>1, <2>2
  <2> QED
    BY <1>3, <2>5, <2>6 DEF new, s, V, x
<1>6. CASE t.kind = "end"
  <2> DEFINE n == t.name
             m == LastOf(rw.open, n)
             named == EndName(EndsFrom(rw.open, m), n)
  <2>1. new.open = EndedOpen(rw.open, m) /\ new.out = EndedOut(rw.open, s, m, n)
    BY <1>6, EndDoes DEF new, s
  <2>2. w = Append(w2, n) /\ n \in S /\ n # Gone
    BY <1>6 DEF Turn, Named
  <2>3. /\ m = Len(w2) + 1 /\ EndsFrom(rw.open, m) = {EndOf(p, n)}
        /\ SubSeq(rw.open, 1, m - 1) = Entries(p, w2)
    BY <2>2, LastOfEntries
  <2>4. m # 0
    BY <2>3
  <2>5. (Keeps(p, n) => named = OutName(p, n) /\ named # Gone /\ ~Drops(p, n)) /\ (~Keeps(p, n) => named = Gone)
    BY <2>2, <2>3, NamesAre
  <2>6. x = IF Keeps(p, n) THEN <<EndTag(OutName(p, n))>> ELSE <<>>
    BY <1>6 DEF Piece, x
  <2>7. Hid(p, w) <=> Hid(p, w2) \/ Drops(p, n)
    BY <2>2, EntriesOn
  <2>8. \A tokens : Put(Entries(p, w2), s, tokens) = IF Hid(p, w2) THEN s ELSE s \o tokens
    BY EntriesOn DEF Put
  <2> HIDE DEF m, n
  <2>9. new.open = Entries(p, w2)
    BY <2>1, <2>3, <2>4 DEF EndedOpen
  <2>10. new.out = IF named = Gone THEN s ELSE Put(Entries(p, w2), s, <<EndTag(named)>>)
    BY <2>1, <2>3, <2>4 DEF EndedOut
  <2> HIDE DEF named
  <2>11. new.out = y
    <3>1. CASE Keeps(p, n)
      BY <2>5, <2>6, <2>7, <2>8, <2>10, <3>1
    <3>2. CASE ~Keeps(p, n)
      BY <1>3, <2>5, <2>6, <2>10, <3>2
    <3> QED
      BY <3>1, <3>2
  <2> QED
    BY <1>3, <2>9, <2>11 DEF new, s, V, x
<1> QED
  BY <1>4, <1>5, <1>6 DEF Named

\* Documents made of the tokens T, whose names are in S.
Rules(T, S) == \A t \in T : Named(t) /\ (t.kind # "char" => t.name \in S)

\* Token by token, L are the open elements of d, by name, and w at its end.
NestsBy(L, d, w, S) ==
  /\ \A n \in 0 .. Len(d) : L[n] \in Seq(S)
  /\ L[0] = <<>> /\ L[Len(d)] = w
  /\ \A n \in 1 .. Len(d) : Turn(L[n - 1], d[n], L[n])
Nests(d, w, S) == \E L : NestsBy(L, d, w, S)

\* The empty document nests, and one token more if it fits.
LEMMA NestsOn ==
  ASSUME NEW S
  PROVE  /\ Nests(<<>>, <<>>, S)
         /\ \A T : \A d \in Seq(T), t \in T, w, w2 \in Seq(S) :
              Nests(d, w, S) /\ Turn(w, t, w2) => Nests(Append(d, t), w2, S)
<1>1. Nests(<<>>, <<>>, S)
  <2> DEFINE e == <<>>
             L == [n \in {0} |-> e]
  <2>1. e = <<>> /\ Len(e) = 0 /\ e \in Seq(S) /\ L[0] = e /\ 0 .. 0 = {0} /\ 1 .. 0 = {}
    OBVIOUS
  <2> HIDE DEF e, L
  <2>2. NestsBy(L, e, e, S)
    BY <2>1 DEF NestsBy
  <2>3. Nests(e, e, S)
    BY <2>2 DEF Nests
  <2> QED
    BY <2>3 DEF e
<1>2. ASSUME NEW T, NEW d \in Seq(T), NEW t \in T, NEW w, NEW w2 \in Seq(S), NEW L, NestsBy(L, d, w, S),
             Turn(w, t, w2)
      PROVE  Nests(Append(d, t), w2, S)
  <2> DEFINE N == Len(d)
             a == Append(d, t)
             M == [n \in 0 .. N + 1 |-> IF n = N + 1 THEN w2 ELSE L[n]]
  <2>1. /\ N \in Nat /\ Len(a) = N + 1 /\ a[N + 1] = t /\ \A n \in 1 .. N : a[n] = d[n]
        /\ M[N + 1] = w2 /\ \A n \in 0 .. N : M[n] = L[n]
    OBVIOUS
  <2>2. /\ \A n \in 0 .. N : L[n] \in Seq(S)
        /\ L[0] = <<>> /\ L[N] = w
        /\ \A n \in 1 .. N : Turn(L[n - 1], d[n], L[n])
    BY <1>2 DEF NestsBy
  <2> HIDE DEF N, a, M
  <2>3. /\ \A n \in 0 .. N + 1 : n \in 0 .. N \/ n = N + 1
        /\ \A n \in 1 .. N + 1 : n \in 1 .. N \/ n = N + 1
        /\ \A n \in 1 .. N : n \in 0 .. N /\ n - 1 \in 0 .. N
        /\ 0 \in 0 .. N /\ N \in 0 .. N /\ (N + 1) - 1 = N
    BY <2>1
  <2>4. \A n \in 0 .. N + 1 : M[n] \in Seq(S)
    BY <2>1, <2>2, <2>3
  <2>5. ASSUME NEW n \in 1 .. N + 1
        PROVE  Turn(M[n - 1], a[n], M[n])
    <3>1. CASE n \in 1 .. N
      BY <2>1, <2>2, <2>3, <3>1
    <3>2. CASE n = N + 1
      BY <1>2, <2>1, <2>2, <2>3, <3>2
    <3> QED
      BY <2>3, <3>1, <3>2
  <2>6. M[0] = <<>> /\ M[N + 1] = w2
    BY <2>1, <2>2, <2>3
  <2>7. NestsBy(M, a, w2, S)
    BY <2>1, <2>4, <2>5, <2>6 DEF NestsBy
  <2> QED
    BY <2>7 DEF Nests, a
<1>3. \A T : \A d \in Seq(T), t \in T, w, w2 \in Seq(S) :
        Nests(d, w, S) /\ Turn(w, t, w2) => Nests(Append(d, t), w2, S)
  <2> SUFFICES ASSUME NEW T, NEW d \in Seq(T), NEW t \in T, NEW w \in Seq(S), NEW w2 \in Seq(S),
                      Nests(d, w, S), Turn(w, t, w2)
               PROVE  Nests(Append(d, t), w2, S)
    OBVIOUS
  <2>1. PICK L : NestsBy(L, d, w, S)
    BY DEF Nests
  <2> QED
    BY <1>2, <2>1
<1> QED
  BY <1>1, <1>3

\* Along a document that nests, the rewriter knows what is open, and puts
\* out one piece after the other.
LEMMA Along ==
  ASSUME NEW p \in Passes, NEW T, NEW S, Rules(T, S), NEW d \in Seq(T),
         NEW L, NEW w, NestsBy(L, d, w, S)
  PROVE  /\ \A n \in 0 .. Len(d) : /\ After(p, d, n).open = Entries(p, L[n])
                                   /\ After(p, d, n).out \in Seq(Pieces(p, T))
         /\ \A n \in 1 .. Len(d) :
              After(p, d, n).out = IF Hid(p, L[n - 1]) THEN After(p, d, n - 1).out
                                   ELSE After(p, d, n - 1).out \o Piece(p, d[n])
         /\ OneShot(p, d).open = Entries(p, w) /\ OneShot(p, d).out \in Seq(Pieces(p, T))
<1> DEFINE R(n) == After(p, d, n)
           N == Len(d)
           V == Pieces(p, T)
           P == {n \in 0 .. N : R(n).open = Entries(p, L[n]) /\ R(n).out \in Seq(V)}
<1>1. \A t \in T : t.kind \in {"start", "end", "char"} /\ Named(t)
  BY DEF Rules, Named
<1>2. /\ R(0) = Rec(<<>>, <<>>, FALSE)
      /\ R(N) = OneShot(p, d)
      /\ \A n \in 0 .. N : Between(R(n))
      /\ \A n \in 1 .. N : R(n) = OnToken(p, R(n - 1), d[n])
  BY <1>1, Stepwise
<1>3. /\ N \in Nat
      /\ \A n \in 1 .. N : d[n] \in T /\ n - 1 \in 0 .. N /\ n \in 0 .. N
  OBVIOUS
<1>4. /\ \A n \in 0 .. N : L[n] \in Seq(S)
      /\ L[0] = <<>> /\ L[N] = w
      /\ \A n \in 1 .. N : Turn(L[n - 1], d[n], L[n])
  BY DEF NestsBy
<1> HIDE DEF R, N, V
<1>5. 0 \in P
  <2>1. R(0).out = <<>> /\ R(0).open = <<>>
    <3>1. \A o, x, b : Rec(o, x, b).open = o /\ Rec(o, x, b).out = x
      BY Records
    <3>2. Rec(<<>>, <<>>, FALSE).out = <<>> /\ Rec(<<>>, <<>>, FALSE).open = <<>>
      BY <3>1, Zenon
    <3> QED
      BY <1>2, <3>2
  <2>2. Entries(p, <<>>) = <<>>
    BY DEF Entries
  <2>3. R(0).out \in Seq(V)
    BY <2>1, Small
  <2>4. 0 \in 0 .. N
    BY <1>3
  <2> QED
    BY <1>4, <2>1, <2>2, <2>3, <2>4
<1>6. ASSUME NEW n \in 1 .. N, n - 1 \in P
      PROVE  /\ R(n).open = Entries(p, L[n])
             /\ R(n).out = IF Hid(p, L[n - 1]) THEN R(n - 1).out ELSE R(n - 1).out \o Piece(p, d[n])
             /\ R(n).out \in Seq(V)
  <2> DEFINE rw == R(n - 1)
             t == d[n]
             u == L[n - 1]
             u2 == L[n]
  <2>1. t \in T /\ Between(rw) /\ R(n) = OnToken(p, rw, t) /\ Named(t)
    BY <1>1, <1>2, <1>3
  <2>2. u \in Seq(S) /\ u2 \in Seq(S) /\ Turn(u, t, u2)
    BY <1>3, <1>4
  <2>3. t.kind # "char" => t.name \in S
    BY <2>1 DEF Rules
  <2>4. rw.open = Entries(p, u) /\ rw.out \in Seq(Pieces(p, T))
    BY <1>6 DEF V
  <2> HIDE DEF rw, t, u, u2, P
  <2>5. /\ OnToken(p, rw, t).open = Entries(p, u2)
        /\ OnToken(p, rw, t).out = IF Hid(p, u) THEN rw.out ELSE rw.out \o Piece(p, t)
        /\ OnToken(p, rw, t).out \in Seq(Pieces(p, T))
    BY <2>1, <2>2, <2>3, <2>4, TurnDoes
  <2> QED
    BY <2>1, <2>5 DEF rw, t, u, u2, V
<1>7. ASSUME NEW n \in 0 .. N - 1, n \in P
      PROVE  n + 1 \in P
  <2>1. n + 1 \in 1 .. N /\ (n + 1) - 1 = n /\ n + 1 \in 0 .. N
    BY <1>3
  <2>2. (n + 1) - 1 \in P
    BY <1>7, <2>1
  <2>3. R(n + 1).open = Entries(p, L[n + 1]) /\ R(n + 1).out \in Seq(V)
    BY <1>6, <2>1, <2>2
  <2> QED
    BY <2>1, <2>3
<1> HIDE DEF P
<1>8. \A n \in 0 .. N : n \in P
  BY <1>3, <1>5, <1>7, Climbing
<1>9. \A n \in 1 .. N :
        R(n).out = IF Hid(p, L[n - 1]) THEN R(n - 1).out ELSE R(n - 1).out \o Piece(p, d[n])
  BY <1>3, <1>6, <1>8
<1>10. \A n \in 0 .. N : R(n).open = Entries(p, L[n]) /\ R(n).out \in Seq(V)
  BY <1>8 DEF P
<1>11. OneShot(p, d).open = Entries(p, w) /\ OneShot(p, d).out \in Seq(V)
  <2>1. N \in 0 .. N
    BY <1>3
  <2> QED
    BY <1>2, <1>4, <1>10, <2>1
<1> QED
  BY <1>9, <1>10, <1>11 DEF R, N, V

-----------------------------------------------------------------------------
(* The tags that come out nest. *)

\* The open elements whose tags came out, by the names they got.
Shown(p, w) ==
  FlattenSeq([i \in DOMAIN w |->
    IF Keeps(p, w[i]) /\ ~Hid(p, SubSeq(w, 1, i - 1)) THEN <<OutName(p, w[i])>> ELSE <<>>])

OutNames(p, S) == {OutName(p, x) : x \in S}

\* An open element more shows by its name, or not at all.
LEMMA ShownOn ==
  ASSUME NEW p, NEW S, NEW w \in Seq(S)
  PROVE  /\ Shown(p, <<>>) = <<>> /\ Shown(p, w) \in Seq(OutNames(p, S))
         /\ \A x \in S : Shown(p, Append(w, x)) =
              IF Keeps(p, x) /\ ~Hid(p, w) THEN Append(Shown(p, w), OutName(p, x)) ELSE Shown(p, w)
<1> DEFINE F(y, u) == IF Keeps(p, y) /\ ~Hid(p, u) THEN <<OutName(p, y)>> ELSE <<>>
           of(v) == [i \in DOMAIN v |-> F(v[i], SubSeq(v, 1, i - 1))]
           V == OutNames(p, S)
           W == Seq(V)
<1>1. \A v : Shown(p, v) = FlattenSeq(of(v))
  BY DEF Shown
<1>2. \A y \in S : \A u : F(y, u) \in W
  <2> SUFFICES ASSUME NEW y \in S, NEW u
               PROVE  F(y, u) \in W
    OBVIOUS
  <2>1. OutName(p, y) \in V
    BY DEF OutNames
  <2> HIDE DEF V
  <2>2. <<>> \in Seq(V) /\ <<OutName(p, y)>> \in Seq(V)
    BY <2>1, Small
  <2> QED
    BY <2>2
<1>3. of(<<>>) = <<>>
  OBVIOUS
<1>4. of(w) \in Seq(W)
  <2> HIDE DEF F, W
  <2>1. \A i \in DOMAIN w : F(w[i], SubSeq(w, 1, i - 1)) \in W
    BY <1>2
  <2> QED
    BY <2>1
<1>5. ASSUME NEW x \in S
      PROVE  of(Append(w, x)) = Append(of(w), F(x, w))
  <2> DEFINE N == Len(w)
             a == Append(w, x)
             G(v, i) == F(v[i], SubSeq(v, 1, i - 1))
             y == [i \in DOMAIN a |-> G(a, i)]
             z == Append([i \in DOMAIN w |-> G(w, i)], F(x, w))
  <2>1. /\ N \in Nat /\ a \in Seq(S) /\ DOMAIN w = 1 .. N /\ DOMAIN a = 1 .. N + 1
        /\ a[N + 1] = x /\ \A i \in 1 .. N : a[i] = w[i]
        /\ \A i \in 1 .. N : SubSeq(a, 1, i - 1) = SubSeq(w, 1, i - 1)
        /\ SubSeq(a, 1, N) = w
    OBVIOUS
  <2>2. G(a, N + 1) = F(x, w)
    <3>1. (N + 1) - 1 = N
      BY <2>1
    <3> HIDE DEF F, N, a
    <3> QED
      BY <2>1, <3>1
  <2>3. \A i \in 1 .. N : G(a, i) = G(w, i)
    <3> HIDE DEF F, N, a
    <3> QED
      BY <2>1
  <2>4. \A U : \A s \in Seq(U) : \A e :
        /\ DOMAIN Append(s, e) = 1 .. Len(s) + 1
        /\ \A i \in 1 .. Len(s) : Append(s, e)[i] = s[i]
        /\ Append(s, e)[Len(s) + 1] = e
    OBVIOUS
  <2> DEFINE g == [i \in DOMAIN w |-> G(w, i)]
  <2>5. g \in Seq(W) /\ Len(g) = N /\ F(x, w) \in W /\ \A i \in 1 .. N : g[i] = G(w, i)
    <3>1. \A i \in DOMAIN w : G(w, i) \in W
      <4> HIDE DEF F, W
      <4> QED
        BY <1>2
    <3>2. F(x, w) \in W
      <4> HIDE DEF F, W
      <4> QED
        BY <1>2
    <3> HIDE DEF G, W, F
    <3> QED
      BY <3>1, <3>2
  <2>6. y \in Seq(W) /\ Len(y) = N + 1 /\ \A i \in 1 .. N + 1 : y[i] = G(a, i)
    <3>1. \A i \in DOMAIN a : G(a, i) \in W
      <4> HIDE DEF F, W
      <4>1. \A i \in DOMAIN a : a[i] \in S
        BY <2>1
      <4> HIDE DEF a
      <4> QED
        BY <1>2, <4>1
    <3> HIDE DEF G, W, F
    <3>2. y \in [1 .. N + 1 -> W] /\ \A i \in 1 .. N + 1 : y[i] = G(a, i)
      <4> HIDE DEF a, N
      <4> QED
        BY <2>1, <3>1
    <3> HIDE DEF y, a, N
    <3>3. \A f \in [1 .. N + 1 -> W] : f \in Seq(W) /\ Len(f) = N + 1
      BY <2>1
    <3> QED
      BY <3>2, <3>3
  <2> HIDE DEF G, W, F, g, y, a, N
  <2>7. z = Append(g, F(x, w))
    BY DEF g
  <2>8. z \in Seq(W) /\ Len(z) = N + 1 /\ z[N + 1] = F(x, w) /\ \A i \in 1 .. N : z[i] = G(w, i)
    BY <2>5, <2>7
  <2> HIDE DEF z
  <2>9. \A i \in 1 .. N + 1 : y[i] = z[i]
    <3>1. \A i \in 1 .. N + 1 : i \in 1 .. N \/ i = N + 1
      BY <2>1
    <3> QED
      BY <2>2, <2>3, <2>6, <2>8, <3>1
  <2>10. y = z
    BY <2>1, <2>6, <2>8, <2>9, SeqEqual
  <2> QED
    BY <2>10 DEF y, z, a, G
<1> HIDE DEF of
<1>6. Shown(p, <<>>) = <<>>
  BY <1>1, <1>3, SpelledNothing
<1>7. Shown(p, w) \in Seq(V)
  <2> HIDE DEF V
  <2> QED
    BY <1>1, <1>4, Flattening
<1>8. ASSUME NEW x \in S
      PROVE  Shown(p, Append(w, x)) =
               IF Keeps(p, x) /\ ~Hid(p, w) THEN Append(Shown(p, w), OutName(p, x)) ELSE Shown(p, w)
  <2> DEFINE y == F(x, w)
             s == Shown(p, w)
  <2>1. y \in W
    BY <1>2
  <2>2. Shown(p, Append(w, x)) = s \o y
    <3> HIDE DEF y, F, V
    <3>1. of(w) \in Seq(Seq(V)) /\ y \in Seq(V) /\ of(Append(w, x)) = Append(of(w), y)
      BY <1>4, <1>5, <2>1 DEF y
    <3>2. FlattenSeq(Append(of(w), y)) = FlattenSeq(of(w)) \o y
      BY <3>1, Flattened
    <3> QED
      BY <1>1, <3>1, <3>2
  <2>3. s \in Seq(V)
    BY <1>7
  <2> HIDE DEF s, V
  <2>4. \A e : s \o <<>> = s /\ s \o <<e>> = Append(s, e)
    BY <2>3
  <2> QED
    BY <2>2, <2>4 DEF s
<1> QED
  BY <1>6, <1>7, <1>8

\* What a piece is.
LEMMA PieceOf ==
  ASSUME NEW p \in Passes, NEW t, Named(t)
  PROVE  \/ Piece(p, t) = <<>>
         \/ t.kind = "char" /\ Shows(p, t.c) /\ Piece(p, t) = <<Char(t.c)>>
         \/ /\ t.kind = "start" /\ Keeps(p, t.name)
            /\ \E attrs : Piece(p, t) = <<StartTag(OutName(p, t.name), attrs)>>
         \/ t.kind = "end" /\ Keeps(p, t.name) /\ Piece(p, t) = <<EndTag(OutName(p, t.name))>>
<1>1. CASE t.kind = "char"
  <2>1. Piece(p, t) = IF Shows(p, t.c) THEN <<Char(t.c)>> ELSE <<>>
    BY <1>1 DEF Piece
  <2> QED
    BY <1>1, <2>1
<1>2. CASE t.kind = "start"
  <2>1. Piece(p, t) = Handler(p, t).start
    BY <1>2 DEF Piece
  <2>2. /\ Keeps(p, t.name) => \E attrs : Handler(p, t).start = <<StartTag(OutName(p, t.name), attrs)>>
        /\ ~Keeps(p, t.name) => Handler(p, t).start = <<>>
    BY HandlerIs
  <2> QED
    BY <1>2, <2>1, <2>2
<1>3. CASE t.kind = "end"
  <2>1. Piece(p, t) = IF Keeps(p, t.name) THEN <<EndTag(OutName(p, t.name))>> ELSE <<>>
    BY <1>3 DEF Piece
  <2> QED
    BY <1>3, <2>1
<1> QED
  BY <1>1, <1>2, <1>3 DEF Named

\* The tokens that come out have names too.
LEMMA RulesOut ==
  ASSUME NEW p \in Passes, NEW T, NEW S, Rules(T, S)
  PROVE  Rules(Pieces(p, T), OutNames(p, S))
<1> SUFFICES ASSUME NEW t \in T, Piece(p, t) # <<>>
             PROVE  LET y == Piece(p, t)[1]
                    IN  Named(y) /\ (y.kind # "char" => y.name \in OutNames(p, S))
  BY DEF Rules, Pieces
<1> DEFINE y == Piece(p, t)[1]
<1>1. Named(t) /\ (t.kind # "char" => t.name \in S)
  BY DEF Rules
<1>2. \A e : <<e>>[1] = e
  OBVIOUS
<1>3. \/ t.kind = "char" /\ y = Char(t.c)
      \/ t.kind = "start" /\ \E attrs : y = StartTag(OutName(p, t.name), attrs)
      \/ t.kind = "end" /\ y = EndTag(OutName(p, t.name))
  BY <1>1, <1>2, PieceOf
<1>4. t.kind # "char" => OutName(p, t.name) \in OutNames(p, S) /\ OutName(p, t.name) # Gone
  BY <1>1, NamesAre DEF OutNames, Named
<1> HIDE DEF y
<1>5. CASE t.kind = "char"
  <2>1. y.kind = "char"
    BY <1>3, <1>5 DEF Char
  <2> QED
    BY <2>1 DEF Named, y
<1>6. CASE t.kind = "start"
  <2>1. y.kind = "start" /\ y.name = OutName(p, t.name)
    BY <1>3, <1>6 DEF StartTag
  <2> QED
    BY <1>4, <1>6, <2>1 DEF Named, y
<1>7. CASE t.kind = "end"
  <2>1. y.kind = "end" /\ y.name = OutName(p, t.name)
    BY <1>3, <1>7 DEF EndTag
  <2> QED
    BY <1>4, <1>7, <2>1 DEF Named, y
<1> QED
  BY <1>1, <1>5, <1>6, <1>7 DEF Named

\* A piece that comes out opens and closes what the token does.
LEMMA PieceTurns ==
  ASSUME NEW p \in Passes, NEW S, NEW t, Named(t), t.kind # "char" => t.name \in S,
         NEW w \in Seq(S), NEW w2 \in Seq(S), Turn(w, t, w2)
  PROVE  /\ Hid(p, w) \/ Piece(p, t) = <<>> => Shown(p, w2) = Shown(p, w)
         /\ ~Hid(p, w) /\ Piece(p, t) # <<>> => Turn(Shown(p, w), Piece(p, t)[1], Shown(p, w2))
<1> DEFINE x == Piece(p, t)
           y == Piece(p, t)[1]
           s == Shown(p, w)
           s2 == Shown(p, w2)
           n == t.name
           o == OutName(p, t.name)
<1>0. \A e : <<e>>[1] = e /\ <<e>> # <<>>
  OBVIOUS
<1>1. \/ x = <<>>
      \/ t.kind = "char" /\ x # <<>> /\ y = Char(t.c)
      \/ t.kind = "start" /\ Keeps(p, n) /\ x # <<>> /\ \E attrs : y = StartTag(o, attrs)
      \/ t.kind = "end" /\ Keeps(p, n) /\ x # <<>> /\ y = EndTag(o)
  BY <1>0, PieceOf
<1>2. t.kind \in {"start", "end"} /\ ~Keeps(p, n) => x = <<>>
  BY <1>1
<1>3. /\ t.kind = "start" /\ Keeps(p, n) => x # <<>>
      /\ t.kind = "end" /\ Keeps(p, n) => x # <<>>
  <2>1. t.kind = "start" /\ Keeps(p, n) => \E attrs : x = <<StartTag(o, attrs)>>
    BY HandlerIs DEF Piece
  <2>2. t.kind = "end" /\ Keeps(p, n) => x = <<EndTag(o)>>
    BY DEF Piece
  <2> QED
    BY <1>0, <2>1, <2>2
<1>4. t.kind # "char" => (o \in Void <=> n \in Void) /\ (Keeps(p, n) => ~Drops(p, n))
  BY NamesAre DEF Named
<1>5. /\ \A u \in Seq(S) : \A m \in S : Shown(p, Append(u, m)) =
           IF Keeps(p, m) /\ ~Hid(p, u) THEN Append(Shown(p, u), OutName(p, m)) ELSE Shown(p, u)
      /\ \A u \in Seq(S) : \A m \in S : Hid(p, Append(u, m)) <=> Hid(p, u) \/ Drops(p, m)
  <2>1. ASSUME NEW u \in Seq(S)
        PROVE  \A m \in S : Shown(p, Append(u, m)) =
                 IF Keeps(p, m) /\ ~Hid(p, u) THEN Append(Shown(p, u), OutName(p, m)) ELSE Shown(p, u)
    BY ShownOn
  <2>2. ASSUME NEW u \in Seq(S)
        PROVE  \A m \in S : Hid(p, Append(u, m)) <=> Hid(p, u) \/ Drops(p, m)
    BY EntriesOn
  <2> QED
    BY <2>1, <2>2
<1> HIDE DEF x, y, s, s2
<1>6. CASE t.kind = "char"
  <2>1. w2 = w
    BY <1>6 DEF Turn
  <2>2. s2 = s
    BY <2>1 DEF s, s2
  <2>3. x # <<>> => y.kind = "char"
    BY <1>1, <1>6 DEF Char
  <2>4. x # <<>> => Turn(s, y, s2)
    BY <2>2, <2>3 DEF Turn
  <2> QED
    BY <2>2, <2>4 DEF x, y, s, s2
<1>7. CASE t.kind = "start"
  <2>1. x # <<>> => Keeps(p, n) /\ y.kind = "start" /\ y.name = o
    BY <1>1, <1>7 DEF StartTag
  <2>2. CASE n \in Void
    <3>1. s2 = s
      BY <1>7, <2>2 DEF Turn, s, s2
    <3>2. x # <<>> => Turn(s, y, s2)
      BY <1>4, <1>7, <2>1, <2>2, <3>1 DEF Turn
    <3> QED
      BY <3>1, <3>2 DEF x, y, s, s2
  <2>3. CASE n \notin Void
    <3>1. w2 = Append(w, n) /\ n \in S
      BY <1>7, <2>3 DEF Turn
    <3>2. s2 = IF Keeps(p, n) /\ ~Hid(p, w) THEN Append(s, o) ELSE s
      BY <1>5, <3>1 DEF s, s2
    <3> HIDE DEF n, o
    <3>3. Hid(p, w) \/ x = <<>> => s2 = s
      BY <1>3, <1>7, <3>2
    <3>4. ~Hid(p, w) /\ x # <<>> => Turn(s, y, s2)
      <4> SUFFICES ASSUME ~Hid(p, w), x # <<>>
                   PROVE  Turn(s, y, s2)
        OBVIOUS
      <4>1. s2 = Append(s, y.name) /\ y.kind = "start" /\ y.name \notin Void
        BY <1>4, <1>7, <2>1, <2>3, <3>2
      <4> QED
        BY <4>1 DEF Turn
    <3> QED
      BY <3>3, <3>4 DEF x, y, s, s2
  <2> QED
    BY <2>2, <2>3
<1>8. CASE t.kind = "end"
  <2>1. x # <<>> => Keeps(p, n) /\ y.kind = "end" /\ y.name = o
    BY <1>1, <1>8 DEF EndTag
  <2>2. w = Append(w2, n) /\ n \in S
    BY <1>8 DEF Turn
  <2>3. s = IF Keeps(p, n) /\ ~Hid(p, w2) THEN Append(s2, o) ELSE s2
    BY <1>5, <2>2 DEF s, s2
  <2>4. Hid(p, w) <=> Hid(p, w2) \/ Drops(p, n)
    BY <1>5, <2>2
  <2> HIDE DEF n, o
  <2>5. Hid(p, w) \/ x = <<>> => s2 = s
    BY <1>3, <1>4, <1>8, <2>3, <2>4
  <2>6. ~Hid(p, w) /\ x # <<>> => Turn(s, y, s2)
    <3> SUFFICES ASSUME ~Hid(p, w), x # <<>>
                 PROVE  Turn(s, y, s2)
      OBVIOUS
    <3>1. s = Append(s2, y.name) /\ y.kind = "end"
      BY <2>1, <2>3, <2>4
    <3> QED
      BY <3>1 DEF Turn
  <2> QED
    BY <2>5, <2>6 DEF x, y, s, s2
<1> QED
  BY <1>6, <1>7, <1>8 DEF Named

\* So what comes out of a document that nests does.
LEMMA OutNests ==
  ASSUME NEW p \in Passes, NEW T, NEW S, Rules(T, S), NEW d \in Seq(T),
         NEW L, NEW w, NestsBy(L, d, w, S)
  PROVE  \A n \in 0 .. Len(d) : Nests(After(p, d, n).out, Shown(p, L[n]), OutNames(p, S))
<1> DEFINE X(n) == After(p, d, n).out
           N == Len(d)
           V == Pieces(p, T)
           O == OutNames(p, S)
           P == {n \in 0 .. N : Nests(X(n), Shown(p, L[n]), O)}
<1>1. \A t \in T : t.kind \in {"start", "end", "char"} /\ Named(t) /\ (t.kind # "char" => t.name \in S)
  BY DEF Rules, Named
<1>2. /\ N \in Nat
      /\ \A n \in 1 .. N : d[n] \in T /\ n - 1 \in 0 .. N /\ n \in 0 .. N
  OBVIOUS
<1>3. /\ \A n \in 0 .. N : X(n) \in Seq(V)
      /\ \A n \in 1 .. N : X(n) = IF Hid(p, L[n - 1]) THEN X(n - 1) ELSE X(n - 1) \o Piece(p, d[n])
  BY Along
<1>4. X(0) = <<>>
  <2>1. After(p, d, 0) = Rec(<<>>, <<>>, FALSE)
    BY <1>1, Stepwise
  <2>2. \A o, x, b : Rec(o, x, b).out = x
    BY Records
  <2>3. Rec(<<>>, <<>>, FALSE).out = <<>>
    BY <2>2, Zenon
  <2> QED
    BY <2>1, <2>3
<1>5. /\ \A n \in 0 .. N : L[n] \in Seq(S)
      /\ L[0] = <<>> /\ \A n \in 1 .. N : Turn(L[n - 1], d[n], L[n])
  BY DEF NestsBy
<1> HIDE DEF X, N, V, O
<1>6. 0 \in P
  <2>1. Shown(p, <<>>) = <<>>
    <3>1. <<>> \in Seq(S)
      BY Small
    <3> QED
      BY <3>1, ShownOn
  <2>2. Nests(<<>>, <<>>, O)
    BY NestsOn
  <2>3. 0 \in 0 .. N
    BY <1>2
  <2> QED
    BY <1>4, <1>5, <2>1, <2>2, <2>3
<1>7. ASSUME NEW n \in 0 .. N - 1, n \in P
      PROVE  n + 1 \in P
  <2> DEFINE t == d[n + 1]
             u == L[n]
             u2 == L[n + 1]
             x == Piece(p, t)
  <2>1. n + 1 \in 1 .. N /\ (n + 1) - 1 = n /\ n + 1 \in 0 .. N /\ n \in 0 .. N
    BY <1>2
  <2>2. t \in T /\ Named(t) /\ (t.kind # "char" => t.name \in S)
    BY <1>1, <1>2, <2>1
  <2>3. Turn(u, t, u2)
    <3>1. Turn(L[(n + 1) - 1], d[n + 1], L[n + 1])
      BY <1>5, <2>1
    <3> QED
      BY <2>1, <3>1
  <2>4. u \in Seq(S) /\ u2 \in Seq(S)
    BY <1>5, <2>1
  <2>5. X(n + 1) = IF Hid(p, u) THEN X(n) ELSE X(n) \o x
    <3>1. X(n + 1) = IF Hid(p, L[(n + 1) - 1]) THEN X((n + 1) - 1) ELSE X((n + 1) - 1) \o Piece(p, d[n + 1])
      BY <1>3, <2>1
    <3> QED
      BY <2>1, <3>1
  <2>6. Nests(X(n), Shown(p, u), O) /\ X(n) \in Seq(V)
    BY <1>3, <1>7, <2>1
  <2> HIDE DEF t, u, u2, x
  <2>7. /\ Hid(p, u) \/ x = <<>> => Shown(p, u2) = Shown(p, u)
        /\ ~Hid(p, u) /\ x # <<>> => Turn(Shown(p, u), x[1], Shown(p, u2))
    BY <2>2, <2>3, <2>4, PieceTurns DEF x
  <2>8. Shown(p, u) \in Seq(O) /\ Shown(p, u2) \in Seq(O)
    BY <2>4, ShownOn DEF O
  <2>9. x # <<>> => x = <<x[1]>> /\ x[1] \in V
    BY <2>2, PieceIs DEF x, V
  <2>10. Nests(X(n + 1), Shown(p, u2), O)
    <3>1. CASE Hid(p, u)
      BY <2>5, <2>6, <2>7, <3>1
    <3>2. CASE ~Hid(p, u) /\ x = <<>>
      <4>1. X(n) \o <<>> = X(n)
        BY <2>6
      <4> QED
        BY <2>5, <2>6, <2>7, <3>2, <4>1
    <3>3. CASE ~Hid(p, u) /\ x # <<>>
      <4> DEFINE z == X(n)
                 y == x[1]
      <4>1. z \o <<y>> = Append(z, y)
        BY <2>6
      <4>2. X(n + 1) = Append(z, y)
        BY <2>5, <2>9, <3>3, <4>1
      <4>3. y \in V /\ z \in Seq(V) /\ Turn(Shown(p, u), y, Shown(p, u2)) /\ Nests(z, Shown(p, u), O)
        BY <2>6, <2>7, <2>9, <3>3
      <4> HIDE DEF z, y
      <4>4. Nests(Append(z, y), Shown(p, u2), O)
        BY <2>8, <4>3, NestsOn
      <4> QED
        BY <4>2, <4>4
    <3> QED
      BY <3>1, <3>2, <3>3
  <2> QED
    BY <2>1, <2>10 DEF u2
<1> HIDE DEF P
<1>8. \A n \in 0 .. N : n \in P
  BY <1>2, <1>6, <1>7, Climbing
<1> QED
  BY <1>8 DEF P, N, X, O

-----------------------------------------------------------------------------
(* The reader after the display sanitizer. *)

\* The frame of a document has no event handlers.
FrameIsQuiet(t) ==
  t.kind = "start" /\ t.name \in {"html", "body"} => DOMAIN t.attrs \cap EventAttrs = {}

\* It makes of a sanitized tag what it makes of the original one.
LEMMA ReadAgain ==
  ASSUME NEW el, Token(el), el.kind = "start", FrameIsQuiet(el)
  PROVE  Handler("reader", Displayed(el)).start = Handler("reader", el).start
<1> DEFINE x == Displayed(el)
           n == el.name
           H == Hygiene(el)
           A == DisplayAttrs(el)
<1>1. x.name = n /\ x.attrs = A
  BY DEF Displayed, StartTag
<1>2. A = [a \in DOMAIN H \ EventAttrs |-> H[a]] /\ Hygiene(x) = A
  BY DisplayedAttrs
<1>3. \A z : Handler("reader", z) = reader(z)
  BY DEF Handler
<1>4. Only(Hygiene(x), Allowed(n)) = Only(H, Allowed(n))
  <2> DEFINE D == DOMAIN H
             K == Allowed(n)
  <2>1. K \cap EventAttrs = {}
    BY DEF Allowed, EventAttrs
  <2>2. DOMAIN A = D \ EventAttrs /\ \A a \in DOMAIN A : A[a] = H[a]
    BY <1>2
  <2>3. (D \ EventAttrs) \cap K = D \cap K
    BY <2>1
  <2> HIDE DEF D, K, H, A, x
  <2>4. [a \in D \cap K |-> A[a]] = [a \in D \cap K |-> H[a]]
    BY <2>2, <2>3
  <2>5. Only(A, K) = [a \in D \cap K |-> A[a]] /\ Only(H, K) = [a \in D \cap K |-> H[a]]
    BY <2>2, <2>3 DEF Only, D
  <2> QED
    BY <1>2, <2>4, <2>5 DEF K
<1>5. n \in {"html", "body"} => A = el.attrs
  <2> SUFFICES ASSUME n \in {"html", "body"}
               PROVE  A = el.attrs
    OBVIOUS
  <2> DEFINE B == el.attrs
  <2>1. H = B
    BY DEF Hygiene
  <2>2. B = [a \in DOMAIN B |-> B[a]] /\ DOMAIN B \cap EventAttrs = {}
    BY DEF Token, FrameIsQuiet
  <2> HIDE DEF B, H, A
  <2>3. DOMAIN B \ EventAttrs = DOMAIN B
    BY <2>2
  <2>4. A = [a \in DOMAIN B |-> B[a]]
    BY <1>2, <2>1, <2>3
  <2> QED
    BY <2>2, <2>4 DEF B
<1> HIDE DEF x, H, A
<1>6. reader(x) = reader(el)
  <2>1. CASE n \in {"html", "body"}
    <3>1. n \notin ReaderGone /\ n \notin TableParts /\ n \notin READER_KEEP
      BY <2>1 DEF ReaderGone, Dangerous, TableParts, READER_KEEP
    <3>2. n \notin {"td", "th"}
      BY <2>1
    <3>3. reader(x) = Kept(n, A)
      BY <1>1, <2>1, <3>1, <3>2 DEF reader
    <3>4. reader(el) = Kept(n, el.attrs)
      BY <2>1, <3>1, <3>2 DEF reader
    <3> QED
      BY <1>5, <2>1, <3>3, <3>4
  <2>2. CASE n \notin {"html", "body"}
    <3> DEFINE K(k) == Kept(n, k)
               k1 == Only(Hygiene(x), Allowed(n))
               k2 == Only(H, Allowed(n))
               G(k) == CASE n \in ReaderGone         -> Removed
                         [] n \in {"td", "th"}       -> Renamed(Kept("p", NoAttrs), "p")
                         [] n \in TableParts \ {"td", "th"} -> Unwrapped
                         [] n \in READER_KEEP        -> K(k)
                         [] OTHER                    -> Unwrapped
    <3>1. reader(x) = G(k1)
      BY <1>1, <2>2 DEF reader
    <3>2. reader(el) = G(k2)
      BY <2>2 DEF reader, H
    <3>3. k1 = k2
      BY <1>4
    <3> HIDE DEF G, k1, k2
    <3> QED
      BY <3>1, <3>2, <3>3
  <2> QED
    BY <2>1, <2>2
<1> QED
  BY <1>3, <1>6 DEF x

\* A token that display puts out, the reader puts out like the original; of
\* one that it does not, the reader would show nothing, or padding.
LEMMA PieceAgain ==
  ASSUME NEW t, Token(t), FrameIsQuiet(t)
  PROVE  LET x == Piece("display", t)
             r == Piece("reader", t)
         IN  /\ x # <<>> => Piece("reader", x[1]) = r
             /\ x = <<>> => r = <<>> \/ r = <<Char(Padding)>>
<1> DEFINE x == Piece("display", t)
           r == Piece("reader", t)
<1>0. \A e : <<e>>[1] = e /\ <<e>> # <<>>
  OBVIOUS
<1>1. t.kind \in {"start", "end", "char"}
  BY DEF Token
<1>2. CASE t.kind = "char"
  <2>1. r = <<Char(t.c)>>
    BY <1>2 DEF Piece, Shows
  <2>2. x = IF t.c # Padding THEN <<Char(t.c)>> ELSE <<>>
    BY <1>2 DEF Piece, Shows
  <2>3. \A c : Piece("reader", Char(c)) = <<Char(c)>>
    BY DEF Piece, Shows, Char
  <2> HIDE DEF x, r
  <2>4. CASE t.c # Padding
    BY <1>0, <2>1, <2>2, <2>3, <2>4 DEF x, r
  <2>5. CASE t.c = Padding
    BY <2>1, <2>2, <2>5 DEF x, r
  <2> QED
    BY <2>4, <2>5
<1>3. CASE t.kind = "start"
  <2>1. x = Handler("display", t).start /\ r = Handler("reader", t).start
    BY <1>3 DEF Piece
  <2>2. CASE t.name \in Dangerous \cup {"img"}
    <3>1. ~Keeps("display", t.name) /\ ~Keeps("reader", t.name)
      BY <2>2 DEF Keeps, Drops, Dangerous, READER_KEEP
    <3>2. "display" \in Passes /\ "reader" \in Passes
      BY DEF Passes
    <3>3. x = <<>> /\ r = <<>>
      BY <2>1, <3>1, <3>2, HandlerIs
    <3> HIDE DEF x, r
    <3> QED
      BY <3>3 DEF x, r
  <2>3. CASE t.name \notin Dangerous \cup {"img"}
    <3> DEFINE e == Displayed(t)
    <3>1. x = <<e>>
      BY <1>3, <2>1, <2>3, DisplayedStays
    <3>2. e.kind = "start"
      BY DEF Displayed, StartTag
    <3>3. Handler("reader", e).start = r
      BY <1>3, <2>1, ReadAgain
    <3> HIDE DEF e, r, x
    <3>4. Piece("reader", e) = r
      BY <3>2, <3>3 DEF Piece
    <3> QED
      BY <1>0, <3>1, <3>4 DEF x, r
  <2> QED
    BY <2>2, <2>3
<1>4. CASE t.kind = "end"
  <2>1. \A p : Piece(p, t) = IF Keeps(p, t.name) THEN <<EndTag(OutName(p, t.name))>> ELSE <<>>
    BY <1>4 DEF Piece
  <2>2. CASE t.name \in Dangerous \cup {"img"}
    <3>1. ~Keeps("display", t.name) /\ ~Keeps("reader", t.name)
      BY <2>2 DEF Keeps, Drops, Dangerous, READER_KEEP
    <3>3. x = <<>> /\ r = <<>>
      BY <2>1, <3>1
    <3> HIDE DEF x, r
    <3> QED
      BY <3>3 DEF x, r
  <2>3. CASE t.name \notin Dangerous \cup {"img"}
    <3> DEFINE e == EndTag(t.name)
    <3>1. x = <<e>>
      BY <2>1, <2>3 DEF Keeps, Drops, OutName
    <3>2. e.kind = "end" /\ e.name = t.name
      BY DEF EndTag
    <3> HIDE DEF e
    <3>3. Piece("reader", e) = IF Keeps("reader", t.name) THEN <<EndTag(OutName("reader", t.name))>> ELSE <<>>
      BY <3>2 DEF Piece
    <3>4. Piece("reader", e) = r
      BY <2>1, <3>3
    <3> HIDE DEF x, r
    <3> QED
      BY <1>0, <3>1, <3>4 DEF x, r
  <2> QED
    BY <2>2, <2>3
<1> QED
  BY <1>1, <1>2, <1>3, <1>4

\* Where display shows what it is in, it is in all that is open.
LEMMA ShownAll ==
  ASSUME NEW S, NEW w \in Seq(S), ~Hid("display", w)
  PROVE  Shown("display", w) = w
<1> DEFINE g == [x \in S |-> <<x>>]
           F(v, i) == IF Keeps("display", v[i]) /\ ~Hid("display", SubSeq(v, 1, i - 1))
                      THEN <<OutName("display", v[i])>> ELSE <<>>
<1>1. \A i \in DOMAIN w : F(w, i) = g[w[i]]
  <2> SUFFICES ASSUME NEW i \in DOMAIN w
               PROVE  F(w, i) = g[w[i]]
    OBVIOUS
  <2> DEFINE v == SubSeq(w, 1, i - 1)
  <2>1. w[i] \in S /\ \A k \in DOMAIN v : k \in DOMAIN w /\ v[k] = w[k]
    OBVIOUS
  <2> HIDE DEF v
  <2>2. ~Hid("display", v) /\ Keeps("display", w[i])
    BY <2>1 DEF Hid, Keeps, Drops
  <2>3. OutName("display", w[i]) = w[i]
    BY DEF OutName
  <2> QED
    BY <2>1, <2>2, <2>3 DEF v
<1>2. [i \in DOMAIN w |-> F(w, i)] = [i \in DOMAIN w |-> g[w[i]]]
  <2> HIDE DEF F, g
  <2> QED
    BY <1>1
<1>3. Shown("display", w) = Spelled(w, g)
  BY <1>2 DEF Shown, Spelled
<1>4. \A x \in S : g[x] = <<x>>
  OBVIOUS
<1> HIDE DEF g
<1> QED
  BY <1>3, <1>4, SpelledSame

\* One element more, in or not.
LEMMA WithoutOn ==
  ASSUME NEW S, NEW X, NEW s \in Seq(S), NEW x \in S
  PROVE  /\ Without(<<>>, X) = <<>> /\ Without(s, X) \in Seq(S)
         /\ Without(Append(s, x), X) = IF x \in X THEN Without(s, X) ELSE Append(Without(s, X), x)
<1> DEFINE g == [y \in S |-> IF y \in X THEN <<>> ELSE <<y>>]
<1>1. \A y \in S : g[y] = IF y \in X THEN <<>> ELSE <<y>>
  OBVIOUS
<1>2. Spells(g, S, S)
  <2>1. ASSUME NEW y \in S
        PROVE  g[y] \in Seq(S)
    BY <1>1, Small
  <2> QED
    BY <2>1 DEF Spells
<1>3. ASSUME NEW u \in Seq(S)
      PROVE  Without(u, X) = Spelled(u, g)
  <2>1. \A i \in DOMAIN u : u[i] \in S
    OBVIOUS
  <2>2. [i \in DOMAIN u |-> IF u[i] \in X THEN <<>> ELSE <<u[i]>>] = [i \in DOMAIN u |-> g[u[i]]]
    BY <2>1
  <2> QED
    BY <2>2 DEF Without, Spelled
<1> HIDE DEF g
<1>4. Without(<<>>, X) = <<>>
  <2>1. <<>> \in Seq(S)
    BY Small
  <2>2. \A f : Spelled(<<>>, f) = <<>>
    BY SpelledNothing
  <2> QED
    BY <1>3, <2>1, <2>2
<1>5. Without(s, X) \in Seq(S)
  BY <1>2, <1>3, SpelledSeq
<1>6. Without(Append(s, x), X) = Without(s, X) \o g[x]
  <2>1. Append(s, x) \in Seq(S)
    OBVIOUS
  <2>2. Spelled(Append(s, x), g) = Spelled(s, g) \o g[x]
    BY <1>2, SpelledOn
  <2> QED
    BY <1>3, <2>1, <2>2
<1> DEFINE u == Without(s, X)
<1>7. u \o <<>> = u /\ u \o <<x>> = Append(u, x)
  <2> HIDE DEF u
  <2> QED
    BY <1>5 DEF u
<1> QED
  BY <1>1, <1>4, <1>5, <1>6, <1>7

\* The text of one token more.
LEMMA TextOn ==
  ASSUME NEW T, NEW s \in Seq(T), NEW t \in T
  PROVE  /\ TextOf(<<>>) = <<>>
         /\ TextOf(Append(s, t)) = IF t.kind = "char" /\ t.c # Padding THEN Append(TextOf(s), t.c) ELSE TextOf(s)
<1> DEFINE C == {x.c : x \in T}
           F(x) == IF x.kind = "char" /\ x.c # Padding THEN <<x.c>> ELSE <<>>
           g == [x \in T |-> F(x)]
<1>1. \A x \in T : g[x] = F(x)
  OBVIOUS
<1>2. Spells(g, T, C)
  <2>1. ASSUME NEW x \in T
        PROVE  g[x] \in Seq(C)
    <3>1. x.c \in C
      OBVIOUS
    <3> HIDE DEF C, g
    <3> QED
      BY <1>1, <3>1, Small
  <2> QED
    BY <2>1 DEF Spells
<1>3. ASSUME NEW u \in Seq(T)
      PROVE  TextOf(u) = Spelled(u, g)
  <2>1. \A i \in DOMAIN u : u[i] \in T
    OBVIOUS
  <2>2. [i \in DOMAIN u |-> F(u[i])] = [i \in DOMAIN u |-> g[u[i]]]
    <3> HIDE DEF F, g
    <3> QED
      BY <1>1, <2>1
  <2> HIDE DEF g
  <2> QED
    BY <2>2 DEF TextOf, Spelled
<1> HIDE DEF g, C
<1>4. TextOf(<<>>) = <<>>
  <2>1. <<>> \in Seq(T)
    BY Small
  <2>2. \A f : Spelled(<<>>, f) = <<>>
    BY SpelledNothing
  <2> QED
    BY <1>3, <2>1, <2>2
<1>5. TextOf(Append(s, t)) = TextOf(s) \o g[t] /\ TextOf(s) \in Seq(C)
  <2>1. Append(s, t) \in Seq(T)
    OBVIOUS
  <2>2. Spelled(Append(s, t), g) = Spelled(s, g) \o g[t]
    BY <1>2, SpelledOn
  <2>3. Spelled(s, g) \in Seq(C)
    BY <1>2, SpelledSeq
  <2> QED
    BY <1>3, <2>1, <2>2, <2>3
<1> DEFINE u == TextOf(s)
<1>6. \A c : u \o <<>> = u /\ u \o <<c>> = Append(u, c)
  <2> HIDE DEF u
  <2> QED
    BY <1>5 DEF u
<1> QED
  BY <1>1, <1>4, <1>5, <1>6

\* What has no text can go.
LEMMA TextWithout ==
  ASSUME NEW T, NEW s \in Seq(T), NEW X, \A x \in X : ~(x.kind = "char" /\ x.c # Padding)
  PROVE  TextOf(Without(s, X)) = TextOf(s)
<1> DEFINE N == Len(s)
           to(n) == SubSeq(s, 1, n)
           W(u) == Without(u, X)
           P == {n \in 0 .. N : TextOf(W(to(n))) = TextOf(to(n))}
<1>1. N \in Nat /\ to(0) = <<>> /\ to(N) = s /\ \A n \in 0 .. N : to(n) \in Seq(T)
  OBVIOUS
<1>2. \A n \in 0 .. N - 1 : /\ to(n + 1) = Append(to(n), s[n + 1]) /\ s[n + 1] \in T
                           /\ n + 1 \in 0 .. N /\ n \in 0 .. N
  OBVIOUS
<1>3. ASSUME NEW u \in Seq(T)
      PROVE  /\ W(u) \in Seq(T)
             /\ \A x \in T : W(Append(u, x)) = IF x \in X THEN W(u) ELSE Append(W(u), x)
             /\ \A x \in T : TextOf(Append(u, x)) =
                  IF x.kind = "char" /\ x.c # Padding THEN Append(TextOf(u), x.c) ELSE TextOf(u)
  <2>1. W(u) \in Seq(T)
    <3>1. \A Y : Without(u, Y) \in Seq(T \ Y)
      BY WithoutIs
    <3>2. \A Y : \A v \in Seq(T \ Y) : v \in Seq(T)
      OBVIOUS
    <3> QED
      BY <3>1, <3>2
  <2>2. ASSUME NEW x \in T
        PROVE  W(Append(u, x)) = IF x \in X THEN W(u) ELSE Append(W(u), x)
    BY WithoutOn
  <2>3. ASSUME NEW x \in T
        PROVE  TextOf(Append(u, x)) =
                  IF x.kind = "char" /\ x.c # Padding THEN Append(TextOf(u), x.c) ELSE TextOf(u)
    BY TextOn
  <2> QED
    BY <2>1, <2>2, <2>3
<1>4. 0 \in P
  <2>1. W(<<>>) = <<>>
    BY DEF Without, FlattenSeq
  <2> HIDE DEF W, to, N
  <2> QED
    BY <1>1, <2>1
<1> HIDE DEF to, N, W
<1>5. ASSUME NEW n \in 0 .. N - 1, n \in P
      PROVE  n + 1 \in P
  <2> DEFINE u == to(n)
             x == s[n + 1]
  <2>1. u \in Seq(T) /\ x \in T /\ to(n + 1) = Append(u, x) /\ TextOf(W(u)) = TextOf(u)
    BY <1>1, <1>2, <1>5
  <2> HIDE DEF u, x
  <2>2. W(u) \in Seq(T)
    BY <1>3, <2>1
  <2>3. W(Append(u, x)) = IF x \in X THEN W(u) ELSE Append(W(u), x)
    BY <1>3, <2>1
  <2>4. TextOf(Append(u, x)) = IF x.kind = "char" /\ x.c # Padding THEN Append(TextOf(u), x.c) ELSE TextOf(u)
    BY <1>3, <2>1
  <2>5. TextOf(Append(W(u), x)) = IF x.kind = "char" /\ x.c # Padding THEN Append(TextOf(W(u)), x.c) ELSE TextOf(W(u))
    BY <1>3, <2>1, <2>2
  <2>6. x \in X => ~(x.kind = "char" /\ x.c # Padding)
    OBVIOUS
  <2>7. TextOf(W(to(n + 1))) = TextOf(to(n + 1))
    BY <2>1, <2>3, <2>4, <2>5, <2>6
  <2> QED
    BY <1>2, <2>7
<1> HIDE DEF P
<1>6. \A n \in 0 .. N : n \in P
  BY <1>1, <1>4, <1>5, Climbing
<1>7. TextOf(W(to(N))) = TextOf(to(N))
  BY <1>1, <1>6 DEF P
<1> QED
  BY <1>1, <1>7 DEF W

\* Padding is no text.
LEMMA TextPadding ==
  ASSUME NEW T, NEW s \in Seq(T)
  PROVE  TextOf(NoPadding(s)) = TextOf(s)
<1> DEFINE X == {Char(Padding)}
<1>1. \A x \in X : ~(x.kind = "char" /\ x.c # Padding)
  BY DEF Char
<1> HIDE DEF X
<1>2. TextOf(Without(s, X)) = TextOf(s)
  BY <1>1, TextWithout
<1> QED
  BY <1>2 DEF X, NoPadding

\* The reader finds in the sanitized document what it finds in the original.
LEMMA ReaderAgrees ==
  ASSUME NEW T, NEW S, Rules(T, S), \A t \in T : Token(t) /\ FrameIsQuiet(t),
         NEW d \in Seq(T), NEW L, NEW w, NestsBy(L, d, w, S)
  PROVE  NoPadding(OneShot("reader", OneShot("display", d).out).out) = NoPadding(OneShot("reader", d).out)
<1> DEFINE N == Len(d)
           X(n) == After("display", d, n).out
           Q(n) == OneShot("reader", X(n))
           R(n) == After("reader", d, n)
           V == Pieces("display", T)
           VV == Pieces("reader", V)
           VR == Pieces("reader", T)
           O == OutNames("display", S)
           sh(n) == Shown("display", L[n])
           P == {n \in 0 .. N : NoPadding(Q(n).out) = NoPadding(R(n).out)}
<1>0. "display" \in Passes /\ "reader" \in Passes
  BY DEF Passes
<1>1. \A t \in T : t.kind \in {"start", "end", "char"} /\ Named(t) /\ (t.kind # "char" => t.name \in S)
  BY DEF Rules, Named
<1>2. /\ N \in Nat
      /\ \A n \in 1 .. N : d[n] \in T /\ n - 1 \in 0 .. N /\ n \in 0 .. N
  OBVIOUS
<1>3. /\ \A n \in 0 .. N : X(n) \in Seq(V)
      /\ \A n \in 1 .. N : X(n) = IF Hid("display", L[n - 1]) THEN X(n - 1)
                                  ELSE X(n - 1) \o Piece("display", d[n])
  BY <1>0, Along
<1>4. /\ \A n \in 0 .. N : R(n).out \in Seq(VR)
      /\ \A n \in 1 .. N : R(n).out = IF Hid("reader", L[n - 1]) THEN R(n - 1).out
                                      ELSE R(n - 1).out \o Piece("reader", d[n])
  BY <1>0, Along
<1>5. /\ X(0) = <<>> /\ R(0).out = <<>>
      /\ X(N) = OneShot("display", d).out /\ R(N) = OneShot("reader", d)
  <2>1. \A p : After(p, d, 0) = Rec(<<>>, <<>>, FALSE) /\ After(p, d, N) = OneShot(p, d)
    BY <1>1, Stepwise
  <2>2. \A o, x, b : Rec(o, x, b).out = x
    BY Records
  <2>3. Rec(<<>>, <<>>, FALSE).out = <<>>
    BY <2>2, Zenon
  <2> QED
    BY <2>1, <2>3
<1>6. /\ \A n \in 0 .. N : L[n] \in Seq(S)
      /\ L[0] = <<>> /\ \A n \in 1 .. N : Turn(L[n - 1], d[n], L[n])
  BY DEF NestsBy
<1>7. \A n \in 0 .. N : Nests(X(n), sh(n), O) /\ sh(n) \in Seq(O)
  <2>1. \A n \in 0 .. N : Nests(X(n), sh(n), O)
    BY <1>0, OutNests
  <2>2. \A n \in 0 .. N : sh(n) \in Seq(O)
    BY <1>6, ShownOn
  <2> QED
    BY <2>1, <2>2
<1>8. Rules(V, O) /\ \A t \in V : t.kind \in {"start", "end", "char"} /\ Named(t) /\ (t.kind # "char" => t.name \in O)
  <2>1. Rules(V, O)
    BY <1>0, RulesOut
  <2> HIDE DEF V, O
  <2> QED
    BY <2>1 DEF Rules, Named
<1> HIDE DEF X, N, V, O, R, VV, VR, sh
<1>9. ASSUME NEW n \in 0 .. N
      PROVE  /\ Q(n).open = Entries("reader", sh(n)) /\ Q(n).out \in Seq(VV)
  <2> DEFINE z == X(n)
             u == sh(n)
  <2>1. z \in Seq(V) /\ Nests(z, u, O)
    BY <1>3, <1>7
  <2> HIDE DEF z, u
  <2>2. PICK M : NestsBy(M, z, u, O)
    BY <2>1 DEF Nests
  <2>3. OneShot("reader", z).open = Entries("reader", u) /\ OneShot("reader", z).out \in Seq(VV)
    BY <1>0, <1>8, <2>1, <2>2, Along DEF VV
  <2> QED
    BY <2>3 DEF z, u
<1>10. 0 \in P
  <2>1. OneShot("reader", <<>>).out = <<>>
    <3> DEFINE e == <<>>
    <3>1. e \in Seq(T) /\ Len(e) = 0
      OBVIOUS
    <3>2. \A o, x, b : Rec(o, x, b).out = x
      BY Records
    <3>3. Rec(<<>>, <<>>, FALSE).out = <<>>
      BY <3>2, Zenon
    <3> HIDE DEF e
    <3>4. After("reader", e, 0) = Rec(<<>>, <<>>, FALSE) /\ After("reader", e, Len(e)) = OneShot("reader", e)
      BY <1>1, <3>1, Stepwise
    <3>5. OneShot("reader", e).out = <<>>
      BY <3>1, <3>3, <3>4
    <3> QED
      BY <3>5 DEF e
  <2>2. Q(0).out = <<>>
    BY <1>5, <2>1
  <2>3. 0 \in 0 .. N
    BY <1>2
  <2> HIDE DEF Q
  <2> QED
    BY <1>5, <2>2, <2>3
<1>11. \A s \in Seq(VR) : NoPadding(s \o <<>>) = NoPadding(s) /\ NoPadding(s \o <<Char(Padding)>>) = NoPadding(s)
  <2> SUFFICES ASSUME NEW s \in Seq(VR)
               PROVE  NoPadding(s \o <<>>) = NoPadding(s) /\ NoPadding(s \o <<Char(Padding)>>) = NoPadding(s)
    OBVIOUS
  <2> DEFINE B == VR \cup {Char(Padding)}
             y == Char(Padding)
  <2>1. s \in Seq(B) /\ y \in B /\ s \o <<>> = s /\ s \o <<y>> = Append(s, y)
    OBVIOUS
  <2>2. y \in {Char(Padding)}
    OBVIOUS
  <2> HIDE DEF B, y
  <2>3. Without(Append(s, y), {Char(Padding)}) = Without(s, {Char(Padding)})
    BY <2>1, <2>2, WithoutOn
  <2> QED
    BY <2>1, <2>3 DEF y, NoPadding
<1>12. ASSUME NEW a \in Seq(VV), NEW b \in Seq(VR), NoPadding(a) = NoPadding(b),
              NEW t \in T
       PROVE  NoPadding(a \o Piece("reader", t)) = NoPadding(b \o Piece("reader", t))
  <2> DEFINE r == Piece("reader", t)
             B == VV \cup VR \cup {r[1]}
             y == r[1]
  <2>1. r # <<>> => r = <<y>>
    BY <1>0, <1>1, PieceIs
  <2>2. /\ a \in Seq(B) /\ b \in Seq(B) /\ y \in B
        /\ a \o <<y>> = Append(a, y) /\ b \o <<y>> = Append(b, y) /\ a \o <<>> = a /\ b \o <<>> = b
    <3> HIDE DEF y, r
    <3> QED
      BY DEF y
  <2> DEFINE Z == {Char(Padding)}
  <2> HIDE DEF B, y, r, Z
  <2>3. /\ Without(Append(a, y), Z) = IF y \in Z THEN Without(a, Z) ELSE Append(Without(a, Z), y)
        /\ Without(Append(b, y), Z) = IF y \in Z THEN Without(b, Z) ELSE Append(Without(b, Z), y)
    BY <2>2, WithoutOn
  <2>4. Without(a, Z) = Without(b, Z)
    BY <1>12 DEF NoPadding, Z
  <2>5. Without(a \o r, Z) = Without(b \o r, Z)
    BY <2>1, <2>2, <2>3, <2>4
  <2> QED
    BY <2>5 DEF r, NoPadding, Z
<1>13. ASSUME NEW n \in 0 .. N - 1, n \in P
       PROVE  n + 1 \in P
  <2> DEFINE t == d[n + 1]
             u == L[n]
             u2 == L[n + 1]
             x == Piece("display", t)
             r == Piece("reader", t)
  <2>1. n + 1 \in 1 .. N /\ (n + 1) - 1 = n /\ n + 1 \in 0 .. N /\ n \in 0 .. N
    BY <1>2
  <2>2. /\ t \in T /\ Named(t) /\ (t.kind # "char" => t.name \in S)
        /\ Token(t) /\ FrameIsQuiet(t)
    BY <1>1, <1>2, <2>1
  <2>3. Turn(u, t, u2) /\ u \in Seq(S) /\ u2 \in Seq(S)
    <3>1. Turn(L[(n + 1) - 1], d[n + 1], L[n + 1])
      BY <1>6, <2>1
    <3> QED
      BY <1>6, <2>1, <3>1
  <2>4. X(n + 1) = IF Hid("display", u) THEN X(n) ELSE X(n) \o x
    <3>1. X(n + 1) = IF Hid("display", L[(n + 1) - 1]) THEN X((n + 1) - 1)
                     ELSE X((n + 1) - 1) \o Piece("display", d[n + 1])
      BY <1>3, <2>1
    <3> QED
      BY <2>1, <3>1
  <2>5. R(n + 1).out = IF Hid("reader", u) THEN R(n).out ELSE R(n).out \o r
    <3>1. R(n + 1).out = IF Hid("reader", L[(n + 1) - 1]) THEN R((n + 1) - 1).out
                         ELSE R((n + 1) - 1).out \o Piece("reader", d[n + 1])
      BY <1>4, <2>1
    <3> QED
      BY <2>1, <3>1
  <2>6. /\ X(n) \in Seq(V) /\ R(n).out \in Seq(VR)
        /\ Q(n).open = Entries("reader", sh(n)) /\ Q(n).out \in Seq(VV)
        /\ NoPadding(Q(n).out) = NoPadding(R(n).out)
        /\ sh(n) \in Seq(O) /\ sh(n + 1) \in Seq(O)
    <3> HIDE DEF Q
    <3> QED
      BY <1>3, <1>4, <1>7, <1>9, <1>13, <2>1
  <2>7. Hid("display", u) => Hid("reader", u)
    BY DEF Hid, Drops, ReaderGone
  <2>8. ~Hid("display", u) => sh(n) = u
    BY <2>3, ShownAll DEF sh
  <2>9. ~Hid("display", u) /\ x # <<>> => Turn(sh(n), x[1], sh(n + 1))
    <3> HIDE DEF t, x
    <3> QED
      BY <1>0, <2>2, <2>3, PieceTurns DEF sh, x
  <2>10. /\ x # <<>> => x = <<x[1]>> /\ x[1] \in V /\ Piece("reader", x[1]) = r
         /\ x = <<>> => r = <<>> \/ r = <<Char(Padding)>>
    <3> HIDE DEF t
    <3>1. x # <<>> => x = <<x[1]>> /\ x[1] \in V
      BY <1>0, <2>2, PieceIs DEF V
    <3>2. (x # <<>> => Piece("reader", x[1]) = r) /\ (x = <<>> => r = <<>> \/ r = <<Char(Padding)>>)
      BY <2>2, PieceAgain
    <3> QED
      BY <3>1, <3>2
  <2>11. NoPadding(R(n).out \o <<>>) = NoPadding(R(n).out)
         /\ NoPadding(R(n).out \o <<Char(Padding)>>) = NoPadding(R(n).out)
    BY <1>11, <2>6
  <2> HIDE DEF t, u, u2, x, r
  <2>12. NoPadding(Q(n + 1).out) = NoPadding(R(n + 1).out)
    <3>1. CASE Hid("display", u)
      <4>1. X(n + 1) = X(n) /\ R(n + 1).out = R(n).out
        BY <2>4, <2>5, <2>7, <3>1
      <4> QED
        BY <2>6, <4>1
    <3>2. CASE ~Hid("display", u) /\ x = <<>>
      <4>1. X(n + 1) = X(n)
        BY <2>4, <2>6, <3>2
      <4>2. R(n + 1).out = R(n).out \/ R(n + 1).out = R(n).out \o <<>>
            \/ R(n + 1).out = R(n).out \o <<Char(Padding)>>
        BY <2>5, <2>10, <3>2
      <4>3. NoPadding(R(n + 1).out) = NoPadding(R(n).out)
        BY <2>11, <4>2
      <4> HIDE DEF Q
      <4>4. Q(n + 1).out = Q(n).out
        BY <4>1 DEF Q
      <4> QED
        BY <2>6, <4>3, <4>4
    <3>3. CASE ~Hid("display", u) /\ x # <<>>
      <4> DEFINE z == X(n)
                 y == x[1]
                 rw == Q(n)
                 v == sh(n)
                 v2 == sh(n + 1)
                 q == OnToken("reader", rw, y)
      <4>1. z \o <<y>> = Append(z, y)
        BY <2>6
      <4>2. X(n + 1) = Append(z, y)
        BY <2>4, <2>10, <3>3, <4>1
      <4>3. /\ y \in V /\ Named(y) /\ z \in Seq(V) /\ (y.kind # "char" => y.name \in O)
            /\ Turn(v, y, v2) /\ v = u
        BY <1>8, <2>6, <2>8, <2>9, <2>10, <3>3
      <4>4. Between(rw) /\ Q(n + 1) = q
        <5>1. rw = OneShot("reader", z) /\ Q(n + 1) = OneShot("reader", X(n + 1))
          OBVIOUS
        <5> HIDE DEF z, y, rw, Q, v, v2
        <5>2. Between(OneShot("reader", z)) /\ OneShot("reader", Append(z, y)) = OnToken("reader", OneShot("reader", z), y)
          BY <1>8, <4>3, AnotherToken
        <5> QED
          BY <4>2, <5>1, <5>2
      <4>5. rw.open = Entries("reader", v) /\ rw.out \in Seq(VV) /\ v \in Seq(O) /\ v2 \in Seq(O)
        BY <2>6
      <4> HIDE DEF z, y, rw, v, v2, Q
      <4>6. q.out = IF Hid("reader", v) THEN rw.out ELSE rw.out \o Piece("reader", y)
        BY <1>0, <4>3, <4>4, <4>5, TurnDoes DEF VV
      <4>7. Piece("reader", y) = r
        BY <2>10, <3>3 DEF y
      <4>8. Q(n + 1).out = IF Hid("reader", u) THEN rw.out ELSE rw.out \o r
        BY <4>3, <4>4, <4>6, <4>7
      <4>9. rw = Q(n)
        BY DEF rw, Q
      <4>10. NoPadding(rw.out \o r) = NoPadding(R(n).out \o r)
        BY <1>12, <2>2, <2>6, <4>9 DEF r
      <4> QED
        BY <2>5, <2>6, <4>8, <4>9, <4>10
    <3> QED
      BY <3>1, <3>2, <3>3
  <2> HIDE DEF Q
  <2> QED
    BY <2>1, <2>12
<1> HIDE DEF P
<1>14. \A n \in 0 .. N : n \in P
  BY <1>2, <1>10, <1>13, Climbing
<1>15. NoPadding(Q(N).out) = NoPadding(R(N).out)
  BY <1>2, <1>14 DEF P
<1> QED
  BY <1>5, <1>15

-----------------------------------------------------------------------------
(* Open elements by position. *)

\* o may be open after n tokens: start tags in the order of the document.
Steady(o, doc, n) ==
  /\ o \in Seq(Nat)
  /\ \A i \in DOMAIN o : o[i] \in 1 .. n /\ doc[o[i]].kind = "start" /\ doc[o[i]].name \notin Void
  /\ \A i, k \in DOMAIN o : i < k => o[i] < o[k]

NamesOf(o, doc) == [i \in DOMAIN o |-> doc[o[i]].name]

\* A token opens or closes one of them.
LEMMA SteadyOn ==
  ASSUME NEW doc, NEW n \in Nat, NEW o, Steady(o, doc, n)
  PROVE  Steady(Nested(o, doc, n + 1), doc, n + 1)
<1> DEFINE m == Len(o)
           x == Nested(o, doc, n + 1)
<1>1. o \in Seq(Nat) /\ m \in Nat /\ DOMAIN o = 1 .. m
  BY DEF Steady
<1>2. \A i \in 1 .. m : o[i] \in 1 .. n /\ o[i] \in 1 .. n + 1 /\ doc[o[i]].kind = "start" /\ doc[o[i]].name \notin Void
  BY <1>1 DEF Steady
<1>3. \A i, k \in 1 .. m : i < k => o[i] < o[k]
  BY <1>1 DEF Steady
<1> HIDE DEF m, x
<1>4. CASE x = o
  BY <1>1, <1>2, <1>3, <1>4 DEF Steady, x
<1>5. CASE doc[n + 1].kind = "start" /\ doc[n + 1].name \notin Void /\ x = Append(o, n + 1)
  <2>1. /\ x \in Seq(Nat) /\ DOMAIN x = 1 .. m + 1 /\ x[m + 1] = n + 1
        /\ \A i \in 1 .. m : x[i] = o[i]
    BY <1>1, <1>5 DEF m
  <2>2. \A i \in 1 .. m + 1 : i \in 1 .. m \/ i = m + 1
    BY <1>1
  <2>3. \A i \in 1 .. m + 1 : x[i] \in 1 .. n + 1 /\ doc[x[i]].kind = "start" /\ doc[x[i]].name \notin Void
    <3>1. n + 1 \in 1 .. n + 1
      OBVIOUS
    <3> QED
      BY <1>2, <1>5, <2>1, <2>2, <3>1
  <2>4. ASSUME NEW i \in 1 .. m + 1, NEW k \in 1 .. m + 1, i < k
        PROVE  x[i] < x[k]
    <3>1. i \in 1 .. m
      BY <1>1, <2>4
    <3>2. CASE k = m + 1
      <4>1. o[i] \in 1 .. n /\ x[i] = o[i] /\ x[k] = n + 1
        BY <1>2, <2>1, <3>1, <3>2
      <4> QED
        BY <4>1
    <3>3. CASE k \in 1 .. m
      BY <1>3, <2>1, <2>4, <3>1, <3>3
    <3> QED
      BY <2>2, <3>2, <3>3
  <2> QED
    BY <2>1, <2>3, <2>4 DEF Steady, x
<1>6. CASE o # <<>> /\ x = SubSeq(o, 1, m - 1)
  <2>1. m # 0
    BY <1>1, <1>6 DEF m
  <2>2. x \in Seq(Nat) /\ DOMAIN x = 1 .. m - 1 /\ \A i \in 1 .. m - 1 : x[i] = o[i] /\ i \in 1 .. m
    BY <1>1, <1>6, <2>1 DEF m
  <2>3. \A i \in 1 .. m - 1 : x[i] \in 1 .. n + 1 /\ doc[x[i]].kind = "start" /\ doc[x[i]].name \notin Void
    BY <1>2, <2>2
  <2>4. \A i, k \in 1 .. m - 1 : i < k => x[i] < x[k]
    BY <1>3, <2>2
  <2> QED
    BY <2>2, <2>3, <2>4 DEF Steady, x
<1>7. \/ x = o
      \/ doc[n + 1].kind = "start" /\ doc[n + 1].name \notin Void /\ x = Append(o, n + 1)
      \/ o # <<>> /\ x = SubSeq(o, 1, m - 1)
  <2>1. CASE doc[n + 1].kind = "start" /\ doc[n + 1].name \notin Void
    BY <2>1 DEF x, Nested
  <2>2. CASE doc[n + 1].kind = "end" /\ o # <<>>
    BY <2>2 DEF x, m, Nested
  <2>3. CASE ~(doc[n + 1].kind = "start" /\ doc[n + 1].name \notin Void) /\ ~(doc[n + 1].kind = "end" /\ o # <<>>)
    BY <2>3 DEF x, Nested
  <2> QED
    BY <2>1, <2>2, <2>3
<1> QED
  BY <1>4, <1>5, <1>6, <1>7

\* at are the positions of the open elements, token by token.
OpensBy(at, doc) ==
  at = [n \in 0 .. Len(doc) |-> IF n = 0 THEN <<>> ELSE Nested(at[n - 1], doc, n)]

\* OpenAfter is that, and what it says is steady.
LEMMA Opens ==
  ASSUME NEW doc, Len(doc) \in Nat
  PROVE  LET at == OpenAfter(doc)
         IN  /\ at[0] = <<>>
             /\ \A n \in 1 .. Len(doc) : at[n] = Nested(at[n - 1], doc, n)
             /\ \A n \in 0 .. Len(doc) : Steady(at[n], doc, n)
<1> DEFINE N == Len(doc)
           at == OpenAfter(doc)
           D == Seq(Nat)
           G == [n \in 1 .. N |-> [o \in D |-> Nested(o, doc, n)]]
           b == <<>>
           F(o, n) == Nested(o, doc, n)
<1>1. \A n \in 1 .. N : \A o \in D : F(o, n) \in D /\ G[n][o] = F(o, n)
  <2> SUFFICES ASSUME NEW n \in 1 .. N, NEW o \in D
               PROVE  F(o, n) \in D
    OBVIOUS
  <2>1. n \in Nat
    OBVIOUS
  <2>2. CASE doc[n].kind = "start" /\ doc[n].name \notin Void
    BY <2>1, <2>2 DEF Nested
  <2>3. CASE doc[n].kind = "end" /\ o # <<>>
    BY <2>3 DEF Nested
  <2>4. CASE ~(doc[n].kind = "start" /\ doc[n].name \notin Void) /\ ~(doc[n].kind = "end" /\ o # <<>>)
    BY <2>4 DEF Nested
  <2> QED
    BY <2>2, <2>3, <2>4
<1>2. b \in D
  OBVIOUS
<1> HIDE DEF F, G, D, N
<1>3. PICK f : Iterates(f, N, D, b, G)
  <2>1. \A n \in 1 .. N : \A o \in D : G[n][o] \in D
    BY <1>1
  <2>2. N \in Nat
    BY DEF N
  <2> HIDE DEF b
  <2> QED
    BY <1>2, <2>1, <2>2, Recursion
<1>4. f = [n \in 0 .. N |-> IF n = 0 THEN <<>> ELSE F(f[n - 1], n)]
  <2>1. f \in [0 .. N -> D] /\ f[0] = <<>> /\ \A n \in 1 .. N : f[n] = G[n][f[n - 1]]
    BY <1>3 DEF Iterates
  <2>2. ASSUME NEW n \in 0 .. N
        PROVE  f[n] = IF n = 0 THEN <<>> ELSE F(f[n - 1], n)
    <3>1. N \in Nat
      BY DEF N
    <3>2. CASE n = 0
      BY <2>1, <3>2
    <3>3. CASE n # 0
      <4>1. n \in 1 .. N /\ n - 1 \in 0 .. N
        BY <3>1, <3>3
      <4>2. f[n - 1] \in D
        BY <2>1, <4>1
      <4> QED
        BY <1>1, <2>1, <3>3, <4>1, <4>2
    <3> QED
      BY <3>2, <3>3
  <2> QED
    BY <2>1, <2>2
<1>5. at = CHOOSE h : OpensBy(h, doc)
  <2>1. \A o, n : (CHOOSE x \in {Nested(open, doc, n) : open \in {o}} : TRUE) = F(o, n)
    <3> SUFFICES ASSUME NEW o, NEW n
                 PROVE  (CHOOSE x \in {Nested(open, doc, n) : open \in {o}} : TRUE) = F(o, n)
      OBVIOUS
    <3>1. {F(open, n) : open \in {o}} = {F(o, n)}
      OBVIOUS
    <3>2. (CHOOSE x \in {F(open, n) : open \in {o}} : TRUE) = F(o, n)
      BY <3>1
    <3> QED
      BY <3>2 DEF F
  <2>2. \A h : (h = [n \in 0 .. Len(doc) |-> IF n = 0 THEN <<>>
                       ELSE CHOOSE x \in {Nested(open, doc, n) : open \in {h[n - 1]}} : TRUE])
               <=> OpensBy(h, doc)
    BY <2>1 DEF OpensBy, F
  <2> QED
    BY <2>2 DEF OpenAfter
<1>6. OpensBy(at, doc)
  <2>1. OpensBy(f, doc)
    BY <1>4 DEF OpensBy, N, F
  <2> HIDE DEF at
  <2> QED
    BY <1>5, <2>1
<1> HIDE DEF at
<1>7. at[0] = <<>> /\ \A n \in 1 .. N : at[n] = Nested(at[n - 1], doc, n)
  <2>1. at = [n \in 0 .. N |-> IF n = 0 THEN <<>> ELSE F(at[n - 1], n)]
    BY <1>6 DEF OpensBy, N, F
  <2>2. N \in Nat
    BY DEF N
  <2>3. at[0] = <<>>
    BY <2>1, <2>2
  <2>4. \A n \in 1 .. N : at[n] = F(at[n - 1], n)
    BY <2>1, <2>2
  <2> QED
    BY <2>3, <2>4 DEF F
<1> DEFINE P == {n \in 0 .. N : Steady(at[n], doc, n)}
<1>8. 0 \in P
  <2>1. 0 \in 0 .. N
    BY DEF N
  <2>2. \A o : o = <<>> => Steady(o, doc, 0)
    <3>1. <<>> \in Seq(Nat) /\ DOMAIN <<>> = {}
      OBVIOUS
    <3> QED
      BY <3>1 DEF Steady
  <2> QED
    BY <1>7, <2>1, <2>2
<1>9. ASSUME NEW n \in 0 .. N - 1, n \in P
      PROVE  n + 1 \in P
  <2>1. n \in Nat /\ n + 1 \in 1 .. N /\ (n + 1) - 1 = n /\ n + 1 \in 0 .. N
    BY DEF N
  <2>2. at[n + 1] = Nested(at[(n + 1) - 1], doc, n + 1)
    BY <1>7, <2>1
  <2>3. Steady(at[n + 1], doc, n + 1)
    BY <1>9, <2>1, <2>2, SteadyOn
  <2> QED
    BY <2>1, <2>3
<1> HIDE DEF P
<1>10. \A n \in 0 .. N : n \in P
  <2>1. N \in Nat
    BY DEF N
  <2> QED
    BY <1>8, <1>9, <2>1, Climbing
<1>11. \A n \in 0 .. N : Steady(at[n], doc, n)
  BY <1>10 DEF P
<1> QED
  BY <1>7, <1>11 DEF at, N

\* The names of these positions.
LEMMA NamesOn ==
  ASSUME NEW doc, NEW o \in Seq(Nat)
  PROVE  /\ NamesOf(<<>>, doc) = <<>> /\ NamesOf(o, doc) \in Seq({doc[k].name : k \in Nat})
         /\ Len(NamesOf(o, doc)) = Len(o)
         /\ \A n \in Nat : NamesOf(Append(o, n), doc) = Append(NamesOf(o, doc), doc[n].name)
         /\ o # <<>> => NamesOf(o, doc) = Append(NamesOf(SubSeq(o, 1, Len(o) - 1), doc), doc[o[Len(o)]].name)
<1> DEFINE F(k) == doc[k].name
           V == {F(k) : k \in Nat}
           of(q) == [i \in DOMAIN q |-> F(q[i])]
<1>1. of(<<>>) = <<>>
  OBVIOUS
<1>2. of(o) \in Seq(V) /\ Len(of(o)) = Len(o)
  <2>1. \A i \in DOMAIN o : F(o[i]) \in V
    OBVIOUS
  <2> HIDE DEF F, V
  <2> QED
    BY <2>1
<1>3. \A q \in Seq(Nat) : \A n \in Nat : of(Append(q, n)) = Append(of(q), F(n))
  <2> SUFFICES ASSUME NEW q \in Seq(Nat), NEW n \in Nat
               PROVE  of(Append(q, n)) = Append(of(q), F(n))
    OBVIOUS
  <2> HIDE DEF F
  <2> QED
    OBVIOUS
<1>4. \A q : NamesOf(q, doc) = of(q)
  BY DEF NamesOf
<1>5. ASSUME o # <<>>
      PROVE  /\ SubSeq(o, 1, Len(o) - 1) \in Seq(Nat) /\ o[Len(o)] \in Nat
             /\ o = Append(SubSeq(o, 1, Len(o) - 1), o[Len(o)])
  BY <1>5
<1> DEFINE under == SubSeq(o, 1, Len(o) - 1)
           last == o[Len(o)]
<1>6. o # <<>> => of(o) = Append(of(under), F(last))
  <2> SUFFICES ASSUME o # <<>>
               PROVE  of(o) = Append(of(under), F(last))
    OBVIOUS
  <2>1. under \in Seq(Nat) /\ last \in Nat /\ o = Append(under, last)
    BY <1>5
  <2> HIDE DEF under, last, of, F
  <2>2. of(Append(under, last)) = Append(of(under), F(last))
    BY <1>3, <2>1
  <2> QED
    BY <2>1, <2>2
<1> HIDE DEF of
<1> QED
  BY <1>1, <1>2, <1>3, <1>4, <1>6

\* Sequences that are the same with one more element are the same before.
LEMMA AppendSame ==
  ASSUME NEW U, NEW W, NEW a \in Seq(U), NEW c \in Seq(W), NEW b, NEW e, Append(a, b) = Append(c, e)
  PROVE  a = c /\ b = e
<1> DEFINE B == U \cup W \cup {b, e}
<1>1. a \in Seq(B) /\ c \in Seq(B) /\ b \in B /\ e \in B
  OBVIOUS
<1> HIDE DEF B
<1> DEFINE x == Append(a, b)
           y == Append(c, e)
<1>2. /\ x \in Seq(B) /\ Len(x) = Len(a) + 1 /\ x[Len(a) + 1] = b /\ \A i \in 1 .. Len(a) : x[i] = a[i]
      /\ y \in Seq(B) /\ Len(y) = Len(c) + 1 /\ y[Len(c) + 1] = e /\ \A i \in 1 .. Len(c) : y[i] = c[i]
  BY <1>1
<1>3. x = y /\ Len(a) \in Nat /\ Len(c) \in Nat
  BY <1>1
<1> HIDE DEF x, y
<1>4. Len(a) = Len(c) /\ b = e /\ \A i \in 1 .. Len(a) : a[i] = c[i]
  BY <1>2, <1>3
<1> QED
  BY <1>1, <1>4, SeqEqual

\* A token opens and closes by position what it does by name.
LEMMA NamesTurn ==
  ASSUME NEW doc, NEW n \in Nat, NEW o \in Seq(Nat), doc[n].kind \in {"start", "end", "char"}
  PROVE  LET t     == doc[n]
             x     == Nested(o, doc, n)
             right == t.kind = "end" => o # <<>> /\ t.name = doc[o[Len(o)]].name
         IN  /\ right => Turn(NamesOf(o, doc), t, NamesOf(x, doc))
             /\ \A W : \A w \in Seq(W) : Turn(NamesOf(o, doc), t, w) => right /\ NamesOf(x, doc) = w
<1> DEFINE t == doc[n]
           x == Nested(o, doc, n)
           under == SubSeq(o, 1, Len(o) - 1)
           last == doc[o[Len(o)]].name
           v == NamesOf(o, doc)
           y == NamesOf(x, doc)
           vu == NamesOf(under, doc)
<1>1. /\ NamesOf(Append(o, n), doc) = Append(v, t.name)
      /\ o # <<>> => v = Append(vu, last)
      /\ o = <<>> => v = <<>>
      /\ \E U : v \in Seq(U)
  BY NamesOn
<1>2. x = CASE t.kind = "start" /\ t.name \notin Void -> Append(o, n)
            [] t.kind = "end" /\ o # <<>>             -> under
            [] OTHER                                  -> o
  BY DEF Nested
<1>3. \E U : vu \in Seq(U)
  <2>1. under \in Seq(Nat) \/ o = <<>>
    OBVIOUS
  <2>2. \A q \in Seq(Nat) : NamesOf(q, doc) \in Seq({doc[k].name : k \in Nat})
    BY NamesOn
  <2>3. CASE o = <<>>
    <3>1. under = <<>>
      BY <2>3
    <3>2. under \in Seq(Nat)
      BY <3>1
    <3> QED
      BY <2>2, <3>2
  <2>4. CASE under \in Seq(Nat)
    BY <2>2, <2>4
  <2> QED
    BY <2>1, <2>3, <2>4
<1> DEFINE right == t.kind = "end" => o # <<>> /\ t.name = last
<1> HIDE DEF t, x, under, last, v, y, vu
<1>4. CASE t.kind = "start"
  <2>1. CASE t.name \notin Void
    <3>1. y = Append(v, t.name)
      BY <1>1, <1>2, <1>4, <2>1 DEF y
    <3>2. Turn(v, t, y)
      BY <1>4, <2>1, <3>1 DEF Turn
    <3>3. \A w : Turn(v, t, w) => w = y
      BY <1>4, <2>1, <3>1 DEF Turn
    <3> QED
      BY <1>4, <3>2, <3>3 DEF t, x, v, y
  <2>2. CASE t.name \in Void
    <3>1. y = v
      BY <1>2, <1>4, <2>2 DEF y, v
    <3>2. Turn(v, t, y)
      BY <1>4, <2>2, <3>1 DEF Turn
    <3>3. \A w : Turn(v, t, w) => w = y
      BY <1>4, <2>2, <3>1 DEF Turn
    <3> QED
      BY <1>4, <3>2, <3>3 DEF t, x, v, y
  <2> QED
    BY <2>1, <2>2
<1>5. CASE t.kind = "char"
  <2>1. y = v
    BY <1>2, <1>5 DEF y, v
  <2>2. Turn(v, t, y)
    BY <1>5, <2>1 DEF Turn
  <2>3. \A w : Turn(v, t, w) => w = y
    BY <1>5, <2>1 DEF Turn
  <2> QED
    BY <1>5, <2>2, <2>3 DEF t, x, v, y
<1>6. CASE t.kind = "end"
  <2>1. ASSUME right
        PROVE  Turn(v, t, y)
    <3>1. y = vu /\ v = Append(vu, t.name)
      BY <1>1, <1>2, <1>6, <2>1 DEF y, vu
    <3> QED
      BY <1>6, <3>1 DEF Turn
  <2>2. ASSUME NEW W, NEW w \in Seq(W), Turn(v, t, w)
        PROVE  right /\ y = w
    <3>1. v = Append(w, t.name)
      BY <1>6, <2>2 DEF Turn
    <3>2. o # <<>>
      <4>1. Append(w, t.name) # <<>>
        <5> DEFINE B == W \cup {t.name}
                   e == t.name
        <5>1. w \in Seq(B) /\ e \in B
          OBVIOUS
        <5> HIDE DEF B, e
        <5>2. Append(w, e) # <<>>
          BY <5>1, AppendProperties
        <5> QED
          BY <5>2 DEF e
      <4> QED
        BY <1>1, <3>1, <4>1
    <3>3. y = vu /\ v = Append(vu, last)
      BY <1>1, <1>2, <1>6, <3>2 DEF y, vu
    <3>4. PICK U : vu \in Seq(U)
      BY <1>3
    <3>5. vu = w /\ last = t.name
      <4> DEFINE e == t.name
      <4>1. Append(vu, last) = Append(w, e) /\ vu \in Seq(U) /\ w \in Seq(W)
        BY <3>1, <3>3, <3>4
      <4> HIDE DEF e
      <4>2. vu = w /\ last = e
        BY <4>1, AppendSame
      <4> QED
        BY <4>2 DEF e
    <3> QED
      BY <3>2, <3>3, <3>5
  <2>3. /\ right => Turn(v, t, y)
        /\ \A W : \A w \in Seq(W) : Turn(v, t, w) => right /\ y = w
    BY <2>1, <2>2
  <2> QED
    BY <2>3 DEF t, x, v, y, last
<1> QED
  BY <1>4, <1>5, <1>6 DEF t

\* A balanced document nests, by the names of what is open.
LEMMA BalancedNests ==
  ASSUME NEW T, NEW S, Rules(T, S), NEW doc \in Seq(T), Balanced(doc)
  PROVE  NestsBy([n \in 0 .. Len(doc) |-> NamesOf(OpenAfter(doc)[n], doc)], doc, <<>>, S)
<1> DEFINE N == Len(doc)
           at == OpenAfter(doc)
           L == [n \in 0 .. N |-> NamesOf(at[n], doc)]
<1>1. \A t \in T : t.kind \in {"start", "end", "char"} /\ (t.kind # "char" => t.name \in S)
  BY DEF Rules, Named
<1>2. /\ N \in Nat /\ N \in 0 .. N /\ 0 \in 0 .. N
      /\ \A n \in 1 .. N : doc[n] \in T /\ n - 1 \in 0 .. N /\ n \in 0 .. N /\ n \in Nat
  OBVIOUS
<1>3. /\ at[0] = <<>>
      /\ \A n \in 1 .. N : at[n] = Nested(at[n - 1], doc, n)
      /\ \A n \in 0 .. N : Steady(at[n], doc, n)
  BY <1>2, Opens
<1>4. /\ at[N] = <<>>
      /\ \A n \in 1 .. N : doc[n].kind = "end" =>
           at[n - 1] # <<>> /\ doc[n].name = doc[at[n - 1][Len(at[n - 1])]].name
  <2>1. DOMAIN doc = 1 .. N
    OBVIOUS
  <2> QED
    BY <2>1 DEF Balanced
<1> HIDE DEF at, N
<1>5. \A n \in 0 .. N : L[n] = NamesOf(at[n], doc)
  OBVIOUS
<1>6. ASSUME NEW n \in 0 .. N
      PROVE  L[n] \in Seq(S)
  <2> DEFINE o == at[n]
  <2>1. Steady(o, doc, n)
    BY <1>3
  <2> HIDE DEF o
  <2>2. \A i \in DOMAIN o : doc[o[i]].name \in S
    <3> SUFFICES ASSUME NEW i \in DOMAIN o
                 PROVE  doc[o[i]].name \in S
      OBVIOUS
    <3>1. o[i] \in 1 .. n /\ doc[o[i]].kind = "start"
      BY <2>1 DEF Steady
    <3>2. o[i] \in 1 .. N
      BY <1>2, <3>1
    <3>3. doc[o[i]] \in T
      BY <1>2, <3>2
    <3> QED
      BY <1>1, <3>1, <3>3
  <2>3. o \in Seq(Nat)
    BY <2>1 DEF Steady
  <2> DEFINE F(i) == doc[o[i]].name
  <2>4. \A i \in DOMAIN o : F(i) \in S
    BY <2>2
  <2> HIDE DEF F
  <2>5. [i \in DOMAIN o |-> F(i)] \in Seq(S)
    BY <2>3, <2>4
  <2>6. NamesOf(o, doc) \in Seq(S)
    BY <2>5 DEF NamesOf, F
  <2> QED
    BY <1>5, <2>6 DEF o
<1>7. L[0] = <<>> /\ L[N] = <<>>
  <2>1. NamesOf(<<>>, doc) = <<>>
    BY DEF NamesOf
  <2> HIDE DEF L
  <2> QED
    BY <1>2, <1>3, <1>4, <1>5, <2>1
<1>8. ASSUME NEW n \in 1 .. N
      PROVE  Turn(L[n - 1], doc[n], L[n])
  <2> DEFINE o == at[n - 1]
             x == Nested(o, doc, n)
  <2>1. n \in Nat /\ doc[n].kind \in {"start", "end", "char"} /\ n - 1 \in 0 .. N /\ n \in 0 .. N
    BY <1>1, <1>2
  <2>2. o \in Seq(Nat)
    BY <1>3, <2>1 DEF Steady
  <2>3. doc[n].kind = "end" => o # <<>> /\ doc[n].name = doc[o[Len(o)]].name
    BY <1>4
  <2>4. L[n - 1] = NamesOf(o, doc) /\ L[n] = NamesOf(x, doc)
    <3> HIDE DEF L
    <3> QED
      BY <1>3, <1>5, <2>1
  <2> HIDE DEF o, x, L
  <2>5. Turn(NamesOf(o, doc), doc[n], NamesOf(x, doc))
    BY <2>1, <2>2, <2>3, NamesTurn DEF x
  <2> QED
    BY <2>4, <2>5
<1> HIDE DEF L
<1>9. NestsBy(L, doc, <<>>, S)
  BY <1>6, <1>7, <1>8 DEF NestsBy, N
<1> QED
  BY <1>9 DEF L, N, at

\* And a document that nests is balanced.
LEMMA NestsBalanced ==
  ASSUME NEW T, NEW S, Rules(T, S), NEW doc \in Seq(T), Nests(doc, <<>>, S)
  PROVE  Balanced(doc)
<1> PICK L : NestsBy(L, doc, <<>>, S)
  BY DEF Nests
<1> DEFINE N == Len(doc)
           at == OpenAfter(doc)
           P == {n \in 0 .. N : NamesOf(at[n], doc) = L[n]}
<1>1. \A t \in T : t.kind \in {"start", "end", "char"}
  BY DEF Rules, Named
<1>2. /\ N \in Nat /\ N \in 0 .. N /\ 0 \in 0 .. N
      /\ \A n \in 1 .. N : doc[n] \in T /\ n - 1 \in 0 .. N /\ n \in 0 .. N /\ n \in Nat
  OBVIOUS
<1>3. /\ at[0] = <<>>
      /\ \A n \in 1 .. N : at[n] = Nested(at[n - 1], doc, n)
      /\ \A n \in 0 .. N : Steady(at[n], doc, n)
  BY <1>2, Opens
<1>4. /\ \A n \in 0 .. N : L[n] \in Seq(S)
      /\ L[0] = <<>> /\ L[N] = <<>> /\ \A n \in 1 .. N : Turn(L[n - 1], doc[n], L[n])
  BY DEF NestsBy
<1>5. DOMAIN doc = 1 .. N
  OBVIOUS
<1> HIDE DEF at, N
<1>6. ASSUME NEW n \in 1 .. N, NamesOf(at[n - 1], doc) = L[n - 1]
      PROVE  /\ NamesOf(at[n], doc) = L[n]
             /\ doc[n].kind = "end" => at[n - 1] # <<>> /\ doc[n].name = doc[at[n - 1][Len(at[n - 1])]].name
  <2> DEFINE o == at[n - 1]
             x == Nested(o, doc, n)
  <2>1. n \in Nat /\ doc[n].kind \in {"start", "end", "char"} /\ n - 1 \in 0 .. N /\ n \in 0 .. N
    BY <1>1, <1>2
  <2>2. o \in Seq(Nat) /\ at[n] = x
    BY <1>3, <2>1 DEF Steady
  <2>3. Turn(NamesOf(o, doc), doc[n], L[n]) /\ L[n] \in Seq(S)
    BY <1>4, <1>6, <2>1
  <2> HIDE DEF o
  <2>4. \A W : \A w \in Seq(W) : Turn(NamesOf(o, doc), doc[n], w) =>
          (doc[n].kind = "end" => o # <<>> /\ doc[n].name = doc[o[Len(o)]].name) /\ NamesOf(x, doc) = w
    BY <2>1, <2>2, NamesTurn
  <2> HIDE DEF x
  <2> QED
    BY <2>2, <2>3, <2>4 DEF o
<1>7. 0 \in P
  <2>1. NamesOf(<<>>, doc) = <<>>
    BY DEF NamesOf
  <2> QED
    BY <1>2, <1>3, <1>4, <2>1
<1>8. ASSUME NEW n \in 0 .. N - 1, n \in P
      PROVE  n + 1 \in P
  <2>1. n + 1 \in 1 .. N /\ (n + 1) - 1 = n /\ n + 1 \in 0 .. N
    BY <1>2
  <2>2. NamesOf(at[(n + 1) - 1], doc) = L[(n + 1) - 1]
    BY <1>8, <2>1
  <2>3. NamesOf(at[n + 1], doc) = L[n + 1]
    BY <1>6, <2>1, <2>2
  <2> QED
    BY <2>1, <2>3
<1> HIDE DEF P
<1>9. \A n \in 0 .. N : n \in P
  BY <1>2, <1>7, <1>8, Climbing
<1>10. \A n \in 0 .. N : NamesOf(at[n], doc) = L[n]
  BY <1>9 DEF P
<1>11. \A n \in 1 .. N : doc[n].kind = "end" =>
         at[n - 1] # <<>> /\ doc[n].name = doc[at[n - 1][Len(at[n - 1])]].name
  BY <1>2, <1>6, <1>10
<1>12. at[N] = <<>>
  <2> DEFINE o == at[N]
  <2>1. o \in Seq(Nat) /\ NamesOf(o, doc) = <<>>
    BY <1>2, <1>3, <1>4, <1>10 DEF Steady
  <2> HIDE DEF o
  <2>2. Len(NamesOf(o, doc)) = Len(o)
    BY <2>1, NamesOn
  <2>3. o = <<>>
    BY <2>1, <2>2
  <2> QED
    BY <2>3 DEF o
<1> QED
  BY <1>5, <1>11, <1>12 DEF Balanced, at, N

-----------------------------------------------------------------------------
(* What encloses what. *)

\* at are the open elements of a balanced document, by position.
Stacks(at, doc) ==
  /\ Len(doc) \in Nat /\ at[0] = <<>> /\ at[Len(doc)] = <<>>
  /\ \A n \in 0 .. Len(doc) : Steady(at[n], doc, n)
  /\ \A n \in 1 .. Len(doc) :
       /\ at[n] = Nested(at[n - 1], doc, n)
       /\ doc[n].kind \in {"start", "end", "char"}
       /\ doc[n].kind = "end" =>
            at[n - 1] # <<>> /\ doc[n].name = doc[at[n - 1][Len(at[n - 1])]].name

\* The element that starts at k is open.
On(o, k) == \E i \in DOMAIN o : o[i] = k

\* What a token does to these.
LEMMA OnAfter ==
  ASSUME NEW doc, NEW n \in Nat, NEW o, Steady(o, doc, n), doc[n + 1].kind \in {"start", "end", "char"}
  PROVE  LET t   == doc[n + 1]
             x   == Nested(o, doc, n + 1)
             top == o[Len(o)]
         IN  /\ \A k : On(o, k) => k \in 1 .. n /\ doc[k].kind = "start" /\ doc[k].name \notin Void
             /\ t.kind = "start" /\ t.name \notin Void => \A k : On(x, k) <=> (On(o, k) \/ k = n + 1)
             /\ t.kind = "end" /\ o # <<>> =>
                  On(o, top) /\ \A k : (On(o, k) => k <= top) /\ (On(x, k) <=> (On(o, k) /\ k # top))
             /\ t.kind = "char" \/ (t.kind = "start" /\ t.name \in Void) => x = o
<1> DEFINE t == doc[n + 1]
           x == Nested(o, doc, n + 1)
           m == Len(o)
           top == o[m]
<1>1. /\ o \in Seq(Nat) /\ m \in Nat /\ DOMAIN o = 1 .. m
      /\ \A i \in 1 .. m : o[i] \in 1 .. n /\ doc[o[i]].kind = "start" /\ doc[o[i]].name \notin Void
      /\ \A i, k \in 1 .. m : i < k => o[i] < o[k]
  <2>1. o \in Seq(Nat) /\ m \in Nat /\ DOMAIN o = 1 .. m
    BY DEF Steady
  <2> QED
    BY <2>1 DEF Steady
<1>2. \A k : On(o, k) => k \in 1 .. n /\ doc[k].kind = "start" /\ doc[k].name \notin Void
  BY <1>1 DEF On
<1>3. ASSUME t.kind = "start", t.name \notin Void
      PROVE  \A k : On(x, k) <=> (On(o, k) \/ k = n + 1)
  <2>1. x = Append(o, n + 1)
    BY <1>3 DEF Nested
  <2>2. DOMAIN x = 1 .. m + 1 /\ x[m + 1] = n + 1 /\ \A i \in 1 .. m : x[i] = o[i]
    BY <1>1, <2>1
  <2> HIDE DEF x, m
  <2>3. /\ \A i \in 1 .. m + 1 : i \in 1 .. m \/ i = m + 1
        /\ m + 1 \in 1 .. m + 1 /\ \A i \in 1 .. m : i \in 1 .. m + 1
    BY <1>1
  <2> QED
    BY <1>1, <2>2, <2>3 DEF On
<1>4. ASSUME t.kind = "end", o # <<>>
      PROVE  On(o, top) /\ \A k : (On(o, k) => k <= top) /\ (On(x, k) <=> (On(o, k) /\ k # top))
  <2>1. x = SubSeq(o, 1, m - 1)
    BY <1>4 DEF Nested
  <2>2. m \in 1 .. m /\ m - 1 \in Nat
    BY <1>1, <1>4
  <2>3. DOMAIN x = 1 .. m - 1 /\ \A i \in 1 .. m - 1 : x[i] = o[i]
    BY <1>1, <2>1, <2>2
  <2> HIDE DEF x, m
  <2>4. /\ \A i \in 1 .. m : (i \in 1 .. m - 1 /\ i < m) \/ i = m
        /\ \A i \in 1 .. m - 1 : i \in 1 .. m /\ i < m
    BY <2>2
  <2>5. \A i \in 1 .. m - 1 : o[i] < top /\ o[i] \in Nat /\ top \in Nat
    BY <1>1, <2>2, <2>4
  <2>6. On(o, top)
    BY <1>1, <2>2 DEF On
  <2>7. \A k : On(o, k) => k <= top
    <3> SUFFICES ASSUME NEW i \in 1 .. m
                 PROVE  o[i] <= top
      BY <1>1 DEF On
    <3>1. top \in Nat
      BY <1>1, <2>2
    <3>2. CASE i = m
      BY <3>1, <3>2
    <3>3. CASE i \in 1 .. m - 1
      BY <2>5, <3>3
    <3> QED
      BY <2>4, <3>2, <3>3
  <2>8. ASSUME NEW k
        PROVE  On(x, k) <=> (On(o, k) /\ k # top)
    <3>1. ASSUME On(x, k)
          PROVE  On(o, k) /\ k # top
      <4>1. PICK i \in 1 .. m - 1 : o[i] = k
        BY <2>3, <3>1 DEF On
      <4>2. o[i] < top /\ o[i] \in Nat /\ top \in Nat
        BY <2>5
      <4>3. k # top
        BY <4>1, <4>2
      <4> QED
        BY <1>1, <2>4, <4>1, <4>3 DEF On
    <3>2. ASSUME On(o, k), k # top
          PROVE  On(x, k)
      <4>1. PICK i \in 1 .. m : o[i] = k
        BY <1>1, <3>2 DEF On
      <4>2. i \in 1 .. m - 1
        BY <2>4, <3>2, <4>1
      <4> QED
        BY <2>3, <4>1, <4>2 DEF On
    <3> QED
      BY <3>1, <3>2
  <2> QED
    BY <2>6, <2>7, <2>8
<1>5. t.kind = "char" \/ (t.kind = "start" /\ t.name \in Void) => x = o
  BY DEF Nested
<1> QED
  BY <1>2, <1>3, <1>4, <1>5

\* Since the element at j, of the elements of its name: the start tags, the
\* end tags, and the ones still open.
Ups(doc, j, n) == {k \in j + 1 .. n : doc[k].kind = "start" /\ doc[k].name = doc[j].name}
Downs(doc, j, n) == {k \in j + 1 .. n : doc[k].kind = "end" /\ doc[k].name = doc[j].name}
Over(at, doc, j, n) == {k \in j + 1 .. n : On(at[n], k) /\ doc[k].name = doc[j].name}

\* These add up while it is open.
LEMMA CountOn ==
  ASSUME NEW doc, NEW at, Stacks(at, doc), NEW j \in 1 .. Len(doc), NEW n \in j .. Len(doc),
         n + 1 \in 1 .. Len(doc), On(at[n], j), On(at[n + 1], j),
         Cardinality(Ups(doc, j, n)) = Cardinality(Downs(doc, j, n)) + Cardinality(Over(at, doc, j, n))
  PROVE  Cardinality(Ups(doc, j, n + 1)) =
           Cardinality(Downs(doc, j, n + 1)) + Cardinality(Over(at, doc, j, n + 1))
<1> DEFINE N == Len(doc)
           U == Ups(doc, j, n)
           D == Downs(doc, j, n)
           O == Over(at, doc, j, n)
           U2 == Ups(doc, j, n + 1)
           D2 == Downs(doc, j, n + 1)
           O2 == Over(at, doc, j, n + 1)
           t == doc[n + 1]
           nm == doc[j].name
           o == at[n]
           x == at[n + 1]
<1>1. /\ N \in Nat /\ n \in Nat /\ j \in Nat /\ j <= n /\ n \in 0 .. N
      /\ n + 1 \in j + 1 .. n + 1 /\ n + 1 \notin j + 1 .. n
      /\ \A k \in j + 1 .. n + 1 : k \in j + 1 .. n \/ k = n + 1
      /\ \A k \in j + 1 .. n : k \in j + 1 .. n + 1
      /\ (n + 1) - 1 = n
  BY DEF Stacks
<1>2. /\ Steady(o, doc, n) /\ t.kind \in {"start", "end", "char"}
      /\ t.kind = "end" => o # <<>> /\ t.name = doc[o[Len(o)]].name
      /\ x = Nested(o, doc, n + 1)
  <2>1. at[n + 1] = Nested(at[(n + 1) - 1], doc, n + 1)
    BY DEF Stacks
  <2>2. t.kind = "end" => at[(n + 1) - 1] # <<>> /\ t.name = doc[at[(n + 1) - 1][Len(at[(n + 1) - 1])]].name
    BY DEF Stacks
  <2> QED
    BY <1>1, <2>1, <2>2 DEF Stacks
<1> DEFINE top == o[Len(o)]
<1>3. /\ \A k : On(o, k) => k \in 1 .. n /\ doc[k].kind = "start" /\ doc[k].name \notin Void
      /\ t.kind = "start" /\ t.name \notin Void => \A k : On(x, k) <=> (On(o, k) \/ k = n + 1)
      /\ t.kind = "end" =>
           On(o, top) /\ \A k : (On(o, k) => k <= top) /\ (On(x, k) <=> (On(o, k) /\ k # top))
      /\ t.kind = "char" \/ (t.kind = "start" /\ t.name \in Void) => x = o
  BY <1>1, <1>2, OnAfter
<1>4. nm \notin Void /\ ~On(o, n + 1)
  <2>1. n + 1 \notin 1 .. n
    BY <1>1
  <2> QED
    BY <1>3, <2>1
<1>5. /\ \A k : k \in U <=> k \in j + 1 .. n /\ doc[k].kind = "start" /\ doc[k].name = nm
      /\ \A k : k \in U2 <=> k \in j + 1 .. n + 1 /\ doc[k].kind = "start" /\ doc[k].name = nm
      /\ \A k : k \in D <=> k \in j + 1 .. n /\ doc[k].kind = "end" /\ doc[k].name = nm
      /\ \A k : k \in D2 <=> k \in j + 1 .. n + 1 /\ doc[k].kind = "end" /\ doc[k].name = nm
      /\ \A k : k \in O <=> k \in j + 1 .. n /\ On(o, k) /\ doc[k].name = nm
      /\ \A k : k \in O2 <=> k \in j + 1 .. n + 1 /\ On(x, k) /\ doc[k].name = nm
  BY DEF Ups, Downs, Over
<1>6. /\ IsFiniteSet(U) /\ IsFiniteSet(D) /\ IsFiniteSet(O)
      /\ Cardinality(U) \in Nat /\ Cardinality(D) \in Nat /\ Cardinality(O) \in Nat
  <2>1. IsFiniteSet(j + 1 .. n)
    BY <1>1, FS_Interval
  <2>2. U \in SUBSET (j + 1 .. n) /\ D \in SUBSET (j + 1 .. n) /\ O \in SUBSET (j + 1 .. n)
    BY <1>5
  <2> HIDE DEF U, D, O
  <2>3. IsFiniteSet(U) /\ IsFiniteSet(D) /\ IsFiniteSet(O)
    BY <2>1, <2>2, FS_Subset
  <2> QED
    BY <2>3, FS_CardinalityType
<1> DEFINE I == Cardinality(U2) = Cardinality(D2) + Cardinality(O2)
<1>7. Cardinality(U) = Cardinality(D) + Cardinality(O)
  OBVIOUS
<1> HIDE DEF N, U, D, O, U2, D2, O2, t, nm, o, x, top
<1>8. CASE t.kind = "start" /\ t.name = nm
  <2>1. U2 = U \cup {n + 1} /\ D2 = D /\ O2 = O \cup {n + 1} /\ n + 1 \notin U /\ n + 1 \notin O
    <3>1. \A k : k \in U2 <=> k \in U \/ k = n + 1
      BY <1>1, <1>5, <1>8 DEF t
    <3>2. \A k : k \in D2 <=> k \in D
      BY <1>1, <1>5, <1>8 DEF t
    <3>3. \A k : k \in O2 <=> k \in O \/ k = n + 1
      BY <1>1, <1>3, <1>4, <1>5, <1>8 DEF t
    <3> QED
      BY <1>1, <1>5, <3>1, <3>2, <3>3
  <2>2. Cardinality(U2) = Cardinality(U) + 1 /\ Cardinality(O2) = Cardinality(O) + 1
    BY <1>6, <2>1, FS_AddElement
  <2> QED
    BY <1>6, <1>7, <2>1, <2>2 DEF U2, D2, O2
<1>9. CASE t.kind = "end" /\ t.name = nm
  <2>1. top \in O /\ On(x, j)
    <3>1. On(x, j) /\ On(o, j)
      BY DEF x, o
    <3>2. j <= top /\ j # top /\ top \in 1 .. n /\ doc[top].name = nm
      BY <1>2, <1>3, <1>9, <3>1 DEF top
    <3>3. top \in j + 1 .. n
      BY <1>1, <3>2
    <3> QED
      BY <1>3, <1>5, <1>9, <3>1, <3>2, <3>3
  <2>2. U2 = U /\ D2 = D \cup {n + 1} /\ O2 = O \ {top} /\ n + 1 \notin D
    <3>1. \A k : k \in U2 <=> k \in U
      BY <1>1, <1>5, <1>9 DEF t
    <3>2. \A k : k \in D2 <=> k \in D \/ k = n + 1
      BY <1>1, <1>5, <1>9 DEF t
    <3>3. \A k : k \in O2 <=> k \in O /\ k # top
      BY <1>1, <1>3, <1>4, <1>5, <1>9
    <3> QED
      BY <1>1, <1>5, <3>1, <3>2, <3>3
  <2>3. Cardinality(D2) = Cardinality(D) + 1
    BY <1>6, <2>2, FS_AddElement
  <2>4. Cardinality(O2) = Cardinality(O) - 1
    BY <1>6, <2>1, <2>2, FS_RemoveElement
  <2> QED
    BY <1>6, <1>7, <2>2, <2>3, <2>4 DEF U2, D2, O2
<1>10. CASE t.name # nm \/ t.kind = "char"
  <2>1. \A k : k \in U2 <=> k \in U
    BY <1>1, <1>5, <1>10 DEF t
  <2>2. \A k : k \in D2 <=> k \in D
    BY <1>1, <1>5, <1>10 DEF t
  <2>3. ASSUME NEW k
        PROVE  k \in O2 <=> k \in O
    <3>1. CASE t.kind = "start" /\ t.name \notin Void
      BY <1>1, <1>3, <1>4, <1>5, <1>10, <3>1 DEF t
    <3>2. CASE t.kind = "end"
      <4>1. k = top => doc[k].name # nm
        BY <1>2, <1>10, <3>2 DEF top
      <4> QED
        BY <1>1, <1>3, <1>4, <1>5, <3>2, <4>1
    <3>3. CASE t.kind = "char" \/ (t.kind = "start" /\ t.name \in Void)
      <4>1. x = o
        BY <1>3, <3>3
      <4> QED
        BY <1>1, <1>4, <1>5, <4>1
    <3>4. (t.kind = "start" /\ t.name \notin Void) \/ t.kind = "end"
             \/ (t.kind = "char" \/ (t.kind = "start" /\ t.name \in Void))
      BY <1>2
    <3> QED
      BY <3>1, <3>2, <3>3, <3>4, Zenon
  <2>4. U2 = U /\ D2 = D /\ O2 = O
    BY <2>1, <2>2, <2>3
  <2> QED
    BY <1>7, <2>4 DEF U2, D2, O2
<1> QED
  BY <1>2, <1>8, <1>9, <1>10 DEF U2, D2, O2

\* An element is open from its start tag to the tag that closes it.
OpenSince(at, j, n) == \A m \in j .. n : On(at[m], j)

\* So the counts agree all that time.
LEMMA CountsAgree ==
  ASSUME NEW doc, NEW at, Stacks(at, doc), NEW j \in 1 .. Len(doc),
         NEW n \in j .. Len(doc), OpenSince(at, j, n)
  PROVE  Cardinality(Ups(doc, j, n)) = Cardinality(Downs(doc, j, n)) + Cardinality(Over(at, doc, j, n))
<1> DEFINE N == n - j
           Even(m) == Cardinality(Ups(doc, j, m)) = Cardinality(Downs(doc, j, m)) + Cardinality(Over(at, doc, j, m))
           P == {m \in 0 .. N : Even(j + m)}
<1>1. N \in Nat /\ j \in Nat /\ n \in Nat /\ Len(doc) \in Nat
  BY DEF Stacks
<1>2. 0 \in P
  <2>1. j + 0 = j /\ j + 1 .. j = {}
    BY <1>1
  <2>2. Ups(doc, j, j) = {} /\ Downs(doc, j, j) = {} /\ Over(at, doc, j, j) = {}
    BY <2>1 DEF Ups, Downs, Over
  <2>3. Cardinality({}) = 0 /\ 0 + 0 = 0
    BY FS_EmptySet
  <2>4. Even(j)
    BY <2>2, <2>3
  <2> HIDE DEF Even
  <2> QED
    BY <1>1, <2>1, <2>4
<1>3. ASSUME NEW m \in 0 .. N - 1, m \in P
      PROVE  m + 1 \in P
  <2> DEFINE k == j + m
  <2>1. /\ k \in j .. Len(doc) /\ k + 1 \in 1 .. Len(doc) /\ j + (m + 1) = k + 1
        /\ k \in j .. n /\ k + 1 \in j .. n /\ m + 1 \in 0 .. N
    BY <1>1
  <2>2. On(at[k], j) /\ On(at[k + 1], j)
    BY <2>1 DEF OpenSince
  <2>3. Even(k)
    BY <1>3
  <2> HIDE DEF k
  <2>4. Even(k + 1)
    BY <2>1, <2>2, <2>3, CountOn
  <2> HIDE DEF Even
  <2> QED
    BY <2>1, <2>4
<1> HIDE DEF P
<1>4. \A m \in 0 .. N : m \in P
  BY <1>1, <1>2, <1>3, Climbing
<1>5. N \in 0 .. N /\ j + N = n
  BY <1>1
<1>6. Even(j + N)
  <2> HIDE DEF Even, N
  <2> QED
    BY <1>4, <1>5 DEF P
<1> QED
  BY <1>5, <1>6

\* The tag after which it is not open any more closes it; no other one does.
LEMMA ClosingIs ==
  ASSUME NEW doc, NEW at, Stacks(at, doc), NEW j \in 1 .. Len(doc), NEW k \in j + 1 .. Len(doc),
         OpenSince(at, j, k - 1)
  PROVE  Closes(doc, j, k) <=> ~On(at[k], j)
<1> DEFINE n == k - 1
           t == doc[k]
           nm == doc[j].name
           o == at[n]
           top == o[Len(o)]
           U == Ups(doc, j, n)
           D == Downs(doc, j, n)
           O == Over(at, doc, j, n)
<1>1. /\ Len(doc) \in Nat /\ j \in Nat /\ k \in Nat /\ n \in Nat /\ n + 1 = k
      /\ n \in j .. Len(doc) /\ n \in 0 .. Len(doc) /\ k \in 1 .. Len(doc)
  BY DEF Stacks
<1>2. /\ Steady(o, doc, n) /\ t.kind \in {"start", "end", "char"}
      /\ t.kind = "end" => o # <<>> /\ t.name = doc[top].name
      /\ at[k] = Nested(o, doc, k)
  BY <1>1 DEF Stacks
<1>3. /\ \A i : On(o, i) => i \in 1 .. n
      /\ t.kind = "start" /\ t.name \notin Void => \A i : On(at[k], i) <=> On(o, i) \/ i = k
      /\ t.kind = "end" =>
           On(o, top) /\ \A i : (On(o, i) => i <= top) /\ (On(at[k], i) <=> On(o, i) /\ i # top)
      /\ t.kind = "char" \/ (t.kind = "start" /\ t.name \in Void) => at[k] = o
  <2>1. Steady(o, doc, n) /\ doc[n + 1].kind \in {"start", "end", "char"}
    BY <1>1, <1>2
  <2> HIDE DEF o
  <2>2. LET u == doc[n + 1]
            x == Nested(o, doc, n + 1)
            e == o[Len(o)]
        IN  /\ \A i : On(o, i) => i \in 1 .. n /\ doc[i].kind = "start" /\ doc[i].name \notin Void
            /\ u.kind = "start" /\ u.name \notin Void => \A i : On(x, i) <=> On(o, i) \/ i = n + 1
            /\ u.kind = "end" /\ o # <<>> =>
                 On(o, e) /\ \A i : (On(o, i) => i <= e) /\ (On(x, i) <=> On(o, i) /\ i # e)
            /\ u.kind = "char" \/ (u.kind = "start" /\ u.name \in Void) => x = o
    BY <1>1, <2>1, OnAfter
  <2> QED
    BY <1>1, <1>2, <2>2
<1>4. On(o, j)
  BY <1>1 DEF OpenSince
<1>5. Cardinality(U) = Cardinality(D) + Cardinality(O)
  BY <1>1, CountsAgree
<1>6. Closes(doc, j, k) <=> t.kind = "end" /\ t.name = nm /\ Cardinality(U) = Cardinality(D)
  BY DEF Closes, Count, Ups, Downs
<1>7. /\ Cardinality(D) \in Nat /\ Cardinality(O) \in Nat
      /\ Cardinality(O) = 0 <=> O = {}
  <2>1. IsFiniteSet(j + 1 .. n)
    BY <1>1, FS_Interval
  <2>2. D \in SUBSET (j + 1 .. n) /\ O \in SUBSET (j + 1 .. n)
    BY DEF Downs, Over
  <2> HIDE DEF D, O
  <2>3. IsFiniteSet(D) /\ IsFiniteSet(O)
    BY <2>1, <2>2, FS_Subset
  <2> QED
    BY <2>3, FS_CardinalityType, FS_EmptySet
<1>8. \A i : i \in O <=> i \in j + 1 .. n /\ On(o, i) /\ doc[i].name = nm
  BY DEF Over
<1> HIDE DEF n, t, nm, o, top, U, D, O
<1>9. Closes(doc, j, k) <=> t.kind = "end" /\ t.name = nm /\ O = {}
  BY <1>5, <1>6, <1>7
<1>10. ASSUME Closes(doc, j, k)
       PROVE  ~On(at[k], j)
  <2> SUFFICES ASSUME On(at[k], j)
               PROVE  FALSE
    OBVIOUS
  <2>1. t.kind = "end" /\ t.name = nm /\ O = {}
    BY <1>9, <1>10
  <2>2. j # top /\ j <= top /\ On(o, top) /\ top \in 1 .. n
    BY <1>3, <1>4, <2>1
  <2>3. top \in j + 1 .. n
    BY <1>1, <2>2
  <2>4. top \in O
    BY <1>2, <1>8, <2>1, <2>2, <2>3
  <2> QED
    BY <2>1, <2>4
<1>11. ASSUME ~On(at[k], j)
       PROVE  Closes(doc, j, k)
  <2>1. t.kind = "end"
    BY <1>2, <1>3, <1>4, <1>11
  <2>2. j = top
    BY <1>3, <1>4, <1>11, <2>1
  <2>3. t.name = nm
    BY <1>2, <2>1, <2>2 DEF nm
  <2>4. O = {}
    <3> SUFFICES ASSUME NEW i \in O
                 PROVE  FALSE
      OBVIOUS
    <3>1. i \in j + 1 .. n /\ On(o, i)
      BY <1>8
    <3>2. i <= j
      BY <1>3, <2>1, <2>2, <3>1
    <3> QED
      BY <1>1, <3>1, <3>2
  <2> QED
    BY <1>9, <2>1, <2>3, <2>4
<1> QED
  BY <1>10, <1>11

\* What was open before a position that is later has been open since.
LEMMA OpenBefore ==
  ASSUME NEW doc, NEW at, Stacks(at, doc), NEW j \in 1 .. Len(doc), NEW n \in j .. Len(doc), On(at[n], j)
  PROVE  OpenSince(at, j, n)
<1> DEFINE N == n - j
           P == {m \in 0 .. N : On(at[n - m], j)}
<1>1. N \in Nat /\ j \in Nat /\ n \in Nat /\ Len(doc) \in Nat
  BY DEF Stacks
<1>2. 0 \in P
  <2>1. 0 \in 0 .. N /\ n - 0 = n
    BY <1>1
  <2> QED
    BY <2>1
<1>3. ASSUME NEW m \in 0 .. N - 1, m \in P
      PROVE  m + 1 \in P
  <2> DEFINE k == n - m
             i == k - 1
  <2>1. /\ k \in 1 .. Len(doc) /\ i \in Nat /\ i + 1 = k /\ k # j /\ n - (m + 1) = i
        /\ m + 1 \in 0 .. N /\ i \in 0 .. Len(doc)
    BY <1>1
  <2>2. On(at[k], j)
    BY <1>3
  <2>3. /\ Steady(at[i], doc, i) /\ doc[k].kind \in {"start", "end", "char"}
        /\ at[k] = Nested(at[i], doc, k) /\ (doc[k].kind = "end" => at[i] # <<>>)
    BY <2>1 DEF Stacks
  <2> HIDE DEF k, i
  <2> DEFINE o == at[i]
  <2>4. On(o, j)
    <3>1. Steady(o, doc, i) /\ doc[i + 1].kind \in {"start", "end", "char"}
      BY <2>1, <2>3
    <3> HIDE DEF o
    <3>2. LET u == doc[i + 1]
              x == Nested(o, doc, i + 1)
              e == o[Len(o)]
          IN  /\ u.kind = "start" /\ u.name \notin Void => \A l : On(x, l) <=> On(o, l) \/ l = i + 1
              /\ u.kind = "end" /\ o # <<>> => \A l : On(x, l) <=> On(o, l) /\ l # e
              /\ u.kind = "char" \/ (u.kind = "start" /\ u.name \in Void) => x = o
      BY <2>1, <3>1, OnAfter
    <3>3. at[k] = Nested(o, doc, k) /\ (doc[k].kind = "end" => o # <<>>)
      BY <2>3 DEF o
    <3> QED
      BY <2>1, <2>2, <2>3, <3>2, <3>3
  <2> QED
    BY <2>1, <2>4
<1> HIDE DEF P
<1>4. \A m \in 0 .. N : m \in P
  BY <1>1, <1>2, <1>3, Climbing
<1>5. ASSUME NEW i \in j .. n
      PROVE  On(at[i], j)
  <2>1. n - i \in 0 .. N /\ n - (n - i) = i
    BY <1>1
  <2>2. On(at[n - (n - i)], j)
    BY <1>4, <2>1 DEF P
  <2> QED
    BY <2>1, <2>2
<1> QED
  BY <1>5 DEF OpenSince

\* The first position, from j on, at which the element is not open any more.
LEMMA FirstOff ==
  ASSUME NEW doc, NEW at, Stacks(at, doc), NEW j \in 1 .. Len(doc), On(at[j], j),
         NEW n \in j .. Len(doc), ~On(at[n], j)
  PROVE  \E k \in j + 1 .. n : OpenSince(at, j, k - 1) /\ ~On(at[k], j)
<1> DEFINE S == {k \in j .. n : ~On(at[k], j)}
<1>1. n \in Nat /\ j \in Nat /\ Len(doc) \in Nat
  BY DEF Stacks
<1>2. S \subseteq Nat /\ S # {}
  <2>1. n \in S
    BY <1>1
  <2> QED
    BY <1>1, <2>1
<1>3. PICK k \in S : \A m \in S : k <= m
  BY <1>2, Least
<1>4. k \in j .. n /\ ~On(at[k], j) /\ k # j
  OBVIOUS
<1>5. k \in j + 1 .. n
  BY <1>1, <1>4
<1>6. ASSUME NEW m \in j .. k - 1
      PROVE  On(at[m], j)
  <2>1. m \in j .. n /\ ~(k <= m)
    BY <1>1, <1>5
  <2> QED
    BY <1>3, <2>1
<1> QED
  BY <1>4, <1>5, <1>6 DEF OpenSince

\* In a balanced document an element encloses what comes while it is open.
LEMMA EnclosingIs ==
  ASSUME NEW doc, NEW at, Stacks(at, doc), NEW i \in 1 .. Len(doc), doc[i].kind = "char",
         NEW j \in 1 .. i - 1
  PROVE  Encloses(doc, j, i) <=> On(at[i - 1], j)
<1> DEFINE N == Len(doc)
<1>1. /\ N \in Nat /\ i \in Nat /\ j \in Nat /\ j < i /\ i <= N /\ j \in 1 .. N /\ i - 1 \in j .. N
      /\ i - 1 \in 0 .. N /\ i \in j .. N /\ N \in i .. N /\ N \in j .. N /\ j - 1 \in 0 .. N
      /\ (j - 1) + 1 = j
  BY DEF Stacks
<1>2. \A n \in 0 .. N : \A k : On(at[n], k) => doc[k].kind = "start" /\ doc[k].name \notin Void
  BY DEF Stacks, Steady, On
<1>3. at[i] = at[i - 1]
  <2>1. at[i] = Nested(at[i - 1], doc, i)
    BY DEF Stacks
  <2> QED
    BY <2>1 DEF Nested
<1>4. ASSUME On(at[i - 1], j)
      PROVE  Encloses(doc, j, i)
  <2>1. OpenSince(at, j, i - 1) /\ OpenSince(at, j, i)
    BY <1>1, <1>3, <1>4, OpenBefore
  <2>2. On(at[j], j)
    BY <1>1, <2>1 DEF OpenSince
  <2>3. ~On(at[N], j)
    <3>1. at[N] = <<>>
      BY DEF Stacks
    <3> QED
      BY <3>1 DEF On
  <2>4. PICK k \in j + 1 .. N : OpenSince(at, j, k - 1) /\ ~On(at[k], j)
    BY <1>1, <2>2, <2>3, FirstOff
  <2>5. Closes(doc, j, k)
    BY <1>1, <2>4, ClosingIs
  <2>6. k \in i + 1 .. N
    <3>1. k \notin j .. i
      BY <2>1, <2>4 DEF OpenSince
    <3> QED
      BY <1>1, <3>1
  <2>7. ASSUME NEW m \in j + 1 .. i - 1
        PROVE  ~Closes(doc, j, m)
    <3>1. m \in j + 1 .. N /\ m \in j .. i - 1
      BY <1>1
    <3>2. OpenSince(at, j, m - 1)
      <4>1. \A l \in j .. m - 1 : l \in j .. i - 1
        BY <1>1
      <4> QED
        BY <2>1, <4>1 DEF OpenSince
    <3>3. On(at[m], j)
      BY <2>1, <3>1 DEF OpenSince
    <3> QED
      BY <1>1, <3>1, <3>2, <3>3, ClosingIs
  <2>8. doc[j].kind = "start" /\ doc[j].name \notin Void
    BY <1>1, <1>2, <1>4
  <2> QED
    BY <2>5, <2>6, <2>7, <2>8 DEF Encloses
<1>5. ASSUME Encloses(doc, j, i)
      PROVE  On(at[i - 1], j)
  <2> SUFFICES ASSUME ~On(at[i - 1], j)
               PROVE  FALSE
    OBVIOUS
  <2>1. On(at[j], j)
    <3>1. doc[j].kind = "start" /\ doc[j].name \notin Void
      BY <1>5 DEF Encloses
    <3>2. at[j] = Nested(at[j - 1], doc, j) /\ Steady(at[j - 1], doc, j - 1)
      BY <1>1 DEF Stacks
    <3>3. at[j] = Append(at[j - 1], j) /\ at[j - 1] \in Seq(Nat)
      BY <3>1, <3>2 DEF Nested, Steady
    <3>4. Len(at[j - 1]) + 1 \in DOMAIN at[j] /\ at[j][Len(at[j - 1]) + 1] = j
      BY <1>1, <3>3
    <3> QED
      BY <3>4 DEF On
  <2>2. PICK k \in j + 1 .. i - 1 : OpenSince(at, j, k - 1) /\ ~On(at[k], j)
    BY <1>1, <2>1, FirstOff
  <2>3. k \in j + 1 .. N
    BY <1>1
  <2>4. Closes(doc, j, k)
    BY <1>1, <2>2, <2>3, ClosingIs
  <2> QED
    BY <1>5, <2>4 DEF Encloses
<1> QED
  BY <1>4, <1>5

-----------------------------------------------------------------------------
(* The text that comes out. *)

\* What a piece adds to it.
LEMMA TextPiece ==
  ASSUME NEW p \in Passes, NEW T, NEW t \in T, Named(t), NEW s \in Seq(Pieces(p, T))
  PROVE  TextOf(s \o Piece(p, t)) =
           IF t.kind = "char" /\ t.c # Padding THEN Append(TextOf(s), t.c) ELSE TextOf(s)
<1> DEFINE x == Piece(p, t)
           V == Pieces(p, T)
           shown == t.kind = "char" /\ t.c # Padding
<1>1. /\ x # <<>> => x = <<x[1]>> /\ x[1] \in V
      /\ \/ x = <<>>
         \/ t.kind = "char" /\ x = <<Char(t.c)>>
         \/ t.kind = "start" /\ \E attrs : x = <<StartTag(OutName(p, t.name), attrs)>>
         \/ t.kind = "end" /\ x = <<EndTag(OutName(p, t.name))>>
  BY PieceIs, PieceOf
<1>2. t.kind = "char" => x = IF Shows(p, t.c) THEN <<Char(t.c)>> ELSE <<>>
  BY DEF Piece
<1>3. /\ \A c : Char(c).kind = "char" /\ Char(c).c = c
      /\ \A n, attrs : StartTag(n, attrs).kind = "start"
      /\ \A n : EndTag(n).kind = "end"
  BY DEF Char, StartTag, EndTag
<1> HIDE DEF x, V
<1>4. CASE x = <<>>
  <2>1. ~shown
    <3>1. shown => Shows(p, t.c)
      BY DEF Shows
    <3>2. <<Char(t.c)>> # <<>>
      OBVIOUS
    <3> QED
      BY <1>2, <1>4, <3>1, <3>2
  <2>2. s \o x = s
    BY <1>4
  <2> QED
    BY <2>1, <2>2 DEF x
<1>5. CASE x # <<>>
  <2> DEFINE y == x[1]
  <2>1. x = <<y>> /\ y \in V
    BY <1>1, <1>5
  <2>2. \A z : <<z>>[1] = z
    OBVIOUS
  <2>3. \/ t.kind = "char" /\ y = Char(t.c)
        \/ t.kind = "start" /\ \E attrs : y = StartTag(OutName(p, t.name), attrs)
        \/ t.kind = "end" /\ y = EndTag(OutName(p, t.name))
    <3>1. \/ t.kind = "char" /\ x = <<Char(t.c)>>
          \/ t.kind = "start" /\ \E attrs : x = <<StartTag(OutName(p, t.name), attrs)>>
          \/ t.kind = "end" /\ x = <<EndTag(OutName(p, t.name))>>
      BY <1>1, <1>5
    <3> QED
      BY <2>2, <3>1
  <2> HIDE DEF y
  <2>4. s \o x = Append(s, y)
    BY <2>1 DEF V
  <2>5. TextOf(Append(s, y)) = IF y.kind = "char" /\ y.c # Padding THEN Append(TextOf(s), y.c) ELSE TextOf(s)
    BY <2>1, TextOn DEF V
  <2>6. CASE t.kind = "char" /\ y = Char(t.c)
    BY <1>3, <2>4, <2>5, <2>6 DEF x
  <2>7. CASE t.kind = "start" /\ \E attrs : y = StartTag(OutName(p, t.name), attrs)
    <3>1. y.kind = "start"
      BY <1>3, <2>7
    <3> QED
      BY <2>4, <2>5, <2>7, <3>1 DEF x
  <2>8. CASE t.kind = "end" /\ y = EndTag(OutName(p, t.name))
    <3>1. y.kind = "end"
      BY <1>3, <2>8
    <3> QED
      BY <2>4, <2>5, <2>8, <3>1 DEF x
  <2> QED
    BY <2>3, <2>6, <2>7, <2>8
<1> QED
  BY <1>4, <1>5

\* A pass drops what is in an open element it drops.
LEMMA HidIs ==
  ASSUME NEW p, NEW doc, NEW o
  PROVE  Hid(p, NamesOf(o, doc)) <=> \E j : On(o, j) /\ Drops(p, doc[j].name)
<1> DEFINE w == NamesOf(o, doc)
<1>1. DOMAIN w = DOMAIN o /\ \A i \in DOMAIN o : w[i] = doc[o[i]].name
  BY DEF NamesOf
<1> HIDE DEF w
<1> QED
  BY <1>1 DEF Hid, On, w

\* A balanced document and its open elements.
LEMMA StacksIs ==
  ASSUME NEW T, NEW S, Rules(T, S), NEW doc \in Seq(T), Balanced(doc)
  PROVE  Stacks(OpenAfter(doc), doc)
<1> DEFINE N == Len(doc)
           at == OpenAfter(doc)
<1>1. N \in Nat /\ DOMAIN doc = 1 .. N /\ \A n \in 1 .. N : doc[n] \in T
  OBVIOUS
<1>2. /\ at[0] = <<>> /\ \A n \in 1 .. N : at[n] = Nested(at[n - 1], doc, n)
      /\ \A n \in 0 .. N : Steady(at[n], doc, n)
  BY <1>1, Opens
<1>3. \A n \in 1 .. N : doc[n].kind \in {"start", "end", "char"}
  BY <1>1 DEF Rules, Named
<1>4. /\ at[N] = <<>>
      /\ \A n \in 1 .. N : doc[n].kind = "end" =>
           at[n - 1] # <<>> /\ doc[n].name = doc[at[n - 1][Len(at[n - 1])]].name
  BY <1>1 DEF Balanced
<1> HIDE DEF at
<1>5. Stacks(at, doc)
  BY <1>1, <1>2, <1>3, <1>4 DEF Stacks
<1> QED
  BY <1>5 DEF at

\* Of a balanced document it is that which no removed element encloses.
LEMMA TextIs ==
  ASSUME NEW p \in Passes, NEW T, NEW S, Rules(T, S), NEW doc \in Seq(T), Balanced(doc),
         NEW gone, \A name : name \notin Void => (name \in gone <=> Drops(p, name))
  PROVE  TextOf(OneShot(p, doc).out) = Visible(doc, gone)
<1> DEFINE N == Len(doc)
           at == OpenAfter(doc)
           L == [n \in 0 .. N |-> NamesOf(at[n], doc)]
           X(n) == After(p, doc, n).out
           V == Pieces(p, T)
           C == {t.c : t \in T}
           inside(i) == \E j \in 1 .. i - 1 : Encloses(doc, j, i) /\ doc[j].name \in gone
           new(i) == IF doc[i].kind = "char" /\ doc[i].c # Padding /\ ~inside(i) THEN <<doc[i].c>> ELSE <<>>
           ss == [i \in 1 .. N |-> new(i)]
<1>1. N \in Nat /\ DOMAIN doc = 1 .. N /\ \A n \in 1 .. N : doc[n] \in T /\ n - 1 \in 0 .. N /\ n \in 0 .. N
  OBVIOUS
<1>2. Stacks(at, doc)
  BY StacksIs
<1>3. NestsBy(L, doc, <<>>, S)
  BY BalancedNests
<1>4. \A t \in T : t.kind \in {"start", "end", "char"} /\ Named(t)
  BY DEF Rules, Named
<1>5. X(0) = <<>> /\ X(N) = OneShot(p, doc).out
  <2>1. /\ After(p, doc, 0) = Rec(<<>>, <<>>, FALSE)
        /\ After(p, doc, N) = OneShot(p, doc)
    BY <1>4, Stepwise
  <2>2. \A o, x, b : Rec(o, x, b).out = x
    BY Records
  <2>3. Rec(<<>>, <<>>, FALSE).out = <<>>
    BY <2>2, Zenon
  <2> QED
    BY <2>1, <2>3
<1>6. /\ \A n \in 0 .. N : X(n) \in Seq(V)
      /\ \A n \in 1 .. N : X(n) = IF Hid(p, L[n - 1]) THEN X(n - 1) ELSE X(n - 1) \o Piece(p, doc[n])
  <2> HIDE DEF L
  <2> QED
    BY <1>3, Along
<1>7. \A n \in 1 .. N : L[n - 1] = NamesOf(at[n - 1], doc)
  BY <1>1
<1>8. ss \in Seq(Seq(C)) /\ Len(ss) = N /\ \A n \in 1 .. N : ss[n] = new(n)
  <2>1. ASSUME NEW n \in 1 .. N
        PROVE  new(n) \in Seq(C)
    <3>1. doc[n].c \in C
      BY <1>1
    <3> HIDE DEF C, inside
    <3> QED
      BY <3>1, Small
  <2> HIDE DEF C, new
  <2> QED
    BY <1>1, <2>1
<1>9. Visible(doc, gone) = FlattenSeq(ss)
  BY <1>1 DEF Visible
<1> HIDE DEF N, at, L, X, V, C, ss, inside, new
<1>10. PICK f \in [0 .. N -> Seq(C)] :
         /\ f[0] = <<>> /\ f[N] = FlattenSeq(ss)
         /\ \A n \in 1 .. N : f[n] = f[n - 1] \o ss[n]
  <2> DEFINE W == Seq(C)
             R(g, M) == /\ g[0] = <<>> /\ g[M] = FlattenSeq(ss)
                        /\ \A n \in 1 .. M : g[n] = g[n - 1] \o ss[n]
  <2>1. \E g \in [0 .. Len(ss) -> W] : R(g, Len(ss))
    BY <1>8, Flat
  <2> HIDE DEF R, W
  <2>2. \E g \in [0 .. N -> W] : R(g, N)
    BY <1>8, <2>1
  <2> QED
    BY <2>2 DEF R, W
<1> DEFINE Pn == {n \in 0 .. N : TextOf(X(n)) = f[n]}
<1>11. 0 \in Pn
  <2>1. TextOf(<<>>) = <<>>
    <3>1. <<>> \in Seq({1}) /\ 1 \in {1}
      OBVIOUS
    <3> QED
      BY <3>1, TextOn
  <2> QED
    BY <1>1, <1>5, <1>10, <2>1
<1>12. ASSUME NEW n \in 1 .. N, n - 1 \in Pn
       PROVE  TextOf(X(n)) = f[n]
  <2> DEFINE t == doc[n]
             s == X(n - 1)
             q == TextOf(s)
  <2>1. q = f[n - 1] /\ f[n - 1] \in Seq(C) /\ f[n] = f[n - 1] \o new(n)
    BY <1>1, <1>8, <1>10, <1>12
  <2>2. t \in T /\ Named(t) /\ s \in Seq(V)
    BY <1>1, <1>4, <1>6
  <2>3. t.kind = "char" => (inside(n) <=> Hid(p, L[n - 1]))
    <3> SUFFICES ASSUME t.kind = "char"
                 PROVE  inside(n) <=> Hid(p, L[n - 1])
      OBVIOUS
    <3> DEFINE o == at[n - 1]
    <3>1. Steady(o, doc, n - 1)
      BY <1>1, <1>2 DEF Stacks, N
    <3>2. \A j : On(o, j) => j \in 1 .. n - 1 /\ doc[j].name \notin Void
      BY <3>1 DEF Steady, On
    <3>3. \A j \in 1 .. n - 1 : Encloses(doc, j, n) <=> On(o, j)
      BY <1>2, EnclosingIs DEF N
    <3>4. Hid(p, L[n - 1]) <=> \E j : On(o, j) /\ Drops(p, doc[j].name)
      BY <1>7, HidIs
    <3> HIDE DEF o
    <3> QED
      BY <3>2, <3>3, <3>4 DEF inside
  <2>4. X(n) = IF Hid(p, L[n - 1]) THEN s ELSE s \o Piece(p, t)
    BY <1>6
  <2>5. TextOf(s \o Piece(p, t)) = IF t.kind = "char" /\ t.c # Padding THEN Append(q, t.c) ELSE q
    <3>1. t \in T /\ Named(t) /\ s \in Seq(Pieces(p, T))
      BY <2>2 DEF V
    <3> HIDE DEF t, s
    <3>2. TextOf(s \o Piece(p, t)) =
            IF t.kind = "char" /\ t.c # Padding THEN Append(TextOf(s), t.c) ELSE TextOf(s)
      BY <3>1, TextPiece
    <3> QED
      BY <3>2
  <2>6. new(n) = IF t.kind = "char" /\ t.c # Padding /\ ~Hid(p, L[n - 1]) THEN <<t.c>> ELSE <<>>
    BY <2>3 DEF new
  <2>7. /\ q \o <<>> = q
        /\ t.kind = "char" => q \o <<t.c>> = Append(q, t.c)
    <3>1. t.c \in C
      BY <2>2 DEF C
    <3> HIDE DEF q, t
    <3> QED
      BY <2>1, <3>1
  <2> DEFINE h == Hid(p, L[n - 1])
             k == t.kind = "char" /\ t.c # Padding
  <2>8. CASE h
    BY <2>1, <2>4, <2>6, <2>7, <2>8
  <2>9. CASE ~h
    <3>1. TextOf(X(n)) = TextOf(s \o Piece(p, t))
      BY <2>4, <2>9
    <3>2. CASE k
      BY <2>1, <2>5, <2>6, <2>7, <2>9, <3>1, <3>2
    <3>3. CASE ~k
      BY <2>1, <2>5, <2>6, <2>7, <2>9, <3>1, <3>3
    <3> QED
      BY <3>2, <3>3
  <2> QED
    BY <2>8, <2>9
<1>13. ASSUME NEW n \in 0 .. N - 1, n \in Pn
       PROVE  n + 1 \in Pn
  <2>1. n + 1 \in 1 .. N /\ (n + 1) - 1 = n /\ n + 1 \in 0 .. N
    BY <1>1
  <2>2. (n + 1) - 1 \in Pn
    BY <1>13, <2>1
  <2> HIDE DEF Pn
  <2>3. TextOf(X(n + 1)) = f[n + 1]
    BY <1>12, <2>1, <2>2
  <2> QED
    BY <2>1, <2>3 DEF Pn
<1> HIDE DEF Pn
<1>14. \A n \in 0 .. N : n \in Pn
  BY <1>1, <1>11, <1>13, Climbing
<1>15. TextOf(X(N)) = f[N]
  <2>1. N \in 0 .. N
    BY <1>1
  <2> QED
    BY <1>14, <2>1 DEF Pn
<1> QED
  BY <1>5, <1>9, <1>10, <1>15

-----------------------------------------------------------------------------
(* What comes out of the passes. *)

\* The display sanitizer leaves its own tokens as they are.
LEMMA DisplayedStay ==
  ASSUME NEW T, \A t \in T : Token(t)
  PROVE  \A y \in Pieces("display", T) : Stays("display", y)
<1> SUFFICES ASSUME NEW t \in T, Piece("display", t) # <<>>
             PROVE  Stays("display", Piece("display", t)[1])
  BY DEF Pieces
<1> DEFINE x == Piece("display", t)
           y == x[1]
           n == t.name
<1>1. Token(t) /\ t.kind \in {"start", "end", "char"} /\ (t.kind # "char" => n # Gone)
  BY DEF Token
<1>2. \A z : <<z>>[1] = z
  OBVIOUS
<1>3. Keeps("display", n) <=> n \notin Dangerous \cup {"img"}
  BY DEF Keeps, Drops
<1>4. CASE t.kind = "char"
  <2>1. Shows("display", t.c) /\ x = <<Char(t.c)>>
    BY <1>4 DEF Piece
  <2>2. y = Char(t.c)
    BY <1>2, <2>1
  <2> HIDE DEF y
  <2>3. y.kind = "char" /\ y.c = t.c
    BY <2>2 DEF Char
  <2>4. Stays("display", y)
    BY <2>1, <2>2, <2>3 DEF Stays
  <2> QED
    BY <2>4 DEF y
<1>5. CASE t.kind = "start"
  <2>1. x = Handler("display", t).start
    BY <1>5 DEF Piece
  <2>2. n \notin Dangerous \cup {"img"}
    <3>1. "display" \in Passes
      BY DEF Passes
    <3> QED
      BY <1>3, <2>1, <3>1, HandlerIs
  <2>3. x = <<Displayed(t)>> /\ Stays("display", Displayed(t))
    BY <1>1, <1>5, <2>1, <2>2, DisplayedStays
  <2> HIDE DEF x
  <2> QED
    BY <1>2, <2>3 DEF x
<1>6. CASE t.kind = "end"
  <2>1. x = <<EndTag(n)>>
    BY <1>6 DEF Piece, OutName
  <2>2. y = EndTag(n)
    BY <1>2, <2>1
  <2> HIDE DEF y
  <2>3. y.kind = "end" /\ y.name = n
    BY <2>2 DEF EndTag
  <2>4. Stays("display", y)
    BY <1>1, <1>6, <2>2, <2>3 DEF Stays
  <2> QED
    BY <2>4 DEF y
<1> QED
  BY <1>1, <1>4, <1>5, <1>6

\* A second pass finds nothing to change.
LEMMA DisplayTwice ==
  ASSUME NEW T, \A t \in T : Token(t), NEW s \in Seq(Pieces("display", T))
  PROVE  OneShot("display", s).out = s
BY DisplayedStay, LeftAlone

\* A token of prose.
Prose(t) ==
  /\ t.kind # "char" => t.name \in READER_KEEP \cup {"html", "body"}
  /\ t.kind = "start" /\ t.name \in READER_KEEP => DOMAIN t.attrs \subseteq Allowed(t.name)

\* The reader makes such tokens, and html2text finds all of their text.
LEMMA ReaderTokens ==
  ASSUME NEW T, \A t \in T : Named(t)
  PROVE  \A y \in Pieces("reader", T) : Prose(y) /\ Stays("text", y)
<1> SUFFICES ASSUME NEW t \in T, Piece("reader", t) # <<>>
             PROVE  LET y == Piece("reader", t)[1] IN Prose(y) /\ Stays("text", y)
  BY DEF Pieces
<1> DEFINE x == Piece("reader", t)
           y == x[1]
           n == t.name
           R == READER_KEEP \cup {"html", "body"}
<1>1. t.kind \in {"start", "end", "char"} /\ (t.kind # "char" => n # Gone)
  BY DEF Named
<1>2. \A z : <<z>>[1] = z
  OBVIOUS
<1>3. Keeps("reader", n) => OutName("reader", n) \in R
  BY DEF Keeps, OutName, READER_KEEP
<1>4. \A name \in R : name \notin {"script", "style", "head"} /\ name # Gone
  BY DEF READER_KEEP, Gone
<1>5. CASE t.kind = "char"
  <2>1. x = <<Char(t.c)>>
    BY <1>5 DEF Piece
  <2>2. y = Char(t.c)
    BY <1>2, <2>1
  <2> HIDE DEF y
  <2>3. y.kind = "char" /\ y.c = t.c
    BY <2>2 DEF Char
  <2>4. Prose(y) /\ Stays("text", y)
    BY <2>2, <2>3 DEF Prose, Stays, Shows
  <2> QED
    BY <2>4 DEF y
<1>6. CASE t.kind = "start"
  <2>1. x = Handler("reader", t).start
    BY <1>6 DEF Piece
  <2>2. Keeps("reader", n)
    <3>1. "reader" \in Passes
      BY DEF Passes
    <3> QED
      BY <2>1, <3>1, HandlerIs
  <2>3. \E name \in R : \E attrs :
        /\ x = <<StartTag(name, attrs)>>
        /\ name \in READER_KEEP => DOMAIN attrs \subseteq Allowed(name)
    <3>4. \A name, attrs : Kept(name, attrs).start = <<StartTag(name, attrs)>>
      BY DEF Kept
    <3>5. Handler("reader", t) = reader(t)
      BY DEF Handler
    <3>1. CASE n \in {"td", "th"}
      <4>1. n \notin ReaderGone
        BY <3>1 DEF ReaderGone, Dangerous
      <4>2. reader(t) = Renamed(Kept("p", NoAttrs), "p")
        <5>1. ~(n \in TableParts \ {"td", "th"}) /\ ~(n \in READER_KEEP) /\ ~(n \in {"html", "body"})
          BY <3>1 DEF READER_KEEP
        <5> QED
          BY <3>1, <4>1, <5>1 DEF reader
      <4>3. Renamed(Kept("p", NoAttrs), "p").start = <<StartTag("p", NoAttrs)>>
        BY DEF Renamed, Kept
      <4>4. "p" \in R /\ DOMAIN NoAttrs \subseteq Allowed("p")
        BY DEF READER_KEEP, NoAttrs
      <4> QED
        BY <2>1, <3>5, <4>2, <4>3, <4>4
    <3>2. CASE n \in READER_KEEP
      <4> DEFINE a == Only(Hygiene(t), Allowed(n))
      <4>1. /\ n \notin ReaderGone /\ n \notin {"td", "th"} /\ n \notin TableParts
            /\ n \notin {"html", "body"}
        BY <3>2 DEF ReaderGone, Dangerous, READER_KEEP, TableParts
      <4>2. reader(t) = Kept(n, a)
        BY <3>2, <4>1 DEF reader
      <4>3. DOMAIN a \subseteq Allowed(n)
        BY DEF Only
      <4> HIDE DEF a
      <4> QED
        BY <2>1, <3>4, <3>5, <3>2, <4>2, <4>3
    <3>3. CASE n \in {"html", "body"}
      <4>1. /\ n \notin ReaderGone /\ n \notin {"td", "th"} /\ n \notin TableParts
            /\ n \notin READER_KEEP
        BY <3>3 DEF ReaderGone, Dangerous, READER_KEEP, TableParts
      <4>2. reader(t) = Kept(n, t.attrs)
        BY <3>3, <4>1 DEF reader
      <4> DEFINE a == t.attrs
      <4>3. x = <<StartTag(n, a)>>
        BY <2>1, <3>4, <3>5, <4>2
      <4>4. n \in R /\ n \notin READER_KEEP
        BY <3>3, <4>1
      <4> HIDE DEF a, x, n, R
      <4> QED
        BY <4>3, <4>4
    <3> QED
      BY <2>2, <3>1, <3>2, <3>3 DEF Keeps
  <2>4. PICK name \in R : \E attrs :
        /\ x = <<StartTag(name, attrs)>>
        /\ name \in READER_KEEP => DOMAIN attrs \subseteq Allowed(name)
    BY <2>3
  <2>5. PICK attrs : /\ x = <<StartTag(name, attrs)>>
                     /\ name \in READER_KEEP => DOMAIN attrs \subseteq Allowed(name)
    BY <2>4
  <2>6. y = StartTag(name, attrs)
    BY <1>2, <2>5
  <2> HIDE DEF y, x, R
  <2>7. y.kind = "start" /\ y.name = name /\ y.attrs = attrs
    BY <2>6 DEF StartTag
  <2>8. Prose(y)
    BY <2>5, <2>7 DEF Prose, R
  <2>9. Handler("text", y) = Kept(y.name, y.attrs)
    <3>1. y.name \notin {"script", "style", "head"}
      BY <1>4, <2>7
    <3> QED
      BY <3>1 DEF Handler, text, TextGone
  <2>10. Stays("text", y)
    <3>1. Kept(y.name, y.attrs).start = <<y>> /\ ~Kept(y.name, y.attrs).drops /\ Kept(y.name, y.attrs).end = AsRead
      BY <2>6, <2>7 DEF Kept
    <3> QED
      BY <2>7, <2>9, <3>1 DEF Stays
  <2> QED
    BY <2>8, <2>10 DEF y, x
<1>7. CASE t.kind = "end"
  <2>1. Keeps("reader", n) /\ x = <<EndTag(OutName("reader", n))>>
    BY <1>7 DEF Piece
  <2>2. y = EndTag(OutName("reader", n))
    BY <1>2, <2>1
  <2> HIDE DEF y
  <2>3. y.kind = "end" /\ y.name = OutName("reader", n)
    BY <2>2 DEF EndTag
  <2>4. y.name \in R /\ y.name # Gone
    BY <1>3, <1>4, <2>1, <2>3
  <2>5. Prose(y) /\ Stays("text", y)
    BY <2>2, <2>3, <2>4 DEF Prose, Stays
  <2> QED
    BY <2>5 DEF y
<1> QED
  BY <1>1, <1>5, <1>6, <1>7

\* html2text keeps the text.
LEMMA TextOfChars ==
  ASSUME NEW T, NEW s \in Seq(T)
  PROVE  TextOf(Chars(s)) = TextOf(s)
<1> DEFINE X == {t \in T : t.kind # "char"}
<1>1. Chars(s) = Without(s, X)
  <2>1. \A i \in DOMAIN s : s[i] \in T
    OBVIOUS
  <2>2. [i \in DOMAIN s |-> IF s[i].kind = "char" THEN <<s[i]>> ELSE <<>>]
          = [i \in DOMAIN s |-> IF s[i] \in X THEN <<>> ELSE <<s[i]>>]
    BY <2>1
  <2> QED
    BY <2>2 DEF Chars, Without
<1>2. \A x \in X : ~(x.kind = "char" /\ x.c # Padding)
  OBVIOUS
<1> HIDE DEF X
<1>3. TextOf(Without(s, X)) = TextOf(s)
  BY <1>2, TextWithout
<1> QED
  BY <1>1, <1>3

\* Of a document that nests the reader makes prose.
LEMMA ReaderMakesProse ==
  ASSUME NEW T, NEW S, Rules(T, S), NEW d \in Seq(T), Nests(d, <<>>, S)
  PROVE  LET r == OneShot("reader", d).out
         IN  /\ Balanced(r) /\ \A i \in DOMAIN r : Prose(r[i])
             /\ TextOf(to_plain_text(r)) = TextOf(r)
             /\ TextOf(NoPadding(r)) = TextOf(r)
<1> DEFINE r == OneShot("reader", d).out
           V == Pieces("reader", T)
<1>0. "reader" \in Passes
  BY DEF Passes
<1>1. \A t \in T : Named(t) /\ t.kind \in {"start", "end", "char"}
  BY DEF Rules, Named
<1>2. PICK L : NestsBy(L, d, <<>>, S)
  BY DEF Nests
<1>3. r \in Seq(V)
  BY <1>0, <1>2, Along
<1>4. Balanced(r)
  <2> DEFINE N == Len(d)
  <2>1. N \in Nat /\ N \in 0 .. N
    OBVIOUS
  <2>2. Nests(After("reader", d, N).out, Shown("reader", L[N]), OutNames("reader", S))
    BY <1>0, <1>2, <2>1, OutNests
  <2>3. After("reader", d, N) = OneShot("reader", d)
    BY <1>1, Stepwise
  <2>4. L[N] = <<>>
    BY <1>2 DEF NestsBy
  <2>5. Shown("reader", <<>>) = <<>>
    <3>1. <<>> \in Seq(S)
      OBVIOUS
    <3> QED
      BY <3>1, ShownOn
  <2>6. Rules(V, OutNames("reader", S))
    BY <1>0, RulesOut
  <2> HIDE DEF r, V, N
  <2>7. Nests(r, <<>>, OutNames("reader", S))
    BY <2>2, <2>3, <2>4, <2>5 DEF r
  <2> QED
    BY <1>3, <2>6, <2>7, NestsBalanced
<1>5. \A y \in V : Prose(y) /\ Stays("text", y)
  BY <1>1, ReaderTokens
<1> HIDE DEF r, V
<1>6. \A i \in DOMAIN r : Prose(r[i])
  BY <1>3, <1>5
<1>7. TextOf(to_plain_text(r)) = TextOf(r)
  <2>1. OneShot("text", r).out = r
    BY <1>3, <1>5, LeftAlone
  <2>2. TextOf(Chars(r)) = TextOf(r)
    BY <1>3, TextOfChars
  <2> QED
    BY <2>1, <2>2 DEF to_plain_text
<1>8. TextOf(NoPadding(r)) = TextOf(r)
  BY <1>3, TextPadding
<1> QED
  BY <1>4, <1>6, <1>7, <1>8 DEF r

-----------------------------------------------------------------------------
(* Any document, whether it nests or not. *)

\* What may come out of one: an end tag need not have an element.
Shreds(p, T) == Pieces(p, T) \cup {EndTag(n) : n \in {t.name : t \in {u \in T : u.kind = "end"}} \cup {"p"}}

\* One token more, or none.
LEMMA PutIn ==
  ASSUME NEW V, NEW s \in Seq(V), NEW open
  PROVE  \A x \in Seq(V) : Put(open, s, x) \in Seq(V)
BY DEF Put

\* Nothing else comes out.
LEMMA OnlyShreds ==
  ASSUME NEW p \in Passes, NEW T, \A t \in T : Named(t), NEW d \in Seq(T)
  PROVE  OneShot(p, d).out \in Seq(Shreds(p, T))
<1> DEFINE N == Len(d)
           R(n) == After(p, d, n)
           V == Shreds(p, T)
           P == {n \in 0 .. N : R(n).out \in Seq(V)}
<1>1. N \in Nat /\ \A n \in 1 .. N : d[n] \in T
  OBVIOUS
<1>2. \A t \in T : t.kind \in {"start", "end", "char"}
  BY DEF Named
<1>3. /\ R(0) = Rec(<<>>, <<>>, FALSE) /\ R(N) = OneShot(p, d)
      /\ \A n \in 0 .. N : Between(R(n))
      /\ \A n \in 1 .. N : R(n) = OnToken(p, R(n - 1), d[n])
  BY <1>2, Stepwise
<1>4. /\ Pieces(p, T) \subseteq V /\ EndTag("p") \in V
      /\ \A t \in T : t.kind = "end" => EndTag(t.name) \in V
  BY DEF Shreds
<1> HIDE DEF R, N, V
<1>5. 0 \in P
  <2>1. \A o, x, b : Rec(o, x, b).out = x
    BY Records
  <2>2. Rec(<<>>, <<>>, FALSE).out = <<>>
    BY <2>1, Zenon
  <2>3. <<>> \in Seq(V) /\ 0 \in 0 .. N
    BY <1>1
  <2> QED
    BY <1>3, <2>2, <2>3
<1>6. ASSUME NEW rw, Between(rw), rw.out \in Seq(V), NEW t \in T
      PROVE  OnToken(p, rw, t).out \in Seq(V)
  <2> DEFINE s == rw.out
             open == rw.open
             new == OnToken(p, rw, t)
  <2>1. Piece(p, t) \in Seq(V)
    <3> DEFINE W == Pieces(p, T)
               x == Piece(p, t)
    <3>1. x \in Seq(W) /\ W \subseteq V
      BY <1>4, PieceIs
    <3> HIDE DEF W, x
    <3>2. x \in Seq(V)
      BY <3>1
    <3> QED
      BY <3>2 DEF x
  <2>2. s \in Seq(V)
    BY <1>6
  <2>3. CASE t.kind = "char"
    <3>1. new.out = IF Shows(p, t.c) THEN Put(open, s, <<Char(t.c)>>) ELSE s
      BY <1>6, <2>3, CharDoes
    <3>2. Shows(p, t.c) => Piece(p, t) = <<Char(t.c)>>
      BY <2>3 DEF Piece
    <3> HIDE DEF s, open, new
    <3>3. new.out \in Seq(V)
      BY <2>1, <2>2, <3>1, <3>2, PutIn
    <3> QED
      BY <3>3 DEF new
  <2>4. CASE t.kind = "start"
    <3>1. new.out = Put(open, s, Handler(p, t).start)
      BY <1>6, <2>4, StartDoes
    <3>2. Piece(p, t) = Handler(p, t).start
      BY <2>4 DEF Piece
    <3> HIDE DEF s, open, new
    <3>3. new.out \in Seq(V)
      BY <2>1, <2>2, <3>1, <3>2, PutIn
    <3> QED
      BY <3>3 DEF new
  <2>5. CASE t.kind = "end"
    <3> DEFINE m == LastOf(open, t.name)
               named == EndName(EndsFrom(open, m), t.name)
               under == SubSeq(open, 1, m - 1)
    <3>1. new.out = EndedOut(open, s, m, t.name)
      BY <1>6, <2>5, EndDoes
    <3>2. named \in {Gone, "p", t.name}
      BY DEF EndName
    <3> HIDE DEF s, open, new, m, named, under
    <3>3. EndedOut(open, s, m, t.name) = CASE m = 0                 -> Put(open, s, <<EndTag(t.name)>>)
                                           [] m # 0 /\ named = Gone -> s
                                           [] m # 0 /\ named # Gone -> Put(under, s, <<EndTag(named)>>)
      BY DEF EndedOut, named, under
    <3>4. /\ <<EndTag(t.name)>> \in Seq(V)
          /\ named # Gone => <<EndTag(named)>> \in Seq(V)
      BY <1>4, <2>5, <3>2, Small
    <3>5. new.out \in Seq(V)
      <4>1. \A o : \A x \in Seq(V) : Put(o, s, x) \in Seq(V)
        BY <2>2, PutIn
      <4> QED
        BY <2>2, <3>1, <3>3, <3>4, <4>1
    <3> QED
      BY <3>5 DEF new
  <2> QED
    BY <1>2, <2>3, <2>4, <2>5
<1>7. ASSUME NEW n \in 0 .. N - 1, n \in P
      PROVE  n + 1 \in P
  <2>1. n + 1 \in 1 .. N /\ (n + 1) - 1 = n /\ n + 1 \in 0 .. N /\ n \in 0 .. N
    BY <1>1
  <2>2. R(n + 1) = OnToken(p, R((n + 1) - 1), d[n + 1])
    BY <1>3, <2>1
  <2>3. Between(R(n)) /\ R(n).out \in Seq(V) /\ d[n + 1] \in T
    BY <1>1, <1>3, <1>7, <2>1
  <2>4. R(n + 1).out \in Seq(V)
    BY <1>6, <2>1, <2>2, <2>3
  <2> QED
    BY <2>1, <2>4
<1> HIDE DEF P
<1>8. \A n \in 0 .. N : n \in P
  BY <1>1, <1>5, <1>7, Climbing
<1>9. R(N).out \in Seq(V)
  <2>1. N \in 0 .. N
    BY <1>1
  <2> QED
    BY <1>8, <2>1 DEF P
<1> QED
  BY <1>3, <1>9 DEF V

\* The tokens of the display sanitizer stay in a second pass, those of the
\* reader in html2text.
LEMMA ShredsStay ==
  ASSUME NEW T
  PROVE  /\ (\A t \in T : Token(t)) =>
              \A y \in Shreds("display", T) : Stays("display", y) /\ Named(y)
         /\ (\A t \in T : Named(t)) => \A y \in Shreds("reader", T) : Stays("text", y)
<1>1. ASSUME NEW p, NEW n, n # Gone
      PROVE  Stays(p, EndTag(n)) /\ Named(EndTag(n))
  <2> DEFINE y == EndTag(n)
  <2>1. y.kind = "end" /\ y.name = n /\ y = EndTag(n)
    BY DEF EndTag
  <2> HIDE DEF y
  <2>2. Stays(p, y) /\ Named(y)
    BY <1>1, <2>1 DEF Stays, Named
  <2> QED
    BY <2>2 DEF y
<1>2. ASSUME NEW p, \A t \in T : Named(t)
      PROVE  \A y \in Shreds(p, T) \ Pieces(p, T) : Stays("display", y) /\ Stays("text", y) /\ Named(y)
  <2>1. \A n \in {t.name : t \in {u \in T : u.kind = "end"}} \cup {"p"} : n # Gone
    BY <1>2 DEF Named, Gone
  <2> QED
    BY <1>1, <2>1 DEF Shreds
<1>3. ASSUME \A t \in T : Token(t)
      PROVE  \A y \in Shreds("display", T) : Stays("display", y) /\ Named(y)
  <2> DEFINE S == {t.name : t \in T}
  <2>1. (\A t \in T : Named(t)) /\ Rules(T, S)
    BY <1>3 DEF Token, Named, Rules
  <2> HIDE DEF S
  <2>2. \A y \in Pieces("display", T) : Named(y)
    <3>1. "display" \in Passes
      BY DEF Passes
    <3>2. Rules(Pieces("display", T), OutNames("display", S))
      BY <2>1, <3>1, RulesOut
    <3> QED
      BY <3>2 DEF Rules
  <2>3. \A y \in Pieces("display", T) : Stays("display", y)
    BY <1>3, DisplayedStay
  <2> QED
    BY <1>2, <2>1, <2>2, <2>3
<1>4. ASSUME \A t \in T : Named(t)
      PROVE  \A y \in Shreds("reader", T) : Stays("text", y)
  <2>1. \A y \in Pieces("reader", T) : Stays("text", y)
    BY <1>4, ReaderTokens
  <2> QED
    BY <1>2, <1>4, <2>1
<1> QED
  BY <1>3, <1>4

-----------------------------------------------------------------------------
(* What is stored. *)

\* The text of a document is one of characters.
LEMMA TextIsChars ==
  ASSUME NEW T, \A t \in T : Named(t), NEW doc \in Seq(T)
  PROVE  \E C : to_plain_text(doc) \in Seq(C) /\ \A c \in C : c.kind = "char"
<1> DEFINE V == Shreds("text", T)
           s == OneShot("text", doc).out
           X == {v \in V : v.kind # "char"}
           C == V \ X
<1>1. "text" \in Passes
  BY DEF Passes
<1>2. s \in Seq(V)
  BY <1>1, OnlyShreds
<1> HIDE DEF s, V
<1>3. Chars(s) = Without(s, X)
  <2>1. \A i \in DOMAIN s : s[i] \in V
    BY <1>2
  <2>2. [i \in DOMAIN s |-> IF s[i].kind = "char" THEN <<s[i]>> ELSE <<>>]
          = [i \in DOMAIN s |-> IF s[i] \in X THEN <<>> ELSE <<s[i]>>]
    BY <2>1
  <2> QED
    BY <2>2 DEF Chars, Without
<1>4. \A c \in C : c.kind = "char"
  OBVIOUS
<1> HIDE DEF X
<1>5. Without(s, X) \in Seq(V \ X)
  BY <1>2, WithoutIs
<1> QED
  BY <1>3, <1>4, <1>5 DEF to_plain_text, s

\* What Proton stores of a document consists of tags and characters.
LEMMA AssembledIs ==
  ASSUME NEW doc \in Docs
  PROVE  Tokens(Assembled(doc)) /\ Rewriter(OneShot("display", doc))
<1> DEFINE T == {doc[i] : i \in DOMAIN doc}
           rw == OneShot("display", doc)
<1>1. doc \in Seq(T) /\ \A t \in T : Named(t)
  <2>1. doc \in Seq(T) /\ \A t \in T : Token(t)
    BY DocsAssumption DEF Document
  <2> HIDE DEF T
  <2>2. \A t \in T : Named(t)
    BY <2>1 DEF Named, Token
  <2> QED
    BY <2>1, <2>2
<1>2. Rewriter(rw)
  BY Bytes, FreshRewriter, WritingKeeps DEF OneShot
<1>3. Tokens(to_plain_text(doc))
  <2>1. PICK C : to_plain_text(doc) \in Seq(C) /\ \A c \in C : c.kind = "char"
    <3> HIDE DEF T
    <3> QED
      BY <1>1, TextIsChars
  <2> QED
    BY <2>1 DEF Tokens
<1>4. sanitize_for_display(doc).html = rw.out
  BY DEF sanitize_for_display
<1> HIDE DEF rw
<1>5. Tokens(rw.out)
  BY <1>2 DEF Rewriter
<1> QED
  BY <1>2, <1>3, <1>4, <1>5 DEF Assembled, rw

-----------------------------------------------------------------------------
(* What the views show. *)

\* The views of a stored document are those of the message.
Views(doc, v) ==
  /\ v.found
  /\ v.safe = sanitize_for_display(doc).html
  /\ NoPadding(v.reader) = NoPadding(to_reader_html(doc))
  /\ TextOf(v.safe) = Visible(doc, Dangerous)
  /\ TextOf(v.reader) = Visible(doc, ReaderGone)
  /\ TextOf(v.plain) = TextOf(v.reader)
  /\ Balanced(v.reader)
  /\ \A i \in DOMAIN v.reader : Prose(v.reader[i])

\* A second time they are the same.
LEMMA ViewsAre ==
  ASSUME NEW doc \in Docs, Ordinary(doc), NEW html, html \in {doc, sanitize_for_display(doc).html}
  PROVE  Views(doc, parse(html))
<1> DEFINE T == {doc[i] : i \in DOMAIN doc}
           S == {t.name : t \in T}
           d1 == OneShot("display", doc).out
           r == OneShot("reader", html).out
           V == Pieces("display", T)
           O == OutNames("display", S)
<1>0. "display" \in Passes /\ "reader" \in Passes
  BY DEF Passes
<1>1. /\ doc \in Seq(T) /\ \A t \in T : Token(t) /\ FrameIsQuiet(t)
      /\ Balanced(doc)
  BY DocsAssumption DEF Document, Ordinary, FrameIsQuiet
<1>2. Rules(T, S)
  BY <1>1 DEF Rules, Named, Token
<1>3. sanitize_for_display(doc).html = d1 /\ to_reader_html(doc) = OneShot("reader", doc).out
  BY DEF sanitize_for_display, to_reader_html
<1>4. /\ parse(html).found /\ parse(html).safe = OneShot("display", html).out
      /\ parse(html).reader = r /\ parse(html).plain = to_plain_text(r)
  BY DEF parse, sanitize_for_display, to_reader_html
<1> DEFINE L == [n \in 0 .. Len(doc) |-> NamesOf(OpenAfter(doc)[n], doc)]
<1> HIDE DEF T, S, d1, r, V, O
<1>5. NestsBy(L, doc, <<>>, S)
  BY <1>1, <1>2, BalancedNests
<1> HIDE DEF L
<1>6. Nests(doc, <<>>, S)
  BY <1>5 DEF Nests
<1>7. /\ d1 \in Seq(V) /\ Rules(V, O)
  BY <1>0, <1>1, <1>2, <1>5, Along, RulesOut DEF d1, V, O
<1>8. Nests(d1, <<>>, O)
  <2> DEFINE N == Len(doc)
  <2>1. N \in Nat /\ N \in 0 .. N
    BY <1>1
  <2>2. Nests(After("display", doc, N).out, Shown("display", L[N]), O)
    BY <1>0, <1>1, <1>2, <1>5, <2>1, OutNests DEF O
  <2>3. After("display", doc, N) = OneShot("display", doc)
    <3>1. \A t \in T : t.kind \in {"start", "end", "char"}
      BY <1>2 DEF Rules, Named
    <3> QED
      BY <1>1, <3>1, Stepwise
  <2>4. L[N] = <<>>
    BY <1>5 DEF NestsBy
  <2>5. Shown("display", <<>>) = <<>>
    <3>1. <<>> \in Seq(S)
      OBVIOUS
    <3> QED
      BY <3>1, ShownOn
  <2> QED
    BY <2>2, <2>3, <2>4, <2>5 DEF d1
<1>9. OneShot("display", d1).out = d1
  BY <1>1, <1>7, DisplayTwice DEF V
<1>10. /\ TextOf(d1) = Visible(doc, Dangerous)
       /\ TextOf(OneShot("reader", doc).out) = Visible(doc, ReaderGone)
  <2>1. \A name : name \notin Void => (name \in Dangerous <=> Drops("display", name))
    BY DEF Void, Drops
  <2>2. \A name : name \notin Void => (name \in ReaderGone <=> Drops("reader", name))
    BY DEF Drops
  <2>3. TextOf(d1) = Visible(doc, Dangerous)
    BY <1>0, <1>1, <1>2, <2>1, TextIs DEF d1
  <2>4. TextOf(OneShot("reader", doc).out) = Visible(doc, ReaderGone)
    BY <1>0, <1>1, <1>2, <2>2, TextIs
  <2> QED
    BY <2>3, <2>4
<1>11. NoPadding(OneShot("reader", d1).out) = NoPadding(OneShot("reader", doc).out)
  BY <1>1, <1>2, <1>5, ReaderAgrees DEF d1
<1> DEFINE Fine(x) == /\ Balanced(x) /\ \A i \in DOMAIN x : Prose(x[i])
                      /\ TextOf(to_plain_text(x)) = TextOf(x)
                      /\ TextOf(NoPadding(x)) = TextOf(x)
<1>12. Fine(OneShot("reader", doc).out) /\ Fine(OneShot("reader", d1).out)
  <2> HIDE DEF Fine
  <2>1. Fine(OneShot("reader", doc).out)
    BY <1>1, <1>2, <1>6, ReaderMakesProse DEF Fine
  <2>2. Fine(OneShot("reader", d1).out)
    BY <1>7, <1>8, ReaderMakesProse DEF Fine
  <2> QED
    BY <2>1, <2>2
<1>13. html = doc \/ html = d1
  BY <1>3
<1>14. /\ OneShot("display", html).out = d1
       /\ NoPadding(r) = NoPadding(OneShot("reader", doc).out)
       /\ Fine(r)
  <2> HIDE DEF Fine
  <2>1. CASE html = doc
    BY <1>12, <2>1 DEF d1, r
  <2>2. CASE html = d1
    BY <1>9, <1>11, <1>12, <2>2 DEF r
  <2> QED
    BY <1>13, <2>1, <2>2
<1>15. TextOf(r) = Visible(doc, ReaderGone)
  BY <1>10, <1>12, <1>14
<1> QED
  BY <1>3, <1>4, <1>10, <1>14, <1>15 DEF Views

\* The views of the text of a message show that text.
TextViews(doc, v) ==
  /\ v.found
  /\ TextOf(v.safe) = Visible(doc, TextGone)
  /\ TextOf(v.reader) = Visible(doc, TextGone)
  /\ TextOf(v.plain) = TextOf(v.reader)
  /\ Balanced(v.reader)
  /\ \A i \in DOMAIN v.reader : Prose(v.reader[i])

\* They do, though the sanitizer and the reader pass over it.
LEMMA TextViewsAre ==
  ASSUME NEW doc \in Docs, Ordinary(doc)
  PROVE  TextViews(doc, parse(to_plain_text(doc)))
<1> DEFINE T == {doc[i] : i \in DOMAIN doc}
           S == {t.name : t \in T}
           html == to_plain_text(doc)
           s == OneShot("text", doc).out
           r == OneShot("reader", html).out
<1>0. "display" \in Passes /\ "reader" \in Passes /\ "text" \in Passes
  BY DEF Passes
<1>1. doc \in Seq(T) /\ Balanced(doc) /\ \A t \in T : Token(t)
  BY DocsAssumption DEF Document, Ordinary
<1>2. Rules(T, S) /\ \A t \in T : Named(t)
  BY <1>1 DEF Rules, Named, Token
<1>3. /\ parse(html).found /\ parse(html).safe = OneShot("display", html).out
      /\ parse(html).reader = r /\ parse(html).plain = to_plain_text(r)
  BY DEF parse, sanitize_for_display, to_reader_html
<1> HIDE DEF T, S
<1>4. PICK C : html \in Seq(C) /\ \A c \in C : c.kind = "char"
  BY <1>1, <1>2, TextIsChars DEF html
<1>5. TextOf(html) = Visible(doc, TextGone)
  <2>1. TextOf(s) = Visible(doc, TextGone)
    <3>1. \A name : name \notin Void => (name \in TextGone <=> Drops("text", name))
      BY DEF Drops
    <3> QED
      BY <1>0, <1>1, <1>2, <3>1, TextIs DEF s
  <2>2. TextOf(Chars(s)) = TextOf(s)
    <3>1. s \in Seq(Shreds("text", T))
      BY <1>0, <1>1, <1>2, OnlyShreds DEF s
    <3> HIDE DEF s
    <3> QED
      BY <3>1, TextOfChars
  <2> QED
    BY <2>1, <2>2 DEF html, to_plain_text, s
<1> HIDE DEF html, s, r
<1>6. \A gone : Visible(html, gone) = TextOf(html)
  <2>1. \A i \in DOMAIN html : html[i].kind = "char"
    BY <1>4
  <2>2. \A i \in DOMAIN html : \A j \in 1 .. i - 1 : j \in DOMAIN html
    BY <1>4
  <2>3. \A i \in DOMAIN html : \A j \in 1 .. i - 1 : ~Encloses(html, j, i)
    BY <2>1, <2>2 DEF Encloses
  <2> TAKE gone
  <2>4. [i \in DOMAIN html |->
           IF /\ html[i].kind = "char" /\ html[i].c # Padding
              /\ ~\E j \in 1 .. i - 1 : Encloses(html, j, i) /\ html[j].name \in gone
           THEN <<html[i].c>> ELSE <<>>]
          = [i \in DOMAIN html |->
               IF html[i].kind = "char" /\ html[i].c # Padding THEN <<html[i].c>> ELSE <<>>]
    BY <2>3
  <2> QED
    BY <2>4 DEF Visible, TextOf
<1>7. Rules(C, {}) /\ Nests(html, <<>>, {})
  <2>1. Rules(C, {})
    BY <1>4 DEF Rules, Named
  <2> DEFINE L == [n \in 0 .. Len(html) |-> <<>>]
  <2>2. /\ Len(html) \in Nat /\ <<>> \in Seq({})
        /\ \A n \in 0 .. Len(html) : L[n] = <<>>
        /\ \A n \in 1 .. Len(html) : n \in 0 .. Len(html) /\ n - 1 \in 0 .. Len(html) /\ html[n].kind = "char"
    BY <1>4
  <2> HIDE DEF L
  <2>3. \A n \in 1 .. Len(html) : Turn(L[n - 1], html[n], L[n])
    BY <2>2 DEF Turn
  <2>4. NestsBy(L, html, <<>>, {})
    <3>1. 0 \in 0 .. Len(html) /\ Len(html) \in 0 .. Len(html)
      BY <2>2
    <3> QED
      BY <2>2, <2>3, <3>1 DEF NestsBy
  <2> QED
    BY <2>1, <2>4 DEF Nests
<1>8. Balanced(html)
  BY <1>4, <1>7, NestsBalanced
<1>9. /\ TextOf(OneShot("display", html).out) = TextOf(html)
      /\ TextOf(r) = TextOf(html)
  <2>1. /\ \A name : name \notin Void => (name \in Dangerous <=> Drops("display", name))
        /\ \A name : name \notin Void => (name \in ReaderGone <=> Drops("reader", name))
    BY DEF Void, Drops
  <2>2. TextOf(OneShot("display", html).out) = Visible(html, Dangerous)
    BY <1>0, <1>4, <1>7, <1>8, <2>1, TextIs
  <2>3. TextOf(r) = Visible(html, ReaderGone)
    BY <1>0, <1>4, <1>7, <1>8, <2>1, TextIs DEF r
  <2> QED
    BY <1>6, <2>2, <2>3
<1>10. /\ Balanced(r) /\ \A i \in DOMAIN r : Prose(r[i])
       /\ TextOf(to_plain_text(r)) = TextOf(r)
  BY <1>4, <1>7, ReaderMakesProse DEF r
<1>11. TextViews(doc, parse(html))
  BY <1>3, <1>5, <1>9, <1>10 DEF TextViews
<1> QED
  BY <1>11 DEF html

\* What a message arrives as.
Arrives(html) == html = IF message.source = "proton" THEN Assembled(message.doc) ELSE message.doc

\* What is stored and shown is that.
Original ==
  /\ message.doc \in Docs
  /\ stored = NoHtml \/ Arrives(stored)
  /\ views = NoViews \/ \E html : Arrives(html) /\ views = parse(html)

\* So it is at the start, and after every step.
LEMMA OriginalStart == Init => Original
<1> SUFFICES ASSUME Init
             PROVE  Original
  OBVIOUS
<1>1. message.doc \in Docs
  BY DEF Init
<1> QED
  BY <1>1 DEF Init, Original

\* What is stored never comes from anything but the document, and the views
\* come from what is stored.
LEMMA OriginalKept == Original /\ [Next]_vars => Original'
<1> SUFFICES ASSUME Original, [Next]_vars
             PROVE  Original'
  OBVIOUS
<1>1. CASE storeMessage
  BY <1>1 DEF storeMessage, Original, Arrives
<1>2. CASE persistMessage
  BY <1>2 DEF persistMessage, Original, Arrives
<1>3. CASE sanitize_stream_new
  BY <1>3 DEF sanitize_stream_new, Original, Arrives
<1>4. CASE sanitize_stream_write
  BY <1>4 DEF sanitize_stream_write, Original, Arrives
<1>5. CASE sanitize_stream_finish
  BY <1>5 DEF sanitize_stream_finish, Original, Arrives
<1>6. CASE readBodyViews
  BY <1>6 DEF readBodyViews, Original, Arrives
<1>7. CASE UNCHANGED vars
  BY <1>7 DEF vars, Original, Arrives
<1> QED
  BY <1>1, <1>2, <1>3, <1>4, <1>5, <1>6, <1>7 DEF Next

\* Either the sanitizer left something and the message or that is shown, or
\* its text is.
LEMMA ArrivesAs ==
  ASSUME NEW html, Arrives(html)
  PROVE  /\ ~FallsBack => html \in {message.doc, sanitize_for_display(message.doc).html}
         /\ FallsBack => html = to_plain_text(message.doc)
  BY DEF Arrives, Assembled, FallsBack

\* That is enough.
LEMMA OriginalShows ==
  ASSUME \A doc \in Docs : Ordinary(doc)
  PROVE  Original => \/ views = NoViews
                     \/ ~FallsBack /\ Views(message.doc, views)
                     \/ FallsBack /\ TextViews(message.doc, views)
<1> SUFFICES ASSUME Original, views # NoViews
             PROVE  \/ ~FallsBack /\ Views(message.doc, views)
                    \/ FallsBack /\ TextViews(message.doc, views)
  OBVIOUS
<1>1. PICK html : Arrives(html) /\ views = parse(html)
  BY DEF Original
<1>2. message.doc \in Docs
  BY DEF Original
<1>3. CASE ~FallsBack
  <2>1. html \in {message.doc, sanitize_for_display(message.doc).html}
    BY <1>1, <1>3, ArrivesAs
  <2> QED
    BY <1>1, <1>2, <1>3, <2>1, ViewsAre
<1>4. CASE FallsBack
  <2>1. html = to_plain_text(message.doc)
    BY <1>1, <1>4, ArrivesAs
  <2> QED
    BY <1>1, <1>2, <1>4, <2>1, TextViewsAre
<1> QED
  BY <1>3, <1>4

\* A message looks the same whether it was sanitized once, as with IMAP, or
\* before it was stored and again when it was read, as with Proton, unless
\* the sanitizer left nothing of it: for all sets of documents that nest and
\* whose frame has no event handlers.
THEOREM SanitizedOnceOrTwice ==
  ASSUME \A doc \in Docs : Ordinary(doc)
  PROVE  Spec => []SourcesAgree
<1>1. Original => SourcesAgree
  <2> SUFFICES ASSUME Original, views.found, ~FallsBack
               PROVE  /\ views.safe = sanitize_for_display(message.doc).html
                      /\ NoPadding(views.reader) = NoPadding(to_reader_html(message.doc))
    BY DEF SourcesAgree
  <2>1. views # NoViews
    BY DEF NoViews
  <2>2. Views(message.doc, views)
    BY <2>1, OriginalShows
  <2> QED
    BY <2>2 DEF Views
<1> QED
  BY <1>1, OriginalStart, OriginalKept, PTL DEF Spec

\* The views show exactly the text that no removed element encloses (that
\* outside script, style and head where only the text was stored), and the
\* reader's is prose whose tags nest: for all sets of such documents.
THEOREM TextIsNotLost ==
  ASSUME \A doc \in Docs : Ordinary(doc)
  PROVE  Spec => []ViewsKeepText
<1>1. Original => ViewsKeepText
  <2> SUFFICES ASSUME Original, views.found
               PROVE  TextIsKept /\ ReaderIsProse
    BY DEF ViewsKeepText, TextIsKept, ReaderIsProse
  <2>1. views # NoViews
    BY DEF NoViews
  <2>2. \/ ~FallsBack /\ Views(message.doc, views)
        \/ FallsBack /\ TextViews(message.doc, views)
    BY <2>1, OriginalShows
  <2>3. CASE ~FallsBack /\ Views(message.doc, views)
    <3>1. TextIsKept
      BY <2>3 DEF Views, TextIsKept
    <3>2. ReaderIsProse
      BY <2>3 DEF Views, ReaderIsProse, Prose
    <3> QED
      BY <3>1, <3>2
  <2>4. CASE FallsBack /\ TextViews(message.doc, views)
    <3>1. TextIsKept
      BY <2>4 DEF TextViews, TextIsKept
    <3>2. ReaderIsProse
      BY <2>4 DEF TextViews, ReaderIsProse, Prose
    <3> QED
      BY <3>1, <3>2
  <2> QED
    BY <2>2, <2>3, <2>4
<1> QED
  BY <1>1, OriginalStart, OriginalKept, PTL DEF Spec

\* Sanitizing twice is sanitizing once, and the plain view has the text of
\* the reader document.
Settled == views.found =>
             /\ ~FallsBack => views.safe = sanitize_for_display(message.doc).html
             /\ TextOf(views.plain) = TextOf(views.reader)

\* So it is of every document, sanitized already or not.
LEMMA SettledIs ==
  ASSUME NEW doc \in Docs, NEW html, html \in {doc, sanitize_for_display(doc).html}
  PROVE  LET v == parse(html)
         IN  /\ v.safe = sanitize_for_display(doc).html
             /\ TextOf(v.plain) = TextOf(v.reader)
<1> DEFINE T == {doc[i] : i \in DOMAIN doc}
           d1 == OneShot("display", doc).out
           V == Shreds("display", T)
           r == OneShot("reader", html).out
<1>0. "display" \in Passes /\ "reader" \in Passes
  BY DEF Passes
<1>1. doc \in Seq(T) /\ (\A t \in T : Token(t)) /\ \A t \in T : Named(t)
  <2>1. doc \in Seq(T) /\ \A t \in T : Token(t)
    BY DocsAssumption DEF Document
  <2> HIDE DEF T
  <2>2. \A t \in T : Named(t)
    BY <2>1 DEF Named, Token
  <2> QED
    BY <2>1, <2>2
<1>2. sanitize_for_display(doc).html = d1
  BY DEF sanitize_for_display
<1>3. /\ parse(html).safe = OneShot("display", html).out
      /\ parse(html).reader = r /\ parse(html).plain = to_plain_text(r)
  BY DEF parse, sanitize_for_display, to_reader_html
<1> HIDE DEF T, d1, V, r
<1>4. d1 \in Seq(V) /\ \A y \in V : Stays("display", y) /\ Named(y)
  BY <1>0, <1>1, OnlyShreds, ShredsStay DEF d1, V
<1>5. OneShot("display", d1).out = d1
  BY <1>4, LeftAlone
<1>6. html = doc \/ html = d1
  BY <1>2
<1>7. OneShot("display", html).out = d1
  BY <1>5, <1>6 DEF d1
<1>8. ASSUME NEW W, \A t \in W : Named(t), html \in Seq(W)
      PROVE  TextOf(to_plain_text(r)) = TextOf(r)
  <2>1. r \in Seq(Shreds("reader", W)) /\ \A y \in Shreds("reader", W) : Stays("text", y)
    BY <1>0, <1>8, OnlyShreds, ShredsStay DEF r
  <2>2. OneShot("text", r).out = r /\ TextOf(Chars(r)) = TextOf(r)
    BY <2>1, LeftAlone, TextOfChars
  <2> QED
    BY <2>2 DEF to_plain_text
<1>9. TextOf(to_plain_text(r)) = TextOf(r)
  <2>1. CASE html = doc
    BY <1>1, <1>8, <2>1
  <2>2. CASE html = d1
    BY <1>4, <1>8, <2>2
  <2> QED
    BY <1>6, <2>1, <2>2
<1> QED
  BY <1>2, <1>3, <1>7, <1>9

\* Of the text of a document the plain view is that of the reader too.
LEMMA TextSettles ==
  ASSUME NEW doc \in Docs
  PROVE  LET v == parse(to_plain_text(doc)) IN TextOf(v.plain) = TextOf(v.reader)
<1> DEFINE T == {doc[i] : i \in DOMAIN doc}
           html == to_plain_text(doc)
           r == OneShot("reader", html).out
<1>0. "reader" \in Passes
  BY DEF Passes
<1>1. doc \in Seq(T) /\ \A t \in T : Token(t)
  BY DocsAssumption DEF Document
<1> HIDE DEF T
<1>2. \A t \in T : Named(t)
  BY <1>1 DEF Named, Token
<1>3. PICK C : html \in Seq(C) /\ \A c \in C : c.kind = "char"
  BY <1>1, <1>2, TextIsChars DEF html
<1>4. parse(html).reader = r /\ parse(html).plain = to_plain_text(r)
  BY DEF parse, to_reader_html
<1> HIDE DEF html
<1>5. \A c \in C : Named(c)
  BY <1>3 DEF Named
<1>6. r \in Seq(Shreds("reader", C)) /\ \A y \in Shreds("reader", C) : Stays("text", y)
  BY <1>0, <1>3, <1>5, OnlyShreds, ShredsStay DEF r
<1> HIDE DEF r
<1>7. OneShot("text", r).out = r /\ TextOf(Chars(r)) = TextOf(r)
  BY <1>6, LeftAlone, TextOfChars
<1> QED
  BY <1>4, <1>7 DEF to_plain_text, html

\* Whatever document arrives, well nested or not: of a message that Proton
\* sanitized before it was stored the views show nothing else than of one
\* that is sanitized when it is read, unless the sanitizer left nothing.
THEOREM AnyDocumentSettles == Spec => []Settled
<1>1. Original => Settled
  <2> SUFFICES ASSUME Original, views.found
               PROVE  /\ ~FallsBack => views.safe = sanitize_for_display(message.doc).html
                      /\ TextOf(views.plain) = TextOf(views.reader)
    BY DEF Settled
  <2>1. views # NoViews
    BY DEF NoViews
  <2>2. PICK html : Arrives(html) /\ views = parse(html)
    BY <2>1 DEF Original
  <2>3. message.doc \in Docs
    BY DEF Original
  <2>4. CASE ~FallsBack
    <3>1. html \in {message.doc, sanitize_for_display(message.doc).html}
      BY <2>2, <2>4, ArrivesAs
    <3> QED
      BY <2>2, <2>3, <3>1, SettledIs
  <2>5. CASE FallsBack
    <3>1. html = to_plain_text(message.doc)
      BY <2>2, <2>5, ArrivesAs
    <3> QED
      BY <2>2, <2>3, <2>5, <3>1, TextSettles
  <2> QED
    BY <2>4, <2>5
<1> QED
  BY <1>1, OriginalStart, OriginalKept, PTL DEF Spec

-----------------------------------------------------------------------------
\* The types, and what is handed out of the sink of an open stream.
Types ==
  /\ message \in [source : Sources, doc : Docs]
  /\ step \in Nat \ {0}
  /\ pos \in Nat \ {0}
  /\ stored = NoHtml \/ Tokens(stored)
  /\ views = NoViews \/ views.found
  /\ Running => Rewriter(stream.rw) /\ stream = Open(stream.rw)

\* The stream has read its whole sink.
LEMMA OpenIs ==
  ASSUME NEW rw
  PROVE  /\ Open(rw).at = "open" /\ Open(rw).rw = rw /\ Open(rw).out_read = Len(rw.out)
         /\ Open(rw) = Open(Open(rw).rw)
<1>1. Open(rw).rw = rw
  BY DEF Open
<1> QED
  BY <1>1 DEF Open

\* The types hold at the start.
LEMMA TypesStart == Init => Types
<1> SUFFICES ASSUME Init
             PROVE  Types
  OBVIOUS
<1>1. message \in [source : Sources, doc : Docs] /\ message.doc \in Docs
  BY DEF Init
<1>2. Len(Body) \in Nat
  BY <1>1, Bytes DEF Body
<1>3. step \in Nat \ {0}
  <2>1. PICK n \in ChunkCounts : step = StepFor(Body, n)
    BY DEF Init
  <2>2. n \in Nat \ {0}
    BY PipelineAssumption
  <2> DEFINE l == Len(Body)
  <2>3. l \div n \in Nat
    <3> HIDE DEF l
    <3> QED
      BY <1>2, <2>2 DEF l
  <2>4. step = IF l \div n = 0 THEN 1 ELSE l \div n
    BY <2>1 DEF StepFor
  <2> HIDE DEF l
  <2> QED
    BY <2>3, <2>4
<1>4. ~Running
  BY DEF Init, Running
<1> QED
  BY <1>1, <1>3, <1>4 DEF Init, Types

\* Every step keeps them.
LEMMA TypesKept == Types /\ [Next]_vars => Types'
<1> SUFFICES ASSUME Types, [Next]_vars
             PROVE  Types'
  OBVIOUS
<1>1. message.doc \in Docs
  BY DEF Types
<1>2. CASE storeMessage
  <2>1. Tokens(stored')
    BY <1>1, <1>2, Bytes DEF storeMessage
  <2> QED
    BY <1>2, <2>1 DEF storeMessage, Types, Running
<1>3. CASE persistMessage
  <2>1. stored' = stored \/ stored' = Assembled(message.doc)
    BY <1>3 DEF persistMessage
  <2>2. Tokens(Assembled(message.doc))
    BY <1>1, AssembledIs
  <2>3. stored' = NoHtml \/ Tokens(stored')
    BY <2>1, <2>2 DEF Types
  <2> QED
    BY <1>3, <2>3 DEF persistMessage, Types, Running
<1>4. CASE sanitize_stream_new
  <2>1. stream' = [at |-> "freed"] \/ stream' = Open(HtmlRewriter)
    BY <1>4 DEF sanitize_stream_new
  <2>2. Running' => Rewriter(stream'.rw) /\ stream' = Open(stream'.rw)
    <3>1. CASE stream' = [at |-> "freed"]
      BY <3>1 DEF Running
    <3>2. CASE stream' = Open(HtmlRewriter)
      BY <3>2, OpenIs, FreshRewriter
    <3> QED
      BY <2>1, <3>1, <3>2
  <2> QED
    BY <1>4, <2>2 DEF sanitize_stream_new, Types
<1>5. CASE sanitize_stream_write
  <2> DEFINE part == Chunk(Body, pos, step)
             rw == Write("display", stream.rw, part)
  <2>1. Running /\ pos <= Len(Body) /\ pos' = pos + step
    BY <1>5 DEF sanitize_stream_write
  <2>2. stream' = Open(rw) \/ stream' = stream
    BY <1>5 DEF sanitize_stream_write
  <2>3. part \in Seq(UnitsOf(message.doc))
    <3>1. Body \in Seq(UnitsOf(message.doc)) /\ Len(Body) \in Nat
      BY <1>1, Bytes DEF Body
    <3>2. pos \in 1 .. Len(Body) /\ step \in Nat \ {0}
      BY <2>1, <3>1 DEF Types
    <3> QED
      BY <3>1, <3>2 DEF Chunk
  <2> HIDE DEF part
  <2>4. Rewriter(rw)
    BY <1>1, <2>1, <2>3, Bytes, WritingKeeps DEF Types
  <2> HIDE DEF rw
  <2>5. Running' => Rewriter(stream'.rw) /\ stream' = Open(stream'.rw)
    <3>1. CASE stream' = Open(rw)
      BY <2>4, <3>1, OpenIs
    <3>2. CASE stream' = stream
      BY <2>1, <3>2 DEF Types
    <3> QED
      BY <2>2, <3>1, <3>2
  <2>6. pos' \in Nat \ {0}
    BY <2>1 DEF Types
  <2> QED
    BY <1>5, <2>5, <2>6 DEF sanitize_stream_write, Types
<1>6. CASE sanitize_stream_finish
  <2>1. ~Running'
    BY <1>6 DEF sanitize_stream_finish, Running
  <2> QED
    BY <1>6, <2>1 DEF sanitize_stream_finish, Types
<1>7. CASE readBodyViews
  <2>1. views'.found
    BY <1>7 DEF readBodyViews, parse
  <2> QED
    BY <1>7, <2>1 DEF readBodyViews, Types, Running
<1>8. CASE UNCHANGED vars
  BY <1>8 DEF vars, Types, Running
<1> QED
  BY <1>2, <1>3, <1>4, <1>5, <1>6, <1>7, <1>8 DEF Next

\* Every variable has its type, and the stream never reads ahead of its
\* sink, whatever the document, the chunks and where they cut.
THEOREM TypeCorrect == Spec => []TypeOK
<1>1. Types => TypeOK
  <2> SUFFICES ASSUME Types
               PROVE  TypeOK
    OBVIOUS
  <2>1. stored = NoHtml \/ \A i \in DOMAIN stored : stored[i].kind \in {"start", "end", "char"}
    <3>1. CASE stored = NoHtml
      BY <3>1
    <3>2. CASE Tokens(stored)
      BY <3>2 DEF Tokens
    <3> QED
      BY <3>1, <3>2 DEF Types
  <2>2. Running => /\ stream.out_read \in 0 .. Len(stream.rw.out)
                   /\ stream.rw.tag # NoTag => stream.rw.tag.kind \in {"start", "end"}
    <3> SUFFICES ASSUME Running
                 PROVE  /\ stream.out_read \in 0 .. Len(stream.rw.out)
                        /\ stream.rw.tag # NoTag => stream.rw.tag.kind \in {"start", "end"}
      OBVIOUS
    <3>1. Rewriter(stream.rw) /\ stream.out_read = Len(stream.rw.out)
      BY OpenIs DEF Types
    <3>2. Len(stream.rw.out) \in Nat
      BY <3>1 DEF Rewriter, Tokens
    <3> QED
      BY <3>1, <3>2 DEF Rewriter
  <2> QED
    BY <2>1, <2>2 DEF Types, TypeOK
<1> QED
  BY <1>1, TypesStart, TypesKept, PTL DEF Spec

-----------------------------------------------------------------------------
(* What the stream takes of the document. *)

Took(B, n, j) == IF WholeChars(NthChunk(B, n, j)) THEN NthChunk(B, n, j) ELSE <<>>

\* A chunk is a part of the bytes; after their end it is empty.
LEMMA ChunkIs ==
  ASSUME NEW U, NEW B \in Seq(U), NEW n \in Nat \ {0}, NEW k \in Nat
  PROVE  /\ NthChunk(B, n, k + 1) = Chunk(B, k * n + 1, n)
         /\ NthChunk(B, n, k + 1) \in Seq(U)
         /\ k * n >= Len(B) => NthChunk(B, n, k + 1) = <<>>
<1> DEFINE i == k * n + 1
           e == IF i + n - 1 > Len(B) THEN Len(B) ELSE i + n - 1
<1>0. k * n \in Nat /\ Len(B) \in Nat
  OBVIOUS
<1>1. i \in Nat \ {0} /\ Len(B) \in Nat /\ (k * n >= Len(B) => i > Len(B))
  BY <1>0
<1>2. NthChunk(B, n, k + 1) = Chunk(B, i, n)
  <2>1. (k + 1) - 1 = k
    OBVIOUS
  <2> QED
    BY <2>1 DEF NthChunk
<1>3. Chunk(B, i, n) = SubSeq(B, i, e)
  BY DEF Chunk
<1> HIDE DEF i
<1>4. e \in Nat /\ e <= Len(B) /\ (i > Len(B) => e < i)
  BY <1>1
<1> HIDE DEF e
<1>5. SubSeq(B, i, e) \in Seq(U)
  BY <1>1, <1>4
<1>6. i > Len(B) => SubSeq(B, i, e) = <<>>
  BY <1>1, <1>4
<1> QED
  BY <1>1, <1>2, <1>3, <1>5, <1>6 DEF i

\* Another chunk adds itself, or nothing.
LEMMA TakenOn ==
  ASSUME NEW U, NEW B \in Seq(U), NEW n \in Nat \ {0}
  PROVE  /\ Taken(B, n, 0) = <<>>
         /\ \A k \in Nat : /\ Took(B, n, k + 1) \in Seq(U) /\ Taken(B, n, k) \in Seq(U)
                           /\ Taken(B, n, k + 1) = Taken(B, n, k) \o Took(B, n, k + 1)
<1> DEFINE ss(k) == [j \in 1 .. k |-> Took(B, n, j)]
           W == Seq(U)
<1>1. \A k : Taken(B, n, k) = FlattenSeq(ss(k))
  BY DEF Taken, Took
<1>2. ASSUME NEW k \in Nat
      PROVE  Took(B, n, k + 1) \in W
  <2>1. <<>> \in Seq(U)
    BY Small
  <2>2. NthChunk(B, n, k + 1) \in Seq(U)
    BY ChunkIs
  <2> QED
    BY <2>1, <2>2 DEF Took
<1>3. \A j \in Nat \ {0} : Took(B, n, j) \in W
  <2> TAKE j \in Nat \ {0}
  <2>1. j - 1 \in Nat /\ (j - 1) + 1 = j
    OBVIOUS
  <2>2. Took(B, n, (j - 1) + 1) \in W
    BY <1>2, <2>1
  <2> QED
    BY <2>1, <2>2
<1> HIDE DEF W
<1>4. ASSUME NEW k \in Nat
      PROVE  ss(k) \in Seq(W) /\ ss(k + 1) = Append(ss(k), Took(B, n, k + 1))
  BY <1>3
<1>5. ss(0) = <<>>
  OBVIOUS
<1> HIDE DEF ss
<1>6. ASSUME NEW k \in Nat
      PROVE  FlattenSeq(ss(k)) \in Seq(U) /\ FlattenSeq(ss(k + 1)) = FlattenSeq(ss(k)) \o Took(B, n, k + 1)
  <2>1. ss(k) \in Seq(Seq(U)) /\ Took(B, n, k + 1) \in Seq(U)
    BY <1>2, <1>4 DEF W
  <2>2. FlattenSeq(ss(k)) \in Seq(U)
    BY <2>1, Flattening
  <2>3. FlattenSeq(Append(ss(k), Took(B, n, k + 1))) = FlattenSeq(ss(k)) \o Took(B, n, k + 1)
    BY <2>1, Flattened
  <2> QED
    BY <1>4, <2>2, <2>3
<1>7. Taken(B, n, 0) = <<>>
  BY <1>1, <1>5, SpelledNothing
<1> QED
  BY <1>1, <1>2, <1>6, <1>7 DEF W

\* What is taken of more chunks continues what is taken of fewer; after the
\* end of the bytes nothing more is taken.
LEMMA TakenGoes ==
  ASSUME NEW U, NEW B \in Seq(U), NEW n \in Nat \ {0}, NEW k \in Nat, NEW N \in Nat, k <= N
  PROVE  \E rest \in Seq(U) : /\ Taken(B, n, N) = Taken(B, n, k) \o rest
                              /\ k * n >= Len(B) => rest = <<>>
<1> DEFINE To(d, rest) == /\ Taken(B, n, k + d) = Taken(B, n, k) \o rest
                          /\ k * n >= Len(B) => rest = <<>>
           P == {d \in 0 .. N - k : \E rest \in Seq(U) : To(d, rest)}
<1>1. N - k \in Nat /\ Len(B) \in Nat
  OBVIOUS
<1>2. /\ \A j \in Nat : Taken(B, n, j) \in Seq(U) /\ Took(B, n, j + 1) \in Seq(U)
      /\ \A j \in Nat : Taken(B, n, j + 1) = Taken(B, n, j) \o Took(B, n, j + 1)
  BY TakenOn
<1>3. 0 \in P
  <2>1. <<>> \in Seq(U) /\ Taken(B, n, k) \in Seq(U) /\ k + 0 = k
    BY <1>2, Small
  <2>2. To(0, <<>>)
    BY <2>1
  <2> HIDE DEF To
  <2>3. \E rest \in Seq(U) : To(0, rest)
    BY <2>1, <2>2
  <2>4. 0 \in 0 .. N - k
    BY <1>1
  <2> QED
    BY <2>3, <2>4
<1>4. ASSUME NEW d \in 0 .. (N - k) - 1, d \in P
      PROVE  d + 1 \in P
  <2> DEFINE x == Took(B, n, (k + d) + 1)
  <2>1. PICK rest \in Seq(U) : To(d, rest)
    BY <1>4
  <2>2. k + d \in Nat /\ k + (d + 1) = (k + d) + 1 /\ d + 1 \in 0 .. N - k
    BY <1>1
  <2>3. Taken(B, n, k + (d + 1)) = Taken(B, n, k + d) \o x /\ x \in Seq(U)
    BY <1>2, <2>2
  <2>4. k * n >= Len(B) => x = <<>>
    <3> SUFFICES ASSUME k * n >= Len(B)
                 PROVE  x = <<>>
      OBVIOUS
    <3>1. (k + d) * n >= k * n
      OBVIOUS
    <3>2. (k + d) * n >= Len(B)
      BY <1>1, <2>2, <3>1
    <3>3. NthChunk(B, n, (k + d) + 1) = <<>>
      BY <2>2, <3>2, ChunkIs
    <3> QED
      BY <3>3 DEF Took
  <2> HIDE DEF x
  <2>5. Taken(B, n, k) \in Seq(U)
    BY <1>2
  <2>6. (Taken(B, n, k) \o rest) \o x = Taken(B, n, k) \o (rest \o x)
    BY <2>3, <2>5
  <2>7. k * n >= Len(B) => rest \o x = <<>>
    BY <2>1, <2>4
  <2>8. Taken(B, n, k + (d + 1)) = Taken(B, n, k) \o (rest \o x)
    BY <2>1, <2>3, <2>6
  <2>9. To(d + 1, rest \o x)
    BY <2>7, <2>8
  <2> HIDE DEF To
  <2>10. \E more \in Seq(U) : To(d + 1, more)
    <3>1. rest \o x \in Seq(U)
      BY <2>3
    <3> QED
      BY <2>9, <3>1
  <2> QED
    BY <2>2, <2>10
<1> HIDE DEF P
<1>5. \A d \in 0 .. N - k : d \in P
  BY <1>1, <1>3, <1>4, Climbing
<1>6. N - k \in P /\ k + (N - k) = N
  BY <1>1, <1>5
<1> QED
  BY <1>6 DEF P

\* If no chunk is refused, all is taken.
LEMMA TakenAll ==
  ASSUME NEW U, NEW B \in Seq(U), NEW n \in Nat \ {0},
         \A k \in 1 .. Len(B) : WholeChars(NthChunk(B, n, k))
  PROVE  Taken(B, n, Len(B)) = B
<1> DEFINE N == Len(B)
           to(k) == IF k * n > N THEN N ELSE k * n
           P == {k \in 0 .. N : Taken(B, n, k) = SubSeq(B, 1, to(k))}
<1>1. N \in Nat
  OBVIOUS
<1>2. /\ Taken(B, n, 0) = <<>>
      /\ \A j \in Nat : Taken(B, n, j + 1) = Taken(B, n, j) \o Took(B, n, j + 1)
  BY TakenOn
<1>3. 0 \in P
  <2>1. 0 * n = 0
    OBVIOUS
  <2>2. to(0) = 0
    BY <1>1, <2>1
  <2>3. SubSeq(B, 1, 0) = <<>>
    OBVIOUS
  <2> HIDE DEF to
  <2>4. Taken(B, n, 0) = SubSeq(B, 1, to(0))
    BY <1>2, <2>2, <2>3
  <2>5. 0 \in 0 .. N
    BY <1>1
  <2> QED
    BY <2>4, <2>5
<1>4. ASSUME NEW k \in 0 .. N - 1, k \in P
      PROVE  k + 1 \in P
  <2>1. k + 1 \in 1 .. N /\ k \in Nat /\ k + 1 \in 0 .. N
    BY <1>1
  <2>2. Took(B, n, k + 1) = Chunk(B, k * n + 1, n)
    <3>1. WholeChars(NthChunk(B, n, k + 1))
      BY <2>1
    <3>2. NthChunk(B, n, k + 1) = Chunk(B, k * n + 1, n)
      BY <2>1, ChunkIs
    <3> QED
      BY <3>1, <3>2 DEF Took
  <2>3. k * n \in Nat /\ (k + 1) * n = k * n + n
    BY <2>1
  <2> DEFINE m == k * n
  <2>4. Taken(B, n, k) = SubSeq(B, 1, to(k))
    BY <1>4
  <2>5. SubSeq(B, 1, to(k)) \o Chunk(B, m + 1, n) = SubSeq(B, 1, to(k + 1))
    <3>1. to(k) = (IF m > N THEN N ELSE m) /\ to(k + 1) = IF m + n > N THEN N ELSE m + n
      BY <2>3
    <3> HIDE DEF m
    <3>2. Chunk(B, m + 1, n) = SubSeq(B, m + 1, to(k + 1))
      <4>1. (m + 1) + n - 1 = m + n
        BY <2>3 DEF m
      <4> QED
        BY <3>1, <4>1 DEF Chunk
    <3> HIDE DEF to, N
    <3>3. CASE m >= N
      <4>1. to(k) = N /\ to(k + 1) = N
        BY <1>1, <2>3, <3>1, <3>3 DEF m
      <4>2. SubSeq(B, 1, N) = B
        BY DEF N
      <4>3. \A i \in Nat : i > N => SubSeq(B, i, N) = <<>>
        BY <1>1 DEF N
      <4>4. m + 1 \in Nat /\ m + 1 > N
        BY <1>1, <2>3, <3>3 DEF m
      <4>5. SubSeq(B, m + 1, N) = <<>>
        BY <4>3, <4>4
      <4>6. B \o <<>> = B
        OBVIOUS
      <4> QED
        BY <3>2, <4>1, <4>2, <4>5, <4>6
    <3>4. CASE m < N
      <4>1. to(k) = m /\ to(k + 1) \in m .. N /\ m \in 0 .. N
        BY <1>1, <2>3, <3>1, <3>4 DEF m
      <4>2. 1 \in 1 .. Len(B) + 1 /\ m \in 1 - 1 .. Len(B) /\ to(k + 1) \in m .. Len(B)
        BY <1>1, <4>1 DEF N
      <4> DEFINE e == to(k + 1)
      <4> HIDE DEF e
      <4>3. SubSeq(B, 1, m) \o SubSeq(B, m + 1, e) = SubSeq(B, 1, e)
        <5>1. B \in Seq(U) /\ m \in 1 - 1 .. Len(B) /\ e \in m .. Len(B)
          BY <4>2 DEF e
        <5> QED
          BY <4>2, <5>1, ConcatAdjacentSubSeq
      <4> QED
        BY <3>2, <4>1, <4>3 DEF e
    <3>5. m >= N \/ m < N
      BY <1>1, <2>3 DEF m
    <3> QED
      BY ONLY <3>3, <3>4, <3>5, Zenon
  <2> HIDE DEF to, N
  <2> QED
    BY <1>2, <2>1, <2>2, <2>4, <2>5
<1> HIDE DEF P
<1>5. \A k \in 0 .. N : k \in P
  BY <1>1, <1>3, <1>4, Climbing
<1>6. to(N) = N
  <2>1. N * n >= N
    BY <1>1
  <2> QED
    BY <1>1, <2>1
<1>7. Taken(B, n, N) = SubSeq(B, 1, N)
  <2> HIDE DEF to
  <2>1. N \in P
    BY <1>1, <1>5
  <2> QED
    BY <1>6, <2>1 DEF P
<1> QED
  BY <1>7

-----------------------------------------------------------------------------
\* The rewriter after k chunks.
Ran(B, n, k) == Write("display", HtmlRewriter, Taken(B, n, k))

\* It goes from chunk to chunk, and each sink continues the one before.
LEMMA RanIs ==
  ASSUME NEW U, \A u \in U : Unit(u), NEW B \in Seq(U), NEW n \in Nat \ {0}
  PROVE  /\ Ran(B, n, 0) = HtmlRewriter
         /\ \A k \in Nat : /\ Rewriter(Ran(B, n, k))
                           /\ Ran(B, n, k + 1) = Write("display", Ran(B, n, k), Took(B, n, k + 1))
                           /\ Continues(Ran(B, n, k + 1).out, Ran(B, n, k).out)
         /\ \A k \in 0 .. Len(B) : /\ Continues(Ran(B, n, Len(B)).out, Ran(B, n, k).out)
                                   /\ k * n >= Len(B) => Ran(B, n, k) = Ran(B, n, Len(B))
<1>1. /\ Taken(B, n, 0) = <<>>
      /\ \A k \in Nat : Took(B, n, k + 1) \in Seq(U) /\ Taken(B, n, k) \in Seq(U)
      /\ \A k \in Nat : Taken(B, n, k + 1) = Taken(B, n, k) \o Took(B, n, k + 1)
  BY TakenOn
<1>2. Ran(B, n, 0) = HtmlRewriter
  BY <1>1, WritingNothing DEF Ran
<1>3. ASSUME NEW k \in Nat
      PROVE  Rewriter(Ran(B, n, k))
  BY <1>1, FreshRewriter, WritingKeeps DEF Ran
<1>4. ASSUME NEW k \in Nat, NEW j \in Nat, NEW rest \in Seq(U), Taken(B, n, j) = Taken(B, n, k) \o rest
      PROVE  /\ Ran(B, n, j) = Write("display", Ran(B, n, k), rest)
             /\ Continues(Ran(B, n, j).out, Ran(B, n, k).out)
             /\ rest = <<>> => Ran(B, n, j) = Ran(B, n, k)
  <2> DEFINE a == Taken(B, n, k)
             w == Ran(B, n, k)
  <2>1. a \in Seq(U)
    BY <1>1
  <2>2. Write("display", Write("display", HtmlRewriter, a), rest) = Write("display", HtmlRewriter, a \o rest)
    <3> HIDE DEF a
    <3> QED
      BY <2>1, WritingOn
  <2>3. Ran(B, n, j) = Write("display", w, rest)
    BY <1>4, <2>2 DEF Ran
  <2>4. Rewriter(w)
    BY <1>3
  <2> HIDE DEF w
  <2>5. Continues(Write("display", w, rest).out, w.out)
    BY <2>4, WritingKeeps
  <2>6. Write("display", w, <<>>) = w
    BY WritingNothing
  <2>7. rest = <<>> => Ran(B, n, j) = w
    BY <2>3, <2>6
  <2>8. Continues(Ran(B, n, j).out, w.out)
    BY <2>3, <2>5
  <2> QED
    BY <2>3, <2>7, <2>8 DEF w
<1>5. ASSUME NEW k \in Nat
      PROVE  /\ Ran(B, n, k + 1) = Write("display", Ran(B, n, k), Took(B, n, k + 1))
             /\ Continues(Ran(B, n, k + 1).out, Ran(B, n, k).out)
  <2>1. k + 1 \in Nat
    OBVIOUS
  <2>2. Took(B, n, k + 1) \in Seq(U)
    BY <1>1, Zenon
  <2>3. Taken(B, n, k + 1) = Taken(B, n, k) \o Took(B, n, k + 1)
    BY <1>1, Zenon
  <2> QED
    BY <1>4, <2>1, <2>2, <2>3
<1>6. ASSUME NEW k \in 0 .. Len(B)
      PROVE  /\ Continues(Ran(B, n, Len(B)).out, Ran(B, n, k).out)
             /\ k * n >= Len(B) => Ran(B, n, k) = Ran(B, n, Len(B))
  <2>1. k \in Nat /\ Len(B) \in Nat /\ k <= Len(B)
    OBVIOUS
  <2>2. PICK rest \in Seq(U) : /\ Taken(B, n, Len(B)) = Taken(B, n, k) \o rest
                               /\ k * n >= Len(B) => rest = <<>>
    BY <2>1, TakenGoes
  <2>3. /\ Continues(Ran(B, n, Len(B)).out, Ran(B, n, k).out)
        /\ rest = <<>> => Ran(B, n, Len(B)) = Ran(B, n, k)
    BY <1>4, <2>1, <2>2
  <2> QED
    BY <2>2, <2>3
<1> QED
  BY <1>2, <1>3, <1>5, <1>6

Final(rw) == rw.out \o Leftover(rw)

\* The end adds to the sink.
LEMMA FinalIs ==
  ASSUME NEW rw, Rewriter(rw)
  PROVE  /\ Tokens(Final(rw)) /\ (rw.tag = NoTag => Final(rw) = rw.out)
         /\ \A s : Tokens(s) /\ Continues(rw.out, s) => Continues(Final(rw), s)
<1>1. PICK T : rw.out \in Seq(T) /\ \A t \in T : t.kind \in {"start", "end", "char"}
  BY DEF Rewriter, Tokens
<1> DEFINE c == Char("<")
           V == T \cup {c}
           l == Leftover(rw)
           o == rw.out
<1>2. c.kind = "char"
  BY DEF Char
<1> HIDE DEF c
<1>3. l = <<>> \/ l = <<c>>
  BY DEF Leftover, c
<1>4. \A t \in V : t.kind \in {"start", "end", "char"}
  BY <1>1, <1>2
<1>5. o \in Seq(V)
  BY <1>1
<1>6. c \in V
  OBVIOUS
<1>7. l \in Seq(V)
  <2> HIDE DEF V, l
  <2> QED
    BY <1>3, <1>6, Small
<1> HIDE DEF V, l, o
<1>8. o \o l \in Seq(V) /\ Len(o) <= Len(o \o l) /\ \A i \in 1 .. Len(o) : (o \o l)[i] = o[i]
  BY <1>5, <1>7
<1>9. Final(rw) = o \o l
  BY DEF Final, o, l
<1>10. Tokens(Final(rw))
  BY <1>4, <1>8, <1>9 DEF Tokens
<1>11. rw.tag = NoTag => Final(rw) = rw.out
  <2>1. rw.tag = NoTag => l = <<>>
    BY DEF Leftover, l
  <2>2. o \o <<>> = o
    BY <1>5
  <2> QED
    BY <1>9, <2>1, <2>2 DEF o
<1>12. ASSUME NEW s, Tokens(s), Continues(o, s)
       PROVE  Continues(o \o l, s)
  <2>1. PICK A : s \in Seq(A)
    BY <1>12 DEF Tokens
  <2>2. Len(s) \in Nat /\ Len(o) \in Nat /\ Len(o \o l) \in Nat
    BY <1>5, <1>8, <2>1
  <2>3. Len(s) <= Len(o) /\ \A i \in 1 .. Len(s) : o[i] = s[i]
    BY <1>12 DEF Continues
  <2>4. \A i \in 1 .. Len(s) : i \in 1 .. Len(o)
    BY <2>2, <2>3
  <2> QED
    BY <1>8, <2>2, <2>3, <2>4 DEF Continues
<1> QED
  BY <1>9, <1>10, <1>11, <1>12 DEF o

\* What the property calls the sanitized stream.
LEMMA StreamedIs == Streamed = Final(Ran(Body, step, Len(Body)))
<1>1. \A bytes : Sanitized(bytes) = Final(Write("display", HtmlRewriter, bytes))
  <2> TAKE bytes
  <2> DEFINE x == Final(Write("display", HtmlRewriter, bytes))
  <2>1. {rw.out \o Leftover(rw) : rw \in {Write("display", HtmlRewriter, b) : b \in {bytes}}} = {x}
    BY DEF Final
  <2> HIDE DEF x
  <2>2. (CHOOSE html \in {x} : TRUE) = x
    OBVIOUS
  <2> QED
    BY <2>1, <2>2 DEF Sanitized, x
<1> DEFINE y == Sanitized(Taken(Body, step, Len(Body)))
<1>2. {Sanitized(Taken(bytes, step, Len(bytes))) : bytes \in {Body}} = {y}
  OBVIOUS
<1>3. y = Final(Ran(Body, step, Len(Body)))
  BY <1>1 DEF Ran
<1> HIDE DEF y
<1>4. (CHOOSE html \in {y} : TRUE) = y
  OBVIOUS
<1> QED
  BY <1>2, <1>3, <1>4 DEF Streamed

-----------------------------------------------------------------------------
\* Where the stream is in the document, and what it has given.
At(k) ==
  /\ pos = k * step + 1
  /\ stream.rw = Ran(Body, step, k)
  /\ flushed = stream.rw.out

Place ==
  /\ message.source = "imap" /\ stored # NoHtml => stored = message.doc
  /\ stream.at # "none" => message.source = "imap" /\ stored # NoHtml
  /\ stream.at \in {"none", "open", "freed"}
  /\ stream.at = "none" => pos = 1 /\ flushed = <<>>
  /\ stream.at = "open" => \E k \in 0 .. Len(Body) : At(k)
  /\ stream.at = "freed" => flushed = Streamed

Streaming == Types /\ Place

\* No stream, nothing given.
LEMMA StreamingStart == Init => Streaming
<1> SUFFICES ASSUME Init
             PROVE  Streaming
  OBVIOUS
<1>1. Place
  BY DEF Init, Place
<1> QED
  BY <1>1, TypesStart DEF Streaming

\* The stream does what the lemmas about bytes say of those of the message.
LEMMA RanHere ==
  ASSUME Types
  PROVE  /\ Len(Body) \in Nat /\ Ran(Body, step, 0) = HtmlRewriter
         /\ \A k \in Nat : /\ Rewriter(Ran(Body, step, k))
                           /\ Ran(Body, step, k + 1) = Write("display", Ran(Body, step, k), Took(Body, step, k + 1))
                           /\ Continues(Ran(Body, step, k + 1).out, Ran(Body, step, k).out)
                           /\ NthChunk(Body, step, k + 1) = Chunk(Body, k * step + 1, step)
         /\ \A k \in 0 .. Len(Body) :
              /\ Continues(Ran(Body, step, Len(Body)).out, Ran(Body, step, k).out)
              /\ k * step >= Len(Body) => Ran(Body, step, k) = Ran(Body, step, Len(Body))
         /\ Rewriter(Ran(Body, step, Len(Body)))
<1> DEFINE U == UnitsOf(message.doc)
<1>1. message.doc \in Docs /\ step \in Nat \ {0}
  BY DEF Types
<1>2. Body \in Seq(U) /\ (\A u \in U : Unit(u)) /\ Len(Body) \in Nat
  BY <1>1, Bytes DEF Body
<1> HIDE DEF U
<1>3. ASSUME NEW k \in Nat
      PROVE  NthChunk(Body, step, k + 1) = Chunk(Body, k * step + 1, step)
  BY <1>1, <1>2, ChunkIs
<1>4. /\ Ran(Body, step, 0) = HtmlRewriter
      /\ \A k \in Nat : /\ Rewriter(Ran(Body, step, k))
                        /\ Ran(Body, step, k + 1) = Write("display", Ran(Body, step, k), Took(Body, step, k + 1))
                        /\ Continues(Ran(Body, step, k + 1).out, Ran(Body, step, k).out)
      /\ \A k \in 0 .. Len(Body) :
           /\ Continues(Ran(Body, step, Len(Body)).out, Ran(Body, step, k).out)
           /\ k * step >= Len(Body) => Ran(Body, step, k) = Ran(Body, step, Len(Body))
  BY <1>1, <1>2, RanIs
<1> QED
  BY <1>2, <1>3, <1>4

\* One turn of the loop takes the stream to the next chunk, whether it takes
\* this one or refuses it.
LEMMA OneTurn ==
  ASSUME Streaming, sanitize_stream_write
  PROVE  \E k \in 0 .. Len(Body) - 1 :
           /\ pos' = (k + 1) * step + 1
           /\ flushed = Ran(Body, step, k).out
           /\ stream' = Open(Ran(Body, step, k + 1))
           /\ flushed' = Ran(Body, step, k + 1).out
<1> DEFINE part == Chunk(Body, pos, step)
<1>1. /\ Types /\ pos \in Nat \ {0} /\ step \in Nat \ {0}
      /\ Running /\ stream = Open(stream.rw)
      /\ pos <= Len(Body) /\ pos' = pos + step
  BY DEF Streaming, Types, sanitize_stream_write
<1>2. Len(Body) \in Nat
  BY <1>1, RanHere
<1>3. PICK k \in 0 .. Len(Body) : At(k)
  BY <1>1 DEF Streaming, Place, Running
<1> DEFINE old == Ran(Body, step, k)
           new == Ran(Body, step, k + 1)
<1>4. pos = k * step + 1 /\ stream.rw = old /\ flushed = old.out
  BY <1>3 DEF At
<1>5. k \in 0 .. Len(Body) - 1 /\ pos' = (k + 1) * step + 1
  <2>1. k \in Nat /\ k * step \in Nat /\ (k + 1) * step = k * step + step /\ k * step >= k
    BY <1>1, <1>2
  <2>2. k * step + 1 <= Len(Body)
    BY <1>1, <1>4
  <2> DEFINE m == k * step
  <2> HIDE DEF m
  <2>3. k < Len(Body)
    BY <1>2, <2>1, <2>2 DEF m
  <2>4. pos' = (k + 1) * step + 1
    BY <1>1, <1>4, <2>1
  <2> QED
    BY <1>2, <2>1, <2>3, <2>4
<1>6. /\ Rewriter(old) /\ Rewriter(new) /\ Continues(new.out, old.out)
      /\ new = Write("display", old, Took(Body, step, k + 1))
      /\ NthChunk(Body, step, k + 1) = part
  <2>1. k \in Nat /\ k + 1 \in Nat
    BY <1>2
  <2> QED
    BY <1>1, <1>4, <2>1, RanHere
<1> HIDE DEF part, new, old
<1>7. stream' = Open(new) /\ flushed' = new.out
  <2>1. CASE WholeChars(part)
    <3>1. new = Write("display", stream.rw, part)
      BY <1>4, <1>6, <2>1 DEF Took
    <3>2. stream' = Open(new) /\ flushed' = flushed \o Fresh(new)
      BY <2>1, <3>1 DEF sanitize_stream_write, part
    <3>3. Fresh(new) = SubSeq(new.out, Len(old.out) + 1, Len(new.out))
      <4>1. stream.out_read = Len(old.out)
        BY <1>1, <1>4, OpenIs
      <4> QED
        BY <4>1 DEF Fresh
    <3>4. Tokens(old.out) /\ Tokens(new.out)
      BY <1>6 DEF Rewriter
    <3>5. flushed' = new.out
      BY <1>4, <1>6, <3>2, <3>3, <3>4, Completing
    <3> QED
      BY <3>2, <3>5
  <2>2. CASE ~WholeChars(part)
    <3>1. new = old
      BY <1>6, <2>2, WritingNothing DEF Took
    <3>2. stream' = stream /\ flushed' = flushed
      BY <2>2 DEF sanitize_stream_write, part
    <3> QED
      BY <1>1, <1>4, <3>1, <3>2
  <2> QED
    BY <2>1, <2>2
<1> QED
  BY <1>4, <1>5, <1>7 DEF old, new

\* At the end all has been given.
LEMMA LastPiece ==
  ASSUME Streaming, sanitize_stream_finish
  PROVE  flushed' = Streamed /\ stream'.at = "freed" /\ stream.at = "open"
<1>1. /\ Types /\ stream.at = "open" /\ stream' = [at |-> "freed"] /\ stream = Open(stream.rw)
      /\ pos > Len(Body) /\ flushed' = flushed \o (Fresh(stream.rw) \o Leftover(stream.rw))
  BY DEF sanitize_stream_finish, Running, finish, Streaming, Types
<1>2. PICK k \in 0 .. Len(Body) : At(k)
  BY <1>1 DEF Streaming, Place
<1> DEFINE rw == stream.rw
           whole == Ran(Body, step, Len(Body))
<1>3. rw = whole /\ Rewriter(whole)
  <2>1. Len(Body) \in Nat /\ step \in Nat \ {0} /\ pos = k * step + 1
    BY <1>1, <1>2, RanHere DEF At, Types
  <2>2. k * step \in Nat
    BY <2>1
  <2> DEFINE m == k * step
  <2>3. m >= Len(Body)
    <3> HIDE DEF m
    <3> QED
      BY <1>1, <2>1, <2>2 DEF m
  <2> QED
    BY <1>1, <1>2, <2>3, RanHere DEF At
<1>4. flushed = rw.out
  BY <1>2 DEF At
<1>5. stream.out_read = Len(rw.out)
  BY <1>1, OpenIs
<1> HIDE DEF rw, whole
<1>6. PICK T : rw.out \in Seq(T)
  BY <1>3 DEF Rewriter, Tokens
<1> DEFINE out == rw.out
<1>7. Fresh(rw) = SubSeq(out, Len(out) + 1, Len(out))
  BY <1>5 DEF Fresh
<1> HIDE DEF out
<1>8. Fresh(rw) = <<>>
  <2>1. out \in Seq(T) /\ Len(out) \in Nat
    BY <1>6 DEF out
  <2>2. SubSeq(out, Len(out) + 1, Len(out)) = <<>>
    BY <2>1
  <2> QED
    BY <1>7, <2>2
<1>9. <<>> \o Leftover(rw) = Leftover(rw)
  <2>1. Leftover(rw) = <<>> \/ Leftover(rw) = <<Char("<")>>
    BY DEF Leftover
  <2>2. \A x : <<>> \o <<x>> = <<x>>
    OBVIOUS
  <2>3. <<>> \o <<>> = <<>>
    OBVIOUS
  <2> QED
    BY <2>1, <2>2, <2>3
<1>10. flushed' = Final(rw)
  BY <1>1, <1>4, <1>8, <1>9 DEF Final, rw
<1> QED
  BY <1>1, <1>3, <1>10, StreamedIs DEF whole

\* A stream opens with nothing given; of an empty document that is all.
LEMMA FirstPiece ==
  ASSUME Streaming, sanitize_stream_new
  PROVE  /\ flushed' = <<>> /\ flushed = <<>> /\ stream.at = "none"
         /\ \/ stream'.at = "freed" /\ Streamed = <<>>
            \/ stream'.at = "open" /\ stream'.rw = HtmlRewriter
<1>1. /\ message.source = "imap" /\ stored # NoHtml /\ stream.at = "none"
      /\ stream' = IF stored = <<>> THEN [at |-> "freed"] ELSE Open(HtmlRewriter)
      /\ flushed' = flushed
  BY DEF sanitize_stream_new
<1>2. Types /\ stored = message.doc /\ flushed = <<>> /\ message.doc \in Docs
  BY <1>1 DEF Streaming, Place, Types
<1>3. CASE stored = <<>>
  <2>1. message.doc = <<>>
    BY <1>2, <1>3
  <2>2. Body = <<>>
    BY <2>1 DEF Units, FlattenSeq, Body
  <2>3. Ran(Body, step, Len(Body)) = HtmlRewriter
    <3>1. Len(<<>>) = 0
      OBVIOUS
    <3> QED
      BY <1>2, <2>2, <3>1, RanHere
  <2>4. Streamed = <<>>
    <3>1. HtmlRewriter.tag = NoTag
      BY DEF HtmlRewriter
    <3> QED
      BY <2>3, <3>1, StreamedIs, FinalIs, FreshRewriter
  <2>5. stream'.at = "freed"
    BY <1>1, <1>3
  <2> QED
    BY <1>1, <1>2, <2>4, <2>5
<1>4. CASE stored # <<>>
  <2>1. stream'.at = "open" /\ stream'.rw = HtmlRewriter
    BY <1>1, <1>4, OpenIs
  <2> QED
    BY <1>1, <1>2, <2>1
<1> QED
  BY <1>3, <1>4

\* Every step leaves the stream at such a place.
LEMMA StreamingKept == Streaming /\ [Next]_vars => Streaming'
<1> SUFFICES ASSUME Streaming, [Next]_vars
             PROVE  Streaming'
  OBVIOUS
<1>1. Types' /\ Types
  BY TypesKept DEF Streaming
<1>2. message' = message /\ step' = step /\ Body' = Body /\ Streamed' = Streamed
  <2>1. message' = message /\ step' = step
    BY DEF Next, vars, storeMessage, persistMessage, readBodyViews, sanitize_stream_new,
           sanitize_stream_write, sanitize_stream_finish
  <2> QED
    BY <2>1 DEF Body, Streamed
<1> SUFFICES Place'
  BY <1>1 DEF Streaming
<1>3. ASSUME UNCHANGED <<stream, pos, flushed>>,
             message.source = "imap" /\ stored' # NoHtml => stored' = message.doc,
             stored # NoHtml => stored' # NoHtml
      PROVE  Place'
  BY <1>2, <1>3 DEF Streaming, Place, At
<1>4. CASE storeMessage
  BY <1>3, <1>4 DEF storeMessage
<1>5. CASE persistMessage
  <2>1. message.source # "imap" /\ stored = NoHtml
    BY <1>5 DEF persistMessage
  <2> QED
    BY <1>3, <1>5, <2>1 DEF persistMessage
<1>6. CASE sanitize_stream_new
  <2>1. /\ UNCHANGED <<stored, pos>> /\ message.source = "imap" /\ stored # NoHtml /\ pos = 1
    BY <1>6 DEF sanitize_stream_new, Streaming, Place
  <2>2. CASE stream'.at = "freed" /\ Streamed = <<>> /\ flushed' = <<>>
    BY <1>2, <2>1, <2>2 DEF Streaming, Place
  <2>3. CASE stream'.at = "open" /\ stream'.rw = HtmlRewriter /\ flushed' = <<>>
    <3>1. Len(Body) \in Nat /\ Ran(Body, step, 0) = HtmlRewriter /\ 0 * step = 0
      BY <1>1, RanHere DEF Types
    <3>2. pos' = 0 * step' + 1 /\ stream'.rw = Ran(Body', step', 0) /\ flushed' = stream'.rw.out
      BY <1>2, <2>1, <2>3, <3>1, FreshRewriter
    <3>3. \E k \in 0 .. Len(Body') :
            /\ pos' = k * step' + 1
            /\ stream'.rw = Ran(Body', step', k)
            /\ flushed' = stream'.rw.out
      <4>1. 0 \in 0 .. Len(Body')
        BY <1>2, <3>1
      <4> QED
        BY <3>2, <4>1
    <3> QED
      BY <1>2, <2>1, <2>3, <3>3 DEF Streaming, Place, At
  <2> QED
    BY <1>6, <2>2, <2>3, FirstPiece
<1>7. CASE sanitize_stream_write
  <2>1. PICK k \in 0 .. Len(Body) - 1 :
          /\ pos' = (k + 1) * step + 1
          /\ stream' = Open(Ran(Body, step, k + 1))
          /\ flushed' = Ran(Body, step, k + 1).out
    BY <1>7, OneTurn
  <2>2. stream'.at = "open" /\ stream'.rw = Ran(Body', step', k + 1)
    BY <1>2, <2>1, OpenIs
  <2>3. k + 1 \in 0 .. Len(Body')
    <3>1. Len(Body) \in Nat
      BY <1>1, RanHere
    <3> QED
      BY <1>2, <3>1
  <2>4. \E j \in 0 .. Len(Body') :
          /\ pos' = j * step' + 1
          /\ stream'.rw = Ran(Body', step', j)
          /\ flushed' = stream'.rw.out
    BY <1>2, <2>1, <2>2, <2>3
  <2>5. stream.at = "open" /\ stored' = stored
    BY <1>7 DEF sanitize_stream_write, Running
  <2> QED
    BY <1>2, <2>2, <2>4, <2>5 DEF Streaming, Place, At
<1>8. CASE sanitize_stream_finish
  <2>1. stored' = stored
    BY <1>8 DEF sanitize_stream_finish
  <2> QED
    BY <1>2, <1>8, <2>1, LastPiece DEF Streaming, Place
<1>9. CASE readBodyViews
  BY <1>3, <1>9 DEF readBodyViews, Streaming, Place
<1>10. CASE UNCHANGED vars
  BY <1>3, <1>10 DEF vars, Streaming, Place
<1> QED
  BY <1>4, <1>5, <1>6, <1>7, <1>8, <1>9, <1>10 DEF Next

-----------------------------------------------------------------------------
(* The refinement. *)

Ended == stream.at = "freed"

\* A step of the pipeline keeps the document, what was given and the end, or
\* gives a piece, or the rest.
AbstractStep == Promised!Next \/ UNCHANGED <<Expected, flushed, Ended>>

\* If the sanitizer takes every chunk, the stream is what the one-shot call
\* makes.
LEMMA ExpectedIs == Types => Expected = Streamed
<1> SUFFICES ASSUME Types, NothingRefused
             PROVE  Streamed = sanitize_for_display(message.doc).html
  BY DEF Expected
<1> DEFINE doc == message.doc
           T == {doc[i] : i \in DOMAIN doc}
           rw == OneShot("display", doc)
<1>1. doc \in Docs /\ step \in Nat \ {0}
  BY DEF Types
<1>2. Taken(Body, step, Len(Body)) = Body
  <2>1. Body \in Seq(UnitsOf(doc))
    BY <1>1, Bytes DEF Body
  <2> QED
    BY <1>1, <2>1, TakenAll DEF NothingRefused
<1>3. Ran(Body, step, Len(Body)) = rw
  BY <1>2 DEF Ran, OneShot, Body
<1>4. Rewriter(rw)
  BY <1>1, AssembledIs
<1>5. rw.tag = NoTag
  <2>1. doc \in Seq(T) /\ \A t \in T : t.kind \in {"start", "end", "char"}
    BY <1>1, DocsAssumption DEF Document, Token
  <2>2. Len(doc) \in 0 .. Len(doc)
    BY <2>1
  <2> HIDE DEF T, rw, doc
  <2>3. Between(After("display", doc, Len(doc))) /\ After("display", doc, Len(doc)) = OneShot("display", doc)
    BY <2>1, <2>2, Stepwise
  <2>4. Between(rw)
    BY <2>3 DEF rw
  <2> QED
    BY <2>4 DEF Between
<1>6. Streamed = Final(rw)
  BY <1>3, StreamedIs
<1> QED
  BY <1>4, <1>5, <1>6, FinalIs DEF sanitize_for_display

\* Nothing changes what the stream takes.
LEMMA ExpectedStays == Streaming /\ [Next]_vars => UNCHANGED Expected /\ Expected = Streamed
<1> SUFFICES ASSUME Streaming, [Next]_vars
             PROVE  UNCHANGED Expected /\ Expected = Streamed
  OBVIOUS
<1>1. message' = message /\ step' = step
  BY DEF Next, vars, storeMessage, persistMessage, readBodyViews, sanitize_stream_new,
         sanitize_stream_write, sanitize_stream_finish
<1> QED
  <2>1. UNCHANGED <<Body, Streamed, NothingRefused>>
    BY <1>1 DEF Body, Streamed, NothingRefused
  <2>2. UNCHANGED Expected
    BY <1>1, <2>1 DEF Expected
  <2>3. Expected = Streamed
    BY ExpectedIs DEF Streaming
  <2> QED
    BY <2>2, <2>3

\* A turn gives a piece that continues the last and is continued by the rest.
LEMMA TurnRefines == Streaming /\ sanitize_stream_write => Promised!Piece
<1> SUFFICES ASSUME Streaming, sanitize_stream_write
             PROVE  Promised!Piece
  OBVIOUS
<1>1. PICK k \in 0 .. Len(Body) - 1 :
        /\ flushed = Ran(Body, step, k).out
        /\ stream' = Open(Ran(Body, step, k + 1))
        /\ flushed' = Ran(Body, step, k + 1).out
  BY OneTurn
<1> DEFINE old == Ran(Body, step, k)
           new == Ran(Body, step, k + 1)
           last == Ran(Body, step, Len(Body))
<1>2. stream.at = "open" /\ stream'.at = "open"
  BY <1>1, OpenIs DEF sanitize_stream_write, Running
<1>3. /\ Rewriter(old) /\ Rewriter(new) /\ Rewriter(last)
      /\ Continues(new.out, old.out) /\ Continues(last.out, new.out)
  <2>1. Types /\ Len(Body) \in Nat
    BY RanHere DEF Streaming
  <2>2. k \in Nat /\ k + 1 \in Nat /\ k + 1 \in 0 .. Len(Body)
    BY <2>1
  <2> QED
    BY <2>1, <2>2, RanHere
<1> HIDE DEF old, new, last
<1>4. Streamed = Final(last)
  BY StreamedIs DEF last
<1>5. Tokens(old.out) /\ Tokens(new.out) /\ Tokens(Streamed) /\ Continues(Streamed, new.out)
  <2>1. Tokens(old.out) /\ Tokens(new.out)
    BY <1>3 DEF Rewriter
  <2>2. Tokens(Final(last)) /\ Continues(Final(last), new.out)
    BY <1>3, <2>1, FinalIs
  <2> QED
    BY <1>4, <2>1, <2>2
<1>6. IsPrefix(old.out, new.out) /\ IsPrefix(new.out, Streamed)
  BY <1>3, <1>5, Beginning
<1>7. flushed = old.out /\ flushed' = new.out
  BY <1>1 DEF old, new
<1>8. UNCHANGED Expected /\ Expected = Streamed
  BY ExpectedStays DEF Next
<1> HIDE DEF Streamed, Expected
<1> QED
  BY <1>2, <1>6, <1>7, <1>8 DEF Promised!Piece, IsPrefix, Promised!IsPrefix

\* Opening a stream gives nothing; for an empty document it is the end.
LEMMA OpeningRefines == Streaming /\ sanitize_stream_new => AbstractStep
<1> SUFFICES ASSUME Streaming, sanitize_stream_new
             PROVE  AbstractStep
  OBVIOUS
<1>1. /\ flushed' = <<>> /\ flushed = <<>> /\ stream.at = "none"
      /\ \/ stream'.at = "freed" /\ Streamed = <<>>
         \/ stream'.at = "open"
  BY FirstPiece
<1>2. UNCHANGED Expected /\ Expected = Streamed
  BY ExpectedStays DEF Next
<1> HIDE DEF Streamed, Expected
<1>3. CASE stream'.at = "freed" /\ Streamed = <<>>
  BY <1>1, <1>2, <1>3 DEF AbstractStep, Promised!Next, Promised!Finish
<1>4. CASE stream'.at = "open"
  BY <1>1, <1>2, <1>4 DEF AbstractStep, Ended
<1> QED
  BY <1>1, <1>3, <1>4

\* However the body is cut into chunks, the pieces of a streamed read continue
\* one another and end up as what the sanitizer makes of the chunks it takes;
\* that is the document of the one-shot call if it takes all of them: for
\* every document and every size of chunk.
THEOREM StreamImplements == Spec => StreamIsProgressive
<1>1. Init => Promised!Init
  BY DEF Init, Promised!Init
<1>2. Streaming /\ [Next]_vars => AbstractStep
  <2> SUFFICES ASSUME Streaming, [Next]_vars
               PROVE  AbstractStep
    OBVIOUS
  <2>1. CASE storeMessage \/ persistMessage \/ readBodyViews \/ UNCHANGED vars
    <3>1. UNCHANGED <<flushed, Ended>>
      BY <2>1 DEF storeMessage, persistMessage, readBodyViews, vars, Ended
    <3>2. UNCHANGED Expected
      BY ExpectedStays
    <3> QED
      BY <3>1, <3>2 DEF AbstractStep
  <2>2. CASE sanitize_stream_finish
    <3>1. flushed' = Streamed /\ stream'.at = "freed" /\ stream.at = "open"
      BY <2>2, LastPiece
    <3>2. UNCHANGED Expected /\ Expected = Streamed
      BY ExpectedStays
    <3> HIDE DEF Streamed, Expected
    <3> QED
      BY <3>1, <3>2 DEF AbstractStep, Promised!Next, Promised!Finish
  <2>3. CASE sanitize_stream_write
    BY <2>3, TurnRefines DEF AbstractStep, Promised!Next
  <2>4. CASE sanitize_stream_new
    BY <2>4, OpeningRefines
  <2> QED
    BY <2>1, <2>2, <2>3, <2>4 DEF Next
<1>3. AbstractStep <=> [Promised!Next]_<<Expected, flushed, Ended>>
  BY DEF AbstractStep
<1>4. Spec => Promised!Spec
  BY <1>1, <1>2, <1>3, StreamingStart, StreamingKept, PTL
  DEF Spec, Promised!Spec, Promised!vars, Ended
<1> QED
  BY <1>4 DEF StreamIsProgressive
=============================================================================
