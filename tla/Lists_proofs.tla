----------------------------- MODULE Lists_proofs -----------------------------
(***************************************************************************)
(* Lemmas about naturals and lists that the components' proofs share.      *)
(* Induction is stated over a set of naturals, so that the provers can     *)
(* use it.                                                                 *)
(***************************************************************************)
EXTENDS Integers, Sequences, SequencesExt, SequenceTheorems, WellFoundedInduction, TLAPS

\* A set of naturals that is not empty has a least element.
LEMMA LeastNatural ==
    ASSUME NEW T, T \subseteq Nat, T # {}
    PROVE  \E n \in T : \A k \in T : n <= k
<1>1. PICK x \in T : \A y \in T : ~(<<y, x>> \in OpToRel(<, Nat))
  BY NatLessThanWellFounded, WFMin
<1>2. ASSUME NEW y \in T, y < x
      PROVE  FALSE
  <2>1. <<y, x>> \in OpToRel(<, Nat)
    BY <1>2 DEF OpToRel
  <2> QED
    BY <1>1, <2>1
<1>3. x \in Nat /\ \A y \in T : y \in Nat
  OBVIOUS
<1>4. \A y \in T : x <= y
  BY <1>2, <1>3
<1> QED
  BY <1>4

\* Induction: a set that has 0 and the successors of its members has every
\* natural.
LEMMA EveryNatural ==
    ASSUME NEW S, 0 \in S, \A n \in Nat : n \in S => n + 1 \in S
    PROVE  \A n \in Nat : n \in S
<1> DEFINE T == Nat \ S
<1> SUFFICES ASSUME T # {}
             PROVE  FALSE
  OBVIOUS
<1>1. PICK n \in T : \A k \in T : n <= k
  <2>1. T \subseteq Nat /\ T # {}
    OBVIOUS
  <2> HIDE DEF T
  <2> QED
    BY <2>1, LeastNatural
<1>2. n \in Nat /\ n \notin S /\ n # 0 /\ n - 1 \in Nat
  BY <1>1
<1>3. n - 1 \in S
  BY <1>1, <1>2
<1>4. (n - 1) + 1 = n
  BY <1>2
<1> QED
  BY <1>2, <1>3, <1>4

\* A set of indexes that is not empty has a greatest.
LEMMA GreatestIndex ==
    ASSUME NEW n \in Nat, NEW T, T \subseteq 1..n, T # {}
    PROVE  \E i \in T : \A j \in T : j <= i
<1> DEFINE U == {n - i : i \in T}
<1>1. \A i \in T : i \in Int /\ 1 <= i /\ i <= n
  OBVIOUS
<1>2. U \subseteq Nat /\ U # {}
  <2>1. \A i \in T : n - i \in Nat
    BY <1>1
  <2> QED
    BY <2>1
<1>3. \E u \in U : \A k \in U : u <= k
  <2> HIDE DEF U
  <2> QED
    BY <1>2, LeastNatural
<1>4. PICK i \in T : \A k \in U : n - i <= k
  BY <1>3
<1>5. ASSUME NEW j \in T
      PROVE  j <= i
  <2>1. n - i <= n - j
    BY <1>4
  <2> QED
    BY <1>1, <2>1
<1> QED
  BY <1>5

\* FlattenSeq's recursion is defined on every index.
LEMMA FlattenRule ==
    ASSUME NEW S, NEW seqs \in Seq(Seq(S)), seqs # <<>>
    PROVE  \E f : /\ FlattenSeq(seqs) = f[Len(seqs)]
                 /\ \A i \in 1..Len(seqs) : f[i] = IF i = 1 THEN seqs[i] ELSE f[i - 1] \o seqs[i]
<1> DEFINE N == Len(seqs)
           Rule(g, n) == [i \in 1..n |-> IF i = 1 THEN seqs[i] ELSE g[i - 1] \o seqs[i]]
           Has(n) == \E g \in [1..n -> Seq(S)] : g = Rule(g, n)
           Some == {n \in Nat : n <= N => Has(n)}
           flatten == CHOOSE g : g = Rule(g, N)
<1>1. N \in Nat /\ \A i \in 1..N : seqs[i] \in Seq(S)
  OBVIOUS
<1>2. N # 0
  <2>1. \A s \in Seq(Seq(S)) : Len(s) = 0 => s = <<>>
    BY EmptySeq
  <2> QED
    BY <2>1
<1>3. 0 \in Some
  <2> DEFINE g == [i \in 1..0 |-> <<>>]
  <2>1. g \in [1..0 -> Seq(S)] /\ g = Rule(g, 0)
    OBVIOUS
  <2>2. Has(0)
    BY <2>1
  <2> HIDE DEF Has
  <2> QED
    BY <2>2
<1>4. ASSUME NEW n \in Nat, n \in Some
      PROVE  n + 1 \in Some
  <2> SUFFICES ASSUME n + 1 <= N
               PROVE  Has(n + 1)
    <3> HIDE DEF Has
    <3> QED
      OBVIOUS
  <2>0. Has(n)
    <3> HIDE DEF Has
    <3> QED
      BY <1>1, <1>4
  <2>1. PICK g \in [1..n -> Seq(S)] : g = Rule(g, n)
    BY <2>0
  <2> DEFINE next == IF n = 0 THEN seqs[1] ELSE g[n] \o seqs[n + 1]
             h == [i \in 1..(n + 1) |-> IF i <= n THEN g[i] ELSE next]
  <2>2. next \in Seq(S)
    <3>1. CASE n = 0
      BY <1>1, <1>3, <3>1
    <3>2. CASE n # 0
      <4>1. g[n] \in Seq(S) /\ seqs[n + 1] \in Seq(S)
        BY <1>1, <3>2
      <4> QED
        BY <3>2, <4>1
    <3> QED
      BY <3>1, <3>2
  <2>3. h \in [1..(n + 1) -> Seq(S)]
    BY <2>2
  <2>4. ASSUME NEW i \in 1..(n + 1)
        PROVE  h[i] = Rule(h, n + 1)[i]
    <3>1. CASE i = 1
      <4>1. h[1] = seqs[1]
        <5>1. CASE n = 0
          BY <5>1
        <5>2. CASE n # 0
          BY <2>1, <5>2
        <5> QED
          BY <5>1, <5>2
      <4> QED
        BY <3>1, <4>1
    <3>2. CASE i # 1 /\ i <= n
      <4>1. i \in 1..n /\ i - 1 \in 1..n /\ i - 1 \in 1..(n + 1) /\ i - 1 <= n
        BY <3>2
      <4>2. h[i] = g[i] /\ h[i - 1] = g[i - 1]
        BY <4>1
      <4>3. g[i] = g[i - 1] \o seqs[i]
        BY <2>1, <3>2, <4>1
      <4> HIDE DEF h
      <4> QED
        BY <3>2, <4>2, <4>3
    <3>3. CASE i # 1 /\ i = n + 1
      <4>1. n # 0 /\ n \in 1..(n + 1) /\ n <= n /\ ~(n + 1 <= n) /\ (n + 1) - 1 = n
        BY <3>3
      <4>2. h[n] = g[n] /\ h[n + 1] = next
        BY <4>1
      <4>3. next = h[n] \o seqs[n + 1]
        BY <4>1, <4>2
      <4>4. Rule(h, n + 1)[n + 1] = h[n] \o seqs[n + 1]
        <5>1. n + 1 \in 1..(n + 1) /\ n + 1 # 1
          BY <4>1
        <5> HIDE DEF h
        <5>2. Rule(h, n + 1)[n + 1] = h[(n + 1) - 1] \o seqs[n + 1]
          BY <5>1
        <5> QED
          BY <4>1, <5>2
      <4> HIDE DEF h, next, Rule
      <4> QED
        BY <3>3, <4>2, <4>3, <4>4
    <3> QED
      BY <3>1, <3>2, <3>3
  <2>5. h = Rule(h, n + 1)
    <3> DEFINE r == Rule(h, n + 1)
    <3>1. r = [i \in 1..(n + 1) |-> r[i]] /\ h = [i \in 1..(n + 1) |-> h[i]]
      OBVIOUS
    <3>2. \A i \in 1..(n + 1) : h[i] = r[i]
      BY <2>4
    <3> HIDE DEF r, h
    <3>3. h = r
      BY <3>1, <3>2
    <3> QED
      BY <3>3 DEF r
  <2> QED
    BY <2>3, <2>5
<1>5. N \in Some
  <2> HIDE DEF Some
  <2> QED
    BY <1>1, <1>3, <1>4, EveryNatural
<1>6. flatten = Rule(flatten, N)
  <2>1. Has(N)
    <3> HIDE DEF Has
    <3> QED
      BY <1>1, <1>5
  <2> QED
    BY <2>1
<1>7. FlattenSeq(seqs) = flatten[N]
  BY <1>2, Zenon DEF FlattenSeq
<1> HIDE DEF flatten
<1>8. \A i \in 1..N : flatten[i] = Rule(flatten, N)[i]
  BY <1>6
<1> QED
  BY <1>7, <1>8

\* Lists joined are a list.
LEMMA FlattenIsSeq ==
    ASSUME NEW S, NEW seqs \in Seq(Seq(S))
    PROVE  FlattenSeq(seqs) \in Seq(S)
<1> DEFINE N == Len(seqs)
<1>1. N \in Nat /\ \A i \in 1..N : seqs[i] \in Seq(S)
  OBVIOUS
<1>2. CASE seqs = <<>>
  BY <1>2 DEF FlattenSeq
<1>3. CASE seqs # <<>>
  <2>1. PICK f : /\ FlattenSeq(seqs) = f[N]
                 /\ \A i \in 1..N : f[i] = IF i = 1 THEN seqs[i] ELSE f[i - 1] \o seqs[i]
    BY <1>3, FlattenRule
  <2> DEFINE Typed == {n \in Nat : n \in 1..N => f[n] \in Seq(S)}
  <2>2. 0 \in Typed
    OBVIOUS
  <2>3. ASSUME NEW n \in Nat, n \in Typed
        PROVE  n + 1 \in Typed
    <3> SUFFICES ASSUME n + 1 \in 1..N
                 PROVE  f[n + 1] \in Seq(S)
      OBVIOUS
    <3>1. f[n + 1] = IF n + 1 = 1 THEN seqs[n + 1] ELSE f[(n + 1) - 1] \o seqs[n + 1]
      BY <2>1
    <3>2. CASE n = 0
      BY <1>1, <3>1, <3>2
    <3>3. CASE n # 0
      <4>1. f[n] \in Seq(S)
        BY <2>3, <3>3
      <4> QED
        BY <1>1, <3>1, <3>3, <4>1
    <3> QED
      BY <3>2, <3>3
  <2>4. N \in Typed
    <3> HIDE DEF Typed
    <3> QED
      BY <1>1, <2>2, <2>3, EveryNatural
  <2>5. N \in 1..N
    BY <1>1, <1>3
  <2> QED
    BY <2>1, <2>4, <2>5
<1> QED
  BY <1>2, <1>3

\* Lists of one element each, joined, are those elements in order.
LEMMA FlattenSingles ==
    ASSUME NEW S, NEW seqs \in Seq(Seq(S)), \A i \in DOMAIN seqs : Len(seqs[i]) = 1
    PROVE  /\ FlattenSeq(seqs) \in Seq(S) /\ Len(FlattenSeq(seqs)) = Len(seqs)
           /\ \A i \in DOMAIN seqs : FlattenSeq(seqs)[i] = seqs[i][1]
<1> DEFINE N == Len(seqs)
<1>1. N \in Nat /\ DOMAIN seqs = 1..N
      /\ \A i \in 1..N : seqs[i] \in Seq(S) /\ Len(seqs[i]) = 1
  OBVIOUS
<1>2. CASE seqs = <<>>
  BY <1>2 DEF FlattenSeq
<1>3. CASE seqs # <<>>
  <2>1. PICK f : /\ FlattenSeq(seqs) = f[N]
                 /\ \A i \in 1..N : f[i] = IF i = 1 THEN seqs[i] ELSE f[i - 1] \o seqs[i]
    BY <1>3, FlattenRule
  <2> DEFINE Firsts(s, n) == /\ s \in Seq(S) /\ Len(s) = n
                             /\ \A i \in 1..n : s[i] = seqs[i][1]
             Good == {n \in Nat : n \in 1..N => Firsts(f[n], n)}
  <2>2. 0 \in Good
    OBVIOUS
  <2>3. ASSUME NEW n \in Nat, n \in Good
        PROVE  n + 1 \in Good
    <3> SUFFICES ASSUME n + 1 \in 1..N
                 PROVE  Firsts(f[n + 1], n + 1)
      OBVIOUS
    <3>1. f[n + 1] = IF n + 1 = 1 THEN seqs[n + 1] ELSE f[(n + 1) - 1] \o seqs[n + 1]
      BY <2>1
    <3>2. CASE n = 0
      BY <1>1, <3>1, <3>2
    <3>3. CASE n # 0
      <4>1. Firsts(f[n], n)
        BY <2>3, <3>3
      <4>2. f[n + 1] = f[n] \o seqs[n + 1] /\ seqs[n + 1] \in Seq(S) /\ Len(seqs[n + 1]) = 1
        <5>1. n + 1 # 1 /\ (n + 1) - 1 = n
          BY <3>3
        <5> QED
          BY <1>1, <3>1, <5>1
      <4>3. /\ f[n + 1] \in Seq(S) /\ Len(f[n + 1]) = n + 1
            /\ \A i \in 1..n : f[n + 1][i] = f[n][i]
            /\ f[n + 1][n + 1] = seqs[n + 1][1]
        <5> DEFINE a == f[n]
                   b == seqs[n + 1]
        <5>1. a \in Seq(S) /\ b \in Seq(S) /\ Len(a) = n /\ Len(b) = 1 /\ f[n + 1] = a \o b
          BY <4>1, <4>2
        <5> HIDE DEF a, b
        <5>2. /\ a \o b \in Seq(S) /\ Len(a \o b) = n + 1
              /\ \A i \in 1..n : (a \o b)[i] = a[i]
              /\ (a \o b)[n + 1] = b[1]
          <6>1. /\ a \o b \in Seq(S) /\ Len(a \o b) = Len(a) + Len(b)
                /\ \A i \in 1..(Len(a) + Len(b)) :
                      (a \o b)[i] = IF i <= Len(a) THEN a[i] ELSE b[i - Len(a)]
            BY <5>1, ConcatProperties
          <6>2. n + 1 \in 1..(n + 1) /\ ~(n + 1 <= n) /\ (n + 1) - n = 1
                /\ \A i \in 1..n : i \in 1..(n + 1) /\ i <= n
            OBVIOUS
          <6> QED
            BY <5>1, <6>1, <6>2
        <5> QED
          BY <5>1, <5>2 DEF a, b
      <4>4. \A i \in 1..(n + 1) : i \in 1..n \/ i = n + 1
        OBVIOUS
      <4> QED
        BY <4>1, <4>3, <4>4
    <3> QED
      BY <3>2, <3>3
  <2>4. N \in Good
    <3> HIDE DEF Good
    <3> QED
      BY <1>1, <2>2, <2>3, EveryNatural
  <2>5. N \in 1..N
    BY <1>1, <1>3
  <2> QED
    BY <1>1, <2>1, <2>4, <2>5
<1> QED
  BY <1>2, <1>3

\* One list joined is that list.
LEMMA FlattenOne ==
    ASSUME NEW x
    PROVE  FlattenSeq(<<x>>) = x
<1> DEFINE seqs == <<x>>
           N == Len(seqs)
           Rule(g, n) == [i \in 1..n |-> IF i = 1 THEN seqs[i] ELSE g[i - 1] \o seqs[i]]
           flatten == CHOOSE g : g = Rule(g, N)
<1>1. N = 1 /\ seqs[1] = x
  OBVIOUS
<1>2. \E g : g = Rule(g, N)
  <2> DEFINE g == [i \in 1..1 |-> seqs[1]]
  <2>1. \A i \in 1..1 : (IF i = 1 THEN seqs[i] ELSE g[i - 1] \o seqs[i]) = seqs[1]
    OBVIOUS
  <2>2. g = Rule(g, 1)
    BY <2>1
  <2> HIDE DEF g
  <2> QED
    BY <1>1, <2>2
<1>3. flatten = Rule(flatten, N)
  BY <1>2
<1>4. flatten[1] = seqs[1]
  <2> HIDE DEF flatten
  <2> QED
    BY <1>1, <1>3
<1>5. N # 0
  BY <1>1
<1>6. FlattenSeq(seqs) = flatten[N]
  BY <1>5, Zenon DEF FlattenSeq
<1> QED
  BY <1>1, <1>4, <1>6
===============================================================================
