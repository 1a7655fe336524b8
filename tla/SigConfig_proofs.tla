--------------------------- MODULE SigConfig_proofs ---------------------------
(***************************************************************************)
(* Lemmas about SigConfig that the components' proofs share: what a capped *)
(* reader gives.                                                           *)
(***************************************************************************)
EXTENDS SigConfig, Httpsig_proofs

\* The smaller of two integers.
LEMMA MinOfTwo ==
    ASSUME NEW i \in Int, NEW j \in Int
    PROVE  Min({i, j}) = IF i <= j THEN i ELSE j
<1>1. (IF i <= j THEN i ELSE j) \in {i, j} /\ \A y \in {i, j} : (IF i <= j THEN i ELSE j) <= y
  OBVIOUS
<1>2. Min({i, j}) \in {i, j} /\ \A y \in {i, j} : Min({i, j}) <= y
  BY <1>1 DEF Min
<1> QED
  BY <1>2

\* A limited reader gives a body up to its limit.
LEMMA LimitedReads ==
    ASSUME NEW S, NEW bytes \in Seq(S), NEW n \in Nat
    PROVE  /\ Len(bytes) <= n => Limited(bytes, n) = bytes
           /\ Len(bytes) > n => Len(Limited(bytes, n)) = n
<1>1. Len(bytes) \in Nat
  OBVIOUS
<1>2. CASE n = 0
  <2>1. Limited(bytes, n) = <<>>
    BY <1>2 DEF Limited
  <2>2. Len(bytes) <= 0 => bytes = <<>>
    BY <1>1
  <2> QED
    BY <1>2, <2>1, <2>2
<1>3. CASE n > 0 /\ Len(bytes) <= n
  <2>1. Limited(bytes, n) = SubSeq(bytes, 1, Len(bytes))
    BY <1>1, <1>3, MinOfTwo DEF Limited
  <2> QED
    BY <1>3, <2>1, SubSeqFull
<1>4. CASE n > 0 /\ Len(bytes) > n
  <2>1. Limited(bytes, n) = SubSeq(bytes, 1, n)
    BY <1>1, <1>4, MinOfTwo DEF Limited
  <2>2. \A i \in 1..n : bytes[i] \in S
    BY <1>4
  <2>3. Len(SubSeq(bytes, 1, n)) = n
    BY <1>4, <2>2, SubSeqProperties
  <2> QED
    BY <1>4, <2>1, <2>3
<1> QED
  BY <1>1, <1>2, <1>3, <1>4

\* The limit of a configuration is an integer if its text is.
LEMMA LimitIsInt ==
    ASSUME NEW config, config.maxBody \in Int
    PROVE  BodyLimit(config) \in Int
<1>1. CASE config.maxBody = 0
  BY <1>1, DefaultsAssumption DEF BodyLimit
<1>2. CASE config.maxBody < 0
  BY <1>2 DEF BodyLimit
<1>3. CASE config.maxBody > 0
  BY <1>3 DEF BodyLimit
<1> QED
  BY <1>1, <1>2, <1>3

\* Reading one byte more than the limit tells a body that is too large, and
\* gives the whole of one that is not, unless the sum wraps.
LEMMA ByteMore ==
    ASSUME NEW limit \in Int, limit < MaxInt, NEW bytes, ListOf(bytes)
    PROVE  LET read == IF limit < 0 THEN bytes ELSE Limited(bytes, Plus(limit, 1))
           IN  /\ Len(bytes) \in Nat
               /\ limit >= 0 => (Len(read) > limit <=> Len(bytes) > limit)
               /\ ~(limit >= 0 /\ Len(bytes) > limit) => read = bytes
               /\ limit >= 0 /\ Len(bytes) > limit => ~(Plus(limit, 1) > Len(bytes))
<1>1. bytes \in Seq(ToSet(bytes)) /\ Len(bytes) \in Nat
  BY DEF ListOf
<1>2. CASE limit < 0
  BY <1>1, <1>2
<1>3. CASE limit >= 0
  <2>1. Plus(limit, 1) = limit + 1 /\ limit + 1 \in Nat
    BY <1>3, MaxIntAssumption DEF Plus
  <2>2. /\ Len(bytes) <= limit + 1 => Limited(bytes, limit + 1) = bytes
        /\ Len(bytes) > limit + 1 => Len(Limited(bytes, limit + 1)) = limit + 1
    BY <1>1, <2>1, LimitedReads
  <2> QED
    BY <1>1, <1>3, <2>1, <2>2
<1> QED
  BY <1>2, <1>3
===============================================================================
