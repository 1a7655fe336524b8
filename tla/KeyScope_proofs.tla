-------------------------- MODULE KeyScope_proofs --------------------------
(***************************************************************************)
(* Proofs about KeyScope, for every ladder, every set of Keys, goroutines, *)
(* secrets and times, and every bound on hand-offs and messages.           *)
(***************************************************************************)
EXTENDS KeyScope, Lists_proofs

-----------------------------------------------------------------------------
(* The ladder's steps *)

\* A valid derivation has one input source per step (validateDerivation).
LEMMA StepSources ==
    ASSUME ValidDerivation, NEW i \in StepIdx
    PROVE  /\ Steps[i].name \in STRING /\ Steps[i].name # ""
           /\ Steps[i].scope \in BOOLEAN
           /\ Steps[i].literal \in Strs
           /\ Steps[i].date # "" =>
                 Steps[i].date \in DateLayouts /\ ~Steps[i].scope /\ Steps[i].literal = EmptyStr
           /\ Steps[i].scope => Steps[i].literal = EmptyStr
           /\ Steps[i].literal # EmptyStr \/ Steps[i].scope \/ Steps[i].date # ""
<1>0. Steps[i] \in StepType
  BY StepsAssumption DEF StepIdx
<1>1. Steps[i] \in [name : STRING, literal : Strs, scope : BOOLEAN, date : STRING]
  BY <1>0 DEF StepType
<1>2. PICK s \in {"literal", "scope", "date"} : InputSources(Steps[i]) = {s}
  BY DEF ValidDerivation
<1>3. /\ Steps[i].literal # EmptyStr <=> "literal" \in InputSources(Steps[i])
      /\ Steps[i].scope <=> "scope" \in InputSources(Steps[i])
      /\ Steps[i].date # "" <=> "date" \in InputSources(Steps[i])
  BY <1>1 DEF InputSources
<1>4. /\ ~("literal" \in InputSources(Steps[i]) /\ "scope" \in InputSources(Steps[i]))
      /\ ~("literal" \in InputSources(Steps[i]) /\ "date" \in InputSources(Steps[i]))
      /\ ~("scope" \in InputSources(Steps[i]) /\ "date" \in InputSources(Steps[i]))
      /\ \/ "literal" \in InputSources(Steps[i])
         \/ "scope" \in InputSources(Steps[i])
         \/ "date" \in InputSources(Steps[i])
  BY <1>2
<1>5. Steps[i].name # "" /\ (Steps[i].date # "" => Steps[i].date \in DateLayouts)
  BY DEF ValidDerivation
<1> QED
  BY <1>1, <1>3, <1>4, <1>5

\* Step names are unique.
LEMMA NamesUnique ==
    ASSUME ValidDerivation, NEW i \in StepIdx, NEW j \in StepIdx,
           Steps[i].name = Steps[j].name
    PROVE  i = j
<1>1. /\ Len(Steps) \in Nat /\ i \in 1..Len(Steps) /\ j \in 1..Len(Steps)
  BY StepsAssumption DEF StepIdx
<1>2. \A m \in StepIdx : \A n \in 1..(m-1) : Steps[n].name # Steps[m].name
  BY DEF ValidDerivation
<1>3. ~(i < j)
  BY <1>1, <1>2
<1>4. ~(j < i)
  BY <1>1, <1>2
<1> QED
  BY <1>1, <1>3, <1>4

\* The step a stage is from is found by its name.
LEMMA FromIdxAt ==
    ASSUME ValidDerivation, NEW i \in StepIdx, NEW stage, stage.from = Steps[i].name
    PROVE  FromIdx(stage) = i
<1>1. Steps[i].name # ""
  BY StepSources
<1>2. \A j \in StepIdx : Steps[j].name = stage.from => j = i
  BY NamesUnique
<1> QED
  BY <1>1, <1>2 DEF FromIdx

LEMMA FromIdxRoot ==
    ASSUME NEW stage, stage.from = ""
    PROVE  FromIdx(stage) = 0
  BY DEF FromIdx

LEMMA FromIdxStep ==
    ASSUME ValidDerivation, NEW stage, stage.from \in StepNames
    PROVE  FromIdx(stage) \in StepIdx /\ stage.from # ""
<1>1. PICK i \in StepIdx : stage.from = Steps[i].name
  BY DEF StepNames
<1>2. FromIdx(stage) = i
  BY <1>1, FromIdxAt
<1>3. stage.from # ""
  BY <1>1, StepSources
<1> QED
  BY <1>2, <1>3

LEMMA FromIdxRange ==
    ASSUME ValidDerivation, NEW stage \in StageSet
    PROVE  FromIdx(stage) \in 0..Len(Steps)
<1>1. stage.from = "" \/ stage.from \in StepNames
  BY DEF StageSet
<1>2. Len(Steps) \in Nat
  BY StepsAssumption
<1>3. 0 \in 0..Len(Steps) /\ StepIdx \subseteq 0..Len(Steps)
  BY <1>2 DEF StepIdx
<1> QED
  BY <1>1, <1>3, FromIdxRoot, FromIdxStep

-----------------------------------------------------------------------------
(* Claims *)

\* What TypeOK says of a Key.
KeyOK(key) ==
    /\ key \in KeySet
    /\ ValidDerivation
    /\ ValidStage(key.stage)
    /\ key.from = FromIdx(key.stage)

\* A valid stage states a value for every step that needs one.
LEMMA NeededStated ==
    ASSUME ValidDerivation, NEW stage \in StageSet, ValidStage(stage),
           NEW i \in Needed(FromIdx(stage)), Steps[i].scope
    PROVE  ScopeOf(stage, i) \in Strs
<1>1. ScopeOf(stage, i) # EmptyStr
  BY DEF ValidStage
<1>2. PICK D \in SUBSET StepNames : stage.scope \in [D -> Strs]
  BY DEF StageSet
<1> QED
  BY <1>1, <1>2 DEF ScopeOf

LEMMA ClaimsType ==
    ASSUME NEW key, KeyOK(key), NEW c \in Times \union {ZeroTime}, ClaimsOK(key, c)
    PROVE  Claims(key, c) \in ClaimSeqs
<1> SUFFICES ASSUME NEW i \in StepIdx
             PROVE  Claims(key, c)[i] \in Strs
  BY DEF Claims, ClaimSeqs
<1>1. CASE Steps[i].date # ""
  <2>1. c \in Times /\ Steps[i].date \in DateLayouts
    BY <1>1, StepSources DEF ClaimsOK, KeyOK
  <2> QED
    BY <1>1, <2>1, DatesAssumption DEF Claims
<1>2. CASE Steps[i].date = "" /\ Steps[i].scope
  <2>1. i \in Needed(FromIdx(key.stage))
    BY <1>2 DEF Needed
  <2>2. key.stage \in StageSet
    BY DEF KeyOK, KeySet
  <2> QED
    BY <1>2, <2>1, <2>2, NeededStated DEF Claims, KeyOK
<1>3. CASE Steps[i].date = "" /\ ~Steps[i].scope
  BY <1>3, StepSources DEF Claims, KeyOK
<1> QED
  BY <1>1, <1>2, <1>3

\* The claims for any time a key can derive for agree with what the key has
\* absorbed already.
LEMMA ClaimsBaked ==
    ASSUME NEW key, KeyOK(key), NEW c, ClaimsOK(key, c),
           NEW i \in StepIdx, i <= key.from
    PROVE  Claims(key, c)[i] = Baked(key.stage, i)
<1>1. CASE Steps[i].date # ""
  BY <1>1, StepSources DEF Claims, ClaimsOK, Baked, KeyOK
<1>2. CASE Steps[i].date = "" /\ Steps[i].scope
  BY <1>2, StepSources DEF Claims, Baked, KeyOK
<1>3. CASE Steps[i].date = "" /\ ~Steps[i].scope
  BY <1>3, StepSources DEF Claims, Baked, KeyOK
<1> QED
  BY <1>1, <1>2, <1>3

-----------------------------------------------------------------------------
(* The ladder *)

\* Continuing the ladder from any rung of a scope gives the rungs from the
\* root: where a participant stands does not show in what it derives.
LEMMA Rungs ==
    ASSUME NEW r \in Seq(Strs), NEW claims \in ClaimSeqs,
           NEW hi \in 0..Len(Steps), NEW from \in 0..hi,
           Len(r) = from, \A i \in 1..from : r[i] = claims[i]
    PROVE  r \o SubSeq(claims, from + 1, hi) = [i \in 1..hi |-> claims[i]]
<1>1. Len(Steps) \in Nat /\ hi \in Nat /\ from \in Nat
  BY StepsAssumption
<1>2. claims \in Seq(Strs) /\ Len(claims) = Len(Steps)
  BY <1>1 DEF ClaimSeqs, StepIdx
<1> DEFINE sub == SubSeq(claims, from + 1, hi)
<1>3. /\ sub \in Seq(Strs) /\ Len(sub) = hi - from
      /\ \A i \in 1..(hi - from) : sub[i] = claims[from + i]
  BY <1>1, <1>2
<1> HIDE DEF sub
<1>4. /\ r \o sub \in Seq(Strs) /\ Len(r \o sub) = hi
      /\ \A i \in 1..hi : (r \o sub)[i] = IF i <= from THEN r[i] ELSE sub[i - from]
  <2>1. /\ r \o sub \in Seq(Strs) /\ Len(r \o sub) = Len(r) + Len(sub)
        /\ \A i \in 1..(Len(r) + Len(sub)) :
              (r \o sub)[i] = IF i <= Len(r) THEN r[i] ELSE sub[i - Len(r)]
    BY <1>3, ConcatProperties
  <2>2. Len(r) + Len(sub) = hi
    BY <1>1, <1>3
  <2> QED
    BY <2>1, <2>2
<1>5. ASSUME NEW i \in 1..hi PROVE (r \o sub)[i] = claims[i]
  <2>1. CASE i <= from
    BY <1>1, <1>4, <2>1
  <2>2. CASE ~(i <= from)
    <3>1. i - from \in 1..(hi - from) /\ from + (i - from) = i
      BY <1>1, <2>2
    <3> QED
      BY <1>3, <1>4, <2>2, <3>1
  <2> QED
    BY <2>1, <2>2
<1>6. r \o sub \in [1..hi -> Strs]
  BY <1>4, LenProperties
<1> QED
  BY <1>5, <1>6 DEF sub

LEMMA Ladder ==
    ASSUME NEW m \in MaterialSet, NEW claims \in ClaimSeqs,
           NEW hi \in 0..Len(Steps), NEW from \in 0..hi,
           Len(m.rungs) = from, \A i \in 1..from : m.rungs[i] = claims[i]
    PROVE  HMACLadder(m, claims, from + 1, hi)
             = [prefix |-> m.prefix, secret |-> m.secret,
                rungs |-> [i \in 1..hi |-> claims[i]]]
<1>1. m.rungs \in Seq(Strs)
  BY DEF MaterialSet
<1>2. m.rungs \o SubSeq(claims, from + 1, hi) = [i \in 1..hi |-> claims[i]]
  BY <1>1, Rungs
<1>3. HMACLadder(m, claims, from + 1, hi)
        = [m EXCEPT !.rungs = [i \in 1..hi |-> claims[i]]]
  BY <1>2 DEF HMACLadder
<1> QED
  BY <1>3 DEF MaterialSet
-----------------------------------------------------------------------------
(* Keys and hand-offs *)

KeyFaithful(key) ==
    /\ key.material.prefix = SecretPrefix
    /\ key.material.rungs = [i \in 1..key.from |-> Baked(key.stage, i)]

LEMMA KeyFields ==
    ASSUME NEW key, KeyOK(key)
    PROVE  /\ key.stage \in StageSet /\ key.stage.name \in Strs
           /\ key.from \in 0..Len(Steps)
           /\ key.material \in MaterialSet /\ key.material.secret \in Secrets
           /\ key.material.rungs \in Seq(Strs)
           /\ key.memo \in MemoSet \union {NoMemo}
<1>1. key \in KeySet
  BY DEF KeyOK
<1>2. /\ key.stage \in StageSet /\ key.from \in 0..Len(Steps)
      /\ key.material \in MaterialSet /\ key.memo \in MemoSet \union {NoMemo}
  BY <1>1 DEF KeySet
<1> QED
  BY <1>2 DEF StageSet, MaterialSet

\* What a faithful key has absorbed, any claims it can hold continue.
LEMMA FaithfulLadder ==
    ASSUME NEW key, KeyOK(key), KeyFaithful(key), NEW claims \in ClaimSeqs,
           \A i \in 1..key.from : claims[i] = Baked(key.stage, i),
           NEW hi \in 0..Len(Steps), key.from <= hi
    PROVE  HMACLadder(key.material, claims, key.from + 1, hi)
             = [prefix |-> SecretPrefix, secret |-> key.material.secret,
                rungs |-> [i \in 1..hi |-> claims[i]]]
<1>1. /\ key.from \in 0..Len(Steps) /\ key.material \in MaterialSet
      /\ key.material.rungs \in Seq(Strs) /\ Len(Steps) \in Nat
  BY KeyFields, StepsAssumption
<1>2. key.from \in 0..hi
  BY <1>1
<1>3. key.material.rungs = [i \in 1..key.from |-> Baked(key.stage, i)]
  BY DEF KeyFaithful
<1>4. Len(key.material.rungs) = key.from
  <2>1. DOMAIN key.material.rungs = 1..Len(key.material.rungs) /\ Len(key.material.rungs) \in Nat
    BY <1>1, LenProperties
  <2>2. DOMAIN key.material.rungs = 1..key.from
    BY <1>3
  <2> QED
    BY <1>1, <2>1, <2>2
<1>5. \A i \in 1..key.from : key.material.rungs[i] = claims[i]
  BY <1>3
<1>6. HMACLadder(key.material, claims, key.from + 1, hi)
        = [prefix |-> key.material.prefix, secret |-> key.material.secret,
           rungs |-> [i \in 1..hi |-> claims[i]]]
  BY <1>1, <1>2, <1>4, <1>5, Ladder
<1> QED
  BY <1>6 DEF KeyFaithful

\* Every key derived from a faithful Key is the scheduled one.
LEMMA RunLadderScheduled ==
    ASSUME NEW key, KeyOK(key), KeyFaithful(key), NEW claims \in ClaimSeqs,
           \A i \in 1..key.from : claims[i] = Baked(key.stage, i)
    PROVE  /\ RunLadder(key, claims) = ScheduledKey(key, claims)
           /\ RunLadder(key, claims) \in MaterialSet
<1>1. Len(Steps) \in Nat /\ key.from \in 0..Len(Steps)
  BY KeyFields, StepsAssumption
<1>2. RunLadder(key, claims)
        = [prefix |-> SecretPrefix, secret |-> key.material.secret,
           rungs |-> [i \in 1..Len(Steps) |-> claims[i]]]
  BY <1>1, FaithfulLadder DEF RunLadder
<1>3. [i \in 1..Len(Steps) |-> claims[i]] = claims
  BY DEF ClaimSeqs, StepIdx
<1>4. claims \in Seq(Strs)
  BY <1>1 DEF ClaimSeqs, StepIdx
<1>5. key.material.secret \in Secrets
  BY KeyFields
<1> QED
  BY <1>2, <1>3, <1>4, <1>5 DEF ScheduledKey, MaterialSet

\* A Key's own claims agree with what it has absorbed, over the whole range.
LEMMA ClaimsContinue ==
    ASSUME NEW key, KeyOK(key), NEW c \in Times \union {ZeroTime}, ClaimsOK(key, c)
    PROVE  /\ Claims(key, c) \in ClaimSeqs
           /\ \A i \in 1..key.from : Claims(key, c)[i] = Baked(key.stage, i)
<1>1. Claims(key, c) \in ClaimSeqs
  BY ClaimsType
<1>2. Len(Steps) \in Nat /\ key.from \in 0..Len(Steps)
  BY KeyFields, StepsAssumption
<1>3. \A i \in 1..key.from : i \in StepIdx /\ i <= key.from
  BY <1>2 DEF StepIdx
<1>4. \A i \in 1..key.from : Claims(key, c)[i] = Baked(key.stage, i)
  BY <1>3, ClaimsBaked
<1> QED
  BY <1>1, <1>4

OfferFaithful(o) ==
    /\ ValidDerivation
    /\ o.stage.from \in StepNames
    /\ o.material.prefix = SecretPrefix
    /\ o.material.rungs = [i \in 1..FromIdx(o.stage) |-> Baked(o.stage, i)]

\* The stage Derive writes down records every value the material absorbed.
LEMMA DerivedStageFaithful ==
    ASSUME NEW key, KeyOK(key), NEW c \in Times \union {ZeroTime}, ClaimsOK(key, c),
           NEW through \in StepIdx
    PROVE  LET st == DerivedStage(key, through, c)
           IN  /\ st \in StageSet
               /\ st.from \in StepNames
               /\ FromIdx(st) = through
               /\ \A i \in 1..through : Baked(st, i) = Claims(key, c)[i]
<1> DEFINE kept == {i \in StepIdx : \/ Steps[i].scope
                                    \/ Steps[i].date # "" /\ i <= through}
           names == {Steps[i].name : i \in kept}
           st == DerivedStage(key, through, c)
<1>1. ValidDerivation /\ Claims(key, c) \in ClaimSeqs /\ key.stage.name \in Strs
  BY ClaimsType, KeyFields DEF KeyOK
<1>2. \A i \in kept : (CHOOSE j \in kept : Steps[j].name = Steps[i].name) = i
  <2> TAKE i \in kept
  <2>1. \A j \in kept : Steps[j].name = Steps[i].name => j = i
    BY <1>1, NamesUnique
  <2> QED
    BY <2>1
<1>3. /\ st.name = key.stage.name /\ st.from = Steps[through].name
      /\ st.scope = [n \in names |->
            Claims(key, c)[CHOOSE i \in kept : Steps[i].name = n]]
  BY DEF DerivedStage
<1>4. \A i \in kept : /\ Steps[i].name \in DOMAIN st.scope
                      /\ st.scope[Steps[i].name] = Claims(key, c)[i]
  <2> TAKE i \in kept
  <2>1. Steps[i].name \in names
    OBVIOUS
  <2> HIDE DEF st, kept, names
  <2>2. st.scope[Steps[i].name]
          = Claims(key, c)[CHOOSE j \in kept : Steps[j].name = Steps[i].name]
    BY <1>3, <2>1
  <2>3. (CHOOSE j \in kept : Steps[j].name = Steps[i].name) = i
    BY <1>2
  <2> QED
    BY <1>3, <2>1, <2>2, <2>3
<1>5. st.from \in StepNames /\ FromIdx(st) = through
  BY <1>1, <1>3, FromIdxAt DEF StepNames
<1>6. st \in StageSet
  <2>1. names \in SUBSET StepNames
    BY DEF StepNames
  <2>2. \A n \in names : st.scope[n] \in Strs
    BY <1>1, <1>4 DEF ClaimSeqs
  <2>3. st.scope \in [names -> Strs]
    BY <1>3, <2>2
  <2>4. st.scope \in UNION {[D -> Strs] : D \in SUBSET StepNames}
    BY <2>1, <2>3
  <2>5. st = [name |-> st.name, from |-> st.from, scope |-> st.scope]
    BY DEF DerivedStage
  <2> QED
    BY <1>1, <1>3, <1>5, <2>4, <2>5 DEF StageSet
<1>7. \A i \in 1..through : Baked(st, i) = Claims(key, c)[i]
  <2> TAKE i \in 1..through
  <2>1. i \in StepIdx /\ i <= through
    BY StepsAssumption DEF StepIdx
  <2>2. CASE Steps[i].literal # EmptyStr
    BY <1>1, <2>1, <2>2, StepSources DEF Baked, Claims
  <2>3. CASE Steps[i].literal = EmptyStr
    <3>1. i \in kept
      BY <1>1, <2>1, <2>3, StepSources
    <3> HIDE DEF st, kept
    <3> QED
      BY <1>4, <2>3, <3>1 DEF Baked, ScopeOf
  <2> QED
    BY <2>2, <2>3
<1> QED
  BY <1>5, <1>6, <1>7

-----------------------------------------------------------------------------
(* The invariant, key by key, call by call and offer by offer *)

MemoGood(key) ==
    key.memo # NoMemo => key.memo.derived = ScheduledKey(key, key.memo.claims)
KeyGood(key) == KeyOK(key) /\ KeyFaithful(key) /\ MemoGood(key)
KeysGood ==
    /\ keys \in [Keys -> KeySet \union {NoKey}]
    /\ \A k \in Keys : keys[k] # NoKey => KeyGood(keys[k])

\* What a call that is not idle holds, of the Key it is on.
CallGood(c, key) ==
    /\ key # NoKey
    /\ c.claims \in ClaimSeqs
    /\ \A i \in 1..key.from : c.claims[i] = Baked(key.stage, i)
    /\ c.op = "verify" => NamesScope(key, c.claims, c.msg.keyid)
    /\ c.pc = "done" => c.res = ScheduledKey(key, c.claims)
CallShape(c) ==
    /\ c \in CallSet
    /\ c.pc = "done" <=> c.res # NoMaterial
    /\ c.pc = "idle" => c = IdleCall
    /\ c.pc # "idle" => c.key \in Keys
    /\ c.op = "verify" => c.msg \in MessageSet
CallsGood ==
    /\ calls \in [Threads -> CallSet]
    /\ \A t \in Threads : /\ CallShape(calls[t])
                          /\ calls[t].pc # "idle" => CallGood(calls[t], keys[calls[t].key])

OffersGood ==
    /\ offers \subseteq [material : MaterialSet, stage : StageSet]
    /\ \A o \in offers : OfferFaithful(o)
SentGood == sent \subseteq MessageSet

LEMMA InvParts == Inv <=> KeysGood /\ CallsGood /\ OffersGood /\ SentGood
<1>1. KeysGood <=>
        /\ keys \in [Keys -> KeySet \union {NoKey}]
        /\ \A k \in Keys : keys[k] # NoKey =>
             ValidDerivation /\ ValidStage(keys[k].stage) /\ keys[k].from = FromIdx(keys[k].stage)
        /\ StageFaithful /\ MemoSound
  BY DEF KeysGood, KeyGood, KeyOK, KeyFaithful, MemoGood, StageFaithful, MemoSound
<1>2. CallsGood <=>
        /\ calls \in [Threads -> CallSet]
        /\ \A t \in Threads :
             /\ calls[t].pc = "done" <=> calls[t].res # NoMaterial
             /\ IF calls[t].pc = "idle" THEN calls[t] = IdleCall
                ELSE /\ calls[t].key \in Keys /\ keys[calls[t].key] # NoKey
                     /\ calls[t].claims \in ClaimSeqs
             /\ calls[t].op = "verify" => calls[t].msg \in MessageSet
        /\ CallsSound
  BY Zenon DEF CallsGood, CallShape, CallGood, CallsSound
<1>3. OffersGood <=>
        offers \subseteq [material : MaterialSet, stage : StageSet] /\ OffersFaithful
  BY Zenon DEF OffersGood, OfferFaithful, OffersFaithful
<1> QED
  BY <1>1, <1>2, <1>3, Zenon DEF Inv, TypeOK, SentGood

Parts == KeysGood /\ CallsGood /\ OffersGood /\ SentGood

LEMMA InitParts == Init => Parts
<1> SUFFICES ASSUME Init PROVE Parts
  OBVIOUS
<1>1. KeysGood
  BY DEF Init, KeysGood
<1>2. IdleCall \in CallSet /\ IdleCall.res = NoMaterial /\ IdleCall.pc = "idle"
        /\ IdleCall.op = "none"
  BY DEF IdleCall, CallSet
<1>3. CallsGood
  BY <1>2 DEF Init, CallsGood, CallShape
<1>4. OffersGood /\ SentGood
  BY DEF Init, OffersGood, SentGood
<1> QED
  BY <1>1, <1>3, <1>4 DEF Parts

\* A Key New returns is faithful: at a root because nothing is absorbed yet,
\* elsewhere because its material and stage are an offer's.
IsRoot(stage) == stage.from = ""
LEMMA NewKeyRoot ==
    ASSUME NEW stage \in StageSet, NEW secret \in Secrets,
           IsRoot(stage), ValidDerivation, ValidStage(stage),
           NEW key, key = NewKey(stage, RootMaterial(secret))
    PROVE  key \in KeySet /\ KeyGood(key)
<1>1. FromIdx(stage) = 0
  BY FromIdxRoot DEF IsRoot
<1>2. SecretPrefix \o <<>> = SecretPrefix
  BY PrefixAssumption, ConcatEmptySeq
<1>3. key = [stage |-> stage, from |-> 0,
             material |-> [prefix |-> SecretPrefix, secret |-> secret, rungs |-> <<>>],
             memo |-> NoMemo]
  BY <1>1, <1>2 DEF NewKey, RootMaterial
<1>4. [prefix |-> SecretPrefix, secret |-> secret, rungs |-> <<>>] \in MaterialSet
  BY DEF MaterialSet
<1>5. key \in KeySet
  <2>1. 0 \in 0..Len(Steps)
    BY StepsAssumption
  <2> QED
    BY <1>3, <1>4, <2>1 DEF KeySet
<1>6. KeyFaithful(key)
  <2>1. <<>> = [i \in 1..0 |-> Baked(stage, i)]
    OBVIOUS
  <2> QED
    BY <1>3, <2>1 DEF KeyFaithful
<1> QED
  BY <1>1, <1>3, <1>5, <1>6 DEF KeyGood, KeyOK, MemoGood

LEMMA NewKeyOffer ==
    ASSUME NEW o \in [material : MaterialSet, stage : StageSet],
           OfferFaithful(o), ValidStage(o.stage),
           NEW key, key = NewKey(o.stage, o.material)
    PROVE  key \in KeySet /\ KeyGood(key)
<1>1. ValidDerivation /\ o.stage \in StageSet /\ o.material \in MaterialSet
  BY DEF OfferFaithful
<1>2. FromIdx(o.stage) \in 0..Len(Steps) /\ FromIdx(o.stage) # 0
  <2>1. FromIdx(o.stage) \in StepIdx
    BY <1>1, FromIdxStep DEF OfferFaithful
  <2> QED
    BY <1>1, <2>1, FromIdxRange, StepsAssumption DEF StepIdx
<1>3. key = [stage |-> o.stage, from |-> FromIdx(o.stage),
             material |-> o.material, memo |-> NoMemo]
  BY <1>2 DEF NewKey
<1>4. key \in KeySet
  BY <1>1, <1>2, <1>3 DEF KeySet
<1>5. KeyFaithful(key)
  BY <1>3 DEF KeyFaithful, OfferFaithful
<1> QED
  BY <1>1, <1>3, <1>4, <1>5 DEF KeyGood, KeyOK, MemoGood

\* Calls do not notice a new Key, nor a new memo.
LEMMA CallsKeep ==
    ASSUME CallsGood, UNCHANGED calls,
           \A k \in Keys : keys[k] # NoKey =>
             /\ keys'[k] # NoKey
             /\ keys'[k].stage = keys[k].stage /\ keys'[k].from = keys[k].from
             /\ keys'[k].material = keys[k].material
    PROVE  CallsGood'
<1>1. ASSUME NEW t \in Threads, calls[t].pc # "idle"
      PROVE  CallGood(calls[t], keys'[calls[t].key])
  <2>1. calls[t].key \in Keys /\ CallGood(calls[t], keys[calls[t].key])
    BY <1>1 DEF CallsGood, CallShape
  <2> QED
    BY <2>1 DEF CallGood, ScheduledKey, NamesScope
<1> QED
  BY <1>1 DEF CallsGood

LEMMA NewKeyKeeps ==
    ASSUME Parts, NEW k \in Keys, NEW key \in KeySet, KeyGood(key),
           keys[k] = NoKey, keys' = [keys EXCEPT ![k] = key],
           UNCHANGED <<calls, offers, sent>>
    PROVE  Parts'
<1>1. KeysGood'
  BY DEF Parts, KeysGood
<1>2. CallsGood'
  <2>1. \A j \in Keys : keys[j] # NoKey => keys'[j] = keys[j]
    BY DEF Parts, KeysGood
  <2> QED
    BY <2>1, CallsKeep DEF Parts
<1> QED
  BY <1>1, <1>2 DEF Parts, OffersGood, SentGood

-----------------------------------------------------------------------------
(* One lemma per action *)

LEMMA ProvisionStep ==
    ASSUME Parts, NEW k \in Keys, NEW secret \in Secrets, NEW stage \in ConfigStages,
           Provision(k, secret, stage)
    PROVE  Parts'
<1> DEFINE key == NewKey(stage, RootMaterial(secret))
<1>1. stage \in StageSet /\ IsRoot(stage) /\ ValidDerivation /\ ValidStage(stage)
  BY StagesAssumption DEF Provision, IsRoot
<1>2. /\ keys[k] = NoKey /\ keys' = [keys EXCEPT ![k] = key]
      /\ UNCHANGED <<calls, offers, sent>>
  BY DEF Provision
<1> HIDE DEF key
<1>3. key \in KeySet /\ KeyGood(key)
  BY <1>1, NewKeyRoot DEF key
<1> QED
  BY <1>2, <1>3, NewKeyKeeps

LEMMA ReceiveStep ==
    ASSUME Parts, NEW k \in Keys, NEW o \in offers, Receive(k, o)
    PROVE  Parts'
<1> DEFINE key == NewKey(o.stage, o.material)
<1>1. o \in [material : MaterialSet, stage : StageSet] /\ OfferFaithful(o)
  BY DEF Parts, OffersGood
<1>2. /\ keys[k] = NoKey /\ ValidStage(o.stage) /\ keys' = [keys EXCEPT ![k] = key]
      /\ UNCHANGED <<calls, offers, sent>>
  BY DEF Receive
<1> HIDE DEF key
<1>3. key \in KeySet /\ KeyGood(key)
  BY <1>1, <1>2, NewKeyOffer DEF key
<1> QED
  BY <1>2, <1>3, NewKeyKeeps

LEMMA DeriveStep ==
    ASSUME Parts, NEW k \in Keys, NEW through \in StepIdx,
           NEW c \in Times \union {ZeroTime}, Derive(k, through, c)
    PROVE  Parts'
<1> DEFINE key == keys[k]
           material == HMACLadder(key.material, Claims(key, c), key.from + 1, through)
           stage == DerivedStage(key, through, c)
           o == [material |-> material, stage |-> stage]
<1>1. /\ KeyOK(key) /\ KeyFaithful(key) /\ ClaimsOK(key, c) /\ key.from < through
      /\ offers' = offers \union {o} /\ UNCHANGED <<keys, calls, sent>>
  BY DEF Derive, Parts, KeysGood, KeyGood
<1> HIDE DEF key
<1>2. /\ Claims(key, c) \in ClaimSeqs
      /\ \A i \in 1..key.from : Claims(key, c)[i] = Baked(key.stage, i)
  BY <1>1, ClaimsContinue
<1>3. /\ Len(Steps) \in Nat /\ through \in 0..Len(Steps) /\ key.from <= through
      /\ key.from \in 0..Len(Steps) /\ key.material.secret \in Secrets
  BY <1>1, KeyFields, StepsAssumption DEF StepIdx
<1>4. material = [prefix |-> SecretPrefix, secret |-> key.material.secret,
                  rungs |-> [i \in 1..through |-> Claims(key, c)[i]]]
  BY <1>1, <1>2, <1>3, FaithfulLadder
<1>5. /\ stage \in StageSet /\ stage.from \in StepNames /\ FromIdx(stage) = through
      /\ \A i \in 1..through : Baked(stage, i) = Claims(key, c)[i]
  BY <1>1, DerivedStageFaithful
<1> HIDE DEF material, stage
<1>6. material \in MaterialSet
  <2>1. \A i \in 1..through : Claims(key, c)[i] \in Strs
    BY <1>2, <1>3 DEF ClaimSeqs, StepIdx
  <2>2. [i \in 1..through |-> Claims(key, c)[i]] \in Seq(Strs)
    BY <1>3, <2>1
  <2> QED
    BY <1>3, <1>4, <2>2 DEF MaterialSet
<1>7. [i \in 1..FromIdx(stage) |-> Baked(stage, i)] = [i \in 1..through |-> Claims(key, c)[i]]
  BY <1>5
<1>8. OfferFaithful(o)
  BY <1>1, <1>4, <1>5, <1>7 DEF OfferFaithful, KeyOK
<1>9. OffersGood'
  BY <1>1, <1>5, <1>6, <1>8 DEF Parts, OffersGood
<1>10. KeysGood' /\ CallsGood' /\ SentGood'
  BY <1>1 DEF Parts, KeysGood, CallsGood, SentGood
<1> QED
  BY <1>9, <1>10 DEF Parts

\* Starting, answering or ending one call leaves the others as they were.
LEMMA OneCall ==
    ASSUME Parts, NEW t \in Threads, NEW c, UNCHANGED <<keys, offers>>, SentGood',
           calls' = [calls EXCEPT ![t] = c], CallShape(c),
           c.pc # "idle" => CallGood(c, keys[c.key])
    PROVE  Parts'
<1>1. CallsGood'
  BY DEF Parts, CallsGood, CallShape
<1> QED
  BY <1>1 DEF Parts, KeysGood, OffersGood

LEMMA IdleShape == CallShape(IdleCall) /\ IdleCall.pc = "idle"
  BY DEF CallShape, IdleCall, CallSet

LEMMA BeginSignerStep ==
    ASSUME Parts, NEW t \in Threads, NEW k \in Keys,
           NEW c \in Times \union {ZeroTime}, BeginSigner(t, k, c)
    PROVE  Parts'
<1> DEFINE call == NewCall("sign", k, Claims(keys[k], c), NoMsg)
<1>1. KeyOK(keys[k]) /\ ClaimsOK(keys[k], c) /\ keys[k] # NoKey
  BY DEF BeginSigner, Parts, KeysGood, KeyGood
<1>2. /\ Claims(keys[k], c) \in ClaimSeqs
      /\ \A i \in 1..keys[k].from : Claims(keys[k], c)[i] = Baked(keys[k].stage, i)
  BY <1>1, ClaimsContinue
<1>3. call = [pc |-> "load", op |-> "sign", key |-> k, claims |-> Claims(keys[k], c),
              msg |-> NoMsg, res |-> NoMaterial]
  BY DEF NewCall
<1>4. CallShape(call)
  BY <1>2, <1>3 DEF CallShape, CallSet
<1>5. CallGood(call, keys[call.key])
  BY <1>1, <1>2, <1>3 DEF CallGood
<1>6. calls' = [calls EXCEPT ![t] = call] /\ UNCHANGED <<keys, offers>> /\ SentGood'
  BY DEF BeginSigner, Parts, SentGood
<1> QED
  BY <1>4, <1>5, <1>6, OneCall

LEMMA ArrivingTyped ==
    ASSUME SentGood PROVE Arriving \subseteq MessageSet
<1>1. StrayKeyIDs \subseteq KeyIDs
  BY DEF KeyIDs
<1> QED
  BY <1>1 DEF SentGood, Arriving, MessageSet

LEMMA BeginVerifierStep ==
    ASSUME Parts, NEW t \in Threads, NEW k \in Keys, NEW m \in Arriving,
           BeginVerifier(t, k, m)
    PROVE  Parts'
<1> DEFINE call == NewCall("verify", k, Claims(keys[k], m.created), m)
<1>1. m \in MessageSet /\ m.created \in Times \union {ZeroTime}
  BY ArrivingTyped DEF Parts, MessageSet
<1>2. /\ KeyOK(keys[k]) /\ ClaimsOK(keys[k], m.created) /\ keys[k] # NoKey
      /\ NamesScope(keys[k], Claims(keys[k], m.created), m.keyid)
  BY DEF BeginVerifier, VerifierOK, Parts, KeysGood, KeyGood
<1>3. /\ Claims(keys[k], m.created) \in ClaimSeqs
      /\ \A i \in 1..keys[k].from : Claims(keys[k], m.created)[i] = Baked(keys[k].stage, i)
  BY <1>1, <1>2, ClaimsContinue
<1>4. call = [pc |-> "load", op |-> "verify", key |-> k,
              claims |-> Claims(keys[k], m.created), msg |-> m, res |-> NoMaterial]
  BY DEF NewCall
<1>5. CallShape(call)
  BY <1>1, <1>3, <1>4 DEF CallShape, CallSet
<1>6. CallGood(call, keys[call.key])
  BY <1>2, <1>3, <1>4 DEF CallGood
<1>7. calls' = [calls EXCEPT ![t] = call] /\ UNCHANGED <<keys, offers>> /\ SentGood'
  BY DEF BeginVerifier, Parts, SentGood
<1> QED
  BY <1>5, <1>6, <1>7, OneCall

\* A call in progress, with the Key it is on.
LEMMA CallInProgress ==
    ASSUME Parts, NEW t \in Threads, calls[t].pc # "idle"
    PROVE  /\ calls[t].key \in Keys
           /\ KeyGood(keys[calls[t].key])
           /\ CallShape(calls[t])
           /\ CallGood(calls[t], keys[calls[t].key])
<1>1. calls[t].key \in Keys /\ CallShape(calls[t]) /\ CallGood(calls[t], keys[calls[t].key])
  BY DEF Parts, CallsGood, CallShape
<1>2. keys[calls[t].key] # NoKey
  BY <1>1 DEF CallGood
<1> QED
  BY <1>1, <1>2 DEF Parts, KeysGood

\* An answer that is the scheduled key leaves a good call, done.
Answered(c, res) == [c EXCEPT !.pc = "done", !.res = res]
LEMMA AnsweredFields ==
    ASSUME NEW c \in CallSet, NEW res
    PROVE  Answered(c, res)
             = [pc |-> "done", op |-> c.op, key |-> c.key, claims |-> c.claims,
                msg |-> c.msg, res |-> res]
<1> DEFINE d == [c EXCEPT !.pc = "done"]
<1>1. d = [pc |-> "done", op |-> c.op, key |-> c.key, claims |-> c.claims,
           msg |-> c.msg, res |-> c.res]
  BY DEF CallSet
<1>2. Answered(c, res) = [d EXCEPT !.res = res]
  BY DEF Answered
<1> HIDE DEF d
<1> QED
  BY <1>1, <1>2

LEMMA AnswerShape ==
    ASSUME NEW c, CallShape(c), c.pc # "idle", NEW key, CallGood(c, key),
           NEW res \in MaterialSet, res = ScheduledKey(key, c.claims)
    PROVE  /\ CallShape(Answered(c, res)) /\ CallGood(Answered(c, res), key)
           /\ Answered(c, res).key = c.key /\ Answered(c, res).pc = "done"
           /\ Answered(c, res).claims = c.claims /\ Answered(c, res).res = res
<1> DEFINE d == Answered(c, res)
<1>1. c \in CallSet
  BY DEF CallShape
<1>2. d = [pc |-> "done", op |-> c.op, key |-> c.key, claims |-> c.claims,
           msg |-> c.msg, res |-> res]
  BY <1>1, AnsweredFields
<1> HIDE DEF d
<1>3. d \in CallSet
  BY <1>1, <1>2 DEF CallSet
<1>4. res # NoMaterial
  BY NoneAssumption
<1>5. CallShape(d)
  BY <1>2, <1>3, <1>4 DEF CallShape
<1>6. CallGood(d, key)
  BY <1>2 DEF CallGood
<1> QED
  BY <1>2, <1>5, <1>6 DEF d

LEMMA LoadMemoStep ==
    ASSUME Parts, NEW t \in Threads, LoadMemo(t)
    PROVE  Parts'
<1> DEFINE c == calls[t]
           key == keys[c.key]
<1>1. /\ c.pc = "load" /\ c.key \in Keys /\ KeyGood(key) /\ CallShape(c) /\ CallGood(c, key)
      /\ calls \in [Threads -> CallSet] /\ UNCHANGED <<keys, offers, sent>> /\ SentGood'
  BY CallInProgress DEF LoadMemo, Parts, CallsGood, SentGood
<1>2. CASE key.memo # NoMemo /\ key.memo.claims = c.claims
  <2> DEFINE d == Answered(c, key.memo.derived)
  <2>1. key.memo \in MemoSet /\ key.memo.derived = ScheduledKey(key, c.claims)
    BY <1>1, <1>2, KeyFields DEF KeyGood, MemoGood
  <2>2. key.memo.derived \in MaterialSet
    BY <2>1 DEF MemoSet
  <2>3. calls' = [calls EXCEPT ![t] = d]
    BY <1>1, <1>2 DEF LoadMemo, Answered
  <2>4. CallShape(d) /\ CallGood(d, key) /\ d.key = c.key /\ d.pc = "done"
    BY <1>1, <2>1, <2>2, AnswerShape
  <2> QED
    BY <1>1, <2>3, <2>4, OneCall
<1>3. CASE ~(key.memo # NoMemo /\ key.memo.claims = c.claims)
  <2> DEFINE d == [c EXCEPT !.pc = "run"]
  <2>1. calls' = [calls EXCEPT ![t] = d]
    BY <1>1, <1>3 DEF LoadMemo
  <2>2. d = [pc |-> "run", op |-> c.op, key |-> c.key, claims |-> c.claims,
             msg |-> c.msg, res |-> c.res]
    BY <1>1 DEF CallSet
  <2>3. CallShape(d) /\ CallGood(d, key)
    BY <1>1, <2>2 DEF CallShape, CallGood, CallSet
  <2> QED
    BY <1>1, <2>1, <2>2, <2>3, OneCall
<1> QED
  BY <1>2, <1>3

\* Storing the scheduled key in a memo keeps the Key good.
LEMMA NewMemo ==
    ASSUME NEW key, KeyGood(key), NEW claims \in ClaimSeqs, NEW derived \in MaterialSet,
           derived = ScheduledKey(key, claims), NEW k2,
           k2 = [key EXCEPT !.memo = [claims |-> claims, derived |-> derived]]
    PROVE  /\ k2 \in KeySet /\ KeyGood(k2)
           /\ k2.stage = key.stage /\ k2.from = key.from /\ k2.material = key.material
<1>1. key \in KeySet
  BY DEF KeyGood, KeyOK
<1>2. k2 = [stage |-> key.stage, from |-> key.from, material |-> key.material,
            memo |-> [claims |-> claims, derived |-> derived]]
  BY <1>1 DEF KeySet
<1>3. k2 \in KeySet
  BY <1>1, <1>2 DEF KeySet, MemoSet
<1>4. KeyOK(k2)
  BY <1>2, <1>3 DEF KeyGood, KeyOK
<1>5. KeyFaithful(k2)
  BY <1>2 DEF KeyGood, KeyFaithful
<1>6. MemoGood(k2)
  BY <1>2 DEF MemoGood, ScheduledKey
<1> QED
  BY <1>2, <1>3, <1>4, <1>5, <1>6 DEF KeyGood

LEMMA StoreMemoStep ==
    ASSUME Parts, NEW t \in Threads, StoreMemo(t)
    PROVE  Parts'
<1> DEFINE c == calls[t]
           k == c.key
           derived == RunLadder(keys[k], c.claims)
           k2 == [keys[k] EXCEPT !.memo = [claims |-> c.claims, derived |-> derived]]
           d == Answered(c, derived)
<1>1. /\ c.pc = "run" /\ k \in Keys /\ KeyGood(keys[k]) /\ keys[k] # NoKey
      /\ CallShape(c) /\ CallGood(c, keys[k])
  BY CallInProgress DEF StoreMemo, CallGood
<1>2. /\ keys \in [Keys -> KeySet \union {NoKey}] /\ calls \in [Threads -> CallSet]
  BY DEF Parts, KeysGood, CallsGood
<1>3. /\ keys' = [keys EXCEPT ![k] = k2] /\ calls' = [calls EXCEPT ![t] = d]
      /\ UNCHANGED <<offers, sent>>
  BY <1>1, <1>2 DEF StoreMemo, Answered
<1>4. derived = ScheduledKey(keys[k], c.claims) /\ derived \in MaterialSet
  BY <1>1, RunLadderScheduled DEF KeyGood, CallGood
<1> HIDE DEF derived
<1>5. /\ k2 \in KeySet /\ KeyGood(k2) /\ k2.stage = keys[k].stage
      /\ k2.from = keys[k].from /\ k2.material = keys[k].material
  BY <1>1, <1>4, NewMemo DEF CallGood
<1>6. CallShape(d) /\ CallGood(d, keys[k]) /\ d.key = k /\ d.pc = "done"
  BY <1>1, <1>4, AnswerShape
<1> HIDE DEF k2, d
<1>7. KeysGood'
  BY <1>2, <1>3, <1>5 DEF Parts, KeysGood
<1>8. \A j \in Keys : keys[j] # NoKey =>
        /\ keys'[j] # NoKey /\ keys'[j].stage = keys[j].stage
        /\ keys'[j].from = keys[j].from /\ keys'[j].material = keys[j].material
  BY <1>2, <1>3, <1>5, NoneAssumption
<1>9. ASSUME NEW u \in Threads
      PROVE  /\ CallShape(calls'[u])
             /\ calls'[u].pc # "idle" => CallGood(calls'[u], keys'[calls'[u].key])
  <2>1. /\ CallShape(calls'[u])
        /\ calls'[u].pc # "idle" =>
             calls'[u].key \in Keys /\ CallGood(calls'[u], keys[calls'[u].key])
    BY <1>1, <1>2, <1>3, <1>6 DEF Parts, CallsGood, CallShape
  <2>2. ASSUME calls'[u].pc # "idle"
        PROVE  CallGood(calls'[u], keys'[calls'[u].key])
    BY <1>8, <2>1, <2>2 DEF CallGood, ScheduledKey, NamesScope
  <2> QED
    BY <2>1, <2>2
<1>10. CallsGood'
  <2>1. d \in CallSet
    BY <1>6 DEF CallShape
  <2>2. calls' \in [Threads -> CallSet]
    BY <1>2, <1>3, <2>1
  <2> QED
    BY <1>9, <2>2 DEF CallsGood
<1> QED
  BY <1>3, <1>7, <1>10 DEF Parts, OffersGood, SentGood

LEMMA SendStep ==
    ASSUME Parts, NEW t \in Threads, NEW created \in Times, Send(t, created)
    PROVE  Parts'
<1> DEFINE key == keys[calls[t].key]
           keyid == KeyID(key, created)
           m == [keyid |-> keyid, created |-> created,
                 mac |-> [key |-> calls[t].res, keyid |-> keyid, created |-> created]]
<1>1. /\ calls[t].pc = "done" /\ ClaimsOK(key, created) /\ sent' = sent \union {m}
      /\ calls' = [calls EXCEPT ![t] = IdleCall] /\ UNCHANGED <<keys, offers>>
  BY DEF Send
<1>2. KeyGood(key) /\ CallShape(calls[t])
  BY <1>1, CallInProgress
<1>3. keyid \in KeyIDs
  <2>1. key.stage.name \in Strs /\ Claims(key, created) \in ClaimSeqs
    BY <1>1, <1>2, KeyFields, ClaimsType DEF KeyGood
  <2> QED
    BY <2>1 DEF KeyID, KeyIDs
<1>4. calls[t].res \in MaterialSet
  BY <1>1, <1>2 DEF CallShape, CallSet
<1>5. SentGood'
  BY <1>1, <1>3, <1>4 DEF Parts, SentGood, MessageSet
<1> QED
  BY <1>1, <1>5, IdleShape, OneCall

LEMMA FinishStep ==
    ASSUME Parts, NEW t \in Threads, Finish(t)
    PROVE  Parts'
<1>1. /\ calls' = [calls EXCEPT ![t] = IdleCall] /\ UNCHANGED <<keys, offers>> /\ SentGood'
  BY DEF Finish, Parts, SentGood
<1> QED
  BY <1>1, IdleShape, OneCall

-----------------------------------------------------------------------------
(* The invariant and what follows from it *)

LEMMA NextParts == Parts /\ [Next]_vars => Parts'
<1> SUFFICES ASSUME Parts, [Next]_vars PROVE Parts'
  OBVIOUS
<1>1. ASSUME NEW k \in Keys, NEW s \in Secrets, NEW st \in ConfigStages, Provision(k, s, st)
      PROVE  Parts'
  BY <1>1, ProvisionStep
<1>2. ASSUME NEW k \in Keys, NEW o \in offers, Receive(k, o)
      PROVE  Parts'
  BY <1>2, ReceiveStep
<1>3. ASSUME NEW k \in Keys, NEW i \in StepIdx, NEW c \in Times \union {ZeroTime}, Derive(k, i, c)
      PROVE  Parts'
  BY <1>3, DeriveStep
<1>4. ASSUME NEW t \in Threads, NEW k \in Keys, NEW c \in Times \union {ZeroTime},
             BeginSigner(t, k, c)
      PROVE  Parts'
  BY <1>4, BeginSignerStep
<1>5. ASSUME NEW t \in Threads, NEW k \in Keys, NEW m \in Arriving, BeginVerifier(t, k, m)
      PROVE  Parts'
  BY <1>5, BeginVerifierStep
<1>6. ASSUME NEW t \in Threads, ThreadStep(t)
      PROVE  Parts'
  BY <1>6, LoadMemoStep, StoreMemoStep DEF ThreadStep
<1>7. ASSUME NEW t \in Threads, NEW c \in Times, Send(t, c)
      PROVE  Parts'
  BY <1>7, SendStep
<1>8. ASSUME NEW t \in Threads, Finish(t)
      PROVE  Parts'
  BY <1>8, FinishStep
<1>9. CASE UNCHANGED vars
  BY <1>9 DEF vars, Parts, KeysGood, CallsGood, OffersGood, SentGood
<1> QED
  BY <1>1, <1>2, <1>3, <1>4, <1>5, <1>6, <1>7, <1>8, <1>9 DEF Next

LEMMA PartsAlways == Spec => []Parts
  BY InitParts, NextParts, PTL DEF Spec

\* For every ladder and any number of Keys, goroutines and hand-offs: types
\* hold, stages are faithful, memos and answers are scheduled keys.
THEOREM Invariance == Spec => []Inv
<1>1. Parts => Inv
  BY InvParts DEF Parts
<1> QED
  BY <1>1, PartsAlways, PTL

\* Types hold: in particular every Key in use passed both validators.
THEOREM TypeCorrect == Spec => []TypeOK
<1>1. Inv => TypeOK
  BY DEF Inv
<1> QED
  BY <1>1, Invariance, PTL

\* The material of every Key, through any chain of hand-offs, is the ladder
\* over the values its stage records.
THEOREM StagesAreFaithful == Spec => []StageFaithful
<1>1. Inv => StageFaithful
  BY DEF Inv
<1> QED
  BY <1>1, Invariance, PTL

\* Whatever goroutine wrote it last, a memo holds the key of its own claims.
THEOREM MemosAreSound == Spec => []MemoSound
<1>1. Inv => MemoSound
  BY DEF Inv
<1> QED
  BY <1>1, Invariance, PTL

\* A verifier's verdict is exact under every interleaving on the memo.
THEOREM VerdictsAreExact == Spec => []VerdictExact
<1>1. ASSUME Parts, NEW t \in Threads, calls[t].pc = "done" /\ calls[t].op = "verify"
      PROVE  LET c == calls[t]
             IN  Accepts(c) <=>
                   /\ c.msg.mac.key =
                        ScheduledKey(keys[c.key], [i \in StepIdx |-> <<c.msg.keyid[i+1]>>])
                   /\ c.msg.mac.keyid = c.msg.keyid
                   /\ c.msg.mac.created = c.msg.created
  <2> DEFINE c == calls[t]
             key == keys[c.key]
             spelled == [i \in StepIdx |-> <<c.msg.keyid[i+1]>>]
  <2>1. CallShape(c) /\ CallGood(c, key)
    BY <1>1, CallInProgress
  <2>2. spelled = c.claims
    <3>1. \A i \in StepIdx : <<c.msg.keyid[i+1]>> = c.claims[i]
      BY <1>1, <2>1 DEF CallGood, NamesScope
    <3>2. c.claims \in [StepIdx -> Strs]
      BY <2>1 DEF CallGood, ClaimSeqs
    <3> QED
      BY <3>1, <3>2
  <2>3. c.res = ScheduledKey(key, c.claims)
    BY <1>1, <2>1 DEF CallGood
  <2>4. c.msg \in MessageSet
    BY <1>1, <2>1 DEF CallShape
  <2>5. c.msg.mac = [key |-> c.msg.mac.key, keyid |-> c.msg.mac.keyid,
                     created |-> c.msg.mac.created]
    BY <2>4 DEF MessageSet
  <2>6. Accepts(c) <=> /\ c.msg.mac.key = c.res
                       /\ c.msg.mac.keyid = c.msg.keyid
                       /\ c.msg.mac.created = c.msg.created
    BY <2>5 DEF Accepts
  <2> QED
    BY <2>2, <2>3, <2>6
<1>2. Parts => VerdictExact
  BY <1>1 DEF VerdictExact
<1> QED
  BY <1>2, PartsAlways, PTL

-----------------------------------------------------------------------------
(* Keyids *)

\* What a Key claims is text without a slash, and not empty.
LEMMA ClaimsAreSegments ==
    ASSUME NEW key, KeyOK(key), NEW c \in Times \union {ZeroTime}, ClaimsOK(key, c),
           NEW i \in StepIdx
    PROVE  /\ Claims(key, c)[i] \in Seq(STRING) /\ Claims(key, c)[i] # EmptyStr
           /\ Len(Claims(key, c)[i]) = 1
<1>1. Claims(key, c)[i] \in Seq(STRING)
  BY ClaimsType, StrsAssumption DEF ClaimSeqs
<1>2. ValidDerivation /\ ValidStage(key.stage) /\ NoSlash(Steps[i].literal)
  BY DEF KeyOK, ValidDerivation
<1>3. CASE Steps[i].date # ""
  <2>1. c \in Times /\ Steps[i].date \in DateLayouts
    BY <1>2, <1>3, StepSources DEF ClaimsOK
  <2> QED
    BY <1>1, <1>3, <2>1, DatesAssumption DEF Claims, NoSlash
<1>4. CASE Steps[i].date = "" /\ Steps[i].scope
  <2>1. i \in Needed(FromIdx(key.stage))
    BY <1>4 DEF Needed
  <2>2. ScopeOf(key.stage, i) # EmptyStr /\ NoSlash(ScopeOf(key.stage, i))
    BY <1>2, <1>4, <2>1 DEF ValidStage
  <2> QED
    BY <1>1, <1>4, <2>2 DEF Claims, NoSlash
<1>5. CASE Steps[i].date = "" /\ ~Steps[i].scope
  BY <1>1, <1>2, <1>5, StepSources DEF Claims, NoSlash
<1> QED
  BY <1>3, <1>4, <1>5

\* A keyid has a segment for the name and one for each claim, and these
\* segments are the name and the claims.
LEMMA Segments ==
    ASSUME NEW key, KeyOK(key), NEW c \in Times \union {ZeroTime}, ClaimsOK(key, c)
    PROVE  LET keyid == KeyID(key, c)
           IN  /\ keyid \in Seq(STRING) /\ Len(keyid) = 1 + Len(Steps)
               /\ <<keyid[1]>> = key.stage.name
               /\ \A i \in StepIdx : <<keyid[i + 1]>> = Claims(key, c)[i]
<1> DEFINE name == key.stage.name
           claims == Claims(key, c)
           parts == <<name>> \o claims
           keyid == KeyID(key, c)
<1>1. /\ Len(Steps) \in Nat /\ StepIdx = 1..Len(Steps)
      /\ claims \in Seq(Seq(STRING)) /\ Len(claims) = Len(Steps)
      /\ \A i \in StepIdx : claims[i] \in Seq(STRING) /\ Len(claims[i]) = 1
  <2>1. Len(Steps) \in Nat /\ StepIdx = 1..Len(Steps)
    BY StepsAssumption DEF StepIdx
  <2>2. \A i \in StepIdx : claims[i] \in Seq(STRING) /\ Len(claims[i]) = 1
    BY ClaimsAreSegments
  <2>3. claims \in [StepIdx -> Seq(STRING)]
    BY <2>2 DEF Claims
  <2> HIDE DEF claims
  <2>4. claims \in Seq(Seq(STRING)) /\ Len(claims) = Len(Steps)
    BY <2>1, <2>3
  <2> QED
    BY <2>1, <2>2, <2>4
<1>2. name \in Seq(STRING) /\ Len(name) = 1
  BY KeyFields, StrsAssumption DEF KeyOK, ValidStage, NoSlash
<1> HIDE DEF name, claims
<1>3. /\ parts \in Seq(Seq(STRING)) /\ Len(parts) = 1 + Len(Steps) /\ parts[1] = name
      /\ \A i \in StepIdx : parts[i + 1] = claims[i]
  <2>1. /\ <<name>> \in Seq(Seq(STRING)) /\ Len(<<name>>) = 1 /\ <<name>>[1] = name
    BY <1>2
  <2>2. /\ parts \in Seq(Seq(STRING)) /\ Len(parts) = 1 + Len(Steps)
        /\ \A i \in 1..(1 + Len(Steps)) :
              parts[i] = IF i <= 1 THEN <<name>>[i] ELSE claims[i - 1]
    BY <1>1, <2>1, ConcatProperties
  <2>3. /\ 1 \in 1..(1 + Len(Steps)) /\ 1 <= 1
        /\ \A i \in StepIdx : i + 1 \in 1..(1 + Len(Steps)) /\ ~(i + 1 <= 1) /\ (i + 1) - 1 = i
    BY <1>1
  <2> HIDE DEF parts
  <2> QED
    BY <2>1, <2>2, <2>3
<1>4. keyid = FlattenSeq(parts)
  BY DEF KeyID, Join, name, claims
<1> HIDE DEF parts, keyid
<1>5. /\ DOMAIN parts = 1..(1 + Len(Steps)) /\ 1 \in DOMAIN parts
      /\ \A i \in StepIdx : i + 1 \in DOMAIN parts
      /\ \A j \in DOMAIN parts : j = 1 \/ \E i \in StepIdx : j = i + 1
  <2>1. DOMAIN parts = 1..(1 + Len(Steps))
    BY <1>3
  <2>2. \A j \in 1..(1 + Len(Steps)) : j # 1 => j - 1 \in StepIdx /\ j = (j - 1) + 1
    BY <1>1
  <2>3. \A j \in 1..(1 + Len(Steps)) : j = 1 \/ \E i \in StepIdx : j = i + 1
    BY <2>2
  <2>4. 1 \in 1..(1 + Len(Steps)) /\ \A i \in StepIdx : i + 1 \in 1..(1 + Len(Steps))
    BY <1>1
  <2> QED
    BY <2>1, <2>3, <2>4
<1>6. ASSUME NEW j \in DOMAIN parts
      PROVE  Len(parts[j]) = 1
  <2>1. CASE j = 1
    BY <1>2, <1>3, <2>1
  <2>2. ASSUME NEW i \in StepIdx, j = i + 1
        PROVE  Len(parts[j]) = 1
    BY <1>1, <1>3, <2>2
  <2> QED
    BY <1>5, <2>1, <2>2
<1>7. /\ keyid \in Seq(STRING) /\ Len(keyid) = 1 + Len(Steps)
      /\ \A j \in DOMAIN parts : keyid[j] = parts[j][1]
  BY <1>3, <1>4, <1>6, FlattenSingles
<1>8. \A s \in Seq(STRING) : Len(s) = 1 => <<s[1]>> = s
  OBVIOUS
<1>9. <<keyid[1]>> = name
  BY <1>2, <1>3, <1>5, <1>7, <1>8
<1>10. ASSUME NEW i \in StepIdx
       PROVE  <<keyid[i + 1]>> = claims[i]
  <2>1. keyid[i + 1] = parts[i + 1][1] /\ parts[i + 1] = claims[i]
    BY <1>3, <1>5, <1>7
  <2>2. claims[i] \in Seq(STRING) /\ Len(claims[i]) = 1
    BY <1>1
  <2> QED
    BY <1>8, <2>1, <2>2
<1> QED
  BY <1>7, <1>9, <1>10 DEF keyid, name, claims

\* A Key and the keyid it mints agree on its scope.
LEMMA MintedNamesScope ==
    ASSUME NEW key, KeyOK(key), NEW c \in Times \union {ZeroTime}, ClaimsOK(key, c)
    PROVE  NamesScope(key, Claims(key, c), KeyID(key, c))
BY Segments DEF NamesScope

\* Two Keys of one secret with one keyid for a time derive one key.
THEOREM KeyIDsDetermineKeys == Spec => []KeyIDDeterminesKey
<1>1. ASSUME NEW j, KeyGood(j), NEW k, KeyGood(k), NEW c \in Times,
             j.material.secret = k.material.secret, ClaimsOK(j, c), ClaimsOK(k, c),
             KeyID(j, c) = KeyID(k, c)
      PROVE  RunLadder(j, Claims(j, c)) = RunLadder(k, Claims(k, c))
  <2>1. KeyOK(j) /\ KeyFaithful(j) /\ KeyOK(k) /\ KeyFaithful(k)
    BY <1>1 DEF KeyGood
  <2>2. \A i \in StepIdx : Claims(j, c)[i] = Claims(k, c)[i]
    <3>1. \A i \in StepIdx : <<KeyID(j, c)[i + 1]>> = Claims(j, c)[i]
      BY <1>1, <2>1, Segments
    <3>2. \A i \in StepIdx : <<KeyID(k, c)[i + 1]>> = Claims(k, c)[i]
      BY <1>1, <2>1, Segments
    <3> QED
      BY <1>1, <3>1, <3>2
  <2>3. Claims(j, c) = Claims(k, c)
    <3>1. Claims(j, c) \in ClaimSeqs /\ Claims(k, c) \in ClaimSeqs
      BY <1>1, <2>1, ClaimsType
    <3> QED
      BY <2>2, <3>1 DEF ClaimSeqs
  <2>4. RunLadder(j, Claims(j, c)) = ScheduledKey(j, Claims(j, c))
    BY <1>1, <2>1, ClaimsContinue, RunLadderScheduled
  <2>5. RunLadder(k, Claims(k, c)) = ScheduledKey(k, Claims(k, c))
    BY <1>1, <2>1, ClaimsContinue, RunLadderScheduled
  <2> QED
    BY <1>1, <2>3, <2>4, <2>5 DEF ScheduledKey
<1>2. Parts => KeyIDDeterminesKey
  BY <1>1 DEF Parts, KeysGood, KeyIDDeterminesKey
<1> QED
  BY <1>2, PartsAlways, PTL

\* No text in use takes a keyid over maxKeyIDLen.
ShortTexts == \A s \in Strs : ~TooLong(s)

\* A Key accepts the keyids it mints, if no text is too long for one.
THEOREM OwnKeyIDsVerify == ASSUME ShortTexts PROVE Spec => []OwnKeyIDVerifies
<1>1. ASSUME NEW key, KeyOK(key), NEW c \in Times, ClaimsOK(key, c)
      PROVE  VerifierOK(key, KeyID(key, c), c)
  <2> DEFINE keyid == KeyID(key, c)
  <2>1. /\ keyid \in Seq(STRING) /\ Len(keyid) = 1 + Len(Steps)
        /\ <<keyid[1]>> = key.stage.name
        /\ \A i \in StepIdx : <<keyid[i + 1]>> = Claims(key, c)[i]
    BY <1>1, Segments
  <2>2. NamesScope(key, Claims(key, c), keyid)
    BY <1>1, MintedNamesScope
  <2> HIDE DEF keyid
  <2>3. \A x : <<x>> \in Strs => x \notin LongSegments
    BY DEF ShortTexts, TooLong
  <2>4. key.stage.name \in Strs /\ \A i \in StepIdx : Claims(key, c)[i] \in Strs
    BY <1>1, KeyFields, ClaimsType DEF ClaimSeqs
  <2>5. \A j \in DOMAIN keyid : j = 1 \/ \E i \in StepIdx : j = i + 1
    <3>1. Len(Steps) \in Nat /\ DOMAIN keyid = 1..(1 + Len(Steps))
      BY <2>1, StepsAssumption
    <3>2. \A j \in 1..(1 + Len(Steps)) : j # 1 => j - 1 \in StepIdx /\ j = (j - 1) + 1
      BY <3>1 DEF StepIdx
    <3> QED
      BY <3>1, <3>2
  <2>6. ~TooLong(keyid)
    BY <2>1, <2>3, <2>4, <2>5 DEF TooLong
  <2> QED
    BY <1>1, <2>2, <2>6 DEF VerifierOK, keyid
<1>2. Parts => OwnKeyIDVerifies
  BY <1>1 DEF Parts, KeysGood, KeyGood, OwnKeyIDVerifies
<1> QED
  BY <1>2, PartsAlways, PTL

\* Whatever keyid of its own a Key accepts, a lookup by the parsed claim
\* finds that Key.
THEOREM LookupsFindKeys == Spec => []LookupFindsKey
<1>1. ASSUME NEW key, KeyOK(key), NEW c \in Times, ClaimsOK(key, c),
             VerifierOK(key, KeyID(key, c), c)
      PROVE  LET minted == KeyID(key, c)
             IN  /\ ParseOK(minted)
                 /\ ParseKeyID(minted).name = key.stage.name
                 /\ \A n \in DOMAIN key.stage.scope :
                       ParseKeyID(minted).scope[n] = key.stage.scope[n]
  <2> DEFINE keyid == KeyID(key, c)
             claims == Claims(key, c)
             open == {j \in StepIdx : Steps[j].literal = EmptyStr}
             At(n) == CHOOSE i \in StepIdx : Steps[i].name = n
  <2>1. /\ ~TooLong(keyid) /\ Len(keyid) = 1 + Len(Steps) /\ <<keyid[1]>> = key.stage.name
        /\ \A i \in StepIdx : <<keyid[i + 1]>> = claims[i]
    BY <1>1 DEF VerifierOK, NamesScope
  <2>2. ValidDerivation /\ ValidStage(key.stage) /\ key.from = FromIdx(key.stage)
    BY <1>1 DEF KeyOK
  <2>3. \A x : <<x>> # EmptyStr => x # ""
    BY DEF EmptyStr
  <2>4. key.stage.name # EmptyStr /\ \A i \in StepIdx : claims[i] # EmptyStr
    BY <1>1, <2>2, ClaimsAreSegments DEF ValidStage
  <2>5. \A i \in StepIdx : Steps[i].literal # EmptyStr => claims[i] = Steps[i].literal
    BY <2>2, StepSources DEF Claims
  <2> HIDE DEF keyid, claims
  <2>6. ParseOK(keyid)
    BY <2>1, <2>3, <2>4, <2>5 DEF ParseOK
  <2>7. /\ ParseKeyID(keyid).name = <<keyid[1]>>
        /\ ParseKeyID(keyid).scope = [n \in {Steps[i].name : i \in open} |-> <<keyid[At(n) + 1]>>]
    BY DEF ParseKeyID
  <2> HIDE DEF open, At
  <2>8. ASSUME NEW n \in DOMAIN key.stage.scope
        PROVE  ParseKeyID(keyid).scope[n] = key.stage.scope[n]
    <3>1. PICK i \in Needed(key.from) : n = Steps[i].name
      BY <2>2 DEF ValidStage
    <3>2. i \in StepIdx /\ (Steps[i].scope \/ (Steps[i].date # "" /\ i <= key.from))
      BY DEF Needed
    <3>3. At(n) = i
      BY <2>2, <3>1, <3>2, NamesUnique DEF At
    <3>4. i \in open
      BY <2>2, <3>2, StepSources DEF open
    <3>5. ScopeOf(key.stage, i) = key.stage.scope[n]
      BY <3>1 DEF ScopeOf
    <3>6. claims[i] = ScopeOf(key.stage, i)
      BY <1>1, <2>2, <3>2, StepSources DEF claims, Claims, ClaimsOK
    <3>7. ParseKeyID(keyid).scope[n] = <<keyid[i + 1]>>
      BY <2>7, <3>1, <3>3, <3>4
    <3> QED
      BY <2>1, <3>2, <3>5, <3>6, <3>7
  <2> QED
    BY <2>1, <2>6, <2>7, <2>8 DEF keyid
<1>2. Parts => LookupFindsKey
  BY <1>1 DEF Parts, KeysGood, KeyGood, LookupFindsKey
<1> QED
  BY <1>2, PartsAlways, PTL

\* Every day a signature may be created on is written as Parse reads it.
DaysParse == \A t \in Times : DayOf[t] \notin FarDays

\* Then the stage Derive writes down is one that New takes.
LEMMA DerivedStageValid ==
    ASSUME DaysParse, NEW key, KeyOK(key), NEW c \in Times \union {ZeroTime}, ClaimsOK(key, c),
           NEW through \in StepIdx
    PROVE  ValidStage(DerivedStage(key, through, c))
<1> DEFINE st == DerivedStage(key, through, c)
           kept == {i \in StepIdx : \/ Steps[i].scope
                                    \/ Steps[i].date # "" /\ i <= through}
<1>1. ValidDerivation /\ ValidStage(key.stage)
  BY DEF KeyOK
<1>2. /\ st \in StageSet /\ st.from \in StepNames /\ FromIdx(st) = through
      /\ \A i \in 1..through : Baked(st, i) = Claims(key, c)[i]
  BY DerivedStageFaithful
<1>3. st.name = key.stage.name /\ DOMAIN st.scope = {Steps[i].name : i \in kept}
      /\ \A i \in kept : ScopeOf(st, i) = Claims(key, c)[i]
  <2>1. /\ st.name = key.stage.name
        /\ st.scope = [n \in {Steps[i].name : i \in kept} |->
                          Claims(key, c)[CHOOSE i \in kept : Steps[i].name = n]]
    BY DEF DerivedStage
  <2>2. ASSUME NEW i \in kept
        PROVE  (CHOOSE j \in kept : Steps[j].name = Steps[i].name) = i
    BY <1>1, NamesUnique
  <2> DEFINE names == {Steps[i].name : i \in kept}
             At(n) == CHOOSE i \in kept : Steps[i].name = n
  <2>3. st.scope = [n \in names |-> Claims(key, c)[At(n)]]
    BY <2>1
  <2>4. \A i \in kept : Steps[i].name \in names /\ At(Steps[i].name) = i
    BY <2>2
  <2> HIDE DEF st, names, At
  <2>5. DOMAIN st.scope = names
    BY <2>3
  <2>6. \A i \in kept : ScopeOf(st, i) = Claims(key, c)[i]
    <3> HIDE DEF kept
    <3> QED
      BY <2>3, <2>4 DEF ScopeOf
  <2> QED
    BY <2>1, <2>5, <2>6 DEF names
<1>4. kept = Needed(FromIdx(st))
  BY <1>2 DEF Needed
<1> HIDE DEF st, kept
<1>5. ASSUME NEW i \in kept
      PROVE  IF Steps[i].scope THEN ScopeOf(st, i) # EmptyStr /\ NoSlash(ScopeOf(st, i))
             ELSE ParsesAsDate(Steps[i].date, ScopeOf(st, i))
  <2>1. i \in StepIdx /\ (Steps[i].scope \/ Steps[i].date # "")
    BY DEF kept
  <2>2. ScopeOf(st, i) # EmptyStr /\ NoSlash(ScopeOf(st, i))
    BY <1>3, <2>1, ClaimsAreSegments DEF NoSlash
  <2>3. CASE ~Steps[i].scope
    <3>1. Steps[i].date # "" /\ c \in Times
      BY <2>1, <2>3 DEF ClaimsOK
    <3>2. ScopeOf(st, i) = FormatDate(Steps[i].date, c)
      BY <1>3, <2>1, <3>1 DEF Claims
    <3>3. ParsesAsDate(Steps[i].date, ScopeOf(st, i))
      BY <3>1, <3>2 DEF ParsesAsDate, DaysParse
    <3> QED
      BY <2>3, <3>3
  <2> QED
    BY <2>2, <2>3
<1>6. st.name # EmptyStr /\ NoSlash(st.name)
  BY <1>1, <1>3 DEF ValidStage
<1>7. ValidStage(st)
  BY <1>2, <1>3, <1>4, <1>5, <1>6 DEF ValidStage
<1> QED
  BY <1>7 DEF st

\* What Derive hands off constructs, if every day is written as Parse reads it.
THEOREM HandoffsReconstruct == ASSUME DaysParse PROVE Spec => []HandoffReconstructs
<1>1. Init => HandoffReconstructs
  BY DEF Init, HandoffReconstructs
<1>2. ASSUME Parts, HandoffReconstructs, [Next]_vars
      PROVE  HandoffReconstructs'
  <2>1. ASSUME NEW k \in Keys, NEW i \in StepIdx, NEW c \in Times \union {ZeroTime}, Derive(k, i, c)
        PROVE  HandoffReconstructs'
    <3>1. /\ KeyOK(keys[k]) /\ ClaimsOK(keys[k], c)
          /\ \A o \in offers' : o \in offers \/ o.stage = DerivedStage(keys[k], i, c)
      BY <1>2, <2>1 DEF Derive, Parts, KeysGood, KeyGood
    <3>2. ValidStage(DerivedStage(keys[k], i, c))
      BY <3>1, DerivedStageValid
    <3>3. \A o \in offers' : ValidStage(o.stage)
      BY <1>2, <3>1, <3>2 DEF HandoffReconstructs
    <3> QED
      BY <3>3 DEF HandoffReconstructs
  <2>2. CASE UNCHANGED offers
    BY <1>2, <2>2 DEF HandoffReconstructs
  <2> QED
    BY <1>2, <2>1, <2>2 DEF Next, Provision, Receive, BeginSigner, BeginVerifier, ThreadStep,
       LoadMemo, StoreMemo, Send, Finish, vars
<1> QED
  BY <1>1, <1>2, PartsAlways, PTL DEF Spec

-----------------------------------------------------------------------------
(* What the memo changes for *)

\* No peer's keyid that does not spell a Key's scope makes it derive.
THEOREM NoMismatchDerives == Spec => MismatchNeverDerives
<1> DEFINE Caused ==
      \A k \in Keys : (keys[k] # NoKey /\ keys'[k] # keys[k]) =>
          \E t \in Threads :
              /\ calls[t].key = k
              /\ keys'[k].memo.claims = calls[t].claims
              /\ calls[t].op = "verify" =>
                   NamesScope(keys[k], calls[t].claims, calls[t].msg.keyid)
<1>1. ASSUME Parts, [Next]_vars, NEW k \in Keys, keys[k] # NoKey, keys'[k] # keys[k]
      PROVE  \E t \in Threads : StoreMemo(t) /\ calls[t].key = k
  <2>1. keys \in [Keys -> KeySet \union {NoKey}]
    BY <1>1 DEF Parts, KeysGood
  <2>2. keys' # keys
    BY <1>1
  <2>3. ASSUME NEW j \in Keys, NEW key, keys[j] = NoKey, keys' = [keys EXCEPT ![j] = key]
        PROVE  FALSE
    BY <1>1, <2>1, <2>3
  <2>4. PICK t \in Threads : StoreMemo(t)
    <3>1. \A j \in Keys, s \in Secrets, st \in ConfigStages : ~Provision(j, s, st)
      BY <2>3 DEF Provision
    <3>2. \A j \in Keys, o \in offers : ~Receive(j, o)
      BY <2>3 DEF Receive
    <3>3. ~(\E j \in Keys, n \in StepIdx, c \in Times \union {ZeroTime} : Derive(j, n, c))
      BY <2>2 DEF Derive
    <3>4. ~(\E t \in Threads, j \in Keys, c \in Times \union {ZeroTime} : BeginSigner(t, j, c))
      BY <2>2 DEF BeginSigner
    <3>5. ~(\E t \in Threads, j \in Keys, m \in Arriving : BeginVerifier(t, j, m))
      BY <2>2 DEF BeginVerifier
    <3>6. ~(\E t \in Threads : LoadMemo(t) \/ Finish(t))
      BY <2>2 DEF LoadMemo, Finish
    <3>7. ~(\E t \in Threads, c \in Times : Send(t, c))
      BY <2>2 DEF Send
    <3>8. ~UNCHANGED vars
      BY <2>2 DEF vars
    <3> QED
      BY <1>1, <3>1, <3>2, <3>3, <3>4, <3>5, <3>6, <3>7, <3>8 DEF Next, ThreadStep
  <2>5. calls[t].key = k
    BY <1>1, <2>1, <2>4 DEF StoreMemo
  <2> QED
    BY <2>4, <2>5
<1>2. ASSUME Parts, [Next]_vars PROVE Caused
  <2> SUFFICES ASSUME NEW k \in Keys, keys[k] # NoKey, keys'[k] # keys[k]
               PROVE  \E t \in Threads :
                 /\ calls[t].key = k
                 /\ keys'[k].memo.claims = calls[t].claims
                 /\ calls[t].op = "verify" =>
                      NamesScope(keys[k], calls[t].claims, calls[t].msg.keyid)
    OBVIOUS
  <2>1. PICK t \in Threads : StoreMemo(t) /\ calls[t].key = k
    BY <1>1, <1>2
  <2>2. calls[t].pc # "idle"
    BY <2>1 DEF StoreMemo
  <2>3. CallGood(calls[t], keys[k])
    BY <1>2, <2>1, <2>2, CallInProgress
  <2>4. keys[k] \in KeySet
    BY <1>2 DEF Parts, KeysGood
  <2>5. keys'[k].memo.claims = calls[t].claims
    <3>1. keys \in [Keys -> KeySet \union {NoKey}]
      BY <1>2 DEF Parts, KeysGood
    <3>2. keys'[k] = [keys[k] EXCEPT !.memo =
                        [claims |-> calls[t].claims,
                         derived |-> RunLadder(keys[k], calls[t].claims)]]
      BY <2>1, <3>1 DEF StoreMemo
    <3> QED
      BY <2>4, <3>2 DEF KeySet
  <2> QED
    BY <2>1, <2>3, <2>5 DEF CallGood
<1>3. Parts /\ [Next]_vars => [Caused]_vars
  BY <1>2
<1> QED
  BY <1>3, PartsAlways, PTL DEF Spec, MismatchNeverDerives

-----------------------------------------------------------------------------
(* The refinement of the plain key schedule *)

Asked == [t \in Threads |->
            IF calls[t].pc = "idle" THEN NoKey
            ELSE <<keys[calls[t].key].material.secret, calls[t].claims>>]
Answers == [t \in Threads |-> calls[t].res]

\* A step that leaves the calls alone is invisible.
LEMMA QuietStep ==
    ASSUME Parts, UNCHANGED calls,
           \A k \in Keys : keys[k] # NoKey => keys'[k].material = keys[k].material
    PROVE  UNCHANGED <<Asked, Answers>>
<1>1. ASSUME NEW t \in Threads, calls[t].pc # "idle"
      PROVE  keys'[calls[t].key].material = keys[calls[t].key].material
  BY <1>1, CallInProgress DEF CallGood
<1>2. \A t \in Threads : Asked'[t] = Asked[t]
  BY <1>1 DEF Asked
<1>3. Asked' = Asked
  BY <1>2 DEF Asked
<1>4. Answers' = Answers
  BY DEF Answers
<1> QED
  BY <1>3, <1>4

\* A step of one call that moves no Key's material changes that call's
\* entries only.
LEMMA OneAnswer ==
    ASSUME Parts, Parts', NEW t \in Threads, NEW c, calls' = [calls EXCEPT ![t] = c],
           \A k \in Keys : keys[k] # NoKey => keys'[k].material = keys[k].material
    PROVE  /\ Answers' = [Answers EXCEPT ![t] = c.res]
           /\ Asked' = [Asked EXCEPT ![t] =
                          IF c.pc = "idle" THEN NoKey
                          ELSE <<keys'[c.key].material.secret, c.claims>>]
<1>1. calls \in [Threads -> CallSet]
  BY DEF Parts, CallsGood
<1>2. ASSUME NEW u \in Threads, calls[u].pc # "idle"
      PROVE  keys'[calls[u].key].material = keys[calls[u].key].material
  BY <1>2, CallInProgress DEF CallGood
<1>3. Answers' = [Answers EXCEPT ![t] = c.res]
  BY <1>1 DEF Answers
<1> DEFINE a == IF c.pc = "idle" THEN NoKey
                ELSE <<keys'[c.key].material.secret, c.claims>>
<1>4. Asked'[t] = a
  BY <1>1 DEF Asked
<1>5. \A u \in Threads \ {t} : calls'[u] = calls[u]
  BY <1>1
<1>6. \A u \in Threads \ {t} : Asked'[u] = Asked[u]
  BY <1>2, <1>5 DEF Asked
<1>7. Asked' = [u \in Threads |-> Asked'[u]] /\ Asked = [u \in Threads |-> Asked[u]]
  BY DEF Asked
<1> HIDE DEF a
<1>8. Asked' = [Asked EXCEPT ![t] = a]
  BY <1>4, <1>6, <1>7
<1> QED
  BY <1>3, <1>8 DEF a

\* A goroutine inside a call has asked for the scope of that call, on a secret
\* of the program.
LEMMA AskedScope ==
    ASSUME Parts, NEW t \in Threads, calls[t].pc # "idle"
    PROVE  /\ Asked[t] = <<keys[calls[t].key].material.secret, calls[t].claims>>
           /\ Asked[t] \in Secrets \X ClaimSeqs
           /\ Asked[t] # NoKey
<1>1. KeyGood(keys[calls[t].key]) /\ CallGood(calls[t], keys[calls[t].key])
  BY CallInProgress
<1>2. keys[calls[t].key].material.secret \in Secrets /\ calls[t].claims \in ClaimSeqs
  BY <1>1, KeyFields DEF KeyGood, CallGood
<1>3. Asked[t] = <<keys[calls[t].key].material.secret, calls[t].claims>>
  BY DEF Asked
<1> QED
  BY <1>2, <1>3, NoneAssumption

InDerive(c) == c.pc \in {"load", "run"}

\* A call that comes back with the scheduled key answers what was asked.
LEMMA AnswerRefines ==
    ASSUME Parts, Parts', NEW t \in Threads, NEW res,
           InDerive(calls[t]),
           calls' = [calls EXCEPT ![t] = Answered(calls[t], res)],
           res = ScheduledKey(keys[calls[t].key], calls[t].claims),
           \A k \in Keys : keys[k] # NoKey => keys'[k].material = keys[k].material
    PROVE  Schedule!Answer(t)
<1> DEFINE c == calls[t]
           d == Answered(c, res)
           key == keys[c.key]
<1>1. /\ c.pc # "idle" /\ c.pc # "done" /\ c.key \in Keys /\ key # NoKey
      /\ CallShape(c) /\ CallGood(c, key)
  BY CallInProgress DEF CallGood, InDerive
<1>2. Asked[t] = <<key.material.secret, c.claims>> /\ Asked[t] # NoKey
  BY <1>1, AskedScope
<1>3. c.res = NoMaterial
  BY <1>1 DEF CallShape
<1>4. d.res = res /\ d.pc = "done" /\ d.key = c.key /\ d.claims = c.claims
  BY <1>1 DEF CallShape, CallSet, Answered
<1> HIDE DEF d
<1>5. /\ Answers' = [Answers EXCEPT ![t] = d.res]
      /\ Asked' = [Asked EXCEPT ![t] =
                     IF d.pc = "idle" THEN NoKey
                     ELSE <<keys'[d.key].material.secret, d.claims>>]
  BY OneAnswer DEF d
<1>6. Asked' = Asked
  <2>1. keys'[c.key].material = key.material
    BY <1>1
  <2>2. Asked' = [Asked EXCEPT ![t] = Asked[t]]
    BY <1>2, <1>4, <1>5, <2>1
  <2> QED
    BY <2>2 DEF Asked
<1>7. Answers[t] = NoMaterial
  BY <1>3 DEF Answers
<1>8. res = Schedule!ScheduleKey(Asked[t][1], Asked[t][2])
  BY <1>2 DEF Schedule!ScheduleKey, ScheduledKey
<1> QED
  BY <1>2, <1>4, <1>5, <1>6, <1>7, <1>8 DEF Schedule!Answer, Asked, Answers

\* Starting a call asks for its scope.
LEMMA AskRefines ==
    ASSUME Parts, Parts', NEW t \in Threads, NEW c, calls[t].pc = "idle",
           calls' = [calls EXCEPT ![t] = c], c.pc = "load", UNCHANGED keys
    PROVE  Schedule!Ask(t)
<1>1. Asked[t] = NoKey
  BY DEF Asked
<1>2. calls[t].res = NoMaterial
  BY DEF Parts, CallsGood, CallShape, IdleCall
<1>3. calls'[t] = c /\ c.pc # "idle" /\ calls \in [Threads -> CallSet]
  BY DEF Parts, CallsGood
<1>4. c.res = NoMaterial
  <2>1. CallShape(calls'[t])
    BY DEF Parts, CallsGood
  <2> QED
    BY <1>3, <2>1 DEF CallShape
<1>5. Answers' = Answers
  <2>1. Answers' = [Answers EXCEPT ![t] = c.res]
    BY OneAnswer
  <2>2. Answers[t] = NoMaterial
    BY <1>2 DEF Answers
  <2> QED
    BY <1>4, <2>1, <2>2 DEF Answers
<1>6. Asked' = [Asked EXCEPT ![t] = Asked'[t]]
  <2> DEFINE a == IF c.pc = "idle" THEN NoKey
                  ELSE <<keys'[c.key].material.secret, c.claims>>
  <2>1. \A k \in Keys : keys[k] # NoKey => keys'[k].material = keys[k].material
    OBVIOUS
  <2>2. Asked' = [Asked EXCEPT ![t] = a]
    BY <2>1, OneAnswer
  <2> HIDE DEF a
  <2>3. t \in DOMAIN Asked
    BY DEF Asked
  <2> QED
    BY <2>2, <2>3
<1>7. Asked'[t] \in Secrets \X ClaimSeqs
  <2>1. /\ KeyGood(keys[calls'[t].key]) /\ CallGood(calls'[t], keys[calls'[t].key])
    <3>1. CallGood(calls'[t], keys'[calls'[t].key])
      BY <1>3 DEF Parts, CallsGood
    <3>2. calls'[t].key \in Keys
      BY <1>3 DEF Parts, CallsGood, CallShape
    <3>3. keys[calls'[t].key] # NoKey
      BY <3>1 DEF CallGood
    <3> QED
      BY <3>1, <3>2, <3>3 DEF Parts, KeysGood
  <2>2. Asked'[t] = <<keys[calls'[t].key].material.secret, calls'[t].claims>>
    BY <1>3 DEF Asked
  <2>3. keys[calls'[t].key].material.secret \in Secrets /\ calls'[t].claims \in ClaimSeqs
    BY <2>1, KeyFields DEF KeyGood, CallGood
  <2> QED
    BY <2>2, <2>3
<1> QED
  BY <1>1, <1>5, <1>6, <1>7 DEF Schedule!Ask, Asked, Answers

\* Letting go of a result ends the request.
LEMMA DoneRefines ==
    ASSUME Parts, Parts', NEW t \in Threads, calls[t].pc = "done",
           calls' = [calls EXCEPT ![t] = IdleCall], UNCHANGED keys
    PROVE  Schedule!Done(t)
<1>1. Answers[t] # NoMaterial
  BY DEF Answers, Parts, CallsGood, CallShape
<1>2. IdleCall.res = NoMaterial /\ IdleCall.pc = "idle"
  BY DEF IdleCall
<1>3. Answers' = [Answers EXCEPT ![t] = NoMaterial] /\ Asked' = [Asked EXCEPT ![t] = NoKey]
  BY <1>2, OneAnswer
<1> QED
  BY <1>1, <1>3 DEF Schedule!Done, Asked, Answers

\* Every step of the component is a step of the plain schedule, or none.
LEMMA ScheduleStep == Parts /\ Parts' /\ [Next]_vars => [Schedule!Next]_<<Asked, Answers>>
<1> SUFFICES ASSUME Parts, Parts', [Next]_vars
             PROVE  Schedule!Next \/ UNCHANGED <<Asked, Answers>>
  OBVIOUS
<1>1. keys \in [Keys -> KeySet \union {NoKey}] /\ calls \in [Threads -> CallSet]
  BY DEF Parts, KeysGood, CallsGood
<1>2. UNCHANGED keys =>
        \A k \in Keys : keys[k] # NoKey => keys'[k].material = keys[k].material
  OBVIOUS
<1>3. ASSUME NEW k \in Keys, NEW s \in Secrets, NEW st \in ConfigStages, Provision(k, s, st)
      PROVE  UNCHANGED <<Asked, Answers>>
  BY <1>1, <1>3, QuietStep DEF Provision
<1>4. ASSUME NEW k \in Keys, NEW o \in offers, Receive(k, o)
      PROVE  UNCHANGED <<Asked, Answers>>
  BY <1>1, <1>4, QuietStep DEF Receive
<1>5. ASSUME NEW k \in Keys, NEW i \in StepIdx, NEW c \in Times \union {ZeroTime}, Derive(k, i, c)
      PROVE  UNCHANGED <<Asked, Answers>>
  BY <1>2, <1>5, QuietStep DEF Derive
<1>6. ASSUME NEW t \in Threads, NEW k \in Keys, NEW c \in Times \union {ZeroTime},
             BeginSigner(t, k, c)
      PROVE  Schedule!Ask(t)
  BY <1>6, AskRefines DEF BeginSigner, NewCall
<1>7. ASSUME NEW t \in Threads, NEW k \in Keys, NEW m \in Arriving, BeginVerifier(t, k, m)
      PROVE  Schedule!Ask(t)
  BY <1>7, AskRefines DEF BeginVerifier, NewCall
<1>8. ASSUME NEW t \in Threads, LoadMemo(t)
      PROVE  Schedule!Answer(t) \/ UNCHANGED <<Asked, Answers>>
  <2> DEFINE c == calls[t]
             memo == keys[c.key].memo
  <2>1. c.pc = "load" /\ KeyGood(keys[c.key]) /\ UNCHANGED keys
    BY <1>8, CallInProgress DEF LoadMemo
  <2>2. CASE memo # NoMemo /\ memo.claims = c.claims
    <3>1. calls' = [calls EXCEPT ![t] = Answered(c, memo.derived)]
      BY <1>8, <2>2 DEF LoadMemo, Answered
    <3>2. memo.derived = ScheduledKey(keys[c.key], c.claims)
      BY <2>1, <2>2 DEF KeyGood, MemoGood
    <3>3. \A k \in Keys : keys[k] # NoKey => keys'[k].material = keys[k].material
      BY <1>2, <2>1
    <3>4. InDerive(calls[t])
      BY <2>1 DEF InDerive
    <3>5. Schedule!Answer(t)
      BY <3>1, <3>2, <3>3, <3>4, AnswerRefines
    <3> QED
      BY <3>5
  <2>3. CASE ~(memo # NoMemo /\ memo.claims = c.claims)
    <3> DEFINE d == [c EXCEPT !.pc = "run"]
    <3>1. calls' = [calls EXCEPT ![t] = d]
      BY <1>8, <2>3 DEF LoadMemo
    <3>2. d.pc = "run" /\ d.key = c.key /\ d.claims = c.claims /\ d.res = c.res
      BY <1>1 DEF CallSet
    <3> HIDE DEF d
    <3>3. \A k \in Keys : keys[k] # NoKey => keys'[k].material = keys[k].material
      BY <1>2, <2>1
    <3>4. /\ Answers' = [Answers EXCEPT ![t] = d.res]
          /\ Asked' = [Asked EXCEPT ![t] =
                         IF d.pc = "idle" THEN NoKey
                         ELSE <<keys'[d.key].material.secret, d.claims>>]
      BY <3>1, <3>3, OneAnswer
    <3>5. Asked[t] = <<keys'[d.key].material.secret, d.claims>>
      BY <2>1, <3>2 DEF Asked
    <3>6. Asked' = Asked
      BY <3>2, <3>4, <3>5 DEF Asked
    <3>7. Answers' = Answers
      BY <3>2, <3>4 DEF Answers
    <3> QED
      BY <3>6, <3>7
  <2> QED
    BY <2>2, <2>3
<1>9. ASSUME NEW t \in Threads, StoreMemo(t)
      PROVE  Schedule!Answer(t)
  <2> DEFINE c == calls[t]
             derived == RunLadder(keys[c.key], c.claims)
  <2>1. /\ c.pc = "run" /\ c.key \in Keys /\ KeyGood(keys[c.key]) /\ CallGood(c, keys[c.key])
    BY <1>9, CallInProgress DEF StoreMemo
  <2>2. derived = ScheduledKey(keys[c.key], c.claims)
    BY <2>1, RunLadderScheduled DEF KeyGood, CallGood
  <2>3. calls' = [calls EXCEPT ![t] = Answered(c, derived)]
    BY <1>9 DEF StoreMemo, Answered
  <2>4. keys' = [keys EXCEPT ![c.key] =
                  [keys[c.key] EXCEPT !.memo = [claims |-> c.claims, derived |-> derived]]]
    BY <1>1, <1>9, <2>1 DEF StoreMemo
  <2> HIDE DEF derived
  <2>5. \A k \in Keys : keys[k] # NoKey => keys'[k].material = keys[k].material
    <3>1. [keys[c.key] EXCEPT !.memo = [claims |-> c.claims, derived |-> derived]].material
            = keys[c.key].material
      BY <2>1 DEF KeyGood, KeyOK, KeySet
    <3> QED
      BY <1>1, <2>1, <2>4, <3>1
  <2>6. InDerive(calls[t])
    BY <2>1 DEF InDerive
  <2> QED
    BY <2>2, <2>3, <2>5, <2>6, AnswerRefines
<1>10. ASSUME NEW t \in Threads, NEW c \in Times, Send(t, c)
       PROVE  Schedule!Done(t)
  BY <1>10, DoneRefines DEF Send
<1>11. ASSUME NEW t \in Threads, Finish(t)
       PROVE  Schedule!Done(t)
  BY <1>11, DoneRefines DEF Finish
<1>12. CASE UNCHANGED vars
  BY <1>2, <1>12, QuietStep DEF vars
<1> QED
  BY <1>3, <1>4, <1>5, <1>6, <1>7, <1>8, <1>9, <1>10, <1>11, <1>12
     DEF Next, ThreadStep, Schedule!Next

\* Stages, hand-offs, memos and concurrency never show: what goroutines are
\* answered is what the plain key schedule of KeySchedule answers.
THEOREM ImplementsSchedule == Spec => ScheduleSafety
<1>1. Init => Schedule!Init
  BY DEF Init, Schedule!Init, IdleCall
<1>2. Parts /\ Parts' /\ [Next]_vars => [Schedule!Next]_Schedule!scheduleVars
  BY ScheduleStep DEF Schedule!scheduleVars, Asked, Answers
<1> QED
  BY <1>1, <1>2, PartsAlways, PTL DEF Spec, ScheduleSafety, Schedule!SafetySpec

=============================================================================
