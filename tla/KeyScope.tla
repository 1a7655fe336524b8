------------------------------ MODULE KeyScope ------------------------------
(***************************************************************************)
(* Package keyscope: HMAC key-derivation ladders.                          *)
(*                                                                         *)
(* A Key is key material bound to a position (a Stage) in a derivation.    *)
(* Brokers hold the root secret and hand material for later stages to      *)
(* services with Derive; goroutines share a Key and call Signer and        *)
(* Verifier concurrently, with a one-entry memo between them.              *)
(*                                                                         *)
(* A string that may become part of a keyid is the sequence of its         *)
(* "/"-separated segments, so that joining is concatenation and splitting  *)
(* is the identity; a string without "/" has length one.  Key bytes are    *)
(* symbolic: the secret, the prefixes put before it and the inputs HMAC    *)
(* has absorbed, rung by rung; different histories are different bytes.    *)
(***************************************************************************)
EXTENDS Integers, Sequences, FiniteSets, SequencesExt

CONSTANTS
    Keys,           \* identities of the Key objects a program constructs
    Threads,        \* goroutines calling them
    Steps,          \* Derivation.Steps, the same at every participant
    SecretPrefix,   \* Derivation.SecretPrefix: <<>>, or one tag
    Secrets,        \* root secrets
    Times,          \* created times other than the zero time
    ZeroTime,       \* the zero time: a signature without created
    DayOf,          \* the UTC day of a time
    Dates,          \* [layout, day] |-> the text Format gives
    FarDays,        \* days past year 9999, which Format writes and Parse refuses
    Strs,           \* the strings in use
    ConfigStages,   \* stages written by hand for root secrets
    StrayKeyIDs,    \* keyids peers send that no key minted
    LongSegments,   \* segments that take a keyid over maxKeyIDLen
    MaxOffers, MaxSent, \* bounds on hand-offs and messages
    NoKey, NoMemo, NoMaterial, NoMsg

EmptyStr == <<"">>
ASSUME StrsAssumption == EmptyStr \in Strs /\ Strs \subseteq Seq(STRING)
StepType == [name : STRING, literal : Strs, scope : BOOLEAN, date : STRING]
ASSUME StepsAssumption == Steps \in Seq(StepType)
ASSUME PrefixAssumption == SecretPrefix \in Seq(STRING)
ASSUME TimesAssumption == ZeroTime \notin Times

StepIdx == 1..Len(Steps)
StepNames == {Steps[i].name : i \in StepIdx}
DateLayouts == {"YYYYMMDD", "YYYY-MM-DD"}
NoSlash(v) == Len(v) = 1

-----------------------------------------------------------------------------
(* Derivations and stages *)

\* validateDerivation (kind and hash are fixed by the representation).
InputSources(step) ==
    {s \in {"literal", "scope", "date"} :
        \/ s = "literal" /\ step.literal # EmptyStr
        \/ s = "scope" /\ step.scope
        \/ s = "date" /\ step.date # ""}

ValidDerivation ==
    /\ Steps # <<>>
    /\ \A i \in StepIdx :
        /\ Steps[i].name # ""
        /\ \A j \in 1..(i-1) : Steps[j].name # Steps[i].name
        /\ \E s \in {"literal", "scope", "date"} : InputSources(Steps[i]) = {s}
        /\ NoSlash(Steps[i].literal)
        /\ Steps[i].date # "" => Steps[i].date \in DateLayouts

\* A stage's place in the ladder: 0 is the root, i the output of step i
\* (the code counts from 0 and calls the root -1).
FromIdx(stage) ==
    IF stage.from = "" THEN 0
    ELSE CHOOSE i \in StepIdx : Steps[i].name = stage.from

\* Reading a Go map: an absent entry reads as the empty string.
ScopeOf(stage, i) ==
    IF Steps[i].name \in DOMAIN stage.scope
    THEN stage.scope[Steps[i].name] ELSE EmptyStr

\* time.Time.Format and time.Parse at one of the layouts.
FormatDate(layout, t) == Dates[layout, DayOf[t]]
ASSUME DatesAssumption ==
    \A layout \in DateLayouts, t \in Times :
        FormatDate(layout, t) \in Strs \ {EmptyStr} /\ NoSlash(FormatDate(layout, t))
ParsesAsDate(layout, v) ==
    \E t \in Times : DayOf[t] \notin FarDays /\ v = FormatDate(layout, t)

\* The step values a stage must state: every scope step, and the dates
\* already applied.
Needed(from) ==
    {i \in StepIdx : Steps[i].scope \/ (Steps[i].date # "" /\ i <= from)}

\* Mutant: scope values may contain the separator.
ValidStageAnySegment(stage) ==
    /\ stage.name # EmptyStr /\ NoSlash(stage.name)
    /\ stage.from # "" => stage.from \in StepNames
    /\ \A i \in Needed(FromIdx(stage)) :
        IF Steps[i].scope THEN ScopeOf(stage, i) # EmptyStr
        ELSE ParsesAsDate(Steps[i].date, ScopeOf(stage, i))
    /\ DOMAIN stage.scope \subseteq {Steps[i].name : i \in Needed(FromIdx(stage))}

ValidStage(stage) ==
    /\ stage.name # EmptyStr /\ NoSlash(stage.name)
    /\ stage.from # "" => stage.from \in StepNames
    /\ \A i \in Needed(FromIdx(stage)) :
        IF Steps[i].scope
        THEN ScopeOf(stage, i) # EmptyStr /\ NoSlash(ScopeOf(stage, i))
        ELSE ParsesAsDate(Steps[i].date, ScopeOf(stage, i))
    /\ DOMAIN stage.scope \subseteq {Steps[i].name : i \in Needed(FromIdx(stage))}

-----------------------------------------------------------------------------
(* Keys: claims, keyids and the ladder *)

\* Mutant: a baked date is not compared.
ClaimsOKAnyDay(key, created) ==
    \A i \in StepIdx : Steps[i].date # "" => created # ZeroTime

\* created disagrees with a date baked into the key, or is missing.
ClaimsOK(key, created) ==
    \A i \in StepIdx : Steps[i].date # "" =>
        /\ created # ZeroTime
        /\ i <= key.from =>
              FormatDate(Steps[i].date, created) = ScopeOf(key.stage, i)

Claims(key, created) ==
    [i \in StepIdx |->
        IF Steps[i].date # "" THEN FormatDate(Steps[i].date, created)
        ELSE IF Steps[i].scope THEN ScopeOf(key.stage, i)
        ELSE Steps[i].literal]

\* strings.Join of the name and the claims with "/".
Join(name, claims) == FlattenSeq(<<name>> \o claims)
KeyID(key, created) == Join(key.stage.name, Claims(key, created))

\* HMAC chained over the inputs of steps lo..hi.
HMACLadder(material, claims, lo, hi) ==
    [material EXCEPT !.rungs = @ \o SubSeq(claims, lo, hi)]

\* Mutant: the ladder restarts at the first step whatever the stage.
RunLadderFromRoot(key, claims) ==
    HMACLadder(key.material, claims, 1, Len(Steps))

RunLadder(key, claims) ==
    HMACLadder(key.material, claims, key.from + 1, Len(Steps))

\* The checks of Key.Verifier, up to the derivation.
TooLong(keyid) == \E i \in DOMAIN keyid : keyid[i] \in LongSegments
\* Mutant: segments compared one place off.
NamesScopeShifted(key, claims, keyid) ==
    /\ Len(keyid) = 1 + Len(Steps)
    /\ <<keyid[1]>> = key.stage.name
    /\ \A i \in StepIdx : <<keyid[i]>> = claims[i]
NamesScope(key, claims, keyid) ==
    /\ Len(keyid) = 1 + Len(Steps)
    /\ <<keyid[1]>> = key.stage.name
    /\ \A i \in StepIdx : <<keyid[i+1]>> = claims[i]
\* Mutant: the scope comparison is left to the signature.
VerifierOKUncompared(key, keyid, created) ==
    /\ ~TooLong(keyid)
    /\ ClaimsOK(key, created)
    /\ Len(keyid) = 1 + Len(Steps)
VerifierOK(key, keyid, created) ==
    /\ ~TooLong(keyid)
    /\ ClaimsOK(key, created)
    /\ NamesScope(key, Claims(key, created), keyid)

\* ParseKeyID: the claim a lookup selects a key by; literals are checked and
\* dropped.
ParseOK(keyid) ==
    /\ ~TooLong(keyid)
    /\ Len(keyid) = 1 + Len(Steps)
    /\ keyid[1] # ""
    /\ \A i \in StepIdx : IF Steps[i].literal # EmptyStr
                           THEN <<keyid[i+1]>> = Steps[i].literal
                           ELSE keyid[i+1] # ""
\* Mutant: values read one segment early.
ParseKeyIDShifted(keyid) ==
    [name |-> <<keyid[1]>>,
     scope |-> [n \in {Steps[i].name : i \in {j \in StepIdx : Steps[j].literal = EmptyStr}} |->
                  LET i == CHOOSE i \in StepIdx : Steps[i].name = n
                  IN  <<keyid[i]>>]]
ParseKeyID(keyid) ==
    [name |-> <<keyid[1]>>,
     scope |-> [n \in {Steps[i].name : i \in {j \in StepIdx : Steps[j].literal = EmptyStr}} |->
                  LET i == CHOOSE i \in StepIdx : Steps[i].name = n
                  IN  <<keyid[i+1]>>]]

\* Mutant: the date of the last applied step is left out.
DerivedStageDateLost(key, through, created) ==
    LET kept == {i \in StepIdx : \/ Steps[i].scope
                                 \/ Steps[i].date # "" /\ i < through}
    IN  [name |-> key.stage.name,
         from |-> Steps[through].name,
         scope |-> [n \in {Steps[i].name : i \in kept} |->
                      LET i == CHOOSE i \in kept : Steps[i].name = n
                      IN  Claims(key, created)[i]]]

\* The stage Derive describes its result with.
DerivedStage(key, through, created) ==
    LET kept == {i \in StepIdx : \/ Steps[i].scope
                                 \/ Steps[i].date # "" /\ i <= through}
    IN  [name |-> key.stage.name,
         from |-> Steps[through].name,
         scope |-> [n \in {Steps[i].name : i \in kept} |->
                      LET i == CHOOSE i \in kept : Steps[i].name = n
                      IN  Claims(key, created)[i]]]

\* Mutant: the position is lost.
NewKeyAtRoot(stage, material) ==
    [stage |-> stage, from |-> 0,
     material |-> IF FromIdx(stage) = 0
                  THEN [material EXCEPT !.prefix = SecretPrefix \o @]
                  ELSE material,
     memo |-> NoMemo]
\* Mutant: no prefix at the root.
NewKeyUnprefixed(stage, material) ==
    [stage |-> stage, from |-> FromIdx(stage), material |-> material, memo |-> NoMemo]

\* New prepends the prefix to a root secret only.
NewKey(stage, material) ==
    [stage |-> stage,
     from |-> FromIdx(stage),
     material |-> IF FromIdx(stage) = 0
                  THEN [material EXCEPT !.prefix = SecretPrefix \o @]
                  ELSE material,
     memo |-> NoMemo]

RootMaterial(secret) == [prefix |-> <<>>, secret |-> secret, rungs |-> <<>>]

-----------------------------------------------------------------------------
(* State *)

VARIABLES
    keys,    \* the Key objects, with their memo
    calls,   \* each goroutine's call in progress
    offers,  \* material and stage pairs handed off by Derive
    sent     \* signed messages: what the wire carries of them

vars == <<keys, calls, offers, sent>>

IdleCall == [pc |-> "idle", op |-> "none", key |-> NoKey, claims |-> <<>>,
             msg |-> NoMsg, res |-> NoMaterial]
NewCall(op, k, claims, m) ==
    [pc |-> "load", op |-> op, key |-> k, claims |-> claims,
     msg |-> m, res |-> NoMaterial]

Init ==
    /\ keys = [k \in Keys |-> NoKey]
    /\ calls = [t \in Threads |-> IdleCall]
    /\ offers = {}
    /\ sent = {}

-----------------------------------------------------------------------------
(* Actions.  A call the code refuses changes nothing and is not a step. *)

\* New at a root secret, with a stage from configuration.
Provision(k, secret, stage) ==
    /\ keys[k] = NoKey
    /\ stage.from = ""
    /\ ValidDerivation
    /\ ValidStage(stage)
    /\ keys' = [keys EXCEPT ![k] = NewKey(stage, RootMaterial(secret))]
    /\ UNCHANGED <<calls, offers, sent>>

\* New at a service that received material with its stage.
Receive(k, o) ==
    /\ keys[k] = NoKey
    /\ ValidDerivation
    /\ ValidStage(o.stage)
    /\ keys' = [keys EXCEPT ![k] = NewKey(o.stage, o.material)]
    /\ UNCHANGED <<calls, offers, sent>>

\* Mutant: steps already applied may be asked for.
DeriveBackwards(k, through, created) ==
    /\ keys[k] # NoKey
    /\ ClaimsOK(keys[k], created)
    /\ Cardinality(offers) < MaxOffers
    /\ offers' = offers \union
         {[material |-> HMACLadder(keys[k].material, Claims(keys[k], created),
                                   keys[k].from + 1, through),
           stage |-> DerivedStage(keys[k], through, created)]}
    /\ UNCHANGED <<keys, calls, sent>>

Derive(k, through, created) ==
    /\ keys[k] # NoKey
    /\ through > keys[k].from
    /\ ClaimsOK(keys[k], created)
    /\ Cardinality(offers) < MaxOffers
    /\ offers' = offers \union
         {[material |-> HMACLadder(keys[k].material, Claims(keys[k], created),
                                   keys[k].from + 1, through),
           stage |-> DerivedStage(keys[k], through, created)]}
    /\ UNCHANGED <<keys, calls, sent>>

\* Key.Signer and Key.Verifier up to the call of derive.
BeginSigner(t, k, created) ==
    /\ calls[t].pc = "idle"
    /\ keys[k] # NoKey
    /\ ClaimsOK(keys[k], created)
    /\ calls' = [calls EXCEPT ![t] =
                   NewCall("sign", k, Claims(keys[k], created), NoMsg)]
    /\ UNCHANGED <<keys, offers, sent>>

BeginVerifier(t, k, m) ==
    /\ calls[t].pc = "idle"
    /\ keys[k] # NoKey
    /\ VerifierOK(keys[k], m.keyid, m.created)
    /\ calls' = [calls EXCEPT ![t] =
                   NewCall("verify", k, Claims(keys[k], m.created), m)]
    /\ UNCHANGED <<keys, offers, sent>>

\* Mutant: any memo is a hit.
LoadMemoUncompared(t) ==
    LET memo == keys[calls[t].key].memo
    IN  /\ calls[t].pc = "load"
        /\ calls' = IF memo # NoMemo
             THEN [calls EXCEPT ![t].pc = "done", ![t].res = memo.derived]
             ELSE [calls EXCEPT ![t].pc = "run"]
        /\ UNCHANGED <<keys, offers, sent>>

\* derive: the atomic load of the memo and the comparison with its claims ...
LoadMemo(t) ==
    LET memo == keys[calls[t].key].memo
        hit == memo # NoMemo /\ memo.claims = calls[t].claims
    IN  /\ calls[t].pc = "load"
        /\ calls' = IF hit
             THEN [calls EXCEPT ![t].pc = "done", ![t].res = memo.derived]
             ELSE [calls EXCEPT ![t].pc = "run"]
        /\ UNCHANGED <<keys, offers, sent>>

\* Mutant: only an empty memo is stored to; otherwise start over.
StoreMemoRetry(t) ==
    LET k == calls[t].key
        derived == RunLadder(keys[k], calls[t].claims)
    IN  /\ calls[t].pc = "run"
        /\ IF keys[k].memo = NoMemo
           THEN /\ keys' = [keys EXCEPT ![k].memo =
                              [claims |-> calls[t].claims, derived |-> derived]]
                /\ calls' = [calls EXCEPT ![t].pc = "done", ![t].res = derived]
           ELSE calls' = [calls EXCEPT ![t].pc = "load"] /\ UNCHANGED keys
        /\ UNCHANGED <<offers, sent>>

\* ... then the ladder, and the store that replaces whatever is there by now.
StoreMemo(t) ==
    LET k == calls[t].key
        derived == RunLadder(keys[k], calls[t].claims)
    IN  /\ calls[t].pc = "run"
        /\ keys' = [keys EXCEPT ![k].memo =
                      [claims |-> calls[t].claims, derived |-> derived]]
        /\ calls' = [calls EXCEPT ![t].pc = "done", ![t].res = derived]
        /\ UNCHANGED <<offers, sent>>

\* The caller signs with the derived key, a keyid and a created time it is
\* free to take later than the derivation.
Send(t, created) ==
    LET key == keys[calls[t].key]
    IN  /\ calls[t].pc = "done" /\ calls[t].op = "sign"
        /\ ClaimsOK(key, created)
        /\ Cardinality(sent) < MaxSent
        /\ sent' = sent \union
             {[keyid |-> KeyID(key, created), created |-> created,
               mac |-> [key |-> calls[t].res, keyid |-> KeyID(key, created),
                        created |-> created]]}
        /\ calls' = [calls EXCEPT ![t] = IdleCall]
        /\ UNCHANGED <<keys, offers>>

\* The caller is through with what it derived.
Finish(t) ==
    /\ calls[t].pc = "done"
    /\ calls' = [calls EXCEPT ![t] = IdleCall]
    /\ UNCHANGED <<keys, offers, sent>>

\* What reaches a verifier: messages as sent, or with another keyid or created.
Arriving ==
    sent \union {[m EXCEPT !.keyid = s] : m \in sent, s \in StrayKeyIDs}
         \union {[m EXCEPT !.created = c] : m \in sent, c \in Times \union {ZeroTime}}

ThreadStep(t) == LoadMemo(t) \/ StoreMemo(t)

Next ==
    \/ \E k \in Keys, s \in Secrets, st \in ConfigStages : Provision(k, s, st)
    \/ \E k \in Keys, o \in offers : Receive(k, o)
    \/ \E k \in Keys, i \in StepIdx, c \in Times \union {ZeroTime} : Derive(k, i, c)
    \/ \E t \in Threads, k \in Keys, c \in Times \union {ZeroTime} : BeginSigner(t, k, c)
    \/ \E t \in Threads, k \in Keys, m \in Arriving : BeginVerifier(t, k, m)
    \/ \E t \in Threads : ThreadStep(t)
    \/ \E t \in Threads, c \in Times : Send(t, c)
    \/ \E t \in Threads : Finish(t)

\* The scheduler runs every goroutine that can run: derive neither locks nor
\* waits, so each of its steps is eventually taken.
Fairness == \A t \in Threads : WF_vars(ThreadStep(t))

Spec == Init /\ [][Next]_vars /\ Fairness
-----------------------------------------------------------------------------
(* Properties *)

ClaimSeqs == [StepIdx -> Strs]
StageSet == [name : Strs, from : StepNames \union {""},
             scope : UNION {[D -> Strs] : D \in SUBSET StepNames}]
MaterialSet == [prefix : {<<>>, SecretPrefix}, secret : Secrets, rungs : Seq(Strs)]
MemoSet == [claims : ClaimSeqs, derived : MaterialSet]
KeySet == [stage : StageSet, from : 0..Len(Steps), material : MaterialSet,
           memo : MemoSet \union {NoMemo}]
KeyIDs == {Join(n, c) : n \in Strs, c \in ClaimSeqs} \union StrayKeyIDs
MessageSet ==
    [keyid : KeyIDs, created : Times \union {ZeroTime},
     mac : [key : MaterialSet, keyid : KeyIDs, created : Times]]
CallSet == [pc : {"idle", "load", "run", "done"}, op : {"none", "sign", "verify"},
            key : Keys \union {NoKey}, claims : ClaimSeqs \union {<<>>},
            msg : MessageSet \union {NoMsg}, res : MaterialSet \union {NoMaterial}]

ASSUME StagesAssumption == ConfigStages \subseteq StageSet
ASSUME NoneAssumption ==
    /\ NoKey \notin KeySet /\ NoKey \notin Keys /\ NoKey \notin Secrets \X ClaimSeqs
    /\ NoMemo \notin MemoSet /\ NoMaterial \notin MaterialSet /\ NoMsg \notin MessageSet

\* The shapes of keys, calls, hand-offs and messages: every Key that exists
\* passed validateStage, a call in progress is on a Key that exists, and it
\* has a result exactly when it is done.
TypeOK ==
    /\ keys \in [Keys -> KeySet \union {NoKey}]
    /\ calls \in [Threads -> CallSet]
    /\ offers \subseteq [material : MaterialSet, stage : StageSet]
    /\ sent \subseteq MessageSet
    /\ \A k \in Keys : keys[k] # NoKey =>
         ValidDerivation /\ ValidStage(keys[k].stage) /\ keys[k].from = FromIdx(keys[k].stage)
    /\ \A t \in Threads :
         /\ calls[t].pc = "done" <=> calls[t].res # NoMaterial
         /\ IF calls[t].pc = "idle" THEN calls[t] = IdleCall
            ELSE /\ calls[t].key \in Keys /\ keys[calls[t].key] # NoKey
                 /\ calls[t].claims \in ClaimSeqs
         /\ calls[t].op = "verify" => calls[t].msg \in MessageSet

\* The key the root secret of key has for a scope.
ScheduledKey(key, claims) ==
    [prefix |-> SecretPrefix, secret |-> key.material.secret, rungs |-> claims]

\* The value already absorbed at step i, as the stage records it.
Baked(stage, i) ==
    IF Steps[i].literal # EmptyStr THEN Steps[i].literal ELSE ScopeOf(stage, i)

\* Whatever chain of hand-offs a Key came by, its material is the ladder of
\* its root secret through its stage, over the values the stage records:
\* no rung skipped, repeated or absorbed for another value than recorded,
\* and the secret prefix applied once (New, Derive).
StageFaithful ==
    \A k \in Keys : keys[k] # NoKey =>
        /\ keys[k].material.prefix = SecretPrefix
        /\ keys[k].material.rungs = [i \in 1..keys[k].from |-> Baked(keys[k].stage, i)]

\* The memo of a Key holds, whichever goroutine stored it last, the key its
\* root secret has for the memo's own claims (derive: "claims fully
\* determine the derived key").
MemoSound ==
    \A k \in Keys : (keys[k] # NoKey /\ keys[k].memo # NoMemo) =>
        keys[k].memo.derived = ScheduledKey(keys[k], keys[k].memo.claims)

\* What a call in progress and a hand-off hold, for the proofs: the claims
\* agree with what the key has absorbed, a verifier's keyid spells them, a
\* result is the scheduled key, and an offer is faithful to its stage.
CallsSound ==
    \A t \in Threads : calls[t].pc # "idle" =>
        LET c == calls[t]  key == keys[calls[t].key]
        IN  /\ \A i \in 1..key.from : c.claims[i] = Baked(key.stage, i)
            /\ c.op = "verify" => NamesScope(key, c.claims, c.msg.keyid)
            /\ c.pc = "done" => c.res = ScheduledKey(key, c.claims)
OffersFaithful ==
    \A o \in offers :
        /\ ValidDerivation
        /\ o.stage.from \in StepNames
        /\ o.material.prefix = SecretPrefix
        /\ o.material.rungs = [i \in 1..FromIdx(o.stage) |-> Baked(o.stage, i)]

\* The inductive invariant: every derived key is the scheduled one.
Inv == TypeOK /\ StageFaithful /\ MemoSound /\ CallsSound /\ OffersFaithful

\* HMAC verification of a message with the key a Verifier call derived.
Accepts(call) ==
    call.msg.mac = [key |-> call.res, keyid |-> call.msg.keyid,
                    created |-> call.msg.created]

\* A verifier's verdict, from any stage and however calls interleave on the
\* memo: it accepts exactly the messages whose signing key is the scheduled
\* key of the verifier's own secret for the scope the keyid spells, with
\* keyid and created as signed.  A signer kept past midnight is rejected; no
\* sound message is rejected because another call was in flight.
VerdictExact ==
    \A t \in Threads :
        LET c == calls[t]
        IN  (c.pc = "done" /\ c.op = "verify") =>
              (Accepts(c) <=>
                 /\ c.msg.mac.key =
                      ScheduledKey(keys[c.key], [i \in StepIdx |-> <<c.msg.keyid[i+1]>>])
                 /\ c.msg.mac.keyid = c.msg.keyid
                 /\ c.msg.mac.created = c.msg.created)

\* Two Keys of one secret that mint the same keyid text for a time derive
\* the same key for it, at whatever stages they are: joined by slashes, no
\* two scopes read alike (validateStage's separator rule, StageFaithful).
KeyIDDeterminesKey ==
    \A j, k \in Keys : (keys[j] # NoKey /\ keys[k] # NoKey) =>
        \A c \in Times :
            LET J == keys[j]  K == keys[k]
            IN  (/\ J.material.secret = K.material.secret
                 /\ ClaimsOK(J, c) /\ ClaimsOK(K, c)
                 /\ KeyID(J, c) = KeyID(K, c))
                => RunLadder(J, Claims(J, c)) = RunLadder(K, Claims(K, c))

\* A Key that constructs accepts the keyid it mints itself (New: "a Key that
\* constructs fails later only on per-request scope mismatches"; KeyID: "so
\* the verifier can check the claimed scope").
OwnKeyIDVerifies ==
    \A k \in Keys : keys[k] # NoKey =>
        \A c \in Times : ClaimsOK(keys[k], c) =>
            VerifierOK(keys[k], KeyID(keys[k], c), c)

\* A lookup that selects by the parsed claim finds the key whose Verifier then
\* accepts the keyid: whatever keyid a Key accepts, ParseKeyID accepts too and
\* names that Key and the values its claims hold (doc.go: "ParseKeyID first,
\* ... then Key.Verifier still validates the full keyid").
LookupFindsKey ==
    \A k \in Keys, c \in Times :
        LET key == keys[k]
            minted == KeyID(key, c)
        IN  (key # NoKey /\ ClaimsOK(key, c) /\ VerifierOK(key, minted, c)) =>
              /\ ParseOK(minted)
              /\ ParseKeyID(minted).name = key.stage.name
              /\ \A n \in DOMAIN key.stage.scope :
                    ParseKeyID(minted).scope[n] = key.stage.scope[n]

\* What Derive hands off, a service can construct a Key from ("the hand-off
\* operation: ... a service, which reconstructs a Key from the returned
\* material and stage"), and the Key mints the same keyids as any other with
\* its name and values: every offer is a valid stage for New.
HandoffReconstructs == \A o \in offers : ValidStage(o.stage)

\* A peer cannot drive the key schedule: a memo changes only for claims that
\* a signing call holds, or that a verified message's keyid spells in full
\* (Verifier compares the scope before any derivation).
MismatchNeverDerives ==
    [][\A k \in Keys : (keys[k] # NoKey /\ keys'[k] # keys[k]) =>
          \E t \in Threads :
              /\ calls[t].key = k
              /\ keys'[k].memo.claims = calls[t].claims
              /\ calls[t].op = "verify" =>
                   NamesScope(keys[k], calls[t].claims, calls[t].msg.keyid)]_vars

\* A goroutine inside derive gets its key, whatever the others do to the
\* memo meanwhile (derive retries nothing).
CallsReturn ==
    \A t \in Threads : calls[t].pc \in {"load", "run"} ~> calls[t].pc = "done"

\* The memo, the stages and the hand-offs implement the plain key schedule.
Schedule == INSTANCE KeySchedule WITH
    Prefix <- SecretPrefix,
    SecretValues <- Secrets,
    Scopes <- ClaimSeqs,
    Idle <- NoKey,
    Pending <- NoMaterial,
    asked <- [t \in Threads |->
                IF calls[t].pc = "idle" THEN NoKey
                ELSE <<keys[calls[t].key].material.secret, calls[t].claims>>],
    answer <- [t \in Threads |-> calls[t].res]
ScheduleSpec == Schedule!Spec
ScheduleSafety == Schedule!SafetySpec

=============================================================================
