----------------------------- MODULE Middleware -----------------------------
(***************************************************************************)
(* Package server: goroutines, one per request, run check while the key    *)
(* directory rotates and the clock moves.  A goroutine reads the body and  *)
(* parses in one step, since nobody else sees either; then, signature by   *)
(* signature, it asks the directory, and verifies against the clock, in    *)
(* two steps.                                                              *)
(***************************************************************************)
EXTENDS SigConfig

CONSTANTS
    Requests,     \* goroutines
    Arrivals,     \* what may arrive: a message, its body, and whether the
                  \* connection fails at the body's end
    Statements,   \* what signers signed: key, input, message, target, body
    Policies,     \* sigconfig.VerifyPolicies
    KeyIDs, Tags, \* key ids the directory knows, tags in use
    Owner,        \* [key |-> the identity of its holder]
    NoEntry,      \* the directory's error
    NoArrival,    \* before a request comes
    MaxTime       \* bound on the clock

CD == INSTANCE ContentDigest

\* What New checks; ages and sizes are Go integers.
ASSUME PoliciesValid ==
    \A p \in Policies :
        ValidPolicy(p) /\ p.maxAge \in Int /\ p.maxBody \in Int /\ p.tolerance \in Int
ASSUME MaxTimeAssumption == MaxTime \in Nat \ {0}

\* Signatures cannot be forged: whatever a signature of a request is placed
\* next to, it is that of a statement, or none.
SignatureOf(h, types) == KeySign(h.key, SignatureBase(h.msg, h.target, types, h.input))
ASSUME Unforgeable ==
    \A a \in Arrivals, p \in Policies : \A l \in Labels(a.msg.sigs) :
        Get(a.msg.sigs, l) = Malformed \/
            \E h \in Statements : Get(a.msg.sigs, l) = SignatureOf(h, p.coverage.types)
\* No duration reaches back from the epoch to the zero time, in year 1.
ASSUME ZeroTimeAssumption == ZeroTime \in Int /\ Second * ZeroTime + MaxInt <= 0
\* Dates are integers, or of the wrong type.
ASSUME DatesAssumption ==
    \A a \in Arrivals : \A l \in Labels(a.msg.inputs) :
        Get(a.msg.inputs, l) = Malformed \/
            LET params == Get(a.msg.inputs, l).params
            IN  {"created", "expires"} \subseteq DOMAIN params
                /\ {params.created, params.expires} \subseteq Int \union {Absent, IllTyped}
\* Component lists are sequences.
ASSUME ListsAssumption ==
    /\ \A a \in Arrivals : \A l \in Labels(a.msg.inputs) :
          Get(a.msg.inputs, l) = Malformed \/ ListOf(Get(a.msg.inputs, l).items)
    /\ \A h \in Statements : ListOf(h.input.items)
\* Signers are honest: a digest they cover is that of their body.
ASSUME HonestDigests ==
    \A h \in Statements :
        LET es == FlattenSeq(FieldLines(h.msg, "content-digest"))
        IN  (\E i \in DOMAIN h.input.items : h.input.items[i].c = Plain("content-digest")) =>
                \A i \in DOMAIN es : es[i].key \in CD!Supported =>
                    es[i].val = CD!Digest(es[i].key, h.body)
ASSUME BodiesAssumption == \A a \in Arrivals : ListOf(a.body)

Entries == {[key |-> k, identity |-> Owner[k]] : k \in DOMAIN Owner}

VARIABLES
    now,       \* the server's clock
    policy,    \* the Middleware's, fixed
    dir,       \* the key directory: [key id |-> entry or NoEntry]
    pc,        \* "idle", "choosing", "verifying", "served" or "rejected"
    arrival,   \* the request being checked
    body,      \* what r.Body yields to whoever reads it next
    sigs,      \* what ParseSignatures returned
    left,      \* labels not looked at yet
    label,     \* the label looked at
    entry,     \* what the directory said of it
    status,    \* of the response, 0 while there is none
    standing   \* history: labels meeting the whole policy ever since arrival

local == <<pc, arrival, body, sigs, left, label, entry, status>>
vars == <<now, policy, dir, local, standing>>

NoLabel == ""
Nothing == [l \in {} |-> Broken]
Init ==
    /\ now = 1
    /\ policy \in Policies
    /\ dir \in [KeyIDs -> Entries \union {NoEntry}]
    /\ pc = [t \in Requests |-> "idle"]
    /\ arrival = [t \in Requests |-> NoArrival]
    /\ body = [t \in Requests |-> <<>>]
    /\ sigs = [t \in Requests |-> Nothing]
    /\ left = [t \in Requests |-> {}]
    /\ label = [t \in Requests |-> NoLabel]
    /\ entry = [t \in Requests |-> NoEntry]
    /\ status = [t \in Requests |-> 0]
    /\ standing = [t \in Requests |-> {}]

-----------------------------------------------------------------------------
(* Bodies and their digests *)

Limit == BodyLimit(policy)

\* Mutant: the cap itself is read, not a byte more.
ReadBodyShort(a) == IF Limit < 0 THEN a.body ELSE Limited(a.body, Limit)
ReadBody(a) == IF Limit < 0 THEN a.body ELSE Limited(a.body, Plus(Limit, 1))

\* The reader gets as far as the failure.
ReadFails(a) == a.fails /\ (Limit < 0 \/ Plus(Limit, 1) > Len(a.body))
TooLarge(a) == Limit >= 0 /\ Len(ReadBody(a)) > Limit

\* Presence is what was read, not what the framing says.
DigestRequired(a) == ReadBody(a) # <<>> \/ DigestMode(policy.coverage) = "always"

\* Mutant: only a body that is there has its digest checked.
DigestOKWhenBody(a) ==
    DigestRequired(a) => CD!Verify(FieldLines(a.msg, "content-digest"), ReadBody(a),
                                   AcceptedDigests(policy))
DigestOK(a) ==
    LET lines == FieldLines(a.msg, "content-digest")
    IN  (DigestRequired(a) \/ lines # <<>>) =>
            lines # <<>> /\ CD!Verify(lines, ReadBody(a), AcceptedDigests(policy))

-----------------------------------------------------------------------------
(* The loop over signatures *)

ToVerify(a) ==
    [required |-> ToSet(policy.coverage.components)
                    \union (IF DigestRequired(a) THEN {Plain("content-digest")} ELSE {}),
     maxAge |-> AgeLimit(policy),
     tolerance |-> policy.tolerance]

Parse(a) ==
    ParseSignatures(a.msg, Target(a.msg.req, policy.scheme, policy.authority),
                    policy.coverage.types)

\* What the accessors say; of a signature that did not parse, anything.
TextOf(param) == IF param = Absent THEN "" ELSE param
Claims(s) ==
    IF s.ok THEN {[tag |-> TextOf(s.params.tag), keyid |-> TextOf(s.params.keyid)]}
    ELSE [tag : Tags \union {""}, keyid : KeyIDs \union {""}]

Lookup(keyid) == IF keyid \in KeyIDs THEN dir[keyid] ELSE NoEntry
Considered(claim) == policy.tag # "" => claim.tag = policy.tag
Allowed(key) == policy.algorithms # {} => AlgorithmOf[key] \in policy.algorithms

\* What a request should be accepted for, stated over the body as sent and
\* in arithmetic without a width; for the properties.
InWindow(params, time) ==
    /\ params.expires # Absent => time <= Second * params.expires + policy.tolerance
    /\ params.created # Absent => Second * params.created <= time + policy.tolerance
    /\ AgeLimit(policy) > 0 =>
          /\ params.created # Absent
          /\ time <= Second * params.created + AgeLimit(policy) + policy.tolerance
Bound(a) == a.body # <<>> \/ DigestMode(policy.coverage) = "always"
WellBorne(a) ==
    LET lines == FieldLines(a.msg, "content-digest")
    IN  /\ ~a.fails /\ (Limit < 0 \/ Len(a.body) <= Limit)
        /\ a.msg.inputs.ok /\ a.msg.sigs.ok
        /\ Bound(a) \/ lines # <<>> => CD!Verify(lines, a.body, AcceptedDigests(policy))
\* Label l of request a meets the whole policy, with directory d at a time.
Meets(ss, a, l, d, time) ==
    /\ ss[l].ok /\ WellBorne(a)
    /\ InWindow(ss[l].params, time)
    /\ Covers(ss[l], ToSet(policy.coverage.components)
                       \union (IF Bound(a) THEN {Plain("content-digest")} ELSE {}))
    /\ \E claim \in Claims(ss[l]) :
        /\ Considered(claim)
        /\ claim.keyid \in KeyIDs /\ d[claim.keyid] # NoEntry
        /\ LET key == d[claim.keyid].key
           IN  /\ Allowed(key) /\ ss[l].params.alg \in {Absent, AlgorithmOf[key]}
               /\ KeyVerify(key, ss[l].base, ss[l].sig)

-----------------------------------------------------------------------------
(* Actions *)

Reject(t, code) ==
    /\ pc' = [pc EXCEPT ![t] = "rejected"]
    /\ status' = [status EXCEPT ![t] = code]

\* check up to its loop.  A body too large, or unreadable, is refused; then
\* the digest; then fields that do not parse, or hold no signature.
Begin(t, a) ==
    LET ss == Parse(a)
        parses == a.msg.inputs.ok /\ a.msg.sigs.ok
        refuse(code) == Reject(t, code) /\ UNCHANGED <<sigs, left>>
    IN  /\ pc[t] = "idle"
        /\ arrival' = [arrival EXCEPT ![t] = a]
        /\ body' = [body EXCEPT ![t] = IF ReadFails(a) THEN <<>> ELSE ReadBody(a)]
        /\ standing' = [standing EXCEPT ![t] = {l \in DOMAIN ss : Meets(ss, a, l, dir, now)}]
        /\ \/ ReadFails(a) /\ refuse(401)
           \/ ~ReadFails(a) /\ TooLarge(a) /\ refuse(413)
           \/ /\ ~ReadFails(a) /\ ~TooLarge(a)
              /\ ~DigestOK(a) \/ ~parses \/ DOMAIN ss = {}
              /\ refuse(401)
           \/ /\ ~ReadFails(a) /\ ~TooLarge(a)
              /\ DigestOK(a) /\ parses /\ DOMAIN ss # {}
              /\ pc' = [pc EXCEPT ![t] = "choosing"]
              /\ sigs' = [sigs EXCEPT ![t] = ss]
              /\ left' = [left EXCEPT ![t] = DOMAIN ss]
              /\ UNCHANGED status
        /\ UNCHANGED <<now, policy, dir, label, entry>>

\* Mutant: the label is not struck off.
ConsiderAgain(t, l, claim) ==
    LET e == Lookup(claim.keyid)
    IN  /\ pc[t] = "choosing" /\ l \in left[t]
        /\ IF Considered(claim) /\ e # NoEntry /\ Allowed(e.key)
           THEN /\ pc' = [pc EXCEPT ![t] = "verifying"]
                /\ label' = [label EXCEPT ![t] = l]
                /\ entry' = [entry EXCEPT ![t] = e]
           ELSE UNCHANGED <<pc, label, entry>>
        /\ UNCHANGED <<now, policy, dir, arrival, body, sigs, left, status, standing>>

\* One turn of the loop up to the directory's answer.  The order of the
\* signatures is the peer's.
Consider(t, l, claim) ==
    LET e == Lookup(claim.keyid)
    IN  /\ pc[t] = "choosing" /\ l \in left[t]
        /\ left' = [left EXCEPT ![t] = @ \ {l}]
        /\ IF Considered(claim) /\ e # NoEntry /\ Allowed(e.key)
           THEN /\ pc' = [pc EXCEPT ![t] = "verifying"]
                /\ label' = [label EXCEPT ![t] = l]
                /\ entry' = [entry EXCEPT ![t] = e]
           ELSE UNCHANGED <<pc, label, entry>>
        /\ UNCHANGED <<now, policy, dir, arrival, body, sigs, status, standing>>

\* Mutant: the first signature that fails decides.
VerifyFirst(t) ==
    /\ pc[t] = "verifying"
    /\ IF Accepts(sigs[t][label[t]], entry[t].key, ToVerify(arrival[t]), now)
       THEN pc' = [pc EXCEPT ![t] = "served"] /\ status' = [status EXCEPT ![t] = 200]
       ELSE Reject(t, 401)
    /\ UNCHANGED <<now, policy, dir, arrival, body, sigs, left, label, entry, standing>>

\* Mutant: the identity is asked for again once the signature has verified.
VerifyAskTwice(t) ==
    LET e == Lookup(TextOf(sigs[t][label[t]].params.keyid))
    IN  /\ pc[t] = "verifying"
        /\ IF Accepts(sigs[t][label[t]], entry[t].key, ToVerify(arrival[t]), now)
           THEN /\ pc' = [pc EXCEPT ![t] = "served"] /\ status' = [status EXCEPT ![t] = 200]
                /\ entry' = [entry EXCEPT ![t] = IF e = NoEntry THEN @ ELSE e]
           ELSE pc' = [pc EXCEPT ![t] = "choosing"] /\ UNCHANGED <<status, entry>>
        /\ UNCHANGED <<now, policy, dir, arrival, body, sigs, left, label, standing>>

\* The rest of the turn: Verify with the key as resolved, at this moment.
Verify(t) ==
    /\ pc[t] = "verifying"
    /\ IF Accepts(sigs[t][label[t]], entry[t].key, ToVerify(arrival[t]), now)
       THEN pc' = [pc EXCEPT ![t] = "served"] /\ status' = [status EXCEPT ![t] = 200]
       ELSE pc' = [pc EXCEPT ![t] = "choosing"] /\ UNCHANGED status
    /\ UNCHANGED <<now, policy, dir, arrival, body, sigs, left, label, entry, standing>>

\* No signature is left.
Exhaust(t) ==
    /\ pc[t] = "choosing" /\ left[t] = {}
    /\ Reject(t, 401)
    /\ UNCHANGED <<now, policy, dir, arrival, body, sigs, left, label, entry, standing>>

\* Labels that meet the policy no longer; what is answered stays answered.
Outlast(d, time) ==
    standing' = [t \in Requests |->
        IF pc[t] \in {"choosing", "verifying"}
        THEN {l \in standing[t] : Meets(sigs[t], arrival[t], l, d, time)} ELSE standing[t]]

Rotate(keyid, e) ==
    /\ dir' = [dir EXCEPT ![keyid] = e]
    /\ Outlast(dir', now)
    /\ UNCHANGED <<now, policy, local>>

Tick ==
    /\ now < MaxTime
    /\ now' = now + 1
    /\ Outlast(dir, now')
    /\ UNCHANGED <<policy, dir, local>>

\* A turn of the loop.
Turn(t) ==
    \/ \E l \in left[t] : \E claim \in Claims(sigs[t][l]) : Consider(t, l, claim)
    \/ Verify(t)
    \/ Exhaust(t)
Next ==
    \/ \E t \in Requests : (\E a \in Arrivals : Begin(t, a)) \/ Turn(t)
    \/ \E keyid \in KeyIDs, e \in Entries \union {NoEntry} : Rotate(keyid, e)
    \/ Tick

\* A goroutine that can run, runs: nothing in check waits for another.
Spec == Init /\ [][Next]_vars /\ \A t \in Requests : WF_vars(Turn(t))
-----------------------------------------------------------------------------
(* Properties *)

\* The control state of check, and what each of its points has computed.
TypeOK ==
    /\ now \in 1..MaxTime /\ policy \in Policies
    /\ dir \in [KeyIDs -> Entries \union {NoEntry}]
    /\ \A t \in Requests :
        /\ pc[t] \in {"idle", "choosing", "verifying", "served", "rejected"}
        /\ status[t] \in {0, 200, 401, 413}
        /\ status[t] = 0 <=> pc[t] \in {"idle", "choosing", "verifying"}
        /\ left[t] \subseteq DOMAIN sigs[t]
        /\ pc[t] \in {"choosing", "verifying"} => standing[t] \subseteq DOMAIN sigs[t]
        /\ pc[t] = "idle" => arrival[t] = NoArrival
        /\ pc[t] \in {"verifying", "served"} =>
              label[t] \in DOMAIN sigs[t] \ left[t] /\ entry[t] \in Entries

\* Signature s is statement h.
Made(h, s) ==
    /\ s.sig.key = h.key /\ h.input.items = s.items /\ h.input.params = s.params
    /\ s.base = SignatureBase(h.msg, h.target, policy.coverage.types, h.input)

\* A handler runs only for a request that the holder of the identity it is
\* given signed: with an allowed key, under the policy's tag, over the
\* required components, and dated when the policy bounds ages.  The
\* directory and the clock may have moved at any point of check.
ServedIsEntitled ==
    \A t \in Requests : pc[t] = "served" =>
        \E h \in Statements :
            /\ Made(h, sigs[t][label[t]])
            /\ entry[t].identity = Owner[h.key]
            /\ policy.algorithms = {} \/ AlgorithmOf[h.key] \in policy.algorithms
            /\ policy.tag = "" \/ h.input.params.tag = policy.tag
            /\ ToSet(policy.coverage.components)
                  \subseteq {h.input.items[i].c : i \in DOMAIN h.input.items}
            /\ policy.maxAge >= 0 => h.input.params.created # Absent

\* The handler reads the body the signer digested: whenever one is there,
\* or the policy always wants a digest, and whenever the signature covers
\* the digest at all.
BodyBound ==
    \A t \in Requests : pc[t] = "served" =>
        LET s == sigs[t][label[t]]
            covered == \E i \in DOMAIN s.items : s.items[i].c = Plain("content-digest")
        IN  /\ body[t] # <<>> \/ policy.coverage.mode = "always" => covered
            /\ covered => \E h \in Statements : Made(h, s) /\ body[t] = h.body

\* The handler reads the whole body that arrived, never a part of it
\* (server: "The handler reads the replayed body as usual").
BodyIntact ==
    \A t \in Requests : pc[t] = "served" => body[t] = arrival[t].body

\* A request is accepted when at least one signature satisfies the whole
\* policy: if one does so from arrival to answer, in the arithmetic of the
\* policy's words and over the body as it was sent, then no limit of the
\* reader, no failure of another signature, no order of them and no step of
\* the directory or the clock gets the request rejected (New: "a Middleware
\* that constructs will not fail later on account of its configuration").
NoFalseReject ==
    \A t \in Requests : pc[t] = "rejected" => standing[t] = {}

\* A body over the cap is refused as such, and only that is.
TooLargeIs413 ==
    \A t \in Requests : pc[t] \in {"served", "rejected"} =>
        (status[t] = 413 <=> Limit >= 0 /\ Len(arrival[t].body) > Limit)

\* Every request that arrives is answered, whatever its signatures claim and however the
\* directory keeps changing.
EveryRequestAnswered ==
    \A t \in Requests : pc[t] \in {"choosing", "verifying"} ~> pc[t] \in {"served", "rejected"}
=============================================================================
