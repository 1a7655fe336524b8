--------------------------- MODULE Middleware_proofs ---------------------------
(***************************************************************************)
(* Theorems about Middleware, for every set of policies, arrivals,         *)
(* statements and directories: its types; that a handler runs only for     *)
(* what the holder of its identity signed, and reads the body that was     *)
(* digested; and, where the cap leaves room for one byte more, that bodies *)
(* are whole and only bodies too large are called so.                      *)
(***************************************************************************)
EXTENDS Middleware, SigConfig_proofs

PCs == {"idle", "choosing", "verifying", "served", "rejected"}

\* What the variables are functions of.
Shape ==
    /\ pc \in [Requests -> PCs]
    /\ DOMAIN arrival = Requests /\ DOMAIN body = Requests
    /\ DOMAIN sigs = Requests /\ DOMAIN left = Requests
    /\ DOMAIN label = Requests /\ DOMAIN entry = Requests
    /\ DOMAIN status = Requests /\ DOMAIN standing = Requests

\* The work in hand belongs to the arrival, read as a whole.
InHand(t) ==
    /\ sigs[t] = Parse(arrival[t])
    /\ body[t] = ReadBody(arrival[t])
    /\ ~TooLarge(arrival[t]) /\ DigestOK(arrival[t])
\* The signature looked at passed the checks before its verification ...
Chosen(t) ==
    /\ Allowed(entry[t].key)
    /\ \E claim \in Claims(sigs[t][label[t]]) : Considered(claim)
\* ... and what verification adds to them.
Proven(t) ==
    LET s == sigs[t][label[t]]
    IN  /\ s.ok
        /\ KeyVerify(entry[t].key, s.base, s.sig)
        /\ Covers(s, ToVerify(arrival[t]).required)
        /\ AgeLimit(policy) > 0 => TimeOf(s.params.created) # ZeroTime

\* The status of a refusal.
Coded(t) == status[t] = 413 <=> ~ReadFails(arrival[t]) /\ TooLarge(arrival[t])

At(t, points) == pc[t] \in points
\* The inductive invariant, which holds whatever arrives ...
Kept ==
    \A t \in Requests :
        /\ At(t, {"choosing", "verifying", "served"}) => InHand(t)
        /\ At(t, {"verifying", "served"}) => Chosen(t)
        /\ At(t, {"served"}) => Proven(t)
        /\ At(t, {"served", "rejected"}) => Coded(t)
Inv == Shape /\ TypeOK /\ Kept
\* ... and what arrives.
Came == \A t \in Requests : ~At(t, {"idle"}) => arrival[t] \in Arrivals

-----------------------------------------------------------------------------
(* Facts that hold in every step *)

\* What a policy decides does not change while it does not.
LEMMA PolicyFixed ==
    ASSUME UNCHANGED policy, NEW a
    PROVE  /\ Parse(a)' = Parse(a) /\ ReadBody(a)' = ReadBody(a) /\ TooLarge(a)' = TooLarge(a)
           /\ ReadFails(a)' = ReadFails(a) /\ ToVerify(a)' = ToVerify(a)
           /\ DigestOK(a)' = DigestOK(a)
BY DEF Parse, ReadBody, TooLarge, ReadFails, ToVerify, DigestRequired, DigestOK, Limit

\* A request nothing happens to keeps what is known of it.
LEMMA Untouched ==
    ASSUME NEW u \in Requests, UNCHANGED policy,
           arrival'[u] = arrival[u], sigs'[u] = sigs[u], body'[u] = body[u]
    PROVE  /\ InHand(u) => InHand(u)'
           /\ (label'[u] = label[u] /\ entry'[u] = entry[u] /\ Chosen(u)) => Chosen(u)'
           /\ (label'[u] = label[u] /\ entry'[u] = entry[u] /\ Proven(u)) => Proven(u)'
           /\ (status'[u] = status[u] /\ Coded(u)) => Coded(u)'
<1>1. InHand(u) => InHand(u)'
  BY PolicyFixed DEF InHand
<1>2. ASSUME label'[u] = label[u], entry'[u] = entry[u], Chosen(u)
      PROVE  Chosen(u)'
  BY <1>2 DEF Chosen, Allowed, Considered
<1>3. ASSUME label'[u] = label[u], entry'[u] = entry[u], Proven(u)
      PROVE  Proven(u)'
  BY <1>3, PolicyFixed DEF Proven
<1>4. ASSUME status'[u] = status[u], Coded(u)
      PROVE  Coded(u)'
  BY <1>4, PolicyFixed DEF Coded
<1> QED
  BY <1>1, <1>2, <1>3, <1>4

\* Before anything arrives the invariant holds.
LEMMA InitInv == Init => Inv
<1> SUFFICES ASSUME Init PROVE Inv
  OBVIOUS
<1>1. Shape
  BY DEF Init, Shape, PCs
<1>2. TypeOK
  BY MaxTimeAssumption DEF Init, TypeOK, Nothing
<1>3. Kept
  BY DEF Init, Kept, At
<1> QED
  BY <1>1, <1>2, <1>3 DEF Inv
-----------------------------------------------------------------------------
(* One lemma per action: it preserves the invariant *)

\* What parsing and reading give is what is kept.
LEMMA BeginInv ==
    ASSUME Inv, NEW t \in Requests, NEW a, Begin(t, a)
    PROVE  Inv'
<1> USE DEF Inv
<1>1. /\ pc[t] = "idle" /\ UNCHANGED <<now, policy, dir, label, entry>>
      /\ arrival' = [arrival EXCEPT ![t] = a]
      /\ body' = [body EXCEPT ![t] = IF ReadFails(a) THEN <<>> ELSE ReadBody(a)]
      /\ standing' = [standing EXCEPT ![t] = {l \in DOMAIN Parse(a) : Meets(Parse(a), a, l, dir, now)}]
      /\ \/ /\ pc' = [pc EXCEPT ![t] = "rejected"]
            /\ \E code \in {401, 413} :
                  /\ status' = [status EXCEPT ![t] = code]
                  /\ code = 413 <=> ~ReadFails(a) /\ TooLarge(a)
            /\ UNCHANGED <<sigs, left>>
         \/ /\ pc' = [pc EXCEPT ![t] = "choosing"]
            /\ ~ReadFails(a) /\ ~TooLarge(a) /\ DigestOK(a)
            /\ sigs' = [sigs EXCEPT ![t] = Parse(a)]
            /\ left' = [left EXCEPT ![t] = DOMAIN Parse(a)]
            /\ UNCHANGED status
  BY DEF Begin, Reject
<1>2. Shape'
  BY <1>1 DEF Shape, PCs
<1>3. TypeOK'
  BY <1>1 DEF Shape, PCs, TypeOK
<1>4. ASSUME NEW u \in Requests, u # t
      PROVE  /\ At(u, {"choosing", "verifying", "served"})' => InHand(u)'
             /\ At(u, {"verifying", "served"})' => Chosen(u)'
             /\ At(u, {"served"})' => Proven(u)'
             /\ At(u, {"served", "rejected"})' => Coded(u)'
  <2>1. pc'[u] = pc[u] /\ arrival'[u] = arrival[u] /\ sigs'[u] = sigs[u] /\ body'[u] = body[u]
        /\ label'[u] = label[u] /\ entry'[u] = entry[u] /\ status'[u] = status[u] /\ UNCHANGED policy
    BY <1>1, <1>4 DEF Shape
  <2> QED
    BY <2>1, Untouched DEF Kept, At
<1>5. /\ At(t, {"choosing", "verifying", "served"})' => InHand(t)'
      /\ ~At(t, {"verifying", "served"})'
      /\ ~At(t, {"served"})'
      /\ At(t, {"served", "rejected"})' => Coded(t)'
  <2>1. CASE pc'[t] = "rejected"
    <3>1. /\ arrival'[t] = a /\ UNCHANGED policy
          /\ status'[t] = 413 <=> ~ReadFails(a) /\ TooLarge(a)
      BY <2>1, <1>1 DEF Shape, TypeOK
    <3>2. Coded(t)'
      BY <3>1, PolicyFixed DEF Coded
    <3> QED
      BY <2>1, <3>2 DEF At
  <2>2. CASE pc'[t] # "rejected"
    <3>1. pc'[t] = "choosing" /\ arrival'[t] = a /\ sigs'[t] = Parse(a) /\ body'[t] = ReadBody(a)
          /\ ~TooLarge(a) /\ DigestOK(a) /\ UNCHANGED policy
      BY <2>2, <1>1 DEF Shape
    <3>2. InHand(t)'
      BY <3>1, PolicyFixed DEF InHand
    <3> QED
      BY <3>1, <3>2 DEF At
  <2> QED
    BY <2>1, <2>2
<1>6. Kept'
  BY <1>4, <1>5 DEF Kept
<1> QED
  BY <1>2, <1>3, <1>6

\* A signature goes on to verification only as the policy's tag and
\* algorithms allow, with the directory's entry.
LEMMA ConsiderInv ==
    ASSUME Inv, NEW t \in Requests, NEW l \in left[t], NEW claim \in Claims(sigs[t][l]),
           Consider(t, l, claim)
    PROVE  Inv'
<1> USE DEF Inv
<1> DEFINE e == Lookup(claim.keyid)
<1>1. /\ pc[t] = "choosing" /\ left' = [left EXCEPT ![t] = @ \ {l}]
      /\ UNCHANGED <<now, policy, dir, arrival, body, sigs, status, standing>>
      /\ \/ /\ Considered(claim) /\ e # NoEntry /\ Allowed(e.key)
            /\ pc' = [pc EXCEPT ![t] = "verifying"]
            /\ label' = [label EXCEPT ![t] = l]
            /\ entry' = [entry EXCEPT ![t] = e]
         \/ UNCHANGED <<pc, label, entry>>
  BY DEF Consider
<1>2. e \in Entries \union {NoEntry}
  BY DEF Lookup, TypeOK
<1> HIDE DEF e
<1>3. Shape'
  BY <1>1 DEF Shape, PCs
<1>4. TypeOK'
  BY <1>1, <1>2 DEF Shape, PCs, TypeOK
<1>5. ASSUME NEW u \in Requests, u # t
      PROVE  /\ At(u, {"choosing", "verifying", "served"})' => InHand(u)'
             /\ At(u, {"verifying", "served"})' => Chosen(u)'
             /\ At(u, {"served"})' => Proven(u)'
             /\ At(u, {"served", "rejected"})' => Coded(u)'
  <2>1. pc'[u] = pc[u] /\ arrival'[u] = arrival[u] /\ sigs'[u] = sigs[u] /\ body'[u] = body[u]
        /\ label'[u] = label[u] /\ entry'[u] = entry[u] /\ status'[u] = status[u] /\ UNCHANGED policy
    BY <1>1, <1>5 DEF Shape
  <2> QED
    BY <2>1, Untouched DEF Kept, At
<1>6. /\ InHand(t)'
      /\ At(t, {"verifying", "served"})' => Chosen(t)'
      /\ ~At(t, {"served", "rejected"})'
  <2>1. InHand(t)'
    BY <1>1, Untouched DEF Kept, At
  <2>2. CASE pc' = pc
    BY <2>1, <2>2, <1>1 DEF At
  <2>3. CASE pc' # pc
    <3>1. /\ pc'[t] = "verifying" /\ label'[t] = l /\ entry'[t] = e /\ sigs' = sigs /\ policy' = policy
          /\ Considered(claim) /\ Allowed(e.key)
      BY <2>3, <1>1 DEF Shape
    <3>2. Chosen(t)'
      BY <3>1 DEF Chosen, Allowed, Considered
    <3> QED
      BY <3>1, <3>2, <2>1 DEF At
  <2> QED
    BY <2>2, <2>3
<1>7. Kept'
  BY <1>5, <1>6 DEF Kept, At
<1> QED
  BY <1>3, <1>4, <1>7

\* What Verify accepts is proven.
LEMMA VerifyInv ==
    ASSUME Inv, NEW t \in Requests, Verify(t)
    PROVE  Inv'
<1> USE DEF Inv
<1>1. /\ pc[t] = "verifying"
      /\ UNCHANGED <<now, policy, dir, arrival, body, sigs, left, label, entry, standing>>
      /\ \/ /\ Accepts(sigs[t][label[t]], entry[t].key, ToVerify(arrival[t]), now)
            /\ pc' = [pc EXCEPT ![t] = "served"] /\ status' = [status EXCEPT ![t] = 200]
         \/ pc' = [pc EXCEPT ![t] = "choosing"] /\ UNCHANGED status
  BY DEF Verify
<1>2. Shape'
  BY <1>1 DEF Shape, PCs
<1>3. TypeOK'
  BY <1>1 DEF Shape, PCs, TypeOK
<1>4. ASSUME NEW u \in Requests
      PROVE  /\ InHand(u) => InHand(u)'
             /\ Chosen(u) => Chosen(u)'
             /\ Proven(u) => Proven(u)'
             /\ (status'[u] = status[u] /\ Coded(u)) => Coded(u)'
  BY <1>1, Untouched
<1>5. ASSUME NEW u \in Requests, u # t
      PROVE  pc'[u] = pc[u] /\ status'[u] = status[u]
  BY <1>1, <1>5 DEF Shape
<1>6. At(t, {"served"})' => Proven(t)
  <2> SUFFICES ASSUME pc'[t] = "served" PROVE Proven(t)
    BY DEF At
  <2>1. Accepts(sigs[t][label[t]], entry[t].key, ToVerify(arrival[t]), now)
    BY <1>1 DEF Shape
  <2>2. ToVerify(arrival[t]).maxAge = AgeLimit(policy)
    BY DEF ToVerify
  <2> QED
    BY <2>1, <2>2 DEF Accepts, TooOld, Proven
<1>7. At(t, {"served", "rejected"})' => Coded(t)'
  <2> SUFFICES ASSUME pc'[t] = "served" PROVE Coded(t)'
    BY <1>1 DEF At, Shape
  <2>1. InHand(t) /\ status'[t] = 200 /\ arrival' = arrival /\ UNCHANGED policy
    BY <1>1 DEF Kept, At, Shape
  <2> QED
    BY <2>1, PolicyFixed DEF InHand, Coded
<1>8. Kept'
  BY <1>1, <1>4, <1>5, <1>6, <1>7 DEF Kept, At, Shape
<1> QED
  BY <1>2, <1>3, <1>8

\* Running out of signatures is a refusal that is no 413.
LEMMA ExhaustInv ==
    ASSUME Inv, NEW t \in Requests, Exhaust(t)
    PROVE  Inv'
<1> USE DEF Inv
<1>1. /\ pc' = [pc EXCEPT ![t] = "rejected"] /\ status' = [status EXCEPT ![t] = 401]
      /\ pc[t] = "choosing"
      /\ UNCHANGED <<now, policy, dir, arrival, body, sigs, left, label, entry, standing>>
  BY DEF Exhaust, Reject
<1>2. Shape'
  BY <1>1 DEF Shape, PCs
<1>3. TypeOK'
  BY <1>1 DEF Shape, PCs, TypeOK
<1>4. ASSUME NEW u \in Requests
      PROVE  /\ InHand(u) => InHand(u)'
             /\ Chosen(u) => Chosen(u)'
             /\ Proven(u) => Proven(u)'
             /\ (status'[u] = status[u] /\ Coded(u)) => Coded(u)'
  BY <1>1, Untouched
<1>5. Coded(t)'
  <2>1. InHand(t) /\ status'[t] = 401 /\ arrival' = arrival /\ UNCHANGED policy
    BY <1>1 DEF Kept, At, Shape
  <2> QED
    BY <2>1, PolicyFixed DEF InHand, Coded
<1>6. Kept'
  BY <1>1, <1>4, <1>5 DEF Kept, At, Shape
<1> QED
  BY <1>2, <1>3, <1>6

\* The world leaves goroutines alone.
LEMMA WorldInv ==
    ASSUME Inv, UNCHANGED <<policy, local>>, NEW d, NEW time, Outlast(d, time),
           dir' \in [KeyIDs -> Entries \union {NoEntry}], now' \in 1..MaxTime
    PROVE  Inv'
<1> USE DEF Inv, local
<1>1. /\ DOMAIN standing' = Requests
      /\ \A u \in Requests : standing'[u] \subseteq standing[u]
  BY DEF Outlast
<1>2. Shape'
  BY <1>1 DEF Shape, PCs
<1>3. TypeOK'
  BY <1>1 DEF TypeOK
<1>4. ASSUME NEW u \in Requests
      PROVE  /\ InHand(u) => InHand(u)'
             /\ Chosen(u) => Chosen(u)'
             /\ Proven(u) => Proven(u)'
             /\ Coded(u) => Coded(u)'
  BY Untouched
<1>5. Kept'
  BY <1>4 DEF Kept, At
<1> QED
  BY <1>2, <1>3, <1>5

\* Every step of a goroutine, the directory or the clock preserves it,
\* whatever arrives.
LEMMA StepInv ==
    ASSUME Inv,
           \/ \E t \in Requests : (\E a : Begin(t, a)) \/ Turn(t)
           \/ \E keyid \in KeyIDs, e \in Entries \union {NoEntry} : Rotate(keyid, e)
           \/ Tick
    PROVE  Inv'
<1>1. ASSUME NEW t \in Requests, NEW a, Begin(t, a) PROVE Inv'
  BY <1>1, BeginInv
<1>2. ASSUME NEW t \in Requests, Turn(t) PROVE Inv'
  BY <1>2, ConsiderInv, VerifyInv, ExhaustInv DEF Turn
<1>3. ASSUME NEW keyid \in KeyIDs, NEW e \in Entries \union {NoEntry}, Rotate(keyid, e) PROVE Inv'
  <2>1. dir' \in [KeyIDs -> Entries \union {NoEntry}] /\ now' \in 1..MaxTime
    BY <1>3 DEF Rotate, Inv, TypeOK
  <2> QED
    BY <1>3, <2>1, WorldInv DEF Rotate
<1>4. ASSUME Tick PROVE Inv'
  <2>1. dir' \in [KeyIDs -> Entries \union {NoEntry}] /\ now' \in 1..MaxTime
    BY <1>4, MaxTimeAssumption DEF Tick, Inv, TypeOK
  <2> QED
    BY <1>4, <2>1, WorldInv DEF Tick
<1> QED
  BY <1>1, <1>2, <1>3, <1>4

\* It also holds of the variables that do not change.
LEMMA StillInv ==
    ASSUME Inv, UNCHANGED <<now, policy, dir, pc, arrival, body, sigs, left, label, entry, status, standing>>
    PROVE  Inv'
<1>1. Shape' /\ TypeOK'
  BY DEF Inv, Shape, TypeOK
<1>2. ASSUME NEW u \in Requests
      PROVE  /\ InHand(u) => InHand(u)'
             /\ Chosen(u) => Chosen(u)'
             /\ Proven(u) => Proven(u)'
             /\ Coded(u) => Coded(u)'
  BY Untouched
<1>3. Kept'
  BY <1>2 DEF Inv, Kept, At
<1> QED
  BY <1>1, <1>3 DEF Inv

\* A goroutine that is past its beginning has one of the arrivals in hand.
LEMMA NextInv ==
    ASSUME Inv, Came, [Next]_vars
    PROVE  Inv' /\ Came'
<1>1. Inv'
  BY StepInv, StillInv DEF Next, vars, local
<1>2. ASSUME NEW t \in Requests, NEW a \in Arrivals, Begin(t, a) PROVE Came'
  BY <1>2 DEF Begin, Reject, Came, At, Inv, Shape
<1>3. ASSUME NEW t \in Requests, Turn(t) PROVE Came'
  <2>1. UNCHANGED arrival /\ \A u \in Requests : pc[u] = "idle" => pc'[u] = "idle"
    BY <1>3 DEF Turn, Consider, Verify, Exhaust, Reject, Inv, Shape
  <2> QED
    BY <2>1 DEF Came, At
<1>4. ASSUME UNCHANGED <<pc, arrival>> PROVE Came'
  BY <1>4 DEF Came, At
<1> QED
  BY <1>1, <1>2, <1>3, <1>4 DEF Next, vars, local, Rotate, Tick

\* Every variable keeps its type, and a goroutine's work belongs to what
\* arrived, for any number of requests and whatever directory and clock do.
THEOREM Invariance == Spec => [](Inv /\ Came)
<1>1. Init => Inv /\ Came
  BY InitInv DEF Init, Came, At
<1>2. Inv /\ Came /\ [Next]_vars => Inv' /\ Came'
  BY NextInv
<1> QED
  BY <1>1, <1>2, PTL DEF Spec

\* Every variable keeps its type: in particular a goroutine that verifies
\* has an entry of the directory in hand, never its error.
THEOREM TypeCorrect == Spec => []TypeOK
<1>1. Inv => TypeOK
  BY DEF Inv
<1> QED
  BY <1>1, Invariance, PTL

-----------------------------------------------------------------------------
(* Who is served *)

\* A served request's signature is a statement of the key it was accepted
\* under, and its covered components read as in the statement's message.
LEMMA ServedStatement ==
    ASSUME Inv, Came, NEW t \in Requests, pc[t] = "served"
    PROVE  LET a == arrival[t]
               s == sigs[t][label[t]]
           IN  /\ s.ok /\ HasBase(a.msg, policy.coverage.types, s.items)
               /\ \E h \in Statements :
                    /\ Made(h, s) /\ h.key = entry[t].key
                    /\ \A i \in DOMAIN s.items :
                          ComponentValue(h.msg, h.target, policy.coverage.types, s.items[i].c)
                            = ComponentValue(a.msg, Target(a.msg.req, policy.scheme, policy.authority),
                                             policy.coverage.types, s.items[i].c)
<1> DEFINE a == arrival[t]
           l == label[t]
           s == sigs[t][l]
           target == Target(a.msg.req, policy.scheme, policy.authority)
           types == policy.coverage.types
           input == Get(a.msg.inputs, l)
<1>1. /\ InHand(t) /\ Proven(t) /\ policy \in Policies
      /\ l \in DOMAIN sigs[t]
  BY DEF Inv, Kept, At, TypeOK
<1>2. a \in Arrivals /\ sigs[t] = ParseSignatures(a.msg, target, types)
  BY <1>1 DEF InHand, Parse, Came, At
<1>3. s.ok /\ s.sig = KeySign(entry[t].key, s.base)
  BY <1>1 DEF Proven, KeyVerify
<1>4. /\ l \in Labels(a.msg.inputs) /\ input # Malformed
      /\ l \in Labels(a.msg.sigs) /\ s.sig = Get(a.msg.sigs, l) /\ s.sig # Malformed
      /\ s.items = input.items /\ s.params = input.params
      /\ s.base = SignatureBase(a.msg, target, types, input)
      /\ HasBase(a.msg, types, s.items)
  <2> HIDE DEF a, l, target, types
  <2> QED
    BY <1>1, <1>2, <1>3, ParsedSound
<1>5. PICK h \in Statements : s.sig = SignatureOf(h, types)
  BY <1>1, <1>2, <1>4, Unforgeable
<1>6. h.key = entry[t].key /\ s.base = SignatureBase(h.msg, h.target, types, h.input) /\ s.sig.key = h.key
  BY <1>3, <1>5 DEF SignatureOf, KeySign
<1>7. ListOf(input.items) /\ ListOf(h.input.items)
  BY <1>2, <1>4, ListsAssumption
<1>8. /\ h.input.items = input.items /\ h.input.params = input.params
      /\ \A i \in DOMAIN h.input.items :
            ComponentValue(h.msg, h.target, types, h.input.items[i].c)
              = ComponentValue(a.msg, target, types, input.items[i].c)
  <2> DEFINE f == h.input
             m == a.msg
             n == h.msg
             u == h.target
  <2>1. SignatureBase(n, u, types, f) = SignatureBase(m, target, types, input)
        /\ ListOf(f.items) /\ ListOf(input.items)
    BY <1>4, <1>6, <1>7
  <2> HIDE DEF a, l, target, types, input, f, m, n, u
  <2>2. /\ f.items = input.items /\ f.params = input.params
        /\ \A i \in DOMAIN f.items : ComponentValue(n, u, types, f.items[i].c)
                                       = ComponentValue(m, target, types, input.items[i].c)
    BY <2>1, BaseDetermines
  <2> QED
    BY <2>2 DEF f, m, n, u
<1>9. Made(h, s)
  BY <1>4, <1>6, <1>8 DEF Made
<1> QED
  BY <1>3, <1>4, <1>6, <1>8, <1>9

\* A handler runs only for a request that the holder of the identity it is
\* given signed, under the policy: for every arrival in which no signature
\* is forged, whatever the directory and the clock do inside check.
THEOREM ServedAreEntitled == Spec => []ServedIsEntitled
<1>1. ASSUME Inv, Came, NEW t \in Requests, pc[t] = "served"
      PROVE  \E h \in Statements :
                /\ Made(h, sigs[t][label[t]])
                /\ entry[t].identity = Owner[h.key]
                /\ policy.algorithms = {} \/ AlgorithmOf[h.key] \in policy.algorithms
                /\ policy.tag = "" \/ h.input.params.tag = policy.tag
                /\ ToSet(policy.coverage.components)
                      \subseteq {h.input.items[i].c : i \in DOMAIN h.input.items}
                /\ policy.maxAge >= 0 => h.input.params.created # Absent
  <2> DEFINE s == sigs[t][label[t]]
  <2>1. PICK h \in Statements : Made(h, s) /\ h.key = entry[t].key
    BY <1>1, ServedStatement
  <2>2. h.input.items = s.items /\ h.input.params = s.params
    BY <2>1 DEF Made
  <2>3. s.ok /\ Chosen(t) /\ Proven(t) /\ policy \in Policies /\ entry[t] \in Entries
    BY <1>1 DEF Inv, Kept, At, Proven, TypeOK
  <2>4. entry[t].identity = Owner[h.key]
    BY <2>1, <2>3 DEF Entries
  <2>5. policy.algorithms = {} \/ AlgorithmOf[h.key] \in policy.algorithms
    BY <2>1, <2>3 DEF Chosen, Allowed
  <2>6. policy.tag = "" \/ h.input.params.tag = policy.tag
    <3>1. PICK claim \in Claims(s) : Considered(claim)
      BY <2>3 DEF Chosen
    <3>2. claim.tag = TextOf(s.params.tag)
      BY <2>3, <3>1 DEF Claims
    <3>3. policy.tag = "" \/ TextOf(s.params.tag) = policy.tag
      BY <3>1, <3>2 DEF Considered
    <3> QED
      BY <3>3, <2>2 DEF TextOf
  <2>7. ToSet(policy.coverage.components) \subseteq {h.input.items[i].c : i \in DOMAIN h.input.items}
    <3>1. ToSet(policy.coverage.components) \subseteq ToVerify(arrival[t]).required
      BY DEF ToVerify
    <3> QED
      BY <3>1, <2>2, <2>3 DEF Proven, Covers
  <2>8. policy.maxAge >= 0 => h.input.params.created # Absent
    <3>1. policy.maxAge >= 0 => AgeLimit(policy) > 0
      BY <2>3, PoliciesValid, DefaultsAssumption DEF AgeLimit
    <3> QED
      BY <3>1, <2>2, <2>3 DEF Proven, TimeOf
  <2> QED
    BY <2>1, <2>4, <2>5, <2>6, <2>7, <2>8
<1>2. Inv /\ Came => ServedIsEntitled
  BY <1>1 DEF ServedIsEntitled
<1> QED
  BY <1>2, Invariance, PTL
-----------------------------------------------------------------------------
(* Bodies *)

\* A cap one byte below the largest integer is the largest that works.
CapsFit == \A p \in Policies : BodyLimit(p) < MaxInt

\* With such caps, what check reads tells whether the body is too large, and
\* is the whole of one that is not.
LEMMA ReadWhole ==
    ASSUME CapsFit, policy \in Policies, NEW a, ListOf(a.body)
    PROVE  /\ TooLarge(a) <=> Limit >= 0 /\ Len(a.body) > Limit
           /\ ~TooLarge(a) => ReadBody(a) = a.body
           /\ TooLarge(a) => ~ReadFails(a)
<1>2. Limit \in Int /\ Limit < MaxInt
  BY PoliciesValid, LimitIsInt DEF Limit, CapsFit
<1> DEFINE bytes == a.body
           limit == Limit
           read == IF limit < 0 THEN bytes ELSE Limited(bytes, Plus(limit, 1))
<1>3. /\ Len(bytes) \in Nat
      /\ limit >= 0 => (Len(read) > limit <=> Len(bytes) > limit)
      /\ ~(limit >= 0 /\ Len(bytes) > limit) => read = bytes
      /\ limit >= 0 /\ Len(bytes) > limit => ~(Plus(limit, 1) > Len(bytes))
  <2> HIDE DEF bytes, limit
  <2>1. limit \in Int /\ limit < MaxInt /\ ListOf(bytes)
    BY <1>2 DEF bytes, limit
  <2> QED
    BY <2>1, ByteMore
<1>4. ReadBody(a) = read
  BY DEF ReadBody
<1> QED
  BY <1>2, <1>3, <1>4 DEF TooLarge, ReadFails

\* The handler reads the body that arrived, whole, if the cap leaves room for
\* the byte that tells a longer body; without that it does not.
THEOREM BodiesAreWhole == ASSUME CapsFit PROVE Spec => []BodyIntact
<1>1. Inv /\ Came => BodyIntact
  <2> SUFFICES ASSUME Inv, Came, NEW t \in Requests, pc[t] = "served" PROVE body[t] = arrival[t].body
    BY DEF BodyIntact
  <2>1. InHand(t) /\ policy \in Policies /\ arrival[t] \in Arrivals
    BY DEF Inv, Kept, Came, At, TypeOK
  <2> QED
    BY <2>1, ReadWhole, BodiesAssumption DEF InHand
<1> QED
  BY <1>1, Invariance, PTL

\* The answer to a body over the cap, and to no other, is 413.
THEOREM OnlyLargeIs413 == ASSUME CapsFit PROVE Spec => []TooLargeIs413
<1>1. Inv /\ Came => TooLargeIs413
  <2> SUFFICES ASSUME Inv, Came, NEW t \in Requests, pc[t] \in {"served", "rejected"}
               PROVE  status[t] = 413 <=> Limit >= 0 /\ Len(arrival[t].body) > Limit
    BY DEF TooLargeIs413
  <2>1. Coded(t) /\ policy \in Policies /\ arrival[t] \in Arrivals
    BY DEF Inv, Kept, Came, At, TypeOK
  <2> QED
    BY <2>1, ReadWhole, BodiesAssumption DEF Coded
<1> QED
  BY <1>1, Invariance, PTL
-----------------------------------------------------------------------------
(* Digests *)

\* The content digest is a field like any other: with a value there are
\* lines, and the value is their elements.
LEMMA DigestComponent ==
    ASSUME NEW msg, NEW target, NEW types
    PROVE  LET c == Plain("content-digest")
               lines == FieldLines(msg, "content-digest")
           IN  /\ HasValue(msg, types, c) => lines # <<>>
               /\ ComponentValue(msg, target, types, c) = <<"joined", FlattenSeq(lines)>>
<1> DEFINE c == Plain("content-digest")
           lines == FieldLines(msg, "content-digest")
<1>1. /\ c.name = "content-digest" /\ c.key = "" /\ c.sf = FALSE /\ c.bs = FALSE
      /\ c.name \notin DerivedNames
  BY DEF Plain, DerivedNames
<1> HIDE DEF c
<1>2. HasValue(msg, types, c) => Readable(lines, types, c)
  BY <1>1 DEF HasValue, DerivedNames
<1>3. ComponentValue(msg, target, types, c) = FieldValue(lines, types, c)
  BY <1>1 DEF ComponentValue, DerivedNames
<1>4. FieldValue(lines, types, c) = <<"joined", FlattenSeq(lines)>>
  BY <1>1 DEF FieldValue
<1> QED
  BY <1>2, <1>3, <1>4 DEF Readable, c

\* A field that verifies has an element that is the body's digest.
LEMMA DigestElement ==
    ASSUME NEW lines, NEW bytes, NEW accepted, CD!Verify(lines, bytes, accepted)
    PROVE  \E i \in DOMAIN FlattenSeq(lines) :
              LET e == FlattenSeq(lines)[i]
              IN  e.key \in CD!Supported /\ e.val = CD!Digest(e.key, bytes)
<1>1. CD!FlattenSeq(lines) = FlattenSeq(lines)
  BY DEF CD!FlattenSeq, FlattenSeq
<1> DEFINE es == CD!FlattenSeq(lines)
<1>2. PICK e \in CD!Entries(es) : e.key \in accepted \intersect CD!Supported
  BY DEF CD!Verify
<1>3. e.val = CD!Digest(e.key, bytes)
  BY <1>2 DEF CD!Verify
<1> HIDE DEF es
<1>4. PICK i \in DOMAIN es : e = es[i]
  BY DEF CD!Entries
<1> QED
  BY <1>1, <1>2, <1>3, <1>4 DEF es

\* The handler reads the body that was digested by who signed the digest,
\* whenever the digest is covered, and it is when there is a body.
THEOREM BodiesAreBound == Spec => []BodyBound
<1> DEFINE c == Plain("content-digest")
<1>1. ASSUME Inv, NEW t \in Requests, pc[t] = "served",
             body[t] # <<>> \/ policy.coverage.mode = "always"
      PROVE  \E i \in DOMAIN sigs[t][label[t]].items : sigs[t][label[t]].items[i].c = c
  <2>1. InHand(t) /\ Proven(t)
    BY <1>1 DEF Inv, Kept, At
  <2>2. DigestRequired(arrival[t])
    BY <1>1, <2>1 DEF InHand, DigestRequired, DigestMode
  <2>3. c \in ToVerify(arrival[t]).required
    BY <2>2 DEF ToVerify
  <2> QED
    BY <2>1, <2>3 DEF Proven, Covers
<1>2. ASSUME Inv, Came, NEW t \in Requests, pc[t] = "served",
             NEW i \in DOMAIN sigs[t][label[t]].items, sigs[t][label[t]].items[i].c = c
      PROVE  \E h \in Statements : Made(h, sigs[t][label[t]]) /\ body[t] = h.body
  <2> DEFINE a == arrival[t]
             s == sigs[t][label[t]]
             types == policy.coverage.types
             target == Target(a.msg.req, policy.scheme, policy.authority)
             lines == FieldLines(a.msg, "content-digest")
             es == FlattenSeq(lines)
  <2>1. HasBase(a.msg, types, s.items)
    BY <1>2, ServedStatement
  <2>2. PICK h \in Statements :
            /\ Made(h, s)
            /\ ComponentValue(h.msg, h.target, types, s.items[i].c)
                 = ComponentValue(a.msg, target, types, s.items[i].c)
    BY <1>2, ServedStatement
  <2>3. lines # <<>>
    BY <1>2, <2>1, DigestComponent DEF HasBase
  <2>4. FlattenSeq(FieldLines(h.msg, "content-digest")) = es
    <3>1. ComponentValue(h.msg, h.target, types, c)
            = <<"joined", FlattenSeq(FieldLines(h.msg, "content-digest"))>>
      BY DigestComponent
    <3>2. ComponentValue(a.msg, target, types, c) = <<"joined", es>>
      BY DigestComponent
    <3>3. ComponentValue(h.msg, h.target, types, c) = ComponentValue(a.msg, target, types, c)
      BY <1>2, <2>2
    <3> HIDE DEF c, es, types, target
    <3> QED
      BY <3>1, <3>2, <3>3
  <2>5. body[t] = ReadBody(a) /\ CD!Verify(lines, ReadBody(a), AcceptedDigests(policy))
    BY <1>2, <2>3 DEF Inv, Kept, At, InHand, DigestOK
  <2>6. PICK n \in DOMAIN es : es[n].key \in CD!Supported /\ es[n].val = CD!Digest(es[n].key, ReadBody(a))
    BY <2>5, DigestElement
  <2>7. h.input.items = s.items
    BY <2>2 DEF Made
  <2>8. es[n].val = CD!Digest(es[n].key, h.body)
    BY <1>2, <2>4, <2>6, <2>7, HonestDigests
  <2>9. ReadBody(a) = h.body
    BY <2>6, <2>8 DEF CD!Digest
  <2> QED
    BY <2>2, <2>5, <2>9
<1>3. Inv /\ Came => BodyBound
  BY <1>1, <1>2 DEF BodyBound
<1> QED
  BY <1>3, Invariance, PTL
-----------------------------------------------------------------------------
(* Who is not rejected *)

\* The age bound and the tolerance add up without wrapping.
WindowsFit == \A p \in Policies : AgeLimit(p) + p.tolerance <= MaxInt

\* The key is one the signature verifies with.
KeyFits(s, key) == KeyVerify(key, s.base, s.sig) /\ s.params.alg \in {Absent, AlgorithmOf[key]}
\* What meets the policy is still to come, or at hand with the key to it.
Ahead(t, l) ==
    \/ l \in left[t]
    \/ At(t, {"verifying"}) /\ l = label[t] /\ KeyFits(sigs[t][l], entry[t].key)
Upheld(t) ==
    /\ At(t, {"choosing", "verifying"}) =>
          \A l \in standing[t] : Meets(sigs[t], arrival[t], l, dir, now) /\ Ahead(t, l)
    /\ At(t, {"rejected"}) => standing[t] = {}
AllUpheld == \A t \in Requests : Upheld(t)
\* What is read of an arrival: a list of bytes, and dates that are dates.
Sound(a) ==
    /\ ListOf(a.body)
    /\ \A l \in Labels(a.msg.inputs) :
          Get(a.msg.inputs, l) = Malformed \/
              LET params == Get(a.msg.inputs, l).params
              IN  {"created", "expires"} \subseteq DOMAIN params
                  /\ {params.created, params.expires} \subseteq Int \union {Absent, IllTyped}

\* What meets the policy does not change while the policy does not.
LEMMA MeetsFixed ==
    ASSUME UNCHANGED policy, NEW ss, NEW a, NEW l, NEW d, NEW time
    PROVE  Meets(ss, a, l, d, time)' <=> Meets(ss, a, l, d, time)
BY DEF Meets, WellBorne, InWindow, Bound, Claims, Considered, Allowed, Limit

\* A request that bears itself well gets as far as the loop.
LEMMA Admitted ==
    ASSUME CapsFit, policy \in Policies, NEW a, ListOf(a.body), WellBorne(a)
    PROVE  /\ ~ReadFails(a) /\ ~TooLarge(a) /\ DigestOK(a)
           /\ a.msg.inputs.ok /\ a.msg.sigs.ok
           /\ DigestRequired(a) <=> Bound(a)
<1> DEFINE lines == FieldLines(a.msg, "content-digest")
<1>1. /\ ~a.fails /\ (Limit < 0 \/ Len(a.body) <= Limit)
      /\ a.msg.inputs.ok /\ a.msg.sigs.ok
      /\ Bound(a) \/ lines # <<>> => CD!Verify(lines, a.body, AcceptedDigests(policy))
  BY DEF WellBorne
<1>2. Limit \in Int /\ Len(a.body) \in Nat
  BY PoliciesValid, LimitIsInt DEF Limit, ListOf
<1>3. ~TooLarge(a) /\ ReadBody(a) = a.body
  BY <1>1, <1>2, ReadWhole
<1>4. DigestRequired(a) <=> Bound(a)
  BY <1>3 DEF DigestRequired, Bound
<1>5. ASSUME CD!Verify(lines, a.body, AcceptedDigests(policy))
      PROVE  lines # <<>>
  <2>1. PICK i \in DOMAIN FlattenSeq(lines) : TRUE
    BY <1>5, DigestElement
  <2>2. lines = <<>> => FlattenSeq(lines) = <<>>
    BY DEF FlattenSeq
  <2> HIDE DEF lines
  <2> QED
    BY <2>1, <2>2
<1>6. DigestOK(a)
  BY <1>1, <1>3, <1>4, <1>5 DEF DigestOK
<1> QED
  BY <1>1, <1>3, <1>4, <1>6 DEF ReadFails

\* A window that is open by the policy's words is open to Verify.
LEMMA OpenToVerify ==
    ASSUME WindowsFit, policy \in Policies, NEW time \in Nat \ {0}, NEW s, NEW required,
           s.params.created \in Int \union {Absent}, s.params.expires \in Int \union {Absent},
           InWindow(s.params, time)
    PROVE  LET p == [required |-> required, maxAge |-> AgeLimit(policy), tolerance |-> policy.tolerance]
           IN  ~Expired(s, p, time) /\ ~FromFuture(s, p, time) /\ ~TooOld(s, p, time)
<1> DEFINE p == [required |-> required, maxAge |-> AgeLimit(policy), tolerance |-> policy.tolerance]
           created == s.params.created
           expires == s.params.expires
           limit == AgeLimit(policy)
           tolerance == policy.tolerance
<1>1. /\ limit \in Int /\ tolerance \in Int /\ limit + tolerance <= MaxInt
      /\ p.maxAge = limit /\ p.tolerance = tolerance
  BY PoliciesValid, DefaultsAssumption DEF AgeLimit, WindowsFit
<1>2. /\ created \in Int \union {Absent} /\ expires \in Int \union {Absent}
      /\ expires # Absent => time <= Second * expires + tolerance
      /\ created # Absent => Second * created <= time + tolerance
      /\ limit > 0 => created # Absent /\ time <= Second * created + limit + tolerance
  BY DEF InWindow
<1>3. ZeroTime \in Int /\ Second \in Int /\ Second * ZeroTime + MaxInt <= 0 /\ MaxInt \in Int
  BY ZeroTimeAssumption, SecondAssumption, MaxIntAssumption
<1>4. Plus(limit, tolerance) = limit + tolerance
  BY <1>1, <1>3 DEF Plus
<1> HIDE DEF p, created, expires, limit, tolerance
<1>5. ~Expired(s, p, time)
  <2>1. CASE expires = Absent
    BY <2>1 DEF Expired, TimeOf, expires
  <2>2. CASE expires # Absent
    <3>1. TimeOf(s.params.expires) = expires /\ Second * expires \in Int
      BY <1>2, <1>3, <2>2 DEF TimeOf, expires
    <3> QED
      BY <1>1, <1>2, <2>2, <3>1 DEF Expired
  <2> QED
    BY <2>1, <2>2
<1>6. ~FromFuture(s, p, time)
  <2>1. CASE created = Absent
    BY <2>1 DEF FromFuture, TimeOf, created
  <2>2. CASE created # Absent
    <3>1. TimeOf(s.params.created) = created /\ Second * created \in Int
      BY <1>2, <1>3, <2>2 DEF TimeOf, created
    <3> QED
      BY <1>1, <1>2, <2>2, <3>1 DEF FromFuture
  <2> QED
    BY <2>1, <2>2
<1>7. ~TooOld(s, p, time)
  <2> SUFFICES ASSUME limit > 0
               PROVE  ~TooOld(s, p, time)
    BY <1>1 DEF TooOld
  <2>1. TimeOf(s.params.created) = created /\ created \in Int /\ Second * created \in Int
    BY <1>2, <1>3 DEF TimeOf, created
  <2>2. time <= Second * created + limit + tolerance
    BY <1>2
  <2>3. created # ZeroTime
    BY <1>1, <1>3, <2>1, <2>2
  <2> QED
    BY <1>1, <1>4, <2>1, <2>2, <2>3 DEF TooOld
<1> QED
  BY <1>5, <1>6, <1>7 DEF p

\* A signature that meets the whole policy verifies with the key it names.
LEMMA MeetsAccepts ==
    ASSUME CapsFit, WindowsFit, Inv, NEW t \in Requests, InHand(t), Sound(arrival[t]), NEW l \in DOMAIN sigs[t],
           Meets(sigs[t], arrival[t], l, dir, now), NEW key, KeyFits(sigs[t][l], key)
    PROVE  Accepts(sigs[t][l], key, ToVerify(arrival[t]), now)
<1> DEFINE a == arrival[t]
           s == sigs[t][l]
           target == Target(a.msg.req, policy.scheme, policy.authority)
<1>1. /\ Sound(a) /\ sigs[t] = ParseSignatures(a.msg, target, policy.coverage.types)
      /\ policy \in Policies /\ now \in Nat \ {0}
  BY DEF InHand, Parse, Inv, TypeOK
<1>2. /\ s.ok /\ WellBorne(a) /\ InWindow(s.params, now)
      /\ Covers(s, ToSet(policy.coverage.components)
                      \union (IF Bound(a) THEN {Plain("content-digest")} ELSE {}))
  BY DEF Meets
<1>3. /\ l \in Labels(a.msg.inputs) /\ Get(a.msg.inputs, l) # Malformed
      /\ s.params = Get(a.msg.inputs, l).params
      /\ \A p \in DOMAIN s.params : s.params[p] # IllTyped
  <2> HIDE DEF a, target
  <2> QED
    BY <1>1, <1>2, ParsedSound
<1>4. s.params.created \in Int \union {Absent} /\ s.params.expires \in Int \union {Absent}
  BY <1>1, <1>3 DEF Sound
<1>5. Covers(s, ToVerify(a).required)
  BY <1>1, <1>2, Admitted DEF ToVerify, Sound
<1>6. ~Expired(s, ToVerify(a), now) /\ ~FromFuture(s, ToVerify(a), now) /\ ~TooOld(s, ToVerify(a), now)
  <2> HIDE DEF a, s
  <2> QED
    BY <1>1, <1>2, <1>4, OpenToVerify DEF ToVerify
<1> QED
  BY <1>2, <1>5, <1>6 DEF Accepts, KeyFits
\* A request nothing happens to, in a world that does not change.
LEMMA StaysUpheld ==
    ASSUME NEW u \in Requests, Upheld(u), UNCHANGED <<policy, dir, now>>,
           pc'[u] = pc[u], arrival'[u] = arrival[u], sigs'[u] = sigs[u], left'[u] = left[u],
           label'[u] = label[u], entry'[u] = entry[u], standing'[u] = standing[u]
    PROVE  Upheld(u)'
<1>1. \A l : Ahead(u, l)' <=> Ahead(u, l)
  BY DEF Ahead, At, KeyFits
<1>2. \A l : Meets(sigs[u], arrival[u], l, dir, now)' <=> Meets(sigs[u], arrival[u], l, dir, now)
  BY MeetsFixed
<1> QED
  BY <1>1, <1>2 DEF Upheld, At

\* Nothing that meets the policy at arrival is turned away before the loop.
LEMMA BeginUpheld ==
    ASSUME CapsFit, Inv, AllUpheld, NEW t \in Requests, NEW a, ListOf(a.body), Begin(t, a)
    PROVE  AllUpheld'
<1> DEFINE ss == Parse(a)
           met == {l \in DOMAIN ss : Meets(ss, a, l, dir, now)}
<1>1. /\ UNCHANGED <<now, policy, dir, label, entry>>
      /\ arrival' = [arrival EXCEPT ![t] = a]
      /\ standing' = [standing EXCEPT ![t] = met]
      /\ \/ /\ pc' = [pc EXCEPT ![t] = "rejected"]
            /\ ReadFails(a) \/ TooLarge(a) \/ ~DigestOK(a) \/ ~a.msg.inputs.ok \/ ~a.msg.sigs.ok \/ DOMAIN ss = {}
            /\ UNCHANGED <<sigs, left>>
         \/ /\ pc' = [pc EXCEPT ![t] = "choosing"]
            /\ sigs' = [sigs EXCEPT ![t] = ss]
            /\ left' = [left EXCEPT ![t] = DOMAIN ss]
  BY DEF Begin, Reject
<1>2. policy \in Policies /\ Shape
  BY DEF Inv, TypeOK
<1>3. ASSUME NEW u \in Requests, u # t
      PROVE  Upheld(u)'
  <2>1. /\ pc'[u] = pc[u] /\ arrival'[u] = arrival[u] /\ sigs'[u] = sigs[u] /\ left'[u] = left[u]
        /\ label'[u] = label[u] /\ entry'[u] = entry[u] /\ standing'[u] = standing[u]
    BY <1>1, <1>2, <1>3 DEF Shape
  <2> QED
    BY <1>1, <2>1, StaysUpheld DEF AllUpheld
<1>4. \A l \in met : Meets(ss, a, l, dir, now) /\ WellBorne(a) /\ l \in DOMAIN ss
  BY DEF Meets
<1>5. CASE pc'[t] = "rejected"
  <2>1. ReadFails(a) \/ TooLarge(a) \/ ~DigestOK(a) \/ ~a.msg.inputs.ok \/ ~a.msg.sigs.ok \/ DOMAIN ss = {}
    BY <1>1, <1>2, <1>5 DEF Shape
  <2>2. met = {}
    BY <1>2, <1>4, <2>1, Admitted
  <2>3. standing'[t] = met
    BY <1>1, <1>2 DEF Shape
  <2> QED
    BY <1>3, <1>5, <2>2, <2>3 DEF AllUpheld, Upheld, At
<1>6. CASE pc'[t] # "rejected"
  <2>1. pc'[t] = "choosing" /\ sigs'[t] = ss /\ left'[t] = DOMAIN ss /\ arrival'[t] = a /\ standing'[t] = met
    BY <1>1, <1>2, <1>6 DEF Shape
  <2> HIDE DEF ss, met
  <2>2. \A l \in met : Ahead(t, l)'
    BY <1>4, <2>1 DEF Ahead
  <2>3. \A l \in met : Meets(sigs[t], arrival[t], l, dir, now)'
    BY <1>1, <1>4, <2>1, MeetsFixed
  <2> QED
    BY <1>3, <2>1, <2>2, <2>3 DEF AllUpheld, Upheld, At
<1> QED
  BY <1>5, <1>6

\* The loop does not pass over what meets the policy.
LEMMA ConsiderUpheld ==
    ASSUME Inv, AllUpheld, NEW t \in Requests, NEW l \in left[t], NEW claim \in Claims(sigs[t][l]),
           Consider(t, l, claim)
    PROVE  AllUpheld'
<1> DEFINE e == Lookup(claim.keyid)
           s == sigs[t][l]
           fits == Considered(claim) /\ e # NoEntry /\ Allowed(e.key)
<1>1. /\ pc[t] = "choosing" /\ left' = [left EXCEPT ![t] = @ \ {l}]
      /\ IF fits
         THEN /\ pc' = [pc EXCEPT ![t] = "verifying"]
              /\ label' = [label EXCEPT ![t] = l]
              /\ entry' = [entry EXCEPT ![t] = e]
         ELSE UNCHANGED <<pc, label, entry>>
      /\ UNCHANGED <<now, policy, dir, arrival, body, sigs, status, standing>>
  BY DEF Consider
<1>2. Shape
  BY DEF Inv
<1>3. ASSUME NEW u \in Requests, u # t
      PROVE  Upheld(u)'
  <2>1. /\ pc'[u] = pc[u] /\ arrival'[u] = arrival[u] /\ sigs'[u] = sigs[u] /\ left'[u] = left[u]
        /\ label'[u] = label[u] /\ entry'[u] = entry[u] /\ standing'[u] = standing[u]
    BY <1>1, <1>2, <1>3 DEF Shape
  <2> QED
    BY <1>1, <2>1, StaysUpheld DEF AllUpheld
<1>4. \A m \in standing[t] : Meets(sigs[t], arrival[t], m, dir, now) /\ m \in left[t]
  BY <1>1 DEF AllUpheld, Upheld, Ahead, At
<1>5. l \in standing[t] => fits /\ KeyFits(s, e.key)
  <2> SUFFICES ASSUME Meets(sigs[t], arrival[t], l, dir, now)
               PROVE  fits /\ KeyFits(s, e.key)
    BY <1>4
  <2>1. Claims(s) = {[tag |-> TextOf(s.params.tag), keyid |-> TextOf(s.params.keyid)]}
    BY DEF Meets, Claims
  <2>2. /\ Considered(claim) /\ claim.keyid \in KeyIDs /\ dir[claim.keyid] # NoEntry
        /\ Allowed(dir[claim.keyid].key) /\ s.params.alg \in {Absent, AlgorithmOf[dir[claim.keyid].key]}
        /\ KeyVerify(dir[claim.keyid].key, s.base, s.sig)
    BY <2>1 DEF Meets
  <2> QED
    BY <2>2 DEF Lookup, KeyFits
<1> HIDE DEF e, fits
<1>6. ASSUME NEW m \in standing[t]
      PROVE  Meets(sigs[t], arrival[t], m, dir, now)' /\ Ahead(t, m)'
  <2>1. Meets(sigs[t], arrival[t], m, dir, now)'
    BY <1>1, <1>4, MeetsFixed
  <2>2. CASE m # l
    <3>1. m \in left'[t]
      BY <1>1, <1>2, <1>4, <2>2 DEF Shape
    <3> QED
      BY <2>1, <3>1 DEF Ahead
  <2>3. CASE m = l
    <3>1. pc'[t] = "verifying" /\ label'[t] = l /\ entry'[t] = e /\ sigs' = sigs
      BY <1>1, <1>2, <1>5, <2>3 DEF Shape
    <3> QED
      BY <1>5, <2>1, <2>3, <3>1 DEF Ahead, At, KeyFits
  <2> QED
    BY <2>2, <2>3
<1>7. pc'[t] # "rejected" /\ standing' = standing
  BY <1>1, <1>2 DEF Shape
<1> QED
  BY <1>3, <1>6, <1>7 DEF AllUpheld, Upheld, At

\* What verification turns down did not meet the policy.
LEMMA VerifyUpheld ==
    ASSUME CapsFit, WindowsFit, Inv, AllUpheld, NEW t \in Requests, Sound(arrival[t]), Verify(t)
    PROVE  AllUpheld'
<1>1. /\ pc[t] = "verifying"
      /\ UNCHANGED <<now, policy, dir, arrival, body, sigs, left, label, entry, standing>>
      /\ IF Accepts(sigs[t][label[t]], entry[t].key, ToVerify(arrival[t]), now)
         THEN pc' = [pc EXCEPT ![t] = "served"] ELSE pc' = [pc EXCEPT ![t] = "choosing"]
  BY DEF Verify
<1>2. Shape /\ InHand(t) /\ label[t] \in DOMAIN sigs[t]
  BY <1>1 DEF Inv, Kept, At, TypeOK
<1>3. ASSUME NEW u \in Requests, u # t
      PROVE  Upheld(u)'
  <2>1. pc'[u] = pc[u]
    BY <1>1, <1>2, <1>3 DEF Shape
  <2> QED
    BY <1>1, <2>1, StaysUpheld DEF AllUpheld
<1>4. CASE Accepts(sigs[t][label[t]], entry[t].key, ToVerify(arrival[t]), now)
  <2>1. pc'[t] = "served"
    BY <1>1, <1>2, <1>4 DEF Shape
  <2> QED
    BY <1>3, <2>1 DEF AllUpheld, Upheld, At
<1>5. CASE ~Accepts(sigs[t][label[t]], entry[t].key, ToVerify(arrival[t]), now)
  <2>1. pc'[t] = "choosing"
    BY <1>1, <1>2, <1>5 DEF Shape
  <2>2. ASSUME NEW l \in standing[t]
        PROVE  Meets(sigs[t], arrival[t], l, dir, now) /\ l \in left[t]
    <3>1. Meets(sigs[t], arrival[t], l, dir, now) /\ Ahead(t, l)
      BY <1>1 DEF AllUpheld, Upheld, At
    <3>2. ~(l = label[t] /\ KeyFits(sigs[t][l], entry[t].key))
      BY <1>2, <1>5, <3>1, MeetsAccepts
    <3> QED
      BY <3>1, <3>2 DEF Ahead
  <2>3. \A l \in standing[t] : Meets(sigs[t], arrival[t], l, dir, now)' /\ Ahead(t, l)'
    BY <1>1, <2>2, MeetsFixed DEF Ahead
  <2> QED
    BY <1>1, <1>3, <2>1, <2>3 DEF AllUpheld, Upheld, At
<1> QED
  BY <1>4, <1>5

\* Nothing is left over when the signatures run out.
LEMMA ExhaustUpheld ==
    ASSUME Inv, AllUpheld, NEW t \in Requests, Exhaust(t)
    PROVE  AllUpheld'
<1>1. /\ pc' = [pc EXCEPT ![t] = "rejected"] /\ pc[t] = "choosing" /\ left[t] = {}
      /\ UNCHANGED <<now, policy, dir, arrival, body, sigs, left, label, entry, standing>>
  BY DEF Exhaust, Reject
<1>2. ASSUME NEW u \in Requests, u # t
      PROVE  Upheld(u)'
  <2>1. pc'[u] = pc[u]
    BY <1>1, <1>2 DEF Inv, Shape
  <2> QED
    BY <1>1, <2>1, StaysUpheld DEF AllUpheld
<1>3. standing[t] = {}
  BY <1>1 DEF AllUpheld, Upheld, Ahead, At
<1>4. Upheld(t)'
  BY <1>1, <1>3 DEF Upheld, At, Inv, Shape
<1> QED
  BY <1>2, <1>4 DEF AllUpheld

\* A rotation or a tick takes out of the count what no longer meets the
\* policy, and nothing else.
LEMMA WorldUpheld ==
    ASSUME AllUpheld, UNCHANGED <<policy, local>>, Outlast(dir', now')
    PROVE  AllUpheld'
<1>1. ASSUME NEW u \in Requests
      PROVE  Upheld(u)'
  <2>1. \A l : Ahead(u, l)' <=> Ahead(u, l)
    BY DEF Ahead, At, KeyFits, local
  <2>2. standing'[u] = IF pc[u] \in {"choosing", "verifying"}
                       THEN {l \in standing[u] : Meets(sigs[u], arrival[u], l, dir', now')} ELSE standing[u]
    BY DEF Outlast
  <2>3. \A l : Meets(sigs[u], arrival[u], l, dir, now)' <=> Meets(sigs[u], arrival[u], l, dir', now')
    BY MeetsFixed DEF local
  <2>4. pc' = pc
    BY DEF local
  <2> QED
    BY <2>1, <2>2, <2>3, <2>4 DEF AllUpheld, Upheld, At
<1> QED
  BY <1>1 DEF AllUpheld

\* A turn of the loop loses nothing that meets the policy.
LEMMA TurnUpheld ==
    ASSUME CapsFit, WindowsFit, Inv, AllUpheld, NEW t \in Requests, ~At(t, {"idle"}) => Sound(arrival[t]), Turn(t)
    PROVE  AllUpheld'
<1>1. ASSUME Verify(t) PROVE AllUpheld'
  BY <1>1, VerifyUpheld DEF Verify, At
<1> QED
  BY <1>1, ConsiderUpheld, ExhaustUpheld DEF Turn

\* Every step upholds what meets the policy.
LEMMA NextUpheld ==
    ASSUME CapsFit, WindowsFit, Inv, Came, AllUpheld, [Next]_vars
    PROVE  AllUpheld'
<1>1. CASE UNCHANGED vars
  <2>1. UNCHANGED <<now, policy, dir, pc, arrival, sigs, left, label, entry, standing>>
    BY <1>1 DEF vars, local
  <2> QED
    BY <2>1, StaysUpheld DEF AllUpheld
<1>2. CASE \E t \in Requests, a \in Arrivals : Begin(t, a)
  BY <1>2, BeginUpheld, BodiesAssumption
<1>3. CASE \E t \in Requests : Turn(t)
  <2>1. \A a \in Arrivals : Sound(a)
    BY BodiesAssumption, DatesAssumption DEF Sound
  <2> QED
    BY <1>3, <2>1, TurnUpheld DEF Came
<1>4. CASE \E keyid \in KeyIDs, e \in Entries \union {NoEntry} : Rotate(keyid, e)
  <2>1. UNCHANGED <<policy, local>> /\ Outlast(dir', now')
    BY <1>4 DEF Rotate, Outlast
  <2> QED
    BY <2>1, WorldUpheld
<1>5. CASE Tick
  <2>1. UNCHANGED <<policy, local>> /\ Outlast(dir', now')
    BY <1>5 DEF Tick, Outlast
  <2> QED
    BY <2>1, WorldUpheld
<1> QED
  BY <1>1, <1>2, <1>3, <1>4, <1>5 DEF Next

\* A request with a signature that meets the whole policy, from arrival to
\* answer, is not rejected: for every policy whose cap leaves room for a byte
\* more, and whose age bound and tolerance add up; for others it may be.
THEOREM MetIsNotRejected == ASSUME CapsFit, WindowsFit PROVE Spec => []NoFalseReject
<1>1. Init => AllUpheld
  BY DEF Init, AllUpheld, Upheld, At
<1>2. Inv /\ Came /\ AllUpheld /\ [Next]_vars => AllUpheld'
  BY NextUpheld
<1>3. AllUpheld => NoFalseReject
  BY DEF AllUpheld, Upheld, At, NoFalseReject
<1> QED
  BY <1>1, <1>2, <1>3, Invariance, PTL DEF Spec
==============================================================================
