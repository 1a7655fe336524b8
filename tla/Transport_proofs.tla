---------------------------- MODULE Transport_proofs ----------------------------
(***************************************************************************)
(* Theorems about Transport, for every set of calls, profiles, requests    *)
(* and places to be redirected to: its types; that what is sent is what    *)
(* the application asked for; and that it is signed for a listed host and  *)
(* no other.                                                               *)
(***************************************************************************)
EXTENDS Transport, SigConfig_proofs

PCs == {"idle", "ready", "signing", "sent", "failed", "done"}

\* What the variables are functions of.
Shape ==
    /\ pc \in [Calls -> PCs]
    /\ DOMAIN asked = Calls /\ DOMAIN hop = Calls /\ DOMAIN clone = Calls

\* A request that redirects may have made of the one call c asked for.
Followed(c, h) ==
    LET own == asked[c]
    IN  /\ IsRequest(h.msg)
        /\ h.msg.fields = own.msg.fields
        /\ h.msg.inputs = own.msg.inputs /\ h.msg.sigs = own.msg.sigs
        /\ h.body \in {own.body, <<>>} /\ h.again \in {Absent, h.body}
        /\ h.body = <<>> => own.body = <<>> \/ h.msg.req.method \in {"GET", "HEAD"}
        /\ h.msg.req.method \in {own.msg.req.method, "GET"}
        /\ h.msg.req.urlHost \in {own.msg.req.urlHost} \union {loc.host : loc \in Locations}
        /\ h.msg.req.host \in {own.msg.req.host, NoHost}
        /\ h.msg.req.path \in {own.msg.req.path} \union {loc.path : loc \in Locations}
\* What RoundTrip checks before it signs.
Passed(h) == MaySignFor(h) /\ (Mode = "never" \/ ~TooLarge(h))
\* What Sign is given at a time, with a nonce or none.
Filled(body, time, nonce) ==
    [items |-> Covered(Components(body)),
     params |-> [created |-> Created(time),
                 expires |-> Expires(time, profile.ttl),
                 nonce |-> nonce,
                 alg |-> IF profile.includeAlg THEN AlgorithmOf[Key] ELSE Absent,
                 keyid |-> Given(profile.keyid),
                 tag |-> Given(profile.tag)]]
\* A message is the clone of such a request, signed when it was sent.
Writes(m, h, input) ==
    LET ready == Prepared(h)
        base == SignatureBase(ready.msg, Target(ready.msg.req, "", NoHost), Types, input)
    IN  /\ Followed(m.call, h) /\ Passed(h)
        /\ \E nonce \in Nonces \union {Absent} : input = Filled(ready.body, m.at, nonce)
        /\ CanSign(ready.msg, Types, input, Label)
        /\ m.body = ready.body
        /\ m.msg = AddSignature(ready.msg, Label, input, KeySign(Key, base))
Wrote(m) == \E h, input : Writes(m, h, input)

\* The inductive invariant, in a part that holds by any clock and one for its own.
Called ==
    /\ profile \in Profiles
    /\ hops \in [Calls -> 0..MaxHops]
    /\ \A c \in Calls :
        /\ pc[c] \in PCs
        /\ pc[c] = "idle" <=> asked[c] = NoRequest
        /\ pc[c] # "idle" => asked[c] \in Offers /\ hop[c].body \in {asked[c].body, <<>>}
        /\ pc[c] \in {"signing", "sent"} =>
              DOMAIN clone[c].msg.fields = DOMAIN asked[c].msg.fields
        /\ pc[c] \in {"sent", "done"} => \E m \in sent : m.call = c
    /\ \A m \in sent : m.call \in Calls
Timed == now \in 1..MaxTime /\ \A m \in sent : m.at \in 1..now
Kept ==
    /\ \A c \in Calls :
          /\ pc[c] # "idle" => Followed(c, hop[c])
          /\ pc[c] = "signing" => clone[c] = Prepared(hop[c]) /\ Passed(hop[c])
    /\ \A m \in sent : pc[m.call] # "idle" /\ Wrote(m)
Core == Shape /\ Called /\ Kept
Inv == Core /\ Timed

-----------------------------------------------------------------------------
(* Facts that hold in every step *)

\* What a profile decides does not change while it does not.
LEMMA ProfileFixed ==
    ASSUME UNCHANGED profile, NEW h
    PROVE  /\ Prepared(h)' = Prepared(h)
           /\ Passed(h)' <=> Passed(h)
           /\ Label' = Label /\ Types' = Types /\ Mode' = Mode
           /\ \A body : Components(body)' = Components(body)
           /\ \A body, time, nonce : Filled(body, time, nonce)' = Filled(body, time, nonce)
BY DEF Prepared, Passed, Label, Types, Mode, Components, Listed, Digested, ReadBody, TooLarge,
       Limit, MaySignFor, DigestAlgorithm, Filled

\* Preparing leaves everything but the digest as it is.
LEMMA PreparedSound ==
    ASSUME NEW h, IsRequest(h.msg)
    PROVE  LET ready == Prepared(h)
           IN  /\ IsRequest(ready.msg) /\ ready.msg.req = h.msg.req
               /\ ready.msg.inputs = h.msg.inputs /\ ready.msg.sigs = h.msg.sigs
               /\ DOMAIN ready.msg.fields = DOMAIN h.msg.fields
               /\ ready.body = IF Mode = "never" THEN h.body ELSE ReadBody(h)
               /\ \A n \in DOMAIN h.msg.fields :
                     \/ ready.msg.fields[n] = h.msg.fields[n]
                     \/ n = "content-digest" /\ Digested(ready.body)
               /\ Digested(ready.body) =>
                     ready.msg.fields["content-digest"] = CD!Value(DigestAlgorithm, ready.body)
<1> DEFINE body == ReadBody(h)
           value == CD!Value(DigestAlgorithm, body)
           fields == [h.msg.fields EXCEPT !["content-digest"] = value]
           digested == [h.msg EXCEPT !.fields = fields]
<1>1. /\ DOMAIN fields = DOMAIN h.msg.fields
      /\ \A n \in DOMAIN h.msg.fields : n # "content-digest" => fields[n] = h.msg.fields[n]
      /\ fields["content-digest"] = value
  BY DEF IsRequest
<1>2. /\ digested.fields = fields /\ digested.req = h.msg.req
      /\ digested.inputs = h.msg.inputs /\ digested.sigs = h.msg.sigs
      /\ DOMAIN digested = DOMAIN h.msg
  BY DEF IsRequest
<1>3. CASE Mode = "never"
  <2>1. Prepared(h) = [msg |-> h.msg, body |-> h.body]
    BY <1>3 DEF Prepared, SetBody, Digested
  <2>2. ~Digested(h.body)
    BY <1>3 DEF Digested
  <2> QED
    BY <1>3, <2>1, <2>2
<1>4. CASE Mode # "never" /\ Digested(body)
  <2>1. Prepared(h) = [msg |-> digested, body |-> body]
    BY <1>4 DEF Prepared, SetBody
  <2>2. IsRequest(digested)
    BY <1>1, <1>2 DEF IsRequest
  <2> HIDE DEF fields, digested
  <2> QED
    BY <1>1, <1>2, <1>4, <2>1, <2>2
<1>5. CASE Mode # "never" /\ ~Digested(body)
  <2>1. Prepared(h) = [msg |-> h.msg, body |-> body]
    BY <1>5 DEF Prepared, SetBody
  <2> QED
    BY <1>5, <2>1
<1> QED
  BY <1>3, <1>4, <1>5

\* What is known of a request, and of a message, outlasts a step that leaves
\* profile and what was asked for alone.
LEMMA Untouched ==
    ASSUME UNCHANGED profile, NEW c, asked'[c] = asked[c]
    PROVE  /\ \A h : Followed(c, h)' <=> Followed(c, h)
           /\ \A m : m.call = c /\ Wrote(m) => Wrote(m)'
<1>1. \A h : Followed(c, h)' <=> Followed(c, h)
  BY DEF Followed
<1>2. ASSUME NEW m, m.call = c, Wrote(m)
      PROVE  Wrote(m)'
  <2>1. PICK h, input : Writes(m, h, input)
    BY <1>2 DEF Wrote
  <2>2. Prepared(h)' = Prepared(h) /\ (Passed(h)' <=> Passed(h)) /\ Label' = Label /\ Types' = Types
        /\ \A body, time, nonce : Filled(body, time, nonce)' = Filled(body, time, nonce)
    BY ProfileFixed
  <2>3. Writes(m, h, input)'
    BY <1>1, <1>2, <2>1, <2>2 DEF Writes
  <2> QED
    BY <2>3 DEF Wrote
<1> QED
  BY <1>1, <1>2

\* Before the application asks for anything the invariant holds.
LEMMA InitCore == NoCalls => Core
<1> SUFFICES ASSUME NoCalls PROVE Core
  OBVIOUS
<1>1. Shape
  BY DEF NoCalls, Shape, PCs
<1>2. Called
  BY BoundsAssumption DEF NoCalls, Called, PCs
<1>3. Kept
  BY DEF NoCalls, Kept
<1> QED
  BY <1>1, <1>2, <1>3 DEF Core

-----------------------------------------------------------------------------
(* One lemma per action: it preserves the invariant *)

\* What is asked for is followed by itself.
LEMMA AskInv ==
    ASSUME Core, NEW c \in Calls, NEW o \in Offers, Ask(c, o)
    PROVE  Core'
<1> USE DEF Core
<1>1. /\ pc[c] = "idle" /\ pc' = [pc EXCEPT ![c] = "ready"]
      /\ asked' = [asked EXCEPT ![c] = o] /\ hop' = [hop EXCEPT ![c] = o]
      /\ UNCHANGED <<now, profile, clone, hops, sent>>
  BY DEF Ask
<1>2. Shape'
  BY <1>1 DEF Shape, PCs
<1>3. o # NoRequest
  BY OffersAssumption
<1>4. Called'
  <2>1. \A m \in sent : m.call \in Calls
    BY DEF Called
  <2> QED
    BY <1>1, <1>3, <2>1 DEF Shape, PCs, Called
<1>5. Followed(c, hop[c])'
  <2>1. asked'[c] = o /\ hop'[c] = o
    BY <1>1 DEF Shape
  <2>2. IsRequest(o.msg) /\ o.again \in {Absent, o.body}
    BY OffersAssumption
  <2> QED
    BY <2>1, <2>2 DEF Followed
<1>6. ASSUME NEW d \in Calls, d # c
      PROVE  /\ pc'[d] # "idle" => Followed(d, hop[d])'
             /\ pc'[d] = "signing" => (clone[d] = Prepared(hop[d]) /\ Passed(hop[d]))'
  <2>1. pc'[d] = pc[d] /\ asked'[d] = asked[d] /\ hop'[d] = hop[d] /\ clone'[d] = clone[d]
        /\ UNCHANGED profile
    BY <1>1, <1>6 DEF Shape
  <2> QED
    BY <2>1, ProfileFixed DEF Kept, Followed
<1>7. ASSUME NEW m \in sent
      PROVE  pc'[m.call] # "idle" /\ Wrote(m)'
  <2>1. pc[m.call] # "idle" /\ Wrote(m) /\ m.call \in Calls
    BY DEF Kept, Called
  <2>2. asked'[m.call] = asked[m.call] /\ pc'[m.call] = pc[m.call]
    BY <1>1, <2>1 DEF Shape
  <2> QED
    BY <1>1, <2>1, <2>2, Untouched
<1>8. Kept'
  BY <1>1, <1>5, <1>6, <1>7 DEF Kept, Shape
<1> QED
  BY <1>2, <1>4, <1>8

\* A step that moves call c to point p, with request h, clone k and messages
\* sent in hand, each with what it has to be.
Moves(c, p, h, k, new) ==
    /\ pc[c] # "idle" /\ p \in PCs \ {"idle"}
    /\ pc' = [pc EXCEPT ![c] = p]
    /\ UNCHANGED <<now, profile, asked>>
    /\ hops' \in [Calls -> 0..MaxHops]
    /\ DOMAIN hop' = Calls /\ DOMAIN clone' = Calls
    /\ \A d \in Calls \ {c} : hop'[d] = hop[d] /\ clone'[d] = clone[d]
    /\ hop'[c] = h /\ Followed(c, h)
    /\ clone'[c] = k
    /\ p = "signing" => k = Prepared(h) /\ Passed(h)
    /\ p = "sent" => DOMAIN k.msg.fields = DOMAIN asked[c].msg.fields
    /\ sent' = sent \union new
    /\ \A m \in new : m.call = c /\ m.at = now /\ Wrote(m)
    /\ p \in {"sent", "done"} => \E m \in sent' : m.call = c

\* Such a step preserves the invariant.
LEMMA MoveInv ==
    ASSUME Core, NEW c \in Calls, NEW p, NEW h, NEW k, NEW new, Moves(c, p, h, k, new)
    PROVE  Core'
<1> USE DEF Core, Moves
<1>1. Shape'
  BY DEF Shape
<1>2. p \in {"signing", "sent"} => DOMAIN k.msg.fields = DOMAIN asked[c].msg.fields
  <2>1. IsRequest(h.msg) /\ h.msg.fields = asked[c].msg.fields
    BY DEF Followed
  <2>2. DOMAIN Prepared(h).msg.fields = DOMAIN h.msg.fields
    BY <2>1, PreparedSound
  <2> QED
    BY <2>1, <2>2
<1>3. Called'
  <2>1. \A m \in sent' : m.call \in Calls
    BY DEF Called
  <2>2. h.body \in {asked[c].body, <<>>}
    BY DEF Followed
  <2>3. ASSUME NEW d \in Calls
        PROVE  /\ pc'[d] \in PCs
               /\ pc'[d] = "idle" <=> asked'[d] = NoRequest
               /\ pc'[d] # "idle" => asked'[d] \in Offers /\ hop'[d].body \in {asked'[d].body, <<>>}
               /\ pc'[d] \in {"signing", "sent"} =>
                     DOMAIN clone'[d].msg.fields = DOMAIN asked'[d].msg.fields
               /\ pc'[d] \in {"sent", "done"} => \E m \in sent' : m.call = d
    <3>1. CASE d = c
      BY <1>2, <2>2, <3>1 DEF Shape, Called
    <3>2. CASE d # c
      <4>1. pc'[d] = pc[d] /\ asked'[d] = asked[d] /\ hop'[d] = hop[d] /\ clone'[d] = clone[d]
        BY <3>2 DEF Shape
      <4> QED
        BY <4>1 DEF Called, PCs
    <3> QED
      BY <3>1, <3>2
  <2> QED
    BY <2>1, <2>3 DEF Called, PCs
<1>4. ASSUME NEW d \in Calls
      PROVE  /\ pc'[d] # "idle" => Followed(d, hop[d])'
             /\ pc'[d] = "signing" => (clone[d] = Prepared(hop[d]) /\ Passed(hop[d]))'
  <2>1. CASE d = c
    <3>1. Followed(c, h)'
      BY Untouched
    <3>2. p = "signing" => k = Prepared(h)' /\ Passed(h)'
      BY ProfileFixed
    <3>3. pc'[c] = p
      BY DEF Shape
    <3>4. Followed(c, hop[c])' <=> Followed(c, h)'
      BY DEF Followed
    <3>5. Prepared(hop[c])' = Prepared(h)' /\ (Passed(hop[c])' <=> Passed(h)')
      OBVIOUS
    <3> QED
      BY <2>1, <3>1, <3>2, <3>3, <3>4, <3>5
  <2>2. CASE d # c
    <3>1. pc'[d] = pc[d] /\ hop'[d] = hop[d] /\ clone'[d] = clone[d]
      BY <2>2 DEF Shape
    <3>2. Followed(d, hop[d])' <=> Followed(d, hop[d])
      BY <3>1 DEF Followed
    <3>3. Prepared(hop[d])' = Prepared(hop[d]) /\ (Passed(hop[d])' <=> Passed(hop[d]))
      BY <3>1, ProfileFixed
    <3> QED
      BY <3>1, <3>2, <3>3 DEF Kept
  <2> QED
    BY <2>1, <2>2
<1>5. ASSUME NEW m \in sent'
      PROVE  pc'[m.call] # "idle" /\ Wrote(m)'
  <2>1. m.call \in Calls /\ Wrote(m) /\ (pc[m.call] # "idle" \/ m.call = c)
    BY DEF Kept, Called
  <2> QED
    BY <2>1, Untouched DEF Shape
<1>6. Kept'
  BY <1>4, <1>5 DEF Kept
<1> QED
  BY <1>1, <1>3, <1>6

\* Refusing changes nothing but the control state.
LEMMA RefuseInv ==
    ASSUME Core, NEW c \in Calls, Refuse(c)
    PROVE  Core'
<1>1. /\ pc[c] = "ready" /\ pc' = [pc EXCEPT ![c] = "failed"]
      /\ UNCHANGED <<now, profile, asked, hop, clone, hops, sent>>
  BY DEF Refuse
<1>2. Moves(c, "failed", hop[c], clone[c], {})
  BY <1>1 DEF Moves, PCs, Core, Shape, Called, Kept
<1> QED
  BY <1>2, MoveInv

\* What is prepared has passed.
LEMMA PrepareInv ==
    ASSUME Core, NEW c \in Calls, Prepare(c)
    PROVE  Core'
<1>1. /\ pc[c] = "ready" /\ pc' = [pc EXCEPT ![c] = "signing"] /\ Passed(hop[c])
      /\ clone' = [clone EXCEPT ![c] = Prepared(hop[c])]
      /\ UNCHANGED <<now, profile, asked, hop, hops, sent>>
  BY DEF Prepare, Passed
<1>2. Moves(c, "signing", hop[c], Prepared(hop[c]), {})
  BY <1>1 DEF Moves, PCs, Core, Shape, Called, Kept
<1> QED
  BY <1>2, MoveInv

\* What goes out was prepared, and is written by signing it.
LEMMA SignInv ==
    ASSUME Core, NEW c \in Calls, Sign(c)
    PROVE  Core'
<1>1. pc[c] = "signing" /\ UNCHANGED <<now, profile, asked, hop, clone, hops>>
  BY DEF Sign
<1>2. /\ Followed(c, hop[c]) /\ clone[c] = Prepared(hop[c]) /\ Passed(hop[c])
      /\ DOMAIN clone[c].msg.fields = DOMAIN asked[c].msg.fields
  BY <1>1 DEF Core, Kept, Called
<1>3. CASE ~Signable(c)
  <2>1. pc' = [pc EXCEPT ![c] = "failed"] /\ UNCHANGED sent
    BY <1>3 DEF Sign
  <2>2. Moves(c, "failed", hop[c], clone[c], {})
    BY <1>1, <1>2, <2>1 DEF Moves, PCs, Core, Shape, Called
  <2> QED
    BY <2>2, MoveInv
<1>4. CASE Signable(c)
  <2>1. pc' = [pc EXCEPT ![c] = "sent"] /\ sent' = sent \union {Outgoing(c)}
    BY <1>4 DEF Sign
  <2>2. Outgoing(c).call = c /\ Outgoing(c).at = now
    BY DEF Outgoing
  <2>3. Wrote(Outgoing(c))
    <3> DEFINE h == hop[c]
               ready == Prepared(h)
               input == Input(c, ready.body, now)
               base == SignatureBase(ready.msg, Target(ready.msg.req, "", NoHost), Types, input)
    <3>1. Followed(Outgoing(c).call, h) /\ Passed(h)
      BY <1>2, <2>2
    <3>2. \E nonce \in Nonces \union {Absent} : input = Filled(ready.body, Outgoing(c).at, nonce)
      <4>1. NewNonce(c) \in Nonces
        BY DEF NewNonce, Nonces, Core, Called
      <4>2. input = Filled(ready.body, Outgoing(c).at, IF profile.nonce THEN NewNonce(c) ELSE Absent)
        BY <2>2 DEF Input, Filled
      <4> HIDE DEF input, ready
      <4> QED
        BY <4>1, <4>2
    <3>3. CanSign(ready.msg, Types, input, Label)
      BY <1>2, <1>4 DEF Signable
    <3>4. Outgoing(c).body = ready.body
      BY <1>2 DEF Outgoing
    <3>5. Outgoing(c).msg = AddSignature(ready.msg, Label, input, KeySign(Key, base))
      BY <1>2 DEF Outgoing, Signed
    <3> HIDE DEF h, input
    <3>6. Writes(Outgoing(c), h, input)
      BY <3>1, <3>2, <3>3, <3>4, <3>5 DEF Writes
    <3> QED
      BY <3>6 DEF Wrote
  <2>4. Moves(c, "sent", hop[c], clone[c], {Outgoing(c)})
    BY <1>1, <1>2, <2>1, <2>2, <2>3 DEF Moves, PCs, Core, Shape, Called
  <2> QED
    BY <2>4, MoveInv
<1> QED
  BY <1>3, <1>4

\* A response changes nothing but the control state.
LEMMA ReturnInv ==
    ASSUME Core, NEW c \in Calls, Return(c)
    PROVE  Core'
<1>1. /\ pc[c] = "sent" /\ pc' = [pc EXCEPT ![c] = "done"]
      /\ UNCHANGED <<now, profile, asked, hop, clone, hops, sent>>
  BY DEF Return
<1>2. Moves(c, "done", hop[c], clone[c], {})
  BY <1>1 DEF Moves, PCs, Core, Shape, Called, Kept
<1> QED
  BY <1>2, MoveInv

\* A redirect keeps the caller's fields, and its body or, if that is to go,
\* asks with GET.
LEMMA RedirectedFollows ==
    ASSUME NEW c, NEW h, Followed(c, h), NEW keep \in BOOLEAN, NEW loc \in Locations,
           keep => h.again # Absent
    PROVE  Followed(c, Redirected(h, keep, loc))
<1> DEFINE g == Redirected(h, keep, loc)
           req == h.msg.req
           new == [req EXCEPT !.method = IF keep \/ @ = "HEAD" THEN @ ELSE "GET",
                              !.urlScheme = IF loc.scheme = "" THEN @ ELSE loc.scheme,
                              !.urlHost = IF loc.host = NoHost THEN @ ELSE loc.host,
                              !.host = IF loc.scheme = "" /\ @ # req.urlHost THEN @ ELSE NoHost,
                              !.path = loc.path,
                              !.query = loc.query,
                              !.forceQuery = loc.forceQuery]
           msg == [h.msg EXCEPT !.req = new]
<1>1. IsRequest(h.msg)
  BY DEF Followed
<1>2. /\ DOMAIN new = DOMAIN req
      /\ new.method = IF keep \/ req.method = "HEAD" THEN req.method ELSE "GET"
      /\ new.urlScheme = IF loc.scheme = "" THEN req.urlScheme ELSE loc.scheme
      /\ new.urlHost = IF loc.host = NoHost THEN req.urlHost ELSE loc.host
      /\ new.uri = req.uri /\ new.forceQuery = loc.forceQuery
      /\ new.host \in {req.host, NoHost} /\ new.path = loc.path
  BY <1>1 DEF IsRequest
<1>3. g = [msg |-> msg, body |-> IF keep THEN h.again ELSE <<>>,
           again |-> IF keep THEN h.again ELSE <<>>, fails |-> keep /\ h.fails]
  BY DEF Redirected
<1> HIDE DEF new, g
<1>4. /\ DOMAIN msg = DOMAIN h.msg /\ msg.req = new /\ msg.fields = h.msg.fields
      /\ msg.inputs = h.msg.inputs /\ msg.sigs = h.msg.sigs
  BY <1>1 DEF IsRequest
<1>5. IsRequest(msg)
  BY <1>1, <1>2, <1>4, OffersAssumption DEF IsRequest
<1> HIDE DEF msg
<1>6. /\ g.msg = msg
      /\ g.body = IF keep THEN h.body ELSE <<>>
      /\ g.again \in {Absent, g.body}
  BY <1>3 DEF Followed
<1> QED
  <2>1. g.msg.req = new /\ g.msg.fields = h.msg.fields /\ g.msg.inputs = h.msg.inputs /\ g.msg.sigs = h.msg.sigs
    BY <1>4, <1>6
  <2>2. IsRequest(g.msg)
    BY <1>5, <1>6
  <2> QED
    BY <1>2, <1>6, <2>1, <2>2 DEF Followed, g

\* Following a redirect leads to such a request.
LEMMA RedirectInv ==
    ASSUME Core, NEW c \in Calls, NEW keep \in BOOLEAN, NEW loc \in Locations, Redirect(c, keep, loc)
    PROVE  Core'
<1> DEFINE g == Redirected(hop[c], keep, loc)
<1>1. /\ pc[c] = "sent" /\ hops[c] < MaxHops
      /\ keep => hop[c].again # Absent
      /\ pc' = [pc EXCEPT ![c] = "ready"]
      /\ hop' = [hop EXCEPT ![c] = g]
      /\ hops' = [hops EXCEPT ![c] = hops[c] + 1]
      /\ UNCHANGED <<now, profile, asked, clone, sent>>
  BY DEF Redirect
<1>2. Followed(c, hop[c]) /\ hops \in [Calls -> 0..MaxHops]
  BY <1>1 DEF Core, Kept, Called
<1>3. Followed(c, g)
  BY <1>1, <1>2, RedirectedFollows
<1>4. hops' \in [Calls -> 0..MaxHops]
  BY <1>1, <1>2, BoundsAssumption
<1> HIDE DEF g
<1>5. Moves(c, "ready", g, clone[c], {})
  BY <1>1, <1>3, <1>4 DEF Moves, PCs, Core, Shape
<1> QED
  BY <1>5, MoveInv

\* What a call does takes no time, and what it sends is sent now.
LEMMA CallCore ==
    ASSUME Core, NEW c \in Calls,
           \/ \E o \in Offers : Ask(c, o)
           \/ RoundTrip(c) \/ Return(c)
           \/ \E keep \in BOOLEAN, loc \in Locations : Redirect(c, keep, loc)
    PROVE  Core' /\ UNCHANGED now /\ sent \subseteq sent' /\ \A m \in sent' \ sent : m.at = now
<1>1. Core'
  BY AskInv, RefuseInv, PrepareInv, SignInv, ReturnInv, RedirectInv DEF RoundTrip
<1>2. ASSUME Sign(c)
      PROVE  UNCHANGED now /\ (UNCHANGED sent \/ sent' = sent \union {Outgoing(c)}) /\ Outgoing(c).at = now
  BY <1>2 DEF Sign, Outgoing
<1>3. ASSUME ~Sign(c)
      PROVE  UNCHANGED <<now, sent>>
  BY <1>3 DEF Ask, RoundTrip, Refuse, Prepare, Return, Redirect
<1> QED
  BY <1>1, <1>2, <1>3

\* The clock leaves calls alone.
LEMMA WaitCore ==
    ASSUME Core, UNCHANGED <<profile, pc, asked, hop, clone, hops, sent>>
    PROVE  Core'
<1>1. Shape'
  BY DEF Core, Shape
<1>2. Called'
  BY DEF Core, Called
<1>3. ASSUME NEW c \in Calls
      PROVE  /\ pc'[c] # "idle" => Followed(c, hop[c])'
             /\ pc'[c] = "signing" => (clone[c] = Prepared(hop[c]) /\ Passed(hop[c]))'
  BY ProfileFixed DEF Core, Kept, Followed
<1>4. ASSUME NEW m \in sent
      PROVE  pc'[m.call] # "idle" /\ Wrote(m)'
  BY Untouched DEF Core, Kept
<1>5. Kept'
  BY <1>3, <1>4 DEF Kept
<1> QED
  BY <1>1, <1>2, <1>5 DEF Core

\* Every step of a call or of the clock preserves the invariant.
LEMMA NextInv ==
    ASSUME Inv, [Next]_vars
    PROVE  Inv'
<1>1. now \in 1..MaxTime /\ MaxTime \in Nat /\ Core
  BY BoundsAssumption DEF Inv, Timed
<1>2. ASSUME NEW c \in Calls,
             \/ \E o \in Offers : Ask(c, o)
             \/ RoundTrip(c) \/ Return(c)
             \/ \E keep \in BOOLEAN, loc \in Locations : Redirect(c, keep, loc)
      PROVE  Inv'
  <2>1. Core' /\ UNCHANGED now /\ \A m \in sent' \ sent : m.at = now
    BY <1>1, <1>2, CallCore
  <2> QED
    BY <1>1, <2>1 DEF Inv, Timed
<1>3. ASSUME UNCHANGED <<profile, pc, asked, hop, clone, hops, sent>>, now' = now \/ (now < MaxTime /\ now' = now + 1)
      PROVE  Inv'
  <2>1. Core'
    BY <1>1, <1>3, WaitCore
  <2>2. now' \in 1..MaxTime
    BY <1>1, <1>3
  <2>3. ASSUME NEW m \in sent
        PROVE  m.at \in 1..now'
    <3>1. m.at \in 1..now
      BY DEF Inv, Timed
    <3> QED
      BY <1>1, <1>3, <3>1
  <2> QED
    BY <1>3, <2>1, <2>2, <2>3 DEF Inv, Timed
<1> QED
  BY <1>2, <1>3 DEF Next, Tick, vars, call

\* Every call's work belongs to what the application asked for, and every
\* message sent was prepared from it and signed, over any number of hops.
THEOREM Invariance == Spec => []Inv
<1>1. Init => Inv
  BY InitCore, BoundsAssumption DEF Init, NoCalls, Inv, Timed
<1>2. Inv /\ [Next]_vars => Inv'
  BY NextInv
<1> QED
  BY <1>1, <1>2, PTL DEF Spec

-----------------------------------------------------------------------------
(* What is sent *)

\* What a message sent is made of.
LEMMA SentMessage ==
    ASSUME Core, NEW m \in sent
    PROVE  LET own == asked[m.call]
           IN  /\ own \in Offers
               /\ \E h, input :
                    LET ready == Prepared(h)
                        base == SignatureBase(ready.msg, Target(ready.msg.req, "", NoHost), Types, input)
                    IN  /\ Writes(m, h, input)
                        /\ Followed(m.call, h) /\ Passed(h)
                        /\ input.items = Covered(Components(ready.body))
                        /\ m.body = ready.body
                        /\ IsRequest(m.msg) /\ m.msg.req = h.msg.req
                        /\ ready.msg.req = h.msg.req
                        /\ \A n \in DOMAIN own.msg.fields :
                              \/ m.msg.fields[n] = own.msg.fields[n]
                              \/ n = "content-digest" /\ Digested(m.body)
                        /\ m.msg.inputs = Merge(own.msg.inputs, Label, input)
                        /\ m.msg.sigs = Merge(own.msg.sigs, Label, KeySign(Key, base))
<1>1. m.call \in Calls /\ pc[m.call] # "idle" /\ asked[m.call] \in Offers
  BY DEF Core, Kept, Called
<1>2. PICK h, input : Writes(m, h, input)
  BY DEF Core, Kept, Wrote
<1> DEFINE own == asked[m.call]
           ready == Prepared(h)
           base == SignatureBase(ready.msg, Target(ready.msg.req, "", NoHost), Types, input)
           sig == KeySign(Key, base)
<1>3. /\ IsRequest(h.msg) /\ h.msg.fields = own.msg.fields
      /\ h.msg.inputs = own.msg.inputs /\ h.msg.sigs = own.msg.sigs
  BY <1>2 DEF Writes, Followed
<1>4. /\ IsRequest(ready.msg) /\ ready.msg.req = h.msg.req
      /\ ready.msg.inputs = own.msg.inputs /\ ready.msg.sigs = own.msg.sigs
      /\ \A n \in DOMAIN own.msg.fields :
            \/ ready.msg.fields[n] = own.msg.fields[n]
            \/ n = "content-digest" /\ Digested(ready.body)
  BY <1>3, PreparedSound
<1>5. m.msg = [ready.msg EXCEPT !.inputs = Merge(own.msg.inputs, Label, input),
                                !.sigs = Merge(own.msg.sigs, Label, sig)]
  BY <1>2, <1>4 DEF Writes, AddSignature
<1> HIDE DEF ready, sig
<1>6. /\ IsRequest(m.msg) /\ m.msg.req = ready.msg.req /\ m.msg.fields = ready.msg.fields
      /\ m.msg.inputs = Merge(own.msg.inputs, Label, input)
      /\ m.msg.sigs = Merge(own.msg.sigs, Label, sig)
  BY <1>4, <1>5 DEF IsRequest
<1>7. Followed(m.call, h) /\ Passed(h) /\ m.body = Prepared(h).body
  BY <1>2 DEF Writes
<1>8. input.items = Covered(Components(Prepared(h).body))
  <2>1. PICK nonce : input = Filled(Prepared(h).body, m.at, nonce)
    BY <1>2 DEF Writes
  <2> QED
    BY <2>1 DEF Filled
<1> QED
  BY <1>1, <1>2, <1>4, <1>6, <1>7, <1>8 DEF ready, sig

\* Its member of Signature-Input is what was signed.
LEMMA SentInput ==
    ASSUME Core, NEW m \in sent
    PROVE  \E h, input : Writes(m, h, input)
                         /\ m.msg.inputs = Merge(asked[m.call].msg.inputs, Label, input)
BY SentMessage

\* By whatever clock, calls and what they sent have their types.
LEMMA Typed == Core => CallsTyped
<1>1. Core => \A m \in sent : IsRequest(m.msg)
  BY SentMessage
<1> QED
  BY <1>1 DEF Core, Called, PCs, CallsTyped

\* Every variable keeps its type: in particular no call is taken for sent of
\* which nothing was sent.
THEOREM TypeCorrect == Spec => []TypeOK
<1>1. Inv => TypeOK
  BY Typed DEF Inv, Timed, TypeOK
<1> QED
  BY <1>1, Invariance, PTL

\* The label is one that the requests' dictionaries can have.
LEMMA LabelHasPlace ==
    ASSUME Core, NEW o \in Offers, NEW header \in {o.msg.inputs, o.msg.sigs}
    PROVE  "occ" \in DOMAIN header /\ Label \in DOMAIN header.occ
<1>1. profile \in Profiles
  BY DEF Core, Called
<1> QED
  BY <1>1, OffersAssumption DEF Label

\* A cap one byte below the largest integer is the largest that works.
CapsFit == \A p \in Profiles : BodyLimit(p) < MaxInt

\* With such caps a request that passed is prepared with its whole body.
LEMMA PreparedWhole ==
    ASSUME CapsFit, profile \in Profiles, NEW h, IsRequest(h.msg), ListOf(h.body), Passed(h)
    PROVE  Prepared(h).body = h.body
<1>1. Prepared(h).body = IF Mode = "never" THEN h.body ELSE ReadBody(h)
  BY PreparedSound
<1>2. ASSUME Mode # "never"
      PROVE  ReadBody(h) = h.body
  <2> DEFINE bytes == h.body
             limit == Limit
             read == IF limit < 0 THEN bytes ELSE Limited(bytes, Plus(limit, 1))
  <2>1. limit \in Int /\ limit < MaxInt
    BY ProfilesValid, LimitIsInt DEF Limit, CapsFit
  <2>2. ReadBody(h) = read
    BY DEF ReadBody
  <2>3. ~(limit >= 0 /\ Len(read) > limit)
    BY <1>2, <2>2 DEF Passed, TooLarge
  <2> HIDE DEF bytes, limit
  <2>4. /\ limit >= 0 => (Len(read) > limit <=> Len(bytes) > limit)
        /\ ~(limit >= 0 /\ Len(bytes) > limit) => read = bytes
    BY <2>1, ByteMore DEF bytes
  <2> QED
    BY <2>2, <2>3, <2>4 DEF bytes
<1> QED
  BY <1>1, <1>2

\* What goes out is what the application asked for, whole, over any number of
\* hops, if every cap leaves room for the byte that tells a longer body.
THEOREM SentAreCallers == ASSUME CapsFit PROVE Spec => []SentIsCallers
<1>1. ASSUME Inv, NEW m \in sent
      PROVE  LET own == asked[m.call].msg
                 counts(header, l) == IF l \in Labels(header) THEN Get(header, l) ELSE Absent
             IN  /\ m.body \in {asked[m.call].body, <<>>}
                 /\ m.body = <<>> => asked[m.call].body = <<>> \/ m.msg.req.method \in {"GET", "HEAD"}
                 /\ \A n \in DOMAIN own.fields :
                       m.msg.fields[n] = own.fields[n] \/ (n = "content-digest" /\ Digested(m.body))
                 /\ \A l \in DOMAIN own.inputs.occ \ {Label} :
                       /\ counts(m.msg.inputs, l) = counts(own.inputs, l)
                       /\ counts(m.msg.sigs, l) = counts(own.sigs, l)
  <2> DEFINE o == asked[m.call]
             counts(header, l) == IF l \in Labels(header) THEN Get(header, l) ELSE Absent
  <2>1. o \in Offers /\ profile \in Profiles
    BY <1>1, SentMessage DEF Inv, Core, Called, Timed
  <2>2. PICK h, input :
            LET ready == Prepared(h)
                base == SignatureBase(ready.msg, Target(ready.msg.req, "", NoHost), Types, input)
            IN  /\ Followed(m.call, h) /\ Passed(h) /\ m.body = ready.body
                /\ m.msg.req = h.msg.req
                /\ \A n \in DOMAIN o.msg.fields :
                      \/ m.msg.fields[n] = o.msg.fields[n]
                      \/ n = "content-digest" /\ Digested(m.body)
                /\ m.msg.inputs = Merge(o.msg.inputs, Label, input)
                /\ m.msg.sigs = Merge(o.msg.sigs, Label, KeySign(Key, base))
    BY <1>1, SentMessage DEF Inv
  <2>3. m.body = h.body
    <3>1. IsRequest(h.msg) /\ ListOf(o.body) /\ h.body \in {o.body, <<>>}
      BY <2>1, <2>2, OffersAssumption DEF Followed
    <3>2. ListOf(<<>>)
      BY DEF ListOf
    <3> QED
      BY <2>1, <2>2, <3>1, <3>2, PreparedWhole
  <2>4. ASSUME NEW header \in {o.msg.inputs, o.msg.sigs}, NEW value, NEW l, l # Label
        PROVE  counts(Merge(header, Label, value), l) = counts(header, l)
    <3> DEFINE merged == Merge(header, Label, value)
    <3>1. "occ" \in DOMAIN header /\ Label \in DOMAIN header.occ
      BY <1>1, <2>1, <2>4, LabelHasPlace DEF Inv
    <3>2. /\ \A x \in (DOMAIN header.occ) \ {Label} :
                /\ x \in Labels(merged) <=> x \in Labels(header)
                /\ x \in Labels(header) => Get(merged, x) = Get(header, x)
          /\ \A x : x \in Labels(merged) => x \in DOMAIN header.occ
      BY <3>1, MergeKeeps
    <3>3. l \in Labels(header) => l \in DOMAIN header.occ
      BY DEF Labels
    <3> HIDE DEF merged
    <3> QED
      BY <2>4, <3>2, <3>3 DEF merged
  <2> QED
    BY <2>2, <2>3, <2>4 DEF Followed
<1>2. Inv => SentIsCallers
  BY <1>1 DEF SentIsCallers
<1> QED
  BY <1>2, Invariance, PTL

-----------------------------------------------------------------------------
(* Whom it is signed for *)

\* The authority of a request's target is that of its URL, and of a verifier
\* that is told one, the one it is told.
LEMMA Targets ==
    ASSUME NEW req, req.urlScheme \in Schemes, req.urlHost # NoHost,
           NEW other, NEW host, host # NoHost
    PROVE  /\ Target(req, "", NoHost).authority = NormalAuthority(req.urlHost, req.urlScheme)
           /\ Target(other, req.urlScheme, host).authority = NormalAuthority(host, req.urlScheme)
<1>1. req.urlScheme # "" /\ ToLower(req.urlScheme) = req.urlScheme
  BY LowerCaseAssumption DEF Schemes, ToLower
<1> QED
  BY <1>1 DEF Target

\* Lower case does not change which authority is meant.
LEMMA LoweredAuthority ==
    ASSUME NEW host, IsHost(host), NEW scheme
    PROVE  NormalAuthority(Lowered(host), scheme) = NormalAuthority(host, scheme)
<1>1. Lowered(host).name = ToLower(host.name) /\ Lowered(host).port = host.port
  BY DEF Lowered, IsHost
<1> QED
  BY <1>1, LowerTwice DEF NormalAuthority

\* What a component that was read whole is made of.
LEMMA ComponentFields ==
    ASSUME NEW c, ReadWhole(c)
    PROVE  DOMAIN c = {"name", "sf", "key", "bs", "param"}
<1> DEFINE r == [name |-> c.name, sf |-> c.sf, key |-> c.key, bs |-> c.bs, param |-> c.param]
<1>1. DOMAIN r = {"name", "sf", "key", "bs", "param"}
  OBVIOUS
<1>2. c = r
  BY DEF ReadWhole
<1> HIDE DEF r
<1> QED
  BY <1>1, <1>2

\* A profile that lists the destination has it covered, whatever else is.
LEMMA DestinationCovered ==
    ASSUME profile \in Profiles, TargetCovered, NEW body
    PROVE  \E i \in DOMAIN Covered(Components(body)) :
              Covered(Components(body))[i].c.name \in {"@authority", "@target-uri"}
<1> DEFINE comps == Components(body)
           more == IF Digested(body) THEN <<Plain("content-digest")>> ELSE <<>>
<1>1. PICK i \in DOMAIN Listed : Listed[i].name \in {"@authority", "@target-uri"}
  BY DEF TargetCovered
<1>2. Listed \in Seq(ToSet(Listed)) /\ "name" \in DOMAIN Listed[i]
  <2>1. CASE profile.coverage.components = <<>>
    <3>1. Listed = DefaultComponents
      BY <2>1 DEF Listed
    <3>2. Listed \in Seq({Plain("@method"), Plain("@target-uri")}) /\ DOMAIN Listed = 1..2
          /\ Listed[1] = Plain("@method") /\ Listed[2] = Plain("@target-uri")
      BY <3>1 DEF DefaultComponents
    <3>3. ToSet(Listed) = {Plain("@method"), Plain("@target-uri")}
      BY <3>2 DEF ToSet
    <3>4. "name" \in DOMAIN Plain("@method") /\ "name" \in DOMAIN Plain("@target-uri")
      BY DEF Plain
    <3> QED
      BY <1>1, <3>2, <3>3, <3>4
  <2>2. CASE profile.coverage.components # <<>>
    BY <1>1, <2>2, ProfilesValid, ComponentFields DEF Listed, ListOf, ReadWhole
  <2> QED
    BY <2>1, <2>2
<1>3. comps = Listed \o more
  BY DEF Components
<1>4. i \in DOMAIN comps /\ comps[i] = Listed[i]
  <2>1. more \in Seq({Plain("content-digest")})
    <3>1. <<Plain("content-digest")>> \in Seq({Plain("content-digest")})
          /\ <<>> \in Seq({Plain("content-digest")})
      OBVIOUS
    <3> QED
      BY <3>1
  <2> HIDE DEF more
  <2>2. i \in 1..Len(Listed)
    BY <1>1, <1>2
  <2>3. Listed \in Seq(ToSet(Listed) \union {Plain("content-digest")})
        /\ more \in Seq(ToSet(Listed) \union {Plain("content-digest")})
    BY <1>2, <2>1
  <2> QED
    BY <1>3, <2>2, <2>3
<1> HIDE DEF comps
<1>5. i \in DOMAIN Covered(comps) /\ Covered(comps)[i].c.name = ToLower(comps[i].name)
  BY <1>2, <1>4 DEF Covered, Identifier
<1>6. ToLower(comps[i].name) = comps[i].name
  BY <1>1, <1>4, LowerCaseAssumption DEF ToLower, DerivedNames
<1> QED
  BY <1>1, <1>4, <1>5, <1>6 DEF comps

\* Equal values of a component that names the destination name one authority.
LEMMA SameAuthority ==
    ASSUME NEW m, NEW t, NEW n, NEW u, NEW types, NEW c, c.name \in {"@authority", "@target-uri"},
           ComponentValue(m, t, types, c) = ComponentValue(n, u, types, c)
    PROVE  t.authority = u.authority
<1>1. CASE c.name = "@authority"
  BY <1>1 DEF ComponentValue, DerivedNames
<1>2. CASE c.name = "@target-uri"
  BY <1>2 DEF ComponentValue, DerivedNames
<1> QED
  BY <1>1, <1>2

\* Nothing is signed for a host the profile does not list, whatever server
\* redirects there: not as the connection's, and not as the destination that
\* a verifier at another authority reads.
THEOREM SignedAreForListed == Spec => []SignedForListed
<1>1. ASSUME Inv, profile.authorities # {}, NEW m \in sent
      PROVE  Lowered(m.msg.req.urlHost) \in {Lowered(a) : a \in profile.authorities}
  BY <1>1, SentMessage DEF Inv, Passed, MaySignFor
<1>2. ASSUME Inv, profile.authorities # {}, NEW m \in sent, NEW loc \in Locations, TargetCovered, loc.host # NoHost,
             \A a \in {Lowered(b) : b \in profile.authorities} :
                NormalAuthority(a, m.msg.req.urlScheme) # NormalAuthority(loc.host, m.msg.req.urlScheme),
             Accepts(Read(m, m.msg.req.urlScheme, loc.host)[Label], Key, AtOnce({}), m.at)
      PROVE  FALSE
  <2> DEFINE o == asked[m.call]
             req == m.msg.req
             inbound == [m.msg EXCEPT !.req = Inbound(req, req.urlScheme = "https")]
             target == Target(inbound.req, req.urlScheme, loc.host)
             s == ParseSignatures(inbound, target, Types)[Label]
  <2>1. o \in Offers /\ profile \in Profiles
    BY <1>2, SentMessage DEF Inv, Core, Called, Timed
  <2>2. PICK h, input :
            LET ready == Prepared(h)
                base == SignatureBase(ready.msg, Target(ready.msg.req, "", NoHost), Types, input)
            IN  /\ Followed(m.call, h)
                /\ input.items = Covered(Components(ready.body))
                /\ IsRequest(m.msg) /\ req = h.msg.req /\ ready.msg.req = h.msg.req
                /\ m.msg.inputs = Merge(o.msg.inputs, Label, input)
                /\ m.msg.sigs = Merge(o.msg.sigs, Label, KeySign(Key, base))
    BY <1>2, SentMessage DEF Inv
  <2> DEFINE ready == Prepared(h)
             signedFor == Target(ready.msg.req, "", NoHost)
             base == SignatureBase(ready.msg, signedFor, Types, input)
  <2>3. /\ Label \in Labels(m.msg.inputs) /\ Get(m.msg.inputs, Label) = input
        /\ Get(m.msg.sigs, Label) = KeySign(Key, base)
    <3> HIDE DEF base
    <3>1. m.msg.inputs = Merge(o.msg.inputs, Label, input) /\ m.msg.sigs = Merge(o.msg.sigs, Label, KeySign(Key, base))
      BY <2>2 DEF base
    <3> QED
      BY <1>2, <2>1, <3>1, LabelHasPlace, MergeKeeps DEF Inv
  <2>4. /\ inbound.inputs = m.msg.inputs /\ inbound.sigs = m.msg.sigs
    BY <2>2 DEF IsRequest
  <2>5. s.ok /\ KeyVerify(Key, s.base, s.sig)
    BY <1>2 DEF Accepts, Read
  <2>6. Label \in DOMAIN ParseSignatures(inbound, target, Types)
    BY <2>3, <2>4 DEF ParseSignatures
  <2>7. s.sig = Get(inbound.sigs, Label) /\ s.base = SignatureBase(inbound, target, Types, Get(inbound.inputs, Label))
    <3> HIDE DEF inbound, target
    <3> QED
      BY <2>5, <2>6, ParsedSound
  <2>8. base = SignatureBase(inbound, target, Types, input)
    <3> HIDE DEF inbound, target, s, base
    <3>1. s.sig = KeySign(Key, base) /\ s.base = SignatureBase(inbound, target, Types, input)
      BY <2>3, <2>4, <2>7
    <3> QED
      BY <2>5, <3>1 DEF KeySign, KeyVerify
  <2>9. PICK i \in DOMAIN input.items : input.items[i].c.name \in {"@authority", "@target-uri"}
    BY <1>2, <2>1, <2>2, DestinationCovered
  <2>10. ComponentValue(ready.msg, signedFor, Types, input.items[i].c)
            = ComponentValue(inbound, target, Types, input.items[i].c)
    <3> HIDE DEF inbound, target, ready, signedFor
    <3> QED
      BY <2>8, <2>9, BaseValues DEF base
  <2>11. signedFor.authority = target.authority
    <3> HIDE DEF inbound, target, ready, signedFor
    <3> QED
      BY <2>9, <2>10, SameAuthority
  <2>12. IsHost(req.urlHost) /\ req.urlHost # NoHost /\ req.urlScheme \in Schemes
    BY <2>2 DEF IsRequest
  <2>13. NormalAuthority(req.urlHost, req.urlScheme) = NormalAuthority(loc.host, req.urlScheme)
    <3> DEFINE host == loc.host
               other == inbound.req
    <3>1. signedFor = Target(req, "", NoHost)
      BY <2>2
    <3>2. target = Target(other, req.urlScheme, host)
      OBVIOUS
    <3>3. host # NoHost
      BY <1>2
    <3> HIDE DEF signedFor, target, req, host, other
    <3>4. /\ Target(req, "", NoHost).authority = NormalAuthority(req.urlHost, req.urlScheme)
          /\ Target(other, req.urlScheme, host).authority = NormalAuthority(host, req.urlScheme)
      BY <2>12, <3>3, Targets
    <3> QED
      BY <2>11, <3>1, <3>2, <3>4 DEF host
  <2>14. NormalAuthority(Lowered(req.urlHost), req.urlScheme) = NormalAuthority(loc.host, req.urlScheme)
    BY <2>12, <2>13, LoweredAuthority
  <2> QED
    BY <1>1, <1>2, <2>14
<1>3. Inv => SignedForListed
  BY <1>1, <1>2 DEF SignedForListed
<1> QED
  BY <1>3, Invariance, PTL
-----------------------------------------------------------------------------
(* What Sign is given *)

\* Component names of the standards are in lower case.
LEMMA NamesAreLower ==
    ASSUME NEW name \in DerivedNames \union {"content-digest"}
    PROVE  ToLower(name) = name
BY LowerCaseAssumption DEF ToLower

\* The default components, and the digest, are ones that Sign takes.
LEMMA PlainSound ==
    ASSUME NEW name \in {"@method", "@target-uri", "content-digest"}
    PROVE  ReadWhole(Plain(name)) /\ Valid(Plain(name)) /\ Plain(name).name = name
<1>1. ToLower(name) = name
  BY NamesAreLower DEF DerivedNames
<1>2. ReadWhole(Plain(name)) /\ Plain(name).name = name
  BY DEF Plain, ReadWhole
<1>3. Valid(Plain(name))
  BY <1>1 DEF Valid, Plain, RefusedNames, DerivedNames
<1> QED
  BY <1>2, <1>3

\* What a profile lists, or leaves to the defaults, Sign takes.
LEMMA ListedSound ==
    ASSUME profile \in Profiles
    PROVE  /\ ListOf(Listed)
           /\ \A i \in DOMAIN Listed :
                 ReadWhole(Listed[i]) /\ Valid(Listed[i]) /\ Listed[i].name # "content-digest"
           /\ \A i, j \in DOMAIN Listed : i < j => Listed[i] # Listed[j]
<1>1. CASE profile.coverage.components = <<>>
  <2>1. Listed = <<Plain("@method"), Plain("@target-uri")>>
    BY <1>1 DEF Listed, DefaultComponents
  <2>2. /\ DOMAIN Listed = 1..2 /\ Listed[1] = Plain("@method") /\ Listed[2] = Plain("@target-uri")
        /\ Listed \in Seq({Plain("@method"), Plain("@target-uri")})
    BY <2>1
  <2>3. ToSet(Listed) = {Plain("@method"), Plain("@target-uri")}
    BY <2>2 DEF ToSet
  <2>4. Plain("@method") # Plain("@target-uri")
    BY PlainSound
  <2>5. \A i \in 1..2 : i = 1 \/ i = 2
    OBVIOUS
  <2> QED
    BY <2>2, <2>3, <2>4, <2>5, PlainSound DEF ListOf
<1>2. CASE profile.coverage.components # <<>>
  <2>1. Listed = profile.coverage.components
    BY <1>2 DEF Listed
  <2>2. HTTPComponentsOK(profile.coverage)
    BY ProfilesValid DEF ValidProfile, ValidCoverage
  <2> QED
    BY <2>1, <2>2, ProfilesValid DEF HTTPComponentsOK
<1> QED
  BY <1>1, <1>2

\* The wire form of a component in lower case is that component.
LEMMA WireForm ==
    ASSUME NEW c, ReadWhole(c), ToLower(c.name) = c.name
    PROVE  [c EXCEPT !.name = ToLower(c.name)] = c
<1> DEFINE r == [name |-> c.name, sf |-> c.sf, key |-> c.key, bs |-> c.bs, param |-> c.param]
<1>1. [r EXCEPT !.name = c.name] = r
  OBVIOUS
<1>2. c = r
  BY DEF ReadWhole
<1> HIDE DEF r
<1> QED
  BY <1>1, <1>2

\* What Sign covers: what is listed and, when there is one, the digest.
LEMMA ItemsSound ==
    ASSUME profile \in Profiles, NEW body
    PROVE  LET items == Covered(Components(body))
           IN  /\ \A i \in DOMAIN items :
                     /\ Valid(items[i].c) /\ items[i].form = "canonical"
                     /\ \/ \E j \in DOMAIN Listed : items[i].c = Listed[j]
                        \/ Digested(body) /\ items[i].c = Plain("content-digest")
               /\ \A i, j \in DOMAIN items : i < j => items[i].c # items[j].c
               /\ \A j \in DOMAIN Listed : \E i \in DOMAIN items : items[i].c = Listed[j]
               /\ Digested(body) => \E i \in DOMAIN items : items[i].c = Plain("content-digest")
<1> DEFINE digest == Plain("content-digest")
           comps == Components(body)
           items == Covered(comps)
           n == Len(Listed)
<1>1. /\ Listed \in Seq(ToSet(Listed) \union {digest}) /\ n \in Nat /\ DOMAIN Listed = 1..n
      /\ \A i \in 1..n : ReadWhole(Listed[i]) /\ Valid(Listed[i]) /\ Listed[i].name # "content-digest"
      /\ \A i, j \in 1..n : i < j => Listed[i] # Listed[j]
  <2>1. Listed \in Seq(ToSet(Listed))
    BY ListedSound DEF ListOf
  <2> QED
    BY <2>1, ListedSound
<1>2. ReadWhole(digest) /\ Valid(digest) /\ digest.name = "content-digest"
  BY PlainSound
<1> HIDE DEF digest
<1>3. /\ Digested(body) => /\ DOMAIN comps = 1..(n + 1) /\ comps[n + 1] = digest
                           /\ \A i \in 1..n : comps[i] = Listed[i]
      /\ ~Digested(body) => /\ DOMAIN comps = 1..n
                            /\ \A i \in 1..n : comps[i] = Listed[i]
  <2>1. CASE Digested(body)
    <3>1. comps = Listed \o <<digest>>
      BY <2>1 DEF Components, digest
    <3>2. <<digest>> \in Seq(ToSet(Listed) \union {digest}) /\ Len(<<digest>>) = 1 /\ <<digest>>[1] = digest
      OBVIOUS
    <3> HIDE DEF comps
    <3> QED
      BY <1>1, <2>1, <3>1, <3>2
  <2>2. CASE ~Digested(body)
    <3>1. comps = Listed \o <<>>
      BY <2>2 DEF Components
    <3>2. Listed \o <<>> = Listed
      BY <1>1, ConcatEmptySeq
    <3> HIDE DEF comps
    <3> QED
      BY <1>1, <2>2, <3>1, <3>2
  <2> QED
    BY <2>1, <2>2
<1>4. \A i \in DOMAIN comps : ReadWhole(comps[i]) /\ Valid(comps[i])
  <2> HIDE DEF comps, n
  <2>1. \A i \in 1..(n + 1) : i \in 1..n \/ i = n + 1
    BY <1>1
  <2> QED
    BY <1>1, <1>2, <1>3, <2>1
<1> HIDE DEF comps
<1>5. DOMAIN items = DOMAIN comps /\ \A i \in DOMAIN comps : items[i] = [c |-> comps[i], form |-> "canonical"]
  <2> SUFFICES ASSUME NEW i \in DOMAIN comps
               PROVE  items[i] = [c |-> comps[i], form |-> "canonical"]
    BY DEF Covered
  <2>1. items[i] = Identifier([comps[i] EXCEPT !.name = ToLower(comps[i].name)])
    BY DEF Covered
  <2>2. [comps[i] EXCEPT !.name = ToLower(comps[i].name)] = comps[i]
    BY <1>4, WireForm DEF Valid
  <2> QED
    BY <2>1, <2>2 DEF Identifier
<1> HIDE DEF items, n
<1>6. \A i \in 1..(n + 1) : i \in 1..n \/ i = n + 1
  BY <1>1
<1>7. \A i \in DOMAIN items :
         /\ Valid(items[i].c) /\ items[i].form = "canonical"
         /\ \/ \E j \in DOMAIN Listed : items[i].c = Listed[j]
            \/ Digested(body) /\ items[i].c = digest
  BY <1>1, <1>3, <1>4, <1>5, <1>6
<1>8. ASSUME NEW i \in DOMAIN items, NEW j \in DOMAIN items, i < j
      PROVE  items[i].c # items[j].c
  <2>1. i \in 1..n
    BY <1>1, <1>3, <1>5, <1>6, <1>8
  <2>2. CASE j \in 1..n
    BY <1>1, <1>3, <1>5, <1>8, <2>1, <2>2
  <2>3. CASE j = n + 1 /\ Digested(body)
    <3>1. items[i].c.name # "content-digest" /\ items[j].c = digest
      BY <1>1, <1>3, <1>5, <1>8, <2>1, <2>3
    <3> QED
      BY <1>2, <3>1
  <2> QED
    BY <1>3, <1>5, <1>6, <1>8, <2>2, <2>3
<1>9. \A j \in DOMAIN Listed : \E i \in DOMAIN items : items[i].c = Listed[j]
  <2>1. \A j \in 1..n : j \in 1..(n + 1)
    BY <1>1
  <2> QED
    BY <1>1, <1>3, <1>5, <2>1
<1>10. Digested(body) => \E i \in DOMAIN items : items[i].c = digest
  <2>1. n + 1 \in 1..(n + 1)
    BY <1>1
  <2> QED
    BY <1>3, <1>5, <2>1
<1> QED
  BY <1>7, <1>8, <1>9, <1>10 DEF items, comps, digest

-----------------------------------------------------------------------------
(* What fails *)

\* A digest that the Transport wrote has a value to sign.
LEMMA DigestHasValue ==
    ASSUME NEW msg, NEW types, "content-digest" \in DOMAIN msg.fields,
           NEW alg, NEW body, msg.fields["content-digest"] = CD!Value(alg, body)
    PROVE  HasValue(msg, types, Plain("content-digest"))
<1> DEFINE c == Plain("content-digest")
           e == [key |-> alg, val |-> CD!Digest(alg, body), raw |-> "canonical"]
           lines == FieldLines(msg, "content-digest")
<1>1. /\ c.name = "content-digest" /\ c.key = "" /\ c.sf = FALSE /\ c.bs = FALSE
      /\ c.name \notin DerivedNames \union {"signature", "signature-input"}
  BY DEF Plain, DerivedNames
<1>2. CD!Value(alg, body) = <<<<e>>>> /\ <<<<e>>>> # <<>>
  BY DEF CD!Value
<1>3. lines = <<<<e>>>>
  BY <1>2 DEF FieldLines
<1>4. FlattenSeq(lines) = <<e>>
  BY <1>3, FlattenOne
<1>5. ASCII(<<e>>)
  BY DEF ASCII
<1>6. Readable(lines, types, c)
  <2> HIDE DEF c, e, lines
  <2>1. lines # <<>>
    BY <1>2, <1>3
  <2> QED
    BY <1>1, <1>4, <1>5, <2>1 DEF Readable
<1> HIDE DEF c, lines
<1>7. HasValue(msg, types, c) <=> Readable(FieldLines(msg, c.name), types, c)
  BY <1>1 DEF HasValue, DerivedNames
<1> QED
  BY <1>1, <1>6, <1>7 DEF c, lines

\* If a request has what the profile lists, so has what is made of it, and
\* the digest.
LEMMA PreparedHasBase ==
    ASSUME profile \in Profiles, NEW h, IsRequest(h.msg), HasBase(h.msg, Types, Covered(Listed))
    PROVE  HasBase(Prepared(h).msg, Types, Covered(Components(Prepared(h).body)))
<1> DEFINE ready == Prepared(h)
           items == Covered(Components(ready.body))
<1>1. /\ \A i \in DOMAIN items :
            \/ \E j \in DOMAIN Listed : items[i].c = Listed[j]
            \/ Digested(ready.body) /\ items[i].c = Plain("content-digest")
      /\ \A i, j \in DOMAIN items : i < j => items[i].c # items[j].c
  BY ItemsSound
<1>2. /\ ready.msg.req = h.msg.req /\ ready.msg.inputs = h.msg.inputs /\ ready.msg.sigs = h.msg.sigs
      /\ DOMAIN ready.msg.fields = DOMAIN h.msg.fields
      /\ \A n \in DOMAIN h.msg.fields : n # "content-digest" => ready.msg.fields[n] = h.msg.fields[n]
      /\ Digested(ready.body) => ready.msg.fields["content-digest"] = CD!Value(DigestAlgorithm, ready.body)
      /\ "content-digest" \in DOMAIN ready.msg.fields
  BY PreparedSound DEF IsRequest
<1> HIDE DEF ready
<1>3. ASSUME NEW j \in DOMAIN Listed
      PROVE  HasValue(ready.msg, Types, Listed[j])
  <2> DEFINE c == Listed[j]
  <2>1. c.name # "content-digest" /\ Covered(Listed)[j].c = c /\ j \in DOMAIN Covered(Listed)
    <3>1. ReadWhole(c) /\ ToLower(c.name) = c.name /\ c.name # "content-digest"
      BY ListedSound DEF Valid
    <3>2. [Listed[j] EXCEPT !.name = ToLower(Listed[j].name)] = c
      BY <3>1, WireForm
    <3> QED
      BY <3>1, <3>2 DEF Covered, Identifier
  <2>2. HasValue(h.msg, Types, c)
    BY <2>1 DEF HasBase
  <2> HIDE DEF c
  <2>3. Carries(h.msg, ready.msg, c)
    BY <1>2, <2>1, ReadsAsItself DEF Carries, FieldCarries, MemberCarries
  <2>4. \A t : TargetCarries(t, t, c)
    BY DEF TargetCarries
  <2> QED
    BY <2>2, <2>3, <2>4, ValueCarries DEF c
<1>4. ASSUME NEW i \in DOMAIN items
      PROVE  HasValue(ready.msg, Types, items[i].c)
  BY <1>1, <1>2, <1>3, DigestHasValue
<1> HIDE DEF items
<1> QED
  BY <1>1, <1>4 DEF HasBase, items, ready

\* What a signed request must not look like.
Misshapen(c, h) ==
    LET own == asked[c].msg
        msg == [h.msg EXCEPT !.fields = own.fields]
    IN  \/ profile.authorities # {} /\
              Lowered(h.msg.req.urlHost) \notin {Lowered(a) : a \in profile.authorities}
        \/ Mode # "never" /\ (h.fails \/ (Limit >= 0 /\ Len(h.body) > Limit))
        \/ ~HasBase(msg, Types, Covered(Listed))
        \/ ~own.inputs.ok \/ ~own.sigs.ok
        \/ Label \in Labels(own.inputs) \union Labels(own.sigs)

\* It looks the same as long as profile and request do not change.
LEMMA MisshapenFixed ==
    ASSUME UNCHANGED profile, NEW c, asked'[c] = asked[c], NEW h
    PROVE  Misshapen(c, h)' <=> Misshapen(c, h)
<1>1. /\ Mode' = Mode /\ Limit' = Limit /\ Types' = Types /\ Listed' = Listed /\ Label' = Label
  BY DEF Mode, Limit, Types, Listed, Label
<1> QED
  BY <1>1 DEF Misshapen

\* Reading never makes a body longer.
LEMMA ReadShortens ==
    ASSUME profile \in Profiles, NEW h, ListOf(h.body)
    PROVE  /\ Len(ReadBody(h)) \in Nat /\ Len(h.body) \in Nat
           /\ Len(ReadBody(h)) <= Len(h.body)
<1>1. h.body \in Seq(ToSet(h.body)) /\ Len(h.body) \in Nat
  BY DEF ListOf
<1>2. Limit \in Int
  BY ProfilesValid, LimitIsInt DEF Limit
<1>3. CASE Limit < 0
  BY <1>1, <1>3 DEF ReadBody
<1>4. CASE Limit >= 0
  <2> DEFINE n == Plus(Limit, 1)
  <2>1. n \in Int /\ ReadBody(h) = Limited(h.body, n)
    BY <1>2, <1>4, MaxIntAssumption DEF ReadBody, Plus
  <2> HIDE DEF n
  <2>2. CASE n < 0
    <3>1. Limited(h.body, n) = <<>>
      BY <2>1, <2>2 DEF Limited
    <3>2. Len(<<>>) = 0
      OBVIOUS
    <3> QED
      BY <1>1, <2>1, <3>1, <3>2
  <2>3. CASE n >= 0
    <3>1. /\ Len(h.body) <= n => Limited(h.body, n) = h.body
          /\ Len(h.body) > n => Len(Limited(h.body, n)) = n
      BY <1>1, <2>1, <2>3, LimitedReads
    <3> QED
      BY <1>1, <2>1, <2>3, <3>1
  <2> QED
    BY <2>1, <2>2, <2>3
<1> QED
  BY <1>2, <1>3, <1>4

\* The texts of every profile can be printed.
Printable == \A p \in Profiles : {p.label, p.keyid, p.tag} \intersect Unprintable = {}

\* Then no parameter of a signature is in the way.
LEMMA ParametersPrint ==
    ASSUME Inv, Printable, NEW c \in Calls, NEW body
    PROVE  LET input == Input(c, body, now)
           IN  \A p \in DOMAIN input.params : input.params[p] \notin Unprintable
<1>1. profile \in Profiles /\ now \in Nat /\ NewNonce(c) \in Nonces /\ profile.ttl \in Int
  BY BoundsAssumption, ProfilesValid DEF Inv, Core, Called, Timed, NewNonce, Nonces
<1>2. Created(now) \in Int /\ Expires(now, profile.ttl) \in Int \union {Absent}
  BY <1>1, SecondAssumption DEF Created, Expires
<1>3. Given(profile.keyid) \notin Unprintable /\ Given(profile.tag) \notin Unprintable
  BY <1>1, ParametersAssumption DEF Printable, Given
<1>4. /\ Created(now) \notin Unprintable /\ Expires(now, profile.ttl) \notin Unprintable
      /\ Absent \notin Unprintable /\ NewNonce(c) \notin Unprintable /\ AlgorithmOf[Key] \notin Unprintable
  BY <1>1, <1>2, ParametersAssumption
<1> QED
  BY <1>3, <1>4 DEF Input

\* What RoundTrip refuses, or Sign cannot sign, is misshapen.
LEMMA FailsForShape ==
    ASSUME Inv, Printable, NEW c \in Calls, pc[c] # "idle",
           \/ ~MaySignFor(hop[c])
           \/ Mode # "never" /\ (ReadFails(hop[c]) \/ TooLarge(hop[c]))
           \/ pc[c] = "signing" /\ ~Signable(c)
    PROVE  Misshapen(c, hop[c])
<1> DEFINE h == hop[c]
           own == asked[c]
<1>1. /\ profile \in Profiles /\ own \in Offers /\ Followed(c, h)
  BY DEF Inv, Core, Called, Timed, Kept
<1>2. CASE ~MaySignFor(h)
  BY <1>2 DEF MaySignFor, Misshapen
<1>3. CASE Mode # "never" /\ (ReadFails(h) \/ TooLarge(h))
  <2>1. ListOf(h.body)
    <3>1. ListOf(own.body)
      BY <1>1, OffersAssumption
    <3>2. ListOf(<<>>)
      BY DEF ListOf
    <3> QED
      BY <1>1, <3>1, <3>2 DEF Followed
  <2>2. Limit \in Int
    BY <1>1, ProfilesValid, LimitIsInt DEF Limit
  <2>3. h.fails \/ (Limit >= 0 /\ Len(h.body) > Limit)
    BY <1>1, <1>3, <2>1, <2>2, ReadShortens DEF ReadFails, TooLarge
  <2> QED
    BY <1>3, <2>3 DEF Misshapen
<1>4. CASE pc[c] = "signing" /\ ~Signable(c)
  <2> DEFINE ready == Prepared(h)
             input == Input(c, ready.body, now)
             msg == [h.msg EXCEPT !.fields = own.msg.fields]
  <2>1. clone[c] = ready
    BY <1>4 DEF Inv, Core, Kept
  <2>2. ~CanSign(ready.msg, Types, input, Label)
    BY <1>4, <2>1 DEF Signable
  <2>3. /\ IsRequest(h.msg) /\ h.msg.fields = own.msg.fields
        /\ ready.msg.inputs = own.msg.inputs /\ ready.msg.sigs = own.msg.sigs
    BY <1>1, PreparedSound DEF Followed
  <2>4. /\ msg.req = h.msg.req /\ msg.fields = h.msg.fields
        /\ msg.inputs = h.msg.inputs /\ msg.sigs = h.msg.sigs
    BY <2>3 DEF IsRequest
  <2>5. HasBase(msg, Types, Covered(Listed)) => HasBase(h.msg, Types, Covered(Listed))
    <3> HIDE DEF msg, h
    <3>1. \A x : Carries(msg, h.msg, x)
      BY <2>4, ReadsAsItself DEF Carries, FieldCarries, MemberCarries
    <3>2. \A t, x : TargetCarries(t, t, x)
      BY DEF TargetCarries
    <3>3. \A i \in DOMAIN Covered(Listed) : HasValue(msg, Types, Covered(Listed)[i].c)
                                            => HasValue(h.msg, Types, Covered(Listed)[i].c)
      BY <3>1, <3>2, ValueCarries
    <3> QED
      BY <3>3 DEF HasBase
  <2>6. HasBase(msg, Types, Covered(Listed)) => HasBase(ready.msg, Types, input.items)
    <3>1. input.items = Covered(Components(ready.body))
      BY DEF Input
    <3> HIDE DEF msg, h, input
    <3> QED
      BY <1>1, <2>3, <2>5, <3>1, PreparedHasBase
  <2>7. \A i \in DOMAIN input.items : Valid(input.items[i].c)
    BY <1>1, ItemsSound DEF Input
  <2>8. \A p \in DOMAIN input.params : input.params[p] \notin Unprintable
    BY ParametersPrint
  <2>9. Label \notin Unprintable
    BY <1>1, ParametersAssumption DEF Printable, Label
  <2> HIDE DEF input, ready
  <2>10. \/ ~HasBase(msg, Types, Covered(Listed)) \/ ~own.msg.inputs.ok \/ ~own.msg.sigs.ok
         \/ Label \in Labels(own.msg.inputs) \union Labels(own.msg.sigs)
    BY <2>2, <2>3, <2>6, <2>7, <2>8, <2>9 DEF CanSign
  <2> QED
    BY <2>10 DEF Misshapen
<1> QED
  BY <1>2, <1>3, <1>4

\* If its texts can be printed, no configuration makes a Transport fail, and
\* no earlier hop does: it fails for the shape of the request alone.
THEOREM FailuresAreForShape == ASSUME Printable PROVE Spec => []FailsOnlyByShape
<1> DEFINE Shaped == \A c \in Calls : pc[c] = "failed" => Misshapen(c, hop[c])
<1>1. Init => Shaped
  BY DEF Init, NoCalls
<1>2. Inv /\ Shaped /\ [Next]_vars => Shaped'
  <2> SUFFICES ASSUME Inv, Shaped, [Next]_vars, NEW c \in Calls, pc'[c] = "failed"
               PROVE  Misshapen(c, hop[c])'
    OBVIOUS
  <2> DEFINE Stopped == \/ pc[c] = "failed"
                        \/ ~MaySignFor(hop[c])
                        \/ Mode # "never" /\ (ReadFails(hop[c]) \/ TooLarge(hop[c]))
                        \/ pc[c] = "signing" /\ ~Signable(c)
             Stays == profile' = profile /\ pc[c] # "idle" /\ asked'[c] = asked[c] /\ hop'[c] = hop[c]
  <2>1. Stays /\ Stopped
    <3>1. ASSUME NEW d \in Calls, NEW o \in Offers, Ask(d, o)
          PROVE  Stays /\ Stopped
      BY <3>1 DEF Ask, Inv, Core, Shape
    <3>2. ASSUME NEW d \in Calls, Refuse(d)
          PROVE  Stays /\ Stopped
      BY <3>2 DEF Refuse, Inv, Core, Shape
    <3>3. ASSUME NEW d \in Calls, Prepare(d) \/ Return(d)
          PROVE  Stays /\ Stopped
      BY <3>3 DEF Prepare, Return, Inv, Core, Shape
    <3>4. ASSUME NEW d \in Calls, Sign(d)
          PROVE  Stays /\ Stopped
      BY <3>4 DEF Sign, Inv, Core, Shape
    <3>5. ASSUME NEW d \in Calls, NEW keep \in BOOLEAN, NEW loc \in Locations, Redirect(d, keep, loc)
          PROVE  Stays /\ Stopped
      <4>1. /\ pc[d] = "sent" /\ pc' = [pc EXCEPT ![d] = "ready"] /\ UNCHANGED <<profile, asked>>
            /\ hop' = [hop EXCEPT ![d] = Redirected(hop[d], keep, loc)]
        BY <3>5 DEF Redirect
      <4> QED
        BY <4>1 DEF Inv, Core, Shape
    <3>6. CASE UNCHANGED <<profile, pc, asked, hop>>
      BY <3>6
    <3> HIDE DEF Stays, Stopped
    <3> QED
      BY <3>1, <3>2, <3>3, <3>4, <3>5, <3>6 DEF Next, RoundTrip, Tick, vars, call
  <2>2. Misshapen(c, hop[c])
    BY <2>1, FailsForShape
  <2>3. PICK h : h = hop[c]
    OBVIOUS
  <2>4. Misshapen(c, h)' <=> Misshapen(c, h)
    BY <2>1, MisshapenFixed
  <2>5. Misshapen(c, hop[c])' <=> Misshapen(c, h)'
    BY <2>1, <2>3 DEF Misshapen
  <2> QED
    BY <2>2, <2>3, <2>4, <2>5
<1>3. Shaped => FailsOnlyByShape
  BY DEF FailsOnlyByShape, Misshapen
<1> QED
  BY <1>1, <1>2, <1>3, Invariance, PTL DEF Spec

-----------------------------------------------------------------------------
(* Who accepts what is sent *)

\* Truncation to seconds loses less than a second.
LEMMA Truncates ==
    ASSUME NEW a \in Nat, NEW b \in Nat \ {0}
    PROVE  /\ a \div b \in Nat
           /\ b * (a \div b) <= a /\ a < b * (a \div b) + b
OBVIOUS

\* What a Transport's digest field says is true of its body.
LEMMA DigestVerifies ==
    ASSUME NEW alg \in CD!Supported, NEW body
    PROVE  CD!Verify(CD!Value(alg, body), body, {alg})
<1> DEFINE e == [key |-> alg, val |-> CD!Digest(alg, body), raw |-> "canonical"]
           es == CD!FlattenSeq(CD!Value(alg, body))
<1>1. es = <<e>>
  <2>1. CD!Value(alg, body) = <<<<e>>>>
    BY DEF CD!Value
  <2>2. FlattenSeq(<<<<e>>>>) = <<e>>
    BY FlattenOne
  <2> QED
    BY <2>1, <2>2 DEF CD!FlattenSeq, FlattenSeq
<1>2. e.key = alg /\ e.val = CD!Digest(alg, body) /\ e.raw = "canonical"
  OBVIOUS
<1> HIDE DEF e, es
<1>3. DOMAIN es = {1} /\ es[1] = e
  BY <1>1
<1>4. CD!Entries(es) = {e}
  BY <1>3 DEF CD!Entries
<1> QED
  BY <1>2, <1>3, <1>4 DEF CD!Verify, es

\* No lifetime is so short that it ends before it begins.
LifetimesLast == \A p \in Profiles : p.ttl = 0 \/ p.ttl + 1 >= Second
\* No signature covers the signature fields, itself included, as a whole.
MembersOnly ==
    \A p \in Profiles : \A i \in DOMAIN p.coverage.components :
        p.coverage.components[i].name \in {"signature", "signature-input"} => p.coverage.components[i].key # ""

\* A signature is good at the time it was made.
LEMMA GoodAtOnce ==
    ASSUME NEW s, NEW time \in Nat, NEW ttl \in Nat, ttl = 0 \/ ttl + 1 >= Second, NEW required,
           s.params.created = Created(time), s.params.expires = Expires(time, ttl)
    PROVE  ~Expired(s, AtOnce(required), time) /\ ~FromFuture(s, AtOnce(required), time)
           /\ ~TooOld(s, AtOnce(required), time)
<1> DEFINE created == time \div Second
           p == AtOnce(required)
<1>1. /\ Second \in Nat \ {0} /\ ZeroTime \in Int /\ ZeroTime < 0 /\ Second <= MaxInt /\ MaxInt \in Nat
  BY SecondAssumption, TimesAssumption, MaxIntAssumption
<1>2. created \in Nat /\ Second * created <= time /\ time < Second * created + Second
  BY <1>1, Truncates
<1> HIDE DEF created
<1>3. p.maxAge = Second /\ p.tolerance = 0
  BY DEF AtOnce
<1> HIDE DEF p
<1>4. s.params.created = created /\ created # ZeroTime
  BY <1>1, <1>2 DEF Created, created
<1>5. TimeOf(created) = created \/ created = Absent
  BY DEF TimeOf
<1>6. ~FromFuture(s, p, time) /\ ~TooOld(s, p, time)
  <2>1. TimeOf(created) = created
    BY <1>2, <1>5, TimesAssumption
  <2>2. Plus(Second, 0) = Second
    BY <1>1 DEF Plus
  <2>3. Second * created \in Int
    BY <1>1, <1>2
  <2> QED
    BY <1>1, <1>2, <1>3, <1>4, <2>1, <2>2, <2>3 DEF FromFuture, TooOld
<1>7. ~Expired(s, p, time)
  <2>1. CASE ttl = 0
    BY <2>1 DEF Expired, Expires, TimeOf
  <2>2. CASE ttl # 0
    <3> DEFINE expires == (time + ttl) \div Second
    <3>1. /\ expires \in Nat /\ time + ttl < Second * expires + Second
      BY <1>1, <2>2, Truncates
    <3>2. s.params.expires = expires
      BY <2>2 DEF Expires
    <3> HIDE DEF expires
    <3>3. Second * expires \in Int
      BY <1>1, <3>1
    <3>4. time <= Second * expires
      BY <1>1, <2>2, <3>1, <3>3
    <3> QED
      BY <1>3, <3>1, <3>2, <3>3, <3>4 DEF Expired, TimeOf
  <2> QED
    BY <2>1, <2>2
<1> QED
  BY <1>6, <1>7 DEF p

\* What the profile wants covered with a body.
Wanted(body) ==
    ToSet(IF profile.coverage.components = <<>> THEN DefaultComponents
          ELSE profile.coverage.components)
    \union (IF Mode = "always" \/ (Mode # "never" /\ body # <<>>)
            THEN {Plain("content-digest")} ELSE {})

\* What a message was made with covers what the profile wants covered.
LEMMA CoversWanted ==
    ASSUME profile \in Profiles, NEW body, NEW c \in Wanted(body)
    PROVE  \E i \in DOMAIN Covered(Components(body)) : Covered(Components(body))[i].c = c
<1>1. /\ \A j \in DOMAIN Listed : \E i \in DOMAIN Covered(Components(body)) :
            Covered(Components(body))[i].c = Listed[j]
      /\ Digested(body) => \E i \in DOMAIN Covered(Components(body)) :
            Covered(Components(body))[i].c = Plain("content-digest")
  BY ItemsSound
<1>2. c \in ToSet(Listed) \/ (Digested(body) /\ c = Plain("content-digest"))
  BY DEF Wanted, Listed, Digested
<1> QED
  BY <1>1, <1>2 DEF ToSet

\* How a verifier gets a message.
AtVerifier(m) == [m.msg EXCEPT !.req = Inbound(m.msg.req, m.msg.req.urlScheme = "https")]

\* Its request line reads there as it did for the signer, where covered.
LineReads(m) == ~(BareQuery(m.msg.req) /\ LineCovered)

\* What was signed reads at the verifier as it did.
LEMMA ItemsCarry ==
    ASSUME Core, MembersOnly, NEW m \in sent, LineReads(m), NEW h, NEW input, Writes(m, h, input),
           NEW i \in DOMAIN input.items
    PROVE  Carries(Prepared(h).msg, AtVerifier(m), input.items[i].c)
<1> DEFINE ready == Prepared(h).msg
           there == AtVerifier(m)
           c == input.items[i].c
           base == SignatureBase(ready, Target(ready.req, "", NoHost), Types, input)
           sig == KeySign(Key, base)
<1>1. profile \in Profiles /\ m.call \in Calls /\ asked[m.call] \in Offers
  BY SentMessage DEF Core, Called
<1>2. /\ Followed(m.call, h) /\ CanSign(ready, Types, input, Label)
      /\ m.msg = AddSignature(ready, Label, input, sig)
  BY DEF Writes
<1>3. /\ IsRequest(ready) /\ ready.inputs = asked[m.call].msg.inputs /\ ready.sigs = asked[m.call].msg.sigs
  BY <1>2, PreparedSound DEF Followed
<1>4. input.items = Covered(Components(Prepared(h).body))
  <2>1. PICK nonce : input = Filled(Prepared(h).body, m.at, nonce)
    BY DEF Writes
  <2> QED
    BY <2>1 DEF Filled
<1>5. /\ c.name \in {"signature", "signature-input"} => c.key # ""
      /\ c.name = "@request-target" => LineCovered
  <2>1. (\E j \in DOMAIN Listed : c = Listed[j]) \/ c = Plain("content-digest")
    BY <1>1, <1>4, ItemsSound
  <2>2. Plain("content-digest").name = "content-digest"
    BY PlainSound
  <2>3. CASE profile.coverage.components = <<>>
    <3>1. Listed = <<Plain("@method"), Plain("@target-uri")>>
      BY <2>3 DEF Listed, DefaultComponents
    <3>2. Plain("@method").name = "@method" /\ Plain("@target-uri").name = "@target-uri"
      BY PlainSound
    <3>3. \A j \in DOMAIN Listed : Listed[j].name \in {"@method", "@target-uri"}
      BY <3>1, <3>2
    <3> QED
      BY <2>1, <2>2, <3>3
  <2>4. CASE profile.coverage.components # <<>>
    <3>1. c.name \in {"signature", "signature-input"} => c.key # ""
      BY <1>1, <2>1, <2>2, <2>4 DEF Listed, MembersOnly
    <3>2. c.name = "@request-target" => LineCovered
      BY <2>1, <2>2 DEF LineCovered
    <3> QED
      BY <3>1, <3>2
  <2> QED
    BY <2>3, <2>4
<1> HIDE DEF ready, sig
<1>6. /\ m.msg.req = ready.req /\ m.msg.fields = ready.fields
      /\ m.msg.inputs = Merge(ready.inputs, Label, input) /\ m.msg.sigs = Merge(ready.sigs, Label, sig)
      /\ {"req", "fields", "inputs", "sigs"} \subseteq DOMAIN m.msg
  BY <1>2, <1>3 DEF AddSignature, IsRequest
<1>7. /\ there.req = Inbound(ready.req, ready.req.urlScheme = "https") /\ there.fields = ready.fields
      /\ there.inputs = Merge(ready.inputs, Label, input) /\ there.sigs = Merge(ready.sigs, Label, sig)
  BY <1>6 DEF AtVerifier
<1>8. ASSUME NEW header \in {ready.inputs, ready.sigs}, NEW value
      PROVE  /\ Merge(header, Label, value).ok = header.ok
             /\ \A l \in Labels(header) \ {Label} :
                   l \in Labels(Merge(header, Label, value)) /\ Get(Merge(header, Label, value), l) = Get(header, l)
  <2>1. {"ok", "occ"} \subseteq DOMAIN header /\ Label \in DOMAIN header.occ
    BY <1>1, <1>3, <1>8, OffersAssumption DEF Label
  <2>2. Merge(header, Label, value).ok = header.ok
    BY <2>1 DEF Merge
  <2>3. \A l \in Labels(header) : l \in DOMAIN header.occ
    BY DEF Labels
  <2> QED
    BY <2>1, <2>2, <2>3, MergeKeeps
<1>9. Label \notin Labels(ready.inputs) \union Labels(ready.sigs)
  BY <1>2 DEF CanSign
<1>10. ReadsAs(ready.req, there.req) /\ (~BareQuery(ready.req) => RequestTarget(there.req) = RequestTarget(ready.req))
  <2> DEFINE r == ready.req
  <2>1. RequestFields \subseteq DOMAIN r /\ r.uri = <<>>
    BY <1>3 DEF IsRequest, RequestFields
  <2>2. there.req = Inbound(r, r.urlScheme = "https")
    BY <1>7
  <2> HIDE DEF r, there
  <2>3. ReadsAs(r, there.req) /\ (~BareQuery(r) => RequestTarget(there.req) = RequestTarget(r))
    BY <2>1, <2>2, InboundReads
  <2> QED
    BY <2>3 DEF r
<1> HIDE DEF there, c
<1>11. c.name = "signature-input" => MemberCarries(ready.inputs, there.inputs, c.key)
  BY <1>5, <1>7, <1>8, <1>9 DEF MemberCarries
<1>12. c.name = "signature" => MemberCarries(ready.sigs, there.sigs, c.key)
  BY <1>5, <1>7, <1>8, <1>9 DEF MemberCarries
<1>13. c.name = "@request-target" => RequestTarget(there.req) = RequestTarget(ready.req)
  BY <1>5, <1>6, <1>10 DEF LineReads
<1>14. Carries(ready, there, c)
  BY <1>7, <1>10, <1>11, <1>12, <1>13 DEF Carries, FieldCarries
<1> QED
  BY <1>14 DEF ready, there, c

\* A verifier's target that agrees with the one signed for, where covered.
Agrees(m, u) ==
    LET t == Target(m.msg.req, "", NoHost)
    IN  u.scheme = t.scheme /\ (u = t \/ ~TargetCovered)

\* The label signed under arrives, whatever the verifier's target.
LEMMA LabelArrives ==
    ASSUME Core, NEW m \in sent, NEW u
    PROVE  Label \in DOMAIN ParseSignatures(AtVerifier(m), u, Types)
<1>1. asked[m.call] \in Offers
  BY SentMessage DEF Core, Called
<1>2. PICK input : m.msg.inputs = Merge(asked[m.call].msg.inputs, Label, input) /\ IsRequest(m.msg)
  BY SentMessage
<1>3. AtVerifier(m).inputs = m.msg.inputs
  BY <1>2 DEF AtVerifier, IsRequest
<1>4. Label \in Labels(m.msg.inputs)
  BY <1>1, <1>2, LabelHasPlace, MergeKeeps
<1> QED
  BY <1>3, <1>4 DEF ParseSignatures

\* A verifier whose target agrees reads what was signed, and the signature
\* is one of the Signer's key on it.
LEMMA ReadBack ==
    ASSUME Core, MembersOnly, NEW m \in sent, m.at \in Int, LineReads(m), NEW u, Agrees(m, u)
    PROVE  LET told == ParseSignatures(AtVerifier(m), u, Types)
               s == told[Label]
           IN  /\ Label \in DOMAIN told /\ s.ok /\ KeyVerify(Key, s.base, s.sig)
               /\ s.items = Covered(Components(m.body))
               /\ \E nonce \in Nonces \union {Absent} : s.params = Filled(m.body, m.at, nonce).params
<1> DEFINE o == asked[m.call]
           there == AtVerifier(m)
           s == ParseSignatures(there, u, Types)[Label]
<1>1. o \in Offers /\ profile \in Profiles
  BY SentMessage DEF Core, Called
<1>2. PICK h, input :
          LET ready == Prepared(h)
              base == SignatureBase(ready.msg, Target(ready.msg.req, "", NoHost), Types, input)
          IN  /\ Writes(m, h, input)
              /\ IsRequest(m.msg) /\ m.msg.req = h.msg.req /\ ready.msg.req = h.msg.req
              /\ m.body = ready.body
              /\ m.msg.inputs = Merge(o.msg.inputs, Label, input)
              /\ m.msg.sigs = Merge(o.msg.sigs, Label, KeySign(Key, base))
  BY SentMessage
<1> DEFINE ready == Prepared(h).msg
           t == Target(ready.req, "", NoHost)
           base == SignatureBase(ready, t, Types, input)
           sig == KeySign(Key, base)
<1>3. PICK nonce \in Nonces \union {Absent} : input = Filled(m.body, m.at, nonce)
  BY <1>2 DEF Writes
<1>4. CanSign(ready, Types, input, Label)
  BY <1>2 DEF Writes
<1>5. u.scheme = t.scheme /\ (u = t \/ ~TargetCovered)
  BY <1>2 DEF Agrees
<1>6. there.inputs = m.msg.inputs /\ there.sigs = m.msg.sigs
  BY <1>2 DEF AtVerifier, IsRequest
<1>7. input.items = Covered(Components(m.body))
  BY <1>3 DEF Filled
<1>8. /\ m.msg.inputs = Merge(o.msg.inputs, Label, input) /\ m.msg.sigs = Merge(o.msg.sigs, Label, sig)
  BY <1>2
<1> HIDE DEF sig, there, t, ready, s
<1>9. /\ Label \in Labels(there.inputs) /\ Get(there.inputs, Label) = input
      /\ Label \in Labels(there.sigs) /\ Get(there.sigs, Label) = sig
  <2>1. ASSUME NEW header \in {o.msg.inputs, o.msg.sigs}, NEW value
        PROVE  Label \in Labels(Merge(header, Label, value)) /\ Get(Merge(header, Label, value), Label) = value
    <3>1. Label \in DOMAIN header.occ /\ "occ" \in DOMAIN header
      BY <1>1, LabelHasPlace
    <3> QED
      BY <3>1, MergeKeeps
  <2> QED
    BY <1>6, <1>8, <2>1
<1>10. /\ HasBase(there, Types, input.items)
       /\ SignatureBase(there, u, Types, input) = base
  <2>1. HasBase(ready, Types, input.items)
    BY <1>4 DEF CanSign
  <2>2. \A i \in DOMAIN input.items : Carries(ready, there, input.items[i].c)
    BY <1>2, ItemsCarry DEF ready, there
  <2>3. ASSUME NEW i \in DOMAIN input.items
        PROVE  TargetCarries(t, u, input.items[i].c)
    <3> DEFINE c == input.items[i].c
    <3>1. (\E j \in DOMAIN Listed : c = Listed[j]) \/ c = Plain("content-digest")
      <4>1. PICK items : items = Covered(Components(m.body))
        OBVIOUS
      <4>2. \A k \in DOMAIN items : (\E j \in DOMAIN Listed : items[k].c = Listed[j])
                                      \/ items[k].c = Plain("content-digest")
        BY <1>1, <4>1, ItemsSound
      <4> QED
        BY <1>7, <4>1, <4>2
    <3>2. Plain("content-digest").name = "content-digest"
      BY PlainSound
    <3> HIDE DEF c
    <3>3. c.name \in {"@authority", "@target-uri"} => u = t
      BY <1>5, <3>1, <3>2 DEF TargetCovered
    <3>4. TargetCarries(t, u, c)
      BY <1>5, <3>3 DEF TargetCarries
    <3> QED
      BY <3>4 DEF c
  <2> HIDE DEF base
  <2>4. base = SignatureBase(ready, t, Types, input)
    BY DEF base
  <2> QED
    BY <2>1, <2>2, <2>3, <2>4, BaseCarries
<1>11. \A p \in DOMAIN input.params : input.params[p] # IllTyped
  <2>1. profile.ttl \in Int
    BY <1>1, ProfilesValid
  <2>2. Created(m.at) \in Int /\ Expires(m.at, profile.ttl) \in Int \union {Absent}
    <3>1. \A a \in Int : a \div Second \in Int
      BY SecondAssumption
    <3>2. m.at \in Int /\ m.at + profile.ttl \in Int
      BY <1>1, <2>1
    <3> QED
      BY <3>1, <3>2 DEF Created, Expires
  <2>3. Given(profile.keyid) # IllTyped /\ Given(profile.tag) # IllTyped
    BY <1>1, ParametersAssumption DEF Given
  <2>4. /\ Created(m.at) # IllTyped /\ Expires(m.at, profile.ttl) # IllTyped /\ nonce # IllTyped
        /\ Absent # IllTyped /\ AlgorithmOf[Key] # IllTyped
    BY <2>2, ParametersAssumption
  <2>5. input.params = [created |-> Created(m.at), expires |-> Expires(m.at, profile.ttl),
                        nonce |-> nonce,
                        alg |-> IF profile.includeAlg THEN AlgorithmOf[Key] ELSE Absent,
                        keyid |-> Given(profile.keyid), tag |-> Given(profile.tag)]
    BY <1>3 DEF Filled
  <2> QED
    BY <2>3, <2>4, <2>5
<1>12. \A i \in DOMAIN input.items : ParsesAsComponent(input.items[i])
  BY <1>1, <1>7, ItemsSound DEF ParsesAsComponent
<1>13. input # Malformed /\ sig # Malformed
  <2>1. "items" \in DOMAIN input /\ "key" \in DOMAIN sig
    BY <1>3 DEF Filled, KeySign, sig
  <2>2. "items" \notin DOMAIN Malformed /\ "key" \notin DOMAIN Malformed
    BY DEF Malformed
  <2> QED
    BY <2>1, <2>2
<1>14. WellFormed(there, Types, Label)
  BY <1>9, <1>10, <1>11, <1>12, <1>13 DEF WellFormed
<1>15. Label \in DOMAIN ParseSignatures(there, u, Types)
  BY <1>9 DEF ParseSignatures
<1>16. /\ s.ok /\ s.items = input.items /\ s.params = input.params /\ s.base = base /\ s.sig = sig
  <2>1. s = Parsed(there, u, Types, Label)
    BY <1>15 DEF s, ParseSignatures
  <2> HIDE DEF base
  <2> QED
    BY <1>9, <1>10, <1>14, <2>1 DEF Parsed
<1> HIDE DEF s, base
<1> QED
  <2>1. input = Filled(m.body, m.at, nonce)
    BY <1>3
  <2>2. s.params = Filled(m.body, m.at, nonce).params
    BY <1>16, <2>1
  <2>3. KeyVerify(Key, s.base, s.sig)
    BY <1>16 DEF KeyVerify, sig
  <2>4. s.ok /\ s.items = Covered(Components(m.body))
    BY <1>7, <1>16
  <2> HIDE DEF s
  <2>5. nonce \in Nonces \union {Absent}
    OBVIOUS
  <2>6. Label \in DOMAIN ParseSignatures(AtVerifier(m), u, Types)
    BY <1>15 DEF there
  <2>7. s = ParseSignatures(AtVerifier(m), u, Types)[Label]
    BY DEF s, there
  <2> QED
    BY <2>2, <2>3, <2>4, <2>5, <2>6, <2>7

\* It accepts at once.
LEMMA AcceptedAtOnce ==
    ASSUME Inv, MembersOnly, LifetimesLast, NEW m \in sent, LineReads(m), NEW u, Agrees(m, u)
    PROVE  LET told == ParseSignatures(AtVerifier(m), u, Types)
           IN  Label \in DOMAIN told /\ Accepts(told[Label], Key, AtOnce(Wanted(m.body)), m.at)
<1> DEFINE s == ParseSignatures(AtVerifier(m), u, Types)[Label]
<1>1. profile \in Profiles /\ m.at \in Nat
  <2>1. profile \in Profiles /\ now \in 1..MaxTime /\ m.at \in 1..now
    BY DEF Inv, Core, Called, Timed
  <2> QED
    BY <2>1, BoundsAssumption
<1>2. /\ Label \in DOMAIN ParseSignatures(AtVerifier(m), u, Types) /\ s.ok /\ KeyVerify(Key, s.base, s.sig)
      /\ s.items = Covered(Components(m.body))
      /\ \E nonce \in Nonces \union {Absent} : s.params = Filled(m.body, m.at, nonce).params
  BY <1>1, ReadBack DEF Inv
<1> HIDE DEF s
<1>3. /\ s.params.created = Created(m.at) /\ s.params.expires = Expires(m.at, profile.ttl)
      /\ s.params.alg \in {Absent, AlgorithmOf[Key]}
  <2>1. PICK nonce : s.params = Filled(m.body, m.at, nonce).params
    BY <1>2
  <2>2. Filled(m.body, m.at, nonce).params =
            [created |-> Created(m.at), expires |-> Expires(m.at, profile.ttl), nonce |-> nonce,
             alg |-> IF profile.includeAlg THEN AlgorithmOf[Key] ELSE Absent,
             keyid |-> Given(profile.keyid), tag |-> Given(profile.tag)]
    BY DEF Filled
  <2> QED
    BY <2>1, <2>2
<1>4. profile.ttl \in Nat /\ (profile.ttl = 0 \/ profile.ttl + 1 >= Second)
  <2>1. profile.ttl \in Int /\ profile.ttl >= 0
    BY <1>1, ProfilesValid DEF ValidProfile
  <2> QED
    BY <1>1, <2>1 DEF LifetimesLast
<1>5. /\ ~Expired(s, AtOnce(Wanted(m.body)), m.at) /\ ~FromFuture(s, AtOnce(Wanted(m.body)), m.at)
      /\ ~TooOld(s, AtOnce(Wanted(m.body)), m.at)
  BY <1>1, <1>3, <1>4, GoodAtOnce
<1>6. Covers(s, AtOnce(Wanted(m.body)).required)
  <2>1. \A c \in Wanted(m.body) : \E i \in DOMAIN s.items : s.items[i].c = c
    BY <1>1, <1>2, CoversWanted
  <2> QED
    BY <2>1 DEF Covers, AtOnce
<1>7. Accepts(s, Key, AtOnce(Wanted(m.body)), m.at)
  BY <1>2, <1>3, <1>5, <1>6 DEF Accepts
<1> QED
  BY <1>2, <1>7 DEF s

\* Every hop goes out signed for a verifier to accept at once, told of the
\* URL or asking its connection, over what the profile lists and over a
\* digest of the very body.
THEOREM SentAreSigned == ASSUME MembersOnly, LifetimesLast PROVE Spec => []SentIsSigned
<1>1. ASSUME Inv, NEW m \in sent
      PROVE  LET req == m.msg.req
                 told == ParseSignatures(AtVerifier(m), Target(AtVerifier(m).req, req.urlScheme, req.urlHost), Types)
                 direct == ParseSignatures(AtVerifier(m), Target(AtVerifier(m).req, "", NoHost), Types)
             IN  /\ Label \in DOMAIN told /\ (LineReads(m) => Accepts(told[Label], Key, AtOnce(Wanted(m.body)), m.at))
                 /\ LineReads(m) /\ (req.host = NoHost \/ ~TargetCovered) =>
                       Accepts(direct[Label], Key, AtOnce(Wanted(m.body)), m.at)
                 /\ Plain("content-digest") \in Wanted(m.body) =>
                       CD!Verify(m.msg.fields["content-digest"], m.body, {DigestAlgorithm})
  <2> DEFINE req == m.msg.req
             there == AtVerifier(m).req
             t == Target(req, "", NoHost)
             u == Target(there, req.urlScheme, req.urlHost)
             v == Target(there, "", NoHost)
  <2>1. profile \in Profiles /\ IsRequest(m.msg)
    BY <1>1, SentMessage DEF Inv, Core, Called, Timed
  <2>2. there = Inbound(req, req.urlScheme = "https")
    BY <2>1 DEF AtVerifier, IsRequest
  <2>3. /\ req.urlScheme \in {"http", "https"} /\ req.urlHost # NoHost
        /\ ToLower(req.urlScheme) = req.urlScheme
    BY <2>1, LowerCaseAssumption DEF IsRequest, Schemes, ToLower
  <2>4. /\ there.urlScheme = "" /\ there.urlHost = NoHost /\ there.tls = (req.urlScheme = "https")
        /\ there.host = IF req.host = NoHost THEN req.urlHost ELSE req.host
    BY <2>1, <2>2 DEF Inbound, IsRequest
  <2> HIDE DEF there, req
  <2>5. t = [scheme |-> req.urlScheme, authority |-> NormalAuthority(req.urlHost, req.urlScheme)]
    BY <2>3 DEF Target
  <2>6. u = t
    BY <2>3, <2>5 DEF Target
  <2>7. v = [scheme |-> req.urlScheme, authority |-> NormalAuthority(there.host, req.urlScheme)]
    <3>1. (IF there.tls THEN "https" ELSE "http") = req.urlScheme
      BY <2>3, <2>4
    <3> QED
      BY <2>3, <2>4, <3>1 DEF Target
  <2>8. v.scheme = t.scheme /\ (req.host = NoHost => v = t)
    <3> HIDE DEF t, v
    <3>1. v.scheme = req.urlScheme /\ t.scheme = req.urlScheme
      BY <2>5, <2>7
    <3>2. req.host = NoHost => there.host = req.urlHost
      BY <2>4
    <3> QED
      BY <2>5, <2>7, <3>1, <3>2
  <2> HIDE DEF t, u, v
  <2>9. Plain("content-digest") \in Wanted(m.body) =>
           CD!Verify(m.msg.fields["content-digest"], m.body, {DigestAlgorithm})
    <3> SUFFICES ASSUME Plain("content-digest") \in Wanted(m.body)
                 PROVE  CD!Verify(m.msg.fields["content-digest"], m.body, {DigestAlgorithm})
      OBVIOUS
    <3>1. Digested(m.body)
      <4>1. Plain("content-digest").name = "content-digest"
        BY PlainSound
      <4>2. \A c \in ToSet(Listed) : c.name # "content-digest"
        BY <2>1, ListedSound DEF ToSet
      <4> QED
        BY <4>1, <4>2 DEF Wanted, Digested, Listed
    <3>2. PICK h, input : Writes(m, h, input)
      BY <1>1 DEF Inv, Core, Kept, Wrote
    <3>3. IsRequest(h.msg) /\ m.body = Prepared(h).body
          /\ \E sig : m.msg = AddSignature(Prepared(h).msg, Label, input, sig)
      BY <3>2 DEF Writes, Followed
    <3>4. m.msg.fields = Prepared(h).msg.fields
      BY <3>3, PreparedSound DEF AddSignature, IsRequest
    <3>5. m.msg.fields["content-digest"] = CD!Value(DigestAlgorithm, m.body)
      BY <3>1, <3>3, <3>4, PreparedSound
    <3>6. DigestAlgorithm \in CD!Supported
      BY <2>1, ProfilesValid DEF ValidProfile, DigestAlgorithm, CD!Supported
    <3> QED
      BY <3>5, <3>6, DigestVerifies
  <2>10. Label \in DOMAIN ParseSignatures(AtVerifier(m), u, Types)
         /\ (LineReads(m) =>
               Accepts(ParseSignatures(AtVerifier(m), u, Types)[Label], Key, AtOnce(Wanted(m.body)), m.at))
    BY <1>1, <2>6, AcceptedAtOnce, LabelArrives DEF t, req, Agrees, Inv
  <2>11. LineReads(m) /\ (req.host = NoHost \/ ~TargetCovered) =>
           Accepts(ParseSignatures(AtVerifier(m), v, Types)[Label], Key, AtOnce(Wanted(m.body)), m.at)
    BY <1>1, <2>8, AcceptedAtOnce DEF t, req, Agrees
  <2> QED
    BY <2>9, <2>10, <2>11 DEF req, there, u, v
<1>2. Inv => SentIsSigned
  <2> SUFFICES ASSUME Inv
               PROVE  SentIsSigned
    OBVIOUS
  <2>1. \A m \in sent : AtVerifier(m) = [m.msg EXCEPT !.req = Inbound(@, @.urlScheme = "https")]
    BY DEF AtVerifier
  <2> QED
    BY <1>1, <2>1 DEF SentIsSigned, Wanted, Read, LineReads
<1> QED
  BY <1>2, Invariance, PTL

=================================================================================
