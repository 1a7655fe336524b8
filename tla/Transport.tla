------------------------------ MODULE Transport ------------------------------
(***************************************************************************)
(* Package client: a Transport under an http.Client.  The application asks *)
(* for a request; RoundTrip prepares a clone of it, reading the body, and  *)
(* signs the clone in a later step, at a later time; the http.Client       *)
(* follows redirects, entering RoundTrip again for each hop.  Calls share  *)
(* nothing but the profile.                                                *)
(***************************************************************************)
EXTENDS SigConfig

CONSTANTS
    Calls,        \* the application's requests
    Offers,       \* what it may ask for: a message, its body, whether reading
                  \* the body fails at its end, and what GetBody gives again
    Profiles,     \* sigconfig.SigningProfiles
    Key,          \* the Signer's key
    Locations,    \* where responses may redirect to: no scheme if the Location
                  \* header has a relative reference, no host if to the same one
    NoRequest,    \* before the application asks
    MaxHops,      \* bound on redirects
    MaxTime       \* bound on the clock

CD == INSTANCE ContentDigest

\* What NewTransport checks; ParseComponent reads a component whole.
ReadWhole(c) == c = [name |-> c.name, sf |-> c.sf, key |-> c.key, bs |-> c.bs, param |-> c.param]
ASSUME ProfilesValid ==
    \A p \in Profiles :
        LET cs == p.coverage.components
        IN  /\ ValidProfile(p) /\ {p.maxBody, p.ttl} \subseteq Int
            /\ ListOf(cs) /\ \A i \in DOMAIN cs : ReadWhole(cs[i])
ASSUME BoundsAssumption == MaxTime \in Nat \ {0} /\ MaxHops \in Nat

\* What may be asked for, and redirected to: a request with a host, over
\* http or https, with no RequestURI, whose body is read again as it was.
IsHost(host) == host = [name |-> host.name, port |-> host.port]
Schemes == {"http", "https"}
IsRequest(msg) ==
    /\ {"req", "fields", "inputs", "sigs"} \subseteq DOMAIN msg
    /\ {"method", "urlScheme", "urlHost", "host", "tls", "path", "query",
         "forceQuery", "uri"} \subseteq DOMAIN msg.req
    /\ msg.req.urlScheme \in Schemes /\ IsHost(msg.req.urlHost) /\ msg.req.urlHost # NoHost
    /\ msg.req.forceQuery \in BOOLEAN /\ msg.req.uri = <<>>
    /\ "content-digest" \in DOMAIN msg.fields
ASSUME OffersAssumption ==
    /\ NoRequest \notin Offers
    /\ \A o \in Offers :
          /\ IsRequest(o.msg) /\ ListOf(o.body) /\ o.again \in {Absent, o.body}
          /\ \A header \in {o.msg.inputs, o.msg.sigs}, p \in Profiles :
                /\ {"ok", "occ"} \subseteq DOMAIN header
                /\ (IF p.label = "" THEN "sig1" ELSE p.label) \in DOMAIN header.occ
    /\ \A loc \in Locations :
          /\ loc.scheme \in Schemes \union {""} /\ IsHost(loc.host) /\ loc.forceQuery \in BOOLEAN
          /\ loc.scheme # "" => loc.host # NoHost

\* The nonces, one per hop of a call.
Nonces == Calls \X (0..MaxHops)
\* What Sign puts into a signature itself can be printed and has its type;
\* text in a profile has its type.
ASSUME ParametersAssumption ==
    /\ \A v \in Unprintable \union {IllTyped} :
          v \notin Int /\ v # "sig1" /\ v # Absent /\ v # AlgorithmOf[Key] /\ v \notin Nonces
    /\ \A p \in Profiles : IllTyped \notin {p.keyid, p.tag}
\* Clocks run after the zero time, and a second is a duration.
ASSUME TimesAssumption ==
    ZeroTime \in Int /\ ZeroTime < 0 /\ Absent \notin Int /\ Second <= MaxInt

VARIABLES
    now,       \* the client's clock
    profile,   \* the Transport's, fixed
    pc,        \* "idle", "ready", "signing", "sent", "failed" or "done"
    asked,     \* what the application asked for
    hop,       \* the request RoundTrip is called with
    clone,     \* the message RoundTrip prepares, and its body
    hops,      \* how many redirects were followed
    sent       \* history: every message given to the network

call == <<pc, asked, hop, clone, hops>>
vars == <<now, profile, call, sent>>

NoCalls ==
    /\ profile \in Profiles
    /\ pc = [c \in Calls |-> "idle"]
    /\ asked = [c \in Calls |-> NoRequest]
    /\ hop = [c \in Calls |-> NoRequest]
    /\ clone = [c \in Calls |-> NoRequest]
    /\ hops = [c \in Calls |-> 0]
    /\ sent = {}
Init == now = 1 /\ NoCalls

-----------------------------------------------------------------------------
(* What NewTransport and RoundTrip read from the profile *)

Types == profile.coverage.types
Mode == DigestMode(profile.coverage)
Label == IF profile.label = "" THEN "sig1" ELSE profile.label
DigestAlgorithm == IF profile.digest = "" THEN "sha-256" ELSE profile.digest

\* Mutant: the default components are left to Sign.
ListedAsGiven == profile.coverage.components
Listed ==
    IF profile.coverage.components = <<>> THEN DefaultComponents
    ELSE profile.coverage.components

Lowered(host) == [host EXCEPT !.name = ToLower(@)]
\* Mutant: the Host header stands for the destination.
MaySignForHost(h) ==
    profile.authorities = {} \/
        Lowered(IF h.msg.req.host # NoHost THEN h.msg.req.host ELSE h.msg.req.urlHost)
            \in {Lowered(a) : a \in profile.authorities}
MaySignFor(h) ==
    profile.authorities = {} \/
        Lowered(h.msg.req.urlHost) \in {Lowered(a) : a \in profile.authorities}

-----------------------------------------------------------------------------
(* Bodies *)

Limit == BodyLimit(profile)

\* Mutant: the cap itself is read, not a byte more.
ReadBodyShort(h) == IF Limit < 0 THEN h.body ELSE Limited(h.body, Limit)
ReadBody(h) == IF Limit < 0 THEN h.body ELSE Limited(h.body, Plus(Limit, 1))
ReadFails(h) == h.fails /\ (Limit < 0 \/ Plus(Limit, 1) > Len(h.body))
TooLarge(h) == Limit >= 0 /\ Len(ReadBody(h)) > Limit

Digested(body) == Mode # "never" /\ (body # <<>> \/ Mode = "always")

\* The clone with the body as read, and its digest; a digest the caller set
\* stays when there is nothing to digest.
SetBody(msg, body) == [msg |-> msg, body |-> body]
Prepared(h) ==
    LET body == ReadBody(h)
    IN  CASE Mode = "never" -> SetBody(h.msg, h.body)
          [] Digested(body) ->
               SetBody([h.msg EXCEPT !.fields =
                            [@ EXCEPT !["content-digest"] = CD!Value(DigestAlgorithm, body)]], body)
          [] OTHER -> SetBody(h.msg, body)

Components(body) ==
    Listed \o (IF Digested(body) THEN <<Plain("content-digest")>> ELSE <<>>)

\* A parameter the profile leaves empty is left out.
Given(text) == IF text = "" THEN Absent ELSE text
\* One that no other hop of any call has.
NewNonce(c) == <<c, hops[c]>>
\* SignOptions, as Sign turns them into a member of Signature-Input at a time.
Input(c, body, time) ==
    [items |-> Covered(Components(body)),
     params |-> [created |-> Created(time),
                 expires |-> Expires(time, profile.ttl),
                 nonce |-> IF profile.nonce THEN NewNonce(c) ELSE Absent,
                 alg |-> IF profile.includeAlg THEN AlgorithmOf[Key] ELSE Absent,
                 keyid |-> Given(profile.keyid),
                 tag |-> Given(profile.tag)]]

-----------------------------------------------------------------------------
(* Actions *)

\* The application calls http.Client.Do.
Ask(c, offer) ==
    /\ pc[c] = "idle"
    /\ pc' = [pc EXCEPT ![c] = "ready"]
    /\ asked' = [asked EXCEPT ![c] = offer]
    /\ hop' = [hop EXCEPT ![c] = offer]
    /\ UNCHANGED <<now, profile, clone, hops, sent>>

\* RoundTrip before it signs: the authorities, the clone, the body.
Refuse(c) ==
    /\ pc[c] = "ready"
    /\ \/ ~MaySignFor(hop[c])
       \/ Mode # "never" /\ (ReadFails(hop[c]) \/ TooLarge(hop[c]))
    /\ pc' = [pc EXCEPT ![c] = "failed"]
    /\ UNCHANGED <<now, profile, asked, hop, clone, hops, sent>>
Prepare(c) ==
    /\ pc[c] = "ready"
    /\ MaySignFor(hop[c])
    /\ Mode = "never" \/ ~(ReadFails(hop[c]) \/ TooLarge(hop[c]))
    /\ pc' = [pc EXCEPT ![c] = "signing"]
    /\ clone' = [clone EXCEPT ![c] = Prepared(hop[c])]
    /\ UNCHANGED <<now, profile, asked, hop, hops, sent>>

\* What Sign makes of the clone, if it can, and what then goes out.
Signable(c) == CanSign(clone[c].msg, Types, Input(c, clone[c].body, now), Label)
Signed(c) ==
    LET m == clone[c].msg
        input == Input(c, clone[c].body, now)
        base == SignatureBase(m, Target(m.req, "", NoHost), Types, input)
    IN  AddSignature(m, Label, input, KeySign(Key, base))
Outgoing(c) ==
    [call |-> c, at |-> now, msg |-> Signed(c), body |-> clone[c].body,
     fails |-> Mode = "never" /\ hop[c].fails]

\* Mutant: the caller's request is signed, not a clone of it.
SignInPlace(c) ==
    /\ pc[c] = "signing"
    /\ IF Signable(c)
       THEN /\ pc' = [pc EXCEPT ![c] = "sent"]
            /\ hop' = [hop EXCEPT ![c].msg = Signed(c)]
            /\ sent' = sent \union {Outgoing(c)}
       ELSE pc' = [pc EXCEPT ![c] = "failed"] /\ UNCHANGED <<hop, sent>>
    /\ UNCHANGED <<now, profile, asked, clone, hops>>
\* Mutant: an error of Sign is dropped.
SignAnyway(c) ==
    /\ pc[c] = "signing"
    /\ pc' = [pc EXCEPT ![c] = "sent"]
    /\ sent' = IF Signable(c) THEN sent \union {Outgoing(c)} ELSE sent
    /\ UNCHANGED <<now, profile, asked, hop, clone, hops>>

\* The rest of RoundTrip: Sign, and the base transport.
Sign(c) ==
    /\ pc[c] = "signing"
    /\ IF Signable(c)
       THEN pc' = [pc EXCEPT ![c] = "sent"] /\ sent' = sent \union {Outgoing(c)}
       ELSE pc' = [pc EXCEPT ![c] = "failed"] /\ UNCHANGED sent
    /\ UNCHANGED <<now, profile, asked, hop, clone, hops>>

\* A response, or a broken connection, ends the call ...
Return(c) ==
    /\ pc[c] = "sent"
    /\ pc' = [pc EXCEPT ![c] = "done"]
    /\ UNCHANGED <<now, profile, asked, hop, clone, hops, sent>>

\* ... or is a redirect, which the http.Client follows: with the caller's
\* header fields, to the new URL, and keeping a Host other than the URL's
\* if relative.  See Other asks without a body, and with GET but for a HEAD;
\* other redirects need the body again.
Redirected(h, keep, loc) ==
    LET req == h.msg.req
    IN  [msg |-> [h.msg EXCEPT !.req =
                    [req EXCEPT !.method = IF keep \/ @ = "HEAD" THEN @ ELSE "GET",
                                !.urlScheme = IF loc.scheme = "" THEN @ ELSE loc.scheme,
                                !.urlHost = IF loc.host = NoHost THEN @ ELSE loc.host,
                                !.host = IF loc.scheme = "" /\ @ # req.urlHost THEN @ ELSE NoHost,
                                !.path = loc.path,
                                !.query = loc.query,
                                !.forceQuery = loc.forceQuery]],
         body |-> IF keep THEN h.again ELSE <<>>,
         again |-> IF keep THEN h.again ELSE <<>>,
         fails |-> keep /\ h.fails]
Redirect(c, keep, loc) ==
    /\ pc[c] = "sent" /\ hops[c] < MaxHops
    /\ keep => hop[c].again # Absent
    /\ pc' = [pc EXCEPT ![c] = "ready"]
    /\ hop' = [hop EXCEPT ![c] = Redirected(@, keep, loc)]
    /\ hops' = [hops EXCEPT ![c] = @ + 1]
    /\ UNCHANGED <<now, profile, asked, clone, sent>>

Tick ==
    /\ now < MaxTime
    /\ now' = now + 1
    /\ UNCHANGED <<profile, call, sent>>

RoundTrip(c) == Refuse(c) \/ Prepare(c) \/ Sign(c)
Next ==
    \/ \E c \in Calls, o \in Offers : Ask(c, o)
    \/ \E c \in Calls : RoundTrip(c) \/ Return(c)
    \/ \E c \in Calls, keep \in BOOLEAN, loc \in Locations : Redirect(c, keep, loc)
    \/ Tick

Spec == Init /\ [][Next]_vars
-----------------------------------------------------------------------------
(* Properties *)

\* The control state of a call, what each of its points has computed, and
\* what went out, by whatever clock ...
CallsTyped ==
    /\ profile \in Profiles
    /\ hops \in [Calls -> 0..MaxHops]
    /\ \A c \in Calls :
        /\ pc[c] \in {"idle", "ready", "signing", "sent", "failed", "done"}
        /\ pc[c] = "idle" <=> asked[c] = NoRequest
        /\ pc[c] # "idle" => asked[c] \in Offers /\ hop[c].body \in {asked[c].body, <<>>}
        /\ pc[c] \in {"signing", "sent"} =>
              DOMAIN clone[c].msg.fields = DOMAIN asked[c].msg.fields
        /\ pc[c] \in {"sent", "done"} => \E m \in sent : m.call = c
    /\ \A m \in sent : m.call \in Calls /\ IsRequest(m.msg)
\* ... and by the client's.
TypeOK == CallsTyped /\ now \in 1..MaxTime /\ \A m \in sent : m.at \in 1..now

\* What goes out is what the application asked for, over however many hops:
\* the whole body or, after a See Other, none, never a part of it; the
\* caller's fields and the signatures it brought along; nothing else
\* (RoundTrip: "The caller's request is not modified"; readBody: "a body over
\* the cap is an error, not a truncation").
SentIsCallers ==
    \A m \in sent :
        LET own == asked[m.call].msg
            counts(header, l) == IF l \in Labels(header) THEN Get(header, l) ELSE Absent
        IN  /\ m.body \in {asked[m.call].body, <<>>}
            /\ m.body = <<>> => asked[m.call].body = <<>> \/ m.msg.req.method \in {"GET", "HEAD"}
            /\ \A n \in DOMAIN own.fields :
                  m.msg.fields[n] = own.fields[n] \/ (n = "content-digest" /\ Digested(m.body))
            /\ \A l \in DOMAIN own.inputs.occ \ {Label} :
                  /\ counts(m.msg.inputs, l) = counts(own.inputs, l)
                  /\ counts(m.msg.sigs, l) = counts(own.sigs, l)

\* A verifier's reading of message m: told the scheme and authority of the
\* URL, or asking the connection.
Read(m, scheme, authority) ==
    LET inbound == [m.msg EXCEPT !.req = Inbound(@, @.urlScheme = "https")]
    IN  ParseSignatures(inbound, Target(inbound.req, scheme, authority), Types)
AtOnce(required) == [required |-> required, maxAge |-> Second, tolerance |-> 0]
TargetCovered == \E i \in DOMAIN Listed : Listed[i].name \in {"@authority", "@target-uri"}
LineCovered == \E i \in DOMAIN Listed : Listed[i].name = "@request-target"

\* Every hop goes out with a signature that a verifier accepts at once, over
\* every component the profile lists, or the two defaults if it lists none,
\* and over a digest of the very body when there is one or the profile wants
\* one always (the package: "the body is bound to the signature").  A
\* verifier that asks its connection accepts it too, but for a covered
\* authority under a Host header of the caller's own.  A covered request
\* line with a bare "?" is beyond both: Sign reads it without.
SentIsSigned ==
    \A m \in sent :
        LET req == m.msg.req
            wanted == ToSet(IF profile.coverage.components = <<>> THEN DefaultComponents
                            ELSE profile.coverage.components)
                      \union (IF Mode = "always" \/ (Mode # "never" /\ m.body # <<>>)
                              THEN {Plain("content-digest")} ELSE {})
            told == Read(m, req.urlScheme, req.urlHost)
            direct == Read(m, "", NoHost)
            reads == ~(BareQuery(req) /\ LineCovered)
        IN  /\ Label \in DOMAIN told /\ (reads => Accepts(told[Label], Key, AtOnce(wanted), m.at))
            /\ reads /\ (req.host = NoHost \/ ~TargetCovered) =>
                  Accepts(direct[Label], Key, AtOnce(wanted), m.at)
            /\ Plain("content-digest") \in wanted =>
                  CD!Verify(m.msg.fields["content-digest"], m.body, {DigestAlgorithm})

\* The authorities bound what a redirecting server can have signed: nothing
\* leaves for a host that is not listed, and no verifier at an authority
\* that is not listed accepts a signature that covers its destination
\* (RoundTrip: "The profile's Authorities list is what keeps a server from
\* redirecting the client into signing for a host of the server's choosing").
SignedForListed ==
    profile.authorities # {} => \A m \in sent :
        LET req == m.msg.req
            listed == {Lowered(a) : a \in profile.authorities}
        IN  /\ Lowered(req.urlHost) \in listed
            /\ \A loc \in Locations :
                 (TargetCovered /\ loc.host # NoHost
                  /\ \A a \in listed : NormalAuthority(a, req.urlScheme)
                                         # NormalAuthority(loc.host, req.urlScheme))
                 => ~Accepts(Read(m, req.urlScheme, loc.host)[Label], Key, AtOnce({}), m.at)

\* A Transport that constructs fails later only for the shape of a request:
\* its destination, a body over the cap or unreadable, a covered field it
\* does not have, a label it already uses.  No hop fails for what an earlier
\* hop did, and none for the profile (NewTransport: "a Transport that
\* constructs will not fail later on account of its configuration").
FailsOnlyByShape ==
    \A c \in Calls : pc[c] = "failed" =>
        LET h == hop[c]
            own == asked[c].msg
            msg == [h.msg EXCEPT !.fields = own.fields]
        IN  \/ profile.authorities # {} /\
                Lowered(h.msg.req.urlHost) \notin {Lowered(a) : a \in profile.authorities}
            \/ Mode # "never" /\ (h.fails \/ (Limit >= 0 /\ Len(h.body) > Limit))
            \/ ~HasBase(msg, Types, Covered(Listed))
            \/ ~own.inputs.ok \/ ~own.sigs.ok
            \/ Label \in Labels(own.inputs) \union Labels(own.sigs)
==============================================================================
