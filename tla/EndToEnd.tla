------------------------------ MODULE EndToEnd ------------------------------
(***************************************************************************)
(* A Transport and a Middleware with a network between them.  The network  *)
(* loses, delays, reorders and repeats messages: whatever was sent may     *)
(* arrive at any later time, any number of times, or never.  On the way    *)
(* its method, destination, body, digest or signatures may change.  The    *)
(* client's clock is off the server's by a constant; the key directory     *)
(* rotates.                                                                *)
(***************************************************************************)
EXTENDS SigConfig

CONSTANTS
    Calls, Offers, Profiles, Key, Locations, NoRequest, MaxHops,   \* the client's
    Requests, Policy, KeyIDs, Tags, Owner, NoEntry, NoArrival,     \* the server's
    Scheme, Host,   \* where clients reach the server
    Skews,          \* how far the client's clock may be ahead
    OtherBodies,    \* bodies nobody sent
    MaxTime         \* bound on the server's clock

\* The tolerance is for the clocks.
ASSUME SkewsTolerated == Skews \subseteq -Policy.tolerance..Policy.tolerance

VARIABLES
    now,      \* the server's clock
    skew,     \* one of Skews, fixed
    profile, cpc, asked, hop, clone, hops, sent,                        \* the client's
    dir, pc, arrival, body, sigs, left, label, entry, status, standing, \* the server's
    owed      \* history: requests that ought to be served

Client == INSTANCE Transport WITH now <- now + skew, pc <- cpc
Server == INSTANCE Middleware WITH
    policy <- Policy, Policies <- {Policy}, Arrivals <- {}, Statements <- {}

\* What either side assumes of what it is configured with and asked for.
ASSUME ClientAssumption ==
    /\ Client!ProfilesValid /\ Client!BoundsAssumption /\ Client!OffersAssumption
    /\ Client!ParametersAssumption /\ Client!TimesAssumption
ASSUME ServerAssumption ==
    /\ Server!PoliciesValid /\ Server!MaxTimeAssumption /\ Server!ZeroTimeAssumption
    /\ NoEntry \notin Server!Entries /\ Key \in DOMAIN Owner
\* Signatures that an application brings along are of the right type, and
\* none is of a key the directory has.
ASSUME BroughtAssumption ==
    \A o \in Offers :
        /\ \A l \in Labels(o.msg.inputs) :
              Get(o.msg.inputs, l) = Malformed \/
                  LET params == Get(o.msg.inputs, l).params
                  IN  {"created", "expires"} \subseteq DOMAIN params
                      /\ {params.created, params.expires} \subseteq Int \union {Absent, IllTyped}
        /\ \A l \in Labels(o.msg.sigs) :
              Get(o.msg.sigs, l) = Malformed \/ Get(o.msg.sigs, l).key \notin DOMAIN Owner
ASSUME BodiesAssumption == \A bytes \in OtherBodies : ListOf(bytes)
\* Caps and windows leave room to count.
ASSUME RoomAssumption ==
    /\ \A config \in Profiles \union {Policy} : BodyLimit(config) < MaxInt
    /\ AgeLimit(Policy) + Policy.tolerance <= MaxInt
\* The policy bounds ages, and binds the method and the destination; the
\* profiles digest bodies.
ASSUME BindingAssumption ==
    LET names == {Policy.coverage.components[i] : i \in DOMAIN Policy.coverage.components}
    IN  /\ Policy.maxAge >= 0
        /\ Plain("@method") \in names
        /\ Plain("@target-uri") \in names \/ {Plain("@authority"), Plain("@path")} \subseteq names
        /\ \A p \in Profiles : p.coverage.mode # "never"
\* The server is told where clients reach it, or sees it ...
ASSUME ReachedAssumption ==
    /\ Policy.scheme \in {"", Scheme}
    /\ IF Policy.authority = NoHost THEN \A o \in Offers : o.msg.req.host = NoHost
       ELSE NormalAuthority(Policy.authority, Scheme) = NormalAuthority(Host, Scheme)
\* ... and asks for no more than what every profile gives.
ASSUME AgreementAssumption ==
    /\ Policy.algorithms # {} => AlgorithmOf[Key] \in Policy.algorithms
    /\ \A o \in Offers : o.msg.fields["content-digest"] = <<>>
    /\ \A p \in Profiles :
        LET cs == p.coverage.components
        IN  /\ p.coverage.types = Policy.coverage.types
            /\ ToSet(Policy.coverage.components)
                  \subseteq ToSet(IF cs = <<>> THEN DefaultComponents ELSE cs)
            /\ \A i \in DOMAIN cs : cs[i].name \in {"signature", "signature-input"} => cs[i].key # ""
            /\ Policy.coverage.mode = "always" => p.coverage.mode = "always"
            /\ (IF p.digest = "" THEN "sha-256" ELSE p.digest) \in AcceptedDigests(Policy)
            /\ Policy.tag \in {"", p.tag} /\ p.keyid \in KeyIDs /\ Absent \notin {p.tag, p.keyid}
            /\ BodyLimit(Policy) < 0 \/ BodyLimit(p) \in 0..BodyLimit(Policy)

client == <<profile, cpc, asked, hop, clone, hops, sent>>
server == <<dir, pc, arrival, body, sigs, left, label, entry, status, standing>>
vars == <<now, skew, client, server, owed>>

Init ==
    /\ skew \in Skews
    /\ Client!NoCalls
    /\ Server!Init
    /\ owed = {}

-----------------------------------------------------------------------------
(* The network *)

\* A message as it arrives, if nothing happens to it.
Untouched(m) ==
    [msg |-> [m.msg EXCEPT !.req = Inbound(@, @.urlScheme = "https")],
     body |-> m.body, fails |-> m.fails]

\* The body is another, with or without a digest to match; the method or
\* the destination is another; the signatures are of another message.
Altered(m) ==
    LET a == Untouched(m)
        digest(d) == [a.msg EXCEPT !.fields["content-digest"] = d]
    IN  {[a EXCEPT !.body = b] : b \in OtherBodies}
        \union {[a EXCEPT !.body = b, !.msg = digest(Client!CD!Value("sha-256", b))] : b \in OtherBodies}
        \union {[a EXCEPT !.msg.req.method = method] : method \in {"GET", "POST"}}
        \union {[a EXCEPT !.msg.req.host = IF loc.host = NoHost THEN @ ELSE loc.host,
                          !.msg.req.path = Path(loc)] : loc \in Locations}
        \union {[a EXCEPT !.msg.inputs = n.msg.inputs, !.msg.sigs = n.msg.sigs] : n \in sent}

-----------------------------------------------------------------------------
(* What the two sides owe each other *)

\* When m was sent, by the server's clock; for how long it ought to be
\* good: its lifetime and the age bound, less what truncation to a second
\* takes off the former and the latter.
SentAt(m) == m.at - skew
Lifetimes == (IF profile.ttl = 0 THEN {} ELSE {profile.ttl})
             \union (IF AgeLimit(Policy) = 0 THEN {} ELSE {AgeLimit(Policy)})
Good(m, time) == \A lifetime \in Lifetimes : time <= SentAt(m) + lifetime - (Second - 1)

\* The server ought to serve arrival a: it is what was sent to it, in time,
\* the directory knows the key, and either side reads the request line alike
\* if it is covered.
Owed(a, d, time) ==
    /\ d[profile.keyid] = [key |-> Key, identity |-> Owner[Key]]
    /\ \E m \in sent :
        /\ a = Untouched(m) /\ ~m.fails
        /\ m.msg.req.urlScheme = Scheme /\ m.msg.req.urlHost = Host
        /\ ~(BareQuery(m.msg.req) /\ Client!LineCovered)
        /\ Good(m, time)
Checking == {t \in Requests : pc[t] \in {"choosing", "verifying"}}
StillOwed(d, time) ==
    owed' = {t \in owed : t \in Checking => Owed(arrival[t], d, time)}

-----------------------------------------------------------------------------
(* Actions *)

ClientStep(c) ==
    /\ UNCHANGED <<now, skew, server, owed>>
    /\ \/ \E o \in Offers : Client!Ask(c, o)
       \/ Client!RoundTrip(c)
       \/ Client!Return(c)
       \/ \E keep \in BOOLEAN, loc \in Locations : Client!Redirect(c, keep, loc)

Deliver(t, m) ==
    \E a \in {Untouched(m)} \union Altered(m) :
        /\ Server!Begin(t, a)
        /\ owed' = IF Owed(a, dir, now) THEN owed \union {t} ELSE owed
        /\ UNCHANGED <<skew, client>>

Check(t) == Server!Turn(t) /\ UNCHANGED <<skew, client, owed>>

Rotate(keyid, e) ==
    /\ Server!Rotate(keyid, e)
    /\ StillOwed(dir', now)
    /\ UNCHANGED <<skew, client>>

Tick ==
    /\ Server!Tick
    /\ StillOwed(dir, now')
    /\ UNCHANGED <<skew, client>>

Next ==
    \/ \E c \in Calls : ClientStep(c)
    \/ \E t \in Requests, m \in sent : Deliver(t, m)
    \/ \E t \in Requests : Check(t)
    \/ \E keyid \in KeyIDs, e \in Server!Entries \union {NoEntry} : Rotate(keyid, e)
    \/ Tick

\* Both sides' goroutines run; the application, the network, the directory
\* and the clock need not.
Spec == Init /\ [][Next]_vars /\ \A t \in Requests : WF_vars(Check(t))
-----------------------------------------------------------------------------
(* Properties *)

\* Both sides keep their types: each call of the client as far as its
\* control state says, and each request at the server.  Nothing is sent
\* from the server's future, and only requests that came are owed.
TypeOK ==
    /\ skew \in Skews
    /\ Client!CallsTyped
    /\ Server!TypeOK
    /\ \A t \in owed : pc[t] # "idle"
    /\ \A m \in sent : SentAt(m) \in 1..now

\* What an application sent through a Transport to this server, and what
\* reaches the Middleware as it was sent, within the lifetime the profile
\* gives it and the age the policy allows, is served: whatever the two
\* clocks disagree within the tolerance, through truncation to seconds, and
\* after any number of redirects and of other deliveries.
HonestServed == \A t \in owed : pc[t] # "rejected"

\* Of what a handler is given, and by whom; its destination is the target
\* that either side derives.
ContentOf(req, target, bytes, identity) ==
    [from |-> identity, method |-> req.method, authority |-> target.authority,
     path |-> req.path, body |-> bytes]
Stated(m) ==
    ContentOf(Untouched(m).msg.req, Target(m.msg.req, "", NoHost), m.body, Owner[Key])
Given(t) ==
    CASE pc[t] = "idle" -> [state |-> "none", content |-> Absent]
      [] pc[t] \in {"choosing", "verifying"} -> [state |-> "checking", content |-> Absent]
      [] pc[t] = "rejected" -> [state |-> "refused", content |-> Absent]
      [] pc[t] = "served" ->
           LET req == arrival[t].msg.req
               target == Target(req, Policy.scheme, Policy.authority)
           IN  [state |-> "served", content |-> ContentOf(req, target, body[t], entry[t].identity)]

\* The two together implement the abstract channel: a handler is given only
\* what the client stated, method, destination and body together, under the
\* client's identity, and not after the age bound plus a tolerance for each
\* clock, however late or often the network delivers it; and every delivery
\* is answered.
Contents ==
    LET places == {[host |-> o.msg.req.urlHost, path |-> o.msg.req.path] : o \in Offers}
                    \union {[host |-> loc.host, path |-> loc.path] : loc \in Locations}
    IN  [from : {Owner[Key]},
         method : {"GET"} \union {o.msg.req.method : o \in Offers},
         authority : {NormalAuthority(place.host, scheme) : place \in places, scheme \in Client!Schemes},
         path : {Path(place) : place \in places},
         body : {<<>>} \union {o.body : o \in Offers}]
statements == {[content |-> Stated(m), at |-> SentAt(m)] : m \in sent}
answers == [t \in Requests |-> Given(t)]
Channel == INSTANCE AuthChannel WITH
    Deliveries <- Requests,
    Window <- AgeLimit(Policy) + 2 * Policy.tolerance,
    Unserved <- Absent
ChannelSpec == Channel!Spec
=============================================================================
