--------------------------- MODULE MessageSigning ---------------------------
(***************************************************************************)
(* A request and its signatures from the first signer to a verifier.       *)
(* Clients and gateways call Sign on the message as it stands; peers with  *)
(* other implementations sign too; intermediaries edit fields and the      *)
(* signature fields; the network turns the outbound request into an        *)
(* inbound one; a verifier parses, and verifies later, when the message    *)
(* may have changed under it.                                              *)
(***************************************************************************)
EXTENDS Httpsig

CONSTANTS
    Keys,            \* signing keys
    SignLabels,      \* labels
    FieldTypes,      \* StructuredFields, the same at signers and verifiers
    Settings,        \* who signs what where: the requests and the contents of
                     \* their fields ([name |-> set of lines]), SignOptions.
                     \* Components, the labels and lifetimes (0: no expires)
                     \* signers choose, the Signature-Input members peers write,
                     \* the scheme and authority the verifier is configured
                     \* with, whether TLS may end in front of it, what
                     \* intermediaries write into parts of the request
                     \* ([field |-> values]), and bounds on signatures and edits
    Policies,        \* verification policies
    MaxTime,         \* bound on the clock
    NotParsed

\* Outbound requests name their target in the URL, and have no RequestURI.
IsRequest(r) ==
    /\ DOMAIN r = {"method", "urlScheme", "urlHost", "host", "tls", "path", "query",
                   "forceQuery", "uri"}
    /\ r.urlScheme \in {"http", "https"} /\ r.urlHost # NoHost
    /\ r.host \in {NoHost, r.urlHost} /\ r.uri = <<>>
    /\ ListOf(r.query) /\ r.forceQuery \in BOOLEAN
IsInput(i) ==
    /\ DOMAIN i = {"items", "params"} /\ ListOf(i.items)
    /\ DOMAIN i.params = {"created", "expires", "alg"}
    /\ {i.params.created, i.params.expires} \subseteq Int \union {Absent, IllTyped}
ASSUME SettingsAssumption ==
    \A s \in Settings :
        /\ \A r \in s.requests : IsRequest(r)
        /\ DOMAIN s.contents \intersect (DerivedNames \union {"signature", "signature-input"}) = {}
        /\ \A n \in DOMAIN s.contents : \A lines \in s.contents[n] :
              ListOf(lines) /\ \A i \in DOMAIN lines : ListOf(lines[i])
        /\ \A cs \in s.lists : ListOf(cs)
        /\ \A i \in s.peers : IsInput(i)
        /\ DOMAIN s.rewrites \subseteq {"method", "host", "tls", "path", "query"}
        /\ "query" \in DOMAIN s.rewrites => \A q \in s.rewrites["query"] : ListOf(q)
        /\ s.labels \subseteq SignLabels /\ s.ttls \subseteq Int
        /\ s.maxEdits \in Nat /\ s.ends \subseteq BOOLEAN
\* What the verifier is told of the scheme and the authority is what the
\* client saw, and it is told the scheme where TLS may end in front of it.
ASSUME ToldAssumption ==
    \A s \in Settings : \A r \in s.requests :
        /\ s.scheme \in {"", r.urlScheme}
        /\ TRUE \in s.ends => s.scheme # ""
        /\ s.authority # NoHost => NormalAuthority(s.authority, r.urlScheme)
                                      = NormalAuthority(r.urlHost, r.urlScheme)
\* Durations are 64-bit counts of nanoseconds, and do not reach back from
\* the epoch to the zero time.Time, which is in year 1.
ASSUME PolicyAssumption ==
    \A p \in Policies : p.maxAge \in Int /\ p.tolerance \in Int /\ Second * ZeroTime <= p.tolerance
ASSUME TimesAssumption == MaxTime \in Nat \ {0} /\ ZeroTime \in Int

VARIABLES
    msg,      \* the request with its fields
    side,     \* "client", or "server" once delivered
    setting,  \* one of Settings, fixed
    now,      \* the clock
    signed,   \* history: every signature made, with the message it was made on
    edits,    \* how many edits intermediaries made
    parsed,   \* what ParseSignatures returned
    asParsed  \* history: the message it was called on

vars == <<msg, side, setting, now, signed, edits, parsed, asParsed>>

\* What the fields of a request may hold.
Contents ==
    LET lines == setting.contents
    IN  {f \in [DOMAIN lines -> UNION {lines[n] : n \in DOMAIN lines}] :
            \A n \in DOMAIN lines : f[n] \in lines[n]}
EmptyHeader == [ok |-> TRUE, occ |-> [l \in SignLabels |-> <<>>]]

Init ==
    /\ setting \in Settings
    /\ \E r \in setting.requests, f \in Contents :
         msg = [req |-> r, fields |-> f, inputs |-> EmptyHeader, sigs |-> EmptyHeader]
    /\ side = "client"
    /\ now = 1
    /\ signed = {}
    /\ edits = 0
    /\ parsed = NotParsed /\ asParsed = NotParsed

\* A client derives the target from its URL; behind the network, gateways
\* and verifiers from their configuration, or else the connection.
TargetHere(m) ==
    IF side = "client" THEN Target(m.req, "", NoHost)
    ELSE Target(m.req, setting.scheme, setting.authority)

Record(key, label, input) ==
    LET base == SignatureBase(msg, TargetHere(msg), FieldTypes, input)
    IN  signed' = signed \union
          {[key |-> key, label |-> label, input |-> input, msg |-> msg,
            target |-> TargetHere(msg), sig |-> KeySign(key, base)]}

-----------------------------------------------------------------------------
(* Actions *)

\* Sign, with addSignature.
Sign(key, label, comps, ttl) ==
    LET items == Covered(comps)
        input == [items |-> items,
                  params |-> [created |-> Created(now), expires |-> Expires(now, ttl),
                              alg |-> AlgorithmOf[key]]]
        base == SignatureBase(msg, TargetHere(msg), FieldTypes, input)
    IN  /\ Cardinality(signed) < setting.maxSigned
        /\ CanSign(msg, FieldTypes, input, label)
        /\ msg' = AddSignature(msg, label, input, KeySign(key, base))
        /\ Record(key, label, input)
        /\ UNCHANGED <<side, setting, now, edits, parsed, asParsed>>

\* A member appended to a signature field.
Append1(header, l, value) ==
    [header EXCEPT !.occ = [header.occ EXCEPT ![l] = Append(header.occ[l], value)]]

\* Another implementation appends a signature over what it likes.
PeerSign(key, label, input) ==
    LET base == SignatureBase(msg, TargetHere(msg), FieldTypes, input)
    IN  /\ Cardinality(signed) < setting.maxSigned
        /\ HasBase(msg, FieldTypes, input.items)
        /\ msg' = [msg EXCEPT !.inputs = Append1(@, label, input),
                              !.sigs = Append1(@, label, KeySign(key, base))]
        /\ Record(key, label, input)
        /\ UNCHANGED <<side, setting, now, edits, parsed, asParsed>>

Edit(m) ==
    /\ edits < setting.maxEdits
    /\ msg' = m
    /\ edits' = edits + 1
    /\ UNCHANGED <<side, setting, now, signed, parsed, asParsed>>

\* Intermediaries, and behind the network other handlers, rewrite a field or
\* a part of the request, append or drop a member of a signature field (a
\* duplicate, an orphan, garbage, another's signature, an input with later
\* parameters), or make a field unparsable.
EditField(n, lines) == Edit([msg EXCEPT !.fields = [msg.fields EXCEPT ![n] = lines]])
EditRequest(part, val) == Edit([msg EXCEPT !.req = [msg.req EXCEPT ![part] = val]])
AppendInput(l, input) == Edit([msg EXCEPT !.inputs = Append1(@, l, input)])
AppendSig(l, sig) == Edit([msg EXCEPT !.sigs = Append1(@, l, sig)])
Without(header, l) == [header EXCEPT !.occ = [header.occ EXCEPT ![l] = <<>>]]
DropInput(l) == Edit([msg EXCEPT !.inputs = Without(@, l)])
DropSig(l) == Edit([msg EXCEPT !.sigs = Without(@, l)])
BreakInputs == msg.inputs.ok /\ Edit([msg EXCEPT !.inputs = [msg.inputs EXCEPT !.ok = FALSE]])

\* The network turns the outbound request into an inbound one, TLS ended in
\* front of the verifier or not, in absolute form if it came for a proxy.
Deliver(ended, absolute) ==
    /\ side = "client"
    /\ absolute => msg.req.urlScheme = "http"
    /\ side' = "server"
    /\ msg' = [msg EXCEPT !.req = IF absolute THEN InboundAbsolute(@)
                                  ELSE Inbound(@, @.urlScheme = "https" /\ ~ended)]
    /\ UNCHANGED <<setting, now, signed, edits, parsed, asParsed>>

\* ParseSignatures pins the bases to the message as it stands.
Parse ==
    /\ side = "server"
    /\ parsed = NotParsed
    /\ msg.inputs.ok /\ msg.sigs.ok
    /\ parsed' = ParseSignatures(msg, TargetHere(msg), FieldTypes)
    /\ asParsed' = msg
    /\ UNCHANGED <<msg, side, setting, now, signed, edits>>

Tick ==
    /\ now < MaxTime
    /\ now' = now + 1
    /\ UNCHANGED <<msg, side, setting, signed, edits, parsed, asParsed>>

\* The input of a signature made, as it is or with its life extended.
Extended(input) == [input EXCEPT !.params = [input.params EXCEPT !.expires = MaxTime + 1]]
WireInputs == {h.input : h \in signed} \union {Extended(h.input) : h \in signed}
Next ==
    \/ \E k \in Keys, l \in setting.labels, cs \in setting.lists, ttl \in setting.ttls :
          Sign(k, l, cs, ttl)
    \/ \E k \in Keys, l \in setting.labels, i \in setting.peers : PeerSign(k, l, i)
    \/ \E n \in DOMAIN setting.contents : \E ls \in setting.contents[n] : EditField(n, ls)
    \/ \E part \in DOMAIN setting.rewrites : \E val \in setting.rewrites[part] : EditRequest(part, val)
    \/ \E l \in setting.labels, i \in WireInputs \union {Malformed} : AppendInput(l, i)
    \/ \E l \in setting.labels, s \in {h.sig : h \in signed} \union {Malformed} : AppendSig(l, s)
    \/ \E l \in setting.labels : DropInput(l) \/ DropSig(l)
    \/ BreakInputs
    \/ \E ended \in setting.ends, absolute \in BOOLEAN : Deliver(ended, absolute)
    \/ Parse
    \/ Tick

Spec == Init /\ [][Next]_vars
-----------------------------------------------------------------------------
(* Properties *)

Headers == {msg.inputs, msg.sigs}
\* The shape of a message in transit, the history of its signatures, and a
\* parse result together with the message it belongs to.
TypeOK ==
    /\ DOMAIN msg = {"req", "fields", "inputs", "sigs"}
    /\ \A n \in DOMAIN msg.fields : msg.fields[n] \in setting.contents[n]
    /\ \A h \in Headers : h.ok \in BOOLEAN /\ DOMAIN h.occ = SignLabels
    /\ \A l \in SignLabels : \A i \in DOMAIN msg.sigs.occ[l] :
          msg.sigs.occ[l][i] \in {h.sig : h \in signed} \union {Malformed}
    /\ side \in {"client", "server"} /\ now \in 1..MaxTime /\ edits \in 0..setting.maxEdits
    /\ \A h \in signed : h.key \in Keys /\ h.sig.key = h.key
    /\ parsed # NotParsed => side = "server" /\ DOMAIN parsed \subseteq SignLabels

\* What a reader of component c takes from message a and its target s, it
\* takes from message b and its target t: of a field, the lines, a member,
\* the structure or the bytes; of a signature field, the members.
FirstVals(es, key) == {es[i].val : i \in {j \in DOMAIN es :
                          es[j].key = key /\ \A n \in DOMAIN es : es[n].key = key => n <= j}}
LinesAgree(c, x, y) ==
    IF c.bs THEN x = y
    ELSE IF c.key # "" THEN FirstVals(FlattenSeq(x), c.key) = FirstVals(FlattenSeq(y), c.key)
    ELSE IF c.sf THEN \A k \in {e.key : e \in UNION {ToSet(ls) : ls \in ToSet(x \o y)}} :
                         FirstVals(FlattenSeq(x), k) = FirstVals(FlattenSeq(y), k)
    ELSE FlattenSeq(x) = FlattenSeq(y)
MembersAgree(c, x, y) ==
    IF c.key # "" \/ c.sf
    THEN \A l \in IF c.key # "" THEN {c.key} ELSE SignLabels :
            /\ l \in Labels(x) <=> l \in Labels(y)
            /\ l \in Labels(x) => Get(x, l) = Get(y, l)
    ELSE x.occ = y.occ
\* A query parameter is there once, with one value.
ParamAgrees(name, q, r) ==
    \E i \in DOMAIN q, j \in DOMAIN r :
        /\ q[i].val = r[j].val
        /\ \A n \in DOMAIN q : q[n].key = name <=> n = i
        /\ \A n \in DOMAIN r : r[n].key = name <=> n = j
Agree(c, a, s, b, t) ==
    /\ c.name = "@method" => {a.req.method, b.req.method} \subseteq {"", "GET"}
                              \/ a.req.method = b.req.method
    /\ c.name \in {"@scheme", "@target-uri"} => s.scheme = t.scheme
    /\ c.name \in {"@authority", "@target-uri"} => s.authority = t.authority
    /\ c.name \in {"@path", "@target-uri"} => Path(a.req) = Path(b.req)
    /\ c.name \in {"@query", "@target-uri"} => a.req.query = b.req.query
    /\ c.name = "@request-target" => RequestTarget(a.req) = RequestTarget(b.req)
    /\ c.name = "@query-param" => ParamAgrees(c.param, a.req.query, b.req.query)
    /\ c.name = "signature-input" => MembersAgree(c, a.inputs, b.inputs)
    /\ c.name = "signature" => MembersAgree(c, a.sigs, b.sigs)
    /\ c.name \notin DerivedNames \union {"signature", "signature-input"} =>
          LinesAgree(c, FieldLines(a, c.name), FieldLines(b, c.name))

\* The window that policy p leaves a signature with these parameters, at a
\* time: not yet expired, not of the future, not too old.  An expires of the
\* zero time.Time is none.
WindowOpen(params, p, time) ==
    /\ params.expires \notin {Absent, ZeroTime} => time <= Second * params.expires + p.tolerance
    /\ params.created # Absent => Second * params.created <= time + p.tolerance
    /\ p.maxAge > 0 => /\ params.created # Absent
                       /\ time <= Second * params.created + p.maxAge + p.tolerance

\* An accepted signature was made, by the key it is accepted under, over
\* these components and parameters, when each covered component read, of the
\* message and of its signer's target, as it did of the message as parsed
\* and of the verifier's target; it covers what the policy requires; and the
\* policy's window around its own created and expires is open.  However
\* signatures were merged, duplicated, moved between labels or given other
\* parameters on the way, the request sent elsewhere or rewritten, and
\* whatever happened to the message after parsing.
AcceptedIsStatement ==
    parsed # NotParsed => \A l \in DOMAIN parsed, k \in Keys, p \in Policies :
        Accepts(parsed[l], k, p, now) =>
            \E h \in signed :
                /\ h.key = k
                /\ h.input.items = parsed[l].items /\ h.input.params = parsed[l].params
                /\ \A i \in DOMAIN h.input.items :
                      Agree(h.input.items[i].c, h.msg, h.target, asParsed, TargetHere(asParsed))
                /\ p.required \subseteq {h.input.items[i].c : i \in DOMAIN h.input.items}
                /\ WindowOpen(h.input.params, p, now)

\* The signature under label l verifies with key k on the message as it is.
Stands(l, k) ==
    /\ msg.inputs.ok /\ msg.sigs.ok
    /\ WellFormed(msg, FieldTypes, l)
    /\ KeyVerify(k, SignatureBase(msg, TargetHere(msg), FieldTypes, Get(msg.inputs, l)),
                 Get(msg.sigs, l))

\* A signature that covers another as a whole field covers its successors too.
CoversHeader(input) ==
    \E i \in DOMAIN input.items :
        input.items[i].c.name \in {"signature", "signature-input"} /\ input.items[i].c.key = ""
CoversMember(input, l) ==
    \E i \in DOMAIN input.items :
        input.items[i].c.name \in {"signature", "signature-input"} /\ input.items[i].c.key = l

\* Somebody signed under label m while it was in use, as only peers do.
Reused(m) == \E g \in signed : g.label = m /\ m \in Labels(g.msg.inputs)

\* The request line still reads as the client's URL does.
LineKept(h) ==
    side = "client" \/ h.msg.req = msg.req \/ (msg.req.urlScheme = "" /\ ~BareQuery(msg.req))

\* A client's signature survives an honest journey: with no edits and the
\* scheme and authority the client saw, it verifies behind the network, be
\* there gateways' and peers' signatures merged after it, TLS ended on the
\* way, a default port or a mixed-case host in the URL, a request line in
\* absolute form; if it covers another signature, as long as nobody signs
\* under that one's label again, and if it covers the request line, unless
\* net/http writes that in absolute form or with a bare "?", where the
\* client's side reads it off the URL in origin form and without.
HonestJourney ==
    edits = 0 => \A h \in signed, l \in Labels(msg.inputs) :
        (/\ Get(msg.inputs, l) = h.input /\ Get(msg.sigs, l) = h.sig /\ ~CoversHeader(h.input)
         /\ (\E i \in DOMAIN h.input.items : h.input.items[i].c.name = "@request-target") => LineKept(h)
         /\ \A i \in DOMAIN h.input.items : ParsesAsComponent(h.input.items[i])
         /\ \A p \in DOMAIN h.input.params : h.input.params[p] # IllTyped
         /\ \A m \in SignLabels : CoversMember(h.input, m) => ~Reused(m))
        => Stands(l, h.key)

\* A peer or an intermediary wrote under a label that was in use.
Overwritten(l) ==
    \/ edits' # edits /\ (msg'.inputs.occ[l] # msg.inputs.occ[l] \/ msg'.sigs.occ[l] # msg.sigs.occ[l])
    \/ Len(msg'.inputs.occ[l]) > Len(msg.inputs.occ[l]) /\ msg.inputs.occ[l] # <<>>
    \/ Len(msg'.sigs.occ[l]) > Len(msg.sigs.occ[l]) /\ msg.sigs.occ[l] # <<>>

\* One bad signature cannot invalidate the others, and neither can a further
\* good one: whatever is added to or dropped from the signature fields under
\* one label leaves the standing of every other label alone, as long as that
\* signature does not itself cover those fields (ParseSignatures: "Defects
\* confined to one signature ... so one bad signature cannot invalidate the
\* others"; Sign: "merging with any signatures already present").
OthersStand ==
    [][\A l \in SignLabels, k \in Keys :
          (/\ Stands(l, k) /\ ~Stands(l, k)'
           /\ msg'.req = msg.req /\ msg'.fields = msg.fields
           /\ msg'.inputs.ok /\ msg'.sigs.ok /\ side' = side)
          => \/ Overwritten(l)
             \/ CoversHeader(Get(msg.inputs, l))
             \/ \E m \in SignLabels : CoversMember(Get(msg.inputs, l), m) /\ Overwritten(m)]_vars

\* What was signed is not lost on the way: ParseSignatures returns every
\* label that anybody signed under, and no other if nobody edited; and no one
\* edit of the message hides a label, not one that takes away its member of
\* Signature-Input or of Signature, nor one among the others.  The label then
\* comes back with a defect.
SignaturesReported ==
    [][parsed' # parsed =>
          LET labels == {h.label : h \in signed}
          IN  /\ edits = 0 => DOMAIN parsed' = labels
              /\ edits <= 1 => labels \subseteq DOMAIN parsed']_vars

\* The expires parameter, if present, must not have passed (Policy: "The zero
\* value enforces only the requirements of the RFC itself").
ExpiresEnforced ==
    parsed # NotParsed => \A l \in DOMAIN parsed, k \in Keys, p \in Policies :
        (Accepts(parsed[l], k, p, now) /\ parsed[l].params.expires # Absent)
            => now <= Second * parsed[l].params.expires + p.tolerance
=============================================================================
