------------------------------ MODULE Httpsig ------------------------------
(***************************************************************************)
(* Package httpsig, the wire layer: components and their values, the       *)
(* signature base, parsing and the checks of Verify.  Operators only;      *)
(* MessageSigning gives them state.                                        *)
(*                                                                         *)
(* A field is the sequence of its lines and a line the sequence of its     *)
(* elements; an element has a dictionary key, a value and a spelling, so   *)
(* that what joining, strict reserialisation and byte wrapping each keep   *)
(* and lose is visible.  The Signature-Input and Signature fields are      *)
(* dictionaries: per label, the values given to it in field order.  A      *)
(* signature is the pair of a key and the base it signed.                  *)
(***************************************************************************)
EXTENDS Integers, Sequences, FiniteSets, SequencesExt

CONSTANTS
    LowerCase,    \* [mixed-case name |-> its lower-case form]
    Absent,       \* a parameter that is not there
    IllTyped,     \* a parameter of the wrong structured type
    Unprintable,  \* labels and parameter values no structured field can hold
    ZeroTime,     \* the zero time.Time, as a parameter
    Second,       \* clock ticks in a second: parameters count seconds, clocks
                  \* and durations ticks
    MaxInt,       \* the largest Go integer and duration: 2^63 - 1 in the program
    AlgorithmOf   \* [key |-> the algorithm it is for]

ASSUME SecondAssumption == Second \in Nat \ {0}
ASSUME MaxIntAssumption == MaxInt \in Nat

\* Go addition of two non-negative integers, which wraps.
Plus(a, b) == IF a + b > MaxInt THEN a + b - 2 * (MaxInt + 1) ELSE a + b

-----------------------------------------------------------------------------
(* Components *)

DerivedNames == {"@method", "@target-uri", "@authority", "@scheme",
                 "@request-target", "@path", "@query", "@query-param"}
RefusedNames == {"", "@status", "@signature-params", "@unknown"}
\* Lower case stays, and so do the names and schemes the standards give.
ASSUME LowerCaseAssumption ==
    /\ \A n \in DOMAIN LowerCase : LowerCase[n] \notin DOMAIN LowerCase
    /\ DOMAIN LowerCase \intersect (DerivedNames \union {"content-digest", "http", "https"}) = {}
ToLower(name) == IF name \in DOMAIN LowerCase THEN LowerCase[name] ELSE name

Plain(name) == [name |-> name, sf |-> FALSE, key |-> "", bs |-> FALSE, param |-> ""]
ListOf(items) == items \in Seq(ToSet(items))
DefaultComponents == <<Plain("@method"), Plain("@target-uri")>>

\* Component.validate.
Valid(c) ==
    /\ c.name \notin RefusedNames
    /\ c.name = ToLower(c.name)
    /\ IF c.name \in DerivedNames
       THEN /\ ~c.sf /\ c.key = "" /\ ~c.bs
            /\ c.name = "@query-param" <=> c.param # ""
       ELSE /\ c.param = ""
            /\ c.bs => ~c.sf /\ c.key = ""

\* An identifier on the wire: its parameters may be respelled (in another
\* order) or foreign (unknown, ill-typed, req or tr).
Identifier(c) == [c |-> c, form |-> "canonical"]
ParsesAsComponent(item) == item.form # "foreign" /\ Valid(item.c)

-----------------------------------------------------------------------------
(* The target of a request: newTarget and normalizeAuthority *)

NoHost == [name |-> "", port |-> ""]
DefaultPort(scheme) ==
    CASE scheme = "http" -> "80" [] scheme = "https" -> "443" [] OTHER -> ""

NormalAuthority(authority, scheme) ==
    [name |-> ToLower(authority.name),
     port |-> IF authority.port = DefaultPort(scheme) THEN "" ELSE authority.port]

\* Overrides first, then the URL, then what the connection says.
Target(req, scheme, authority) ==
    LET s == ToLower(CASE scheme # "" -> scheme
                       [] scheme = "" /\ req.urlScheme # "" -> req.urlScheme
                       [] OTHER -> IF req.tls THEN "https" ELSE "http")
        a == CASE authority # NoHost -> authority
               [] authority = NoHost /\ req.urlHost # NoHost -> req.urlHost
               [] OTHER -> req.host
    IN  [scheme |-> s, authority |-> NormalAuthority(a, s)]
\* Mutant: an empty path stays empty.
PathAsGiven(req) == req.path
Path(req) == IF req.path = "" THEN "/" ELSE req.path

\* What the request line says: on the client's side, what its URL says.
RequestTarget(req) == IF req.uri # <<>> THEN req.uri ELSE <<Path(req), req.query>>

\* URL.ForceQuery: a "?" with nothing after it.
BareQuery(req) == req.forceQuery /\ req.query = <<>>

\* net/http writes a request and reads it on the other side, where the URL
\* has no scheme or host and the connection may no longer be the client's;
\* a bare "?" is on the request line ...
Inbound(req, tls) ==
    LET host == IF req.host = NoHost THEN req.urlHost ELSE req.host
        origin == <<Path(req), req.query>>
    IN  [req EXCEPT !.urlScheme = "", !.urlHost = NoHost, !.host = host, !.tls = tls,
                    !.method = IF @ = "" THEN "GET" ELSE @,
                    !.path = IF @ = "" THEN "/" ELSE @,
                    !.uri = IF BareQuery(req) THEN Append(origin, "?") ELSE origin]
\* ... and, from a client that takes the server for its http proxy, so are
\* the scheme and the host, which the URL then has on both sides.
InboundAbsolute(req) ==
    LET origin == Inbound(req, FALSE)
    IN  [origin EXCEPT !.urlScheme = req.urlScheme, !.urlHost = origin.host,
                       !.uri = <<req.urlScheme, origin.host>> \o @]

-----------------------------------------------------------------------------
(* Component values: whether one can be derived, and what it is *)

\* ParseDictionary: the last element with a key counts.
KeysIn(es) == {es[i].key : i \in DOMAIN es}
Member(es, key) ==
    LET last == CHOOSE i \in DOMAIN es :
                    es[i].key = key /\ \A j \in DOMAIN es : es[j].key = key => j <= i
    IN  es[last].val
Structured(es) == \A i \in DOMAIN es : es[i].raw \in {"canonical", "respelled"}
ASCII(es) == \A i \in DOMAIN es : es[i].raw # "nonascii"

\* fieldValue and strictFieldValue without their results, and checkValue.
\* types maps the registered fields to "item", "list" or "dictionary".
Readable(lines, types, c) ==
    LET es == FlattenSeq(lines)
    IN  /\ lines # <<>>
        /\ (c.sf \/ c.key # "") => Structured(es)
        /\ c.key # "" => c.key \in KeysIn(es)
        /\ (c.sf /\ c.key = "") =>
              c.name \in DOMAIN types /\ (types[c.name] = "item" => Len(es) = 1)
        /\ c.bs \/ ASCII(es)

\* Mutant: a byte-wrapped field loses its line boundaries.
FieldValueUnwrapped(lines, types, c) ==
    LET es == FlattenSeq(lines)
    IN  CASE c.key # "" -> <<"member", Member(es, c.key)>>
          [] c.key = "" /\ c.sf ->
               IF types[c.name] = "dictionary"
               THEN <<"dictionary", [k \in KeysIn(es) |-> Member(es, k)]>>
               ELSE <<"list", [i \in DOMAIN es |-> <<es[i].key, es[i].val>>]>>
          [] OTHER -> <<"joined", es>>

\* Byte wrapping keeps the lines; a key, one member; strict serialisation,
\* the structure; joining, the bytes.
FieldValue(lines, types, c) ==
    LET es == FlattenSeq(lines)
    IN  CASE c.bs -> <<"lines", lines>>
          [] c.key # "" -> <<"member", Member(es, c.key)>>
          [] c.key = "" /\ c.sf ->
               IF types[c.name] = "dictionary"
               THEN <<"dictionary", [k \in KeysIn(es) |-> Member(es, k)]>>
               ELSE <<"list", [i \in DOMAIN es |-> <<es[i].key, es[i].val>>]>>
          [] OTHER -> <<"joined", es>>

\* The lines of a field; net/http carries the Host header in Request.Host.
FieldLines(msg, name) ==
    IF name \in DOMAIN msg.fields /\ msg.fields[name] # <<>> THEN msg.fields[name]
    ELSE IF name = "host" /\ msg.req.host # NoHost
         THEN <<<<[key |-> "", val |-> msg.req.host, raw |-> "text"]>>>>
         ELSE <<>>

\* The Signature-Input and Signature fields, parsed and as components.
Labels(header) == {l \in DOMAIN header.occ : header.occ[l] # <<>>}
Get(header, l) == Last(header.occ[l])
HeaderReadable(header, types, c) ==
    /\ Labels(header) # {}
    /\ c.sf \/ c.key # "" => header.ok
    /\ c.key # "" => c.key \in Labels(header)
    /\ c.sf /\ c.key = "" => c.name \in DOMAIN types /\ types[c.name] = "dictionary"
HeaderValue(header, c) ==
    CASE c.key # "" -> <<"member", Get(header, c.key)>>
      [] c.key = "" /\ c.bs -> <<"lines", header.occ>>
      [] c.key = "" /\ ~c.bs /\ c.sf -> <<"dictionary", [l \in Labels(header) |-> Get(header, l)]>>
      [] OTHER -> <<"joined", header.occ>>

ParamAt(query, name) == {i \in DOMAIN query : query[i].key = name}
\* Mutant: a repeated parameter has one of its values.
HasParamRepeated(query, name) == ParamAt(query, name) # {}
\* queryParam: a repeated parameter has no value.
HasParam(query, name) == Cardinality(ParamAt(query, name)) = 1

HasValue(msg, types, c) ==
    CASE c.name = "@query-param" -> HasParam(msg.req.query, c.param)
      [] c.name = "signature-input" -> HeaderReadable(msg.inputs, types, c)
      [] c.name = "signature" -> HeaderReadable(msg.sigs, types, c)
      [] c.name \in DerivedNames \ {"@query-param"} -> TRUE
      [] OTHER -> Readable(FieldLines(msg, c.name), types, c)

ComponentValue(msg, target, types, c) ==
    LET req == msg.req
    IN  CASE c.name = "@method" -> <<IF req.method = "" THEN "GET" ELSE req.method>>
          [] c.name = "@target-uri" -> <<target, Path(req), req.query>>
          [] c.name = "@authority" -> <<target.authority>>
          [] c.name = "@scheme" -> <<target.scheme>>
          [] c.name = "@request-target" -> <<RequestTarget(req)>>
          [] c.name = "@path" -> <<Path(req)>>
          [] c.name = "@query" -> <<req.query>>
          [] c.name = "@query-param" ->
               <<req.query[CHOOSE i \in ParamAt(req.query, c.param) : TRUE].val>>
          [] c.name = "signature-input" -> HeaderValue(msg.inputs, c)
          [] c.name = "signature" -> HeaderValue(msg.sigs, c)
          [] OTHER -> FieldValue(FieldLines(msg, c.name), types, c)

-----------------------------------------------------------------------------
(* The signature base *)

HasBase(msg, types, items) ==
    /\ \A i, j \in DOMAIN items : i < j => items[i].c # items[j].c
    /\ \A i \in DOMAIN items : HasValue(msg, types, items[i].c)

\* Mutant: the parameters are left out of the base.
SignatureBaseBare(msg, target, types, input) ==
    [lines |-> [i \in DOMAIN input.items |->
        <<input.items[i], ComponentValue(msg, target, types, input.items[i].c)>>],
     params |-> Absent]
SignatureBase(msg, target, types, input) ==
    [lines |-> [i \in DOMAIN input.items |->
        <<input.items[i], ComponentValue(msg, target, types, input.items[i].c)>>],
     params |-> input.params]

\* Signer.Sign and Verifier.Verify, symbolically.
KeySign(key, base) == [key |-> key, base |-> base]
KeyVerify(key, base, sig) == sig = KeySign(key, base)

-----------------------------------------------------------------------------
(* Sign *)

\* The covered components as Sign lower-cases them.
Covered(comps) == [i \in DOMAIN comps |-> Identifier([comps[i] EXCEPT !.name = ToLower(@)])]

\* The created and expires of a signature made at a time, truncated to seconds.
Created(time) == time \div Second
\* Mutant: time and lifetime are truncated apart.
ExpiresApart(time, ttl) == IF ttl = 0 THEN Absent ELSE time \div Second + ttl \div Second
Expires(time, ttl) == IF ttl = 0 THEN Absent ELSE (time + ttl) \div Second

\* Sign without its effect: what it validates, covers, spells and merges into.
CanSign(msg, types, input, label) ==
    /\ \A i \in DOMAIN input.items : Valid(input.items[i].c)
    /\ HasBase(msg, types, input.items)
    /\ \A p \in DOMAIN input.params : input.params[p] \notin Unprintable
    /\ msg.inputs.ok /\ msg.sigs.ok
    /\ label \notin Labels(msg.inputs) \union Labels(msg.sigs) \union Unprintable

\* Mutant: the new member replaces the field.
MergeAlone(header, label, value) ==
    [header EXCEPT !.occ = [l \in DOMAIN @ |-> IF l = label THEN <<value>> ELSE <<>>]]
\* addSignature on one field: each label keeps the value that counted.
Merge(header, label, value) ==
    [header EXCEPT !.occ = [l \in DOMAIN @ |->
        CASE l = label -> <<value>>
          [] l # label /\ @[l] # <<>> -> <<Last(@[l])>>
          [] OTHER -> <<>>]]

\* Mutant: the fields are swapped.
AddSignatureSwapped(msg, label, input, sig) ==
    [msg EXCEPT !.inputs = Merge(@, label, sig), !.sigs = Merge(@, label, input)]
AddSignature(msg, label, input, sig) ==
    [msg EXCEPT !.inputs = Merge(@, label, input), !.sigs = Merge(@, label, sig)]

-----------------------------------------------------------------------------
(* ParseSignatures and Verify *)

\* A member of the wrong structured type: no inner list, or no byte sequence.
Malformed == [malformed |-> TRUE]

\* Mutant: one bad member spoils all.
WellFormedTogether(msg, types, l) ==
    \A m \in Labels(msg.inputs) :
        /\ Get(msg.inputs, m) # Malformed /\ m \in Labels(msg.sigs)
        /\ Get(msg.sigs, m) # Malformed
        /\ \A i \in DOMAIN Get(msg.inputs, m).items : ParsesAsComponent(Get(msg.inputs, m).items[i])
        /\ HasBase(msg, types, Get(msg.inputs, m).items)
\* What ParseSignatures finds wrong with one signature, if anything.
WellFormed(msg, types, l) ==
    LET input == Get(msg.inputs, l)
    IN  /\ l \in Labels(msg.inputs) /\ input # Malformed
        /\ l \in Labels(msg.sigs) /\ Get(msg.sigs, l) # Malformed
        /\ \A p \in DOMAIN input.params : input.params[p] # IllTyped
        /\ \A i \in DOMAIN input.items : ParsesAsComponent(input.items[i])
        /\ HasBase(msg, types, input.items)

Broken == [ok |-> FALSE, items |-> <<>>, params |-> <<>>, base |-> Absent, sig |-> Absent]
Parsed(msg, target, types, l) ==
    IF WellFormed(msg, types, l)
    THEN [ok |-> TRUE, items |-> Get(msg.inputs, l).items,
          params |-> Get(msg.inputs, l).params,
          base |-> SignatureBase(msg, target, types, Get(msg.inputs, l)),
          sig |-> Get(msg.sigs, l)]
    ELSE Broken

\* Mutant: orphans of the Signature field go unreported.
ParseSignaturesNoOrphans(msg, target, types) ==
    [l \in Labels(msg.inputs) |-> Parsed(msg, target, types, l)]
\* Per label, the signature or its defect; orphans of either field included.
ParseSignatures(msg, target, types) ==
    [l \in Labels(msg.inputs) \union Labels(msg.sigs) |-> Parsed(msg, target, types, l)]

\* A Go accessor: an absent time reads as the zero time.
TimeOf(param) == IF param = Absent THEN ZeroTime ELSE param

\* The checks of Verify; it reports the first that fails in the order of the
\* definitions below.
Expired(s, policy, now) ==
    LET expires == TimeOf(s.params.expires)
    IN  expires # ZeroTime /\ now > Second * expires + policy.tolerance

FromFuture(s, policy, now) ==
    LET created == TimeOf(s.params.created)
    IN  created # ZeroTime /\ Second * created > now + policy.tolerance

\* Mutant: the tolerance is granted at both ends.
TooOldTwiceTolerant(s, policy, now) ==
    LET created == TimeOf(s.params.created)
    IN  policy.maxAge > 0 /\
          (created = ZeroTime
            \/ now - policy.tolerance > Second * created + Plus(policy.maxAge, policy.tolerance))
TooOld(s, policy, now) ==
    LET created == TimeOf(s.params.created)
    IN  policy.maxAge > 0 /\
          (created = ZeroTime
            \/ now > Second * created + Plus(policy.maxAge, policy.tolerance))

Covers(s, required) == \A c \in required : \E i \in DOMAIN s.items : s.items[i].c = c

Accepts(s, key, policy, now) ==
    /\ s.ok
    /\ s.params.alg \in {Absent, AlgorithmOf[key]}
    /\ ~Expired(s, policy, now)
    /\ ~FromFuture(s, policy, now)
    /\ ~TooOld(s, policy, now)
    /\ Covers(s, policy.required)
    /\ KeyVerify(key, s.base, s.sig)
=============================================================================
