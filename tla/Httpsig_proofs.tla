---------------------------- MODULE Httpsig_proofs ----------------------------
(***************************************************************************)
(* Lemmas about Httpsig that the components' proofs share: what parsing    *)
(* keeps, what bases tell apart, what merging leaves alone.                *)
(***************************************************************************)
EXTENDS Httpsig, Lists_proofs

\* What a signature that parsed is made of.
LEMMA ParsedSound ==
    ASSUME NEW msg, NEW target, NEW types,
           NEW l \in DOMAIN ParseSignatures(msg, target, types),
           ParseSignatures(msg, target, types)[l].ok
    PROVE  LET s == ParseSignatures(msg, target, types)[l]
               input == Get(msg.inputs, l)
           IN  /\ l \in Labels(msg.inputs) /\ input # Malformed
               /\ l \in Labels(msg.sigs) /\ s.sig = Get(msg.sigs, l) /\ s.sig # Malformed
               /\ s.items = input.items /\ s.params = input.params
               /\ s.base = SignatureBase(msg, target, types, input)
               /\ HasBase(msg, types, s.items)
               /\ \A i \in DOMAIN s.items : ParsesAsComponent(s.items[i])
               /\ \A p \in DOMAIN s.params : s.params[p] # IllTyped
<1>1. ParseSignatures(msg, target, types)[l] = Parsed(msg, target, types, l)
  BY DEF ParseSignatures
<1>2. WellFormed(msg, types, l)
  BY <1>1 DEF Parsed, Broken
<1> QED
  BY <1>1, <1>2 DEF Parsed, WellFormed

\* Equal bases have the same components, with the same values.
LEMMA BaseValues ==
    ASSUME NEW m, NEW t, NEW n, NEW u, NEW types, NEW f, NEW g,
           SignatureBase(m, t, types, f) = SignatureBase(n, u, types, g)
    PROVE  /\ DOMAIN f.items = DOMAIN g.items /\ f.params = g.params
           /\ \A i \in DOMAIN f.items :
                 /\ f.items[i] = g.items[i]
                 /\ ComponentValue(m, t, types, f.items[i].c) = ComponentValue(n, u, types, g.items[i].c)
<1> DEFINE F == [i \in DOMAIN f.items |-> <<f.items[i], ComponentValue(m, t, types, f.items[i].c)>>]
           G == [i \in DOMAIN g.items |-> <<g.items[i], ComponentValue(n, u, types, g.items[i].c)>>]
<1>1. F = G /\ f.params = g.params
  BY DEF SignatureBase
<1>2. DOMAIN f.items = DOMAIN g.items
  BY <1>1
<1>3. ASSUME NEW i \in DOMAIN f.items
      PROVE  /\ f.items[i] = g.items[i]
             /\ ComponentValue(m, t, types, f.items[i].c) = ComponentValue(n, u, types, g.items[i].c)
  <2>1. F[i] = G[i]
    BY <1>1
  <2>2. F[i] = <<f.items[i], ComponentValue(m, t, types, f.items[i].c)>>
        /\ G[i] = <<g.items[i], ComponentValue(n, u, types, g.items[i].c)>>
    BY <1>2, <1>3
  <2> QED
    BY <2>1, <2>2
<1> QED
  BY <1>1, <1>2, <1>3

\* Bases tell component lists and parameters apart.
LEMMA BaseDetermines ==
    ASSUME NEW m, NEW t, NEW n, NEW u, NEW types, NEW f, NEW g,
           SignatureBase(m, t, types, f) = SignatureBase(n, u, types, g),
           ListOf(f.items), ListOf(g.items)
    PROVE  /\ f.items = g.items /\ f.params = g.params
           /\ \A i \in DOMAIN f.items : ComponentValue(m, t, types, f.items[i].c)
                                           = ComponentValue(n, u, types, g.items[i].c)
<1>1. f.items = g.items
  BY BaseValues, SeqDef DEF ListOf
<1> QED
  BY <1>1, BaseValues

\* Lower case is lower case already.
LEMMA LowerTwice ==
    ASSUME NEW n
    PROVE  ToLower(ToLower(n)) = ToLower(n)
BY LowerCaseAssumption DEF ToLower

\* Merging a member leaves what counts for every other label.
LEMMA MergeKeeps ==
    ASSUME NEW header, NEW label, NEW value, "occ" \in DOMAIN header, label \in DOMAIN header.occ
    PROVE  LET merged == Merge(header, label, value)
           IN  /\ label \in Labels(merged) /\ Get(merged, label) = value
               /\ \A l \in (DOMAIN header.occ) \ {label} :
                     /\ l \in Labels(merged) <=> l \in Labels(header)
                     /\ l \in Labels(header) => Get(merged, l) = Get(header, l)
               /\ \A l : l \in Labels(merged) => l \in DOMAIN header.occ
<1> DEFINE merged == Merge(header, label, value)
           occ == [l \in DOMAIN header.occ |->
                      CASE l = label -> <<value>>
                        [] l # label /\ header.occ[l] # <<>> -> <<Last(header.occ[l])>>
                        [] OTHER -> <<>>]
<1>1. merged.occ = occ
  BY DEF Merge
<1>2. occ[label] = <<value>>
  OBVIOUS
<1>3. \A l \in (DOMAIN header.occ) \ {label} :
          occ[l] = IF header.occ[l] # <<>> THEN <<Last(header.occ[l])>> ELSE <<>>
  OBVIOUS
<1>4. \A x : <<x>> # <<>> /\ Last(<<x>>) = x
  BY DEF Last
<1>5. DOMAIN occ = DOMAIN header.occ
  OBVIOUS
<1> HIDE DEF occ, merged
<1>6. label \in Labels(merged) /\ Get(merged, label) = value
  BY <1>1, <1>2, <1>4, <1>5 DEF Labels, Get
<1>7. ASSUME NEW l \in (DOMAIN header.occ) \ {label}
      PROVE  /\ l \in Labels(merged) <=> l \in Labels(header)
             /\ l \in Labels(header) => Get(merged, l) = Get(header, l)
  BY <1>1, <1>3, <1>4, <1>5 DEF Labels, Get
<1>8. \A l : l \in Labels(merged) => l \in DOMAIN header.occ
  BY <1>1, <1>5 DEF Labels
<1> QED
  BY <1>6, <1>7, <1>8 DEF merged
-----------------------------------------------------------------------------
(* What keeps the value of a component from one message to another *)

\* What a component reads of request a, it reads of request b; but for what
\* the request line says, which Carries asks for where it is covered.
AsRead(q) == [method |-> IF q.method = "" THEN "GET" ELSE q.method, path |-> Path(q), query |-> q.query]
ReadsAs(a, b) == AsRead(a) = AsRead(b) /\ (a.host # NoHost => b.host = a.host)
\* A signature field that has not changed, or one of its members.
MemberCarries(x, y, key) ==
    \/ y = x
    \/ key # "" /\ (x.ok => y.ok) /\ (key \in Labels(x) => key \in Labels(y) /\ Get(y, key) = Get(x, key))
FieldCarries(x, y, name) ==
    /\ name \in DOMAIN x <=> name \in DOMAIN y
    /\ name \in DOMAIN x => y[name] = x[name]
TargetCarries(t, u, c) ==
    /\ c.name = "@target-uri" => u = t
    /\ c.name = "@authority" => u.authority = t.authority
    /\ c.name = "@scheme" => u.scheme = t.scheme
Carries(m, n, c) ==
    /\ ReadsAs(m.req, n.req) /\ FieldCarries(m.fields, n.fields, c.name)
    /\ c.name = "@request-target" => RequestTarget(n.req) = RequestTarget(m.req)
    /\ c.name = "signature-input" => MemberCarries(m.inputs, n.inputs, c.key)
    /\ c.name = "signature" => MemberCarries(m.sigs, n.sigs, c.key)

\* A request reads like itself.
LEMMA ReadsAsItself == \A q : ReadsAs(q, q)
BY DEF ReadsAs

\* Where a component carries over it has a value if it had one, and the same.
LEMMA ValueCarries ==
    ASSUME NEW m, NEW n, NEW t, NEW u, NEW types, NEW c,
           Carries(m, n, c), TargetCarries(t, u, c), HasValue(m, types, c)
    PROVE  HasValue(n, types, c) /\ ComponentValue(n, u, types, c) = ComponentValue(m, t, types, c)
<1>1. /\ (IF m.req.method = "" THEN "GET" ELSE m.req.method) = (IF n.req.method = "" THEN "GET" ELSE n.req.method)
      /\ Path(m.req) = Path(n.req) /\ m.req.query = n.req.query
  <2>1. AsRead(m.req) = AsRead(n.req)
    BY DEF Carries, ReadsAs
  <2>2. /\ AsRead(m.req).method = AsRead(n.req).method /\ AsRead(m.req).path = AsRead(n.req).path
        /\ AsRead(m.req).query = AsRead(n.req).query
    BY <2>1
  <2> QED
    BY <2>2 DEF AsRead
<1>2. FieldCarries(m.fields, n.fields, c.name) /\ (m.req.host # NoHost => n.req.host = m.req.host)
  BY DEF Carries, ReadsAs
<1>3. CASE c.name = "@query-param"
  <2>1. /\ ComponentValue(m, t, types, c) = <<m.req.query[CHOOSE i \in ParamAt(m.req.query, c.param) : TRUE].val>>
        /\ ComponentValue(n, u, types, c) = <<n.req.query[CHOOSE i \in ParamAt(n.req.query, c.param) : TRUE].val>>
    BY <1>3 DEF ComponentValue
  <2>2. HasValue(n, types, c) <=> HasValue(m, types, c)
    BY <1>1, <1>3 DEF HasValue
  <2> QED
    BY <1>1, <2>1, <2>2
<1>4. CASE c.name = "signature-input"
  <2>1. MemberCarries(m.inputs, n.inputs, c.key) /\ HeaderReadable(m.inputs, types, c)
    BY <1>4 DEF Carries, HasValue, DerivedNames
  <2>2. HeaderReadable(n.inputs, types, c) /\ HeaderValue(n.inputs, c) = HeaderValue(m.inputs, c)
    BY <2>1 DEF MemberCarries, HeaderReadable, HeaderValue
  <2> QED
    BY <1>4, <2>2 DEF HasValue, ComponentValue, DerivedNames
<1>5. CASE c.name = "signature"
  <2>1. MemberCarries(m.sigs, n.sigs, c.key) /\ HeaderReadable(m.sigs, types, c)
    BY <1>5 DEF Carries, HasValue, DerivedNames
  <2>2. HeaderReadable(n.sigs, types, c) /\ HeaderValue(n.sigs, c) = HeaderValue(m.sigs, c)
    BY <2>1 DEF MemberCarries, HeaderReadable, HeaderValue
  <2> QED
    BY <1>5, <2>2 DEF HasValue, ComponentValue, DerivedNames
<1>6. CASE c.name \in DerivedNames \ {"@query-param"}
  <2>1. HasValue(n, types, c)
    BY <1>6 DEF HasValue, DerivedNames
  <2>2. CASE c.name = "@method"
    BY <1>1, <2>1, <2>2 DEF ComponentValue
  <2>3. CASE c.name \in {"@target-uri", "@authority", "@scheme", "@path", "@query"}
    BY <1>1, <2>1, <2>3 DEF ComponentValue, TargetCarries
  <2>4. CASE c.name = "@request-target"
    BY <2>1, <2>4 DEF ComponentValue, Carries
  <2> QED
    BY <1>6, <2>2, <2>3, <2>4 DEF DerivedNames
<1>7. CASE c.name \notin DerivedNames \union {"signature", "signature-input"}
  <2> DEFINE x == FieldLines(m, c.name)
             y == FieldLines(n, c.name)
  <2>1. Readable(x, types, c)
    BY <1>7 DEF HasValue, DerivedNames
  <2>2. x # <<>>
    BY <2>1 DEF Readable
  <2>3. x = y
    BY <1>2, <2>2 DEF FieldLines, FieldCarries
  <2>4. ComponentValue(m, t, types, c) = FieldValue(x, types, c) /\ ComponentValue(n, u, types, c) = FieldValue(y, types, c)
    BY <1>7 DEF ComponentValue, DerivedNames
  <2>5. HasValue(n, types, c) <=> Readable(y, types, c)
    BY <1>7 DEF HasValue, DerivedNames
  <2> HIDE DEF x, y
  <2> QED
    BY <2>1, <2>3, <2>4, <2>5
<1> QED
  BY <1>3, <1>4, <1>5, <1>6, <1>7 DEF DerivedNames

\* And so a base over such components is the same.
LEMMA BaseCarries ==
    ASSUME NEW m, NEW n, NEW t, NEW u, NEW types, NEW input, HasBase(m, types, input.items),
           \A i \in DOMAIN input.items :
              Carries(m, n, input.items[i].c) /\ TargetCarries(t, u, input.items[i].c)
    PROVE  HasBase(n, types, input.items)
           /\ SignatureBase(n, u, types, input) = SignatureBase(m, t, types, input)
<1>1. \A i \in DOMAIN input.items :
          /\ HasValue(n, types, input.items[i].c)
          /\ ComponentValue(n, u, types, input.items[i].c) = ComponentValue(m, t, types, input.items[i].c)
  BY ValueCarries DEF HasBase
<1> QED
  BY <1>1 DEF HasBase, SignatureBase

RequestFields == {"method", "urlScheme", "urlHost", "host", "tls", "path", "query", "forceQuery", "uri"}
\* A request reads behind the network as it did before, and so does its
\* request line, but for a bare "?".
LEMMA InboundReads ==
    ASSUME NEW r, RequestFields \subseteq DOMAIN r, r.uri = <<>>, NEW tls
    PROVE  /\ ReadsAs(r, Inbound(r, tls)) /\ Inbound(r, tls).uri # <<>>
           /\ ~BareQuery(r) => RequestTarget(Inbound(r, tls)) = RequestTarget(r)
<1> DEFINE q == Inbound(r, tls)
<1>1. /\ q.method = IF r.method = "" THEN "GET" ELSE r.method
      /\ q.path = IF r.path = "" THEN "/" ELSE r.path
      /\ q.query = r.query
      /\ q.uri = IF BareQuery(r) THEN Append(<<Path(r), r.query>>, "?") ELSE <<Path(r), r.query>>
      /\ q.host = IF r.host = NoHost THEN r.urlHost ELSE r.host
  BY DEF Inbound, RequestFields
<1> HIDE DEF q
<1>2. q.uri # <<>>
  <2>1. \A a, b : <<a, b>> # <<>> /\ Append(<<a, b>>, "?") # <<>>
    OBVIOUS
  <2> QED
    BY <1>1, <2>1
<1>3. (IF q.method = "" THEN "GET" ELSE q.method) = (IF r.method = "" THEN "GET" ELSE r.method)
  BY <1>1
<1>4. Path(q) = Path(r)
  BY <1>1 DEF Path
<1>5. AsRead(q) = AsRead(r)
  BY <1>1, <1>3, <1>4 DEF AsRead
<1>6. ~BareQuery(r) => RequestTarget(q) = RequestTarget(r)
  BY <1>1, <1>2 DEF RequestTarget
<1> QED
  BY <1>1, <1>2, <1>5, <1>6 DEF ReadsAs, q

\* So it does in absolute form, but for its request line.
LEMMA AbsoluteReads ==
    ASSUME NEW r, RequestFields \subseteq DOMAIN r, r.uri = <<>>
    PROVE  ReadsAs(r, InboundAbsolute(r)) /\ InboundAbsolute(r).uri # <<>>
<1> DEFINE o == Inbound(r, FALSE)
           q == InboundAbsolute(r)
<1>1. ReadsAs(r, o) /\ o.uri # <<>>
  BY InboundReads
<1>2. o.uri \in {<<Path(r), r.query>>, Append(<<Path(r), r.query>>, "?")} /\ DOMAIN o = DOMAIN r
  BY DEF Inbound, RequestFields
<1> HIDE DEF o
<1>3. /\ q.method = o.method /\ q.path = o.path /\ q.query = o.query /\ q.host = o.host
      /\ q.uri = <<r.urlScheme, o.host>> \o o.uri
  BY <1>2 DEF InboundAbsolute, RequestFields, o
<1> HIDE DEF q
<1>4. q.uri # <<>>
  <2>1. \A a, b, c, d : <<a, b>> \o <<c, d>> # <<>> /\ <<a, b>> \o Append(<<c, d>>, "?") # <<>>
    OBVIOUS
  <2> QED
    BY <1>2, <1>3, <2>1
<1>5. AsRead(q) = AsRead(o)
  BY <1>3 DEF AsRead, Path
<1> QED
  BY <1>1, <1>3, <1>4, <1>5 DEF ReadsAs, q
===============================================================================
