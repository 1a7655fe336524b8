-------------------------- MODULE MCMessageSigning --------------------------
(* Small requests, fields and component lists for MessageSigning. *)
EXTENDS MessageSigning

Lower == [n \in {"X", "H"} |-> IF n = "X" THEN "x" ELSE "h"]
Algs == [k \in {"k1", "k2"} |-> IF k = "k1" THEN "ed25519" ELSE "hmac-sha256"]

E(k, v, r) == [key |-> k, val |-> v, raw |-> r]
a1 == E("a", "1", "canonical")
a2 == E("a", "2", "canonical")
b1 == E("b", "1", "canonical")

Req(m, s, h, p) ==
    [method |-> m, urlScheme |-> s, urlHost |-> h, host |-> NoHost, tls |-> FALSE,
     path |-> p, query |-> <<a1, b1>>, forceQuery |-> FALSE, uri |-> <<>>]
Host(n, p) == [name |-> n, port |-> p]
OneRequest == {Req("GET", "https", Host("h", ""), "/p")}
ManyRequests ==
    {Req(m, s, h, p) : m \in {"", "POST"}, s \in {"http", "https"}, p \in {"", "/p"},
                       h \in {Host("h", ""), Host("H", "443"), Host("h", "80"), Host("h", "8080")}}
BareRequests ==
    {[Req("GET", s, Host("h", ""), "/p") EXCEPT !.query = <<>>, !.forceQuery = TRUE] : s \in {"http", "https"}}
HTTPSRequests == {r \in ManyRequests : r.urlScheme = "https" /\ r.urlHost.port \in {"", "443"}}

Field(name) == Plain(name)
KeyOf(name, k) == [Plain(name) EXCEPT !.key = k]
SF(name) == [Plain(name) EXCEPT !.sf = TRUE]
BS(name) == [Plain(name) EXCEPT !.bs = TRUE]
Param(n) == [Plain("@query-param") EXCEPT !.param = n]

NoContents == [n \in {"x"} |-> {<<<<a1>>>>}]
SomeContents ==
    [n \in {"x"} |->
        {<<>>, <<<<a1>>>>, <<<<a1>>, <<b1>>>>, <<<<a1, b1>>>>, <<<<a1>>, <<a2>>>>,
         <<<<E("a", "1", "respelled")>>>>, <<<<E("a", "1", "text")>>>>, <<<<E("a", "1", "nonascii")>>>>}]
Dictionaries == [n \in {"x", "signature"} |-> "dictionary"]

\* Lists over fields and over the target.
FieldLists ==
    {<<Plain("@method"), Field("X")>>, <<Plain("@method"), BS("x")>>,
     <<SF("x")>>, <<KeyOf("x", "a"), Param("b")>>, <<Field("x"), BS("x")>>,
     <<Field("x"), Field("x")>>}
TargetLists ==
    {DefaultComponents,
     <<Plain("@authority"), Plain("@scheme"), Plain("@request-target")>>,
     <<Plain("@path"), Plain("@query"), Plain("host")>>,
     <<Plain("@status")>>}
\* One component of the request each.
PartLists ==
    {<<c>> : c \in {Plain(n) : n \in {"@method", "@target-uri", "@authority", "@scheme",
                                    "@request-target", "@path", "@query", "host"}}
                   \union {Param("a")}}
Rewrites ==
    [part \in {"method", "host", "tls", "path", "query"} |->
        CASE part = "method" -> {"POST"} [] part = "host" -> {Host("e", "")}
          [] part = "tls" -> {FALSE} [] part = "path" -> {"/q"}
          [] part = "query" -> {<<a1, a2>>, <<b1, a1>>, <<a2, b1>>}]
\* Lists over other signatures.
MergeLists ==
    {<<Plain("@method")>>, <<KeyOf("signature", "l1")>>, <<Plain("signature-input")>>, <<SF("signature")>>}

Input(items, created, expires) ==
    [items |-> items, params |-> [created |-> created, expires |-> expires, alg |-> Absent]]
Undated == Input(<<Identifier(Plain("@method"))>>, Absent, Absent)
Respelled == Input(<<[c |-> KeyOf("signature", "l1"), form |-> "respelled"]>>, 1, Absent)
Foreign == Input(<<[c |-> Plain("@method"), form |-> "foreign"]>>, 1, Absent)
Dated == {Input(<<Identifier(Plain("@method"))>>, created, expires) :
            created \in {0, 2, Absent, IllTyped}, expires \in {1, Absent, IllTyped}}
AtZero == Input(<<Identifier(Plain("@method"))>>, 1, ZeroTime)

Policy(req, age, tol) == [required |-> req, maxAge |-> age, tolerance |-> tol]
SomePolicies == {Policy({}, 0, 0), Policy({Plain("@method")}, 1, 0)}
YearOne == -9   \* before every time in use

Setting(requests, contents, lists, labels, ttls, peers, maxSigned, maxEdits) ==
    [requests |-> requests, contents |-> contents, lists |-> lists, labels |-> labels,
     ttls |-> ttls, peers |-> peers, maxSigned |-> maxSigned, maxEdits |-> maxEdits,
     scheme |-> "", authority |-> NoHost, ends |-> {FALSE},
     rewrites |-> [part \in {"method"} |-> {"GET", "POST"}]]

\* Two signers and foreign peers on one request, garbage and duplicates.
Merging == Setting(OneRequest, NoContents, MergeLists, {"l1", "l2"}, {0, 1},
                   {Undated, Respelled, Foreign}, 2, 1)
\* Two edits of a covered field, under every component parameter.
Rewriting == Setting(OneRequest, SomeContents, FieldLists, {"l1"}, {1}, {}, 1, 2)
\* Every form of request, to a verifier that asks its connection, ...
Direct == Setting(ManyRequests \union BareRequests, NoContents, TargetLists, {"l1", "l2"}, {1}, {}, 2, 0)
\* ... and to one behind a proxy, told the external scheme and authority.
Proxied == [Direct EXCEPT !.requests = HTTPSRequests, !.scheme = "https",
                          !.authority = Host("h", ""), !.ends = {TRUE, FALSE}]
\* Two edits of the request, under every component of it.
Retargeting == [Setting(OneRequest, NoContents, PartLists, {"l1"}, {1}, {}, 1, 2) EXCEPT !.rewrites = Rewrites]
\* Peers' parameters of every kind, over the clock.
Dating == Setting(OneRequest, NoContents, {}, {"l1"}, {}, Dated, 1, 1)
\* Labels signed under again, by peers, beside signatures that cover them.
Reusing == [Setting(OneRequest, NoContents, {<<Plain("@method")>>, <<KeyOf("signature", "l1")>>},
                    {"l1", "l2", "l3"}, {0}, {Undated}, 4, 0) EXCEPT !.ends = {}]
EverySetting == {Merging, Rewriting, Retargeting, Dating, Direct, Proxied, Reusing}

ZeroPeer == {Setting(OneRequest, NoContents, MergeLists, {"l1", "l2"}, {0, 1}, {AtZero}, 2, 0)}
=============================================================================
