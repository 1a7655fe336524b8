----------------------------- MODULE MCTransport -----------------------------
(* Requests of every shape, and profiles of every digest mode. *)
EXTENDS Transport

CONSTANT badLabel

Lower == [n \in {"H"} |-> "h"]
Algs == [k \in {"k1", "k2"} |-> IF k = "k1" THEN "ed25519" ELSE "hmac-sha256"]
YearOne == -9

Host(n, p) == [name |-> n, port |-> p]
Request(m, h, host) ==
    [method |-> m, urlScheme |-> "https", urlHost |-> h, host |-> host, tls |-> FALSE,
     path |-> "/p", query |-> <<>>, forceQuery |-> FALSE, uri |-> <<>>]
MsgLabels == {"sig1", "l1", badLabel}
NoMembers == [ok |-> TRUE, occ |-> [l \in MsgLabels |-> <<>>]]
E(v) == <<<<[key |-> "", val |-> v, raw |-> "text"]>>>>

Msg(req, x, digest, inputs, sigs) ==
    [req |-> req, fields |-> [n \in {"x", "content-digest"} |-> IF n = "x" THEN x ELSE digest],
     inputs |-> inputs, sigs |-> sigs]
Offer(msg, body, fails, again) == [msg |-> msg, body |-> body, fails |-> fails, again |-> again]

\* What another signer put there before.
Earlier(l) ==
    LET input == [items |-> <<Identifier(Plain("@method"))>>, params |-> [created |-> 1]]
        plain == Msg(Request("POST", Host("h", ""), NoHost), E("1"), <<>>, NoMembers, NoMembers)
        sig == KeySign("k2", SignatureBase(plain, Target(plain.req, "", NoHost),
                                           [n \in {} |-> "item"], input))
    IN  AddSignature(plain, l, input, sig)

Bodies == {<<>>, <<"x">>, <<"x", "y">>, <<"x", "y", "x">>}
SomeOffers ==
    \* every body, one that cannot be read to its end, one that cannot be read again
    {Offer(Msg(Request(m, Host("h", ""), NoHost), E("1"), <<>>, NoMembers, NoMembers), b, f, b) :
        m \in {"", "POST", "HEAD"}, b \in Bodies, f \in BOOLEAN}
    \union {Offer(Msg(Request("POST", Host("h", ""), NoHost), E("1"), <<>>, NoMembers, NoMembers),
                  <<"x">>, FALSE, Absent)}
    \* every destination, the Host header set by the caller or not
    \union {Offer(Msg(Request("POST", h, host), E("1"), <<>>, NoMembers, NoMembers), <<"x">>, FALSE, <<"x">>) :
              h \in {Host("H", ""), Host("h", "443"), Host("e", "")},
              host \in {NoHost, Host("h", ""), Host("v", "")}}
    \* a bare "?"
    \union {Offer(Msg([Request("POST", Host("h", ""), NoHost) EXCEPT !.forceQuery = TRUE], E("1"), <<>>,
                      NoMembers, NoMembers), <<"x">>, FALSE, <<"x">>)}
    \* a missing field, the caller's own digest, the caller's own signatures
    \union {Offer(Msg(Request("POST", Host("h", ""), NoHost), x, d, NoMembers, NoMembers), b, FALSE, b) :
              x \in {<<>>, E("1")}, d \in {CD!Value("sha-256", <<"y">>)}, b \in {<<>>, <<"x">>}}
    \union {Offer(Earlier(l), b, FALSE, b) : l \in {"sig1", "l1"}, b \in {<<>>, <<"x">>}}
    \union {Offer([Earlier("l1") EXCEPT !.inputs.ok = FALSE], <<"x">>, FALSE, <<"x">>)}

KeyOf(name, k) == [Plain(name) EXCEPT !.key = k]
Profile(comps, mode, label, ttl, nonce, alg, auths, max) ==
    [coverage |-> [mode |-> mode, components |-> comps, types |-> [n \in {} |-> "item"]],
     label |-> label, keyid |-> "i1", tag |-> "", ttl |-> ttl, nonce |-> nonce,
     includeAlg |-> alg, digest |-> "", authorities |-> auths, maxBody |-> max]
SomeProfiles ==
    {Profile(<<>>, "", "", 0, FALSE, FALSE, {}, 2),
     Profile(<<Plain("@method"), Plain("@authority"), Plain("x")>>, "always", "l1", 2, TRUE, FALSE,
             {Host("h", "")}, 2),
     Profile(<<Plain("@request-target"), Plain("@path"), Plain("@scheme")>>, "never", "", 1, FALSE, TRUE, {Host("h", "")}, 0),
     Profile(<<Plain("@target-uri")>>, "when-body", "", 0, FALSE, FALSE,
             {Host("H", ""), Host("h", "443")}, -1),
     Profile(<<KeyOf("signature", "l1")>>, "", "", 1, TRUE, TRUE, {}, 0)}
BadLabel == {Profile(<<>>, "", badLabel, 0, FALSE, FALSE, {}, 2)}

Location(scheme, host, path, query) ==
    [scheme |-> scheme, host |-> host, path |-> path, query |-> query, forceQuery |-> FALSE]
Elsewhere ==
    {[Location("", NoHost, "/q", <<>>) EXCEPT !.forceQuery = TRUE],
     Location("", Host("e", ""), "/p", <<>>),
     Location("https", Host("h", "443"), "/p", <<[key |-> "a", val |-> "1"]>>),
     Location("http", Host("h", ""), "/p", <<>>),
     Location("https", Host("e", ""), "/p", <<>>)}
==============================================================================
