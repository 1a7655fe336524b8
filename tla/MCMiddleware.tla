---------------------------- MODULE MCMiddleware ----------------------------
(* Honest statements, and what a peer can make of them on the way. *)
EXTENDS Middleware

Lower == [n \in {"H"} |-> "h"]
Algs == [k \in {"k1", "k2", "k3"} |->
            CASE k = "k1" -> "ed25519" [] k = "k2" -> "hmac-sha256" [] OTHER -> "rsa-v1_5-sha256"]
Owners == [k \in {"k1", "k2", "k3"} |->
            CASE k = "k1" -> "alice" [] k = "k2" -> "bob" [] OTHER -> "carol"]
YearOne == -9

Request == [method |-> "POST", urlScheme |-> "", urlHost |-> NoHost,
            host |-> [name |-> "h", port |-> ""], tls |-> FALSE,
            path |-> "/p", query |-> <<>>, forceQuery |-> FALSE,
            uri |-> <<"/p", <<>>>>]
NoTypes == [n \in {} |-> "item"]
MsgLabels == {"l1", "l2"}
Header(vals, good) == [ok |-> good, occ |-> vals]
Message(digest, inputs, signatures) ==
    [req |-> Request, fields |-> [n \in {"content-digest"} |-> digest],
     inputs |-> inputs, sigs |-> signatures]

\* What a client signs: the digest of its body, if there is one, or always.
DigestOf(bytes) == IF bytes = <<>> THEN <<>> ELSE CD!Value("sha-256", bytes)
Stated(key, keyid, tag, created, expires, bytes, digest) ==
    LET comps == <<Plain("@method")>>
                 \o (IF digest = <<>> THEN <<>> ELSE <<Plain("content-digest")>>)
        none == Header([l \in MsgLabels |-> <<>>], TRUE)
    IN  [key |-> key, body |-> bytes,
         input |-> [items |-> Covered(comps),
                    params |-> [created |-> created, expires |-> expires, alg |-> Absent,
                                keyid |-> keyid, tag |-> tag]],
         msg |-> Message(digest, none, none),
         target |-> Target(Request, "", NoHost)]
Sent(key, keyid, tag, created, expires, bytes) ==
    Stated(key, keyid, tag, created, expires, bytes, DigestOf(bytes))
SentEmpty == Stated("k1", "i1", "t", 1, Absent, <<>>, CD!Value("sha-256", <<>>))

SomeStatements ==
    {Sent("k1", "i1", "t", 1, Absent, <<"x">>),
     Sent("k1", "i1", Absent, 1, Absent, <<"x">>),
     Sent("k2", "i2", "t", 2, 3, <<"x">>),
     Sent("k3", "i2", "t", 1, Absent, <<"x">>),
     Sent("k1", "i1", "t", 1, 1, <<>>),
     Sent("k2", "i1", "t", Absent, Absent, <<"x">>),
     Sent("k2", "i2", "t", 1, Absent, <<"x", "y">>),
     SentEmpty}
Signature(h) == SignatureOf(h, NoTypes)

\* A label's members: none, a statement, an orphan, the wrong types, and one
\* signer's input with another's signature.
NoMember == [input |-> <<>>, sig |-> <<>>]
Member1(h) == [input |-> <<h.input>>, sig |-> <<Signature(h)>>]
Members ==
    {NoMember} \union {Member1(h) : h \in SomeStatements}
    \union {[input |-> <<Malformed>>, sig |-> <<Malformed>>],
            [input |-> <<>>, sig |-> <<Signature(CHOOSE h \in SomeStatements : h.key = "k1")>>]}
Forged ==
    {[input |-> <<h.input>>, sig |-> <<Signature(g)>>] : h, g \in SomeStatements}
Arriving(m1, m2, digest, bytes, fails, good) ==
    [msg |-> Message(digest, Header([l \in MsgLabels |-> IF l = "l1" THEN m1.input ELSE m2.input], good),
                     Header([l \in MsgLabels |-> IF l = "l1" THEN m1.sig ELSE m2.sig], TRUE)),
     body |-> bytes, fails |-> fails]

Digests == {DigestOf(<<>>), DigestOf(<<"x">>), DigestOf(<<"y">>), DigestOf(<<"x", "y">>),
            CD!Value("sha-512", <<"x">>),
            <<CD!Value("sha-256", <<"x">>)[1], CD!Value("sha-512", <<"y">>)[1]>>}
Bodies == {<<>>, <<"x">>, <<"y">>, <<"x", "y">>, <<"x", "y", "x">>}
\* Every pair of members around one body; every body and digest around one
\* member.
ManyArrivals ==
    {Arriving(m1, m2, DigestOf(<<"x">>), <<"x">>, FALSE, TRUE) : m1, m2 \in Members}
    \union {Arriving(m1, NoMember, d, b, f, TRUE) : m1 \in Members, d \in Digests, b \in Bodies, f \in BOOLEAN}
    \union {Arriving(m1, NoMember, DigestOf(<<"x">>), <<"x">>, FALSE, TRUE) : m1 \in Forged}
    \union {Arriving(NoMember, NoMember, <<>>, <<>>, FALSE, FALSE)}
PolicyWith(mode, tag, algs, age, max) ==
    [coverage |-> [mode |-> mode, components |-> <<Plain("@method")>>, types |-> NoTypes],
     maxAge |-> age, tolerance |-> 0, algorithms |-> algs, digests |-> {"sha-256"},
     tag |-> tag, scheme |-> "", authority |-> NoHost, maxBody |-> max]
Strict == {PolicyWith(mode, "t", {"ed25519", "hmac-sha256"}, 1, 2) : mode \in {"", "always"}}
Patient == {[PolicyWith("", "t", {}, MaxInt, 2) EXCEPT !.tolerance = 1]}
Capped == {PolicyWith("", "t", {}, 1, MaxInt)}
=============================================================================
