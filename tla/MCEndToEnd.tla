----------------------------- MODULE MCEndToEnd -----------------------------
(* One request, with a body that a redirect may drop or take along, or one  *)
(* that cannot be signed.                                                   *)
EXTENDS EndToEnd

Lower == [n \in {} |-> ""]
Algs == [k \in {"k1"} |-> "ed25519"]
Owners == [k \in {"k1"} |-> "alice"]
YearOne == -9
Off == {-1, 1}

MsgLabels == {"sig1"}
NoMembers == [ok |-> TRUE, occ |-> [l \in MsgLabels |-> <<>>]]
ServerHost == [name |-> "h", port |-> ""]
Request(method) ==
    [method |-> method, urlScheme |-> "https", urlHost |-> ServerHost, host |-> NoHost,
     tls |-> FALSE, path |-> "/p", query |-> <<>>,
     forceQuery |-> FALSE, uri |-> <<>>]
Offer(bytes) ==
    [msg |-> [req |-> Request("POST"), fields |-> [n \in {"content-digest"} |-> <<>>],
              inputs |-> NoMembers, sigs |-> NoMembers],
     body |-> bytes, fails |-> FALSE, again |-> bytes]
\* The latter has headers that Sign cannot read.
SomeOffers == {Offer(<<"x">>), [Offer(<<"x">>) EXCEPT !.msg.inputs.ok = FALSE]}
Forged == {<<"y">>}
Elsewhere ==
    {[scheme |-> "", host |-> NoHost, path |-> "/q", query |-> <<>>, forceQuery |-> FALSE]}

Coverage(mode) ==
    [mode |-> mode, components |-> DefaultComponents, types |-> [n \in {} |-> "item"]]
Profile(mode, ttl) ==
    [coverage |-> Coverage(mode), label |-> "", keyid |-> "i1", tag |-> "", ttl |-> ttl,
     nonce |-> FALSE, includeAlg |-> FALSE, digest |-> "", authorities |-> {}, maxBody |-> 2]
SomeProfiles == {Profile("", 0), Profile("always", 3)}
SomePolicy ==
    [coverage |-> Coverage(""), maxAge |-> 3, tolerance |-> 1, algorithms |-> {},
     digests |-> {}, tag |-> "", scheme |-> "https", authority |-> ServerHost, maxBody |-> 2]
=============================================================================
