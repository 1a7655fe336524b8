--------------------------- MODULE ContentDigest ---------------------------
(***************************************************************************)
(* Package contentdigest: the Content-Digest field.  A field is lines of   *)
(* elements as in Httpsig, an element's key being an algorithm and its     *)
(* value a digest, a number in place of bytes, or an inner list.  The      *)
(* digest of a body is the body itself: different bodies, different        *)
(* digests.                                                                *)
(***************************************************************************)
EXTENDS Sequences, SequencesExt

Supported == {"sha-256", "sha-512"}
Digest(alg, body) == [alg |-> alg, of |-> body]

Value(alg, body) == <<<<[key |-> alg, val |-> Digest(alg, body), raw |-> "canonical"]>>>>

\* The member that counts for each algorithm.
Entries(es) ==
    {es[i] : i \in {j \in DOMAIN es : \A n \in DOMAIN es : es[n].key = es[j].key => n <= j}}

\* Every supported entry matches, and one of them is of an accepted
\* algorithm; an empty accepted set is the caller's error.
Verify(lines, body, accepted) ==
    LET es == FlattenSeq(lines)
    IN  /\ \A i \in DOMAIN es : es[i].raw \in {"canonical", "respelled", "inner list"}
        /\ \A e \in Entries(es) :
              e.raw # "inner list" /\ (e.key \in Supported => e.val = Digest(e.key, body))
        /\ \E e \in Entries(es) : e.key \in accepted \intersect Supported
=============================================================================
