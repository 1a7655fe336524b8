----------------------------- MODULE SigConfig -----------------------------
(***************************************************************************)
(* Package sigconfig: what a valid policy or profile may hold, and the     *)
(* defaults it is read with.  Durations are in clock ticks, sizes in bytes,*)
(* both Go integers; a component list is as ParseComponent reads it.       *)
(***************************************************************************)
EXTENDS Httpsig

CONSTANTS
    DefaultMaxAge, DefaultMaxBodyBytes

ASSUME DefaultsAssumption ==
    DefaultMaxAge \in Nat \ {0} /\ DefaultMaxBodyBytes \in Nat \ {0}

\* Coverage.
DigestMode(coverage) == IF coverage.mode = "" THEN "when-body" ELSE coverage.mode

HTTPComponentsOK(coverage) ==
    LET cs == coverage.components
    IN  /\ \A i \in DOMAIN cs :
            /\ Valid(cs[i])
            /\ cs[i].name # "content-digest"
            /\ cs[i].sf => cs[i].name \in DOMAIN coverage.types
        /\ \A i, j \in DOMAIN cs : i < j => cs[i] # cs[j]

ValidCoverage(coverage) ==
    /\ coverage.mode \in {"", "when-body", "always", "never"}
    /\ \A n \in DOMAIN coverage.types : coverage.types[n] \in {"item", "list", "dictionary"}
    /\ HTTPComponentsOK(coverage)
    /\ \A n \in DOMAIN coverage.types :
          \E i \in DOMAIN coverage.components :
              coverage.components[i].sf /\ coverage.components[i].name = n

\* io.ReadAll of an io.LimitReader of n bytes.
Limited(bytes, n) == IF n <= 0 THEN <<>> ELSE SubSeq(bytes, 1, Min({Len(bytes), n}))

\* VerifyPolicy.
AgeLimit(policy) ==
    CASE policy.maxAge = 0 -> DefaultMaxAge
      [] policy.maxAge < 0 -> 0
      [] OTHER -> policy.maxAge
BodyLimit(config) ==
    CASE config.maxBody = 0 -> DefaultMaxBodyBytes
      [] config.maxBody < 0 -> -1
      [] OTHER -> config.maxBody
AcceptedDigests(policy) ==
    IF policy.digests = {} THEN {"sha-256", "sha-512"} ELSE policy.digests

ValidPolicy(policy) ==
    /\ ValidCoverage(policy.coverage)
    /\ policy.coverage.mode # "never"
    /\ policy.digests \subseteq {"sha-256", "sha-512"}
    /\ policy.tolerance >= 0

\* SigningProfile.
ValidProfile(profile) ==
    /\ ValidCoverage(profile.coverage)
    /\ profile.digest \in {"", "sha-256", "sha-512"}
    /\ profile.ttl >= 0
=============================================================================
