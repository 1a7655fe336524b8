---------------------------- MODULE EndToEnd_proofs ----------------------------
(***************************************************************************)
(* Theorems about EndToEnd, for every client, server and network that meet *)
(* its assumptions: its types; that what the two sides do together is the  *)
(* abstract channel; that what ought to be served is not rejected.  They   *)
(* rest on what is proved of either side alone, by instances of its proofs *)
(* with EndToEnd's variables.                                              *)
(***************************************************************************)
EXTENDS EndToEnd, SigConfig_proofs

SP == INSTANCE Middleware_proofs WITH
    policy <- Policy, Policies <- {Policy}, Arrivals <- {}, Statements <- {}
CP == INSTANCE Transport_proofs WITH now <- now + skew, pc <- cpc
CD == INSTANCE ContentDigest

-----------------------------------------------------------------------------
(* Every instance has an Httpsig of its own, and they are one *)

\* Names, hosts and marks read the same in every instance ...
LEMMA SameNames ==
    ASSUME NEW x
    PROVE  /\ Server!ToLower(x) = ToLower(x) /\ SP!ToLower(x) = ToLower(x)
           /\ Client!ToLower(x) = ToLower(x) /\ CP!ToLower(x) = ToLower(x)
           /\ Server!NoHost = NoHost /\ SP!NoHost = NoHost /\ Client!NoHost = NoHost /\ CP!NoHost = NoHost
           /\ Server!Path(x) = Path(x) /\ SP!Path(x) = Path(x) /\ Client!Path(x) = Path(x)
           /\ CP!Path(x) = Path(x)
           /\ Server!Plain(x) = Plain(x) /\ SP!Plain(x) = Plain(x) /\ Client!Plain(x) = Plain(x)
           /\ CP!Plain(x) = Plain(x)
           /\ Server!ListOf(x) = ListOf(x) /\ SP!ListOf(x) = ListOf(x) /\ Client!ListOf(x) = ListOf(x)
           /\ CP!ListOf(x) = ListOf(x)
           /\ Server!Malformed = Malformed /\ SP!Malformed = Malformed /\ Client!Malformed = Malformed
           /\ CP!Malformed = Malformed
           /\ Server!Broken = Broken /\ SP!Broken = Broken /\ Client!Broken = Broken /\ CP!Broken = Broken
           /\ Server!DefaultComponents = DefaultComponents /\ SP!DefaultComponents = DefaultComponents
           /\ Client!DefaultComponents = DefaultComponents /\ CP!DefaultComponents = DefaultComponents
BY DEF ToLower, Server!ToLower, SP!ToLower, Client!ToLower, CP!ToLower, NoHost, Server!NoHost,
   SP!NoHost, Client!NoHost, CP!NoHost, Path, Server!Path, SP!Path, Client!Path, CP!Path, Plain,
   Server!Plain, SP!Plain, Client!Plain, CP!Plain, ListOf, Server!ListOf, SP!ListOf, Client!ListOf,
   CP!ListOf, Malformed, Server!Malformed, SP!Malformed, Client!Malformed, CP!Malformed, Broken,
   Server!Broken, SP!Broken, Client!Broken, CP!Broken, DefaultComponents, Server!DefaultComponents,
   SP!DefaultComponents, Client!DefaultComponents, CP!DefaultComponents, ToSet, Server!ToSet, SP!ToSet,
   Client!ToSet, CP!ToSet

\* ... so do targets ...
LEMMA SameTargets ==
    ASSUME NEW x, NEW y, NEW z
    PROVE  /\ Server!NormalAuthority(x, y) = NormalAuthority(x, y)
           /\ SP!NormalAuthority(x, y) = NormalAuthority(x, y)
           /\ Client!NormalAuthority(x, y) = NormalAuthority(x, y)
           /\ CP!NormalAuthority(x, y) = NormalAuthority(x, y)
           /\ Server!Target(x, y, z) = Target(x, y, z) /\ SP!Target(x, y, z) = Target(x, y, z)
           /\ Client!Target(x, y, z) = Target(x, y, z) /\ CP!Target(x, y, z) = Target(x, y, z)
           /\ CP!BareQuery(x) = BareQuery(x) /\ CP!Inbound(x, y) = Inbound(x, y)
BY DEF NormalAuthority, Server!NormalAuthority, SP!NormalAuthority, Client!NormalAuthority,
   CP!NormalAuthority, Target, Server!Target, SP!Target, Client!Target, CP!Target, DefaultPort,
   Server!DefaultPort, SP!DefaultPort, Client!DefaultPort, CP!DefaultPort, ToLower, Server!ToLower,
   SP!ToLower, Client!ToLower, CP!ToLower, NoHost, Server!NoHost, SP!NoHost, Client!NoHost, CP!NoHost,
   BareQuery, CP!BareQuery, Inbound, CP!Inbound, Path, CP!Path

\* ... fields, and the two headers of signatures ...
LEMMA SameHeaders ==
    ASSUME NEW x, NEW y, NEW z
    PROVE  /\ Server!FieldLines(x, y) = FieldLines(x, y) /\ SP!FieldLines(x, y) = FieldLines(x, y)
           /\ Client!FieldLines(x, y) = FieldLines(x, y) /\ CP!FieldLines(x, y) = FieldLines(x, y)
           /\ Server!Labels(x) = Labels(x) /\ SP!Labels(x) = Labels(x) /\ Client!Labels(x) = Labels(x)
           /\ CP!Labels(x) = Labels(x)
           /\ Server!Get(x, y) = Get(x, y) /\ SP!Get(x, y) = Get(x, y) /\ Client!Get(x, y) = Get(x, y)
           /\ CP!Get(x, y) = Get(x, y)
           /\ Server!Merge(x, y, z) = Merge(x, y, z) /\ SP!Merge(x, y, z) = Merge(x, y, z)
           /\ Client!Merge(x, y, z) = Merge(x, y, z) /\ CP!Merge(x, y, z) = Merge(x, y, z)
BY DEF FieldLines, Server!FieldLines, SP!FieldLines, Client!FieldLines, CP!FieldLines, Labels,
   Server!Labels, SP!Labels, Client!Labels, CP!Labels, Get, Server!Get, SP!Get, Client!Get, CP!Get,
   Merge, Server!Merge, SP!Merge, Client!Merge, CP!Merge, NoHost, Server!NoHost, SP!NoHost,
   Client!NoHost, CP!NoHost, Last, Server!Last, SP!Last, Client!Last, CP!Last

\* ... values of components ...
LEMMA SameValues ==
    ASSUME NEW x, NEW y, NEW z, NEW w
    PROVE  /\ Server!HasValue(x, y, z) = HasValue(x, y, z) /\ SP!HasValue(x, y, z) = HasValue(x, y, z)
           /\ Client!HasValue(x, y, z) = HasValue(x, y, z) /\ CP!HasValue(x, y, z) = HasValue(x, y, z)
           /\ Server!ComponentValue(x, y, z, w) = ComponentValue(x, y, z, w)
           /\ SP!ComponentValue(x, y, z, w) = ComponentValue(x, y, z, w)
           /\ Client!ComponentValue(x, y, z, w) = ComponentValue(x, y, z, w)
           /\ CP!ComponentValue(x, y, z, w) = ComponentValue(x, y, z, w)
BY Zenon DEF HasValue, Server!HasValue, SP!HasValue, Client!HasValue, CP!HasValue, ComponentValue,
   Server!ComponentValue, SP!ComponentValue, Client!ComponentValue, CP!ComponentValue, Cardinality,
   Server!Cardinality, SP!Cardinality, Client!Cardinality, CP!Cardinality, DerivedNames,
   Server!DerivedNames, SP!DerivedNames, Client!DerivedNames, CP!DerivedNames, FieldLines,
   Server!FieldLines, SP!FieldLines, Client!FieldLines, CP!FieldLines, HeaderReadable,
   Server!HeaderReadable, SP!HeaderReadable, Client!HeaderReadable, CP!HeaderReadable, ParamAt,
   Server!ParamAt, SP!ParamAt, Client!ParamAt, CP!ParamAt, Readable, Server!Readable, SP!Readable,
   Client!Readable, CP!Readable, FieldValue, Server!FieldValue, SP!FieldValue, Client!FieldValue,
   CP!FieldValue, HeaderValue, Server!HeaderValue, SP!HeaderValue, Client!HeaderValue, CP!HeaderValue,
   Path, Server!Path, SP!Path, Client!Path, CP!Path, NoHost, Server!NoHost, SP!NoHost, Client!NoHost,
   CP!NoHost, Labels, Server!Labels, SP!Labels, Client!Labels, CP!Labels, ASCII, Server!ASCII, SP!ASCII,
   Client!ASCII, CP!ASCII, FlattenSeq, Server!FlattenSeq, SP!FlattenSeq, Client!FlattenSeq,
   CP!FlattenSeq, KeysIn, Server!KeysIn, SP!KeysIn, Client!KeysIn, CP!KeysIn, Structured,
   Server!Structured, SP!Structured, Client!Structured, CP!Structured, Member, Server!Member, SP!Member,
   Client!Member, CP!Member, Get, Server!Get, SP!Get, Client!Get, CP!Get, Last, Server!Last, SP!Last,
   Client!Last, CP!Last, HasParam, Server!HasParam, SP!HasParam, Client!HasParam, CP!HasParam,
   RequestTarget, Server!RequestTarget, SP!RequestTarget, Client!RequestTarget, CP!RequestTarget

\* ... signature bases ...
LEMMA SameBases ==
    ASSUME NEW x, NEW y, NEW z, NEW w
    PROVE  /\ Server!HasBase(x, y, z) = HasBase(x, y, z) /\ SP!HasBase(x, y, z) = HasBase(x, y, z)
           /\ Client!HasBase(x, y, z) = HasBase(x, y, z) /\ CP!HasBase(x, y, z) = HasBase(x, y, z)
           /\ Server!SignatureBase(x, y, z, w) = SignatureBase(x, y, z, w)
           /\ SP!SignatureBase(x, y, z, w) = SignatureBase(x, y, z, w)
           /\ Client!SignatureBase(x, y, z, w) = SignatureBase(x, y, z, w)
           /\ CP!SignatureBase(x, y, z, w) = SignatureBase(x, y, z, w)
           /\ Server!Valid(x) = Valid(x) /\ SP!Valid(x) = Valid(x) /\ Client!Valid(x) = Valid(x)
           /\ CP!Valid(x) = Valid(x)
           /\ Server!ParsesAsComponent(x) = ParsesAsComponent(x)
           /\ SP!ParsesAsComponent(x) = ParsesAsComponent(x)
           /\ Client!ParsesAsComponent(x) = ParsesAsComponent(x)
           /\ CP!ParsesAsComponent(x) = ParsesAsComponent(x)
BY Zenon, SameValues DEF HasBase, Server!HasBase, SP!HasBase, Client!HasBase, CP!HasBase, SignatureBase,
   Server!SignatureBase, SP!SignatureBase, Client!SignatureBase, CP!SignatureBase, Valid, Server!Valid,
   SP!Valid, Client!Valid, CP!Valid, ParsesAsComponent, Server!ParsesAsComponent, SP!ParsesAsComponent,
   Client!ParsesAsComponent, CP!ParsesAsComponent, DerivedNames, Server!DerivedNames, SP!DerivedNames,
   Client!DerivedNames, CP!DerivedNames, RefusedNames, Server!RefusedNames, SP!RefusedNames,
   Client!RefusedNames, CP!RefusedNames, ToLower, Server!ToLower, SP!ToLower, Client!ToLower, CP!ToLower

\* ... signatures as parsed, one by one ...
LEMMA SameSignatures ==
    ASSUME NEW x, NEW y, NEW z, NEW w
    PROVE  /\ Server!WellFormed(x, y, z) = WellFormed(x, y, z)
           /\ SP!WellFormed(x, y, z) = WellFormed(x, y, z)
           /\ Client!WellFormed(x, y, z) = WellFormed(x, y, z)
           /\ CP!WellFormed(x, y, z) = WellFormed(x, y, z)
           /\ Server!Parsed(x, y, z, w) = Parsed(x, y, z, w)
           /\ SP!Parsed(x, y, z, w) = Parsed(x, y, z, w)
           /\ Client!Parsed(x, y, z, w) = Parsed(x, y, z, w)
           /\ CP!Parsed(x, y, z, w) = Parsed(x, y, z, w)
BY Zenon DEF WellFormed, Server!WellFormed, SP!WellFormed, Client!WellFormed, CP!WellFormed, Parsed,
   Server!Parsed, SP!Parsed, Client!Parsed, CP!Parsed, Get, Server!Get, SP!Get, Client!Get, CP!Get,
   HasBase, Server!HasBase, SP!HasBase, Client!HasBase, CP!HasBase, Labels, Server!Labels, SP!Labels,
   Client!Labels, CP!Labels, Malformed, Server!Malformed, SP!Malformed, Client!Malformed, CP!Malformed,
   ParsesAsComponent, Server!ParsesAsComponent, SP!ParsesAsComponent, Client!ParsesAsComponent,
   CP!ParsesAsComponent, Broken, Server!Broken, SP!Broken, Client!Broken, CP!Broken, SignatureBase,
   Server!SignatureBase, SP!SignatureBase, Client!SignatureBase, CP!SignatureBase, Last, Server!Last,
   SP!Last, Client!Last, CP!Last, HasValue, Server!HasValue, SP!HasValue, Client!HasValue, CP!HasValue,
   Valid, Server!Valid, SP!Valid, Client!Valid, CP!Valid, ComponentValue, Server!ComponentValue,
   SP!ComponentValue, Client!ComponentValue, CP!ComponentValue, Cardinality, Server!Cardinality,
   SP!Cardinality, Client!Cardinality, CP!Cardinality, DerivedNames, Server!DerivedNames,
   SP!DerivedNames, Client!DerivedNames, CP!DerivedNames, FieldLines, Server!FieldLines, SP!FieldLines,
   Client!FieldLines, CP!FieldLines, HeaderReadable, Server!HeaderReadable, SP!HeaderReadable,
   Client!HeaderReadable, CP!HeaderReadable, ParamAt, Server!ParamAt, SP!ParamAt, Client!ParamAt,
   CP!ParamAt, Readable, Server!Readable, SP!Readable, Client!Readable, CP!Readable, RefusedNames,
   Server!RefusedNames, SP!RefusedNames, Client!RefusedNames, CP!RefusedNames, ToLower, Server!ToLower,
   SP!ToLower, Client!ToLower, CP!ToLower, FieldValue, Server!FieldValue, SP!FieldValue,
   Client!FieldValue, CP!FieldValue, HeaderValue, Server!HeaderValue, SP!HeaderValue,
   Client!HeaderValue, CP!HeaderValue, Path, Server!Path, SP!Path, Client!Path, CP!Path, NoHost,
   Server!NoHost, SP!NoHost, Client!NoHost, CP!NoHost, ASCII, Server!ASCII, SP!ASCII, Client!ASCII,
   CP!ASCII, FlattenSeq, Server!FlattenSeq, SP!FlattenSeq, Client!FlattenSeq, CP!FlattenSeq, KeysIn,
   Server!KeysIn, SP!KeysIn, Client!KeysIn, CP!KeysIn, Structured, Server!Structured, SP!Structured,
   Client!Structured, CP!Structured, Member, Server!Member, SP!Member, Client!Member, CP!Member,
   HasParam, Server!HasParam, SP!HasParam, Client!HasParam, CP!HasParam, RequestTarget,
   Server!RequestTarget, SP!RequestTarget, Client!RequestTarget, CP!RequestTarget

\* ... and all together ...
LEMMA SameParsing ==
    ASSUME NEW x, NEW y, NEW z
    PROVE  /\ Server!ParseSignatures(x, y, z) = ParseSignatures(x, y, z)
           /\ SP!ParseSignatures(x, y, z) = ParseSignatures(x, y, z)
           /\ Client!ParseSignatures(x, y, z) = ParseSignatures(x, y, z)
           /\ CP!ParseSignatures(x, y, z) = ParseSignatures(x, y, z)
BY SameSignatures, SameHeaders DEF ParseSignatures, Server!ParseSignatures, SP!ParseSignatures,
   Client!ParseSignatures, CP!ParseSignatures

\* ... the checks of Verify ...
LEMMA SameChecks ==
    ASSUME NEW x, NEW y, NEW z, NEW w
    PROVE  /\ Server!Accepts(x, y, z, w) = Accepts(x, y, z, w)
           /\ SP!Accepts(x, y, z, w) = Accepts(x, y, z, w)
           /\ Client!Accepts(x, y, z, w) = Accepts(x, y, z, w)
           /\ CP!Accepts(x, y, z, w) = Accepts(x, y, z, w)
           /\ Server!Covers(x, y) = Covers(x, y) /\ SP!Covers(x, y) = Covers(x, y)
           /\ Client!Covers(x, y) = Covers(x, y) /\ CP!Covers(x, y) = Covers(x, y)
           /\ Server!KeySign(x, y) = KeySign(x, y) /\ SP!KeySign(x, y) = KeySign(x, y)
           /\ Client!KeySign(x, y) = KeySign(x, y) /\ CP!KeySign(x, y) = KeySign(x, y)
           /\ Server!KeyVerify(x, y, z) = KeyVerify(x, y, z)
           /\ SP!KeyVerify(x, y, z) = KeyVerify(x, y, z)
           /\ Client!KeyVerify(x, y, z) = KeyVerify(x, y, z)
           /\ CP!KeyVerify(x, y, z) = KeyVerify(x, y, z)
           /\ Server!TimeOf(x) = TimeOf(x) /\ SP!TimeOf(x) = TimeOf(x) /\ Client!TimeOf(x) = TimeOf(x)
           /\ CP!TimeOf(x) = TimeOf(x)
           /\ Server!Plus(x, y) = Plus(x, y) /\ SP!Plus(x, y) = Plus(x, y)
           /\ Client!Plus(x, y) = Plus(x, y) /\ CP!Plus(x, y) = Plus(x, y)
BY DEF Accepts, Server!Accepts, SP!Accepts, Client!Accepts, CP!Accepts, Covers, Server!Covers,
   SP!Covers, Client!Covers, CP!Covers, KeySign, Server!KeySign, SP!KeySign, Client!KeySign, CP!KeySign,
   KeyVerify, Server!KeyVerify, SP!KeyVerify, Client!KeyVerify, CP!KeyVerify, TimeOf, Server!TimeOf,
   SP!TimeOf, Client!TimeOf, CP!TimeOf, Plus, Server!Plus, SP!Plus, Client!Plus, CP!Plus, Expired,
   Server!Expired, SP!Expired, Client!Expired, CP!Expired, FromFuture, Server!FromFuture, SP!FromFuture,
   Client!FromFuture, CP!FromFuture, TooOld, Server!TooOld, SP!TooOld, Client!TooOld, CP!TooOld

\* ... what Sign puts together ...
LEMMA SameSigning ==
    ASSUME NEW x, NEW y, NEW z, NEW w
    PROVE  /\ Server!Covered(x) = Covered(x) /\ SP!Covered(x) = Covered(x)
           /\ Client!Covered(x) = Covered(x) /\ CP!Covered(x) = Covered(x)
           /\ Server!Created(x) = Created(x) /\ SP!Created(x) = Created(x)
           /\ Client!Created(x) = Created(x) /\ CP!Created(x) = Created(x)
           /\ Server!Expires(x, y) = Expires(x, y) /\ SP!Expires(x, y) = Expires(x, y)
           /\ Client!Expires(x, y) = Expires(x, y) /\ CP!Expires(x, y) = Expires(x, y)
           /\ Server!CanSign(x, y, z, w) = CanSign(x, y, z, w)
           /\ SP!CanSign(x, y, z, w) = CanSign(x, y, z, w)
           /\ Client!CanSign(x, y, z, w) = CanSign(x, y, z, w)
           /\ CP!CanSign(x, y, z, w) = CanSign(x, y, z, w)
           /\ Server!AddSignature(x, y, z, w) = AddSignature(x, y, z, w)
           /\ SP!AddSignature(x, y, z, w) = AddSignature(x, y, z, w)
           /\ Client!AddSignature(x, y, z, w) = AddSignature(x, y, z, w)
           /\ CP!AddSignature(x, y, z, w) = AddSignature(x, y, z, w)
BY Zenon, SameBases, SameHeaders DEF Covered, Server!Covered, SP!Covered, Client!Covered, CP!Covered, Created,
   Server!Created, SP!Created, Client!Created, CP!Created, Expires, Server!Expires, SP!Expires,
   Client!Expires, CP!Expires, CanSign, Server!CanSign, SP!CanSign, Client!CanSign, CP!CanSign,
   AddSignature, Server!AddSignature, SP!AddSignature, Client!AddSignature, CP!AddSignature, Identifier,
   Server!Identifier, SP!Identifier, Client!Identifier, CP!Identifier, ToLower, Server!ToLower,
   SP!ToLower, Client!ToLower, CP!ToLower

\* ... settings and their defaults ...
LEMMA SameSettings ==
    ASSUME NEW x, NEW y
    PROVE  /\ Server!AgeLimit(x) = AgeLimit(x) /\ SP!AgeLimit(x) = AgeLimit(x)
           /\ Client!AgeLimit(x) = AgeLimit(x) /\ CP!AgeLimit(x) = AgeLimit(x)
           /\ Server!BodyLimit(x) = BodyLimit(x) /\ SP!BodyLimit(x) = BodyLimit(x)
           /\ Client!BodyLimit(x) = BodyLimit(x) /\ CP!BodyLimit(x) = BodyLimit(x)
           /\ Server!Limited(x, y) = Limited(x, y) /\ SP!Limited(x, y) = Limited(x, y)
           /\ Client!Limited(x, y) = Limited(x, y) /\ CP!Limited(x, y) = Limited(x, y)
           /\ Server!AcceptedDigests(x) = AcceptedDigests(x)
           /\ SP!AcceptedDigests(x) = AcceptedDigests(x)
           /\ Client!AcceptedDigests(x) = AcceptedDigests(x)
           /\ CP!AcceptedDigests(x) = AcceptedDigests(x)
           /\ Server!DigestMode(x) = DigestMode(x) /\ SP!DigestMode(x) = DigestMode(x)
           /\ Client!DigestMode(x) = DigestMode(x) /\ CP!DigestMode(x) = DigestMode(x)
           /\ Server!ValidPolicy(x) = ValidPolicy(x) /\ SP!ValidPolicy(x) = ValidPolicy(x)
           /\ Client!ValidPolicy(x) = ValidPolicy(x) /\ CP!ValidPolicy(x) = ValidPolicy(x)
           /\ Server!ValidProfile(x) = ValidProfile(x) /\ SP!ValidProfile(x) = ValidProfile(x)
           /\ Client!ValidProfile(x) = ValidProfile(x) /\ CP!ValidProfile(x) = ValidProfile(x)
BY DEF AgeLimit, Server!AgeLimit, SP!AgeLimit, Client!AgeLimit, CP!AgeLimit, BodyLimit,
   Server!BodyLimit, SP!BodyLimit, Client!BodyLimit, CP!BodyLimit, Limited, Server!Limited, SP!Limited,
   Client!Limited, CP!Limited, AcceptedDigests, Server!AcceptedDigests, SP!AcceptedDigests,
   Client!AcceptedDigests, CP!AcceptedDigests, DigestMode, Server!DigestMode, SP!DigestMode,
   Client!DigestMode, CP!DigestMode, ValidPolicy, Server!ValidPolicy, SP!ValidPolicy,
   Client!ValidPolicy, CP!ValidPolicy, ValidProfile, Server!ValidProfile, SP!ValidProfile,
   Client!ValidProfile, CP!ValidProfile, Min, Server!Min, SP!Min, Client!Min, CP!Min, ValidCoverage,
   Server!ValidCoverage, SP!ValidCoverage, Client!ValidCoverage, CP!ValidCoverage, HTTPComponentsOK,
   Server!HTTPComponentsOK, SP!HTTPComponentsOK, Client!HTTPComponentsOK, CP!HTTPComponentsOK, Valid,
   Server!Valid, SP!Valid, Client!Valid, CP!Valid, DerivedNames, Server!DerivedNames, SP!DerivedNames,
   Client!DerivedNames, CP!DerivedNames, RefusedNames, Server!RefusedNames, SP!RefusedNames,
   Client!RefusedNames, CP!RefusedNames, ToLower, Server!ToLower, SP!ToLower, Client!ToLower, CP!ToLower

\* ... and digests.
LEMMA SameDigests ==
    ASSUME NEW x, NEW y, NEW z
    PROVE  /\ Server!CD!Supported = CD!Supported /\ SP!CD!Supported = CD!Supported
           /\ Client!CD!Supported = CD!Supported /\ CP!CD!Supported = CD!Supported
           /\ Server!CD!Digest(x, y) = CD!Digest(x, y) /\ SP!CD!Digest(x, y) = CD!Digest(x, y)
           /\ Client!CD!Digest(x, y) = CD!Digest(x, y) /\ CP!CD!Digest(x, y) = CD!Digest(x, y)
           /\ Server!CD!Value(x, y) = CD!Value(x, y) /\ SP!CD!Value(x, y) = CD!Value(x, y)
           /\ Client!CD!Value(x, y) = CD!Value(x, y) /\ CP!CD!Value(x, y) = CD!Value(x, y)
           /\ Server!CD!Verify(x, y, z) = CD!Verify(x, y, z)
           /\ SP!CD!Verify(x, y, z) = CD!Verify(x, y, z)
           /\ Client!CD!Verify(x, y, z) = CD!Verify(x, y, z)
           /\ CP!CD!Verify(x, y, z) = CD!Verify(x, y, z)
BY DEF CD!Supported, Server!CD!Supported, SP!CD!Supported, Client!CD!Supported, CP!CD!Supported,
   CD!Digest, Server!CD!Digest, SP!CD!Digest, Client!CD!Digest, CP!CD!Digest, CD!Value, Server!CD!Value,
   SP!CD!Value, Client!CD!Value, CP!CD!Value, CD!Verify, Server!CD!Verify, SP!CD!Verify,
   Client!CD!Verify, CP!CD!Verify, CD!Entries, Server!CD!Entries, SP!CD!Entries, Client!CD!Entries,
   CP!CD!Entries, CD!FlattenSeq, Server!CD!FlattenSeq, SP!CD!FlattenSeq, Client!CD!FlattenSeq,
   CP!CD!FlattenSeq

-----------------------------------------------------------------------------
(* The Middleware of the proofs is the server's, the Transport the client's *)

\* What check reads of a request is the same in both ...
LEMMA SameParse ==
    ASSUME NEW a
    PROVE  /\ Server!Parse(a) = SP!Parse(a)
BY SameTargets, SameParsing DEF Server!Parse, SP!Parse

\* ... so is what it reads of the body ...
LEMMA SameReading ==
    ASSUME NEW a
    PROVE  /\ Server!ReadBody(a) = SP!ReadBody(a)
           /\ Server!ReadFails(a) = SP!ReadFails(a)
           /\ Server!TooLarge(a) = SP!TooLarge(a)
           /\ Server!DigestOK(a) = SP!DigestOK(a)
           /\ Server!ToVerify(a) = SP!ToVerify(a)
BY DEF Server!ReadBody, SP!ReadBody, Server!ReadFails, SP!ReadFails, Server!TooLarge, SP!TooLarge,
   Server!DigestOK, SP!DigestOK, Server!ToVerify, SP!ToVerify, Server!Limit, SP!Limit, Server!Limited,
   SP!Limited, Server!Plus, SP!Plus, Server!AcceptedDigests, SP!AcceptedDigests, Server!CD!Verify,
   SP!CD!Verify, Server!DigestRequired, SP!DigestRequired, Server!FieldLines, SP!FieldLines,
   Server!AgeLimit, SP!AgeLimit, Server!Plain, SP!Plain, Server!ToSet, SP!ToSet, Server!BodyLimit,
   SP!BodyLimit, Server!Min, SP!Min, Server!CD!Digest, SP!CD!Digest, Server!CD!Entries, SP!CD!Entries,
   Server!CD!FlattenSeq, SP!CD!FlattenSeq, Server!CD!Supported, SP!CD!Supported, Server!DigestMode,
   SP!DigestMode, Server!NoHost, SP!NoHost

\* ... whether a signature meets the policy ...
LEMMA SameMeeting ==
    ASSUME NEW a, NEW d, NEW l, NEW ss, NEW time
    PROVE  /\ Server!Meets(ss, a, l, d, time) = SP!Meets(ss, a, l, d, time)
BY DEF Server!Meets, SP!Meets, Server!Allowed, SP!Allowed, Server!Bound, SP!Bound, Server!Claims,
   SP!Claims, Server!Considered, SP!Considered, Server!Covers, SP!Covers, Server!InWindow, SP!InWindow,
   Server!KeyVerify, SP!KeyVerify, Server!Plain, SP!Plain, Server!ToSet, SP!ToSet, Server!WellBorne,
   SP!WellBorne, Server!DigestMode, SP!DigestMode, Server!TextOf, SP!TextOf, Server!AgeLimit,
   SP!AgeLimit, Server!KeySign, SP!KeySign, Server!AcceptedDigests, SP!AcceptedDigests,
   Server!CD!Verify, SP!CD!Verify, Server!FieldLines, SP!FieldLines, Server!Limit, SP!Limit,
   Server!CD!Digest, SP!CD!Digest, Server!CD!Entries, SP!CD!Entries, Server!CD!FlattenSeq,
   SP!CD!FlattenSeq, Server!CD!Supported, SP!CD!Supported, Server!NoHost, SP!NoHost, Server!BodyLimit,
   SP!BodyLimit

\* ... and what a signature claims.
LEMMA SameClaims ==
    ASSUME NEW a, NEW ss
    PROVE  /\ Server!Claims(ss) = SP!Claims(ss)
           /\ Server!Considered(a) = SP!Considered(a)
           /\ Server!Allowed(a) = SP!Allowed(a)
BY DEF Server!Claims, SP!Claims, Server!Considered, SP!Considered, Server!Allowed, SP!Allowed,
   Server!TextOf, SP!TextOf

\* The server's actions are the same: the beginning of check ...
LEMMA SameBegin ==
    ASSUME NEW a, NEW t
    PROVE  /\ Server!Begin(t, a) = SP!Begin(t, a)
BY SameParse, SameReading, SameMeeting DEF Server!Begin, SP!Begin, Server!Reject, SP!Reject

\* ... a turn of its loop, up to the directory's answer and after it ...
LEMMA SameTurn ==
    ASSUME NEW claim, NEW l, NEW t
    PROVE  /\ Server!Consider(t, l, claim) = SP!Consider(t, l, claim)
           /\ Server!Verify(t) = SP!Verify(t)
           /\ Server!Exhaust(t) = SP!Exhaust(t)
BY SameChecks, SameReading, SameClaims DEF Server!Consider, SP!Consider, Server!Verify, SP!Verify,
   Server!Exhaust, SP!Exhaust, Server!Lookup, SP!Lookup, Server!Reject, SP!Reject

\* ... rotations and ticks ...
LEMMA SameWorld ==
    ASSUME NEW e, NEW keyid
    PROVE  /\ Server!Rotate(keyid, e) = SP!Rotate(keyid, e)
           /\ Server!Tick = SP!Tick
BY SameMeeting DEF Server!Rotate, SP!Rotate, Server!Tick, SP!Tick, Server!Outlast, SP!Outlast,
   Server!local, SP!local

\* ... how it starts, and its types.
LEMMA SameInit ==
    /\ Server!Entries = SP!Entries
    /\ Server!Init = SP!Init
    /\ Server!TypeOK = SP!TypeOK
BY SameNames DEF Server!Entries, SP!Entries, Server!Init, SP!Init, Server!TypeOK, SP!TypeOK,
   Server!NoLabel, SP!NoLabel, Server!Nothing, SP!Nothing

\* The client's types are the same ...
LEMMA SameTypes == Client!CallsTyped = CP!CallsTyped /\ Client!LineCovered = CP!LineCovered
BY Zenon DEF Client!CallsTyped, CP!CallsTyped, Client!IsRequest, CP!IsRequest, Client!IsHost, CP!IsHost,
   Client!Schemes, CP!Schemes, Client!NoHost, CP!NoHost, Client!LineCovered, CP!LineCovered,
   Client!Listed, CP!Listed, Client!DefaultComponents, CP!DefaultComponents, Client!Plain, CP!Plain

\* ... and so are its actions: how calls start and end ...
LEMMA SameCalls ==
    ASSUME NEW c, NEW keep, NEW loc, NEW o
    PROVE  /\ Client!NoCalls = CP!NoCalls
           /\ Client!Ask(c, o) = CP!Ask(c, o)
           /\ Client!Return(c) = CP!Return(c)
           /\ Client!Redirect(c, keep, loc) = CP!Redirect(c, keep, loc)
BY DEF Client!NoCalls, CP!NoCalls, Client!Ask, CP!Ask, Client!Return, CP!Return, Client!Redirect,
   CP!Redirect, Client!Redirected, CP!Redirected, Client!NoHost, CP!NoHost

\* ... what RoundTrip does before it signs ...
LEMMA SamePreparing ==
    ASSUME NEW c
    PROVE  /\ Client!Refuse(c) = CP!Refuse(c)
           /\ Client!Prepare(c) = CP!Prepare(c)
BY DEF Client!Refuse, CP!Refuse, Client!Prepare, CP!Prepare, Client!MaySignFor, CP!MaySignFor,
   Client!Mode, CP!Mode, Client!ReadFails, CP!ReadFails, Client!TooLarge, CP!TooLarge, Client!Prepared,
   CP!Prepared, Client!Lowered, CP!Lowered, Client!DigestMode, CP!DigestMode, Client!Limit, CP!Limit,
   Client!Plus, CP!Plus, Client!ReadBody, CP!ReadBody, Client!CD!Value, CP!CD!Value,
   Client!DigestAlgorithm, CP!DigestAlgorithm, Client!Digested, CP!Digested, Client!SetBody, CP!SetBody,
   Client!ToLower, CP!ToLower, Client!BodyLimit, CP!BodyLimit, Client!Limited, CP!Limited,
   Client!CD!Digest, CP!CD!Digest, Client!Min, CP!Min

\* ... the input it signs, at a time ...
LEMMA SameInputs ==
    ASSUME NEW bytes, NEW c, NEW time
    PROVE  /\ Client!Input(c, bytes, time) = CP!Input(c, bytes, time)
           /\ Client!Label = CP!Label
           /\ Client!Types = CP!Types
           /\ Client!Mode = CP!Mode
BY DEF Client!Input, CP!Input, Client!Label, CP!Label, Client!Types, CP!Types, Client!Mode, CP!Mode,
   Client!Components, CP!Components, Client!Covered, CP!Covered, Client!Created, CP!Created,
   Client!Expires, CP!Expires, Client!Given, CP!Given, Client!NewNonce, CP!NewNonce, Client!DigestMode,
   CP!DigestMode, Client!Digested, CP!Digested, Client!Listed, CP!Listed, Client!Plain, CP!Plain,
   Client!Identifier, CP!Identifier, Client!ToLower, CP!ToLower, Client!DefaultComponents,
   CP!DefaultComponents

\* ... the message that comes of it ...
LEMMA SameSigned ==
    ASSUME NEW c
    PROVE  Client!Signed(c) = CP!Signed(c)
<1> DEFINE m == clone[c].msg
           input == CP!Input(c, clone[c].body, now + skew)
           target == Target(m.req, "", NoHost)
           base == SignatureBase(m, target, CP!Types, input)
           signed == AddSignature(m, CP!Label, input, KeySign(Key, base))
<1>1. Client!Target(m.req, "", Client!NoHost) = target /\ CP!Target(m.req, "", CP!NoHost) = target
  BY Zenon, SameNames, SameTargets
<1>2. Client!SignatureBase(m, target, CP!Types, input) = base /\ CP!SignatureBase(m, target, CP!Types, input) = base
  BY Zenon, SameBases
<1>3. Client!KeySign(Key, base) = KeySign(Key, base) /\ CP!KeySign(Key, base) = KeySign(Key, base)
  BY Zenon, SameChecks
<1>4. /\ Client!AddSignature(m, CP!Label, input, KeySign(Key, base)) = signed
      /\ CP!AddSignature(m, CP!Label, input, KeySign(Key, base)) = signed
  BY Zenon, SameSigning
<1>5. CP!Signed(c) = signed
  BY Zenon, <1>1, <1>2, <1>3, <1>4 DEF CP!Signed
<1>6. Client!Signed(c) = signed
  BY Zenon, <1>1, <1>2, <1>3, <1>4, SameInputs DEF Client!Signed
<1> QED
  BY Zenon, <1>5, <1>6

\* ... and what goes out.
LEMMA SameSign ==
    ASSUME NEW c
    PROVE  /\ Client!Signable(c) = CP!Signable(c)
           /\ Client!Outgoing(c) = CP!Outgoing(c)
           /\ Client!Sign(c) = CP!Sign(c)
BY SameSigning, SameInputs, SameSigned DEF Client!Signable, CP!Signable, Client!Outgoing, CP!Outgoing,
   Client!Sign, CP!Sign, Client!call, CP!call

-----------------------------------------------------------------------------
(* What the proofs of either side assume *)

\* The assumptions of the server's proofs hold of EndToEnd's constants.
LEMMA ServerAssumed ==
    /\ SP!SecondAssumption /\ SP!MaxIntAssumption /\ SP!LowerCaseAssumption /\ SP!DefaultsAssumption
    /\ SP!PoliciesValid /\ SP!MaxTimeAssumption /\ SP!Unforgeable /\ SP!ZeroTimeAssumption
    /\ SP!DatesAssumption /\ SP!ListsAssumption /\ SP!HonestDigests /\ SP!BodiesAssumption
BY ServerAssumption, SameSettings, SecondAssumption, MaxIntAssumption, LowerCaseAssumption, DefaultsAssumption
   DEF SP!DerivedNames, DerivedNames

\* So do those of the client's.
LEMMA ClientAssumed ==
    /\ CP!SecondAssumption /\ CP!MaxIntAssumption /\ CP!LowerCaseAssumption /\ CP!DefaultsAssumption
    /\ CP!ProfilesValid /\ CP!BoundsAssumption /\ CP!OffersAssumption
    /\ CP!ParametersAssumption /\ CP!TimesAssumption
<1>1. CP!SecondAssumption /\ CP!MaxIntAssumption /\ CP!LowerCaseAssumption /\ CP!DefaultsAssumption
  BY SecondAssumption, MaxIntAssumption, LowerCaseAssumption, DefaultsAssumption DEF CP!DerivedNames, DerivedNames
<1>2. CP!ProfilesValid
  BY Zenon, ClientAssumption, SameSettings, SameNames DEF Client!ReadWhole, CP!ReadWhole
<1>3. CP!OffersAssumption
  BY Zenon, ClientAssumption, SameNames DEF Client!IsRequest, CP!IsRequest, Client!IsHost, CP!IsHost, Client!Schemes, CP!Schemes
<1>4. CP!BoundsAssumption /\ CP!ParametersAssumption /\ CP!TimesAssumption
  BY Zenon, ClientAssumption DEF Client!Nonces, CP!Nonces
<1> QED
  BY Zenon, <1>1, <1>2, <1>3, <1>4

-----------------------------------------------------------------------------
(* Each side keeps its invariant beside the other *)

\* What either side keeps, but for the client's clock; what was sent was sent
\* in the server's past, and only requests that came are owed an answer.
Apart ==
    /\ skew \in Skews
    /\ SP!Inv /\ CP!Core
    /\ \A m \in sent : m.at \in Int /\ SentAt(m) \in 1..now
    /\ owed \subseteq Requests /\ \A t \in owed : pc[t] # "idle"

\* The two clocks are integers.
LEMMA Clocks ==
    ASSUME Apart
    PROVE  now \in 1..MaxTime /\ now \in Nat /\ MaxTime \in Nat \ {0} /\ skew \in Int
<1>1. now \in 1..MaxTime
  BY DEF Apart, SP!Inv, SP!TypeOK
<1>2. MaxTime \in Nat \ {0}
  BY ServerAssumption DEF Server!MaxTimeAssumption
<1>3. skew \in Int
  BY ServerAssumption, SkewsTolerated DEF Apart, Server!PoliciesValid
<1> QED
  BY <1>1, <1>2, <1>3

\* A call keeps its own side's, and sends at its own time.
LEMMA ClientApart ==
    ASSUME Apart, NEW c \in Calls, ClientStep(c)
    PROVE  /\ Apart'
           /\ sent \subseteq sent' /\ \A m \in sent' \ sent : m.at = now + skew
<1>1. UNCHANGED <<now, skew, server, owed>>
  BY DEF ClientStep
<1>2. \/ \E o \in Offers : CP!Ask(c, o)
      \/ CP!RoundTrip(c) \/ CP!Return(c)
      \/ \E keep \in BOOLEAN, loc \in Locations : CP!Redirect(c, keep, loc)
  BY SameCalls, SamePreparing, SameSign DEF ClientStep, Client!RoundTrip, CP!RoundTrip
<1>3. CP!Core' /\ sent \subseteq sent' /\ \A m \in sent' \ sent : m.at = now + skew
  BY Zenon, <1>2, ClientAssumed, CP!CallCore DEF Apart
<1>4. SP!Inv'
  BY <1>1, ServerAssumed, SP!StillInv DEF Apart, server
<1>5. \A m \in sent' : m.at \in Int /\ SentAt(m)' \in 1..now'
  <2>1. now \in 1..MaxTime /\ now \in Nat /\ skew \in Int
    BY Clocks
  <2>2. ASSUME NEW m \in sent' \ sent
        PROVE  m.at \in Int /\ SentAt(m)' \in 1..now'
    BY <1>1, <1>3, <2>1 DEF SentAt
  <2> QED
    BY <1>1, <2>2 DEF Apart, SentAt
<1> QED
  BY <1>1, <1>3, <1>4, <1>5 DEF Apart, server

\* A delivery, a turn of the loop, a rotation and a tick keep the server's,
\* and leave the client's alone.
LEMMA ServerApart ==
    ASSUME Apart, UNCHANGED <<skew, client>>,
           \/ \E t \in Requests : (\E a : SP!Begin(t, a)) \/ SP!Turn(t)
           \/ \E keyid \in KeyIDs, e \in SP!Entries \union {NoEntry} : SP!Rotate(keyid, e)
           \/ SP!Tick
    PROVE  /\ SP!Inv' /\ CP!Core'
           /\ \A m \in sent' : m.at \in Int /\ SentAt(m)' \in 1..now'
<1>1. SP!Inv'
  BY ServerAssumed, SP!StepInv DEF Apart
<1>2. CP!Core'
  BY Zenon, ClientAssumed, CP!WaitCore DEF Apart, client
<1>3. now' \in {now, now + 1}
  BY DEF SP!Begin, SP!Turn, SP!Consider, SP!Verify, SP!Exhaust, SP!Rotate, SP!Tick
<1> QED
  BY <1>1, <1>2, <1>3, Clocks DEF Apart, SentAt, client

\* Who is past the beginning stays past it.
LEMMA Started ==
    ASSUME Apart, NEW t \in Requests, pc[t] # "idle",
           \/ \E u \in Requests : (\E a : SP!Begin(u, a)) \/ SP!Turn(u)
           \/ \E keyid, e : SP!Rotate(keyid, e)
           \/ SP!Tick
    PROVE  pc'[t] # "idle"
BY DEF Apart, SP!Inv, SP!Shape, SP!Begin, SP!Turn, SP!Consider, SP!Verify, SP!Exhaust, SP!Reject,
       SP!Rotate, SP!Tick, SP!local

-----------------------------------------------------------------------------
(* Types *)

\* At first nothing is sent, and no request has come.
LEMMA InitApart == Init => Apart
<1> SUFFICES ASSUME Init
             PROVE  Apart
  OBVIOUS
<1>1. SP!Init /\ CP!NoCalls
  BY SameInit, SameCalls DEF Init
<1>2. SP!Inv /\ CP!Core
  BY Zenon, <1>1, ServerAssumed, SP!InitInv, ClientAssumed, CP!InitCore
<1>3. sent = {} /\ owed = {} /\ skew \in Skews
  BY <1>1 DEF Init, CP!NoCalls
<1> QED
  BY <1>2, <1>3 DEF Apart

\* A step of the system is one of the client's, or one of the server's which
\* leaves the client alone.
LEMMA Steps ==
    ASSUME Next
    PROVE  \/ \E c \in Calls : ClientStep(c)
           \/ /\ UNCHANGED <<skew, client>>
              /\ \/ \E t \in Requests, m \in sent : \E a :
                       /\ a \in {Untouched(m)} \union Altered(m)
                       /\ SP!Begin(t, a)
                       /\ owed' = IF Owed(a, dir, now) THEN owed \union {t} ELSE owed
                 \/ \E t \in Requests : SP!Turn(t) /\ UNCHANGED owed
                 \/ \E keyid \in KeyIDs, e \in SP!Entries \union {NoEntry} :
                       SP!Rotate(keyid, e) /\ StillOwed(dir', now)
                 \/ SP!Tick /\ StillOwed(dir, now')
<1>1. ASSUME NEW t \in Requests, NEW m \in sent, Deliver(t, m)
      PROVE  /\ UNCHANGED <<skew, client>>
             /\ \E a : /\ a \in {Untouched(m)} \union Altered(m)
                       /\ SP!Begin(t, a)
                       /\ owed' = IF Owed(a, dir, now) THEN owed \union {t} ELSE owed
  BY <1>1, SameBegin DEF Deliver
<1>2. ASSUME NEW t \in Requests, Check(t)
      PROVE  UNCHANGED <<skew, client>> /\ SP!Turn(t) /\ UNCHANGED owed
  <2>1. Server!Turn(t) => SP!Turn(t)
    BY SameTurn, SameClaims DEF Server!Turn, SP!Turn
  <2> QED
    BY <1>2, <2>1 DEF Check
<1>3. ASSUME NEW keyid \in KeyIDs, NEW e \in Server!Entries \union {NoEntry}, Rotate(keyid, e)
      PROVE  /\ UNCHANGED <<skew, client>> /\ e \in SP!Entries \union {NoEntry}
             /\ SP!Rotate(keyid, e) /\ StillOwed(dir', now)
  BY <1>3, SameWorld, SameInit DEF Rotate
<1>4. Tick => UNCHANGED <<skew, client>> /\ SP!Tick /\ StillOwed(dir, now')
  BY Zenon, SameWorld DEF Tick
<1> QED
  BY <1>1, <1>2, <1>3, <1>4 DEF Next

\* Every step keeps both sides' invariants.
LEMMA NextApart ==
    ASSUME Apart, [Next]_vars
    PROVE  Apart'
<1>1. CASE UNCHANGED vars
  <2>1. SP!Inv' /\ CP!Core'
    BY Zenon, <1>1, ServerAssumed, SP!StillInv, ClientAssumed, CP!WaitCore DEF vars, client, server, Apart
  <2> QED
    BY <1>1, <2>1 DEF vars, client, server, Apart, SentAt
<1>2. CASE \E c \in Calls : ClientStep(c)
  BY <1>2, ClientApart
<1>3. ASSUME UNCHANGED <<skew, client>>, NEW t \in Requests, NEW a, SP!Begin(t, a),
             owed' \in {owed, owed \union {t}}
      PROVE  Apart'
  <2>1. SP!Inv' /\ CP!Core' /\ \A m \in sent' : m.at \in Int /\ SentAt(m)' \in 1..now'
    BY <1>3, ServerApart
  <2>2. pc'[t] # "idle"
    BY <1>3 DEF SP!Begin, SP!Reject, Apart, SP!Inv, SP!Shape
  <2> QED
    BY <1>3, <2>1, <2>2, Started DEF Apart
<1>4. ASSUME UNCHANGED <<skew, client>>, owed' \subseteq owed,
             \/ \E t \in Requests : SP!Turn(t)
             \/ \E keyid \in KeyIDs, e \in SP!Entries \union {NoEntry} : SP!Rotate(keyid, e)
             \/ SP!Tick
      PROVE  Apart'
  <2>1. SP!Inv' /\ CP!Core' /\ \A m \in sent' : m.at \in Int /\ SentAt(m)' \in 1..now'
    BY <1>4, ServerApart
  <2>2. \A t \in owed : pc'[t] # "idle"
    BY <1>4, Started DEF Apart
  <2> QED
    BY <1>4, <2>1, <2>2 DEF Apart
<1>5. CASE UNCHANGED <<skew, client>>
           /\ \E t \in Requests, m \in sent : \E a :
                 /\ a \in {Untouched(m)} \union Altered(m)
                 /\ SP!Begin(t, a)
                 /\ owed' = IF Owed(a, dir, now) THEN owed \union {t} ELSE owed
  BY <1>5, <1>3
<1>6. CASE UNCHANGED <<skew, client>>
           /\ \/ \E t \in Requests : SP!Turn(t) /\ UNCHANGED owed
              \/ \E keyid \in KeyIDs, e \in SP!Entries \union {NoEntry} :
                    SP!Rotate(keyid, e) /\ StillOwed(dir', now)
              \/ SP!Tick /\ StillOwed(dir, now')
  <2>1. owed' \subseteq owed
    BY <1>6 DEF StillOwed
  <2> QED
    BY <1>6, <2>1, <1>4
<1> QED
  BY <1>1, <1>2, <1>5, <1>6, Steps

\* Each side's invariant holds beside the other, for any number of calls and
\* requests and whatever the network does.
THEOREM BothSidesKeep == Spec => []Apart
<1>1. Init => Apart
  BY InitApart
<1>2. Apart /\ [Next]_vars => Apart'
  BY NextApart
<1> QED
  BY <1>1, <1>2, PTL DEF Spec

\* Both sides keep their types, whatever the other and the network do: a
\* call what its control state says it has, a message sent the shape of a
\* request and a past for the server.  Only requests that came are owed.
THEOREM TypeCorrect == Spec => []TypeOK
<1>1. Apart => TypeOK
  <2>1. CP!Core => CP!CallsTyped
    BY Zenon, ClientAssumed, CP!Typed
  <2> QED
    BY <2>1, SameInit, SameTypes DEF Apart, TypeOK, SP!Inv
<1> QED
  BY <1>1, BothSidesKeep, PTL

-----------------------------------------------------------------------------
(* What is sent *)

\* The caps and the profiles leave room.
LEMMA Room ==
    /\ SP!CapsFit /\ SP!WindowsFit
    /\ CP!CapsFit /\ CP!MembersOnly
<1>1. SP!CapsFit /\ SP!WindowsFit
  BY RoomAssumption, SameSettings DEF SP!CapsFit, SP!WindowsFit
<1>2. CP!CapsFit
  BY RoomAssumption, SameSettings DEF CP!CapsFit
<1>3. CP!MembersOnly
  BY Zenon, AgreementAssumption DEF CP!MembersOnly
<1> QED
  BY <1>1, <1>2, <1>3

\* A message sent has the body asked for or none, within the profile's cap; a
\* digest of it or, without one to make, no digest; and headers that parse.
LEMMA SentSound ==
    ASSUME Apart, NEW m \in sent
    PROVE  LET own == asked[m.call]
           IN  /\ profile \in Profiles /\ own \in Offers
               /\ CP!IsRequest(m.msg) /\ m.msg.req.host \in {own.msg.req.host, NoHost}
               /\ ListOf(m.body) /\ m.body \in {own.body, <<>>}
               /\ CP!Limit >= 0 => ~(Len(m.body) > CP!Limit)
               /\ m.msg.inputs.ok /\ m.msg.sigs.ok
               /\ "content-digest" \in DOMAIN m.msg.fields
               /\ m.msg.fields["content-digest"] =
                     IF CP!Digested(m.body) THEN CD!Value(CP!DigestAlgorithm, m.body) ELSE <<>>
<1> DEFINE own == asked[m.call]
<1>1. own \in Offers /\ CP!IsRequest(m.msg) /\ profile \in Profiles
  BY Zenon, ClientAssumed, CP!SentMessage DEF Apart, CP!Core, CP!Called
<1>2. PICK h, input :
         /\ CP!Writes(m, h, input)
         /\ CP!Followed(m.call, h) /\ CP!Passed(h)
         /\ m.body = CP!Prepared(h).body
         /\ m.msg.req = h.msg.req
         /\ m.msg.inputs = CP!Merge(own.msg.inputs, CP!Label, input)
         /\ \E sig : m.msg.sigs = CP!Merge(own.msg.sigs, CP!Label, sig)
  <2>1. CP!Core
    BY DEF Apart
  <2> QED
    BY Zenon, <2>1, ClientAssumed, CP!SentMessage
<1>3. ListOf(own.body) /\ own.msg.fields["content-digest"] = <<>>
      /\ {"ok", "occ"} \subseteq DOMAIN own.msg.inputs /\ {"ok", "occ"} \subseteq DOMAIN own.msg.sigs
      /\ "content-digest" \in DOMAIN own.msg.fields
  BY Zenon, <1>1, ClientAssumed, AgreementAssumption, SameNames DEF CP!IsRequest
<1>4. /\ CP!IsRequest(h.msg) /\ h.msg.fields = own.msg.fields
      /\ h.msg.inputs = own.msg.inputs /\ h.msg.sigs = own.msg.sigs
      /\ h.body \in {own.body, <<>>} /\ h.msg.req.host \in {own.msg.req.host, NoHost}
  BY Zenon, <1>2, SameNames DEF CP!Followed
<1>5. ListOf(h.body)
  <2>1. ListOf(<<>>)
    BY DEF ListOf
  <2> QED
    BY <1>3, <1>4, <2>1
<1>6. m.body = h.body
  BY Zenon, <1>1, <1>2, <1>4, <1>5, ClientAssumed, CP!PreparedWhole, Room, SameNames
<1>7. CP!Mode # "never"
  BY Zenon, <1>1, BindingAssumption DEF CP!Mode, CP!DigestMode
<1>8. CP!Limit >= 0 => ~(Len(m.body) > CP!Limit)
  <2>1. ~CP!TooLarge(h) /\ CP!Prepared(h).body = CP!ReadBody(h)
    BY Zenon, <1>2, <1>4, <1>7, ClientAssumed, CP!PreparedSound DEF CP!Passed
  <2> QED
    BY <1>2, <2>1 DEF CP!TooLarge
<1>9. m.msg.inputs.ok /\ m.msg.sigs.ok
  <2>1. CP!Prepared(h).msg.inputs = h.msg.inputs /\ CP!Prepared(h).msg.sigs = h.msg.sigs
    BY Zenon, <1>4, ClientAssumed, CP!PreparedSound
  <2>2. own.msg.inputs.ok /\ own.msg.sigs.ok
    BY Zenon, <1>2, <1>4, <2>1 DEF CP!Writes, CP!CanSign
  <2> QED
    BY Zenon, <1>2, <1>3, <2>2 DEF CP!Merge
<1>10. /\ "content-digest" \in DOMAIN m.msg.fields
       /\ m.msg.fields["content-digest"] =
             IF CP!Digested(m.body) THEN CD!Value(CP!DigestAlgorithm, m.body) ELSE <<>>
  <2>1. /\ CP!IsRequest(CP!Prepared(h).msg)
        /\ DOMAIN CP!Prepared(h).msg.fields = DOMAIN h.msg.fields
        /\ \A n \in DOMAIN h.msg.fields :
              \/ CP!Prepared(h).msg.fields[n] = h.msg.fields[n]
              \/ n = "content-digest" /\ CP!Digested(CP!Prepared(h).body)
        /\ CP!Digested(CP!Prepared(h).body) =>
              CP!Prepared(h).msg.fields["content-digest"]
                = CP!CD!Value(CP!DigestAlgorithm, CP!Prepared(h).body)
    BY Zenon, <1>4, ClientAssumed, CP!PreparedSound
  <2>2. \E sig : m.msg = CP!AddSignature(CP!Prepared(h).msg, CP!Label, input, sig)
    BY Zenon, <1>2 DEF CP!Writes
  <2>3. m.msg.fields = CP!Prepared(h).msg.fields
    BY <2>1, <2>2 DEF CP!AddSignature, CP!IsRequest
  <2>4. CP!CD!Value(CP!DigestAlgorithm, m.body) = CD!Value(CP!DigestAlgorithm, m.body)
    BY SameDigests
  <2> QED
    BY <1>2, <1>3, <1>4, <2>1, <2>3, <2>4
<1> QED
  BY <1>1, <1>2, <1>3, <1>4, <1>5, <1>6, <1>8, <1>9, <1>10

\* A message comes with its own header fields, or those of another, and with
\* its own body, or one nobody sent.
LEMMA Arrives ==
    ASSUME NEW m \in sent, CP!IsRequest(m.msg), NEW a \in {Untouched(m)} \union Altered(m)
    PROVE  /\ a.body = m.body \/ a.body \in OtherBodies
           /\ \E n \in sent : a.msg.inputs = n.msg.inputs /\ a.msg.sigs = n.msg.sigs
<1>1. {"req", "fields", "inputs", "sigs"} \subseteq DOMAIN m.msg
  BY DEF CP!IsRequest
<1>2. Untouched(m).body = m.body
      /\ {"req", "fields", "inputs", "sigs"} \subseteq DOMAIN Untouched(m).msg
      /\ Untouched(m).msg.inputs = m.msg.inputs /\ Untouched(m).msg.sigs = m.msg.sigs
      /\ DOMAIN Untouched(m) = {"msg", "body", "fails"}
  BY <1>1 DEF Untouched
<1> DEFINE u == Untouched(m)
<1> HIDE DEF u
<1>3. CASE a = u
  BY <1>2, <1>3 DEF u
<1>4. CASE \E b \in OtherBodies : a = [u EXCEPT !.body = b]
  BY <1>2, <1>4 DEF u
<1>5. CASE \E b \in OtherBodies : \E d :
              a = [u EXCEPT !.body = b, !.msg = [u.msg EXCEPT !.fields["content-digest"] = d]]
  <2>1. PICK b, d :
              b \in OtherBodies /\ a = [u EXCEPT !.body = b, !.msg = [u.msg EXCEPT !.fields["content-digest"] = d]]
    BY Zenon, <1>5
  <2>2. a.body = b /\ a.msg = [u.msg EXCEPT !.fields["content-digest"] = d]
    BY <2>1, <1>2 DEF u
  <2>3. a.msg.inputs = u.msg.inputs /\ a.msg.sigs = u.msg.sigs
    BY <2>2, <1>2 DEF u
  <2> QED
    BY <2>1, <2>2, <2>3, <1>2 DEF u
<1>6. CASE \E method : a = [u EXCEPT !.msg.req.method = method]
  BY <1>2, <1>6 DEF u
<1>7. CASE \E host, path : a = [u EXCEPT !.msg.req.host = host, !.msg.req.path = path]
  <2>1. PICK host, path : a = [u EXCEPT !.msg.req.host = host, !.msg.req.path = path]
    BY Zenon, <1>7
  <2>2. a.body = u.body /\ a.msg.inputs = u.msg.inputs /\ a.msg.sigs = u.msg.sigs
    BY <2>1, <1>2 DEF u
  <2> QED
    BY <2>2, <1>2 DEF u
<1>8. CASE \E n \in sent : a = [u EXCEPT !.msg.inputs = n.msg.inputs, !.msg.sigs = n.msg.sigs]
  BY <1>2, <1>8 DEF u
<1>9. ASSUME NEW loc \in Locations,
             a = [u EXCEPT !.msg.req.host = IF loc.host = NoHost THEN @ ELSE loc.host,
                           !.msg.req.path = Path(loc)]
      PROVE  \E host, path : a = [u EXCEPT !.msg.req.host = host, !.msg.req.path = path]
  BY Zenon, <1>9
<1> QED
  BY Zenon, <1>3, <1>4, <1>5, <1>6, <1>7, <1>8, <1>9 DEF Altered, u

\* What the server reads of it is a list of bytes, and dates that are dates.
LEMMA ArrivesSound ==
    ASSUME Apart, NEW m \in sent, NEW a \in {Untouched(m)} \union Altered(m)
    PROVE  SP!Sound(a)
<1>1. ListOf(m.body) /\ CP!IsRequest(m.msg)
  BY SentSound
<1>2. SP!ListOf(a.body)
  BY <1>1, Arrives, BodiesAssumption, SameNames
<1>3. PICK n \in sent : a.msg.inputs = n.msg.inputs
  BY <1>1, Arrives
<1> DEFINE own == asked[n.call].msg
<1>4. /\ asked[n.call] \in Offers
      /\ \E h, input : CP!Writes(n, h, input) /\ n.msg.inputs = CP!Merge(own.inputs, CP!Label, input)
  <2>1. CP!Core
    BY DEF Apart
  <2>2. asked[n.call] \in Offers
    BY Zenon, <2>1, ClientAssumed, CP!SentMessage
  <2>3. \E h, input : CP!Writes(n, h, input) /\ n.msg.inputs = CP!Merge(own.inputs, CP!Label, input)
    BY Zenon, <2>1, ClientAssumed, CP!SentInput
  <2> QED
    BY <2>2, <2>3
<1>5. PICK h, input : CP!Writes(n, h, input) /\ n.msg.inputs = Merge(own.inputs, CP!Label, input)
  BY <1>4, SameHeaders
<1>6. "occ" \in DOMAIN own.inputs /\ CP!Label \in DOMAIN own.inputs.occ
  BY Zenon, <1>4, ClientAssumed, CP!LabelHasPlace DEF Apart
<1>7. {"created", "expires"} \subseteq DOMAIN input.params
      /\ {input.params.created, input.params.expires} \subseteq Int \union {Absent, IllTyped}
  <2>1. PICK bytes, nonce : input = CP!Filled(bytes, n.at, nonce)
    BY Zenon, <1>5 DEF CP!Writes
  <2>2. n.at \in Int
    BY DEF Apart
  <2>3. profile.ttl \in Int /\ Second \in Nat \ {0}
    BY Zenon, SentSound, ClientAssumption, SecondAssumption DEF Client!ProfilesValid
  <2>4. CP!Created(n.at) \in Int /\ CP!Expires(n.at, profile.ttl) \in Int \union {Absent}
    BY <2>2, <2>3 DEF CP!Created, CP!Expires
  <2>5. input.params = [created |-> CP!Created(n.at), expires |-> CP!Expires(n.at, profile.ttl),
                        nonce |-> nonce,
                        alg |-> IF profile.includeAlg THEN AlgorithmOf[Key] ELSE Absent,
                        keyid |-> CP!Given(profile.keyid), tag |-> CP!Given(profile.tag)]
    BY <2>1 DEF CP!Filled
  <2> QED
    BY <2>4, <2>5
<1>8. ASSUME NEW l \in Labels(a.msg.inputs)
      PROVE  Get(a.msg.inputs, l) = Malformed \/
                LET params == Get(a.msg.inputs, l).params
                IN  {"created", "expires"} \subseteq DOMAIN params
                    /\ {params.created, params.expires} \subseteq Int \union {Absent, IllTyped}
  <2>1. l \in DOMAIN own.inputs.occ
    BY <1>3, <1>5, <1>6, <1>8, MergeKeeps
  <2>2. CASE l = CP!Label
    <3>1. Get(a.msg.inputs, l) = input
      BY <1>3, <1>5, <1>6, <2>2, MergeKeeps
    <3> QED
      BY <3>1, <1>7
  <2>3. CASE l # CP!Label
    <3>1. l \in Labels(own.inputs) /\ Get(a.msg.inputs, l) = Get(own.inputs, l)
      BY <1>3, <1>5, <1>6, <1>8, <2>1, <2>3, MergeKeeps
    <3> QED
      BY <3>1, <1>4, BroughtAssumption
  <2> QED
    BY <2>2, <2>3
<1>9. \A l \in SP!Labels(a.msg.inputs) :
          SP!Get(a.msg.inputs, l) = SP!Malformed \/
              LET params == SP!Get(a.msg.inputs, l).params
              IN  {"created", "expires"} \subseteq DOMAIN params
                  /\ {params.created, params.expires} \subseteq Int \union {Absent, IllTyped}
  BY <1>8, SameHeaders, SameNames
<1> QED
  BY <1>2, <1>9 DEF SP!Sound

-----------------------------------------------------------------------------
(* What ought to be served meets the policy *)

\* A server where the client takes it to be agrees about the destination.
LEMMA Reached ==
    ASSUME Apart, NEW m \in sent, m.msg.req.urlScheme = Scheme, m.msg.req.urlHost = Host
    PROVE  CP!Agrees(m, Target(Untouched(m).msg.req, Policy.scheme, Policy.authority))
<1> DEFINE req == m.msg.req
           there == Untouched(m).msg.req
           t == Target(req, "", NoHost)
           u == Target(there, Policy.scheme, Policy.authority)
<1>1. /\ asked[m.call] \in Offers /\ CP!IsRequest(m.msg)
      /\ req.host \in {asked[m.call].msg.req.host, NoHost}
  BY SentSound
<1>2. there = Inbound(req, req.urlScheme = "https")
  BY <1>1 DEF Untouched, CP!IsRequest
<1>3. /\ Scheme \in {"http", "https"} /\ Host # NoHost
      /\ ToLower(Scheme) = Scheme
  BY <1>1, SameNames, LowerCaseAssumption DEF CP!IsRequest, CP!Schemes, ToLower
<1>4. /\ there.urlScheme = "" /\ there.urlHost = NoHost /\ there.tls = (Scheme = "https")
      /\ there.host = IF req.host = NoHost THEN Host ELSE req.host
  BY <1>1, <1>2 DEF Inbound, CP!IsRequest
<1> HIDE DEF there, req
<1>5. req.urlScheme = Scheme /\ req.urlHost = Host
  BY DEF req
<1>6. t = [scheme |-> Scheme, authority |-> NormalAuthority(Host, Scheme)]
  BY Zenon, <1>3, <1>5 DEF Target
<1>7. Policy.scheme \in {"", Scheme}
  BY Zenon, ReachedAssumption
<1>8. (IF there.tls THEN "https" ELSE "http") = Scheme
  BY Zenon, <1>3, <1>4
<1>9. Policy.authority = NoHost => there.host = Host
  BY Zenon, <1>1, <1>4, ReachedAssumption DEF req
<1>10. u.scheme = Scheme /\ u = [scheme |-> u.scheme, authority |-> u.authority]
  BY Zenon, <1>3, <1>4, <1>7, <1>8 DEF Target
<1>11. u.authority = NormalAuthority(Host, Scheme)
  <2>1. CASE Policy.authority = NoHost
    <3>1. u.authority = NormalAuthority(there.host, u.scheme)
      BY Zenon, <1>4, <2>1 DEF Target
    <3> QED
      BY <1>9, <1>10, <2>1, <3>1
  <2>2. CASE Policy.authority # NoHost
    <3>1. u.authority = NormalAuthority(Policy.authority, u.scheme)
      BY Zenon, <2>2 DEF Target
    <3> QED
      BY Zenon, <1>10, <2>2, <3>1, ReachedAssumption
  <2> QED
    BY <2>1, <2>2
<1>12. u = t
  BY Zenon, <1>6, <1>10, <1>11
<1> HIDE DEF t, u
<1>13. CP!Target(m.msg.req, "", CP!NoHost) = t
  BY Zenon, SameTargets, SameNames DEF t, req
<1>14. CP!Agrees(m, u)
  BY Zenon, <1>12, <1>13 DEF CP!Agrees
<1> QED
  BY <1>14 DEF u, there

\* Truncation to seconds loses less than a second, before the epoch too.
LEMMA TruncatesAny ==
    ASSUME NEW i \in Int, NEW b \in Nat \ {0}
    PROVE  i \div b \in Int /\ b * (i \div b) <= i /\ i < b * (i \div b) + b
OBVIOUS

\* The window of a message is open for as long as it ought to be good.
LEMMA OpenWhileGood ==
    ASSUME Apart, NEW m \in sent, NEW time \in Nat, now <= time, Good(m, time),
           NEW params, params.created = Created(m.at), params.expires = Expires(m.at, profile.ttl)
    PROVE  SP!InWindow(params, time)
<1>1. /\ now \in Nat /\ skew \in Int /\ m.at \in Int /\ m.at - skew <= now
      /\ Policy.tolerance \in Nat /\ skew <= Policy.tolerance /\ -skew <= Policy.tolerance
      /\ profile.ttl \in Nat /\ AgeLimit(Policy) \in Int /\ Second \in Nat \ {0}
  <2>1. Policy.tolerance \in Int /\ Policy.tolerance >= 0 /\ Policy.maxAge \in Int
    BY Zenon, ServerAssumption, SameSettings DEF Server!PoliciesValid, ValidPolicy
  <2>2. skew \in -Policy.tolerance..Policy.tolerance
    BY SkewsTolerated DEF Apart
  <2>3. profile.ttl \in Int /\ profile.ttl >= 0
    BY Zenon, SentSound, ClientAssumption, SameSettings DEF Client!ProfilesValid, ValidProfile
  <2>4. AgeLimit(Policy) \in Int
    BY <2>1, DefaultsAssumption DEF AgeLimit
  <2> QED
    BY <2>1, <2>2, <2>3, <2>4, Clocks, SecondAssumption DEF Apart, SentAt
<1> DEFINE created == m.at \div Second
           expires == (m.at + profile.ttl) \div Second
<1>2. /\ created \in Int /\ Second * created <= m.at /\ m.at < Second * created + Second
      /\ Second * created \in Int
  <2>1. created \in Int /\ Second * created <= m.at /\ m.at < Second * created + Second
    BY <1>1, TruncatesAny, Zenon
  <2> HIDE DEF created
  <2> QED
    BY <1>1, <2>1
<1>3. /\ expires \in Int /\ m.at + profile.ttl < Second * expires + Second
      /\ Second * expires \in Int
  <2>1. m.at + profile.ttl \in Int
    BY <1>1
  <2>2. expires \in Int /\ m.at + profile.ttl < Second * expires + Second
    BY <1>1, <2>1, TruncatesAny, Zenon
  <2> HIDE DEF expires
  <2> QED
    BY <1>1, <2>2
<1> HIDE DEF created, expires
<1>4. params.created = created /\ params.expires = IF profile.ttl = 0 THEN Absent ELSE expires
  BY DEF Created, Expires, created, expires
<1>5. profile.ttl # 0 => time <= (m.at - skew) + profile.ttl - (Second - 1)
  BY DEF Good, Lifetimes, SentAt
<1>6. AgeLimit(Policy) > 0 => time <= (m.at - skew) + AgeLimit(Policy) - (Second - 1)
  BY <1>1 DEF Good, Lifetimes, SentAt
<1>7. Absent \notin Int
  BY Zenon, ClientAssumption DEF Client!TimesAssumption
<1>8. params.expires # Absent => time <= Second * params.expires + Policy.tolerance
  BY <1>1, <1>3, <1>4, <1>5
<1>9. Second * params.created <= time + Policy.tolerance
  BY <1>1, <1>2, <1>4
<1>10. AgeLimit(Policy) > 0 =>
         params.created # Absent /\ time <= Second * params.created + AgeLimit(Policy) + Policy.tolerance
  BY <1>1, <1>2, <1>4, <1>6, <1>7
<1> QED
  BY <1>8, <1>9, <1>10, SameSettings DEF SP!InWindow

\* Its body and digest are what the policy wants of them.
LEMMA BorneWell ==
    ASSUME Apart, NEW m \in sent, ~m.fails
    PROVE  SP!WellBorne(Untouched(m)) /\ (SP!Bound(Untouched(m)) => CP!Digested(m.body))
<1> DEFINE a == Untouched(m)
           lines == m.msg.fields["content-digest"]
<1>1. /\ profile \in Profiles /\ CP!IsRequest(m.msg) /\ ListOf(m.body)
      /\ CP!Limit >= 0 => ~(Len(m.body) > CP!Limit)
      /\ m.msg.inputs.ok /\ m.msg.sigs.ok
      /\ "content-digest" \in DOMAIN m.msg.fields
      /\ lines = IF CP!Digested(m.body) THEN CD!Value(CP!DigestAlgorithm, m.body) ELSE <<>>
  BY SentSound
<1>2. /\ a.body = m.body /\ ~a.fails
      /\ a.msg.inputs.ok /\ a.msg.sigs.ok /\ a.msg.fields = m.msg.fields
  BY <1>1 DEF Untouched, CP!IsRequest
<1> HIDE DEF a
<1>3. /\ Policy.coverage.mode = "always" => profile.coverage.mode = "always"
      /\ profile.coverage.mode # "never"
      /\ (IF profile.digest = "" THEN "sha-256" ELSE profile.digest) \in AcceptedDigests(Policy)
      /\ BodyLimit(Policy) < 0 \/ BodyLimit(profile) \in 0..BodyLimit(Policy)
  BY Zenon, <1>1, AgreementAssumption, BindingAssumption
<1>4. BodyLimit(Policy) < 0 \/ Len(a.body) <= BodyLimit(Policy)
  <2>1. BodyLimit(Policy) \in Int
    BY ServerAssumption, LimitIsInt DEF Server!PoliciesValid
  <2>2. CP!Limit = BodyLimit(profile) /\ Len(m.body) \in Nat
    BY <1>1, SameSettings DEF CP!Limit, ListOf
  <2>3. CP!Limit >= 0 => ~(Len(m.body) > CP!Limit)
    BY <1>1
  <2>4. BodyLimit(Policy) < 0 \/ BodyLimit(profile) \in 0..BodyLimit(Policy)
    BY Zenon, <1>3
  <2>5. BodyLimit(Policy) < 0 \/ Len(m.body) <= BodyLimit(Policy)
    BY <2>1, <2>2, <2>3, <2>4
  <2> QED
    BY <1>2, <2>5
<1>5. SP!Bound(a) => CP!Digested(m.body)
  <2>1. SP!Bound(a) <=> m.body # <<>> \/ Policy.coverage.mode = "always"
    BY Zenon, <1>2 DEF SP!Bound, SP!DigestMode
  <2> QED
    BY Zenon, <1>3, <2>1 DEF CP!Digested, CP!Mode, CP!DigestMode
<1>6. FieldLines(a.msg, "content-digest") = lines
  BY <1>1, <1>2 DEF FieldLines
<1>7. CP!Digested(m.body) => CD!Verify(lines, m.body, AcceptedDigests(Policy))
  <2> SUFFICES ASSUME CP!Digested(m.body)
               PROVE  CD!Verify(lines, m.body, AcceptedDigests(Policy))
    OBVIOUS
  <2>1. CP!DigestAlgorithm \in AcceptedDigests(Policy)
    BY Zenon, <1>3 DEF CP!DigestAlgorithm
  <2>2. CP!DigestAlgorithm \in CP!CD!Supported
    BY Zenon, <1>1, ClientAssumption, SameSettings DEF Client!ProfilesValid, ValidProfile, CP!DigestAlgorithm, CP!CD!Supported
  <2>3. CP!CD!Verify(CP!CD!Value(CP!DigestAlgorithm, m.body), m.body, {CP!DigestAlgorithm})
    BY Zenon, <2>2, ClientAssumed, CP!DigestVerifies
  <2>4. CD!Verify(lines, m.body, {CP!DigestAlgorithm})
    BY <1>1, <2>3, SameDigests
  <2> QED
    BY Zenon, <2>1, <2>4 DEF CD!Verify
<1>8. SP!Bound(a) \/ lines # <<>> => CD!Verify(lines, m.body, AcceptedDigests(Policy))
  BY <1>1, <1>5, <1>7
<1>9. SP!Limit < 0 \/ Len(a.body) <= SP!Limit
  BY <1>4, SameSettings DEF SP!Limit
<1>10. SP!Bound(a) \/ SP!FieldLines(a.msg, "content-digest") # <<>> =>
          SP!CD!Verify(SP!FieldLines(a.msg, "content-digest"), a.body, SP!AcceptedDigests(Policy))
  <2>1. /\ SP!FieldLines(a.msg, "content-digest") = lines
        /\ SP!AcceptedDigests(Policy) = AcceptedDigests(Policy)
    BY <1>6, SameHeaders, SameSettings
  <2>2. SP!CD!Verify(lines, m.body, AcceptedDigests(Policy)) = CD!Verify(lines, m.body, AcceptedDigests(Policy))
    BY SameDigests
  <2> QED
    BY <1>2, <1>8, <2>1, <2>2
<1>11. SP!WellBorne(a)
  BY <1>2, <1>9, <1>10 DEF SP!WellBorne
<1> QED
  BY <1>5, <1>11 DEF a

\* What is owed at a time meets the whole policy then, under the profile's
\* label.
LEMMA OwedMeets ==
    ASSUME Apart, NEW a, NEW d, NEW time \in Nat, now <= time, Owed(a, d, time)
    PROVE  /\ CP!Label \in DOMAIN SP!Parse(a)
           /\ SP!Meets(SP!Parse(a), a, CP!Label, d, time)
<1>1. PICK m \in sent :
         /\ a = Untouched(m) /\ ~m.fails
         /\ m.msg.req.urlScheme = Scheme /\ m.msg.req.urlHost = Host
         /\ ~(BareQuery(m.msg.req) /\ Client!LineCovered)
         /\ Good(m, time)
  BY DEF Owed
<1> DEFINE u == Target(a.msg.req, Policy.scheme, Policy.authority)
           ss == SP!Parse(a)
           l == CP!Label
           s == ss[l]
<1>2. profile \in Profiles /\ CP!IsRequest(m.msg) /\ m.at \in Int
  BY SentSound DEF Apart
<1>3. a.msg = CP!AtVerifier(m) /\ a.body = m.body
  BY <1>1, SameTargets DEF Untouched, CP!AtVerifier
<1>4. profile.coverage.types = Policy.coverage.types
  BY Zenon, <1>2, AgreementAssumption
<1>5. ss = CP!ParseSignatures(CP!AtVerifier(m), u, CP!Types)
  <2>1. ss = SP!ParseSignatures(a.msg, SP!Target(a.msg.req, Policy.scheme, Policy.authority), Policy.coverage.types)
    BY DEF SP!Parse
  <2>2. ss = SP!ParseSignatures(a.msg, u, Policy.coverage.types)
    BY <2>1, SameTargets
  <2>3. ss = ParseSignatures(a.msg, u, Policy.coverage.types)
    BY <2>2, SameParsing
  <2>4. CP!Types = Policy.coverage.types
    BY <1>4 DEF CP!Types
  <2> QED
    BY <1>3, <2>3, <2>4, SameParsing
<1>6. CP!Agrees(m, u)
  BY <1>1, Reached
<1> HIDE DEF u, ss
<1>7. /\ l \in DOMAIN ss /\ s.ok /\ CP!KeyVerify(Key, s.base, s.sig)
      /\ s.items = CP!Covered(CP!Components(m.body))
      /\ \E nonce : s.params = CP!Filled(m.body, m.at, nonce).params
  <2>1. CP!Core
    BY DEF Apart
  <2>2. CP!LineReads(m)
    BY <1>1, SameTargets, SameTypes DEF CP!LineReads
  <2> QED
    BY Zenon, <1>2, <1>5, <1>6, <2>1, <2>2, ClientAssumed, Room, CP!ReadBack
<1> HIDE DEF l, s
<1>8. /\ s.params.created = Created(m.at) /\ s.params.expires = Expires(m.at, profile.ttl)
      /\ s.params.alg \in {Absent, AlgorithmOf[Key]}
      /\ s.params.keyid = CP!Given(profile.keyid) /\ s.params.tag = CP!Given(profile.tag)
  <2>1. PICK nonce : s.params = CP!Filled(m.body, m.at, nonce).params
    BY <1>7
  <2>2. CP!Filled(m.body, m.at, nonce).params =
            [created |-> CP!Created(m.at), expires |-> CP!Expires(m.at, profile.ttl), nonce |-> nonce,
             alg |-> IF profile.includeAlg THEN AlgorithmOf[Key] ELSE Absent,
             keyid |-> CP!Given(profile.keyid), tag |-> CP!Given(profile.tag)]
    BY DEF CP!Filled
  <2> QED
    BY <2>1, <2>2, SameSigning
<1>9. SP!InWindow(s.params, time)
  BY <1>1, <1>8, OpenWhileGood
<1>10. SP!WellBorne(a) /\ (SP!Bound(a) => CP!Digested(m.body))
  BY <1>1, BorneWell
<1>11. SP!Covers(s, ToSet(Policy.coverage.components)
                      \union (IF SP!Bound(a) THEN {Plain("content-digest")} ELSE {}))
  <2> DEFINE cs == profile.coverage.components
  <2>1. ToSet(Policy.coverage.components) \subseteq ToSet(IF cs = <<>> THEN DefaultComponents ELSE cs)
    BY Zenon, <1>2, AgreementAssumption
  <2>2. ToSet(Policy.coverage.components) \subseteq CP!Wanted(m.body)
    BY <2>1, SameNames DEF CP!Wanted, CP!ToSet, ToSet
  <2>3. SP!Bound(a) => Plain("content-digest") \in CP!Wanted(m.body)
    BY <1>10, SameNames DEF CP!Wanted, CP!Digested
  <2>4. ASSUME NEW c \in CP!Wanted(m.body)
        PROVE  \E i \in DOMAIN s.items : s.items[i].c = c
    <3> DEFINE items == CP!Covered(CP!Components(m.body))
    <3>1. \E i \in DOMAIN items : items[i].c = c
      BY Zenon, <1>2, ClientAssumed, CP!CoversWanted
    <3> HIDE DEF items
    <3>2. s.items = items
      BY <1>7 DEF items
    <3> QED
      BY <3>1, <3>2
  <2> QED
    BY <2>2, <2>3, <2>4 DEF SP!Covers
<1>12. \E claim \in SP!Claims(s) :
          /\ SP!Considered(claim) /\ claim.keyid \in KeyIDs /\ d[claim.keyid] = [key |-> Key, identity |-> Owner[Key]]
  <2>1. Policy.tag \in {"", profile.tag} /\ profile.keyid \in KeyIDs /\ Absent \notin {profile.tag, profile.keyid}
    BY Zenon, <1>2, AgreementAssumption
  <2>2. \A text : text # Absent => SP!TextOf(CP!Given(text)) = text
    BY Zenon DEF SP!TextOf, CP!Given
  <2>3. [tag |-> profile.tag, keyid |-> profile.keyid] \in SP!Claims(s)
    BY Zenon, <1>7, <1>8, <2>1, <2>2 DEF SP!Claims
  <2>4. SP!Considered([tag |-> profile.tag, keyid |-> profile.keyid])
    BY Zenon, <2>1 DEF SP!Considered
  <2> QED
    BY Zenon, <2>1, <2>3, <2>4 DEF Owed
<1>13. [key |-> Key, identity |-> Owner[Key]] # NoEntry
  BY ServerAssumption DEF Server!Entries
<1>14. SP!Allowed(Key)
  BY Zenon, AgreementAssumption DEF SP!Allowed
<1>15. SP!KeyVerify(Key, s.base, s.sig)
  BY <1>7, SameChecks
<1>16. \E claim \in SP!Claims(s) :
          /\ SP!Considered(claim)
          /\ claim.keyid \in KeyIDs /\ d[claim.keyid] # NoEntry
          /\ LET key == d[claim.keyid].key
             IN  /\ SP!Allowed(key) /\ s.params.alg \in {Absent, AlgorithmOf[key]}
                 /\ SP!KeyVerify(key, s.base, s.sig)
  BY <1>8, <1>12, <1>13, <1>14, <1>15
<1>17. SP!Covers(s, SP!ToSet(Policy.coverage.components)
                      \union (IF SP!Bound(a) THEN {SP!Plain("content-digest")} ELSE {}))
  BY <1>11, SameNames DEF SP!ToSet, ToSet
<1>18. s.ok
  BY <1>7
<1>19. SP!Meets(ss, a, l, d, time)
  BY <1>9, <1>10, <1>16, <1>17, <1>18 DEF SP!Meets, s
<1> QED
  BY <1>7, <1>19 DEF ss, l

-----------------------------------------------------------------------------
(* What ought to be served is not rejected *)

\* Who is owed an answer has a signature that met the policy ever since it
\* came, and is owed it still, or has an answer.
Standing ==
    \A t \in owed :
        /\ CP!Label \in standing[t]
        /\ pc[t] \in {"choosing", "verifying"} => Owed(arrival[t], dir, now)
\* The invariant, with the server's own part.
Honest ==
    /\ Apart
    /\ SP!AllUpheld
    /\ \A t \in Requests : pc[t] # "idle" => SP!Sound(arrival[t])
    /\ Standing

\* What is owed stays owed while the client works, and while it rests.
LEMMA OwedOutlasts ==
    ASSUME UNCHANGED <<skew, profile>>, sent \subseteq sent', NEW a, NEW d, NEW time, Owed(a, d, time)
    PROVE  Owed(a, d, time)'
BY DEF Owed, Good, Lifetimes, SentAt, Client!LineCovered, Client!Listed

\* A client's step is none of the server's business.
LEMMA ClientHonest ==
    ASSUME Honest, UNCHANGED <<now, skew, server, owed, profile>>, sent \subseteq sent', Apart'
    PROVE  Honest'
<1>1. SP!AllUpheld'
  <2>1. ASSUME NEW u \in Requests
        PROVE  SP!Upheld(u)'
    BY ServerAssumed, SP!StaysUpheld DEF Honest, server, SP!AllUpheld
  <2> QED
    BY <2>1 DEF SP!AllUpheld
<1>2. \A t \in Requests : pc'[t] # "idle" => SP!Sound(arrival[t])'
  BY DEF Honest, server, SP!Sound
<1>3. Standing'
  <2>1. CP!Label' = CP!Label
    BY DEF CP!Label
  <2>2. \A t \in owed : pc[t] \in {"choosing", "verifying"} => Owed(arrival[t], dir, now)'
    BY OwedOutlasts DEF Honest, Standing, server
  <2> QED
    BY <2>1, <2>2 DEF Honest, Standing, server
<1> QED
  BY <1>1, <1>2, <1>3 DEF Honest

\* A delivery that ought to be served has a signature that meets the policy.
LEMMA DeliverHonest ==
    ASSUME Honest, Apart', UNCHANGED <<skew, client>>, NEW t \in Requests, NEW m \in sent,
           NEW a \in {Untouched(m)} \union Altered(m), SP!Begin(t, a),
           owed' = IF Owed(a, dir, now) THEN owed \union {t} ELSE owed
    PROVE  Honest'
<1>1. SP!Sound(a)
  BY ArrivesSound DEF Honest
<1>2. SP!AllUpheld'
  BY <1>1, ServerAssumed, Room, SP!BeginUpheld DEF Honest, Apart, SP!Sound
<1>3. /\ UNCHANGED <<now, dir>> /\ pc[t] = "idle"
      /\ arrival' = [arrival EXCEPT ![t] = a]
      /\ standing' = [standing EXCEPT ![t] =
             {l \in DOMAIN SP!Parse(a) : SP!Meets(SP!Parse(a), a, l, dir, now)}]
      /\ \A u \in Requests \ {t} : pc'[u] = pc[u]
      /\ DOMAIN arrival = Requests /\ DOMAIN standing = Requests /\ DOMAIN pc = Requests
  BY DEF SP!Begin, SP!Reject, Honest, Apart, SP!Inv, SP!Shape
<1>4. \A u \in Requests : pc'[u] # "idle" => SP!Sound(arrival[u])'
  <2>1. \A u \in Requests : pc'[u] # "idle" => SP!Sound(arrival'[u])
    BY <1>1, <1>3 DEF Honest
  <2> QED
    BY <2>1 DEF SP!Sound
<1>5. Standing'
  <2>1. CP!Label' = CP!Label
    BY DEF CP!Label, client
  <2>2. t \notin owed /\ owed \subseteq Requests
    BY <1>3 DEF Honest, Apart
  <2>3. ASSUME NEW u \in owed
        PROVE  /\ CP!Label' \in standing'[u]
               /\ pc'[u] \in {"choosing", "verifying"} => Owed(arrival[u], dir, now)'
    <3>1. u \in Requests \ {t} /\ arrival'[u] = arrival[u] /\ standing'[u] = standing[u] /\ pc'[u] = pc[u]
      BY <1>3, <2>2
    <3>2. pc'[u] \in {"choosing", "verifying"} => Owed(arrival[u], dir, now)
      BY <3>1 DEF Honest, Standing
    <3> QED
      BY <1>3, <2>1, <3>1, <3>2, OwedOutlasts DEF Honest, Standing, client
  <2>4. ASSUME Owed(a, dir, now)
        PROVE  CP!Label' \in standing'[t] /\ Owed(arrival[t], dir, now)'
    <3>1. CP!Label \in DOMAIN SP!Parse(a) /\ SP!Meets(SP!Parse(a), a, CP!Label, dir, now)
      BY <2>4, OwedMeets, Clocks DEF Honest
    <3>2. arrival'[t] = a
      BY <1>3
    <3>3. Owed(a, dir, now)'
      BY <1>3, <2>4, OwedOutlasts DEF client
    <3> QED
      BY <1>3, <2>1, <3>1, <3>2, <3>3
  <2> QED
    BY <2>3, <2>4 DEF Standing
<1> QED
  BY <1>2, <1>4, <1>5 DEF Honest

\* No turn of the loop drops it ...
LEMMA CheckHonest ==
    ASSUME Honest, Apart', UNCHANGED <<skew, client, owed>>, NEW t \in Requests, SP!Turn(t)
    PROVE  Honest'
<1>1. SP!AllUpheld'
  BY ServerAssumed, Room, SP!TurnUpheld DEF Honest, Apart, SP!At
<1>2. /\ UNCHANGED <<now, dir, arrival, standing>>
      /\ \A u \in Requests : pc'[u] # "idle" => pc[u] # "idle"
      /\ \A u \in Requests : pc'[u] \in {"choosing", "verifying"} => pc[u] \in {"choosing", "verifying"}
  <2>1. DOMAIN pc = Requests
    BY DEF Honest, Apart, SP!Inv, SP!Shape
  <2> QED
    BY <2>1 DEF SP!Turn, SP!Consider, SP!Verify, SP!Exhaust, SP!Reject
<1>3. \A u \in Requests : pc'[u] # "idle" => SP!Sound(arrival[u])'
  BY <1>2 DEF Honest, SP!Sound
<1>4. Standing'
  <2>1. CP!Label' = CP!Label
    BY DEF CP!Label, client
  <2>2. \A u \in owed : pc'[u] \in {"choosing", "verifying"} => Owed(arrival[u], dir, now)
    BY <1>2 DEF Honest, Standing, Apart
  <2>3. \A u \in owed : pc'[u] \in {"choosing", "verifying"} => Owed(arrival[u], dir, now)'
    BY <2>2, <1>2, OwedOutlasts DEF client
  <2> QED
    BY <1>2, <2>1, <2>3 DEF Honest, Standing
<1> QED
  BY <1>1, <1>3, <1>4 DEF Honest

\* ... and no rotation or tick does, for as long as it is owed.
LEMMA WorldHonest ==
    ASSUME Honest, Apart', UNCHANGED <<skew, client>>, UNCHANGED SP!local,
           SP!Outlast(dir', now'), now' \in {now, now + 1}, StillOwed(dir', now')
    PROVE  Honest'
<1>1. SP!AllUpheld'
  BY ServerAssumed, SP!WorldUpheld DEF Honest, SP!local
<1>2. UNCHANGED <<pc, arrival>>
  BY DEF SP!local
<1>3. \A u \in Requests : pc'[u] # "idle" => SP!Sound(arrival[u])'
  BY Zenon, <1>2 DEF Honest, SP!Sound
<1>4. ASSUME NEW t \in owed'
      PROVE  /\ CP!Label' \in standing'[t]
             /\ pc'[t] \in {"choosing", "verifying"} => Owed(arrival[t], dir, now)'
  <2>1. t \in owed /\ t \in Requests /\ (t \in Checking => Owed(arrival[t], dir', now'))
    BY DEF StillOwed, Honest, Apart
  <2>2. CP!Label' = CP!Label
    BY DEF CP!Label, client
  <2>3. CP!Label \in standing[t]
    BY <2>1 DEF Honest, Standing
  <2>4. CASE pc[t] \in {"choosing", "verifying"}
    <3>1. Owed(arrival[t], dir', now')
      BY <2>1, <2>4 DEF Checking
    <3>2. now' \in Nat /\ now <= now'
      BY Clocks DEF Honest
    <3>3. SP!Meets(SP!Parse(arrival[t]), arrival[t], CP!Label, dir', now')
      BY <3>1, <3>2, OwedMeets DEF Honest
    <3>4. sigs[t] = SP!Parse(arrival[t])
      BY <2>1, <2>4 DEF Honest, Apart, SP!Inv, SP!Kept, SP!At, SP!InHand
    <3>5. standing'[t] = {l \in standing[t] : SP!Meets(sigs[t], arrival[t], l, dir', now')}
      BY <2>1, <2>4 DEF SP!Outlast
    <3>6. Owed(arrival[t], dir, now)'
      BY <1>2, <3>1 DEF Owed, Good, Lifetimes, SentAt, client, Client!LineCovered, Client!Listed
    <3> QED
      BY <2>2, <2>3, <3>3, <3>4, <3>5, <3>6
  <2>5. CASE pc[t] \notin {"choosing", "verifying"}
    <3>1. standing'[t] = standing[t]
      BY <2>1, <2>5 DEF SP!Outlast
    <3> QED
      BY <1>2, <2>2, <2>3, <2>5, <3>1
  <2> QED
    BY <2>4, <2>5
<1>5. Standing'
  BY <1>4 DEF Standing
<1> QED
  BY <1>1, <1>3, <1>5 DEF Honest

\* Every step preserves it.
LEMMA NextHonest ==
    ASSUME Honest, [Next]_vars
    PROVE  Honest'
<1>1. Apart'
  BY NextApart DEF Honest
<1>2. CASE UNCHANGED vars
  BY <1>1, <1>2, ClientHonest DEF vars, client
<1>3. CASE \E c \in Calls : ClientStep(c)
  <2>1. PICK c \in Calls : ClientStep(c)
    BY <1>3
  <2>2. UNCHANGED <<now, skew, server, owed>> /\ sent \subseteq sent'
    BY <2>1, ClientApart DEF Honest, ClientStep
  <2>3. UNCHANGED profile
    BY <2>1 DEF ClientStep, Client!Ask, Client!RoundTrip, Client!Refuse, Client!Prepare, Client!Sign,
                Client!Return, Client!Redirect
  <2> QED
    BY <1>1, <2>2, <2>3, ClientHonest
<1>4. CASE /\ UNCHANGED <<skew, client>>
           /\ \E t \in Requests, m \in sent : \E a :
                 /\ a \in {Untouched(m)} \union Altered(m)
                 /\ SP!Begin(t, a)
                 /\ owed' = IF Owed(a, dir, now) THEN owed \union {t} ELSE owed
  BY <1>1, <1>4, DeliverHonest
<1>5. CASE UNCHANGED <<skew, client>> /\ \E t \in Requests : SP!Turn(t) /\ UNCHANGED owed
  BY <1>1, <1>5, CheckHonest
<1>6. CASE UNCHANGED <<skew, client>> /\ \E keyid \in KeyIDs, e \in SP!Entries \union {NoEntry} :
              SP!Rotate(keyid, e) /\ StillOwed(dir', now)
  <2>1. UNCHANGED SP!local /\ SP!Outlast(dir', now') /\ now' = now
    BY <1>6 DEF SP!Rotate
  <2> QED
    BY <1>1, <1>6, <2>1, WorldHonest
<1>7. CASE UNCHANGED <<skew, client>> /\ SP!Tick /\ StillOwed(dir, now')
  <2>1. UNCHANGED SP!local /\ SP!Outlast(dir', now') /\ dir' = dir /\ now' = now + 1
    BY <1>7 DEF SP!Tick
  <2> QED
    BY <1>1, <1>7, <2>1, WorldHonest
<1> QED
  BY <1>2, <1>3, <1>4, <1>5, <1>6, <1>7, Steps

\* What an application sends to this server, and the network delivers as it
\* was sent and in time, is not rejected: for every policy and profile that
\* agree, whatever the clocks disagree within the tolerance, whatever else
\* the network delivers, and however often the directory rotates keys, if it
\* still has this one.
THEOREM HonestAreServed == Spec => []HonestServed
<1>1. Init => Honest
  <2> SUFFICES ASSUME Init
               PROVE  Honest
    OBVIOUS
  <2>1. Apart
    BY InitApart
  <2>2. owed = {} /\ SP!Init
    BY SameInit DEF Init
  <2>3. \A t \in Requests : pc[t] = "idle"
    BY <2>2 DEF SP!Init
  <2> QED
    BY <2>1, <2>2, <2>3 DEF Honest, Standing, SP!AllUpheld, SP!Upheld, SP!At
<1>2. Honest /\ [Next]_vars => Honest'
  BY NextHonest
<1>3. Honest => HonestServed
  BY DEF Honest, Apart, Standing, HonestServed, SP!AllUpheld, SP!Upheld, SP!At
<1> QED
  BY <1>1, <1>2, <1>3, PTL DEF Spec

-----------------------------------------------------------------------------
(* What is served was stated *)

\* A request that came: with the signatures of a message sent, and a method
\* and a path spelled out.
Spelled(req) == req.method # "" /\ req.path # ""
Bearing(a) ==
    /\ \E n \in sent : a.msg.inputs = n.msg.inputs /\ a.msg.sigs = n.msg.sigs
    /\ Spelled(a.msg.req)
Borne == Apart /\ \A t \in Requests : pc[t] # "idle" => Bearing(arrival[t])

\* Components that read the same in two messages.
Alike(m, u, n, t, types, items) ==
    \A i \in DOMAIN items :
        ComponentValue(m, u, types, items[i].c) = ComponentValue(n, t, types, items[i].c)
\* ... and are all that the policy names.
Bound(a, u, n, ready, t, types, items) ==
    /\ ready.req = n.msg.req
    /\ Covers([items |-> items], ToSet(Policy.coverage.components))
    /\ Alike(a.msg, u, ready, t, types, items)

\* The network delivers nothing else.
LEMMA ArrivesBearing ==
    ASSUME Apart, NEW m \in sent, NEW a \in {Untouched(m)} \union Altered(m)
    PROVE  Bearing(a)
<1>1. CP!IsRequest(m.msg)
  BY SentSound
<1>2. \E n \in sent : a.msg.inputs = n.msg.inputs /\ a.msg.sigs = n.msg.sigs
  BY <1>1, Arrives
<1> DEFINE u == Untouched(m)
<1>3. /\ DOMAIN u = {"msg", "body", "fails"}
      /\ {"req", "fields", "inputs", "sigs"} \subseteq DOMAIN u.msg
      /\ {"method", "path", "host"} \subseteq DOMAIN u.msg.req
      /\ u.msg.req.method # "" /\ u.msg.req.path # ""
  BY Zenon, <1>1 DEF Untouched, Inbound, CP!IsRequest
<1> HIDE DEF u
<1> SUFFICES Spelled(a.msg.req)
  BY <1>2 DEF Bearing
<1>4. CASE a.msg.req = u.msg.req
  BY Zenon, <1>3, <1>4 DEF Spelled
<1>5. CASE \E method \in {"GET", "POST"} : a = [u EXCEPT !.msg.req.method = method]
  <2>1. PICK method \in {"GET", "POST"} : a = [u EXCEPT !.msg.req.method = method]
    BY <1>5
  <2>2. a.msg.req = [u.msg.req EXCEPT !.method = method]
    BY Zenon, <2>1, <1>3
  <2> QED
    BY Zenon, <2>2, <1>3 DEF Spelled
<1>6. CASE \E host, loc : a = [u EXCEPT !.msg.req.host = host, !.msg.req.path = Path(loc)]
  <2>1. PICK host, loc : a = [u EXCEPT !.msg.req.host = host, !.msg.req.path = Path(loc)]
    BY Zenon, <1>6
  <2>2. a.msg.req = [u.msg.req EXCEPT !.host = host, !.path = Path(loc)]
    BY Zenon, <2>1, <1>3
  <2>3. Path(loc) # ""
    BY Zenon DEF Path
  <2> QED
    BY Zenon, <2>2, <2>3, <1>3 DEF Spelled
<1>7. CASE a = u
  BY <1>4, <1>7
<1>8. CASE \E b : a = [u EXCEPT !.body = b]
  BY Zenon, <1>3, <1>4, <1>8
<1>9. CASE \E b, d : a = [u EXCEPT !.body = b, !.msg = [u.msg EXCEPT !.fields["content-digest"] = d]]
  <2>1. PICK b, d : a = [u EXCEPT !.body = b, !.msg = [u.msg EXCEPT !.fields["content-digest"] = d]]
    BY Zenon, <1>9
  <2>2. a.msg = [u.msg EXCEPT !.fields["content-digest"] = d]
    BY Zenon, <2>1, <1>3
  <2> QED
    BY Zenon, <2>2, <1>3, <1>4
<1>10. CASE \E n \in sent : a = [u EXCEPT !.msg.inputs = n.msg.inputs, !.msg.sigs = n.msg.sigs]
  BY Zenon, <1>3, <1>4, <1>10
<1>11. ASSUME NEW loc \in Locations,
              a = [u EXCEPT !.msg.req.host = IF loc.host = NoHost THEN @ ELSE loc.host,
                            !.msg.req.path = Path(loc)]
      PROVE  \E host, p : a = [u EXCEPT !.msg.req.host = host, !.msg.req.path = Path(p)]
  BY Zenon, <1>11
<1>12. ASSUME NEW loc \in Locations,
              a = [u EXCEPT !.msg.req.host = IF loc.host = NoHost THEN @ ELSE loc.host,
                            !.msg.req.path = Path(loc)]
       PROVE  Spelled(a.msg.req)
  BY Zenon, <1>6, <1>11, <1>12
<1>13. CASE \E loc \in Locations :
               a = [u EXCEPT !.msg.req.host = IF loc.host = NoHost THEN @ ELSE loc.host,
                             !.msg.req.path = Path(loc)]
  BY Zenon, <1>12, <1>13
<1> QED
  BY Zenon, <1>5, <1>7, <1>8, <1>9, <1>10, <1>13 DEF Altered, u

\* A request that came whose signature the directory's key verifies was signed
\* by the client's key, over components that read as they did in the message.
LEMMA SignedByClient ==
    ASSUME Apart, NEW a, Bearing(a), NEW l \in DOMAIN SP!Parse(a), SP!Parse(a)[l].ok,
           NEW key \in DOMAIN Owner, KeyVerify(key, SP!Parse(a)[l].base, SP!Parse(a)[l].sig)
    PROVE  LET s == SP!Parse(a)[l]
               u == Target(a.msg.req, Policy.scheme, Policy.authority)
           IN  /\ key = Key
               /\ \E n \in sent : \E ready :
                     /\ s.items = CP!Covered(CP!Components(n.body))
                     /\ \E nonce : s.params = CP!Filled(n.body, n.at, nonce).params
                     /\ ready.req = n.msg.req /\ ready.fields = n.msg.fields
                     /\ HasBase(a.msg, CP!Types, s.items) /\ HasBase(ready, CP!Types, s.items)
                     /\ Alike(a.msg, u, ready, Target(n.msg.req, "", NoHost), CP!Types, s.items)
<1> DEFINE s == SP!Parse(a)[l]
           u == Target(a.msg.req, Policy.scheme, Policy.authority)
<1>1. SP!Parse(a) = ParseSignatures(a.msg, u, CP!Types)
  <2>1. CP!Types = Policy.coverage.types
    BY Zenon, SentSound, AgreementAssumption DEF CP!Types, Bearing
  <2>2. SP!Parse(a) = SP!ParseSignatures(a.msg, u, Policy.coverage.types)
    BY SameTargets DEF SP!Parse
  <2> QED
    BY <2>1, <2>2, SameParsing
<1>2. /\ l \in Labels(a.msg.inputs)
      /\ l \in Labels(a.msg.sigs) /\ s.sig = Get(a.msg.sigs, l) /\ s.sig # Malformed
      /\ s.items = Get(a.msg.inputs, l).items /\ s.params = Get(a.msg.inputs, l).params
      /\ s.base = SignatureBase(a.msg, u, CP!Types, Get(a.msg.inputs, l))
      /\ HasBase(a.msg, CP!Types, s.items)
  BY <1>1, ParsedSound
<1> HIDE DEF s, u
<1>3. s.sig = [key |-> key, base |-> s.base]
  BY DEF s, KeyVerify, KeySign
<1>4. PICK n \in sent : a.msg.inputs = n.msg.inputs /\ a.msg.sigs = n.msg.sigs
  BY DEF Bearing
<1> DEFINE own == asked[n.call].msg
           t == Target(n.msg.req, "", NoHost)
<1>5. asked[n.call] \in Offers /\ profile \in Profiles
  BY SentSound
<1>6. CP!Core
  BY DEF Apart
<1>7. PICK h, input :
         LET ready == CP!Prepared(h)
             base == CP!SignatureBase(ready.msg, CP!Target(ready.msg.req, "", CP!NoHost), CP!Types, input)
         IN  /\ CP!Writes(n, h, input)
             /\ CP!Followed(n.call, h)
             /\ input.items = CP!Covered(CP!Components(ready.body)) /\ n.body = ready.body
             /\ n.msg.req = h.msg.req /\ ready.msg.req = h.msg.req
             /\ n.msg.inputs = CP!Merge(own.inputs, CP!Label, input)
             /\ n.msg.sigs = CP!Merge(own.sigs, CP!Label, CP!KeySign(Key, base))
  <2>1. \E h, input :
         LET ready == CP!Prepared(h)
             base == CP!SignatureBase(ready.msg, CP!Target(ready.msg.req, "", CP!NoHost), CP!Types, input)
         IN  /\ CP!Writes(n, h, input)
             /\ CP!Followed(n.call, h) /\ CP!Passed(h)
             /\ input.items = CP!Covered(CP!Components(ready.body))
             /\ n.body = ready.body
             /\ CP!IsRequest(n.msg) /\ n.msg.req = h.msg.req
             /\ ready.msg.req = h.msg.req
             /\ \A k \in DOMAIN own.fields :
                   \/ n.msg.fields[k] = own.fields[k]
                   \/ k = "content-digest" /\ CP!Digested(n.body)
             /\ n.msg.inputs = CP!Merge(own.inputs, CP!Label, input)
             /\ n.msg.sigs = CP!Merge(own.sigs, CP!Label, CP!KeySign(Key, base))
    BY Zenon, <1>6, ClientAssumed, CP!SentMessage
  <2> QED
    BY Zenon, <2>1
<1> DEFINE ready == CP!Prepared(h).msg
           base == SignatureBase(ready, t, CP!Types, input)
<1>8. /\ n.msg.inputs = Merge(own.inputs, CP!Label, input)
      /\ n.msg.sigs = Merge(own.sigs, CP!Label, [key |-> Key, base |-> base])
  <2>1. ready.req = n.msg.req
    BY Zenon, <1>7
  <2>2. CP!Target(n.msg.req, "", NoHost) = t
    BY Zenon, SameTargets
  <2>3. CP!NoHost = NoHost
    BY SameNames
  <2>4. CP!SignatureBase(ready, t, CP!Types, input) = base
    BY Zenon, SameBases
  <2>5. CP!KeySign(Key, base) = [key |-> Key, base |-> base]
    BY DEF CP!KeySign
  <2>6. /\ n.msg.inputs = CP!Merge(own.inputs, CP!Label, input)
        /\ n.msg.sigs = CP!Merge(own.sigs, CP!Label,
              CP!KeySign(Key, CP!SignatureBase(ready, CP!Target(ready.req, "", CP!NoHost), CP!Types, input)))
    BY Zenon, <1>7
  <2> HIDE DEF t, base, own, ready
  <2>7. /\ n.msg.inputs = CP!Merge(own.inputs, CP!Label, input)
        /\ n.msg.sigs = CP!Merge(own.sigs, CP!Label, [key |-> Key, base |-> base])
    BY Zenon, <2>1, <2>2, <2>3, <2>4, <2>5, <2>6
  <2> QED
    BY <2>7, SameHeaders
<1>9. \A header \in {own.inputs, own.sigs} : "occ" \in DOMAIN header /\ CP!Label \in DOMAIN header.occ
  BY Zenon, <1>5, <1>6, ClientAssumed, CP!LabelHasPlace
<1>10. \A l1 \in Labels(own.sigs) : Get(own.sigs, l1) = Malformed \/ Get(own.sigs, l1).key \notin DOMAIN Owner
  BY <1>5, BroughtAssumption
<1> DEFINE made == [key |-> Key, base |-> base]
           label1 == CP!Label
<1> HIDE DEF own, label1, made
<1>11. l = label1 /\ Get(a.msg.inputs, l) = input /\ s.sig = made
  <2>1. n.msg.inputs = Merge(own.inputs, label1, input) /\ n.msg.sigs = Merge(own.sigs, label1, made)
    BY Zenon, <1>8 DEF made, label1
  <2>2. /\ "occ" \in DOMAIN own.inputs /\ label1 \in DOMAIN own.inputs.occ
        /\ "occ" \in DOMAIN own.sigs /\ label1 \in DOMAIN own.sigs.occ
    BY <1>9 DEF label1
  <2>3. /\ Get(n.msg.inputs, label1) = input
        /\ Get(n.msg.sigs, label1) = made
        /\ \A l1 : l1 \in Labels(n.msg.sigs) => l1 \in DOMAIN own.sigs.occ
        /\ \A l1 \in (DOMAIN own.sigs.occ) \ {label1} :
              /\ l1 \in Labels(n.msg.sigs) <=> l1 \in Labels(own.sigs)
              /\ l1 \in Labels(own.sigs) => Get(n.msg.sigs, l1) = Get(own.sigs, l1)
    BY <2>1, <2>2, MergeKeeps
  <2>4. l \in Labels(n.msg.sigs) /\ s.sig = Get(n.msg.sigs, l) /\ s.sig # Malformed
        /\ a.msg.inputs = n.msg.inputs
    BY <1>2, <1>4
  <2>5. l = label1
    <3> SUFFICES ASSUME l # label1
                 PROVE  FALSE
      OBVIOUS
    <3>1. l \in Labels(own.sigs) /\ s.sig = Get(own.sigs, l)
      BY <2>3, <2>4
    <3>2. s.sig.key \notin DOMAIN Owner
      BY <1>10, <2>4, <3>1
    <3> QED
      BY <1>3, <3>2
  <2> QED
    BY <2>3, <2>4, <2>5
<1> HIDE DEF base, t, ready
<1>12. key = Key /\ s.base = base
  <2>1. made.key = Key /\ made.base = base
    BY DEF made
  <2> QED
    BY <1>3, <1>11, <2>1
<1>13. SignatureBase(a.msg, u, CP!Types, input) = SignatureBase(ready, t, CP!Types, input)
  BY <1>2, <1>11, <1>12 DEF base
<1>14. \A i \in DOMAIN input.items :
          ComponentValue(a.msg, u, CP!Types, input.items[i].c) = ComponentValue(ready, t, CP!Types, input.items[i].c)
  BY <1>13, BaseValues
<1> USE DEF ready
<1>15. n.msg.req = ready.req /\ n.msg.fields = ready.fields
  <2>1. CP!IsRequest(ready)
    BY Zenon, <1>7, ClientAssumed, CP!PreparedSound DEF CP!Followed
  <2>2. \E sig : n.msg = CP!AddSignature(ready, CP!Label, input, sig)
    BY Zenon, <1>7 DEF CP!Writes
  <2> QED
    BY <2>1, <2>2 DEF CP!AddSignature, CP!IsRequest
<1>16. HasBase(ready, CP!Types, input.items)
  <2>1. CP!CanSign(ready, CP!Types, input, CP!Label)
    BY Zenon, <1>7 DEF CP!Writes
  <2>2. CP!HasBase(ready, CP!Types, input.items)
    BY <2>1 DEF CP!CanSign
  <2> QED
    BY <2>2, SameBases
<1>17. \E nonce : input.params = CP!Filled(n.body, n.at, nonce).params
  BY Zenon, <1>7 DEF CP!Writes
<1>18. s.items = input.items /\ s.params = input.params
  BY <1>2, <1>11
<1> HIDE DEF ready
<1>19. s.items = CP!Covered(CP!Components(n.body))
  BY Zenon, <1>7, <1>18
<1>20. /\ HasBase(a.msg, CP!Types, s.items) /\ HasBase(ready, CP!Types, s.items)
       /\ Alike(a.msg, u, ready, t, CP!Types, s.items)
  BY <1>2, <1>14, <1>16, <1>18 DEF Alike
<1>21. \E nonce : s.params = CP!Filled(n.body, n.at, nonce).params
  BY <1>17, <1>18
<1> QED
  BY Zenon, <1>12, <1>15, <1>19, <1>20, <1>21 DEF s, u, t

\* Components that read the same give the handler the method and the
\* destination that the message has.
LEMMA SameDestination ==
    ASSUME NEW n, CP!IsRequest(n.msg), NEW ready, NEW a, Spelled(a.msg.req),
           NEW items, NEW types, NEW u, NEW t, Bound(a, u, n, ready, t, types, items)
    PROVE  /\ a.msg.req.method = Untouched(n).msg.req.method
           /\ a.msg.req.path = Untouched(n).msg.req.path
           /\ u.authority = t.authority
<1> DEFINE Same(name) == ComponentValue(a.msg, u, types, Plain(name)) = ComponentValue(ready, t, types, Plain(name))
<1>1. \A name : Plain(name) \in ToSet(Policy.coverage.components) => Same(name)
  <2> SUFFICES ASSUME NEW name, Plain(name) \in ToSet(Policy.coverage.components)
               PROVE  Same(name)
    OBVIOUS
  <2>1. PICK i \in DOMAIN items : items[i].c = Plain(name)
    BY DEF Bound, Covers
  <2> QED
    BY <2>1 DEF Bound, Alike
<1> HIDE DEF Same
<1>2. \A name : Plain(name) \in {Policy.coverage.components[i] : i \in DOMAIN Policy.coverage.components}
                  => Same(name)
  BY <1>1 DEF ToSet
<1>3. /\ Same("@method")
      /\ Same("@target-uri") \/ (Same("@authority") /\ Same("@path"))
  BY <1>2, BindingAssumption
<1>4. ready.req = n.msg.req /\ \A name : Plain(name).name = name
  BY DEF Bound, Plain
<1>5. Path(a.msg.req) = a.msg.req.path /\ a.msg.req.method # ""
  BY Zenon DEF Spelled, Path
<1>6. /\ Untouched(n).msg.req.method = IF n.msg.req.method = "" THEN "GET" ELSE n.msg.req.method
      /\ Untouched(n).msg.req.path = Path(n.msg.req)
  BY Zenon DEF Untouched, CP!IsRequest, Inbound, Path
<1>7. a.msg.req.method = Untouched(n).msg.req.method
  <2>1. ComponentValue(a.msg, u, types, Plain("@method")) = <<a.msg.req.method>>
    BY Zenon, <1>4, <1>5 DEF ComponentValue
  <2>2. ComponentValue(ready, t, types, Plain("@method")) = <<Untouched(n).msg.req.method>>
    BY Zenon, <1>4, <1>6 DEF ComponentValue
  <2>3. <<a.msg.req.method>> = <<Untouched(n).msg.req.method>>
    BY <1>3, <2>1, <2>2 DEF Same
  <2> QED
    BY <2>3
<1>8. ASSUME Same("@target-uri")
      PROVE  u = t /\ a.msg.req.path = Untouched(n).msg.req.path
  <2>1. ComponentValue(a.msg, u, types, Plain("@target-uri")) = <<u, a.msg.req.path, a.msg.req.query>>
    BY Zenon, <1>4, <1>5 DEF ComponentValue
  <2>2. ComponentValue(ready, t, types, Plain("@target-uri")) = <<t, Untouched(n).msg.req.path, n.msg.req.query>>
    BY Zenon, <1>4, <1>6 DEF ComponentValue
  <2>3. <<u, a.msg.req.path, a.msg.req.query>> = <<t, Untouched(n).msg.req.path, n.msg.req.query>>
    BY <1>8, <2>1, <2>2 DEF Same
  <2> QED
    BY <2>3
<1>9. ASSUME Same("@authority"), Same("@path")
      PROVE  u.authority = t.authority /\ a.msg.req.path = Untouched(n).msg.req.path
  <2>1. /\ ComponentValue(a.msg, u, types, Plain("@authority")) = <<u.authority>>
        /\ ComponentValue(ready, t, types, Plain("@authority")) = <<t.authority>>
    <3>1. Plain("@authority").name = "@authority"
      BY <1>4
    <3> QED
      BY Zenon, <3>1 DEF ComponentValue
  <2>2. /\ ComponentValue(a.msg, u, types, Plain("@path")) = <<a.msg.req.path>>
        /\ ComponentValue(ready, t, types, Plain("@path")) = <<Untouched(n).msg.req.path>>
    BY Zenon, <1>4, <1>5, <1>6 DEF ComponentValue
  <2>3. <<u.authority>> = <<t.authority>> /\ <<a.msg.req.path>> = <<Untouched(n).msg.req.path>>
    BY <1>9, <2>1, <2>2 DEF Same
  <2> QED
    BY <2>3
<1> QED
  BY <1>3, <1>7, <1>8, <1>9

\* The body that the server reads is the one that was digested, if the digest
\* is covered; it is when there is a body on either side.
LEMMA SameBody ==
    ASSUME Apart, NEW n \in sent, NEW ready, ready.req = n.msg.req, ready.fields = n.msg.fields,
           NEW a, SP!DigestOK(a), NEW items, items = CP!Covered(CP!Components(n.body)), NEW types,
           HasBase(a.msg, types, items), HasBase(ready, types, items),
           SP!Covers([items |-> items], SP!ToVerify(a).required), NEW u, NEW t,
           Alike(a.msg, u, ready, t, types, items)
    PROVE  SP!ReadBody(a) = n.body
<1> DEFINE c == SP!Plain("content-digest")
           lines == SP!FieldLines(a.msg, "content-digest")
           sentLines == SP!FieldLines(ready, "content-digest")
           alg == CP!DigestAlgorithm
<1>1. /\ profile \in Profiles
      /\ "content-digest" \in DOMAIN n.msg.fields
      /\ n.msg.fields["content-digest"] =
            IF CP!Digested(n.body) THEN CD!Value(alg, n.body) ELSE <<>>
  BY SentSound
<1>2. CASE \E i \in DOMAIN items : items[i].c = c
  <2>1. PICK i \in DOMAIN items : items[i].c = c
    BY <1>2
  <2>2. SP!HasValue(a.msg, types, c) /\ SP!HasValue(ready, types, c)
    <3>1. HasValue(a.msg, types, items[i].c) /\ HasValue(ready, types, items[i].c)
      BY DEF HasBase
    <3>2. HasValue(a.msg, types, c) /\ HasValue(ready, types, c)
      BY <2>1, <3>1
    <3> HIDE DEF c
    <3> QED
      BY <3>2, SameValues
  <2>3. lines # <<>> /\ sentLines # <<>>
    BY <2>2, ServerAssumed, SP!DigestComponent
  <2>4. SP!FlattenSeq(lines) = SP!FlattenSeq(sentLines)
    <3>1. /\ SP!ComponentValue(a.msg, u, types, c) = <<"joined", SP!FlattenSeq(lines)>>
          /\ SP!ComponentValue(ready, t, types, c) = <<"joined", SP!FlattenSeq(sentLines)>>
      BY ServerAssumed, SP!DigestComponent
    <3>2. SP!ComponentValue(a.msg, u, types, c) = SP!ComponentValue(ready, t, types, c)
      BY <2>1, SameValues DEF Alike
    <3> HIDE DEF c, lines, sentLines
    <3> QED
      BY <3>1, <3>2
  <2>5. CP!Digested(n.body) /\ sentLines = CD!Value(alg, n.body)
    <3>1. FieldLines(ready, "content-digest") = n.msg.fields["content-digest"]
      BY <1>1 DEF FieldLines
    <3>2. sentLines = n.msg.fields["content-digest"]
      BY <3>1, SameHeaders
    <3> QED
      BY <1>1, <2>3, <3>2
  <2> DEFINE e == [key |-> alg, val |-> CD!Digest(alg, n.body), raw |-> "canonical"]
             es == SP!FlattenSeq(lines)
  <2>6. es = <<e>>
    <3>1. sentLines = <<<<e>>>>
      BY <2>5 DEF CD!Value
    <3>2. FlattenSeq(<<<<e>>>>) = <<e>>
      BY FlattenOne
    <3>3. SP!FlattenSeq(<<<<e>>>>) = FlattenSeq(<<<<e>>>>)
      BY DEF SP!FlattenSeq, FlattenSeq
    <3> QED
      BY <2>4, <3>1, <3>2, <3>3
  <2>7. SP!CD!Verify(lines, SP!ReadBody(a), SP!AcceptedDigests(Policy))
    BY <2>3 DEF SP!DigestOK
  <2>8. PICK k \in DOMAIN es : es[k].val = SP!CD!Digest(es[k].key, SP!ReadBody(a))
    BY <2>7, ServerAssumed, SP!DigestElement
  <2>9. e.val = CD!Digest(alg, SP!ReadBody(a))
    <3>1. es[k] = e /\ e.key = alg
      <4> HIDE DEF es
      <4>1. k = 1
        BY <2>6
      <4> QED
        BY <2>6, <4>1
    <3>2. SP!CD!Digest(alg, SP!ReadBody(a)) = CD!Digest(alg, SP!ReadBody(a))
      BY SameDigests
    <3> HIDE DEF es, e
    <3> QED
      BY <2>8, <3>1, <3>2
  <2>10. CD!Digest(alg, n.body) = CD!Digest(alg, SP!ReadBody(a))
    BY <2>9
  <2> QED
    BY <2>10 DEF CD!Digest
<1>3. CASE ~\E i \in DOMAIN items : items[i].c = c
  <2>1. ~SP!DigestRequired(a)
    BY <1>3 DEF SP!Covers, SP!ToVerify
  <2>2. SP!ReadBody(a) = <<>>
    BY <2>1 DEF SP!DigestRequired
  <2>3. ~CP!Digested(n.body)
    <3>1. CP!Digested(n.body) => \E i \in DOMAIN items : items[i].c = CP!Plain("content-digest")
      <4>1. CP!Digested(n.body) => \E i \in DOMAIN CP!Covered(CP!Components(n.body)) :
                CP!Covered(CP!Components(n.body))[i].c = CP!Plain("content-digest")
        BY Zenon, <1>1, ClientAssumed, CP!ItemsSound
      <4> QED
        BY <4>1
    <3> QED
      BY <1>3, <3>1, SameNames
  <2>4. CP!Mode # "never"
    BY Zenon, <1>1, BindingAssumption DEF CP!Mode, CP!DigestMode
  <2>5. n.body = <<>>
    BY <2>3, <2>4 DEF CP!Digested
  <2> QED
    BY <2>2, <2>5
<1> QED
  BY <1>2, <1>3

\* What is not too old was stated within the window.
LEMMA WithinWindow ==
    ASSUME Apart, NEW n \in sent, NEW s, s.params.created = Created(n.at), NEW required,
           ~TooOld(s, [required |-> required, maxAge |-> AgeLimit(Policy), tolerance |-> Policy.tolerance], now)
    PROVE  now <= SentAt(n) + (AgeLimit(Policy) + 2 * Policy.tolerance)
<1> DEFINE p == [required |-> required, maxAge |-> AgeLimit(Policy), tolerance |-> Policy.tolerance]
           created == n.at \div Second
<1>1. /\ now \in Nat /\ skew \in Int /\ n.at \in Int
      /\ Policy.tolerance \in Nat /\ skew <= Policy.tolerance
      /\ AgeLimit(Policy) \in Nat \ {0} /\ AgeLimit(Policy) + Policy.tolerance <= MaxInt
      /\ Second \in Nat \ {0}
  <2>1. Policy.tolerance \in Int /\ Policy.tolerance >= 0 /\ Policy.maxAge \in Int
    BY Zenon, ServerAssumption, SameSettings DEF Server!PoliciesValid, ValidPolicy
  <2>2. skew \in -Policy.tolerance..Policy.tolerance
    BY SkewsTolerated DEF Apart
  <2>3. AgeLimit(Policy) \in Nat \ {0}
    BY <2>1, DefaultsAssumption, BindingAssumption DEF AgeLimit
  <2> QED
    BY <2>1, <2>2, <2>3, Clocks, SecondAssumption, RoomAssumption DEF Apart
<1>2. created \in Int /\ Second * created <= n.at
  BY <1>1, TruncatesAny, Zenon
<1>3. Absent \notin Int
  BY Zenon, ClientAssumption DEF Client!TimesAssumption
<1> HIDE DEF created, p
<1>4. s.params.created = created
  BY DEF Created, created
<1>5. TimeOf(s.params.created) = created
  BY <1>2, <1>3, <1>4 DEF TimeOf
<1>6. Plus(AgeLimit(Policy), Policy.tolerance) = AgeLimit(Policy) + Policy.tolerance
  BY <1>1, MaxIntAssumption DEF Plus
<1>7. p.maxAge = AgeLimit(Policy) /\ p.tolerance = Policy.tolerance
  BY DEF p
<1>8. ~(now > Second * created + (AgeLimit(Policy) + Policy.tolerance))
  BY <1>1, <1>5, <1>6, <1>7 DEF TooOld, p
<1>9. Second * created \in Int
  BY <1>1, <1>2
<1> QED
  BY <1>1, <1>2, <1>8, <1>9 DEF SentAt

\* A signature that the server accepts is on a statement within the window:
\* who the server takes it from, the method, the destination and the body that
\* the handler reads are those of one message sent.
LEMMA AcceptedStated ==
    ASSUME Borne, NEW t \in Requests, pc[t] = "verifying",
           SP!Accepts(sigs[t][label[t]], entry[t].key, SP!ToVerify(arrival[t]), now)
    PROVE  LET req == arrival[t].msg.req
               target == Target(req, Policy.scheme, Policy.authority)
           IN  \E n \in sent :
                 /\ now <= SentAt(n) + (AgeLimit(Policy) + 2 * Policy.tolerance)
                 /\ Stated(n) = ContentOf(req, target, body[t], entry[t].identity)
<1> DEFINE a == arrival[t]
           l == label[t]
           s == sigs[t][l]
           e == entry[t]
           u == Target(a.msg.req, Policy.scheme, Policy.authority)
<1>1. Apart /\ Bearing(a)
  BY DEF Borne
<1>2. /\ sigs[t] = SP!Parse(a) /\ body[t] = SP!ReadBody(a) /\ SP!DigestOK(a)
      /\ l \in DOMAIN sigs[t] /\ e \in SP!Entries
  BY <1>1 DEF Apart, SP!Inv, SP!TypeOK, SP!Kept, SP!At, SP!InHand
<1>3. PICK key \in DOMAIN Owner : e.key = key /\ e.identity = Owner[key]
  BY <1>2 DEF SP!Entries
<1>4. /\ s.ok /\ ~TooOld(s, SP!ToVerify(a), now)
      /\ Covers(s, SP!ToVerify(a).required)
      /\ KeyVerify(key, s.base, s.sig)
  <2>1. Accepts(s, e.key, SP!ToVerify(a), now)
    BY SameChecks
  <2> QED
    BY <1>3, <2>1 DEF Accepts
<1> DEFINE made(x, n, ready) ==
              /\ x.items = CP!Covered(CP!Components(n.body))
              /\ \E nonce : x.params = CP!Filled(n.body, n.at, nonce).params
              /\ ready.req = n.msg.req /\ ready.fields = n.msg.fields
              /\ HasBase(a.msg, CP!Types, x.items) /\ HasBase(ready, CP!Types, x.items)
              /\ Alike(a.msg, u, ready, Target(n.msg.req, "", NoHost), CP!Types, x.items)
           x == SP!Parse(a)[l]
<1>5. x = s /\ l \in DOMAIN SP!Parse(a) /\ x.ok /\ KeyVerify(key, x.base, x.sig)
  BY <1>2, <1>4
<1> HIDE DEF a, l, s, e
<1>6. key = Key /\ \E n \in sent : \E ready : made(x, n, ready)
  BY Zenon, <1>1, <1>3, <1>5, SignedByClient
<1> HIDE DEF made, x
<1>7. PICK n \in sent : \E ready : made(s, n, ready)
  BY <1>5, <1>6
<1>8. PICK ready : made(s, n, ready)
  BY <1>7
<1>9. CP!IsRequest(n.msg) /\ e.identity = Owner[Key]
  BY <1>1, <1>3, <1>6, SentSound
<1>10. now <= SentAt(n) + (AgeLimit(Policy) + 2 * Policy.tolerance)
  <2>1. s.params.created = Created(n.at)
    <3>1. PICK nonce : s.params = CP!Filled(n.body, n.at, nonce).params
      BY Zenon, <1>8 DEF made
    <3>2. CP!Filled(n.body, n.at, nonce).params.created = CP!Created(n.at)
      BY DEF CP!Filled
    <3> QED
      BY <3>1, <3>2, SameSigning
  <2>2. SP!ToVerify(a) = [required |-> SP!ToVerify(a).required, maxAge |-> AgeLimit(Policy),
                          tolerance |-> Policy.tolerance]
    BY SameSettings DEF SP!ToVerify
  <2> QED
    BY <1>1, <1>4, <2>1, <2>2, WithinWindow
<1>11. /\ Spelled(a.msg.req)
       /\ ToSet(Policy.coverage.components) \subseteq SP!ToVerify(a).required
  BY <1>1 DEF Bearing, SP!ToVerify, SP!ToSet, ToSet
<1> DEFINE items == s.items
           types == CP!Types
<1>12. /\ Covers([items |-> items], ToSet(Policy.coverage.components))
       /\ SP!Covers([items |-> items], SP!ToVerify(a).required)
  BY <1>4, <1>11 DEF Covers, SP!Covers
<1>13. /\ ready.req = n.msg.req /\ ready.fields = n.msg.fields
       /\ items = CP!Covered(CP!Components(n.body))
       /\ HasBase(a.msg, types, items) /\ HasBase(ready, types, items)
       /\ Alike(a.msg, u, ready, Target(n.msg.req, "", NoHost), types, items)
  BY Zenon, <1>8 DEF made
<1> HIDE DEF items, types
<1>14. /\ a.msg.req.method = Untouched(n).msg.req.method /\ a.msg.req.path = Untouched(n).msg.req.path
       /\ u.authority = Target(n.msg.req, "", NoHost).authority
  <2> DEFINE v == Target(n.msg.req, "", NoHost)
  <2>1. Bound(a, u, n, ready, v, types, items)
    BY Zenon, <1>12, <1>13 DEF Bound
  <2> HIDE DEF u, v
  <2>2. /\ a.msg.req.method = Untouched(n).msg.req.method /\ a.msg.req.path = Untouched(n).msg.req.path
        /\ u.authority = v.authority
    BY <1>9, <1>11, <2>1, SameDestination
  <2> QED
    BY Zenon, <2>2 DEF v
<1>15. body[t] = n.body
  <2> DEFINE v == Target(n.msg.req, "", NoHost)
  <2>1. /\ Alike(a.msg, u, ready, v, types, items)
        /\ Apart /\ SP!DigestOK(a) /\ body[t] = SP!ReadBody(a)
        /\ ready.req = n.msg.req /\ ready.fields = n.msg.fields
        /\ items = CP!Covered(CP!Components(n.body))
        /\ HasBase(a.msg, types, items) /\ HasBase(ready, types, items)
        /\ SP!Covers([items |-> items], SP!ToVerify(a).required)
    BY Zenon, <1>1, <1>2, <1>12, <1>13
  <2> HIDE DEF u, v
  <2>2. SP!ReadBody(a) = n.body
    BY <2>1, SameBody
  <2> QED
    BY <2>1, <2>2
<1>16. Stated(n) = ContentOf(a.msg.req, u, body[t], e.identity)
  BY Zenon, <1>9, <1>14, <1>15 DEF Stated, ContentOf
<1> QED
  BY <1>10, <1>16 DEF a, e

\* Whatever is sent states one of the contents.
LEMMA StatesContent ==
    ASSUME Apart, NEW m \in sent
    PROVE  Stated(m) \in Contents
<1> DEFINE own == asked[m.call]
           req == m.msg.req
<1>1. /\ profile \in Profiles /\ own \in Offers
      /\ CP!IsRequest(m.msg) /\ m.body \in {own.body, <<>>}
  BY SentSound
<1>2. /\ req.method \in {own.msg.req.method, "GET"}
      /\ req.urlHost \in {own.msg.req.urlHost} \union {loc.host : loc \in Locations}
      /\ req.path \in {own.msg.req.path} \union {loc.path : loc \in Locations}
  <2>1. CP!Core
    BY DEF Apart
  <2>2. \E h, input : CP!Writes(m, h, input) /\ CP!Followed(m.call, h) /\ m.msg.req = h.msg.req
    BY Zenon, <2>1, ClientAssumed, CP!SentMessage
  <2> QED
    BY Zenon, <2>2 DEF CP!Followed
<1> DEFINE places == {[host |-> o.msg.req.urlHost, path |-> o.msg.req.path] : o \in Offers}
                       \union {[host |-> loc.host, path |-> loc.path] : loc \in Locations}
<1>3. \E place \in places : place.host = req.urlHost
  <2>1. CASE req.urlHost = own.msg.req.urlHost
    <3>1. [host |-> own.msg.req.urlHost, path |-> own.msg.req.path] \in places
      BY Zenon, <1>1
    <3> QED
      BY Zenon, <2>1, <3>1
  <2>2. ASSUME NEW loc \in Locations, req.urlHost = loc.host
        PROVE  \E place \in places : place.host = req.urlHost
    <3>1. [host |-> loc.host, path |-> loc.path] \in places
      OBVIOUS
    <3> QED
      BY <2>2, <3>1
  <2> QED
    BY <1>2, <2>1, <2>2
<1>4. \E place \in places : place.path = req.path
  <2>1. CASE req.path = own.msg.req.path
    <3>1. [host |-> own.msg.req.urlHost, path |-> own.msg.req.path] \in places
      BY Zenon, <1>1
    <3> QED
      BY Zenon, <2>1, <3>1
  <2>2. ASSUME NEW loc \in Locations, req.path = loc.path
        PROVE  \E place \in places : place.path = req.path
    <3>1. [host |-> loc.host, path |-> loc.path] \in places
      OBVIOUS
    <3> QED
      BY <2>2, <3>1
  <2> QED
    BY <1>2, <2>1, <2>2
<1> DEFINE authorities == {NormalAuthority(place.host, scheme) : place \in places, scheme \in Client!Schemes}
           paths == {Path(place) : place \in places}
           methods == {"GET"} \union {o.msg.req.method : o \in Offers}
           bodies == {<<>>} \union {o.body : o \in Offers}
<1>5. Contents = [from : {Owner[Key]}, method : methods, authority : authorities, path : paths, body : bodies]
  BY DEF Contents
<1> HIDE DEF places
<1>6. req.urlScheme \in Client!Schemes /\ req.urlScheme \in {"http", "https"} /\ req.urlHost # NoHost
  BY <1>1, SameNames DEF CP!IsRequest, CP!Schemes, Client!Schemes
<1>7. ToLower(req.urlScheme) = req.urlScheme
  BY <1>6, LowerCaseAssumption DEF ToLower
<1>8. Target(req, "", NoHost).authority = NormalAuthority(req.urlHost, req.urlScheme)
  BY Zenon, <1>6, <1>7 DEF Target
<1>9. Target(req, "", NoHost).authority \in authorities
  <2>1. PICK place \in places : place.host = req.urlHost
    BY <1>3
  <2>2. NormalAuthority(place.host, req.urlScheme) \in authorities
    BY <1>6
  <2>3. NormalAuthority(place.host, req.urlScheme) = Target(req, "", NoHost).authority
    BY Zenon, <1>8, <2>1
  <2> HIDE DEF authorities
  <2> QED
    BY Zenon, <2>2, <2>3
<1>10. /\ Untouched(m).msg.req.method = IF req.method = "" THEN "GET" ELSE req.method
      /\ Untouched(m).msg.req.path = Path(req)
  BY Zenon, <1>1 DEF Untouched, CP!IsRequest, Inbound, Path
<1>11. Untouched(m).msg.req.path \in paths
  <2>1. PICK place \in places : place.path = req.path
    BY <1>4
  <2>2. Path(place) \in paths
    OBVIOUS
  <2>3. Path(place) = Path(req)
    BY <2>1 DEF Path
  <2> QED
    BY Zenon, <1>10, <2>2, <2>3
<1>12. Untouched(m).msg.req.method \in methods
  BY Zenon, <1>1, <1>2, <1>10
<1>13. m.body \in bodies
  BY <1>1
<1> HIDE DEF authorities, paths, methods, bodies
<1> QED
  BY Zenon, <1>9, <1>11, <1>12, <1>13, <1>5 DEF Stated, ContentOf

-----------------------------------------------------------------------------
(* The two together are the channel *)

Told == \A m \in sent : Stated(m) \in Contents

\* At first nothing is stated, and nothing answered.
LEMMA InitChannel == Init => Borne /\ Channel!Init
<1> SUFFICES ASSUME Init
             PROVE  Borne /\ Channel!Init
  OBVIOUS
<1>1. SP!Init /\ CP!NoCalls
  BY SameInit, SameCalls DEF Init
<1>2. sent = {} /\ now = 1 /\ \A t \in Requests : pc[t] = "idle"
  BY <1>1 DEF CP!NoCalls, SP!Init
<1>3. Borne
  BY <1>2, InitApart DEF Borne
<1>4. statements = {}
  BY <1>2 DEF statements
<1>5. \A t \in Requests : Given(t) = Channel!None
  BY <1>2 DEF Given, Channel!None, Channel!Answer
<1> QED
  BY <1>2, <1>3, <1>4, <1>5 DEF Channel!Init, answers

\* A request that came keeps its place among what was sent.
LEMMA BearingStays ==
    ASSUME sent \subseteq sent', NEW a, Bearing(a)
    PROVE  Bearing(a)'
BY Zenon DEF Bearing, Spelled

\* Every step keeps what came among what was sent.
LEMMA NextBorne ==
    ASSUME Borne, [Next]_vars
    PROVE  Borne'
<1> USE DEF Borne
<1>1. Apart'
  BY NextApart
<1>2. ASSUME sent \subseteq sent', UNCHANGED arrival,
             \A u \in Requests : pc'[u] # "idle" => pc[u] # "idle"
      PROVE  Borne'
  BY <1>1, <1>2, BearingStays
<1>3. CASE UNCHANGED vars
  BY <1>2, <1>3 DEF vars, client, server
<1>4. CASE \E c \in Calls : ClientStep(c)
  BY <1>2, <1>4, ClientApart DEF ClientStep, server
<1>5. ASSUME UNCHANGED <<skew, client>>, NEW t \in Requests, NEW m \in sent,
             NEW a \in {Untouched(m)} \union Altered(m), SP!Begin(t, a)
      PROVE  Borne'
  <2>1. /\ Bearing(a)' /\ arrival' = [arrival EXCEPT ![t] = a]
        /\ \A u \in Requests \ {t} : pc'[u] = pc[u]
        /\ DOMAIN arrival = Requests
    <3>1. Bearing(a)'
      BY <1>5, ArrivesBearing, BearingStays DEF client
    <3> QED
      BY <1>5, <3>1 DEF SP!Begin, SP!Reject, Apart, SP!Inv, SP!Shape
  <2>2. ASSUME NEW u \in Requests \ {t}, pc'[u] # "idle"
        PROVE  Bearing(arrival[u])'
    BY <1>5, <2>1, <2>2, BearingStays DEF client
  <2>3. Bearing(arrival[t])'
    BY Zenon, <2>1 DEF Bearing, Spelled
  <2> QED
    BY <1>1, <2>2, <2>3
<1>6. ASSUME UNCHANGED <<skew, client>>,
             \/ \E t \in Requests : SP!Turn(t)
             \/ \E keyid \in KeyIDs, e \in SP!Entries \union {NoEntry} : SP!Rotate(keyid, e)
             \/ SP!Tick
      PROVE  Borne'
  <2>1. pc \in [Requests -> SP!PCs]
    BY DEF Apart, SP!Inv, SP!Shape
  <2>2. UNCHANGED arrival /\ \A u \in Requests : pc'[u] # "idle" => pc[u] # "idle"
    BY <1>6, <2>1 DEF SP!Turn, SP!Consider, SP!Verify, SP!Exhaust, SP!Reject, SP!Rotate, SP!Tick, SP!local
  <2> QED
    BY <1>2, <1>6, <2>2 DEF client
<1> QED
  BY <1>3, <1>4, <1>5, <1>6, Steps

\* An answer stands while nobody works on the request, and while it is only
\* being checked.
LEMMA GivenStays ==
    ASSUME NEW t \in Requests,
           \/ UNCHANGED <<pc[t], arrival[t], body[t], entry[t]>>
           \/ pc[t] \in {"choosing", "verifying"} /\ pc'[t] \in {"choosing", "verifying"}
    PROVE  Given(t)' = Given(t)
BY Zenon DEF Given

LEMMA AnswersStay ==
    ASSUME \A t \in Requests :
              \/ UNCHANGED <<pc[t], arrival[t], body[t], entry[t]>>
              \/ pc[t] \in {"choosing", "verifying"} /\ pc'[t] \in {"choosing", "verifying"}
    PROVE  answers' = answers
<1>1. \A t \in Requests : Given(t)' = Given(t)
  BY GivenStays
<1> QED
  BY <1>1 DEF answers

\* One request is answered at a time.
LEMMA AnswerChanges ==
    ASSUME NEW t \in Requests, NEW x, Given(t)' = x,
           \A u \in Requests \ {t} : UNCHANGED <<pc[u], arrival[u], body[u], entry[u]>>
    PROVE  answers' = [answers EXCEPT ![t] = x]
<1>1. \A u \in Requests \ {t} : Given(u)' = Given(u)
  BY GivenStays
<1> QED
  BY Zenon, <1>1 DEF answers

\* What a call sends is stated now, and is one of the contents.
LEMMA ClientChannel ==
    ASSUME Apart, Told', NEW c \in Calls, ClientStep(c)
    PROVE  Channel!Next \/ UNCHANGED Channel!vars
<1>1. UNCHANGED <<now, skew, server>> /\ \A m \in sent' \ sent : m.at = now + skew
  BY ClientApart DEF ClientStep
<1>2. answers' = answers
  BY <1>1, AnswersStay DEF server
<1>3. sent' = sent \/ \E m : sent' = sent \union {m}
  BY Zenon DEF ClientStep, Client!Ask, Client!RoundTrip, Client!Refuse, Client!Prepare, Client!Sign,
         Client!Return, Client!Redirect
<1>4. CASE sent' = sent
  <2>1. statements' = statements
    BY <1>1, <1>4 DEF statements, SentAt
  <2> QED
    BY <1>1, <1>2, <2>1 DEF Channel!vars
<1>5. ASSUME NEW m, sent' = sent \union {m}, m \notin sent
      PROVE  Channel!Next
  <2>1. m.at = now + skew /\ Stated(m) \in Contents
    BY <1>1, <1>5 DEF Told
  <2>2. SentAt(m)' = now
    BY <1>1, <2>1, Clocks DEF SentAt
  <2>3. \A n : SentAt(n)' = SentAt(n)
    BY <1>1 DEF SentAt
  <2>4. statements' = statements \union {[content |-> Stated(m), at |-> now]}
    BY <1>5, <2>2, <2>3 DEF statements
  <2> QED
    BY <1>1, <1>2, <2>1, <2>4 DEF Channel!Next, Channel!State
<1> QED
  BY <1>3, <1>4, <1>5

\* A request that begins to be checked arrives, or is refused.
LEMMA BeginChannel ==
    ASSUME Apart, UNCHANGED <<skew, client>>, NEW t \in Requests, NEW a, SP!Begin(t, a)
    PROVE  Channel!Next
<1>1. /\ UNCHANGED <<now, entry>> /\ pc[t] = "idle" /\ pc'[t] \in {"choosing", "rejected"}
      /\ \A u \in Requests \ {t} : UNCHANGED <<pc[u], arrival[u], body[u], entry[u]>>
  BY DEF SP!Begin, SP!Reject, Apart, SP!Inv, SP!Shape
<1>2. statements' = statements
  BY DEF statements, SentAt, client
<1>3. answers[t].state = "none"
  BY <1>1 DEF answers, Given
<1>4. CASE pc'[t] = "choosing"
  <2>1. Given(t)' = Channel!Answer("checking", Absent)
    BY <1>4 DEF Given, Channel!Answer
  <2>2. Channel!Arrive(t)
    BY <1>1, <1>2, <1>3, <2>1, AnswerChanges DEF Channel!Arrive
  <2> QED
    BY <2>2 DEF Channel!Next
<1>5. CASE pc'[t] = "rejected"
  <2>1. Given(t)' = Channel!Answer("refused", Absent)
    BY <1>5 DEF Given, Channel!Answer
  <2>2. Channel!Refuse(t)
    BY <1>1, <1>2, <1>3, <2>1, AnswerChanges DEF Channel!Refuse
  <2> QED
    BY <2>2 DEF Channel!Next
<1> QED
  BY <1>1, <1>4, <1>5

\* A turn of the loop shows outside when a signature is accepted, and when
\* none is left.
LEMMA TurnChannel ==
    ASSUME Borne, UNCHANGED <<skew, client>>, NEW t \in Requests, SP!Turn(t)
    PROVE  Channel!Next \/ UNCHANGED Channel!vars
<1>1. /\ UNCHANGED <<now, arrival, body>> /\ pc[t] \in {"choosing", "verifying"}
      /\ \A u \in Requests \ {t} : UNCHANGED <<pc[u], arrival[u], body[u], entry[u]>>
      /\ DOMAIN pc = Requests
  BY DEF SP!Turn, SP!Consider, SP!Verify, SP!Exhaust, SP!Reject, Borne, Apart, SP!Inv, SP!Shape
<1>2. statements' = statements
  BY DEF statements, SentAt, client
<1>3. answers[t].state = "checking"
  BY <1>1 DEF answers, Given
<1>4. CASE pc'[t] \in {"choosing", "verifying"}
  <2>1. answers' = answers
    BY <1>1, <1>4, AnswersStay
  <2> QED
    BY <1>1, <1>2, <2>1 DEF Channel!vars
<1>5. CASE SP!Exhaust(t)
  <2>1. pc'[t] = "rejected"
    BY <1>1, <1>5 DEF SP!Exhaust, SP!Reject
  <2>2. Given(t)' = Channel!Answer("refused", Absent)
    BY <2>1 DEF Given, Channel!Answer
  <2>3. Channel!Refuse(t)
    BY <1>1, <1>2, <1>3, <2>2, AnswerChanges DEF Channel!Refuse
  <2> QED
    BY <2>3 DEF Channel!Next
<1>6. CASE /\ SP!Verify(t)
           /\ SP!Accepts(sigs[t][label[t]], entry[t].key, SP!ToVerify(arrival[t]), now)
  <2>1. pc[t] = "verifying" /\ pc'[t] = "served" /\ UNCHANGED entry
    BY <1>1, <1>6 DEF SP!Verify
  <2> DEFINE req == arrival[t].msg.req
             target == Target(req, Policy.scheme, Policy.authority)
             content == ContentOf(req, target, body[t], entry[t].identity)
  <2>2. Given(t)' = Channel!Answer("served", content)
    BY <1>1, <2>1 DEF Given, Channel!Answer
  <2>3. PICK n \in sent : /\ now <= SentAt(n) + (AgeLimit(Policy) + 2 * Policy.tolerance)
                          /\ Stated(n) = content
    BY <1>6, <2>1, AcceptedStated
  <2> HIDE DEF content
  <2> DEFINE s == [content |-> content, at |-> SentAt(n)]
  <2>4. s \in statements /\ s.content = content /\ s.at = SentAt(n)
    BY <2>3 DEF statements
  <2> HIDE DEF s
  <2>5. answers' = [answers EXCEPT ![t] = Channel!Answer("served", s.content)]
    BY <1>1, <2>2, <2>4, AnswerChanges
  <2>6. now <= s.at + (AgeLimit(Policy) + 2 * Policy.tolerance)
    BY <2>3, <2>4
  <2>7. Channel!Serve(t)
    BY Zenon, <1>1, <1>2, <1>3, <2>4, <2>5, <2>6 DEF Channel!Serve
  <2> QED
    BY <2>7 DEF Channel!Next
<1>7. CASE /\ SP!Verify(t)
           /\ ~SP!Accepts(sigs[t][label[t]], entry[t].key, SP!ToVerify(arrival[t]), now)
  BY <1>1, <1>4, <1>7 DEF SP!Verify
<1>8. CASE \E l, claim : SP!Consider(t, l, claim)
  BY <1>1, <1>4, <1>8 DEF SP!Consider
<1> QED
  BY <1>5, <1>6, <1>7, <1>8 DEF SP!Turn

\* Every step is one of the channel's, or none to it.
LEMMA StepChannel ==
    ASSUME Borne, Told', [Next]_vars
    PROVE  [Channel!Next]_(Channel!vars)
<1> USE DEF Borne
<1>1. ASSUME UNCHANGED <<now, skew, sent, SP!local>>
      PROVE  UNCHANGED Channel!vars
  BY <1>1, AnswersStay DEF Channel!vars, statements, SentAt, SP!local
<1>2. CASE UNCHANGED vars
  BY <1>1, <1>2 DEF vars, client, server, SP!local
<1>3. CASE \E c \in Calls : ClientStep(c)
  BY <1>3, ClientChannel
<1>4. CASE UNCHANGED <<skew, client>> /\ \E t \in Requests : (\E a : SP!Begin(t, a)) \/ SP!Turn(t)
  BY <1>4, BeginChannel, TurnChannel
<1>5. CASE UNCHANGED <<skew, client>> /\ \E keyid, e : SP!Rotate(keyid, e)
  BY <1>1, <1>5 DEF SP!Rotate, client
<1>6. CASE UNCHANGED <<skew, client>> /\ SP!Tick
  <2>1. answers' = answers /\ statements' = statements
    BY <1>6, AnswersStay DEF SP!Tick, SP!local, statements, SentAt, client
  <2>2. Channel!Tick
    BY <1>6, <2>1 DEF SP!Tick, Channel!Tick
  <2> QED
    BY <2>2 DEF Channel!Next
<1> QED
  BY <1>2, <1>3, <1>4, <1>5, <1>6, Steps

\* The two sides and the network between them implement the channel, but for
\* its fairness: whatever is lost, repeated, delayed, reordered or altered on
\* the way, and however keys rotate, a handler is given nothing but what the
\* client stated, method, destination and body together, under the name of
\* the holder of its key, and within the window.
THEOREM ChannelKept == Spec => Channel!Safety
<1>1. Init => Borne /\ Channel!Init
  BY InitChannel
<1>2. Borne /\ [Next]_vars => Borne'
  BY NextBorne
<1>3. Borne => Told
  BY StatesContent DEF Borne, Told
<1>4. Borne /\ Told' /\ [Next]_vars => [Channel!Next]_(Channel!vars)
  BY StepChannel
<1> QED
  BY <1>1, <1>2, <1>3, <1>4, PTL DEF Spec, Channel!Safety
==============================================================================
