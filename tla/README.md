# Verification of httpsig

TLA+ models of `github.com/micahhausler/httpsig`, HTTP message signatures
(RFC 9421) for Go, with the configurations that check them in TLC and proofs
for TLAPS. Paths below are relative to the repository.

## The system

| Component | Source | State | Operations |
|---|---|---|---|
| Components and signature base | `component.go`, `base.go` | none | `validate`, `parseComponent`, `newTarget`, `componentValue`, `signatureBase` |
| Signing | `sign.go` | the request's `Signature` and `Signature-Input` fields | `Sign`, `addSignature` |
| Parsing and verifying | `verify.go` | a `Signature`: parameters, components, the base pinned at parsing, or a defect | `ParseSignatures`, `Verify` |
| Algorithms | `algorithm.go` | keys | `NewSigner`, `NewVerifier`, `Sign`, `Verify` |
| Body digests | `contentdigest/` | none | `Value`, `Verify` |
| Configuration | `sigconfig/` | a policy or profile, constant once validated | `Validate`, defaults |
| Server middleware | `server/` | per request: the body replayed, the loop over signatures; shared: the application's key directory | `New`, `Wrap`, `check`, `readBody`, `reject`, `FromRequest` |
| Client transport | `client/` | per request: a clone with body and headers; shared: configuration only | `NewTransport`, `RoundTrip` |
| Key derivation ladders | `keyscope/` | per key: stage, material, one memo entry shared by all goroutines | `New`, `KeyID`, `Signer`, `Verifier`, `Derive`, `ParseKeyID` |

They call one another synchronously. The client digests a body
(`contentdigest.Value`) and signs; the network and intermediaries stand
between; the middleware reads the body, checks the digest, parses the
signatures, asks the key directory for each one's key and verifies. A key
directory may build its verifiers with `keyscope`, where `Key.Verifier` derives
the key for the scope a keyid names. What is shared: the memo of a
`keyscope.Key` (an atomic pointer, loaded and stored by every goroutine), the
key directory (the application's, it may change at any time), and the request
itself, which handlers and proxies may change between two of these calls.

What is hard, and so what the properties are about:

- **keyscope.** Goroutines race on the memo. Keys are handed off at a stage, and
  material and stage must never drift apart. Dates roll over under keys that
  hold a day's material. A peer's keyid must never drive the derivation.
- **Signature fields.** Several signers, other implementations and proxies write
  to the same two dictionaries, in any order, with duplicates and garbage. One
  signature must not spoil another, and nothing may be accepted that its key's
  holder did not sign, whatever happens before or after parsing.
- **Two views of one request.** The client signs a URL, the server sees a
  connection, perhaps behind a proxy that ends TLS, and a request line, perhaps
  in absolute form or with a bare `?`.
- **The client.** A redirect re-enters `RoundTrip` with the caller's request, so
  nothing an earlier hop did may show in it; the server chooses where it leads.
- **Two clocks.** Times in parameters are truncated to seconds, clocks disagree,
  and the network delivers late and again: for how long a request is good is a
  sum of several terms and two truncations.
- **The middleware.** Whether there is a body, whether it has a digest and
  whether the digest is covered are three questions with a peer between them.
  The directory and the clock move inside the loop.
- **Limits.** Caps, durations and times at the ends of Go's integers; the zero
  time.

The `hazards` list of `PROJECT.json` has these one by one, at their lines.

## Modules

| Module | Models | State and actions |
|---|---|---|
| `KeyScope` | `keyscope/keyscope.go` | `keys` (stage, position, material, memo of each `Key`), `calls` (each goroutine inside `derive`), `offers` (results of `Derive`), `sent` (signed messages). `Provision` and `Receive` are `New`; `Derive`, `BeginSigner`, `BeginVerifier` are the methods up to `derive`; `LoadMemo` and `StoreMemo` its two atomic accesses; `Finish` returns. |
| `KeySchedule` | what keyscope promises | `asked` and `answer` of each goroutine: whoever asks for the key of a scope gets the schedule's key, with no stage, hand-off or memo in sight. |
| `KeyScope_proofs`, `MessageSigning_proofs`, `Middleware_proofs`, `Transport_proofs`, `EndToEnd_proofs` | | the theorems about these modules. |
| `Lists_proofs`, `Httpsig_proofs`, `SigConfig_proofs` | | lemmas they share: about sequences of segments, lines and elements; about `Httpsig`; about `SigConfig`. |
| `Httpsig` | `component.go`, `base.go`, `sign.go`, `verify.go` | operators only: values of components, the base, `Sign`'s merge, `ParseSignatures`, the checks of `Verify`. |
| `MessageSigning` | a request's life around those operators | `msg` on its way through `Sign`, `PeerSign`, the edits of intermediaries, `Deliver` (net/http on both sides, writing the request line in origin or, for an http proxy, in absolute form) and `Parse`; `parsed` outlives later edits; `signed` is the history of who signed what. |
| `ContentDigest` | `contentdigest/` | operators. |
| `SigConfig` | `sigconfig/` | operators: what a valid policy and profile hold, and the defaults they are read with. |
| `Middleware` | `server/server.go` | per goroutine `pc`, `arrival`, `body`, `sigs`, `left`, `label`, `entry`, `status`; shared `policy`, `dir` and `now`. `Begin` is `check` up to its loop, `Consider` one turn up to the directory's answer, `Verify` the rest of the turn, `Exhaust` the loop's end; `Rotate` and `Tick` are the world. `standing` is the history of what ought to be accepted. |
| `Transport` | `client/client.go` | per call `pc`, `hop` (the request `RoundTrip` is given), `clone`, `hops`; `sent` is the history of what the base transport was given. `Refuse` and `Prepare` are `RoundTrip` up to `Sign`, `Sign` the rest, at a later time; `Ask`, `Return` and `Redirect` are the application and the `http.Client`. |
| `EndToEnd` | both, and a network | instances of `Transport` and `Middleware`, the former with a clock that is off by `skew`. `Deliver` gives the server anything that was ever sent, untouched or altered (another body with or without a digest to match, another method, another host and path, the signatures of another message); never delivering is losing. `owed` is the history of what the server ought to serve. |
| `AuthChannel` | what client and server promise together | `statements` a principal made and when, `answers` per delivery: served is only what was stated, within a window. `Safety` is that; `Spec` adds that whatever is being checked is decided. |

`MC*` modules hold the small instances; a definition with a comment
`Mutant` is a plausible bug, used to see that a property can fail.

### Abstractions

- Cryptography is symbolic. A signature is the pair of key and base, a digest
  the pair of algorithm and body, and a derived key the secret with the list of
  inputs absorbed. Two of them are equal only if their makings are.
- Text is abstract. A string with a separator in it is the sequence of its
  segments, so `/` in a scope value is visible; a field is its lines, a line its
  elements, an element has a key, a value and a spelling (canonical, respelled,
  unstructured, non-ASCII). Percent-encoding and whitespace are left out.
- Times are ticks, `Second` of them to a second, or days where only the day
  counts: parameters count seconds, clocks and durations ticks, so that truncation
  shows. A time parameter equal to Go's zero `time.Time` is kept, since Go code
  cannot tell it from an absent one.
- A middleware goroutine reads its body and parses in one step: no other
  goroutine sees either. The directory and the clock are read at the steps where
  the code reads them.
- What net/http makes of a request is `Inbound`, from how the code uses it: the
  URL loses scheme and host, the request line is in origin form and keeps a bare
  `?` (`URL.ForceQuery`). `InboundAbsolute` is a request written for an http
  proxy, whose URL keeps both. `Transport` and `EndToEnd` use the former only.
- An `http.Client` that follows a redirect keeps a `Host` other than the URL's if
  the `Location` is relative, and asks with `GET`, or `HEAD` again, where it does
  not repeat the request.
- `MaxInt` stands for the largest int64: sums the code forms wrap there, the
  properties' sums do not.
- The accessors of a signature that did not parse return what parsing got to;
  `Middleware` lets them return anything.

## Runs

Bounds are in the `.cfg` files and in the `MC` modules.

| Run | Question | Instance |
|---|---|---|
| `keyscope_memo` | Are the types and the inductive invariant right; is every memoised answer the scheduled key and every verdict exact; does a mismatched keyid never derive; does every call return; does `KeyScope` implement `KeySchedule`? | two goroutines, a root key and a handed-off one, two days, altered and stray keyids, signers kept past midnight |
| `keyscope_stages` | Do material, stage and keyid agree along chains of hand-offs, and is a scope recoverable from its keyid? | three keys, two secrets, a ladder with two scope steps and a date, values with separators |
| `keyscope_long_name`, `keyscope_far_date` | violations, below | as above |
| `signing` | Is what is accepted what was signed, read the same; is no label lost; do signatures leave one another alone; does an honest one verify at the other end? | seven settings: two signers, two labels, foreign signers, signatures over signatures and an edit; a covered field rewritten twice under every component parameter; method, `Host`, TLS, path and query rewritten twice under every component of the request; peers' `created` and `expires` before, in and after the window, absent and ill-typed; 34 forms of request, in origin and absolute form, to a server that asks its connection; those over https behind a TLS-ending proxy; peers signing again under a label another signature covers |
| `signing_zero_expires` | violation, below | |
| `gate_strict` | Is who is served entitled, is the body the one signed, is who stays entitled served, are the caps exact, and is everybody answered? | one request out of some 800: pairs of signatures (swapped, orphaned, garbage, undated, expiring), bodies and digests of all relations, failing connections; a digest wanted of a body or always; three keys rotating over two key ids |
| `gate_max_int`, `gate_overflow` | violations, below | |
| `transport` | Is what is sent what the caller asked for, signed over what the profile lists and over its body, for listed hosts only, and does nothing fail but for its shape? | one call, some 45 requests (bodies around the cap, unreadable and unrepeatable ones, a bare `?`, every destination with and without a Host of the caller's, fields, digests and signatures it brings), two redirects out of five each way, relative and absolute, profiles of every digest mode |
| `transport_label` | violation, below | |
| `end_to_end` | Is an untouched request in time served, and do the two ends implement `AuthChannel`? | one call, of a request that can be signed or one that cannot, with one redirect; one delivery of any message sent; clocks a tolerance apart either way, two ticks to a second, seven ticks: from the first signature to past the end of its window |

Why the bounds are enough: the memo has one entry, so two goroutines and two
days give every order of loads and stores; a third key in `keyscope_stages`
gives a hand-off of a handed-off key, and a fourth could only repeat it. Labels
interact in pairs (a signature and what is merged next to it), fields with one
signature at a time. Requests in the middleware share only directory and clock,
and calls of a transport nothing, so one of each suffices; a second redirect
gives a hop whose predecessor was itself redirected. `end_to_end` has
one delivery, at any time and of any message, so TLC sees no message served
twice; a delivery leaves nothing behind at the server that another reads, and
that any number of them are given only what was stated, inside the window, is
the theorem `ChannelKept`. With a clock that is
behind or ahead by the whole tolerance the window's two ends are reached, and
in between nothing new happens. Deadlock is not checked in the signing,
transport and end-to-end runs, in `keyscope_stages` and in the two violations
like it, where the bounds on messages, edits, calls and time end every
behaviour.

### Where the two sides differ

A covered `@request-target` is read off the URL by a client and off
`RequestURI` by a server (`component.go:256-260`). The former is in origin form
and has no `?` if the query is empty (`component.go:271-283`). So a signature
over it does not verify at the other end of a request that net/http writes in
absolute form or with a bare `?`. No document of the repository claims that it
would, so `HonestJourney`, `SentIsSigned` and `Owed` make that exception, and no
other component has one.

### Fairness

- `KeyScope`: weak fairness of each goroutine's steps inside `derive`. The Go
  scheduler runs a runnable goroutine, and `derive` holds no lock and waits for
  nobody. Callers are not obliged to call.
- `Middleware`: weak fairness of each goroutine's steps in `check`, for the same
  reason, from its arrival on; it assumes that the directory returns. Neither the
  clock nor the directory is fair, and nobody need send a request.
- `EndToEnd`: the same for the server's goroutines, which is what `AuthChannel`
  asks: what is being checked is decided. The application, the client and the
  network owe nothing.
- `Transport` has no fairness: what can be said of its progress depends on the
  network.
- `MessageSigning` has no fairness and no liveness property: nothing obliges
  anybody to sign or deliver.

### What the violations show

- `gate_max_int` (`server/server.go:250`). With `maxBodyBytes` the largest
  int64, `limit+1` wraps, nothing is read, and the handler gets an empty body in
  place of the one that was sent. The digest requirement is waived too, because
  the body that was read is empty. `client/client.go:177` has the same sum, and
  `SentIsCallers` fails in the same way with the cap of a profile that large.
- `gate_overflow` (`verify.go:265`). A `maxAge` and a tolerance that `Validate`
  accepts one by one overflow in `MaxAge + Tolerance`: the age bound lies
  centuries back and every request is refused as expired, although `New` says a
  middleware that constructs does not fail on account of its configuration.
- `transport_label` (`sigconfig/profile.go:70`). `Validate` does not look at the
  label, nor at keyid and tag; one that no structured field can hold makes every
  request fail in `Sign`, although `NewTransport` says as much as `New`.
- `signing_zero_expires` (`verify.go:255`). An `expires` of -62135596800 is the
  zero time, taken as absent, so the signature never expires.
- `keyscope_long_name` (`keyscope/keyscope.go:295`). A key whose keyid is longer
  than the limit constructs, signs, and refuses its own signatures.
- `keyscope_far_date` (`keyscope/keyscope.go:340`). A hand-off for a created time
  past the year 9999 yields a stage that `New` refuses.

## Proofs

Every theorem is for all values of the constants, under assumptions of two
kinds: those named in the models' modules, which TLC evaluates in every run of
them, and conditions stated in the theorem itself, where the code does not
establish what it needs. For each condition without which the code has been seen
to fail, a run shows the failure.

### keyscope

`KeyScope_proofs` proves, for every derivation, every set of keys, goroutines,
secrets, days and strings:

- `TypeCorrect`: `Spec => []TypeOK`;
- `Invariance`: `Spec => []Inv`;
- `StagesAreFaithful`, `MemosAreSound`, `VerdictsAreExact`: what memos, stages
  and verifiers may say;
- `NoMismatchDerives`: the action property that a keyid not naming the
  verifier's scope never reaches the ladder;
- `ImplementsSchedule`: `Spec => ScheduleSafety`, `KeyScope` implements
  `KeySchedule` under the mapping given at its end;
- `KeyIDsDetermineKeys`: no two scopes of one secret read alike as keyids;
- `LookupsFindKeys`: what `ParseKeyID` returns finds the key that accepts the
  keyid;
- `OwnKeyIDsVerify`, given `ShortTexts`, that no text in use takes a keyid over
  the limit; `keyscope_long_name` is the counterexample without it;
- `HandoffsReconstruct`, given `DaysParse`, that days signed on are written as
  `Parse` reads them; `keyscope_far_date` is the counterexample without it.

The first three invariants are not inductive. A memo is sound because a running
call's result is; a call's result is because the key's material is where its
stage says; that holds of a received key because the offer it came from was
faithful. So `Inv` is the conjunction of `TypeOK`, `StageFaithful` (the material
of a key is the schedule's up to its position, and what its stage records is what
was absorbed), `MemoSound`, `CallsSound` (a call in flight holds claims that
agree with its key, and once it has a result, the scheduled one) and
`OffersFaithful` (the same of hand-offs on their way). One lemma per action shows
that it preserves each conjunct. The refinement then follows from `Inv` step by
step: beginning a call is `Ask`, the memo hit or the store is `Answer`, `Finish`
is `Done`, and everything else stutters.

The theorems on keyids rest on one fact about text: a claim that validated is a
single segment that is not empty (`ClaimsAreSegments`), so joining the claims
and splitting the keyid again give the same list (`Segments`, `MintedNamesScope`,
from `FlattenSingles`). A stage that `Derive` returns is valid because what it
records is what the key's own stage recorded, and what was absorbed since
(`DerivedStageValid`).

The assumptions are those named in `KeyScope`: the types of the constants, that
a string is the sequence of its segments, that a formatted date is one segment and
not empty, that placeholders are none of the values they stand beside.

### A request and its signatures

`MessageSigning_proofs` proves, for every set of keys, labels, policies and
settings (requests, fields, component lists, what peers write):

- `TypeCorrect`: `Spec => []TypeOK`;
- `Invariance`: `Spec => []Inv`;
- `AcceptedAreStatements`: `Spec => []AcceptedIsStatement`;
- `SignaturesAreReported`: `Spec => SignaturesReported`, an action property;
- `SignaturesStandApart`: `Spec => OthersStand`, an action property;
- `SurvivesTheJourney`: `Spec => []HonestJourney`.

`Inv` says that every recorded signature is the one its key makes of the base of
the message it was made on, that each member of the signature fields is a
recorded signature or garbage, and that a parse result is what parsing gave of
the message as it was then. `AcceptedAreStatements` follows since a base
determines the component list, the parameters and, component by component, the
value that went in (`BaseDetermines`); the rest of that proof goes from equal
values back to what a reader of each kind of component takes from the message
and its target (`ValuesAgree`): of a field (`FieldsAgree`), a signature field
(`HeadersAgree`), a query parameter (`ParamsAgree`) or another derived component
(`DerivedAgree`), where the target is the signer's on one side and the
verifier's on the other. The checks of `Verify` leave the window open around
`created` and `expires` both (`WindowIsOpen`), but for an `expires` of the zero
time, which `signing_zero_expires` shows to be no bound.

`SignaturesReported` has an invariant beside `Inv`, `Present`: until somebody
edits, both signature fields hold the labels signed under and no other; after
one edit, whichever it is, one of the two still holds each. So a label
cannot get lost between the two dictionaries that `ParseSignatures` reads.
`SignaturesStandApart`
goes the other way: a base whose components read the same is the same
(`BaseCarries`), and no component but a signature field or a member of one reads
what merging writes.

`HonestJourney` is not inductive with `Inv`: a signature that covers another
member is good only while that member stays. The second invariant, `Quiet`, says
of a message nobody edited, relative to the one each signature was made on, that
its request reads the same through the network (`InboundReads`,
`AbsoluteReads`), the request line with the exception above (`SameLine`), that
its fields are the same, and that every member the earlier message had is still there
unless its label was signed under again. That last exception came out of the
proof: peers may append under a label in use, the last member counts, and a
signature over the earlier one then fails for no edit. `HonestJourney` now says
so, and the `signing` run has a setting in which it happens.

The assumptions are named in `Httpsig` and `MessageSigning`:
`SettingsAssumption` types the settings and says that requests are outbound ones;
`ToldAssumption` that a verifier's configured scheme and authority are the
client's, and a scheme is configured where TLS ends in front of it;
`PolicyAssumption` and `TimesAssumption` that times and durations are integers of
which none reaches back to year 1.

### The middleware

`Middleware_proofs` proves, for every number of goroutines, every set of
policies, arrivals, statements and keys:

- `TypeCorrect`: `Spec => []TypeOK`;
- `Invariance`: `Spec => [](Inv /\ Came)`;
- `ServedAreEntitled`: `Spec => []ServedIsEntitled`;
- `BodiesAreBound`: `Spec => []BodyBound`. It holds for any cap, even one that
  wraps: what the handler reads is still what was signed as the body, if the
  signature covers a digest;
- `BodiesAreWhole` and `OnlyLargeIs413`: `BodyIntact` and `TooLargeIs413`, given
  `CapsFit`, that every cap is below `MaxInt`. The condition is the exact one:
  `gate_max_int` is a counterexample with the cap at `MaxInt`;
- `MetIsNotRejected`: `Spec => []NoFalseReject`, given `CapsFit` and
  `WindowsFit`, that no age bound and tolerance add up to more than `MaxInt`;
  `gate_overflow` is a counterexample without the latter.

That a served request is entitled says nothing of the points in between, at
which directory and clock move. `Inv` says what each point of `check` has
established: from the loop on, `sigs` and `body` are what parsing and reading
the arrival gave, the body is not too large and its digest is right (`InHand`);
at `Verify`, the signature's claims have the policy's tag and the entry in hand
an allowed key (`Chosen`); a served request's signature verified under that key,
covers what is required and is dated when ages are bounded (`Proven`); and an
answer is 413 only for what `readBody` calls too large (`Coded`). None of them
mentions the directory or the clock, so no step of theirs can disturb them. Nor
does `Inv` say where arrivals come from: that they are among `Arrivals` is `Came`,
a conjunct of its own, so that `Inv` also holds where a network makes them. One
lemma per action shows that it preserves the invariant. `ServedIsEntitled`
follows since bases are equal only if component lists, parameters and component
values are (`BaseDetermines`); `BodyBound` since the digest is one of those
values (`DigestComponent`, `DigestElement`); the two on the cap from what a
limited reader returns (`LimitedReads`, `ReadWhole`).

`NoFalseReject` needs an invariant that does mention them, `AllUpheld`: a label
that met the policy ever since its request came meets it now, and is still to be
looked at or is being verified, with a key it verifies under. So the loop cannot
run out of labels while one is standing, and `Verify` cannot fail it: that the
window in true integers implies the code's checks, which wrap, is where
`WindowsFit` enters.

The assumptions are named in `Httpsig`, `SigConfig` and `Middleware`:

- `PoliciesValid` is what `New` checks, and the types of sizes and durations;
- `Unforgeable`: a signature in an arrival, whatever it stands next to, is that
  of a statement;
- `HonestDigests`: who signs a Content-Digest signs that of the body;
- `ZeroTimeAssumption`: no duration reaches back from the epoch to the zero time;
- `DatesAssumption`: `created` and `expires` are integers or of the wrong type;
- `ListsAssumption`, `BodiesAssumption`: component lists and bodies are
  sequences; `MaxIntAssumption`, `MaxTimeAssumption`, `DefaultsAssumption` type
  the other constants.

### The transport

`Transport_proofs` proves, for every number of calls, every set of profiles,
requests and places to be redirected to, and any number of redirects:

- `TypeCorrect`: `Spec => []TypeOK`;
- `Invariance`: `Spec => []Inv`;
- `SignedAreForListed`: `Spec => []SignedForListed`;
- `SentAreCallers`: `Spec => []SentIsCallers`, given `CapsFit`, for the reason it
  is needed at the server;
- `FailuresAreForShape`: `Spec => []FailsOnlyByShape`, given `Printable`, that
  label, keyid and tag of every profile can be printed; `transport_label` is a
  counterexample without it;
- `SentAreSigned`: `Spec => []SentIsSigned`, given `MembersOnly` and
  `LifetimesLast`. A profile that lists a whole signature field has its own
  signature merged into what it covers, and one with a lifetime below
  `Second - 1` can have `expires`, truncated, before the time it is sent at.
  `Validate` refuses neither.

What is sent is known to be the caller's only by knowing so of the request each
hop was entered with, so `Inv` says: the request in hand is one that redirects
may have made of the one asked for, with its fields, its signatures and its body
or none (`Followed`); the clone being signed is that request prepared, and passed
the authorities and the cap (`Passed`); and every message sent is the clone of
such a request, signed (`Wrote`). What `Inv` says of the clock is one conjunct,
`Timed`, so that the rest also holds on a clock that is off. The actions that move
one call share one lemma, `MoveInv`. `SentIsCallers` then
follows from what preparing and merging leave alone (`PreparedSound`,
`MergeKeeps`), and `SignedForListed` from `BaseValues`: a verifier that accepts a signature over a destination read the value that was
signed, and the hosts signed for are listed. `SentIsSigned` is the converse: the
verifier's base is the signer's, since merging a signature leaves every covered
component as it was and both ends derive one target (`BaseCarries`,
`InboundReads`), a bare `?` on a covered request line excepted (`LineReads`).
`FailsOnlyByShape` has an invariant of its own, that a call that
failed has a request of one of the shapes listed; the step to prove is that of
`Sign`, where anything else it could fail for is excluded.

`ProfilesValid` is what `NewTransport` checks; `OffersAssumption` says that what
the application asks for is a request with a host, over http or https, whose body
`GetBody` gives again as it was; `LowerCaseAssumption` that lower case is so
already; `ParametersAssumption` that what `Sign` itself puts among the
parameters can be printed; `TimesAssumption` that clocks run after the zero time.

### Client and server

`EndToEnd_proofs` proves, for every number of calls and requests, every set of
profiles, offers, redirects and forged bodies, and every policy that meets the
assumptions below:

- `TypeCorrect`: `Spec => []TypeOK`, for the client's variables, the server's
  and the messages between them;
- `BothSidesKeep`: `Spec => []Apart`, the invariants of either side, beside the
  other;
- `HonestAreServed`: `Spec => []HonestServed`;
- `ChannelKept`: `Spec => Channel!Safety`, client, network and server implement
  `AuthChannel`, but for its fairness.

Nothing that was proved of either side is proved again: `Middleware_proofs` and
`Transport_proofs` are instances with the variables of `EndToEnd`, once
`ServerAssumed` and `ClientAssumed` show their assumptions from those here. An
instance brings an `Httpsig` of its own, and the lemmas `Same...` say that they
all read a request alike. A client step is one of the transport's and leaves the
server as it is, and the other way round. So `Apart` is inductive: the
transport's invariant but for `Timed`, which its shifted clock need not keep, the
middleware's, that what was sent was sent in the server's past, and that only
requests that came are owed.

`HonestAreServed` needs more, the invariant `Honest`: `AllUpheld` of the
middleware, that every arrival is well-formed (`Sound`), as the middleware's own
proof has of `Arrivals`, and that whatever is owed is still owed while it is
checked, and has met the policy ever since it came, under the label the profile
signs with (`Standing`). That an untouched message meets the policy when
it comes is the long part (`OwedMeets`): the network and both ends' rules for
the target leave the base as it was signed (`Reached`), and a time the message
is good at by truncated seconds on a clock that is off is one the policy's window
is open at (`OpenWhileGood`). What `owed` loses when directory and clock move
is what the server need no longer uphold (`OwedOutlasts`).

`ChannelKept` rests on `Borne`: every arrival, altered or not, bears the
signatures of one message that was sent, and its method and path are spelled out.
Then a signature that verified under a key of the directory is the client's own
of that message and no signature the application brought along
(`SignedByClient`); the destination, method and body of the arrival are those of
the message, since the base has them or their digest in it (`SameDestination`,
`SameBody`); and it is served inside the window (`WithinWindow`). Together they
say that what is accepted was stated (`AcceptedStated`), so serving is `Serve`; a
message that is sent is `State`, and what it states is among `Contents`
(`StatesContent`); a delivery is `Arrive` or, when `check` refuses it at once,
`Refuse`; every other turn is `Refuse` or changes no answer (`TurnChannel`).

The assumptions are named in `EndToEnd`, and TLC evaluates them in its run:

- `ClientAssumption`, `ServerAssumption`: those of `Transport` and `Middleware`
  above, for what both are configured with, and that the client's key has an
  owner;
- `BroughtAssumption`: signatures an application brings along have `created` and
  `expires` of a type, and are not of a key in the directory;
- `RoomAssumption`: caps and windows fit in `MaxInt`, as `CapsFit` and
  `WindowsFit`;
- `BindingAssumption`: the policy bounds ages and requires the method and the
  destination, and profiles digest bodies. `New` asks none of this; without it
  less is bound than `AuthChannel` says;
- `ReachedAssumption`: the server is told the authority clients reach it at, or
  sees it in the request;
- `AgreementAssumption`: the policy asks for no more than every profile gives;
- `SkewsTolerated`: clocks are apart by no more than the tolerance.
  `BodiesAssumption` types the forged bodies.

The content of a statement has the destination as both ends derive it: what the
server takes for its authority is what it is told, if it is told one, and the
handler is to use that and not the `Host` it happens to see.

### Shared lemmas

`Lists_proofs` has what the others need of the community modules' `FlattenSeq`
and of greatest and least indices. The library's induction theorem takes a
predicate as its parameter, which these provers cannot instantiate, so it is used
through a set: `EveryNatural` says that a set with 0 in it, and with n the number
after it, has every natural number in it, and a proof by induction defines the set
of the lengths its claim holds for. `Httpsig_proofs` relates a base to
the values in it, both ways, and says what merging a signature and crossing the
network leave alone. `SigConfig_proofs` has the limited reader and what `Validate`
says of its limits.

### Only model-checked

Liveness, since the prover does not treat `ENABLED`: `CallsReturn`,
`EveryRequestAnswered`, and the fairness in `ScheduleSpec` and in `ChannelSpec`.
Of these two the safety is proved (`ImplementsSchedule`, `ChannelKept`). The six
violations are behaviours TLC finds and need no proof. Every invariant and action
property of the passing runs is a theorem.

## Not modelled

Key parsing and the arithmetic of the algorithms, out of a model checker's
reach; JSON and duration texts; error types and wording; `WithErrorHandler`,
which only writes the response; the type parameter of `FromRequest`; the closing
of bodies, by which `RoundTrip` differs from what `http.RoundTripper` asks when it
refuses an authority, but which no state of these modules depends on. The
structured field parser is a dependency, modelled by what its callers rely on,
and so are net/http on both sides and the `http.Client`'s redirects.

## Where to go on

The modules and theorems planned are done. A change of the code shows in the
definition that `PROJECT.json` maps to its lines, then in the runs of that
component's module, then in its proofs; the lemmas of `Httpsig_proofs` are what
the other proofs know of the signature base.
