# TLA+ models of online-verifier

This directory keeps the TLA+ specifications of the OpenID4VP verifier library
(`src/`) and of the proof-of-concept verifier built on it (`poc-verifier/`),
the TLC configurations that check them on small instances, and proofs, checked
by TLAPS, of the theorems that hold on every instance.

Paths below are relative to the repository's root.

## The system

A verifier asks a wallet for credentials and judges what comes back.  Two
programs do that here: the library, a set of mostly stateless functions with a
stateful trust layer below them, and the PoC, a small Express server and a web
page that use it.

| Component | State | Operations | Talks to |
|---|---|---|---|
| Session store, `poc-verifier/src/services/sessionStore.js` | map from `state` to session, sweeper interval | `create`, `get`, `complete`, sweep, loss at exit | the routes |
| Routes and services, `poc-verifier/src/routes`, `services` | handlers in flight at an `await` | `GET /api/request`, `POST /response`, `GET /api/status/:state` | store, library, wallet, page |
| Page, `poc-verifier/public/app.js` | panel shown, poll timer, fetches under way | request a presentation, poll, render | routes |
| LOTL trust store, `src/trust/LotlTrustStore.ts` with `NationalTlResolver`, `LotlFetcher` | snapshot, refresh in flight | `getAnchors`, `getNationalTls`, refresh | list servers, trust evaluator |
| LOTL parsing, `LotlParser`, `lotl-loa-mapping`, `service-metadata`, `xml-util` | none | parse a list, map services to levels of assurance | trust store |
| Revocation, `RevocationChecker`, `OcspClient`, `CrlFetcher` | none of its own; a shared `Cache` | `check` under a policy | OCSP responders, CRL servers, cache |
| Cache, `src/trust/Cache.ts` | bounded map in LRU order, expiry times | `get`, `set` | revocation |
| Chain building, `ChainBuilder`, `x509-utils` | the chain so far | `build` | trust evaluator, OCSP client |
| Trust evaluation, `TrustEvaluator`, `TrustStore`, `ProvenanceResolver` | anchors gathered so far | `evaluate`, `getAnchors` of static and composite stores | chain, revocation, trust stores |
| mdoc parser and its cryptography, `mdoc.parser.ts`, `src/crypto` | the result so far | `parse` | trust evaluation |
| SD-JWT parser | the result so far, the disclosures | `parse` | trust evaluation |
| Response verification, `verify.ts`, `decrypt-response.ts`, `presentation.ts` | none | `verifyPresentation`, `verifyAuthorizationResponse` | parsers |
| Request building and HAIP, `authorization.ts`, `signed-authorization.ts`, `haip.ts` | none | build and validate a request | callers |
| OIDF harness, `scripts/oidf-ci` | test plan, local server, captured response | run a profile, poll the suite, gate the result | conformance suite |
| PoC configuration, query builder, trusted issuers | read once at start | fail fast on a bad setting | PoC server |
| Wallet mock-up, `poc-verifier/vcm` | page state only | static screens | nobody |

What is hard in each of them, and what makes it correct:

- **Sessions.**  `POST /response` looks a session up, awaits the verification
  and then settles the session.  In that window another post can settle it,
  the clock can pass its expiry, a poll or the sweeper can delete it, and the
  process can restart.  Correct means: one verdict at most, `done` only for a
  presentation made for this very session and accepted in time, nothing kept
  for ever, and what polls say never goes back.
- **Page.**  A poll is sent every two seconds whether or not the previous one
  was answered; answers overtake each other and can outlive the session they
  are about.  Correct means: a QR code on the screen is being watched, a result
  on the screen is backed by the server, a verdict never flips, polling ends.
- **Trust store.**  Concurrent evaluations share one refresh.  The refresh can
  fail as a whole or list by list.  Correct means: one refresh at a time, every
  caller answered, an error only from a store that was never loaded, and
  anchors older than the interval only after a failed refresh.
- **Revocation.**  Several sources in an order, each through a cache, under one
  of three policies, and the certificate may be revoked at any moment.  Correct
  means: a verdict no older than its source allows, no verdict from an unsigned
  answer, `require` fails closed, `prefer` tries everything.
- **Cache.**  Correct means: never above its bound, never an expired or
  overwritten answer, and the least recently used entry is the one that goes.
- **Chain building and evaluation.**  A greedy search over certificates that
  share subject names, and anchors pooled from several lookups.  Correct means:
  the search ends, a chain it returns is closed by signatures and satisfies the
  constraints of all its CAs, and provenance belongs to the anchor it ends at.
- **Parsers and response verification.**  Which checks run depends on the
  options and the token.  Correct means: `valid` is never said when one of the
  checks it stands for was skipped, a disclosed claim is one that the issuer's
  digests reach, an answer to another request is not accepted, and an honest
  answer to this one is.
- **Requests.**  The query, the client id, the encryption key and the response
  mode come from separate inputs.  Correct means: what is sent can be answered
  by a conforming wallet and stood behind by the verifier that sent it.
- **Harness.**  Two polling loops with time limits against a remote run, while
  the suite posts to the harness's own server.  Correct means: it passes only
  when the suite said so and the library was really asked, it fails only for a
  reason, and it always ends.

## The modules

| Module | What it is | Code |
|---|---|---|
| `OneShotSession` | abstract: what a session promises | - |
| `VerifierServer` | store, routes, sweeper, restarts; implements `OneShotSession` | `poc-verifier/src` |
| `PocVerifier` | `VerifierServer` composed with the page | `poc-verifier/public/app.js` |
| `VerifierServer_proofs` | type, safety and refinement theorems | - |
| `PocVerifier_proofs` | safety and refinement theorems of server and page together | - |
| `LotlTrustStore` | snapshot, shared refresh, failing lists | `src/trust/LotlTrustStore.ts`, `NationalTlResolver.ts`, `LotlFetcher.ts` |
| `TrustEvaluator` | `LotlTrustStore` composed with the evaluations that call it, the static and the composite store | `TrustEvaluator.ts`, `TrustStore.ts`, `ProvenanceResolver.ts` |
| `TrustEvaluator_proofs` | type and safety theorems of the trust store and of the evaluations | - |
| `Revocation` | concurrent checks with OCSP, CRLs, policies and cache | `RevocationChecker.ts`, `OcspClient.ts`, `CrlFetcher.ts` |
| `Revocation_proofs` | safety theorems | - |
| `InMemoryCache` | LRU order, expiry, eviction | `Cache.ts` |
| `InMemoryCache_proofs` | safety theorems | - |
| `ChainBuilder` | the search from the leaf to an anchor | `ChainBuilder.ts`, `x509-utils.ts` |
| `ChainBuilder_proofs` | the theorems about chains returned and about failure | - |
| `CredentialParser` | what both parsers share: a check, and the trust in an issuer certificate | `src/parsers`, `src/types/presentation.ts` |
| `SdJwtParser` | its checks, the disclosure closure, key binding | `sd-jwt.parser.ts` |
| `MdocParser` | its checks, the dates, digests, device authentication | `mdoc.parser.ts`, `src/crypto` |
| `AuthorizationExchange` | query, request, answer, unwrapping and verdict, around the two parsers | `haip.ts`, `authorization.ts`, `signed-authorization.ts`, `decrypt-response.ts`, `verify.ts`, `presentation.ts` |
| `AuthorizationExchange_proofs` | what an accepted answer guarantees, and which answers are accepted | - |
| `ConformanceRun` | orchestrator, verifier server and remote suite | `scripts/oidf-ci` |
| `ConformanceRun_proofs` | safety theorems | - |
| `MC*` | the modules above with symmetry sets, certificates or cases for TLC | - |

An operator named `<Definition>_<What>` next to a definition is a faulty variant
of it: what the code would do with a guard dropped, a bound off by one or two
steps swapped.  With the variant in the place of the definition TLC finds the
property that PROJECT.json pairs with it violated; no specification uses it.

### VerifierServer

The server is one Node event loop, so a handler runs without interruption from
its start to its first `await`, and from there to its reply.  Each stretch is
an action.

| Code | Actions |
|---|---|
| `createPresentationRequest`, `requestRoutes` | `OpenSession`, then `AnswerRequest` or `FailRequest` after the QR code's `await` |
| `responseRoutes` before `await verifyResponse` | `RefuseDeadState`, `RefuseReplay`, `RefuseEncrypted`, `RefuseWithoutToken`, `StartVerification` |
| `responseRoutes` after it | `FinishVerification` |
| `statusRoutes` | `PollStatus` |
| `SessionStore.#sweep` | `Sweep` |
| `Date.now()` | `Tick` |
| exit and start of the process | `Restart` |

`store` is the map, `requests` and `posts` are the handlers, `polled` is the
last answer of the status route, and `ledger` is a history variable: the
verdicts that `complete` accepted.  A body is one of eight kinds, told apart by
how the route and `verifyResponse` end with it, and by the session it was made
for; its cryptography is `Verifies`: the nonce is bound into the transcript, so
only a body made for this session verifies, and mismatched digests pass only in
a session opened with the debug toggle.  States are fresh UUIDs, so each is
opened once.

### PocVerifier

Extends the server with the page's `panel`, `asking` (requests not answered),
`polling` (the state of the running timer), `polls` (fetches under way) and
`shown`.  A poll goes out (`PollTimer`, or `ReceiveRequest`, which polls at
once), is served by the server's `PollStatus`, and comes back (`ReceivePoll`) or
is lost (`LosePoll`), in any order.

### LotlTrustStore

`getSnapshot` is `ServeFresh`, `JoinRefresh` or `StartRefresh`; the body of the
refresh is `LotlLoads` or `LotlFails`, one `NationalSettles` per list, and
`FinishRefresh`.  A fetch with its parsing and XML-DSig check is one outcome.
`callers` records when each caller asked and what it got.

### Revocation

A check goes through `Begin`, `OcspLookup`, `OcspArrives` or `OcspFails`, and
`CrlLookup`, `CrlArrives` or `CrlFails` per distribution point.  An answer is a
record of what the code tells apart: whether its signature verifies, its
thisUpdate and nextUpdate, whether the responder knows the certificate.  The
environment is the CA: it revokes the certificate at some time, signs only the
truth, and what it signed may arrive at any later time; unsigned answers may
say anything and may arrive too.  `CacheForgets` is what eviction does to this
module's entries.

### InMemoryCache

A JavaScript `Map` iterates in insertion order, so the entries are a sequence,
the least recently used first.  `Get` is a miss, a drop or a hit, `Set` removes,
appends and evicts.  `used` and `written` are history variables that the LRU
property is stated with.

### ChainBuilder

`build` is one deterministic loop in a loop; what is open is its input.  `Init`
chooses the leaf, the intermediates and the anchors, in any order.  `Start` is
the check of the leaf that opens `tryBuild`; then every turn of its `while` is
one of `Climb` (an intermediate bears the issuer's name), `CloseAtAnchor` (none
does) and `MeetAnchor` (the path has come to the anchor's name), and a check
that throws is `GiveUp`: the next anchor, or the end.  A certificate is a record
of what the checks find in it: names, the key it certifies, the key that signed
it, CA flag, path length, whether its name constraints admit the leaf, and
`fit` for validity period, algorithm and key usage together.

Anchors are what `TrustEvaluator` and the OCSP client can pass, hence `Hinted`:
somebody names them.  To keep circular searches finite, `chain` does not record
a certificate twice, and `depth` beyond every constraint takes turns between
two values; no check sees the difference, and a chain that is returned has no
repetition because the search takes the same turn at the same certificate.

### TrustEvaluator

An evaluation is a caller of the trust store, several times over: `AskAnchors`
calls it for one hint (the leaf and each intermediate have one, `Hints`), the
steps of `LotlTrustStore` serve or reject the call, `ReadAnchors` pools what is
offered.  The static store before it in a composite answers at once
(`StaticOffers`), and a call that rejects rejects the composite
(`AnchorsUnavailable`, `Promise.all`).  After the last hint `Decided` builds the
chain, then come `CheckRevocation`, whose outcome is any, and for an anchor of a
list `AskProvenance` and `ReadProvenance`, at a snapshot of their own.  That
snapshot may be a later one than the anchors came from, and then the list of the
anchor may have been lost: `seen`, a history field, is when the anchors' snapshot
was made, and `ProvenanceIsOfTheAnchor` says how far apart the two may be.
Certificates are what the code compares: serial number, key identifier, name.
Which anchors a leaf's chain can close at is part of the input (`closes`); the
search itself is `ChainBuilder`.

### CredentialParser, SdJwtParser, MdocParser

`parse` of each is a pipeline of checks; `pc` names the next one, and a check
throws, returns an invalid result, or goes on (`Passes`).  The order, and which
of the two a failure is, are those of the code.  A token is a record of what
the checks tell apart; a key stands for the certificate that holds it and for
the signatures it makes.  The disclosures of an SD-JWT are nodes that refer to
each other by digest, in the two kinds of places there are, and `AnchorPass` is
one turn of the loop that works out which of them the issuer reached.  `current`
of a token and of its KB-JWT is what the JWT library makes of `exp` and `nbf`.
Dates of an MSO are numbers or `NotADate`, which every comparison is false for,
as for the NaN of `getTime`; `AcceptedIsVouchedFor` holds each pair of dates that
can be read to their order, whatever the others are.  A device key is a key,
`unsupported` (no algorithm for it: the answer is rejected) or `unusable` (WebCrypto
will not import it: the error is thrown on, `ImportThrows`).

### AuthorizationExchange

One exchange from `BuildQuery` over `CreateRequest` to `Conclude`; between them
`OpenEncrypted` and `OpenPlain` unwrap what arrived and `ChooseParser` hands it
to one of the parsers.  A decrypted answer goes through the same actions again,
as the code calls itself.  Everything is deterministic, and what is open is the
case: the input of the request, what arrives and the caller's options.
`HonestCases` are exchanges in which a conforming wallet answers the request
and the caller verifies with its values.  `Conforming` spells out what that asks
of wallet, issuer and caller, and TLC evaluates `HonestAssumption`, that each of
`HonestCases` is so.  `Departures` are what else can arrive,
or be configured, in the place of one of them.

### ConformanceRun

`runProfile` from `Prepare` to `Close`, one action per await; `getTestStatus`
is two requests that are served at different times (`FetchStatus`,
`FetchExposed`).  The handler of `POST /response` is `Decrypt`, which can fail
before the library sees anything, and `Verify`.  The suite is external and owes
nothing: its test may hang in any status, finish or be interrupted, log any
failure or an entry that cannot be read, and post up to `MaxPosts` responses,
one at a time.  `Gate` is the whole stretch from the log to the exit code.
`verdicts` is a history variable: what the library said, and `unread` for a
response that never reached it.

What comes before the `try` of `runProfile` is `Prepare`.  An error there leaves
no result: `main` catches it and exits 2, and a port that is taken ends the
process with exit code 1, because the server has no listener for `error`
(`verifier-server.ts:237`).  So exit code 1 without a result is no verdict, and
`RedIsDeserved` and `RunEnds` say so.

The suite is assumed to post one response at a time and to end its test only
when none is outstanding; an interrupted test has logged a failure or none.
Writing files is assumed to succeed, and so is the `fetch` that triggers the
wallet to settle.  Left out are the throw of `profileClientId`, which no profile
in the registry reaches, and the handler's outer `catch`, for a connection that
breaks before the body is read.  Note that
the gate counts a response that could not be decrypted (answered 500) as a
reject; what keeps a negative profile honest is the suite's own check for a
4xx, which is why that check is modelled.

## What the runs show

| Run | Question | Bounds |
|---|---|---|
| `server_races` | type, one verdict, store and ledger agree, replay refusals are true, retention, polls never go back | one session, two posts with every kind of body, TTL 2, sweep 2 |
| `page` | what the page shows while posts race and answers overtake each other: codes are watched, results are earned, no verdict flips, polling ends; server and page together implement `OneShotSession`, with its liveness | one session, two posts, two overlapping fetches, TTL 2, sweep 1 |
| `trust` | the trust store under its real callers: single flight, degradation, staleness; the anchor and the provenance of an evaluation; evaluations end | two evaluations, two lists and a configured anchor, two refreshes, interval 1 |
| `revocation` | currency of verdicts, `require` and `prefer` | two concurrent checks, OCSP and two CRLs, every policy, cache or none |
| `cache` | bound, LRU, currency | three keys, two entries, six operations |
| `chain` | a returned chain is valid, a failure means there was none, the search ends if no names go in a circle | nine CA certificates and three leaves; up to three intermediates and two anchors |
| `exchange` | disclosures, acceptance, honest answers, requests | 31 conforming exchanges, every departure in one field, the three dates of an MSO in every combination, pairs of an option and a token field for the two main ones, all lists of up to three of six disclosures |
| `harness` | green, red and the excused divergence are what they say, and a run ends | three checks that can fail, one of them allow-listed, two posts, limits of two ticks |

Two properties are worth a word.  `FailureMeansNoPath` compares the greedy
search with a reference definition, all simple paths; it is claimed for inputs
in which no two certificates share a name, and with shared names it is false,
as the code takes the first match and never the second.  `VerdictsAreCurrent`
relates a verdict to the time at which the CA revoked the certificate, which
the code never sees.

Every bound is a CONSTANT.  One session is enough for races on a session,
because sessions only meet through a presentation that reaches the wrong one;
a body therefore carries the session it was made for, `page_late_poll` has two
sessions, and `DoneIsEarned`, where a crossed presentation would show, is proved
for any set of them.  Two posts are enough for a race between posts: a third
finds the session in one of the states that the second did.  Ticks are coarse;
what matters is that an `await` can last past the TTL, past a sweep and past a
whole sweep period, which the horizon allows.  `server_races` has the longer
sweep period, `page` the shorter.

Two refreshes show an expiry and a renewal, and a failure after a success; with
an interval of one tick a snapshot can go stale between two calls of one
evaluation.  Two evaluations are the least that share a refresh.  Two revocation
checks are enough because checks only meet in the cache, whose entries hold an
answer and no trace of who put it there; of distribution points, two tell a
first from a next.  The cache run is bounded by six operations: the shortest
histories that fill it, touch an entry, overwrite one and evict take four.
Three intermediates are the least that hold a chain of two CAs and a distractor,
or a circle beside the chain.

The exchanges of `MCAuthorizationExchange` are all that a conforming wallet can
answer with what the input and options tell apart; a departure in one field
meets every guard by itself, and the pairs of an option and a token field meet
the guards that only run under an option.  Three of six disclosures are enough
for a chain of two references, a circle and an unreferenced one, in both kinds
of places.  In `harness` two posts let one response be accepted and one not, and
limits of two ticks let each polling loop both go round and run out.

The certificates of `MCChainBuilder` are three roots, cross certificates in
both directions, a second key under a name in use, one that is no CA, one whose
name constraints exclude the leaf, and path length constraints 0, 1 and none.

`CHECK_DEADLOCK FALSE` stands in every configuration: the clock stops at
`Horizon`, the posts, refreshes and checks are used up and a search ends, so
each model may stop.

### Disagreements with the documentation

Each of these runs checks one sentence of a document or comment and ends in a
counterexample; PROJECT.json quotes the sentence and the line.

| Run | What the code does |
|---|---|
| `page_late_poll` | a late answer about an earlier session stops the polling of the one on the screen |
| `lotl_outage` | when the LOTL loads and no national list does, the served lists are replaced by none |
| `chain_ends` | a self-signed certificate, or two that certify each other, among the intermediates keep the search for an anchor of another name going for ever |
| `exchange_type` | the type a caller expects is not compared with the `vct` of an SD-JWT, and an mdoc of another type is an invalid result, not an error |

The models also follow the code in these points where a text reads otherwise,
which no run states.  In the PoC:

- The reply `#done` (`responseRoutes.js:58`) does not depend on whether
  `complete` accepted, so the loser of a race, and a post whose session expired
  meanwhile, get it too (`OPENID4VP_SEQUENCE.md:85-86`,
  `VERIFIER_DESIGN.md:179-180`).
- `error=access_denied` is answered 400 and leaves the session pending
  (`responseRoutes.js:30`), where `OPENID4VP_SEQUENCE.md:80-82` and
  `VERIFIER_DESIGN.md:281` have it fail the session.

In the trust layer:

- `CHANGELOG.md:246`: under `require` an error is thrown "when the status cannot
  be determined"; OCSP's answer `unknown` is returned as a verdict under
  `require` too (`RevocationChecker.ts`, `OcspVerdict` here).
- `revocation-types.ts:31`: of the distribution points the "first is tried,
  fallbacks follow"; under `require` a stale CRL throws before the next one is
  tried (`JudgeCrl`).
- `CrlFetcher.ts:62`: what "made it into the cache was valid when stored"; line
  95 stores a CRL as soon as it parses, before its signature is verified
  (`CrlArrives`).
- `ChainBuilder.ts:105` counts non-self-issued intermediates; line 130 counts
  all (`Climb`), so a path that `Valid` admits may be refused, which
  `ReturnedChainIsValid` does not mind and `UniqueNames` keeps out of
  `FailureMeansNoPath`.
- `TrustEvaluator.ts:102` calls serial numbers "collidable across CAs"; line 76
  deduplicates the pooled anchors by serial number alone
  (`ReadAnchors`).
- `TrustStore.ts:11`: stores "that cannot satisfy the hint MUST return `[]`, not
  throw"; `LotlTrustStore.ts:131` throws when it was never loaded, and takes a
  composite store with it (`AnchorsUnavailable`).
- Neither parser passes the intermediates of its `x5c` or `x5chain` on to the
  evaluator, which could use them.
- `README.md:288` says that the cache defaults to `InMemoryCache`, but nothing
  in `src/` creates one; without the option nothing is cached (`config.cached`
  of `Revocation` covers both).

In parsers, verification and requests:

- A date of an MSO that cannot be read passes `validateMsoValidity`
  (`mso.ts:150-167`), as every comparison with NaN is false.
- `verify.ts:205-207` says that "SD-JWT flows are unaffected either way", but
  line 222 throws `MissingVerifierEncryptionKeyError` for them too.
- An unencrypted mdoc answer needs a transcript from the caller: `verify.ts`
  only builds one on the encrypted path.
- `signed-authorization.ts` compares neither `supportedEncValues` nor the
  algorithm of the key with what `decryptAuthorizationResponse` can decrypt.
- `verifyAuthorizationResponse` takes the only entry of `vp_token` and never
  compares its id with that of the credential asked for (`verify.ts:278`).

## Fairness

- `VerifierServer`: weak fairness of `Tick` and `Sweep` (time passes, due timers
  run) and of `FinishVerification`, because `verifyResponse` awaits only local
  cryptography in the PoC: its trust store is static and no revocation policy
  is set.  Nothing is assumed of wallets or of the page.
- `PocVerifier`: besides, the page's timer fires while it is set, and a network
  that loses fetches again and again lets one through in the end (strong
  fairness of `ServePoll` and `ReceivePoll`; weak would be defeated by
  `LosePoll`).  The run `page` needs it: an error only changes the status line.
- `LotlTrustStore`: every fetch settles.  The code sets no time limit of its
  own; it relies on the fetcher's.  Nothing else is awaited.
- `TrustEvaluator`: besides, an evaluation goes on whenever it can
  (`Continue`): between its calls it awaits local cryptography and revocation,
  whose fetches settle too.  That the chain building ends is taken from the
  runs of `ChainBuilder`, for intermediates without a circle.
- `AuthorizationExchange`: weak fairness of `Next`; it is local computation.
- `ConformanceRun`: requests to the suite settle and the orchestrator goes on,
  a handler that was called finishes, whoever waits for a reply takes it, time
  passes.  The suite itself owes nothing, which is what the time limits are for.
- `ChainBuilder`: the loop runs on, weak fairness of `Next`.
- `Revocation`, `InMemoryCache`: none, only safety is checked.

## What is proved

`VerifierServer_proofs` holds for any sets of sessions, posts and kinds, any TTL
and sweep period, under `TimeAssumption` and `SetsAssumption` of
`VerifierServer`.

- `TypeCorrect`: `TypeOK` is inductive.
- `OneShotCorrect`: `OneShotInv` is inductive relative to `TypeOK`.  `OneVerdict`
  alone is not: that a pending session has no verdict on record
  (`PendingIsUnsettled`) is what makes a second one impossible, and that states
  not yet drawn have no trace (`FreshStates`) is what keeps `OpenSession` from
  breaking it.  `EntriesAreAnswered` carries what `DoneIsEarned` needs across
  the await: the post's own copy of the toggle is that of the session it was
  posted to (`HandlersAsOpened`), and the verdict fell before the expiry the
  session was opened with (`HeldAsOpened`).
- `OneVerdictCorrect`, `DoneIsEarnedCorrect`, `StoreMatchesLedgerCorrect` follow
  from it.
- `RetentionCorrect`: from `SweepInv`, that the sweeper is never overdue and
  that whatever had expired when it last ran is gone.
- `ReplayRefusalCorrect`: a state leaves `pending` only by a verdict on record.
- `PollsNeverGoBackCorrect`: an action property; a poll after a verdict finds
  the verdict or nothing, as the store agrees with the ledger and states are
  not opened twice.
- `ServerImplementsOneShot`: every step of the server is a step of
  `OneShotSession` or a stutter under the mapping of `VerifierServer`.  The
  proof goes action by action: opening is `Open`, a post that carries an
  acceptable presentation is `Present`, `complete` is `Settle` or a stutter,
  and a tick, a sweep or a restart is a `Lapse` of all the sessions that end
  with it, at once, which is why `Lapse` takes a set.

`TrustEvaluator_proofs` holds for any sets of callers, countries and refreshes
and any interval, under `TrustStoreAssumption`, and where it is about
evaluations for any certificates, lists, configured anchors and inputs, under
`EvaluatorAssumption`.  First the store, whoever calls it:

- `TypeCorrect`, `SingleFlightCorrect`: both invariants are inductive, the
  second relative to the first.  The interesting steps are the two that end a
  refresh: as every waiting caller waits for the one in flight, none is left
  waiting when `inFlight` is cleared.
- `ServedWasLoadedCorrect`: the strengthening `ServedInv` says the same of the
  snapshot, which later callers are served from; that a refresh stays as it
  ended (`EndedStays`) keeps it true.
- `StaleOnlyAfterFailureCorrect`: the strengthening `AgeInv` adds that nobody
  asked in the future, so that a snapshot made now is fresh for everyone who
  waited for it.
- `RejectedOnlyUnloadedCorrect`: an action property, directly from `TypeOK`.

Then the evaluations, which call it several times over.  A step of theirs is a
step of the store or leaves it alone, so what is above holds under
`EvaluatorSpec` too (`EvaluationsShareOneRefresh`,
`EvaluationsAreServedLoadedLists`, `EvaluationsAreStaleOnlyAfterFailure`,
`EvaluationsAreRejectedOnlyUnloaded`).

- `EvaluatorTypeCorrect`, `AnchorIsTheTerminusCorrect`,
  `RefusedMeansNoAnchorCorrect`, `ProvenanceIsOfTheAnchorCorrect`: by
  `EvaluationInv` every evaluation is `Sound` with respect to the lists loaded so
  far.  Its pool holds what it was offered, up to serial numbers; the anchor it
  settled on was offered and closes the chain, and a refusal left none in the
  pool that would; and its provenance was read off a loaded list that has a
  service with that anchor's key.  Lists once loaded stay so
  (`LoadedGrows`), which keeps all this true while other callers go on.
- That the second call is not refused and is answered by no earlier snapshot is
  `RecallInv`: the snapshot only moves on (`SnapshotMovesOn`), an evaluation has
  seen none newer than it, and with an anchor in hand the store is loaded.  That
  another country is told only if the anchor's list has gone, or another with the
  key comes before it, is `TellsLater`: the anchor's own service tells too.
- The operators of the model pick elements of sequences by `SelectSeq` and by
  folds.  `PickedIs` says what is picked, from the least index at which it would
  not be (`LeastIs`), instead of an induction along the sequence.

`PocVerifier_proofs` holds for any sets of sessions, posts and overlapping
fetches.  Steps of the page are steps of the server or leave it alone, so the
server's invariants carry over.  What the page shows needs one more fact: a
verdict on its way in an answer, or on the screen, is in the ledger
(`PagesVerdictIsOnRecord`); it stays true because the ledger only grows, so late
and overtaken answers are still backed.  `ShownResultIsEarnedCorrect` and, since
there is one verdict on record, `VerdictNeverFlipsCorrect` follow.
`PageImplementsOneShot` carries the refinement over: a step of the page that is
none of the server's stutters.

`Revocation_proofs` holds for any number of checks and distribution points and
any lifetimes (`RevocationAssumption`), for every policy.  The invariant says of
the cache that what is in it, when signed, tells only of the past (`CacheInv`),
and of a check in progress that it has tried every source before the one it is
at (`Sound`).  The second is what makes `PreferTriesEverything` inductive.

`InMemoryCache_proofs` holds for any keys, values and TTLs, any bound and any
number of operations, under `CacheAssumption`.  `LruInv` is inductive: the
entries are in the order of their last use, so no key is there twice and the
bound holds; an entry holds what was last stored under its key; and a key that
has been displaced has since been overtaken by `MaxEntries` others, which is
what makes the eviction of the first entry the right one.  `BoundedCorrect`,
`RecentlyUsedIsKeptCorrect` and the action property `AnswersAreCurrentCorrect`
follow.

`ChainBuilder_proofs` holds for any certificates, intermediates and anchors
(`ChainAssumption`).

- `ReturnedChainIsValidCorrect`: by `ClimbInv` the search is either at the end
  of the path recorded so far, with a depth that tells its length, or it goes
  round in that path, meeting at each certificate the step it took there before,
  and does not return.  The step that needs an argument is the choice of the
  first intermediate that bears the issuer's name: there is one by the order of
  the natural numbers, and it is the same one every time.
- `FailureMeansNoPathCorrect`: where no two certificates share a name, no path
  of any length leads to an anchor already given up, and while the search climbs
  to the anchor at hand it is on every path to it (`FailureInv`).  A path meets no
  certificate twice before its anchor (`NoneTwice`), so a search along it does
  not go round, and its next certificate is the one that bears the issuer's
  name and passes the checks (`NextPasses`).  Hence when a check throws, there
  was no path (`GivesUpRightly`).

`AuthorizationExchange_proofs` holds for any cases, whatever the token holds,
under `ClockAssumption`, `DisclosureAssumption`, `ExchangeAssumption` and
`InputAssumption`, which state the types of the options and inputs, and
`NoneAssumption`, that what is absent differs from what cannot be used.

- `LeftoverCorrect`, `ReferencedCorrect`: by `ClosureInv` what a pass has
  settled is referenced from the issuer's digests, and a pass that settles
  nothing new leaves a closed set; a fixed point, so no induction over data.
- `VouchedForCorrect`, `AnswersThisRequestCorrect`: `SdInv` and `MdocInv` say for
  each stage of a parser what the checks before it have established, and
  `OptionsInv` that the options are still the caller's when they are read.
- `SentRequestIsBackedCorrect`: the request is built after the query and
  neither changes afterwards (`RequestInv`).
- `ConformingIsAccepted`: an exchange that is `Conforming` never ends in a
  refusal.  `AcceptInv` says for each action what the checks still to come will
  find: the request that was sent is `RequestFor` the input, what is unwrapped is
  the wallet's token, and every check that remains passes (`SdJwtGoesOn`,
  `MdocGoesOn`).  That the library reaches all the disclosures an issuer's digests
  lead to is shown without an induction, from the one of least rank that it
  would leave out (`AnchorsAreReferenced`).  `HonestAnswerIsAcceptedCorrect`, the
  property of the run, follows by `HonestAssumption`.  `Conforming` asks for what
  the code asks for and the standard does not always: an mdoc only comes
  encrypted, an MSO is signed within its own validity, the claims asked for are
  not among the reserved ones.

`ConformanceRun_proofs` holds for any checks, allow-list, time limits and
number of responses (`HarnessAssumption`).  By `RunInv` a test that has ended
stays as it is, though the orchestrator learns of it later; the records are what
the library said; and a response that never reached the library leaves its
trace, either in the suite's log or in a reply still under way, so that no log
read after the end misses it.  Before a plan exists nothing has been posted
(`NothingYet`), so a run that ends in its preparation judges nobody.

Every invariant and action property that a run checks is a theorem above.  Only
model-checked are the liveness properties `PollingEnds`, `EveryAnswerIsJudged`,
`EvaluationsEnd`, `EndsWithoutCircle` and `RunEnds`, and the liveness half of
`ImplementsOneShot`: the proof system has no rules for `ENABLED` that would carry
fairness here.

## Not modelled, and the plan

Not modelled yet: DCQL queries of several credentials, with `credential_sets`;
`AuthorizationExchange` has a query of one credential, which is what the HAIP
builder produces.  Theorems to come: that the composed specifications bound what
a `get` of the cache tells a revocation check, and that a search without a circle
takes a bounded number of turns for each anchor, the safety half of
`EndsWithoutCircle`.

Left out for good: PoC configuration (read once, no state), the wallet mock-up
(no protocol logic), LOTL parsing and level-of-assurance mapping (stateless XML
traversal; its failures are failed refreshes), types and exports, and of the
harness the command line, fixtures, key files and the JUnit report.  Inside the
modelled parts: the verifier's keys are taken to be EC keys; rendering, wording,
logging, the countdown, and the cryptography and ASN.1 themselves, which appear
as attributes of the data.
