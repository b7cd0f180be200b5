# TLA+ verification of the Anubis Go SDK

The SDK gives Go services sign-in, token verification and authorization against
an Anubis server, and comes with a fake of that server for tests, an admin
client and adapters for four transports. What can go wrong in it is mostly an
interleaving no test writes down: two goroutines rotating one single-use refresh
token, a verifier trusting a withdrawn key, a callback arriving twice, a logout
notice racing the session it ends, an outage turning a queued message into a
dead letter, a manifest applied after somebody else's.

Paths below are relative to the repository root; line numbers are those of the
commit the project was written against. `PROJECT.json` maps every definition to
the lines it models.

## 1. The system

| Component | State it keeps | Operations | Talks to |
|---|---|---|---|
| Token source, `tokensource.go` | the pair, the `inflight` flight, the `OnRotate` callback, under one mutex | `Token`, `rotate`, `valid`, `Current`, `OnRotate`; constructors `Client.TokenSource`, `ClientCredentials` | refresh or client-credentials endpoint; the application's store, through the callback |
| Key cache, `keys/key_cache.go` | current key set, `lastFetch`, `nextFetch`, `lastErr`, the `inflight` channel | `Get`/`GetAt`, `refetch`, `fetch` | the published keys document |
| Key set, `keys/key_set.go` | immutable once parsed | `ParseDocument`, `GetAt` | - |
| Decision cache, `cache.go` | two generations of entries | `get`, `put`, the canonical key | the authorization client |
| Authorization client, `authz.go` | none beyond the cache; the slots of one `AuthorizeMany` | `Authorize*`, `AuthorizeMany`, `Explain`, `BeginStepUp`, `Requires`, `SwitchScope` | server RPCs |
| Browser sign-in, `login.go` | one pending login per browser, in a cookie | `BeginLogin`, `CompleteLogin` | browser, authorize and token endpoints |
| Logout, `logout.go` | none | logout URL, `BackchannelLogout`, `VerifyLogoutToken` | verifier, the application's hook |
| Web application, `examples/billing-web` | sessions by id and by sid | callback, dashboard, logout, remote logout | sign-in, token source, back-channel logout |
| Revocation stream, `revocations.go` | one call | `StreamRevocations`, frame reading | the broker |
| Verifier and claims, `verifier.go`, `claims.go` | configuration only | `Verify`, `Validate` | key cache |
| Middleware, go-kit, gRPC and AMQP adapters | none | wrap a handler, encode its errors | verifier, authorization client |
| Errors, wire client, options | none | classify, attach the credential | HTTP |
| Shares and links, granted nodes | none | one call each | server RPCs |
| Admin client, `admin/` | none | calls, page walks, manifest building | admin RPCs |
| Fake server, `anubistest/` | refresh families, codes, shares, links, bearers, subscribers, admin tables, catalogs | the endpoints above | the tests |

Interactions that matter. A request handler verifies a token (verifier, then key
cache), then asks about a permission (authorization client, then decision cache),
and calls other services with a token of its own (token source). A web
application turns a callback into a session of its own, which rotations and
logout notices then change from two sides. An operator reads, decides and writes
while other operators do the same. The three caches share nothing, so they are
modelled apart; each module contains the party its component races with.

What is hard here, and where it bites, is listed line by line under `hazards` in
`PROJECT.json`: single-flight under concurrency, answers lost after the server
acted, callbacks run with no lock held, values captured before a wait and used
after it, caches holding what the server no longer says, waiters parked on a
channel, work done in two critical sections, messages delivered twice or not at
all, notices that overtake what they are about, errors that mean two things.

What makes each component correct:

- Token source: one rotation at a time; the token in memory is the one the
  server accepts; the client never presents a consumed token of its own accord;
  the pair never goes back; every call returns; the store follows the rotation.
- Key cache: one fetch at a time; the document is never taken to be younger than
  it is; a withdrawn key stops verifying; a lookup is never parked for good.
- Decision cache: an answer belongs to the question asked, as far as the key tells
  questions apart, is recent, is never a step-up refusal; the memory is bounded; eviction keeps recent answers.
- Browser sign-in: a session is opened by the browser that began its login, once
  per code, and only a callback with a state of the browser's own burns a code.
- Web application: its two indexes agree, only logout tokens end a session from
  outside, a dropped session stays dropped.
- Revocation stream: after `Synced` no revocation is lost in silence, and no
  consumer can hold a publisher up.
- Shares: links lead to live shares, one each; a link token signs nobody in.
- Request path: only verified and allowed callers reach an endpoint; retry advice
  and redelivery agree; nothing spins for ever.
- Admin plane: a row is told from the others and keeps what it is known by, secrets
  are shown once, what was revoked or deleted stays so; a walk is complete, free of repeats and ends; a manifest's
  report says what it takes away.

## 2. The modules

| Module | Models | Checked by | Proofs |
|---|---|---|---|
| `TokenSource` | `tokensource.go`, and `refresh` and `clientCredentials` of `anubistest/server.go` | `MCTokenSource` | `TokenSourceProofs` |
| `KeySet` | `keys/key_set.go`, `keys/keys_document.go` | through `KeyCache` | through `KeyCacheProofs` |
| `KeyCache` | `keys/key_cache.go`, extends `KeySet` | `MCKeyCache` | `KeyCacheProofs` |
| `DecisionCache` | `cache.go` and `authorize` of `authz.go` | `MCDecisionCache` | `DecisionCacheProofs` |
| `LoginFlow` | `login.go`, and the authorize and token endpoints of the fake server | through `WebApp` | through `WebAppProofs` |
| `WebApp` | `examples/billing-web/main.go` and `logout.go`; extends `LoginFlow` | `MCWebApp` | `WebAppProofs` |
| `RevocationFeed` | what `StreamRevocations` promises; abstract | refined by `RevocationStream` | through `RevocationStreamProofs` |
| `RevocationStream` | `revocations.go`, `anubistest/revocations.go` | `MCRevocationStream` | `RevocationStreamProofs` |
| `ShareLinks` | `share.go`, `granted.go` and their endpoints | `MCShareLinks` | `ShareLinksProofs` |
| `AuthorizeMany` | `AuthorizeMany` of `authz.go` | through `RequestPath` | through `RequestPathProofs` |
| `RequestPath` | `verifier.go`, `claims.go`, `middleware.go`, `errors.go`, `anubiskit/`; extends `AuthorizeMany` | `MCRequestPath` | `RequestPathProofs` |
| `Provisioning` | the tables of `admin/provision.go`, `admin/admin.go`, `anubistest/provision.go`, `anubistest/adminconfig.go` | through `AdminPlane` | through `AdminPlaneProofs` |
| `PageWalk` | `AllApplications`, `AllScopeNodes` and the listings they walk; extends `Provisioning` | through `AdminPlane` | through `AdminPlaneProofs` |
| `Manifest` | `admin/manifest.go`, `anubistest/manifest.go` | through `AdminPlane` | through `AdminPlaneProofs` |
| `AdminPlane` | composes the three above | `MCAdminPlane` | `AdminPlaneProofs` |

One action is one critical section of the component's mutex, or one thing that
happens between two of them: the request, the answer, the callback, the closing
of a channel, a reading of the clock. Where the code handles a request in one
section, the handler is one action. Handlers keep the names of the functions they
model, so a client call and its endpoint are often a capitalised and a small name
(`Share`, `share`).
Definitions whose comment begins with "Mutant" are deliberate bugs. They are in
no next-state relation and exist to show that a property would notice them.

### TokenSource

- Tokens are numbered in the order in which the server issues them, 0 is the
  empty string. A pair is `[access, refresh]`.
- `Token` up to its first unlock is one of `TokenHeld` (fast path), `TokenJoin`
  (wait for the flight), `TokenSpent` (`ErrNoRefreshToken`) and `TokenLead` (become
  leader, take the refresh token, send the request).
- The endpoint is `RefreshLookup` then `RefreshRotate` or `RefreshRevoke`:
  `refresh` in the fake server releases its mutex between the two, so other
  requests run in the gap. `Mint` is the client-credentials endpoint.
- `rotate` is `RotateSettle` (locked section: adopt, clear `inflight`), then,
  with no lock held, `Persist`, `PersistFails` or `PersistPanics`, then
  `RotatePublish` (fill in the flight, close `done`). Waiters leave by `WaitDone`
  or `WaitCancelled`.
- `needsRefreshToken` says which constructor made the source. It is chosen with
  the initial state and never changes; without it the source re-mints by
  `clientCredentials`.
- Failures are chosen by the constant `Faults`. `unsent`: the request never
  left. `lost`: the leader's context ended or the answer vanished, whatever the
  server did or will do. `persist`, `panic`: of the callback. `crash`: the
  process restarts, a session from the stored pair (`RestoreSession`), a
  client-credentials source with nothing held (`MintAfresh`). `restamp`: the stored
  pair went through JSON, which drops `IssuedAt`, so the constructor stamps it as
  issued now.
- Time is two sets. `aged` is what `valid()` believes to be in its refresh
  margin, `expired` what is so in truth. They part only through `restamp`.

### KeyCache

- A document is `[issuer, keys]`, an entry `[kid, alg, decodes, notBefore,
  notAfter]`; base64 and JSON decoding are the field `decodes`. The cache's `set`
  is the document it was parsed from, read through `ParseDocument`.
- `Call` captures the instant of the call, which the code uses throughout however
  late it gets the lock. `GetHot`/`GetCold` are the first snapshot, `Resume` the
  part after `refetch`.
- `refetch` is `RefetchJoin`, `RefetchThrottled` or `RefetchStart`; a fetch is
  `FetchRead` (the endpoint answers with what it publishes then), `FetchCommit` or
  `FetchFail`, or `FetchPanic`, and `Release` is the deferred release, which runs
  after a panic too.
- `Publish` lets the issuer change its document at any time. `withdrawn[k]`
  remembers when `k` last left it.
- `Tick` keeps a fetch from holding the slot longer than `FetchTimeout`, the
  `http.Client`'s `Timeout`. A client configured without one has no such bound.

### DecisionCache

- A question is `[subject, permission, scopes, amr, authTime]`. `cacheKey` is the
  string that `cache.go` writes, at the grain of what stands between two NULs and
  between two `=` signs: each scope as `axis=value`, then each method, sorted within
  its section, with no mark between the sections and nothing escaped. Two questions
  can therefore share a key: `region=eu` as a scope and a method spelt `region=eu`
  write the same text. `Plain` are the questions that cannot: no `=` in an axis or a
  method, no NUL in a value. The hash is taken to be injective. The server's answer
  depends on `Inputs`, where methods are a set.
- `WellFormed` is the guard of `authorize`: a subject and a valid permission; other
  questions are refused without a round trip.
- `Ask` reads the clock, `GetHit`/`GetMiss` is `get` under its lock, `Decide` the
  server's verdict by its policy at that moment, `Receive` the answer's arrival
  and the second reading of the clock, `Put`/`PutSkipped` is `put` under its lock.
  `RpcFail` loses the round trip, decided or not.
- `live` and `old` are the generations. A full `live` becomes `old` whole.
- `Change` is any change of grants, roles or identity. `was` remembers when an
  answer stopped being the server's, `recent` the last `MaxSize` keys put.

### LoginFlow and WebApp

- A login stands for the state, the verifier and the redirect URI `BeginLogin`
  makes up; logins, codes and callback requests are named in the order in which
  they appear. A callback request carries a copy of the one login cookie its
  browser held (`VisitCallback`), and the clearing of the cookie takes effect when
  the response arrives (`Respond`), so tabs overlap.
- `Addresses` are the callback addresses that can be made up: `CompleteLogin` reads
  code and state from the query independently, so any code that was issued (or none)
  goes with any state (or none), or there is an error. Any browser may visit any of
  them any number of times: repeats, other tabs, an address sent to somebody else,
  one browser's code beside another's state, which is what PKCE is for.
- `CompleteLogin` is the handler up to the exchange, `Refused` its refusals in
  one place; `tokenExchange` is the endpoint, which deletes the code before it
  checks anything, and whose answer may be lost. `LoginAges` and `CookieExpires`
  are the two uses of `loginTTL`.
- `WebApp` adds the session store: `create`, `save`, `drop` under its lock,
  `dropBySID` as its two sections (`BackchannelLogout`, then `dropBySID`). A
  dashboard request looks its session up and then asks the token source, which
  may rotate (`TokenRotates`) and in a later step, from the callback, `save`; or meet
  the reuse error (`drop`). A logout or a notice may come between rotation and save.
- `EndSession` is Anubis ending a session; its notice is best effort. What is
  posted to the endpoint is a logout token or an access token.

### RevocationFeed and RevocationStream

- `RevocationFeed` is the promise: `Synced` first and once, then events that were
  published, each at most once and those of one publisher in order, nothing after
  the call returned. Any event may be missed. `RevocationStream` maps to it by what
  its publishers published, what its callbacks heard and which calls returned.
- `PushRevocation` copies the subscribers under the lock; `PushSend` is one send
  after it, which drops the event when the channel is full. The handler is
  `streamRevocations` (refusals), `subscribeRevocations`, `writeSynced`, `forward`
  and `leave` (the deferred unsubscribe).
- The connection holds `Window` frames. It may break and lose what is under way
  (`Break`), or something on the way rewrites a frame (`Garble`). The client reads
  one frame at a time (`readRevocations`), meets the end (`readEOF`), is cancelled,
  or is ended by its callback. The handler may end the stream cleanly, on which the
  call returns nil, and the answer may be a refusal instead of a stream: of the
  credential, of the call, or an installation that cannot serve it.
- `dropped` and `before` record, for the property only, what a full channel
  refused and what had been published when a consumer heard `Synced`.

### ShareLinks

- Calls are under way together. `refuseLink` is a section ahead of the
  procedure's own; `openAccessLink` finds the share, `MintToken` runs under no
  lock, `registerBearer` is the second section, `answerBearer` the answer.
- `Personal` are the procedures that ask `refuseLink` first. `Unchecked` are those
  that do not: `Authorize`, on purpose, and `Explain`, `Introspect`,
  `StreamRevocations` and, when the fake was given no platform key, the admin calls.
- Shares and links take their names from one counter, as in the fake. A client
  presents a link token only once it has been answered with it.

### AuthorizeMany and RequestPath

- `AuthorizeMany`: a goroutine per question, `AcquireSlot` is the send on the
  semaphore, `StoreAnswer` the answer or the error at the question's own index and
  the deferred receive, `ManyReturn` the wait.
- `RequestPath` takes one request over HTTP middleware, go-kit HTTP, gRPC or AMQP
  through `ToContext`, `Authenticate`, `Authorize`, `Endpoint`, `publishAndAck` or
  the error encoders. `VerifyError` follows `Verify` in its order. Keys are static
  or fetched: a fetch with no document held fails unless it is answered with a 200,
  and after a failure is not repeated for a while (`DocumentAtHand`).
- `Weather` is how Anubis and what is in front of it fare: up, unreachable, failing in
  a way that passes (its own 429 and 503, those of a proxy), or refusing (the worker's
  own credential, a proxy's 403, a gateway's 502). `FaultsIn` lists what a call meets
  in each; the weather may change between any two steps.
- `parseWireError`, `codeOf` and `classify` turn each into an error by code, status and
  transport class as `errors.go` does: the status stands in for a missing code (429,
  401, 403, 503), a code with no case of its own keeps the class `unavailable`.
- `Authorize` asks the decision cache first, when the client has one (`caching`, chosen
  with the initial state). All jobs ask the same question, so the cache is one entry
  with its age; `AskedElsewhere` is another request that fills it. `DecisionCache` has
  the whole of it.
- `ServiceFails` is an error of the service's own: a body that does not decode, an
  endpoint that fails, a reply that cannot be published.
- `Crash` loses both caches and redelivers what was not acknowledged.
- A behaviour of this module is either a worker or one `AuthorizeMany`, chosen
  with the initial state; the two share no state.

### Provisioning, PageWalk, Manifest, AdminPlane

- `Provisioning` has one action per call that changes a table; a refused call is
  no step. Of a row's fields it keeps the permanent ones and one of each kind of
  the others. `Seed` registers a row ahead of the counter, as tests do. An operator
  who edits an auth page reads it (`getAuthPage`), and writes the whole page back
  later (`updateAuthPage`). `updateRealm` writes the caller's whole row under its code,
  the id included, whether or not the realm exists, as the fake does. `shown` records the secrets and keys handed out.
- `PageWalk` is one walk, page by page, while rows are added and renamed:
  applications are paged by key, scope nodes by offset. Any page may fail, which ends
  the walk (`PageFails`). A server that is not the
  fake may answer any token, the same again included. `throughout` records the
  rows that matched all along.
- `Manifest`: documents are built by the builder's calls, up to two of
  ClearRoutes and WithRoutes in either order, and checked by `Validate`; or are raw. `Accepted` and
  `Installed` are the server's apply, `ReportOn` the report. A dry run leaves a
  `review`, others may apply in between, and then the document is applied.
  A spreadsheet (`ApplySpreadsheet`) gets the fake's canned report and changes nothing.
- `AdminPlane` composes them. A behaviour is about one part, chosen with the
  initial state: the parts share the lock and the counter and, apart from the walk
  over applications (which has them change), no state. This keeps the product of
  independent tables out of the state space.

## 3. The runs

Passing runs:

| Run | Question | Instance | Distinct states |
|---|---|---|---|
| `token_source` | `TypeOK`, `SingleFlight`, `HeldTokenIsLive`, `NoSelfInflictedTheft`, `AdoptionAdvances`, and `TokenReturns` under fairness | 2 goroutines, both constructors, 2 rotations, 1 lapse, every failure | 159,205 |
| `key_cache` | `TypeOK`, `SingleFetch`, `DocumentAsOfLastFetch`, `WithdrawnKeyExpires`, `ClocksAdvance` | 2 goroutines, 3 documents, clock to 3, errors and panics | 1.9 million, with symmetry |
| `key_cache_live` | `LookupReturns` under fairness | 2 goroutines, 2 documents, clock to 1 | 67,422 |
| `decision_cache` | `TypeOK`, `CachedAnswerIsRecent`, `StepUpIsFresh` | 2 goroutines, two questions that are written alike and two malformed ones, `MaxSize` 1, clock to 3, 1 change | 1.93 million, with symmetry |
| `decision_cache_eviction` | `GenerationsBounded`, `RecentAnswersAreHeld` | 3 keys (one spelt in two ways), `MaxSize` 2 | 497,454, with symmetry |
| `web_sign_in` | `SessionsBoundToBrowser`, `OneSessionPerCode`, `CodesSpentOnOwnState`, `StoreIsSound`, `DroppedStaysDropped` | 2 browsers, 2 logins, 2 codes, 2 callback requests | 1.96 million, with symmetry |
| `revocation_stream` | `DeliveryIsSound`, the refinement `KeepsFeedPromise`, and `PushReturns`, `GoneSubscribersLeave` under fairness | 1 stream, 2 publishers with 2 pushes each, channel of 2, window of 1 | 119,996 |
| `share_links` | `LinkTablesAreSound`, `LinkSignsNobodyIn`, `DeadLinksStayDead` | 2 calls at a time, counter to 4, 1 link token | 1.06 million, with symmetry |
| `request_path` | `OnlyAllowedCallersServed`, `FailuresAreTold`, `ManyAnswersInPlace`, and `MessagesSettle`, `ManyReturns` under fairness | 1 job of any transport and token, with and without a decision cache, all weather, clock to 2, 1 crash; 3 questions for 2 slots | 551,208 |
| `admin_plane` | `TablesAreSound`, `WalkIsExact`, `SettledStaysSettled`, `ReportsTellTheTruth`, `NothingVanishes`, and `WalkEnds` under fairness | counter to 3, 3 slugs, 4 nodes, pages of 1 and 2, 2 permission rows and a malformed one, 2 roles, 2 routes, 2 applies | 304,223 |

Runs that show the code and its documentation disagree (each checks one
documented sentence and ends in a counterexample; `findings` quotes it):

| Run | What the counterexample shows |
|---|---|
| `store_never_regresses` | of a session (`needsRefreshToken`), two callbacks overlap and the older pair is stored last, so the store keeps a refresh token the server has consumed |
| `outage_never_dead_letters` | with Anubis unreachable and no key document held, the failed key fetch is an error `Retryable` does not know, and a good message is dead-lettered. A gateway's 502 page does the same |

### Documented sentences the code does not keep

Further sentences the models refute. Each is a definition in its module; adding
it to the configuration named reproduces the counterexample.

| Definition | Configuration | Sentence | What happens |
|---|---|---|---|
| `StoredBeforeReturned` (`TokenSource`) | `token_source.cfg`, invariant | `tokensource.go:71` "It runs BEFORE Token returns, so a process that dies between the two has already stored the new pair." | `rotate` adopts the pair and frees the slot before the callback runs, so another caller's fast path hands it out while it is being stored |
| `ValidMeansUnexpired` (`TokenSource`) | `token_source.cfg`, invariant | `tokensource.go:93` "Token returns a valid access token" | `IssuedAt` is not in the pair's JSON (`types.go:17`), so a restored pair is stamped as issued now and its expired token counts as valid |
| `RevokedFamilyStaysDead` (`TokenSource`) | `token_source.cfg`, invariant | `anubistest/server.go:628` "The whole family dies." | the fake deletes a family in the gap of another request, which then installs a live token in it again |
| `StaleKeysBeatNoKeys` (`KeyCache`) | `key_cache_live.cfg` with `MaxClock = 2`, property | `keys/key_cache.go:88` "When the fetch failed, stale keys beat no keys" | a call whose first snapshot was empty returns the fetch error although another call has since filled the cache with its key |
| `AllowOutlivesNoTTL` (`DecisionCache`) | `decision_cache.cfg`, invariant | `options.go:111` "exactly, how long a disabled identity keeps its access" | the TTL is counted from the arrival of the answer, so an allow outlives its revocation by a TTL and a round trip |
| `AnsweredOwnQuestion` (`DecisionCache`) | `decision_cache.cfg`, invariant | `cache.go:72` "covers every input the decision depended on" | the parts are joined with NULs and nothing is escaped, so the question about branch `b1` and customer `c1` and the one about a branch named `b1`, NUL, `customer=c1` share a key (as do a scope and a method of the same spelling), and one is served the other's answer |
| `LoginStateSingleUse` (`LoginFlow`) | `web_sign_in.cfg`, invariant | `login.go:49` "A login state is single-use" | two callbacks under way carry copies of the same cookie and both are handed the login; that only one of them opens a session is the server's doing (`OneSessionPerCode`) |
| `CodesSpentByTheirBrowser` (`LoginFlow`) | `web_sign_in.cfg`, invariant | `login.go:59` "PKCE protects against an attacker who intercepts the code" | it keeps the code from being turned into a session, but the fake's token endpoint deletes the code before it compares the challenge (`anubistest/server.go:779-788`), so another browser with a login of its own pending burns it and the rightful callback fails |
| `SignedOutEverywhere` (`WebApp`) | `web_sign_in.cfg`, invariant | `examples/billing-web/main.go:122` "our own session cookie keeps a user signed in after they signed out everywhere" is what the endpoint is for | a notice that overtakes the callback finds no session, is answered 204, and the session is created after it |
| `LinkOnAuthorizeOnly` (`ShareLinks`) | `share_links.cfg`, invariant | `anubistest/server.go:55` "authenticates them on Authorize and nowhere else" | `explain`, `introspect`, `streamRevocations` and, without a platform key, the admin calls ask for any bearer and not `refuseLink`, so they serve a link token too |
| `LastStatusIsLastAttempt` (`Provisioning`) | `admin_plane.cfg`, invariant | `admin/admin.go:689` "LastStatus is how the most recent attempt ended — ok, failed, skipped, dry_run, running" | the fake leaves a source's status alone on a dry run (`anubistest/adminconfig.go:342`), though it files the run in the history |
| `RealmsKeyedOnId` (`Provisioning`) | `admin_plane.cfg`, invariant | `admin/provision.go:227` "UpdateRealm rewrites a realm, keyed on its id." | the fake's key is the code, and it takes the id from the caller: two realms can end up with one id |
| `DeletedStaysDeleted` (`Provisioning`) | `admin_plane.cfg`, property | none; a deleted id names nothing ever after | a page registered ahead of the counter and deleted is not skipped by `freshID` (`anubistest/provision.go:618`), so a later create is given its id |
| `OneDefaultPerKind` (`Provisioning`) | `admin_plane.cfg`, invariant | `anubistest/provision.go:602`: a kind has one default | a page read while it was the default and written back after another became it makes two |

Sentences that are narrower in the code than as written, where the properties
here follow the code: `options.go:116` has `MaxSize` bound the entry count; it
bounds each of two generations (`GenerationsBounded`). `keys/key_cache.go:14` makes
the TTL the bound on how long a withdrawn key verifies; that holds while fetches
succeed (`WithdrawnKeyExpires`). `anubiskit` and the middleware
do not give the same advice: `Requires` answers 503 to every error but a step-up and
a denial (`authz.go:261`), a refused credential of the service included, and
`Middleware` 401 to a key document that could not be fetched, so the half of
`RetryAdviceAgrees` that says "only then" is about go-kit and gRPC. A denial from the
decision cache dead-letters a message up to a TTL after the caller was granted access.
`ForetoldByDryRun` is about an apply before which nobody else applied: the server
compares no versions, so a report may otherwise be out of date. `WalkEnds` is for a
server with finitely many tokens: one that answers empty pages with ever new ones
keeps `AllApplications` going (`admin/admin.go:643-664`) until its context ends. The fake's `ApplicationRow.ManifestVersion` does not
follow an apply, and a permission that is declared again stays in its set of
deprecated ones: `NothingVanishes` asks only that a row is in one of the two sets.
The local checks of `Validate` refuse documents the fake would accept.

### The properties

- `SingleFlight`: the slot names the one flight being refreshed and is never left
  set when its leader has moved on.
- `HeldTokenIsLive`, `NoSelfInflictedTheft`: as long as no rotation's outcome was
  lost, the refresh token in memory is the server's live one whenever nothing is
  in flight, and no request is refused for reuse. Failed callbacks and unsent
  requests do not break this. A lost answer does, and must: the protocol cannot
  tell it from theft. That is why both are conditioned on `lapses = 0`.
- `AdoptionAdvances`: while a process lives its pair is only replaced by a later
  one, lost answers included.
- `TokenReturns`: a call of `Token` ends, unless the callback of its flight
  panicked. `rotate` closes `done` without `defer`, so waiters then stay until
  their own context ends; the property makes that exception explicit.
- `SingleFetch`, `LookupReturns`: the same two questions for the key cache, where
  the release is deferred and no exception is needed.
- `DocumentAsOfLastFetch`, `ClocksAdvance`: the cache's clocks are set from
  instants captured before a wait, and still neither run back nor flatter the
  document.
- `WithdrawnKeyExpires`: a lookup whose refetch reported no error accepts no key
  withdrawn longer than `max(TTL, MinRefetch, FetchTimeout)` before the lookup
  began. All three are needed: a hot document may be a TTL old, a throttled call
  reads one as old as the budget, a waiter one as old as the fetch it joined. After
  a panicked fetch a waiter is told `lastErr` of an earlier one, so the property
  excludes that case.
- `CachedAnswerIsRecent`: an answer from the cache to a plain question, filed by a
  plain question, was given to that same question and stood until at most a TTL and a
  round trip before, with questions that are not plain asked through the same cache.
  Without "plain" it is `AnsweredOwnQuestion`, above.
- `StepUpIsFresh`: a refusal that re-authentication cures never comes from the
  cache.
- `GenerationsBounded`, `RecentAnswersAreHeld`: eviction bounds memory and never
  drops one of the last `MaxSize` answers.

- `SessionsBoundToBrowser`, `OneSessionPerCode`, `CodesSpentOnOwnState`: what the
  state, PKCE, the code and the order of the checks are for, over any visits of any
  addresses by any browser. The last says that a code is spent only by a browser that
  had begun a login and presented its own state with it; that the login is the one the
  code answers is what fails above.
- `StoreIsSound`, `DroppedStaysDropped`: the session store under logout,
  rotation and notices at once; a late `save` must find the session gone.
  `StoreIsSound` joins the types, `SessionIndexesAgree` (the two maps) and
  `OnlyLogoutTokensEndSessions`: a session the endpoint ended was one that Anubis
  had ended, although access tokens verify as well.
- `DeliveryIsSound`, the types (bounded channels) and `NoGapAfterSynced`: what was
  published after a consumer heard `Synced` is heard, under way, or refused by a
  full channel, as long as the connection stands.
- `KeepsFeedPromise`: `RevocationStream` implements `RevocationFeed`.
- `PushReturns`, `GoneSubscribersLeave`: no fairness is assumed of consumers, who
  may stop reading for ever.
- `LinkTablesAreSound` (the types and `LinksMatchShares`), `DeadLinksStayDead`,
  `LinkSignsNobodyIn`: no procedure about a person of their own (`Personal`) serves a
  link token. This holds because the token is registered before it is answered, in
  whatever order the critical sections of other calls fall between. What the other
  procedures do is `LinkOnAuthorizeOnly`, above. A link opened in two sections can be
  revoked between them, and the token is then minted all the same; `DeadLinksStayDead`
  is about the link, not about such a token.
- `OnlyAllowedCallersServed`: the endpoint runs on a verification of this delivery
  and on an allow that Anubis gave for this delivery or, with a decision cache, at most
  a TTL before, never on what a crash cut short. (That the TTL is counted from the
  arrival of the answer is `AllowOutlivesNoTTL`; here a round trip takes no time.)
- `FailuresAreTold` has two parts beside the types. `NoWorkLostToOutage`: a
  dead letter was refused for good, or met one of the two outages above that the
  SDK does not type as one.
  `RetryAdviceAgrees`: an error for which a message would be redelivered is answered
  with 429 or 503, or their gRPC codes, on every transport, and over go-kit's HTTP and
  gRPC no other error is.
- `MessagesSettle`: once Anubis answers, or refuses for good, every message leaves the
  queue.
- `ManyAnswersInPlace`, `ManyReturns`: all questions, few slots, any errors.
- `TablesAreSound` joins the types, `SecretsShownOnce` and `RowsAreIdentified` (one
  counter for ids and secrets, with rows registered ahead of it) and
  `RunsAgreeWithStatus` (a source is "ok" exactly when a run of its history was, and
  otherwise has never run, as the fake keeps them).
- `SettledStaysSettled`: rows keep what they are known by (`IdentityKept`; a realm's
  code stays and a create touches no existing realm, while `updateRealm` may replace
  the id), and dead keys and deleted pages and sources stay so (`DeadKept`) once the
  counter has passed their id, over any order of revocations, expiries, write-backs,
  runs and deletes. Ids ahead of the counter are `DeletedStaysDeleted`, above.
- `WalkIsExact`, `WalkEnds`: of a listing that changes under the walk. A walk that
  succeeds misses no row that matched all along and returns none twice; it ends, with
  its rows or an error, against a server that repeats tokens too.
- `ReportsTellTheTruth`, `NothingVanishes`: what a person who read a report may rely
  on. The first joins `ForetoldByDryRun` (what the dry run said is what the apply does,
  unless somebody applied in between) and `QuietMeansNothingRetired`; the second has an
  apply only move rows between live and deprecated, and a built document empty the
  routes only on purpose (one with fewer routes than before removes the others, as
  `manifest.go:179` says).

Every property has a mutant (`mutants` in `PROJECT.json`): a plausible bug of the
code that makes it fail under the same configuration. The mutant of a property
that joins several breaks one of its parts.

### Bounds

The bounds (`MaxFlights`, `MaxLapses`, `MaxClock`, `MaxChanges`, `MaxPushes`,
`MaxTime`, `MaxCrashes`, `MaxSeq`, `MaxRuns`, `MaxNodes`, `MaxTokens`, `MaxVersion`)
appear in guards and types only. Two
rotations are the least in which one overlaps the callback, or the lost answer, of
another; one lapse suffices because every property that speaks of lapses speaks of
none or of any. The clock of `key_cache` goes one past TTL and that of
`decision_cache` one past TTL plus round trip, so each bound can be overstepped by
a wrong model, as the mutants do. `key_cache` has one kid, listed twice, dropped,
or published by a stranger, because the properties relate a lookup to its own kid
only. Two goroutines give leader and waiter. What the proofs cover holds for any
number and any bound.

Two logins, codes and requests are two tabs of one browser, or two browsers, or one
callback sent twice. A channel of two fills with one event under way and one more
push to drop; a window of one makes writes block. The counter of `share_links`
reaches a share, two links to it and another share. One job suffices for
`request_path`, since jobs share only the two caches, which the crash empties, the
weather keeps from being filled and `AskedElsewhere` fills for it. Three questions for two slots are the least that wait.
`MaxSeq` 3 passes the row registered as number 2. A walk of three applications in
pages of one meets a row added before, at and behind its token, and `MaxRows` 2 its
limit. Two applies let one come between a dry run and its apply.

`CHECK_DEADLOCK FALSE` is set throughout: callers may stop calling, and the
bounded clock, flights and changes run out.

### Fairness

Weak fairness on what a running process does by itself: a goroutine that can
take its next step is scheduled, the server or the endpoint answers a request it
has, the callback returns. The last two are assumptions on the environment; an
endpoint that never answers is ended by the client's timeout, which the model has
as `RefreshLost` and `FetchFail`. Nobody is obliged to call, nothing is obliged to
fail, no context to end and no time to pass, so no call returns merely because
it was cancelled.

In `RevocationStream` the publishers' sends and the server's handlers are fair, and
consumers are not. In `RequestPath` a worker that can take a step takes it; strong
fairness on `AcquireSlot` is the FIFO queue of goroutines blocked on a channel send,
without which one of three could be passed over by the others for ever. In
`AdminPlane` only the loop of a walk is fair.

## 4. The proofs

Proved by TLAPS for every set of goroutines, browsers, kids, documents, questions,
streams, calls, jobs and rows, every selection of failures, every interval, size and
bound. Every safety property a run checks is a theorem; only liveness is left to TLC.

| Theorem | States |
|---|---|
| `TokenSourceProofs!TypeCorrect` | `TypeOK` |
| `RefreshesAreSingleFlight` | `SingleFlight` |
| `HeldTokenStaysLive` | `HeldTokenIsLive` |
| `NoTheftSignal` | `NoSelfInflictedTheft` |
| `AdoptionOnlyAdvances` | `AdoptionAdvances` |
| `KeyCacheProofs!TypeCorrect` | `TypeOK` |
| `FetchesAreSingleFlight` | `SingleFetch` |
| `ClocksOnlyAdvance` | `ClocksAdvance` |
| `DocumentNeverFlattered` | `DocumentAsOfLastFetch` |
| `WithdrawnKeysAlwaysExpire` | `WithdrawnKeyExpires` |
| `DecisionCacheProofs!TypeCorrect` | `TypeOK` |
| `KeyCoversInputs` | plain questions with equal cache keys have equal inputs |
| `GenerationsStayBounded` | `GenerationsBounded` |
| `RecentAnswersStayHeld` | `RecentAnswersAreHeld` |
| `StepUpAlwaysFresh` | `StepUpIsFresh` |
| `CachedAnswersAreRecent` | `CachedAnswerIsRecent` |
| `WebAppProofs!AppFollowsLoginFlow` | `WebApp`'s `Spec` implements `LoginFlow`'s `LoginSpec` |
| `SessionsStayBoundToBrowser` | `SessionsBoundToBrowser` |
| `CodeOpensOneSession` | `OneSessionPerCode` |
| `CodesStaySpentOnOwnState` | `CodesSpentOnOwnState` |
| `StoreStaysSound` | `StoreIsSound` |
| `DroppedSessionsStayDropped` | `DroppedStaysDropped` |
| `RevocationStreamProofs!DeliveryStaysSound` | `DeliveryIsSound` |
| `StreamKeepsFeedPromise` | `KeepsFeedPromise`, the refinement of `RevocationFeed` |
| `ShareLinksProofs!LinkTablesStaySound` | `LinkTablesAreSound` |
| `LinkNeverSignsIn` | `LinkSignsNobodyIn` |
| `DeadLinksNeverReopen` | `DeadLinksStayDead` |
| `RequestPathProofs!ManyAnswersStayInPlace` | `ManyAnswersInPlace` |
| `OnlyAllowedCallersAreServed` | `OnlyAllowedCallersServed` |
| `FailuresAreAlwaysTold` | `FailuresAreTold` |
| `AdminPlaneProofs!TablesStaySound` | `TablesAreSound` |
| `NothingSettledIsUndone` | `SettledStaysSettled` |
| `WalksAreExact` | `WalkIsExact` |
| `NothingEverVanishes` | `NothingVanishes` |
| `ReportsAlwaysTellTheTruth` | `ReportsTellTheTruth` |

Assumptions, all named, in the module that declares the constant, and evaluated by
TLC in the runs. Intervals, sizes, buffers and page sizes are positive, as the
constructors and defaults enforce; bounds are natural numbers; markers such as
`Nobody` and `None` are nobody's name; some question is well formed. One call of
`AuthorizeMany` asks finitely many questions (it is given a slice) and each has an
answer (`TruthAssumption`); slugs and routes are finitely many, as rows and documents
are. `SeedAssumption` has the row that `AdminPlane` registers ahead of the counter lie
within the bounds.

### The inductive invariants

Why the properties are not inductive as they stand, and what is added:

- `HeldTokenIsLive` says nothing while a flight is up.
  `FamilyInv` follows the request instead: sent with the live token, admitted by
  consuming it, answered with its successor, and no other request under way,
  which in turn needs `SingleFlight`. Whether a source needs a refresh token is a
  variable that no step changes (`ModeIsFixed`); both kinds are covered.
- `AdoptionAdvances` needs `NewestInv`: every pair anywhere, stored, answered or
  held, has been issued, and the answer to the flight in the slot is newer than the
  pair it will replace. This holds with lost answers too, since an answer is
  adopted only by the leader that still holds the slot.
- `ClocksAdvance` needs `ClockInv`: `lastFetch <= nextFetch`, and a goroutine that
  is fetching began no earlier than `nextFetch`. A slow caller passes the budget
  test with its old instant, so it cannot commit one older than the last.
- `DocumentAsOfLastFetch` needs that what a fetch has read was published no
  earlier than the instant its call began (`ReadInv`), and that
  "last published" never recedes (`LastPublishedGrows`).
- `WithdrawnKeyExpires` needs `StaleInv`. `lastFetch` does not date the document a
  waiter is given: the fetcher may have begun its call long before it took the slot.
  What dates it is `since`: the document was read while the slot was held, and no
  call under way by the release began later than `FetchTimeout` after it was taken.
  So the document is vouched for (`Vouched`) at the fetch, at the release, for every
  woken waiter, and until the call resumes, unless `lastErr` says otherwise. A
  throttled call has the budget instead: `lastErr = "nil"` means
  `nextFetch <= lastFetch + MinRefetch`.
- `CachedAnswerIsRecent` needs `FreshInv`, one conjunct per place an answer can be:
  under way, received, about to be put, filed in either generation. For each, the
  server stood by it until at most a round trip before the reading of the clock
  from which the expiry is computed. `KeyCoversInputs` carries it from the
  plain question put to the plain question asked: no text of a method has an `=` and
  every text of a scope has one, so the join has one place where it can be cut, and
  of each scope's text the first `=` ends the axis.
- `GenerationsBounded` needs finiteness beside size (`SizeInv`), `StepUpIsFresh`
  that no generation holds such an answer (`StepUpInv`).
- `RecentAnswersAreHeld` needs `RecentInv`: of a live generation of `n` keys, the
  last `n` answers put are all in it. When it is full, that is all of the recent
  ones, so the old generation can go.
- `LoginFlow` needs a chain from the jar to the session (`LoginInv`): a cookie holds a
  login its own browser began, a request carries such a cookie, one that exchanges
  passed the state check, and the code of a session is spent and, which is the PKCE
  check, answers the login of the cookie. The theorems are carried to the application by
  `AppFollowsLoginFlow`.
- `StoreIsSound` needs that the two maps hold a session under one name or neither does
  (`PairInv`), through the two sections of `dropBySID`, and that a logout token is only
  under way for an ended session (`NoticeInv`).
- `NoGapAfterSynced` and the refinement of `RevocationFeed` rest on one invariant per
  stream: where handler, connection and call stand (`PhaseInv`), that `Synced` comes
  first and once (`SyncInv`), that the events heard, on the wire and in the channel
  form one line in each publisher's order (`LineInv`), that none is ahead of its own
  send (`LimitInv`), and where an event that is owed is to be found (`NoGap`). The
  refinement maps publishing, hearing and returning to the feed's steps and everything
  else to a stutter.
- `LinkSignsNobodyIn` needs that a token held is registered (`TokenInv`) and that past
  `refuseLink` no call carries one (`LinkInv`): the order mint, register, answer.
- `ManyAnswersInPlace` needs that a finished goroutine has left an answer or an error
  (`AnswersInv`), and counts the slots as the cardinality of a finite set.
- `OnlyAllowedCallersServed` and `FailuresAreTold` need one record per job: no error
  before the edge (`Underway`), what each stage has established (`Cleared`), what a
  failure is to be blamed on at that time (`Blamed`), what the caller was told
  (`Advised`). They survive a crash because redelivery starts from nothing. The entry of
  the decision cache was put no later than now and holds no step-up (`CacheInv` and the types).
- `ReportsTellTheTruth` needs `ReviewInv`: as long as nobody has installed a version
  since, the report under review is the one the server would still give.
- `TablesAreSound` and `SettledStaysSettled` need the types and identities of the tables
  together with the counter (`ProvisionInv`): nothing shown is above it. `freshID` skips
  rows registered ahead of it; that it always finds a number is a pigeonhole argument
  (`FreshNumber`).
- `WalkIsExact` needs `WalkInv`: a walk by key has everything up to its token that
  matched throughout and nothing beyond; a walk by offset has a prefix of the listing as
  long as its token says; the tokens followed are not above the present one. The
  lemmas say what sorting by rank gives (`SortedIncreases`, `SortedIsOnto`,
  `SortedPrefix`) and what a page contains (`PageByKey`, `PageByOffset`), for sets of
  any size: by the least counterexample (`LeastNatural`), since induction over data is
  out of the prover's reach.

### Only model-checked

The liveness properties: `TokenReturns`, `LookupReturns`, `PushReturns`,
`GoneSubscribersLeave`, `MessagesSettle`, `ManyReturns` and `WalkEnds`. Fairness and
`ENABLED` are beyond the prover. The documented sentences the code does not keep are
refuted by TLC, and have nothing to prove.

## 5. What is not modelled

- Cryptography and encodings: PASETO, Ed25519, base64, JSON, protobuf. A signature
  is "signed by key k", a decoding failure a flag.
- Logging, wording of errors, `Retry-After`, option plumbing, HTML.
- Single stateless calls whose answer is passed on: `Explain` and `Introspect` (but for
  whom they serve, `ShareLinks`), `BeginStepUp`,
  `SwitchScope`, the password flow (`Login`, `VerifyMFA`), the access-review and
  audit reads of the admin client, listings that return a table whole.
- Value types and their accessors (`identity.go`, `principal.go`), generated code.
- In the components that are modelled: `Current` (one read), the audience check of
  the fake client-credentials endpoint (one more error to the source), collisions of
  the key hash, a NUL in a subject or a permission, the not-before and issuer checks of `Claims.Validate` (further
  refusals beside the two in the model), and the fields of rows that no property
  tells apart.
- Inside `RequestPath` the key cache is one of "empty", "failed" and "held", and the
  decision cache is one entry. How they behave themselves is `KeyCache` and
  `DecisionCache`.

## 6. Plan

1. The safety halves of the liveness properties: that a parked caller always waits on
   a flight, fetch or slot whose owner can still take a step (`TokenSource`,
   `KeyCache`, `AuthorizeMany`), and a measure that each page of a walk decreases.
2. `KeySet`: what `ParseDocument` keeps of a document that lists a kid twice.
