# TLA+ models of Wormhole Holepunch

Holepunch is the control plane and authorization service of the Wormhole
gateway.  Envoy asks it (ext_authz) whether a request may pass, and receives
from it (xDS) the routes to serve.  This directory holds TLA+ models of
Holepunch, TLC configurations that check them on small instances, and TLAPS
proofs for instances of any size.

    tlc -config TokenCache_noop.cfg MCTokenCache      # one run
    tlapm TokenCacheProofs.tla                        # the proofs of one module

`PROJECT.json` lists the runs, for each property a seeded fault that breaks it,
the source lines behind each definition, the findings, the hazards and the
theorems.

## 1. Inventory

One binary runs as one of four services, any of them in several replicas:
`auth` (ext_authz), `xds` (Envoy configuration), `admin` (HTTP API with
webhooks) and `cacher` (publishes routes).  They share nothing but NATS: a
key/value bucket for tokens and a one-message stream for routes, both in
memory.  Outside are the Token Service, the Route Registry, oauth2-proxy and
Envoy.

| component | state | operations | talks to |
|---|---|---|---|
| token authentication (`wormhole/token`) | none of its own; `wat`/`wos` keys of the bucket | `RequestHeader` (WAT flow, OAuth flow), `getCache`, `storeCache`, `storeInvalidCache`, `InvalidateToken` | bucket, Token Service, oauth2-proxy |
| subtokens (`wormhole/token/subtoken.go`) | `was` keys of the bucket | `SubtokenFlow`, `generateSubToken`, `RemoveSubtoken` | bucket, Token Service |
| encryption (`ctls/aescipher`) | the replica's AES key | `Encrypt`, `Decrypt`, no-op variant | – |
| authorization (`wormhole/registry`) | `authCtls`, `redirectAllow` under a lock | `AuthorizeProxy`, `enforce`, `AllowedRedirect` | – |
| ext_authz (`envoy/auth.go`) | per-request locals | `Check` | the three above |
| route distribution (`wormhole/registry`, `ctls/streams`) | the retained message, durable consumers, controls of each process | `PublishSources`, `PublishSingleMsg`, `Consume`, `RefreshControls` | registry, NATS |
| cacher (`cacher`) | failures of the last hour | `StartService`, `manageRoutes` | route distribution |
| xDS (`envoy/snapshot.go`, `resources.go`, `xds.go`) | snapshot cache | `generateSnapshot`, `makeRoutes`, `makeClusters`, `makeHTTPListener`, `manageRefresh` | controls, Envoy |
| static routes (`registry/static.go`) | the parsed file | `loadStaticFile` | – |
| admin API (`server`) | webhook goroutines | invalidate and routes webhooks, read-only reports | tokens, registry |
| start and stop (`cmd/holepunch`) | processes | start, signal, shutdown | all |
| errors (`ctls/errs`) | none | error types, their gRPC codes and HTTP statuses | ext_authz answers |
| HTTP client, keys, rules, logs, flags | none | stateless helpers | – |

What is hard here:

- **Check-then-act over a shared store.**  A lookup is a Get, one or two
  decryptions and a comparison; a miss is an exchange and a Put.  Nothing ties
  these together, so another request, another replica with another key, or a
  webhook acts in between.
- **Best-effort revocation.**  The webhook answers 202, then a goroutine writes;
  a crash, a failing Put or a Put of an earlier exchange defeats it.  The TTL is
  the only bound left.
- **Two views of the routes.**  Envoy's routes and the process's controls come
  from the same source at different times, and one Check uses both.
- **At-least-once delivery** of route lists to processes that restart, from
  publishers that race, on a stream that forgets everything.
- **Stopping.**  A signal arrives at any point of a start, a request or a publish;
  some of what is in progress is waited for and some is not.
- **Separate rollouts.**  Envoy's filters come from the arguments of the xds
  process and the headers it sets from those of the auth process; either may be
  restarted with other arguments first.
- **Map iteration order** decides the order in which Envoy's routes are built.

The properties that make each component correct follow in section 3; the
hazards behind them, each at its line, are in `PROJECT.json`.

## 2. Modules and their order

| module | what | state | depends on |
|---|---|---|---|
| `TokenCache` | authentication half of a Check, invalidate webhook, AES key rotation | bucket (`wat`, `wos` keys), handlers, webhook goroutines, clock, Token Service | – |
| `TokenGrants` | what authentication promises, without cache, cipher or webhook | clock, Token Service, who is let through as whom | – |
| `TokenCacheProofs` | the theorems about `TokenCache`, among them that it implements `TokenGrants` | – | `TokenCache`, `TokenGrants` |
| `RouteSync` | registry → publishers → stream → consumers → controls | registry, stream, publishers, consumers, processes | – |
| `AuthCheck` | the rest of a Check: rules, subtokens; webhook on subtokens | tables of process and Envoy, bucket (`was` keys), handlers, clock | takes authentication as an outcome (`TokenCache`), table changes as steps (`RouteSync`, `Snapshot`) |
| `Snapshot` | static and published sources → controls → snapshot → Envoy | controls, arguments, snapshot, Envoy's clusters, routes and listener, its streams | takes source lists as steps (`RouteSync`) |
| `HeaderChain` | one request through the listener's filters: header mutation, authorization, router | arguments of both processes, the request's headers, the CheckRequest and its answer | takes the decision of Check as an outcome (`TokenCache`, `AuthCheck`) |
| `Lifecycle` | one process of each of the four commands, from start to exit; the cacher's loop | main goroutine, subscriber, server, requests in progress, failures, exit status | takes a publish as an outcome (`RouteSync`), a request as something in progress |
| `AuthCheckProofs`, `RouteSyncProofs`, `SnapshotProofs`, `HeaderChainProofs`, `LifecycleProofs` | the theorems about the module of that name | – | that module; `LeastElement` |
| `LeastElement` | a nonempty set of naturals has a least element, the form of induction the proofs use | – | – |

`MC<module>` modules hold the values of constants that a `.cfg` cannot express.
The order was: the token cache first, since a wrong grant is the worst this
program can do; then route distribution; then the rest of the Check; then the
snapshot; then start and stop; then the headers.

The bucket is split by key prefix: `wat.v1.`/`wos.v1-` in `TokenCache`,
`was.v1.` in `AuthCheck`.  No code path reads a key of one family and writes one
of the other except `RemoveSubtoken`, which makes two independent calls, one in
each module.

Planned next, in this order:

1. a composition of `RouteSync` with the tables of `AuthCheck` and `Snapshot`,
   so that the skew between Envoy and the process is produced, not assumed;
2. what route distribution promises as a specification of its own, with
   `RouteSync` shown to implement it, as `TokenCache` implements `TokenGrants`.

## 3. How the modules correspond to the code

### TokenCache

One handler is one goroutine serving `Check`; `Cipher[r]` is the AES key of its
replica (`NoKey` for the no-op cipher).  Its `pc` names the call it is about to
make:

| `pc` | action | code |
|---|---|---|
| idle | `BeginWAT`, `BeginOauth`, `BeginMalformed` | `RequestHeader`, `retrieveWAT`, `oauthFlow` |
| proxy | `CallProxyAuth` | `callProxyAuth`: refusal, no access token, session |
| dummy | `DummyDecrypt` | `getCache`: `mustDecrypt(dummyCiphertext)`, which deletes the key under AES |
| get | `GetCache` | `kvStore.Get`; every error is a miss |
| decryptJump, decryptToken | `DeleteCorrupted` | `mustDecrypt` failing: one Delete each |
| validate | `Validate` | disallowed, expiry, token comparison |
| exchange | `Exchange` | `exchangeToken` or the OAuth exchange, and `decodeTrustedJWT` |
| store | `StoreCache` | `storeCache`, `storeInvalidCache` |
| answered | `Return` | the answer leaves `RequestHeader` |

`AuthCrash` and `AdminCrash` stop a process between two steps.
`InvalidateWebhook` and `InvalidateToken` are the handler and its goroutine.
`Revoke` and `Tick` are the environment: the Token Service stops accepting a
credential, time passes and the bucket drops old entries.

An entry stands for the stored struct.  `cred` stands for the token and the
payload minted for it; `enc` is the key it was encrypted with; `minted` is
history and no action reads it.  A credential is cached under `KeyOf`: a WAT
under its ID alone, so a wrong secret with a known ID shares the key.

A store call with a context that is done has no effect.  With `KVFaults`, a call
with a live context may fail, before or after taking effect; callers ignore the
error in either case.  HTTP calls do not carry the context (`requests.go` builds
them with `http.NewRequest`), so an exchange may end long after the deadline.

The grants Envoy can still act on, `[r |-> cred[r]` where `Granted(r) /\ CtxLive(r)`,
else `None]`, are the variable `granted` of `TokenGrants`; `now`, `alive` and
`revokedAt` are its variables of the same names.  Under this mapping a handler's
decision is `Grant` or nothing, its end `Finish` or nothing, a webhook step
nothing at all, and a tick may end grants whose Check deadline it passes.

### RouteSync

`CacherTick`/`RoutesWebhook` start a `PublishSources` call, which goes through
`FetchOK`/`FetchRetry`/`FetchFail` (`request`), `CompareLast` and `Publish`
(`PublishSingleMsg`) and, on error, `PublishError`.  `Deliver`, `AckTimeout` are
JetStream; `RefreshControls` and `Ack` are the two halves of `Consume`'s
callback.  `Restart` is a process of the same or of a new host name,
`NatsLoss` a NATS server that restarts without its memory.  The controls are
abstracted to the list they were built from (`view`) and the message it came
in (`applied`).  The stream's limit of one message is the variable `last`.

All attempts of `request` decode into one slice, and Go's JSON decoder keeps the
fields of an element that the next answer does not have.  `FetchRetry` may
therefore leave `Mixed` behind, an answer decoded half way (a URL that does not
parse ends `UnmarshalJSON` in the middle of the list), and `FetchOK` may then
return it instead of the registry's list.

`conn` is the process's NATS connection.  `Disconnect` may take a message with it,
which the server goes on waiting to see acknowledged; `Reconnect` resumes the
subscription; `GiveUp` is the client closing the connection after its last
attempt, upon which the process only logs.

### AuthCheck

`BeginCheck` takes route and community from Envoy's table, `ReadControls` copies
the control under the lock, `Enforce` evaluates it after the unlock, and
`SubtokenFlow`, `GetSubtoken`, `DeleteExpired`, `PostSubtoken`, `StoreSubtoken`
are the calls of the subtoken flow.  `Authenticated`/`RequestRefused` stand for
the answer of `RequestHeader`.  `UpdateCtls` swaps the process's table,
`EnvoyUpdate` Envoy's.

### Snapshot

`Merge` is `updateCtls`, with `Decode` for the JSON form that has no `NoAuth`.
`Generate` and `Snapshots` are `generateSnapshot`; each `range` over the controls
map is a choice among `Orders`.  `ClusterName` and `NormalizeName` build a
cluster's name from the characters of its destination, so that names collide as
they do in the code (`[::1]` and `[1::]` lose their colons).  The loops of
`makeRoutes` and `makeClusters` are recursive functions of the number of turns
taken, with `AddRoute` and `AddCluster` as their bodies.

A snapshot carries the arguments of the process that made it beside its version,
since `computeChecksum` looks at the controls only.  `SendClusters`, `SendRoutes`
and `SendListener` are the streams of the go-control-plane cache.  It answers a
request when the version it names differs or when nothing has been sent on that
stream yet (`Due`); the second is what brings new arguments to Envoy after a
restart.  `StreamBreak` lets a stream be replaced without a restart.
`Pick` is Envoy's own choice of virtual host and route; `Serving` is the
reference definition it is compared with.

### HeaderChain

`pos` is the filter a request is at, `HttpFilters` their order.  `HeaderMutation`
removes `DefaultRequestHeaders` and sets the version; `SkipAuthz` is the disabled
filter of a `NoAuth` route; `SendCheck` shows Check the headers `AllowedHeaders`
lets through; `CheckAllow`, `CheckDeny` and `CheckRedirect` are the three ends of
`Check`; `ApplyAnswer` and `AuthzTimeout` are what Envoy makes of an answer or of
none.  A header's value is where it comes from: the client, and then in which
header it was sent (`Sent`), the Token Service, the build, or the matched route.
`CheckAllow` sets what `SubtokenFlow` returns: on a community route a subtoken of
the Token Service, or the request's own token (`WAT`) when that is a subtoken of
the community already.  A request authenticated by its session has no `WAT`; were
its payload a subtoken's, Check would set no subtoken, and the model has that too.  An error type becomes a gRPC code (`Code`) and
then a status (`StatusCode`), and Envoy decides by the code.  `RollXds` and
`RollAuth` replace one process by one with other arguments at any moment; a
request keeps the configuration it arrived under (`cfg`), while Check uses the
arguments of the auth process it meets (`by`).

### Lifecycle

`kind` is the command, `pc` where its main goroutine stands: the stages of
`start*Cmd` in order (`Connect`, `InitializeTokens`, `InitializeRoutes`, `Load`),
then `ListenGRPC` (`StartEnvoyAuth`, `RunServer`), `ListenHTTP` (`AdminAPI`) or
the cacher's `InitialPublish` and loop.  Beside it run the subscriber
(`Subscribe`, `manageRegistryRefresh`, whose error is a `log.Fatalf`), the
goroutine that serves (`ServeError` is its send to `errChan`) and the requests
(`Accept`, `Answer`; for xds, streams that end by `StreamEnd` or `Disconnect`).
Both gRPC servers also serve the health service of gRPC, whose streaming `Watch`
ends only with its client (`WatchEnd`): `health.Server.Shutdown`, which would tell
it, is never called.  No request is accepted once the stop has begun.
`Signal` cancels the context; `WaitForShutdown` is the select both servers have,
followed by `GracefulStop` or `Shutdown`.  `Exit` ends the process: what is in
`open` then is `cut`.  `AppendFailure` is `appendFailure`; `failedAt` keeps every
failure and is history.

`http.Server.Shutdown` is given a context derived from the cancelled one, so its
5 seconds never apply: it closes the listener, looks once whether all
connections are idle, and returns the context's error if not.  The model has
both outcomes for an idle server as well, since `Shutdown` may find a connection
open that carries no request.  Goroutines of webhooks are not requests in
progress: they are cut off by any exit of the admin process, status 0 included
(`AdminCrash` in `TokenCache`).

## 4. Runs

| run | checks | instance |
|---|---|---|
| `cache_noop` | `TypeOK`, `OnlyOwnGrants`, `RevocationLatency`, `ClosedStaysClosed`, `ImplementsGrants` | 2 handlers, 1 webhook, a right and a wrong token of one ID, no encryption, failing store |
| `cache_rotation` | `OnlyOwnGrants`, `ClosedStaysClosed`, `RequestEnds` | 2 replicas with different AES keys, 1 OAuth session, failing store |
| `routes` | `TypeOK`, `AckedWasApplied`, `NeverBackwards`, `Converges` | cacher, webhook, 1 consumer, a registry change, a fault (failed call, half decoded answer, broken connection or lost message), a restart under the same or a new name, a NATS loss |
| `check_rules` | `TypeOK`, `RulesHeld`, `InjectedInScope`, `NestedOnlyUnderSkew` | 2 handlers, 4 tables, 3 payloads (a user, a user in a denied group, a subtoken) |
| `check_cache` | `SubtokenLatency`, `ServedBeforeExpiry` | 2 handlers, 1 webhook, 1 subtoken, failing store, 5 instants |
| `snapshot` | `TypeOK`, `LongestPrefixWins`, `RoutesHaveClusters`, `SameVersionAgrees`, `NoAuthIsStatic`, `EnvoyFollows` | every pair of published sources beside the static route or a published one with its ID, every order, three destinations of which two share a name, two sets of arguments, a restart or a broken stream |
| `headers` | `TypeOK`, `NoForgedHeaders`, `TokenReplaced`, `IdentityArrives`, `OnlyGranted` | routes with and without community and authorization, 4 sets of arguments (the defaults, another subtoken header, another token header, development), a client that sends any three of the 12 headers or all, one rollout of either process |
| `lifecycle` | `TypeOK`, `CleanExit`, `GivesUp`, `StopsOnSignal` | the 4 commands, 2 requests or streams, 1 health Watch, 6 instants, limit 3 within a window of 2 |

What they show:

- **`OnlyOwnGrants`**: whatever is written under a shared token ID between the
  steps of a lookup, a request passes only on a payload minted for its own
  credential and with a Jump Token its replica could decrypt.
- **`RevocationLatency`**: with every webhook lost, a revoked credential is
  refused after TTL plus two Check deadlines.  The two deadlines are real: the
  exchange may precede the Put by one, the lookup's Get the answer by another.
- **`ClosedStaysClosed`**: once a revoked key holds no grant and none is on its
  way to the store, none ever comes back.
- **`ImplementsGrants`**: seen from Envoy the whole of it is a service that asks
  only the Token Service and notices a revocation within the window.  Beyond
  `RevocationLatency` this says that no step of another actor starts, keeps or
  changes a grant.
- **`AckedWasApplied`, `NeverBackwards`, `Converges`**: acknowledged routes are
  enforced, redelivery never takes a process back, and racing publishers that
  overwrite newer with older or mixed sources are corrected by the next tick.
  `Converges` is about processes that are `Attached`, and so names the three ways
  to stay behind: the durable consumer was lost with the NATS server, the
  connection was closed for good, or the process was restarted under its name
  after acknowledging the retained message.
- **`RulesHeld`**: the rules that let a request pass are those of one table in
  force during the Check; **`InjectedInScope`**: the subtoken is of the
  request's token and community.
- **`SubtokenLatency`, `ServedBeforeExpiry`**: a revoked or expired cached
  subtoken is bounded as a token is, even when the webhook's Delete precedes
  the Put it is about.
- **`LongestPrefixWins`, `RoutesHaveClusters`, `SameVersionAgrees`,
  `NoAuthIsStatic`, `EnvoyFollows`**: whatever the map order, requests go to a
  most specific route, each snapshot is closed, and authorization is disabled
  only by the static file.  The clusters and the routes Envoy holds at one version
  fit together even when two runs of `generateSnapshot` made them.  A route leads astray only if another destination of the same
  controls has the same sanitized name.  Envoy ends up with the arguments of the
  running process although the version does not depend on them.
- **`NoForgedHeaders`, `TokenReplaced`, `IdentityArrives`**: what a destination
  finds in the reserved headers is put there by the gateway, and the token a
  client was accepted with is replaced.  The exceptions are spelled out in the
  properties.  Two values of the client are put there by Check itself: the
  development header as the host, and on a community route the accepted token in
  the subtoken header, when it is a subtoken of that community.  And while the two
  processes have different names for the subtoken header, what a client sends
  under the auth process's name stays where Check sets no subtoken.  `TokenReplaced`
  is about the token Check has read: while the two processes have different names
  for the token header, what a client sends under the xds process's name is, for
  Check, a header like any other and is passed on.
- **`OnlyGranted`**: no error type and no timing of an answer lets a denied
  request through.
- **`RequestEnds`**: every Check ends, whatever fails.
- **`CleanExit`**: exit status 0 means that no accepted request was cut off;
  **`GivesUp`**: the cacher ends exactly when `--max-failures` refreshes failed
  within the window; **`StopsOnSignal`**: a signal ends the process at any stage,
  and Envoy's long-lived streams do not hold `GracefulStop` up, because they end
  with the context given to `srv.NewServer`.  What does hold it up, for ever if its
  client likes, is a `Watch` of the health service (`HeldByWatch`), since
  `GracefulStop` has no deadline; the property says that nothing else does, and
  that the process exits when the last Watch ends.

### Findings

Four runs check what a document or comment says and end in a counterexample.

| run | property | what happens |
|---|---|---|
| `cache_expired` | `ExpiredNotServed` | the token comparison overwrites what the expiry check found (`cache.go:102`), so a matching entry is used after its `exp`; `docs/caching.md:161` says `exp` is always validated |
| `cache_rejected` | `RejectionStaysCached` | under AES, the dummy decryption made for timing deletes the key being looked up (`cache.go:74`), so the mark of a rejected token never survives a lookup; the same makes every AES lookup a miss whenever the Delete succeeds |
| `routes_restart` | `StartupFetchesRoutes` | a process restarted under the same host name resumes its durable after the message it had acknowledged, and stays on the static routes until the registry changes |
| `check_nested` | `NoNestedSubtoken` | a subtoken is recognized by Envoy's community and authorized by the process's; while they differ a subtoken gets a subtoken |

`Attached` therefore leaves a process restarted under its own name out of
`Converges` until a message is waiting for it: its convergence is what
`routes_restart` refutes.

### Bounds

Every bound is a constant with a name: `MaxTime`, `MaxSubs`, `MaxChanges`,
`MaxHooks`, `MaxFaults`, `MaxRestarts`, `MaxLosses`, `MaxInbox`, `MaxRetry`,
`MaxUpdates`, `MaxName`, `MaxRollouts`.  The clock reaches TTL plus two deadlines (`TTL = 2`,
`AuthTimeout = 2`, `MaxTime = 4`), the span `RevocationLatency` and
`SubtokenLatency` are about, so their bound is reached and a step beyond it
would be seen.  Two handlers suffice for an interleaving over one key, since a
handler sees the others only through the key's entry.  One registry change and
two publishers suffice for an old list to overwrite a newer one and for the
stream to return to an equal list; one fault is spent on any of the failures, so
runs with two different failures are not covered.  `check_rules` has no clock (`MaxTime = 0`),
because its properties do not mention time and the two runs would otherwise
multiply.  Both runs of `AuthCheck` have one subtoken to issue and `TokenCache`'s
webhook has one ID per call: two subtokens issued at once, and a call of which only
a part is done, are covered by the theorems, which hold for any number.  `snapshot` makes one update to each of all lists of two sources over
two hosts, four nested or disjoint paths and three destinations, with a restart
or a broken stream before or after it; `makeRoutes` keeps nothing between calls, and the static
file, the update and the restart already give Envoy three successive versions.
Two routes with the same source are among the lists: either may serve, and two
refreshes may order them differently under one version, so `Serving` is a set.

`lifecycle` has a clock of 6 instants and a window of 2, so that failures leave
the window and the limit of 3 is met with and without one left out.  It allows
deadlock (`CHECK_DEADLOCK FALSE`) because the process really ends.

### Fairness

- `TokenCache`: weak fairness of a handler's step and of a webhook goroutine's.
  Store calls end with their context, HTTP calls with the client's timeout, so
  each call returns.  No fairness for requests, crashes, revocations or time.
- `RouteSync`: weak fairness of the cacher's tick, of the publishers' calls, of
  delivery, handling, acknowledgement and `AckWait`, and of the client's
  reconnecting, which ends in a connection or in giving up.  None for webhooks,
  restarts or faults, which are bounded.
- `Lifecycle`: weak fairness of the main goroutine, the subscriber, each handler's
  answer and the end of each of Envoy's streams once the context is done, since
  goroutines are scheduled and calls have timeouts; strong fairness of `StopCacher`, because a Go select takes a ready
  case at random and so does not prefer its ticker for ever.  None for signals,
  requests, errors or the clients of a health Watch.
- `Snapshot`: weak fairness of the refresh ticker and of the three streams.  None for restarts,
  broken streams or updates.

## 5. Proofs

Each component's theorems follow the same argument: the properties are not
inductive, so an invariant `IInv` that is inductive and implies them is shown to
hold (`Invariance`, with one lemma per action or group of actions), and the
theorems follow from it.  The assumptions named below are the `ASSUME`s of the
modules, which TLC evaluates on every run.

### TokenCache

`TokenCacheProofs` proves, for any sets of handlers, webhook goroutines,
credentials and keys, any TTL, deadlines and token lifetimes:

| theorem | states |
|---|---|
| `TypeCorrect` | `Spec => []TypeOK` |
| `GrantsAreOwn` | `Spec => []OnlyOwnGrants` |
| `RevocationIsBounded` | `Spec => []RevocationLatency` |
| `RevocationIsFinal` | `Spec => ClosedStaysClosed` |
| `Implementation` | `Spec => ImplementsGrants`, that is `Spec => Grants!Spec` |

They rest on `CredentialAssumption` (WATs, sessions and IDs are distinct, each
key has at most one genuine credential), `CipherAssumption` and
`BoundAssumption` (numbers are natural, deadlines positive).

None of the properties is inductive.  `OnlyOwnGrants` speaks of answered
requests, whose entry was read from the bucket several steps earlier, so what
the bucket holds must be known; `RevocationLatency` adds up three spans kept in
different variables.  The inductive invariant `IInv` is `TypeOK` with two parts:

- `BucketInv`: an entry is at most `TTL - 1` old; a grant lies under the key of a
  credential that was valid when it was minted, and was put at most
  `AuthTimeout - 1` after that.
- `HandlerInv`: what a handler holds at each point; in particular an entry that
  was read is at most `TTL - 1 + AuthTimeout - 1` old at `readAt`, which is not
  before `start`.

A `Granted` handler with a live context is within `AuthTimeout - 1` of `start`,
so the three spans add up to the bound.  `Invariance` shows
`Spec => []IInv` with one lemma per group of actions; the calls of the bucket
have lemmas of their own (`PutKeepsBucket` and its like), since every action
changes the bucket through them.  `RevocationIsFinal` is an action property:
`IInv` says that the credential of a grant about to be stored is the handler's,
which is what excludes that `Exchange` opens a closed key.

`Implementation` is the refinement.  `IInvLive` turns `IInv` into what `TokenGrants`
asks of a grant (`LiveOK`); `HandlerStepGrants` shows that a handler's step leaves
the clock, the Token Service and the other handlers' grants alone and that a live
grant can only end; `StepSimulation` then maps every step to one of `TokenGrants`
or to a stutter, using `LiveOK` of the state after the step.

### AuthCheck

For any tables and sequence of route changes, any payloads, Checks and webhooks,
any TTL and deadlines:

| theorem | states |
|---|---|
| `TypeCorrect` | `Spec => []TypeOK` |
| `RulesAreOfOneTable` | `Spec => []RulesHeld` |
| `InjectionInScope` | `Spec => []InjectedInScope` |
| `NestingNeedsSkew` | `Spec => []NestedOnlyUnderSkew` |
| `RevokedSubtokensAge` | `Spec => []SubtokenLatency` |
| `CachedSubtokensExpire` | `Spec => []ServedBeforeExpiry` |

Assumed: a payload has a parent exactly if it has a community (a subtoken has
both), and the placeholders `None` and `OwnToken` are nothing else.

`IInv` follows a subtoken from the Token Service through the bucket to the
answer.  `BucketInv`: what lies under a key was issued for the token and community
of the key, is within the TTL and, if revoked, was put less than a deadline
after.  `ControlsInv`: the copy a Check works with is that of table `since`, which
the process had applied, and past `Enforce` that table permits the request.
`FlowInv` and `GrantInv` carry the facts of the bucket through the four calls of
`SubtokenFlow` to the answer; a subtoken just issued is new, so it is not the one
that was found.  Since one Check's step must not disturb what is known of
another, `HandlerFrame` shows once that the facts of a handler survive whatever
others do to tables, bucket, service and clock (`Drift`), and each action's lemma
is left with the handler that moves.

### RouteSync

For any publishers, processes, lists and bounds on the environment:

| theorem | states |
|---|---|
| `TypeCorrect` | `Spec => []TypeOK` |
| `NothingAckedUnapplied` | `Spec => []AckedWasApplied` |
| `RoutesMoveForward` | `Spec => NeverBackwards` |

Assumed: there is a list to answer with, and `Mixed`, `Static` and `None` are told
apart from the lists.

`NeverBackwards` depends on the order of what waits in a process's inbox, and
`AckedWasApplied` on the message being acknowledged.  `InboxInv`: messages wait in
the order of their sequence numbers, none is older than what is applied, the
handled one is what is applied, and as long as the durable consumer lives none is
ahead of the stream.  The last part is what makes a delivery safe: the
stream's message may be redelivered, but it is never older than what is waiting.
A NATS loss starts the sequence again at 1 and destroys the durable with it, so
only a process that restarts, and thereby forgets, sees the new numbers.

### Snapshot

For any controls, hosts, paths and destinations, any static file and any order of
the loops:

| theorem | states |
|---|---|
| `TypeCorrect` | `Spec => []TypeOK` |
| `MostSpecificRoute` | `Spec => []LongestPrefixWins` |
| `SnapshotIsClosed` | `Spec => []RoutesHaveClusters` |
| `StreamsAgree` | `Spec => []SameVersionAgrees` |
| `OnlyStaticSkipsAuth` | `Spec => []NoAuthIsStatic` |

Assumed: there are finitely many IDs, a path has a length, the wildcard is not a
host, and `None` is neither a source nor a route.

These are statements about what two loops compute.  `RoutesOf` and `ClustersOf` say
what a loop has established after some of the controls: for routes, that each
virtual host holds the routes of exactly those controls, longest prefix first; for
clusters, that names are unique and that every name needed is there.  Both loops
are shown in the same three steps: the recursive function exists
(`RouteTurnsExist`), one turn keeps the claim (`AddRouteKeeps`, over
`InsertRouteKeeps` for the insertion into a sorted list), and so it holds after
every turn (`RoutesAreMade`).  The prover cannot use the library's induction
theorems, so the first and the last step take the least number of turns for which
the claim fails (`HasLeast`) and contradict it.  `OrderVisitsAll` supplies that an
order of the controls visits each.  `IInv` is then that the controls, the cached
snapshot and what Envoy holds were made by whole loops over one table;
`FirstMatchIsLongest` turns sortedness into the property of Envoy's first match.

### HeaderChain

For any header names, arguments, routes and client headers:

| theorem | states |
|---|---|
| `TypeCorrect` | `Spec => []TypeOK` |
| `ReservedHeadersAreOurs` | `Spec => []NoForgedHeaders` |
| `TokenIsReplaced` | `Spec => []TokenReplaced` |
| `IdentityIsTold` | `Spec => []IdentityArrives` |
| `GrantIsNeeded` | `Spec => []OnlyGranted` |

Assumed: the header names fixed in the code are distinct and none is also
configured, and one process's token header is neither its subtoken header nor its
development header.  The code does not check the configured names; where they
coincide one header overwrites the other, so the theorems are about deployments
that keep them apart.

The properties are about a request that has been forwarded.  `ChainInv` says for
each position in the chain what the headers are by then: after the mutation
filter every reserved header is empty or the version (`Cleaned`), after
authorization they are what the destination will see (`Ready`), and until then
a value of the client is in the header it was sent in (`InPlace`), so that Check
reads a token only where one was sent.  `CheckInv` ties an answer in flight to the
arguments it was computed from, since the auth process may be replaced between the
answer and its use.  `AppliedIsReady` is the core: writing an allowed answer's
headers over cleaned ones makes them ready, whichever subtoken it carries.

### Lifecycle

For any requests, health Watches, limit, window and length of run:

| theorem | states |
|---|---|
| `TypeCorrect` | `Spec => []TypeOK` |
| `SuccessIsClean` | `Spec => []CleanExit` |
| `FailuresAreCounted` | `Spec => []GivesUp` |

Assumed: requests and Watches are finitely many and different, and the limit is at
least 1.

`PhaseInv` says which commands, subscribers and requests there may be at each
stage.  `GivesUp` compares the list the cacher prunes with all failures there ever
were.  `WindowInv` relates them: the pruned list is a suffix of all failures, what
precedes it is out of the window that ends with the last failure, and it is
within.  `Pruned` shows what the loop of `appendFailure` drops, `WindowMoves` that a
later failure keeps `WindowInv`, and `RecentIsCounted` that the length of the
pruned list is the number of failures in the window.

### Only model-checked

Liveness (`RequestEnds`, `Converges`, `EnvoyFollows`, `StopsOnSignal`), which is
outside what this prover supports, and the counterexamples of the four findings.
Every invariant and every action property of the passing runs has a theorem, and
TLC finds each `IInv` true on the instances of its module's passing runs.

## 6. What the models leave out

- **NATS.**  The bucket is one copy with atomic calls.  With several NATS
  replicas a direct get may be served by one that lags; and a server may drop an
  entry somewhat after its TTL.  Both would add to the latency bounds.  So would
  a Put that the client has buffered while its connection was down: it lands after
  the reconnect, which may be `maxRetries` attempts later, although its context has
  ended and its error was ignored (`TryPut` takes effect within the call or never).
  `ClosedStaysClosed` does not count such a Put as on its way.  A bucket
  that already exists keeps its own TTL (`streams.go:208`); `TTL` is the one in
  force.
- **Deadlines.**  `AuthTimeout` is the timeout in Envoy's ext_authz
  configuration, which Envoy passes on with the gRPC call.  A Check that Envoy
  has given up on still runs; its answer counts for nothing, so the latency
  properties are about answers in time.
- **Cryptography.**  AES-GCM decrypts exactly what its key encrypted, SHA-256 and
  the version checksum (a CRC-32) have no collisions.
- **Token Service.**  It answers truthfully at the instant of the call; a subtoken
  it issues is not empty.
- **Text.**  Header, URL and redirect text, validation of strings, error bodies,
  logging, tracing and the access log.
- **Code without effect.**  Routes ask for no headers of their own, so the loop of
  `requestHeaderFilterCfg` over them, and with it `setHeader`'s answer to an
  invalid name, is not reached; `WithHeaders` and `WithSetCookie` have no caller.
- **The hot cache** of `docs/caching.md` (a queue that re-validates tokens before
  they expire) has no code: `StartService` ignores its authenticator.
- **Process and state.**  `Lifecycle` follows one process and leaves its data out;
  the other modules let a process stop or restart at any step, which covers every
  way `Lifecycle` finds for it to end.  Crashes by panic or kill are there, not in
  `Lifecycle`.  The OpenTelemetry exporter is left out of both.
- **The NATS connection** is followed in `RouteSync`.  In `TokenCache` and
  `AuthCheck` a connection that is broken or closed is a store whose calls fail.
- **Request headers** are followed for one request at a time in `HeaderChain`;
  requests share nothing there but the arguments.
- The module-level seeded faults (operators commented "Seeded fault") are not
  part of any specification; each replaces the definition after it to show that
  a property notices.
