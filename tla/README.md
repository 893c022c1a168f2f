# A TLA+ model of the SAP Cloud SDK for JavaScript

This directory models the parts of the SDK in which something can go wrong that
a unit test would hardly show: caches shared by concurrent calls of several
tenants and users, requests that are retried while their timed out attempts
still run, entities that are updated next to other writers, answers that belong
to requests by their position only, and names that must stay apart. TLC checks
small instances; TLAPS proves almost all of the safety properties for all values
of the constants.

Paths are relative to the repository; `scp-cf/` stands for
`packages/connectivity/src/scp-cf/`.

## The system

An application (Node.js, one thread, interleaving at every `await`) calls
generated OData and OpenAPI clients. A request builder makes a request, the
HTTP client resolves the destination, adds tokens and a CSRF token, and sends
it under the middlewares for resilience. Destinations come from the environment,
from the application's registration, from service bindings, and from the
destination service of SAP BTP, there separately for the account of the provider
(the application's own) and of each subscriber (tenant); tokens come from XSUAA.
Process-wide caches make all calls meet. The generators run at build time.

| Component | State | Operations | Hard behaviour | What makes it correct |
|---|---|---|---|---|
| Caches (`scp-cf/cache.ts`, `async-cache.ts`) | key -> entry with expiry | get, set, hasKey, clear | expiry, absent and zero lifetimes, NaN | an expired or foreign entry is never returned |
| Service tokens (`token-accessor.ts`, `client-credentials-token-cache.ts`) | token cache per tenant and client | serviceToken, jwtBearerToken | concurrent misses, late responses, three ways to name a tenant | a token is of the tenant and service asked for, and fresh |
| Destination retrieval (`destination-from-service.ts` and what it calls) | destination cache holding shared, mutable objects | getDestinationFromDestinationService | two searches in two accounts, OAuth flows, mutation of cached objects, failures between steps | accounts and users stay apart; the selection strategy decides; a destination leaves with the answer of its flow |
| Destination service client (`destination-service.ts`, `destination-accessor.ts`) | cache of the lists of all destinations | fetch one or all destinations, certificates | retries with a check of the result, two requests at once | a usable destination or an error; lists of one account |
| Registered destinations (`register-destination-cache.ts`, `destination-from-registration.ts`) | a second destination cache, the cached mTLS key pair | registerDestination, search, getMtlsOptions | shared objects, two files read while they rotate, expiry of certificates | a registered destination is found by its tenant only; a certificate is valid |
| Other destination sources (`destination-from-env.ts`, `destination-from-vcap.ts`) | the destination cache | getDestination | order of the sources, two keys for one destination | a destination is for the tenant of the caller |
| Connectivity proxy | none | proxy headers | | |
| Resilience (`packages/resilience`) | circuit breakers per target and tenant | retry, circuitBreaker, timeout | timed out attempts keep running, late answers, one trial call of a half-open breaker | bounded copies of a request, no retry of what was answered, tenants do not block each other, everything settles |
| HTTP client (`packages/http-client`) | headers shared by all attempts of a request, a configuration shared by requests | execute, CSRF token fetch | the fetch precedes a request that nobody waits for any more; the configuration is changed | as above; nobody asks for a token it has |
| HTTP agent (`packages/connectivity/src/http-agent`) | none, it uses the mTLS cache | getAgentConfig | the flag of the cache is process-wide | as for registered destinations |
| OData updates (`packages/odata-common`, `odata-v2`, `odata-v4`) | remote state and version identifier of each entity | read, PATCH, PUT | concurrent writers, retries, changes during an update | no lost update, no update applied twice, the remote state is known |
| OData batch | the requests of a batch and their change sets | build, serialize, parse, deserialize | answers matched by position, cut responses, empty change sets | every answer belongs to its request |
| Mail client | a transport and a socket | sendMail | parallel sending, failure of one mail | everything sent or reported, the order kept |
| Generators, unique names | used names | name classes, types, operations, parameters, files | names that differ in case or by an index | names are unique and stable |
| OData request builders, OpenAPI client, temporal conversions | none | | | |

Callbacks are few: the middlewares wrap each other's functions, and the timers
of timeouts, back-offs and circuit breakers fire on their own. Nothing is
persisted, so that there is no crash recovery.

## Modules

| Module | Models | Proofs |
|---|---|---|
| `Cache` | the value of a cache, its operations as operators | `CacheProofs` |
| `ServiceToken` | `serviceToken()` over `Cache` | `ServiceTokenProofs` |
| `DestinationRetrieval` | `getDestinationFromDestinationService()` over `Cache` | `DestinationRetrievalProofs` |
| `DestinationSources` | `getDestination()` up to the destination service, `registerDestination()`, both over `Cache` | `DestinationSourcesProofs` |
| `MtlsCache` | `getMtlsOptions()` and the cached key pair, over `Cache` | `RequestsProofs` |
| `RetryDestination` | `retryDestination()` | `RequestsProofs` |
| `AllDestinations` | `getAllDestinationsFromDestinationService()` over `Cache` | `RequestsProofs` |
| `RequestContract` | what a caller may rely on (abstract) | |
| `ResilientRequest` | middlewares, circuit breakers and the CSRF token; implements `RequestContract` | `ResilientRequestProofs` |
| `CsrfToken` | `execute()` for requests with one configuration | `RequestsProofs` |
| `EntityUpdate` | entities, update requests and a service with ETags | `EntityUpdateProofs` |
| `MailClient` | `sendMail()` | `RequestsProofs` |
| `Batch` | a batch request from the builder to the deserialized result, and a service | `RequestsProofs` |
| `UniqueNameGenerator` | the generator of unique names, as operators | `GeneratorsProofs` |
| `ServiceNames` | `ServiceNameFormatter` over `UniqueNameGenerator` | `GeneratorsProofs` |
| `OpenApiNames` | `ensureUniqueNames()` over `UniqueNameGenerator` | `GeneratorsProofs` |

The `MC...` modules give constants their values for TLC. Two of them,
`MCRequests` and `MCGenerators`, put components side by side that share no state:
an initial state chooses one of them in `running` (`generator`) and the others
rest. Their full product would interleave steps that do not see each other, and
no property relates two of them; every behaviour of each is there.

Operators whose comment begins with "Mutant" are never used by the model: each
is a plausible bug in the definition below it, and a property must fail when it
takes that definition's place.

### Cache

A cache is a function from keys to `[entry, expires]`; `Undefined` and `NaN` are
the JavaScript values. `Set` with an undefined key stores nothing, an entry
without `expires` gets the default validity, and an entry expires when
`expires < now`, which NaN never does. The asynchronous cache behaves the same.

### ServiceToken

State: the clock, the cache, and for each caller its request, progress and
token. `CallHit` and `CallMiss` are the synchronous part of the call; `Issue` is
XSUAA's answer, `Receive` the continuation after the `await`, `Fail` the
exception; `Clear` and `Tick` interleave. A tenant may be named by its
identifier, by its subdomain or not at all, and the cache key and the grant read
different properties of the JWT. Tokens carry the time of their receipt, which
only a property reads. Not modelled: the HTTP request itself, its own timeout and
circuit breaker (they end in `Fail`), verification keys.

### DestinationRetrieval

One action per piece of code between two `await`s: `Call` (options and the
decision about the token exchange), `ExchangeToken`, `GetTokens`, `SearchCache`,
`MissCache`, `SearchService` (each for subscriber and provider), `UseFound`, `FetchWithToken` (one for
each flow), `Finish` and `Fail`; `Clear`, `Change` (the destination service's
content) and `Tick` interleave. The cache holds references to objects, which
calls that hit it change in place, as `setForwardedAuthTokenIfNeeded` does.

A flow is answered with a token, with an error in its place whose `expires_in` is
'0', or with no tokens (`FlowAnswers`). Without the option `retry` the code does not
look at the difference, and with it `RetryDestination` shows that the third such
answer is taken: hence all three are returned and cached. An `expiresIn` of '0' is a
text, and so a lifetime of zero and not an absent one (`CacheItem`).

Abstractions: what an account says about a destination is constant (`Config`),
only its existence changes. `getSubscriberToken` and the provider's service token
are fetched in one step, since nothing is shared in between; proxy
configuration, trust store and the cache update are one step (`Finish`) for the
same reason. The X-tenant header, the content of proxy headers and certificates,
and the lifetime of the proxy token are left out. A refresh token is assumed to
be of the user of the JWT. Under the isolation strategy `tenant` all users of a
tenant share entries by design: no user property is claimed for it.

### DestinationSources

The sources before the destination service, in the order of `getDestination()`:
`CallFromEnv`, `CallSearchRegistered` and `ReturnRegistered`, `SearchBinding`,
`ReturnCachedBinding`, `Transform`, `ReturnBuilt`; a call that finds nothing ends
in `service`, where `DestinationRetrieval` takes over. `Register`,
`CertificateRead` and `CertificateFails` are `registerDestination()`. The `heap`
holds the JavaScript objects: those of the application, one that each call may
build and one copy that the web proxy may require. The four functions that choose
a tenant (`DecodeOrMakeJwt`, `GetJwtForCaching`, `BindingJwt` and the grant of the
token) are separate, because they differ in the code. Left out: parsing of
variables and bindings, on-premise proxies, what the transformations for single
services put in besides a token, `destinationForServiceBinding()`.

### MtlsCache

The platform replaces certificate and key one after the other (`ReplaceCert`,
`ReplaceKey`) before the certificate expires; the reads of the two files are steps
of their own. `GetOptions` is `getMtlsOptions()`, `Register` a registration with
`useMtlsCache`, which sets the process-wide flag first. The date of a certificate
is a text, and `Number()` of it is NaN (`GetCertExpirationDate`). The environment
variables with the names of the files are assumed to be set: without them an agent
for mTLS has no certificate, which is logged only (`http-agent.ts:190`), and a
registration fails. No property promises a certificate either, since `{}` is the
intended answer for a pair that has expired (`register-destination-cache.spec.ts:91`);
with real certificates NaN keeps that case from coming up, see `mtls_expired`.

### RetryDestination

`answers` is what the attempts got, `retryCount` the variable of that name, which
counts checks of destinations and not retries. `Catch` is the catch block,
`RetryOrReject` is `async-retry` as it is configured there.

### AllDestinations

A call gets a token (`TokenArrives`; `FallBack` if the subscriber's is not to be
had), looks for both lists in the cache in one go and requests what is not there
(`FetchWith`); the answers come in any order (`Answer`, `FetchFails`), also after
the call has failed. A list carries its account and the time of the answer. The
exchange of a JWT before the token is part of `TokenArrives`. Left out is the
deletion of `authTokens` at the end (`destination-accessor.ts:178`): it works on
objects that may be in the cache, whose lists come without tokens.

### ResilientRequest and RequestContract

`phase` is what the caller sees of a call and `results` how its attempts ended;
`flight` is the underlying request of each attempt, which a timeout does not
cancel. `Attempt`, `CsrfAnswer`, `Answer` and `Timeout` are the steps of the
composition `retry(circuitBreaker(timeout(csrf(request))))`; `ResetTimeout` and
`RollWindow` are the circuit breaker's timers. Breakers are created on demand in
the code; the model has them from the start, as a fresh one cannot be told from
none. `opossum` (^8.1.4) and `async-retry` (^1.3.3) are not part of the
repository and are modelled from the documented behaviour of the options the
code gives them. Status 5xx and network errors are one outcome, as nothing
tells them apart.

`RequestContract` is the promise: a call settles once, succeeds only if a copy of
it was sent, and the target gets at most `Retries + 1` copies, possibly
after the caller has been told about a failure. `KeepsContract` is the refinement.

### CsrfToken

What `ResilientRequest` leaves out: `execute()` appends `csrf()` to the
middlewares of the object it was given (`AddMiddleware`), and executions that
share this object run as many as there are by then (`left`). Only a configuration
with origins is shared in this way; a plain one is copied for each request. `Enter` is the next
middleware, `CsrfAnswer` the answer to the request with a slash or without it.

### EntityUpdate

All entity objects are copies of one entity of the service. `Read` makes an
object in sync with the service, `Change` assigns to a property, `Build` is the
constructor of the builder with its setters (payload and ETag are fixed there),
`Execute` sends. The service handles the awaited attempt (`HandleAwaited`) or a
timed out one (`HandleLate`); `Retry` and `Fail` are what `ResilientRequest`
does, reduced to "another attempt" and "no further one". `Receive` is the
continuation of `executeRequest`. `ForeignWrite` are other clients. The service
evaluates `if-match` and is otherwise an assumption.

Left out: creating and deleting, identifiers set by hand, entities built without
being read, selections of part of the properties, and for OData v2 the removal
of navigation properties from the payload.

### MailClient

`Resolve` and `Connect` (with their failures) lead to the transport;
`Accept` and `Refuse` are the server's answers to single mails. `parallel` is
three-valued, since the code compares with `false`. A refusal rejects the call
past the teardown while other mails may be under way, whose answers still come.
The conversion of the destination and the bytes of the SOCKS handshake are left
out.

### Batch

A text is a sequence of telling lines (boundaries, content types, request and
status lines, bodies), so that joining and splitting at boundaries are really
done. `Build` serializes; the service executes part after part
(`ExecuteRead`, `ExecuteChangeSet`, `Refuse`), answers when it is through or stops
at an error (`Respond`); `Truncate` cuts the response anywhere; `Parse` parses
and deserializes. The service is an assumption: change sets are atomic, a failed
one is answered once, its answers come in any order. URLs, headers and the
deserialization of entities are left out.

Also left out are answers that these services do not give: 204 to a write (the
newline that `splitResponse()` adds to them makes their last line empty, which is
`NoBody`), and 'Unknown Status Code', for which the code assumes 200. The code
splits at the boundary's characters wherever they are, the model at boundary lines:
a boundary that occurs inside a body would be the fault of whoever chose it. The
error for parts of fewer than three lines is `Malformed` here, as such parts lack a
type or a status.

### UniqueNameGenerator, ServiceNames, OpenApiNames

A name is a sequence of words, each with its spelling (case), and of an index
maybe; so lower case, suffixes, indices and prefixes are what the code computes,
without characters. `ServiceNames` names entities, types and operations in any
order; `OpenApiNames` runs through a list, once for each choice of `strictNaming`.
The number of suffixes, 1000 in the code, is a parameter.

## What the runs check

Passing runs (two workers, each below two minutes):

| Run | Bounds | Distinct states | Shows |
|---|---|---|---|
| `service_token` | 3 callers, 2 tenants, 2 services, 6 kinds of requests, clock to 3 | 836,594 | `CacheIsolation`, `TokenMatchesRequest`, `ServedWithinLifetime` |
| `destination_retrieval` | 2 calls, 2 accounts, 2 users, 2 destinations, 9 kinds of options, clock 1..2, 1 change | 2,165,080 | `AccountIsolation`, `UserIsolation`, `ResultIsSelected`, `ReturnedAfterFlow`, `FailureIsNotKept`, `ForwardsOwnToken` |
| `destination_sources` | 3 calls, each one of 11 lookups or 4 registrations of 3 objects, 2 tenants, 2 users, 4 names | 133,259 | `BindingForCaller`, `RegisteredForCaller`, `CopyKeepsToken` |
| `resilient_request` | 3 calls, 2 tenants, up to 2 attempts, breaker at 2 calls and 50 % | 86,160 | `BlockedByOwnFailures`, `KeepsContract`, `AnswerIsFinal`, `Settles`, `TrialEnds` |
| `entity_update` | 1 entity, 2 properties of 2 values, 2 builders, 2 attempts each, foreign writes up to version 3 | 1,266,734 | `RemoteStateIsKnown`, `AppliedAtMostOnce`, `NoLostUpdate` |
| `requests` | 4 mails; 13 batches of up to 4 parts; 3 retries; 2 agents, 1 registration, clock to 1; 2 calls for lists, clock to 2; 3 executions with one configuration | 331,705 | `ResolvedMeansSent`, `SequentialStopsAtFailure`, `OpenWhileSending`, `MailSettles`, `ResultMatchesRequest`, `ReadsSeeEarlierWrites`, `BrokenOnlyAtThird`, `ListsOfOneAccount`, `OneTokenPerRequest` |
| `generators` | up to 5 of 4 classes, 2 types, 4 operations; lists of up to 4 of 7 names; 4 suffixes | 133,749 | `NamesDiffer`, `ConflictOnlyWhenTaken`, `ResultIsUnique`, `ProperNamesStay` |

Each also checks the type invariants of its modules.

Why the bounds are enough:

* A token cache goes wrong through one caller that fills an entry, one that
  overwrites it and one that reads it. The same holds for `destination_sources`:
  one call registers or builds, one registers again, one looks up. The lookups
  contain each source, both isolation strategies, callers without a token, and two
  users of one tenant.
* Two destination calls suffice for one to fill the cache while the other is
  anywhere in its own search; the proofs below cover any number.
* In `resilient_request` c1 and c2 share the breaker of one tenant and c3 asks the
  same target for another; c1 has one retry and a CSRF token, c1 and c2 have
  timeouts. This covers a late attempt next to a retry, and a breaker opened by two
  calls together. The threshold of two is the smallest at which one failure is not
  enough.
* In `entity_update` another entity object would act as the foreign writer does,
  and version 3 lets foreign writes follow an update.
* In `requests`, four mails have a first, a last and two between, so that a
  refusal can have mails before and after it. The batches have reads before,
  between and after change sets of one or two writes, and empty change sets in each
  place; two change sets on one entity are needed for a read to show the wrong one.
  Three executions are those that find 0, 1 and 2 middlewares.
* In `generators`, five names allow a class to collide with the interface of
  another, with an operation, with a reserved word and with an index that is
  taken, all at a time. The operations contain a keyword and the name that the
  prefix makes of it, so that two exports do get one name.

Symmetry is used where the constants are interchangeable, never with liveness.
`CHECK_DEADLOCK FALSE` appears where all calls end and the system stops.

Fairness. `ResilientRequest`: weak fairness of `Timeout` and of the attempt after
a back-off, since the event loop runs timers. Nothing is assumed of the target,
which may never answer, so that a call without a timeout may wait forever.
`MailClient`: weak fairness of the destination lookup, of the connection, of the
answer or failure of each mail and of the last step, since the lookup runs under
a timeout middleware and the SOCKS client and nodemailer have time limits. The
other modules promise safety only.

Runs that show a disagreement between code and documentation; the counterexample
is the result:

| Run | Statement | What happens |
|---|---|---|
| `forwarded_token_expiry` | `expiresIn` is a number of seconds | a forwarded token's `exp` claim, a date, is stored there: the cache entry outlives the token |
| `change_during_update` | the remote state is what was read or posted | a change made while an update runs is marked as posted |
| `registered_with_ias` | the tenant is `zid` or `app_tid` | the registration looks at `zid` only: all tenants with tokens of the Identity service share one key |
| `shared_forwarded_token` | the caller's token is forwarded | it is written into the registered object, and the next caller's takes its place |
| `mtls_expired` | a certificate that is no longer valid is read again | its date becomes NaN, and the entry never expires |

### Divergences seen without a run of their own

Reading the code for these modules showed more places where it does something
else than its documentation says. The modules contain them as the code has them,
and the properties are stated so that they hold for the rest:

* `iss` is documented to count only without a JWT, yet decides the subscriber also
  with one (`get-subscriber-token.ts:96`); destinations from service bindings that
  are built for `iss` are filed under the provider's tenant
  (`destination-from-vcap.ts:71`).
* A selection strategy of the application's own is documented to get the
  destinations of both accounts (`destination-accessor-types.ts:10`), but is called
  once per account, and the second answer replaces the first
  (`destination-from-service.ts:210`): one that prefers the provider and falls back
  to the subscriber may end up with nothing. `ResultIsSelected` allows that.
* A registration with a token that has a user but no tenant is stored nowhere,
  without an error (`destination-from-registration.ts:55`).
* An error without a response ends the retries of the destination service client
  as a `TypeError` of the error handler (`destination-service.ts:334`).
* Fields that an update ignores are taken for sent; the version identifier has no
  default `*` (`entity-base.ts`).
* A delete request of OData V4 has the version identifier as a custom header
  (`odata-v4/src/request-builder/delete-request-builder.ts:36`), which
  `eTagHeaders()` prefers, so that `ignoreVersionIdentifier()` does not make it
  `*` (`odata-request.ts:214`).
* `sendMail()` sends in parallel unless told otherwise, and leaves the transport
  open after a refusal (`mail-client.ts:268`).
* Of a part of a batch response only the last line is taken for the body, so that
  pretty-printed JSON becomes `{}` (`batch-response-parser.ts:44`); OData V4
  responses have no `__metadata` and are not mapped to their entity
  (`batch-response-deserializer.ts:138`).
* The prefix for keywords is added after a name was made unique: the operations
  `delete` and `fDelete` get one name (`service-name-formatter.ts:158`).
  `NamesDiffer` is about the exported names and allows this.
* An error in place of a token is returned and cached like a token. If it has no
  `expires_in`, it stays for five minutes (`destination-cache.ts:221`);
  `FailureIsNotKept` is about those that have one of '0'.
* The list of generated names has one name too many if no index is needed
  (`unique-name-generator.ts:90`).

## What is proved

TLAPS checks the theorems for any number of callers, tenants, users, entities,
mails, batches, names and steps. A theorem about a state has an inductive invariant behind
it: the initial states satisfy it, each action preserves it, and it implies the
property. The property alone is not inductive, since a step may install what an
earlier step left under way. Action properties follow from the same invariant
and a look at the steps that they speak of.

### Caches and tokens

* `CacheProofs`: what `Get` returns and `Set` stores, used by the proofs below.
* `ServiceTokenProofs` (`TypeOK`, `CacheIsolation`, `TokenMatchesRequest`,
  `ServedWithinLifetime`): the invariant adds that keys are well formed and that
  the token under way to a caller is already the one its request asks for. For
  lifetimes it adds `FreshEntries`: an entry expires when its token does, counted
  from the moment it was received and not from the moment it was asked for.
  Assumption: subdomains and tenants are related by a function and are told apart,
  the default tenant is neither.

### Destinations

* `DestinationRetrievalProofs`, `IInv` (`TypeOK`, `AccountIsolation`,
  `UserIsolation`): the invariant says what a call may hold at each step. The
  point of the argument is that a cache entry only ever refers to an object of a
  call that has returned and had the same key: nobody rebuilds it, and whoever
  writes a token into it belongs, under `tenant-user`, to the same user.
* The same, `ResultInv` (`ReturnedAfterFlow`, `ResultIsSelected`, and the action
  property `ForwardsOwnToken`): a call that is about to finish has the answer of the
  flow its object needs, and an object that has left a call keeps account, name and
  answer, or gets another token when it is found again, never none (`ObjectInv`). While no
  account changes, a call gets to the provider's account only if the strategy lets
  it, and to its second flow only with what the strategy picks (`SearchInv`); a hit
  in the cache is no exception, as what is cached was found there.
  `FailureIsNotKept`: an object becomes an error only by a flow of the call that has
  it alone, is cached after that with this moment as its end, and a token that is
  written into it later is no error.
  Hypothesis `DocumentedOptions` of all of these: no call has both `iss` and a JWT.
  With both, key and search name different tenants, see the divergences.
* `DestinationSourcesProofs` (`TypeOK`, `BindingForCaller`, `RegisteredForCaller`,
  `CopyKeepsToken`): what a call made from a binding is made once (`BuiltOnce`), so
  a cached reference shows the same object for ever; each registered entry goes
  back to a registration in `log` with the same key; a copy belongs to one call.
  `BindingForCaller` has the hypothesis `NoIssuer`: calls that use the cache do not
  name their tenant by `iss`, which the keys ignore. `RegisteredForCaller` has
  `XsuaaTokens`: a token that names a tenant does it by `zid`. Tokens of the
  Identity service do it by `app_tid`, which the registration does not read, and
  the run `registered_with_ias` shows what follows. The lookups and registrations
  of the run `destination_sources` satisfy both hypotheses.
* `RequestsProofs`: `ListsOfOneAccount` (an entry is of the account and type of its key and expires
  `Lifetime` after its answer; a list that a call holds was at most that old when
  it was taken), `BrokenOnlyAtThird` (`retryCount` is one more than the number of
  broken answers, whatever failures came between).

### Requests

* `ResilientRequestProofs` (`TypeOK`, `BlockedByOwnFailures`, `AnswerIsFinal`): the
  failures of a breaker are counted as the set of failed attempts with its key
  (`Failed`), which only grows; a breaker never counts more than these, and is not
  closed only if it has seen enough of them. A call that goes on has attempts left
  and no final answer. That keys of different targets and tenants differ needs the
  assumption that no tenant is called `tenant_id`, the default in the key.
* `RequestKeepsContract`: every step is a step of `RequestContract` or stutters.
  The first `Attempt` is `Start`; a later one without a token request, and the
  `CsrfAnswer` that lets the request go, are `Send`, also for attempts that have
  timed out. The end of an attempt is `Resolve` or `Reject` exactly if `retry` gives
  up or the answer is final. `CallInv` supplies that there is an attempt left for
  each copy sent, and an answer comes only to an attempt that was sent.
* `RequestsProofs`: `OneTokenPerRequest` for executions that share a growing
  configuration: an execution has a token exactly if one was configured or found,
  asks only without one, and what it asked and can still ask is bounded by twice
  the number of middlewares.
* `RequestsProofs`, mails (types, `ResolvedMeansSent`, `SequentialStopsAtFailure`,
  `OpenWhileSending`): the invariant adds that an answer at a position is that of a
  mail which was sent (`ResponsesMatch`) and relates the state of the connections
  to where the call stands (`Connections`), which is what the last step and a late
  answer rely on.
* `EntityUpdateProofs` (`TypeOK`, `RemoteStateIsKnown`, `AppliedAtMostOnce`,
  `NoLostUpdate`): no identifier is ahead of the service; a request whose
  identifier is still current changes exactly what the application has changed
  and turns the service's state into the entity's; an answer that brings the
  current identifier is about that state; an applied request has an outdated
  identifier. Assumption `GuardedUse`: the service has ETags, no builder ignores
  fields or the identifier, and an entity is left alone while it is updated.
  The run `change_during_update` shows that the last is needed.

### Batches

* `RequestsProofs`, texts: splitting undoes joining (`SplitEnclosed`), for any
  number of texts of any lines, as long as none has the boundary in itself; and a
  beginning of such a text splits into the same parts but for the last one, which
  the client drops (`SplitTruncated`, `BrokenResponse`). So a part that was cut is
  never taken for a whole one. `Splits` and `SentOf` are recursive functions over
  positions, and `StepByStep` is the induction for such functions.
* What is sent has no boundary of the batch inside (`SerializedText`), nor has an
  answer (`AnswerText`), as the lines of both are told apart from it. Hence the
  service receives the parts that were sent, in their order (`ReceivedParts`), and
  an answer, parsed, is what the service noted (`MatchesEntry`).
* `BatchInv` follows the service part by part. Its record is about the
  subrequests sent, in their order (`BatchLog`); each entity has the value of the
  last applied change set that wrote it, or a value of somebody else, or its first
  one while none did (`StoreValues`), and so had those that were read when they
  were read (`ReadValues`, which is why the property about the result is not
  inductive); the response is a beginning of the answers (`ResponseOfLog`), and the
  result of the notes (`ResultOfLog`).
* `BatchResultOfLog` holds however the service writes bodies;
  `ResultMatchesRequest` and `ReadsSeeEarlierWrites` have the hypothesis that it
  writes each on one line (`~Multiline`), as the client reads only the last line:
  see the divergences. The batches are a parameter: all sequences of reads and of
  change sets of any length, the empty ones included.
* `AllTypes` for this and the other components of `MCRequests`, from the invariants
  of all six.

### Names

* `GeneratorsProofs`, the generator: a name is compared token by token, and
  spelling it for comparison keeps how it begins. Hence the filter for relevant
  used names overlooks none (`NoneIsOverlooked`): every generated name begins with
  the name without its index, and so does every used name that could equal it.
  A generated name is then not among the used ones.
* `NamesDiffer` and `ConflictOnlyWhenTaken` for `ServiceNames`: what was granted or
  is reserved is used, and the spelling in which the generated names are compared
  differs (`GeneratedDiffer`). A grant without the prefix for keywords exports such
  names only, so equal exports need a prefix. Assumption: no keyword is empty.
* `ResultIsUnique` and `ProperNamesStay` for `OpenApiNames`: `deduplicateNames()`
  looks at the first pending name only. The invariant `Renaming` says that the
  pending names are the rest of those that may stay, by position; so the first is
  met exactly at its own position (`KeptIfProper`). All names that may stay are
  used from the start, so no generated one takes theirs.
* `GeneratorsTypes` for the two side by side.

`CorrectNames`, the code's `reduce`, is a recursive function over positions. What
it computes is proved with `NumberInduction`: induction over the numbers for a set
in place of a predicate, from the fact that a set of numbers has a least element.
`Index \in STRING` is an assumption only because no prover knows the set.

### Only model-checked

* Liveness (`Settles`, `TrialEnds`, `MailSettles`): out of the prover's reach.

## Not modelled

Out of scope because they keep no state and have no order of steps to get wrong:
parsing of environment variables, service bindings and destinations, proxy
headers and the connectivity proxy, query and URI building, serialization of
values, temporal conversions, OData and OpenAPI request building, merging of
headers, logging. Of the generators only the naming is modelled; the rest is a
sequential pipeline over an API description, its file output is I/O, and the
services in `test-packages/` are its product. The actions under `.github/` and
the package manager under `.yarn/` are bundled code of third parties.

## Plan

Done: all components with state and order, and a theorem for every invariant and
every action property that the runs check. Left is to widen `EntityUpdate`:
creation and deletion, an update that ignores the identifier followed by a guarded
PUT, identifiers set by hand.
