------------------------ MODULE DestinationRetrieval ------------------------
(***************************************************************************)
(* DestinationFromServiceRetriever of destination-from-service.ts with the *)
(* process-wide destinationCache: several calls of                         *)
(* getDestinationFromDestinationService() interleave at every await, while *)
(* destinations are created and deleted in the destination service.        *)
(*                                                                         *)
(* A call builds at most one Destination object that others can see: the   *)
(* one it puts into the cache.  Objects are therefore named by the call    *)
(* that built them, `dest' is the heap, and the cache holds references, as *)
(* the JavaScript cache does.  Time is in seconds.                         *)
(***************************************************************************)
EXTENDS Cache

CONSTANTS Calls,
          Tenants,     \* accounts (subaccounts) of the destination service
          Provider,    \* the account of the application itself
          Users,
          Names,       \* destination names
          Config,      \* what an account says about a destination
          OptionSets,  \* the options calls are made with, a subset of Options
          Lifetime,    \* seconds until a token of the destination service expires
          Validity,    \* default validity of the cache
          StartTime,   \* the clock when the process starts
          MaxTime,     \* bound on the clock
          MaxChanges   \* bound on creations and deletions of destinations

VARIABLES now,
          remote,   \* the destinations each account has at present
          changes,  \* how often `remote' changed
          cache,    \* destinationCache: key -> reference to a destination
          pc,       \* where each call stands
          opts,     \* its options; the token exchange replaces the jwt
          service,  \* tenant of the subscriber's service token, or Undefined
          origin,   \* account the search found the destination in
          found,    \* reference to the destination that was found
          dest,     \* the destination object each call built
          result    \* what the call returned: a reference, or Null

vars == <<now, remote, changes, cache, pc, opts, service, origin, found, dest, result>>

-----------------------------------------------------------------------------
(* Data                                                                    *)

Null == "null"

\* Tokens of users.  Custom tokens (xsuaa FALSE) need not name a tenant.
Jwt == { j \in [tenant : Tenants \cup {Undefined}, user : Users,
                xsuaa : BOOLEAN, exp : Nat] : j.xsuaa => j.tenant # Undefined }

\* The authentication types of a destination, by the flow they need.
AuthFlows == {"none", "user", "client", "refresh", "principal"}

Configuration == [auth : AuthFlows, forward : BOOLEAN, jwks : BOOLEAN, trust : BOOLEAN]

Strategies == {"subscriberFirst", "alwaysSubscriber", "alwaysProvider", "custom"}

Options == [name : Names, jwt : Jwt \cup {Undefined}, iss : Tenants \cup {Undefined},
            strategy : Strategies, isolation : {"tenant", "tenant-user", Undefined},
            useCache : BOOLEAN \cup {Undefined}, exchange : BOOLEAN, refreshToken : BOOLEAN]

\* authTokens[0]: for whom it was issued (Undefined for technical users), when
\* it really expires, the property `expiresIn' that the cache reads, and whether
\* the destination service has put an error in its place.
AuthToken == [user : Users \cup {Undefined}, exp : Nat,
              expiresIn : Nat \cup {Undefined}, error : BOOLEAN]

Destination == [account : Tenants, name : Names,
                token : AuthToken \cup {Undefined}, certificate : BOOLEAN]

Keys == [tenant : Tenants, user : Users \cup {Undefined}, name : Names]

ASSUME DestinationAssumption ==
  /\ Provider \in Tenants
  /\ Undefined \notin Tenants \cup Users \cup Names \cup Calls \cup BOOLEAN
  /\ Undefined \notin Destination \cup AuthToken \cup Keys
  /\ Config \in [Tenants -> [Names -> Configuration]]
  /\ OptionSets \subseteq Options
  /\ Lifetime \in Nat \ {0}
  /\ {Validity, StartTime, MaxTime, MaxChanges} \subseteq Nat
  /\ Null \notin Calls

Configured(d) == Config[d.account][d.name]

Or(a, b) == IF a # Undefined THEN a ELSE b

NewDestination(account, name, token) ==
  [account |-> account, name |-> name, token |-> token, certificate |-> FALSE]

-----------------------------------------------------------------------------
(* Tokens and options                                                      *)

\* Enabled by default, for every token that XSUAA did not issue.
ShouldExchangeToken(o) == o.exchange /\ o.jwt # Undefined /\ ~o.jwt.xsuaa

\* The tenant the subscriber's service token is requested for: `iss' wins.
TenantForServiceToken(o) ==
  Or(o.iss, IF o.jwt = Undefined THEN Undefined ELSE o.jwt.tenant)

UserId(o) == IF o.jwt = Undefined THEN Undefined ELSE o.jwt.user

UseCache(o) == IF o.useCache = Undefined THEN o.isolation # Undefined ELSE o.useCache

IsolationStrategy(o) ==
  IF o.isolation # Undefined THEN o.isolation
  ELSE IF UserId(o) # Undefined THEN "tenant-user"
  ELSE "tenant"

\* Mutant: the user is left out of the key.
CacheKeyWithoutUser(c, from) ==
  [tenant |-> IF from = "subscriber" THEN service[c] ELSE Provider,
   user |-> Undefined, name |-> opts[c].name]

\* Mutant: subscriber destinations are cached under the provider's tenant.
CacheKeyOfProvider(c, from) ==
  [tenant |-> Provider, user |-> Undefined, name |-> opts[c].name]

\* getDestinationCacheKey(): the provider's service token names no user, so
\* there is no key for a provider destination under `tenant-user'.
GetDestinationCacheKey(c, from) ==
  LET user == IF from = "subscriber" THEN UserId(opts[c]) ELSE Undefined
      key  == [tenant |-> IF from = "subscriber" THEN service[c] ELSE Provider,
               user   |-> IF IsolationStrategy(opts[c]) = "tenant" THEN Undefined ELSE user,
               name   |-> opts[c].name]
  IN IF IsolationStrategy(opts[c]) = "tenant-user" /\ user = Undefined
       THEN Undefined
       ELSE key

-----------------------------------------------------------------------------
(* Selection                                                               *)

\* A selection strategy picks one of a subscriber's and a provider's
\* destination, either of which may be Undefined.  The custom one prefers the
\* provider.
Select(strategy, subscriber, provider) ==
  CASE strategy = "alwaysSubscriber" -> subscriber
    [] strategy = "alwaysProvider"   -> provider
    [] strategy = "subscriberFirst"  -> Or(subscriber, provider)
    [] strategy = "custom"           -> Or(provider, subscriber)

IsSubscriberNeeded(c, serviceJwt) ==
  serviceJwt # Undefined /\ opts[c].strategy # "alwaysProvider"

\* Mutant: whatever the subscriber's account holds, the provider is searched.
IsProviderNeededAlways(strategy, fromSubscriber) == strategy # "alwaysSubscriber"

IsProviderNeeded(strategy, fromSubscriber) ==
  /\ strategy # "alwaysSubscriber"
  /\ ~(strategy = "subscriberFirst" /\ fromSubscriber)

Account(c, from) == IF from = "subscriber" THEN service[c] ELSE Provider

-----------------------------------------------------------------------------
(* Actions                                                                 *)

Init ==
  /\ now = StartTime
  /\ remote \in [Tenants -> SUBSET Names]
  /\ changes = 0
  /\ cache = EmptyCache
  /\ pc = [c \in Calls |-> "idle"]
  /\ opts = [c \in Calls |-> Undefined]
  /\ service = [c \in Calls |-> Undefined]
  /\ origin = [c \in Calls |-> Undefined]
  /\ found = [c \in Calls |-> Undefined]
  /\ dest = [c \in Calls |-> Undefined]
  /\ result = [c \in Calls |-> Undefined]

Goto(c, label) == pc' = [pc EXCEPT ![c] = label]

Environment == <<now, remote, changes>>

Call(c, o) ==
  /\ pc[c] = "idle"
  /\ opts' = [opts EXCEPT ![c] = o]
  /\ Goto(c, IF ShouldExchangeToken(o) THEN "exchange" ELSE "tokens")
  /\ UNCHANGED <<Environment, cache, service, origin, found, dest, result>>

\* exchangeToken(): the IAS token becomes an XSUAA token of the same user.
ExchangeToken(c) ==
  /\ pc[c] = "exchange"
  /\ opts[c].jwt.tenant # Undefined
  /\ opts' = [opts EXCEPT ![c].jwt.xsuaa = TRUE]
  /\ Goto(c, "tokens")
  /\ UNCHANGED <<Environment, cache, service, origin, found, dest, result>>

\* verifyJwt() runs for XSUAA tokens unless `iss' is given, and rejects
\* expired ones.
Verified(o) == o.jwt # Undefined /\ o.iss = Undefined /\ o.jwt.xsuaa => now < o.jwt.exp

\* getSubscriberToken(), whose failure to fetch the service token is only
\* logged, and getProviderServiceToken(); then the first search.
GetTokens(c, serviceJwt) ==
  /\ pc[c] = "tokens"
  /\ Verified(opts[c])
  /\ serviceJwt \in {TenantForServiceToken(opts[c]), Undefined}
  /\ service' = [service EXCEPT ![c] = serviceJwt]
  /\ IF IsSubscriberNeeded(c, serviceJwt) THEN Goto(c, "subscriber") /\ UNCHANGED result
     ELSE IF IsProviderNeeded(opts[c].strategy, FALSE) THEN Goto(c, "provider") /\ UNCHANGED result
     ELSE Goto(c, "done") /\ result' = [result EXCEPT ![c] = Null]
  /\ UNCHANGED <<Environment, cache, opts, origin, found, dest>>

\* What follows a search of one account.  The result of the provider search
\* replaces that of the subscriber search.
AfterSearch(c, from, isFound) ==
  IF from = "subscriber" /\ IsProviderNeeded(opts[c].strategy, isFound)
    THEN Goto(c, "provider") /\ UNCHANGED result
    ELSE IF isFound THEN Goto(c, "found") /\ UNCHANGED result
    ELSE Goto(c, "done") /\ result' = [result EXCEPT ![c] = Null]

CachedDestination(c, from) == Get(cache, GetDestinationCacheKey(c, from), now)

SearchCache(c, from) ==
  /\ pc[c] = from
  /\ UseCache(opts[c])
  /\ CachedDestination(c, from) # Undefined
  /\ found' = [found EXCEPT ![c] = CachedDestination(c, from)]
  /\ origin' = [origin EXCEPT ![c] = from]
  /\ AfterSearch(c, from, TRUE)
  /\ UNCHANGED <<Environment, cache, opts, service, dest>>

Missed(from) == IF from = "subscriber" THEN "subscriberMiss" ELSE "providerMiss"

\* The service is asked; others may fill the cache until it answers.
MissCache(c, from) ==
  /\ pc[c] = from
  /\ UseCache(opts[c])
  /\ CachedDestination(c, from) = Undefined
  /\ Goto(c, Missed(from))
  /\ UNCHANGED <<Environment, cache, opts, service, origin, found, dest, result>>

AsksService(c, from) == pc[c] = Missed(from) \/ (pc[c] = from /\ ~UseCache(opts[c]))

\* fetchDestinationWithoutTokenRetrieval() and the selection strategy, applied
\* to what one account has; a destination that is not configured is no error.
SearchService(c, from) ==
  /\ AsksService(c, from)
  /\ LET account == Account(c, from)
         here    == IF opts[c].name \in remote[account] THEN account ELSE Undefined
         isFound == IF from = "subscriber"
                      THEN Select(opts[c].strategy, here, Undefined) # Undefined
                      ELSE Select(opts[c].strategy, Undefined, here) # Undefined
     IN /\ found' = [found EXCEPT ![c] = IF isFound THEN c ELSE Undefined]
        /\ origin' = [origin EXCEPT ![c] = IF isFound THEN from ELSE Undefined]
        /\ dest' = [dest EXCEPT ![c] =
             IF isFound THEN NewDestination(account, opts[c].name, Undefined) ELSE Undefined]
        /\ AfterSearch(c, from, isFound)
  /\ UNCHANGED <<Environment, cache, opts, service>>

\* buildDestinationAuthToken(): `expiresIn' is the `exp' claim of the token.
ForwardedToken(jwt) ==
  [user |-> jwt.user, exp |-> jwt.exp, expiresIn |-> jwt.exp, error |-> FALSE]

\* Mutant: a destination that already has a token keeps it.
SetForwardedAuthTokenOnce(d, jwt) ==
  IF Configured(d).forward /\ jwt # Undefined /\ d.token = Undefined
    THEN [d EXCEPT !.token = ForwardedToken(jwt)]
    ELSE d

SetForwardedAuthTokenIfNeeded(d, jwt) ==
  IF Configured(d).forward /\ jwt # Undefined
    THEN [d EXCEPT !.token = ForwardedToken(jwt)]
    ELSE d

\* Mutant: the flow for refresh tokens is left out.
LaterFlowWithoutRefresh(c, d) ==
  CASE Configured(d).auth = "principal" -> IF opts[c].jwt = Undefined THEN "failed" ELSE "finish"
    [] Configured(d).auth = "client"    -> "clientFlow"
    [] OTHER                            -> "finish"

\* The flows after the user token exchange, in the order of the code.
LaterFlow(c, d) ==
  CASE Configured(d).auth = "principal" -> IF opts[c].jwt = Undefined THEN "failed" ELSE "finish"
    [] Configured(d).auth = "client"    -> "clientFlow"
    [] Configured(d).auth = "refresh"   -> IF opts[c].refreshToken THEN "refreshFlow" ELSE "failed"
    [] OTHER                            -> "finish"

\* A user token is needed; one from another issuer than XSUAA also needs the
\* destination to say how it is verified.
CanExchangeUserToken(c, d) ==
  opts[c].jwt # Undefined /\ (opts[c].jwt.xsuaa \/ Configured(d).jwks)

FirstFlow(c, d) ==
  IF Configured(d).forward THEN "finish"
  ELSE IF Configured(d).auth # "user" THEN LaterFlow(c, d)
  ELSE IF CanExchangeUserToken(c, d) THEN "userFlow"
  ELSE "failed"

\* The found object gets the caller's token, also when other calls share it.
UseFound(c) ==
  LET d == SetForwardedAuthTokenIfNeeded(dest[found[c]], opts[c].jwt)
      fromCache == found[c] # c
  IN /\ pc[c] = "found"
     /\ dest' = [dest EXCEPT ![found[c]] = d]
     /\ IF fromCache
          THEN Goto(c, "done") /\ result' = [result EXCEPT ![c] = found[c]]
          ELSE Goto(c, FirstFlow(c, d)) /\ UNCHANGED result
     /\ UNCHANGED <<Environment, cache, opts, service, origin, found>>

\* A user of the provider's account authorizes the request with a token of
\* that account, everyone else with the service token of the search.
FlowAccount(c) ==
  IF pc[c] = "userFlow" /\ opts[c].jwt.xsuaa /\ opts[c].jwt.tenant = Provider
    THEN Provider
    ELSE Account(c, origin[c])

\* The answer of the flow: a token, an error whose `expires_in' is '0', or, with
\* expiresIn Undefined, no tokens at all.  The last two are not told from the
\* first here: without the option `retry' nobody looks, and with it the third
\* such answer is taken as it is (RetryDestination).
FlowAnswers(c, account) ==
  LET Answer(lifetime, failed) ==
        [user |-> IF pc[c] = "clientFlow" THEN Undefined ELSE UserId(opts[c]),
         exp |-> now + (IF failed THEN 0 ELSE lifetime), expiresIn |-> lifetime, error |-> failed]
  IN IF Config[account][opts[c].name].auth \in {"user", "client", "refresh"}
       THEN {Answer(Lifetime, FALSE), Answer(0, TRUE), Answer(Undefined, TRUE)}
       ELSE {Undefined}

\* fetchDestinationWithTokenRetrieval(): a second request for the destination,
\* for which the destination service runs the OAuth flow.
FetchWithToken(c) ==
  /\ pc[c] \in {"userFlow", "clientFlow", "refreshFlow"}
  /\ opts[c].name \in remote[FlowAccount(c)]
  /\ \E token \in FlowAnswers(c, FlowAccount(c)) :
       LET d == NewDestination(FlowAccount(c), opts[c].name, token)
       IN /\ dest' = [dest EXCEPT ![c] = d]
          /\ Goto(c, IF pc[c] = "userFlow" THEN LaterFlow(c, d) ELSE "finish")
  /\ UNCHANGED <<Environment, cache, opts, service, origin, found, result>>

\* Mutant: a lifetime of 0 counts as absent, as it would if it were a number.
CacheItemWithoutZero(c) ==
  [entry   |-> c,
   expires |-> IF dest[c].token = Undefined \/ dest[c].token.expiresIn \in {0, Undefined}
                 THEN Undefined
                 ELSE now + dest[c].token.expiresIn]

\* expiresIn of the first auth token is text: only an absent one has no effect.
CacheItem(c) ==
  [entry   |-> c,
   expires |-> IF dest[c].token = Undefined \/ dest[c].token.expiresIn = Undefined
                 THEN Undefined
                 ELSE now + dest[c].token.expiresIn]

\* Proxy configuration and trust store are added to the object; a certificate
\* that cannot be fetched is left out.  The object is cached and returned.
Finish(c, fetched) ==
  /\ pc[c] = "finish"
  /\ fetched => Configured(dest[c]).trust
  /\ dest' = [dest EXCEPT ![c].certificate = fetched]
  /\ cache' = IF UseCache(opts[c])
                THEN Set(cache, GetDestinationCacheKey(c, origin[c]), CacheItem(c), Validity, now)
                ELSE cache
  /\ result' = [result EXCEPT ![c] = c]
  /\ Goto(c, "done")
  /\ UNCHANGED <<Environment, opts, service, origin, found>>

\* A request is rejected and with it the call.
Fail(c) ==
  /\ \/ pc[c] \in {"exchange", "tokens", "userFlow", "clientFlow", "refreshFlow", "finish"}
     \/ \E from \in {"subscriber", "provider"} : AsksService(c, from)
  /\ Goto(c, "failed")
  /\ UNCHANGED <<Environment, cache, opts, service, origin, found, dest, result>>

\* destinationCache.clear()
Clear ==
  /\ cache' = EmptyCache
  /\ UNCHANGED <<Environment, pc, opts, service, origin, found, dest, result>>

\* A destination is created or deleted in the destination service.
Change(t, n) ==
  /\ changes < MaxChanges
  /\ changes' = changes + 1
  /\ remote' = [remote EXCEPT ![t] = IF n \in @ THEN @ \ {n} ELSE @ \cup {n}]
  /\ UNCHANGED <<now, cache, pc, opts, service, origin, found, dest, result>>

Tick ==
  /\ now < MaxTime
  /\ now' = now + 1
  /\ UNCHANGED <<remote, changes, cache, pc, opts, service, origin, found, dest, result>>

Step(c) ==
  \/ \E o \in OptionSets : Call(c, o)
  \/ ExchangeToken(c)
  \/ \E serviceJwt \in Tenants \cup {Undefined} : GetTokens(c, serviceJwt)
  \/ \E from \in {"subscriber", "provider"} : SearchCache(c, from)
  \/ \E from \in {"subscriber", "provider"} : MissCache(c, from)
  \/ \E from \in {"subscriber", "provider"} : SearchService(c, from)
  \/ UseFound(c)
  \/ FetchWithToken(c)
  \/ \E fetched \in BOOLEAN : Finish(c, fetched)
  \/ Fail(c)

Next ==
  \/ \E c \in Calls : Step(c)
  \/ Clear
  \/ \E t \in Tenants, n \in Names : Change(t, n)
  \/ Tick

Spec == Init /\ [][Next]_vars

-----------------------------------------------------------------------------
(* Properties                                                              *)

Labels == {"idle", "exchange", "tokens", "subscriber", "subscriberMiss", "provider",
           "providerMiss", "found", "userFlow", "clientFlow", "refreshFlow", "finish",
           "done", "failed"}

TypeOK ==
  /\ now \in Nat
  /\ remote \in [Tenants -> SUBSET Names]
  /\ changes \in Nat
  /\ DOMAIN cache \subseteq Keys
  /\ \A k \in DOMAIN cache : cache[k] \in CacheEntry(Calls)
  /\ pc \in [Calls -> Labels]
  /\ opts \in [Calls -> Options \cup {Undefined}]
  /\ service \in [Calls -> Tenants \cup {Undefined}]
  /\ origin \in [Calls -> {"subscriber", "provider", Undefined}]
  /\ found \in [Calls -> Calls \cup {Undefined}]
  /\ dest \in [Calls -> Destination \cup {Undefined}]
  /\ result \in [Calls -> Calls \cup {Undefined, Null}]

\* Whatever calls of different tenants interleave, a cache entry refers to a
\* destination of the account and with the name that its key says.
AccountIsolation ==
  \A k \in DOMAIN cache :
    LET d == dest[cache[k].entry] IN
      /\ d # Undefined
      /\ d.account = k.tenant
      /\ d.name = k.name

\* Under the strategy `tenant-user' what a call has returned never carries a
\* token obtained for, or forwarded by, another user: neither at once nor later,
\* although the object stays cached and other calls write their token into it.
UserIsolation ==
  \A c \in Calls :
    pc[c] = "done" /\ result[c] # Null /\ IsolationStrategy(opts[c]) = "tenant-user" =>
      LET token == dest[result[c]].token IN
        token # Undefined => token.user \in {UserId(opts[c]), Undefined}

\* What the selection strategy picks from the two accounts, looked at together
\* and without a cache; the subscriber's account cannot be looked at without a
\* service token.
Selected(c) ==
  LET In(t) == IF t # Undefined /\ opts[c].name \in remote[t] THEN t ELSE Undefined
  IN Select(opts[c].strategy, In(service[c]), In(Provider))

\* As long as no destination is created or deleted, a call that returns gives
\* exactly the destination the strategy picks from both accounts: neither the
\* order of the two searches nor a hit in the cache shows.  A strategy of the
\* application's own is given one account at a time and the second answer
\* replaces the first: it may end up with nothing, but never with another
\* destination than it would have picked.
ResultIsSelected ==
  \A c \in Calls : changes = 0 /\ pc[c] = "done" =>
    IF result[c] = Null
      THEN opts[c].strategy = "custom" \/ Selected(c) = Undefined
      ELSE /\ dest[result[c]].account = Selected(c)
           /\ dest[result[c]].name = opts[c].name

\* A destination that forwards tokens leaves a call with the token of that
\* very call, also when it comes from the cache with the token of another one.
ForwardsOwnToken ==
  [][ \A c \in Calls : pc[c] # "done" /\ pc'[c] = "done" /\ result'[c] # Null =>
        LET d == dest'[result'[c]] IN
          Configured(d).forward /\ opts[c].jwt # Undefined
            => d.token = ForwardedToken(opts[c].jwt) ]_vars

\* A destination whose authentication needs an OAuth flow is returned only with
\* the answer of that flow, be it a token or the destination service's error: no
\* call gets hold of an object whose flow another call has not finished, and no
\* order of the flows leaves one out.
ReturnedAfterFlow ==
  \A c \in Calls : pc[c] = "done" /\ result[c] # Null =>
    LET d == dest[result[c]] IN
      ~Configured(d).forward /\ Configured(d).auth \in {"user", "client", "refresh"}
        => d.token # Undefined

\* An error that stands in place of a token, with its `expires_in' of '0', does
\* not stay in the cache: whoever cached it, no later second finds it there.
FailureIsNotKept ==
  \A k \in DOMAIN cache :
    LET token == dest[cache[k].entry].token IN
      token # Undefined /\ token.error /\ token.expiresIn = 0
        => cache[k].expires \in Nat /\ cache[k].expires <= now

\* What `expiresIn' is documented to be, read where it matters: a cache entry
\* is gone once the token in it has expired.
EntryExpiresWithToken ==
  \A k \in DOMAIN cache :
    LET token == dest[cache[k].entry].token IN
      token # Undefined /\ ~token.error /\ ~IsExpired(cache[k], now) => now <= token.exp

-----------------------------------------------------------------------------
(* The inductive invariant behind AccountIsolation and UserIsolation       *)

\* The options are used the way their documentation asks for.
Documented(o) == o.jwt # Undefined => o.iss = Undefined

DocumentedOptions == \A o \in OptionSets : Documented(o)

KeyOf(c) == GetDestinationCacheKey(c, origin[c])

\* The object a call works on is its own and stems from the account searched.
Built(c) ==
  /\ found[c] = c
  /\ origin[c] \in {"subscriber", "provider"}
  /\ origin[c] = "subscriber" => service[c] # Undefined
  /\ dest[c] # Undefined
  /\ dest[c].account = Account(c, origin[c])
  /\ dest[c].name = opts[c].name
  /\ dest[c].token # Undefined => dest[c].token.user \in {UserId(opts[c]), Undefined}

\* The object a call found in the cache was put there by a call that had the
\* same key and has returned, so that nobody rebuilds it.
Shared(c) ==
  /\ found[c] \in Calls
  /\ pc[found[c]] = "done"
  /\ result[found[c]] = found[c]
  /\ dest[found[c]] # Undefined
  /\ KeyOf(found[c]) = KeyOf(c)
  /\ KeyOf(c) # Undefined

\* A call returned its own object, or one that belongs to its key.
Returned(c) ==
  /\ result[c] \in Calls
  /\ pc[result[c]] = "done"
  /\ result[result[c]] = result[c]
  /\ dest[result[c]] # Undefined
  /\ result[c] # c => KeyOf(result[c]) = KeyOf(c) /\ KeyOf(c) # Undefined

CallInv(c) ==
  /\ pc[c] # "idle" => opts[c] \in Options /\ Documented(opts[c])
  /\ pc[c] \in {"exchange", "userFlow"} => opts[c].jwt # Undefined
  /\ pc[c] \notin {"idle", "exchange", "tokens", "failed"} =>
       service[c] \in {TenantForServiceToken(opts[c]), Undefined}
  /\ pc[c] \in {"subscriber", "subscriberMiss"} => service[c] # Undefined
  /\ pc[c] \in {"userFlow", "clientFlow", "refreshFlow", "finish"} => Built(c)
  /\ pc[c] = "found" => Built(c) \/ (found[c] # c /\ Shared(c))
  /\ pc[c] = "done" /\ result[c] # Null => Returned(c)

EntryInv(k) ==
  LET c == cache[k].entry IN pc[c] = "done" /\ result[c] = c /\ KeyOf(c) = k

IInv ==
  /\ TypeOK
  /\ \A c \in Calls : CallInv(c)
  /\ \A k \in DOMAIN cache : EntryInv(k)
  /\ AccountIsolation
  /\ UserIsolation

-----------------------------------------------------------------------------
(* What makes a returned object the right one, on top of IInv              *)

HasAnswer(d) ==
  ~Configured(d).forward /\ Configured(d).auth \in {"user", "client", "refresh"}
    => d.token # Undefined

\* A call finishes its object with the answers it needs, and an object that was
\* returned and cached stays one of the account that its call searched.
ObjectInv(c) ==
  /\ pc[c] \in {"userFlow", "clientFlow", "refreshFlow"} => ~Configured(dest[c]).forward
  /\ pc[c] = "finish" =>
       /\ HasAnswer(dest[c])
       /\ Configured(dest[c]).forward /\ opts[c].jwt # Undefined
            => dest[c].token = ForwardedToken(opts[c].jwt)
  /\ pc[c] = "done" /\ result[c] = c =>
       /\ origin[c] \in {"subscriber", "provider"}
       /\ dest[c].account = Account(c, origin[c])
       /\ dest[c].name = opts[c].name
       /\ HasAnswer(dest[c])

Searched == {"found", "userFlow", "clientFlow", "refreshFlow", "finish"}

\* While no account changes: the provider is searched only when the strategy
\* needs it, and whatever is found is what the strategy picks.
SearchInv(c) ==
  /\ dest[c] # Undefined => dest[c].name \in remote[dest[c].account]
  /\ pc[c] \in {"subscriber", "subscriberMiss"} => opts[c].strategy # "alwaysProvider"
  /\ pc[c] \in {"provider", "providerMiss"} =>
       /\ opts[c].strategy # "alwaysSubscriber"
       /\ opts[c].strategy = "subscriberFirst" /\ service[c] # Undefined
            => opts[c].name \notin remote[service[c]]
  /\ pc[c] \in Searched =>
       origin[c] \in {"subscriber", "provider"} /\ Account(c, origin[c]) = Selected(c)
  /\ pc[c] = "done" =>
       IF result[c] = Null
         THEN opts[c].strategy = "custom" \/ Selected(c) = Undefined
         ELSE dest[result[c]].account = Selected(c) /\ dest[result[c]].name = opts[c].name

ResultInv ==
  /\ IInv
  /\ \A c \in Calls : ObjectInv(c)
  /\ changes = 0 => \A c \in Calls : SearchInv(c)
=============================================================================
