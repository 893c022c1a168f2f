---------------------- MODULE DestinationRetrievalProofs ----------------------
(***************************************************************************)
(* The destination cache keeps accounts and users apart for any number of  *)
(* concurrent calls, accounts, users and destinations, provided that calls *)
(* do not pass `iss' together with a JWT.                                  *)
(***************************************************************************)
EXTENDS DestinationRetrieval, CacheProofs

\* What belongs to call d does not change in a step.
Unchanged(d) ==
  /\ pc'[d] = pc[d] /\ opts'[d] = opts[d] /\ service'[d] = service[d]
  /\ origin'[d] = origin[d] /\ found'[d] = found[d] /\ dest'[d] = dest[d]
  /\ result'[d] = result[d]

LocalStep(c) == \A d \in Calls \ {c} : Unchanged(d)

-----------------------------------------------------------------------------
(* Frame lemmas                                                            *)

\* The key, the account and the token's tenant of a call depend on that call only.
LEMMA OwnKey ==
  ASSUME NEW d \in Calls, Unchanged(d)
  PROVE  /\ KeyOf(d)' = KeyOf(d)
         /\ Account(d, origin[d])' = Account(d, origin[d])
         /\ UserId(opts[d])' = UserId(opts[d])
         /\ TenantForServiceToken(opts[d])' = TenantForServiceToken(opts[d])
         /\ Documented(opts[d])' = Documented(opts[d])
         /\ IsolationStrategy(opts[d])' = IsolationStrategy(opts[d])
BY DEF Unchanged, KeyOf, GetDestinationCacheKey, IsolationStrategy, UserId, Account,
       TenantForServiceToken, Documented, Or

\* A step of one call leaves what is known about the other calls true.
LEMMA OthersKeepCallInv ==
  ASSUME IInv, NEW c \in Calls, pc[c] # "done", LocalStep(c), NEW d \in Calls, d # c
  PROVE  CallInv(d)'
<1>1. Unchanged(d) /\ CallInv(d)
  BY DEF LocalStep, IInv
<1>2. Built(d) => Built(d)'
  BY <1>1, OwnKey DEF Built, Unchanged
<1>3. ASSUME Shared(d)
      PROVE  Shared(d)'
  <2>1. found[d] \in Calls /\ found[d] # c
    BY <1>3 DEF Shared
  <2>2. Unchanged(found[d])
    BY <2>1 DEF LocalStep
  <2>3. KeyOf(found[d])' = KeyOf(found[d]) /\ KeyOf(d)' = KeyOf(d)
    <3>1. found'[d] = found[d]
      BY <1>1 DEF Unchanged
    <3> QED
      BY <1>1, <2>1, <2>2, <3>1, OwnKey DEF KeyOf
  <2> QED
    BY <1>1, <1>3, <2>1, <2>2, <2>3 DEF Shared, Unchanged
<1>4. ASSUME Returned(d)
      PROVE  Returned(d)'
  <2>1. PICK e \in Calls : e = result[d] /\ e # c
    BY <1>4 DEF Returned
  <2>2. Unchanged(e) /\ result'[d] = e
    BY <1>1, <2>1 DEF LocalStep, Unchanged
  <2>3. KeyOf(e)' = KeyOf(e) /\ KeyOf(d)' = KeyOf(d)
    BY <1>1, <2>2, OwnKey
  <2> QED
    BY <1>4, <2>1, <2>2, <2>3 DEF Returned, Unchanged, KeyOf
<1> QED
  BY <1>1, <1>2, <1>3, <1>4, OwnKey DEF CallInv, Unchanged

\* What another call has returned stays with its user.
LEMMA OthersKeepTheirToken ==
  ASSUME IInv, NEW c \in Calls, pc[c] # "done", LocalStep(c), NEW d \in Calls, d # c
  PROVE  pc'[d] = "done" /\ result'[d] # Null /\ IsolationStrategy(opts[d])' = "tenant-user"
           => LET token == dest'[result'[d]].token IN
                token # Undefined => token.user \in {UserId(opts[d])', Undefined}
<1>1. Unchanged(d)
  BY DEF LocalStep
<1> SUFFICES ASSUME pc[d] = "done", result[d] # Null, IsolationStrategy(opts[d]) = "tenant-user"
             PROVE  LET token == dest'[result[d]].token IN
                      token # Undefined => token.user \in {UserId(opts[d]), Undefined}
  BY <1>1, OwnKey DEF Unchanged
<1>2. Returned(d)
  BY DEF IInv, CallInv
<1>3. dest'[result[d]] = dest[result[d]]
  BY <1>2 DEF Returned, LocalStep, Unchanged
<1> QED
  BY <1>3 DEF IInv, UserIsolation

\* A step of a call that leaves the cache alone and does not return an object:
\* entries refer to objects of calls that have returned, which the step does
\* not touch.
LEMMA LocalStepPreserves ==
  ASSUME IInv, NEW c \in Calls, pc[c] # "done", LocalStep(c), cache' = cache,
         TypeOK', CallInv(c)', pc'[c] = "done" => result'[c] = Null
  PROVE  IInv'
<1>1. \A d \in Calls : CallInv(d)'
  BY OthersKeepCallInv
<1>2. ASSUME NEW k \in DOMAIN cache
      PROVE  /\ EntryInv(k)'
             /\ cache[k].entry \in Calls
             /\ dest'[cache[k].entry] = dest[cache[k].entry]
  <2> DEFINE e == cache[k].entry
  <2>1. e \in Calls /\ EntryInv(k)
    BY DEF IInv, TypeOK, CacheEntry
  <2>2. Unchanged(e)
    BY <2>1 DEF EntryInv, LocalStep
  <2>3. KeyOf(e)' = KeyOf(e)
    BY <2>1, <2>2, OwnKey
  <2> QED
    BY <2>1, <2>2, <2>3 DEF EntryInv, Unchanged, KeyOf
<1>3. (\A k \in DOMAIN cache : EntryInv(k))'
  BY <1>2
<1>4. AccountIsolation'
  BY <1>2 DEF AccountIsolation, IInv
<1>5. UserIsolation'
  BY OthersKeepTheirToken DEF UserIsolation
<1> QED
  BY <1>1, <1>3, <1>4, <1>5 DEF IInv

\* The tenant a cached entry of a call is filed under.
LEMMA KeyType ==
  ASSUME TypeOK, NEW c \in Calls, opts[c] \in Options,
         NEW from \in {"subscriber", "provider"},
         from = "subscriber" => service[c] # Undefined,
         GetDestinationCacheKey(c, from) # Undefined
  PROVE  LET key == GetDestinationCacheKey(c, from) IN
           /\ key \in Keys
           /\ key.tenant = Account(c, from)
           /\ key.name = opts[c].name
           /\ key.user # Undefined => key.user = UserId(opts[c])
<1>1. UserId(opts[c]) \in Users \cup {Undefined}
  BY DEF UserId, Options, Jwt
<1>2. service[c] \in Tenants \cup {Undefined} /\ Provider \in Tenants /\ opts[c].name \in Names
  BY DestinationAssumption DEF TypeOK, Options
<1> QED
  BY <1>1, <1>2 DEF GetDestinationCacheKey, Account, Keys

-----------------------------------------------------------------------------
(* Initial states and steps                                                *)

\* Nothing is cached, no call has begun.
LEMMA InitIInv == Init => IInv
BY DestinationAssumption
DEF Init, IInv, TypeOK, CallInv, EntryInv, AccountIsolation, UserIsolation, EmptyCache, Labels

\* A new call holds only its subscriber's account, or is rejected.
LEMMA CallPreserves ==
  ASSUME IInv, DocumentedOptions, NEW c \in Calls, NEW o \in OptionSets, Call(c, o)
  PROVE  IInv'
<1>1. o \in Options /\ Documented(o)
  BY DestinationAssumption DEF DocumentedOptions
<1>2. TypeOK'
  BY <1>1 DEF Call, Goto, Environment, IInv, TypeOK, Labels
<1>3. /\ pc'[c] \in {"exchange", "tokens"} /\ opts'[c] = o
      /\ pc'[c] = "exchange" => o.jwt # Undefined
  BY DEF Call, Goto, ShouldExchangeToken, IInv, TypeOK
<1>4. CallInv(c)'
  BY <1>1, <1>3 DEF CallInv
<1>5. LocalStep(c) /\ pc[c] # "done" /\ cache' = cache
  BY DEF Call, Goto, LocalStep, Unchanged, IInv, TypeOK
<1> QED
  BY <1>2, <1>3, <1>4, <1>5, LocalStepPreserves

\* The exchange replaces the token of a user by another one of that user.
LEMMA ExchangePreserves ==
  ASSUME IInv, NEW c \in Calls, ExchangeToken(c)
  PROVE  IInv'
<1> DEFINE j == [opts[c].jwt EXCEPT !.xsuaa = TRUE]
           o == [opts[c] EXCEPT !.jwt = j]
<1>1. /\ opts[c] \in Options /\ Documented(opts[c])
      /\ opts[c].jwt \in Jwt /\ opts[c].jwt # Undefined /\ opts[c].jwt.tenant # Undefined
  BY DEF ExchangeToken, IInv, CallInv, Options
<1>2. j \in Jwt
  BY <1>1 DEF Jwt
<1>3. o \in Options /\ o.jwt = j /\ o.iss = opts[c].iss
  BY <1>1, <1>2 DEF Options
<1>4. opts' = [opts EXCEPT ![c] = o] /\ opts \in [Calls -> Options \cup {Undefined}]
  BY DEF ExchangeToken, IInv, TypeOK
<1>5. pc' = [pc EXCEPT ![c] = "tokens"]
  BY DEF ExchangeToken, Goto
<1>6. TypeOK'
  BY <1>3, <1>4, <1>5 DEF ExchangeToken, Environment, IInv, TypeOK, Labels
<1>7. CallInv(c)'
  <2>1. pc'[c] = "tokens" /\ opts'[c] = o
    BY <1>4, <1>5 DEF IInv, TypeOK
  <2>2. Documented(o)
    BY <1>1, <1>3 DEF Documented
  <2> QED
    BY <1>3, <2>1, <2>2 DEF CallInv
<1>8. LocalStep(c) /\ pc[c] # "done" /\ pc'[c] # "done" /\ cache' = cache
  BY <1>4, <1>5 DEF ExchangeToken, LocalStep, Unchanged, IInv, TypeOK
<1> QED
  BY <1>6, <1>7, <1>8, LocalStepPreserves

\* A token is of the account it was requested for.
LEMMA GetTokensPreserves ==
  ASSUME IInv, NEW c \in Calls, NEW serviceJwt \in Tenants \cup {Undefined},
         GetTokens(c, serviceJwt)
  PROVE  IInv'
<1>1. /\ opts[c] \in Options /\ Documented(opts[c])
      /\ serviceJwt \in {TenantForServiceToken(opts[c]), Undefined}
  BY DEF GetTokens, IInv, CallInv
<1>2. PICK label \in {"subscriber", "provider", "done"} :
        /\ pc' = [pc EXCEPT ![c] = label]
        /\ label = "subscriber" => serviceJwt # Undefined
        /\ label = "done" => result' = [result EXCEPT ![c] = Null]
  BY DEF GetTokens, Goto, IsSubscriberNeeded
<1>3. /\ result' \in [Calls -> Calls \cup {Undefined, Null}]
      /\ \A d \in Calls \ {c} : result'[d] = result[d]
      /\ pc'[c] = "done" => result'[c] = Null
  BY <1>2 DEF GetTokens, IInv, TypeOK
<1>4. TypeOK'
  BY <1>2, <1>3 DEF GetTokens, Environment, IInv, TypeOK, Labels
<1>5. CallInv(c)'
  <2>1. pc'[c] = label /\ opts'[c] = opts[c] /\ service'[c] = serviceJwt
    BY <1>2 DEF GetTokens, IInv, TypeOK
  <2>2. TenantForServiceToken(opts[c])' = TenantForServiceToken(opts[c])
    BY <2>1 DEF TenantForServiceToken, Or
  <2> QED
    BY <1>1, <1>2, <1>3, <2>1, <2>2 DEF CallInv, Documented
<1>6. LocalStep(c) /\ pc[c] # "done" /\ cache' = cache
  BY <1>2, <1>3 DEF GetTokens, LocalStep, Unchanged, IInv, TypeOK
<1> QED
  BY <1>3, <1>4, <1>5, <1>6, LocalStepPreserves

\* What a hit returns was filed under the caller's own key.
LEMMA SearchCachePreserves ==
  ASSUME IInv, NEW c \in Calls, NEW from \in {"subscriber", "provider"},
         SearchCache(c, from)
  PROVE  IInv'
<1> DEFINE key == GetDestinationCacheKey(c, from)
<1>1. key # Undefined /\ key \in DOMAIN cache /\ CachedDestination(c, from) = cache[key].entry
  BY GetReturnsEntry DEF SearchCache, CachedDestination, Get
<1>2. PICK e \in Calls : /\ e = cache[key].entry
                        /\ pc[e] = "done" /\ result[e] = e
                        /\ KeyOf(e) = key /\ dest[e] # Undefined
  BY <1>1 DEF IInv, TypeOK, CacheEntry, EntryInv, AccountIsolation
<1>3. PICK label \in {"provider", "found"} : pc' = [pc EXCEPT ![c] = label]
  BY DEF SearchCache, AfterSearch, Goto
<1>4. /\ found' = [found EXCEPT ![c] = e] /\ origin' = [origin EXCEPT ![c] = from]
      /\ UNCHANGED <<now, remote, changes, cache, opts, service, dest>>
      /\ pc[c] = from
  BY <1>1, <1>2 DEF SearchCache, Environment
<1>5. result' = result
  BY DEF SearchCache, AfterSearch
<1>6. TypeOK'
  BY <1>2, <1>3, <1>4, <1>5 DEF IInv, TypeOK, Labels
<1>7. LocalStep(c) /\ pc[c] # "done" /\ pc'[c] # "done" /\ cache' = cache /\ e # c
  BY <1>2, <1>3, <1>4, <1>5 DEF LocalStep, Unchanged, IInv, TypeOK
<1>8. CallInv(c)'
  <2>1. pc'[c] = label /\ found'[c] = e /\ origin'[c] = from
    BY <1>3, <1>4 DEF IInv, TypeOK
  <2>2. KeyOf(c)' = key
    BY <1>4, <2>1 DEF KeyOf, GetDestinationCacheKey, UserId, IsolationStrategy
  <2>3. KeyOf(e)' = KeyOf(e) /\ pc'[e] = "done" /\ result'[e] = e /\ dest'[e] = dest[e]
    <3>1. Unchanged(e)
      BY <1>2, <1>7 DEF LocalStep
    <3> QED
      BY <1>2, <3>1, OwnKey DEF Unchanged
  <2>4. KeyOf(found[c])' = KeyOf(e)'
    BY <2>1 DEF KeyOf, GetDestinationCacheKey, UserId, IsolationStrategy
  <2>5. Shared(c)'
    BY <1>1, <1>2, <2>1, <2>2, <2>3, <2>4 DEF Shared
  <2> QED
    BY <1>4, <1>7, <2>1, <2>5
    DEF CallInv, IInv, TenantForServiceToken, Documented, Or
<1> QED
  BY <1>6, <1>7, <1>8, LocalStepPreserves

\* A miss changes nothing but where the call stands.
LEMMA MissCachePreserves ==
  ASSUME IInv, NEW c \in Calls, NEW from \in {"subscriber", "provider"},
         MissCache(c, from)
  PROVE  IInv'
<1>1. /\ pc[c] = from /\ pc' = [pc EXCEPT ![c] = Missed(from)]
      /\ UNCHANGED <<now, remote, changes, cache, opts, service, origin, found, dest, result>>
  BY DEF MissCache, Goto, Environment
<1>2. TypeOK'
  BY <1>1 DEF IInv, TypeOK, Labels, Missed
<1>3. LocalStep(c) /\ pc[c] # "done" /\ pc'[c] = Missed(from)
  BY <1>1 DEF LocalStep, Unchanged, IInv, TypeOK
<1>4. CallInv(c)'
  BY <1>1, <1>3 DEF CallInv, Missed, IInv, TenantForServiceToken, Documented, Or
<1> QED
  BY <1>1, <1>2, <1>3, <1>4, LocalStepPreserves DEF Missed

\* An object fetched for an account is new, and of that account.
LEMMA SearchServicePreserves ==
  ASSUME IInv, NEW c \in Calls, NEW from \in {"subscriber", "provider"},
         SearchService(c, from)
  PROVE  IInv'
<1> DEFINE d == NewDestination(Account(c, from), opts[c].name, Undefined)
<1>1. /\ opts[c] \in Options /\ pc[c] \in {from, Missed(from)}
      /\ from = "subscriber" => service[c] # Undefined
  BY DEF SearchService, AsksService, Missed, IInv, CallInv
<1>2. Account(c, from) \in Tenants /\ opts[c].name \in Names
  BY <1>1, DestinationAssumption DEF Account, IInv, TypeOK, Options
<1>3. d \in Destination /\ d # Undefined
  <2>1. d \in Destination
    BY <1>2 DEF NewDestination, Destination
  <2> QED
    BY <2>1, DestinationAssumption
<1>4. PICK isFound \in BOOLEAN :
        /\ found' = [found EXCEPT ![c] = IF isFound THEN c ELSE Undefined]
        /\ origin' = [origin EXCEPT ![c] = IF isFound THEN from ELSE Undefined]
        /\ dest' = [dest EXCEPT ![c] = IF isFound THEN d ELSE Undefined]
        /\ AfterSearch(c, from, isFound)
  BY DEF SearchService
<1>5. PICK label \in {"provider", "found", "done"} :
        /\ pc' = [pc EXCEPT ![c] = label]
        /\ label = "found" => isFound
        /\ result' \in [Calls -> Calls \cup {Undefined, Null}]
        /\ \A o \in Calls \ {c} : result'[o] = result[o]
        /\ label = "done" => result'[c] = Null
  BY <1>4 DEF AfterSearch, Goto, IInv, TypeOK
<1>6. UNCHANGED <<now, remote, changes, cache, opts, service>>
  BY DEF SearchService, Environment
<1>7. TypeOK'
  BY <1>3, <1>4, <1>5, <1>6 DEF IInv, TypeOK, Labels
<1>8. /\ LocalStep(c) /\ pc[c] # "done" /\ cache' = cache
      /\ pc'[c] = "done" => result'[c] = Null
  BY <1>1, <1>4, <1>5, <1>6 DEF LocalStep, Unchanged, Missed, IInv, TypeOK
<1>9. CallInv(c)'
  <2>1. pc'[c] = label /\ service'[c] = service[c] /\ opts'[c] = opts[c]
    BY <1>5, <1>6 DEF IInv, TypeOK
  <2>2. label = "found" => Built(c)'
    <3> SUFFICES ASSUME label = "found"
                 PROVE  Built(c)'
      OBVIOUS
    <3>1. found'[c] = c /\ origin'[c] = from /\ dest'[c] = d
      BY <1>4, <1>5 DEF IInv, TypeOK
    <3> QED
      BY <1>1, <1>3, <2>1, <3>1 DEF Built, Account, NewDestination
  <2> QED
    BY <1>1, <1>8, <2>1, <2>2 DEF CallInv, IInv, TenantForServiceToken, Documented, Or, Missed
<1> QED
  BY <1>7, <1>8, <1>9, LocalStepPreserves

\* What an authentication flow may follow on.
LEMMA FlowLabels ==
  ASSUME NEW c, NEW d
  PROVE  /\ LaterFlow(c, d) \in {"clientFlow", "refreshFlow", "finish", "failed"}
         /\ FirstFlow(c, d) \in {"userFlow", "clientFlow", "refreshFlow", "finish", "failed"}
         /\ FirstFlow(c, d) = "userFlow" => opts[c].jwt # Undefined
BY DEF LaterFlow, FirstFlow, CanExchangeUserToken

\* Forwarding a token changes the token only, to one of the caller's user.
LEMMA ForwardedDestination ==
  ASSUME NEW d \in Destination, NEW o \in Options
  PROVE  LET f == SetForwardedAuthTokenIfNeeded(d, o.jwt) IN
           /\ f \in Destination
           /\ f.account = d.account /\ f.name = d.name
           /\ f.token = d.token \/ (f.token # Undefined /\ f.token.user = UserId(o))
<1>1. ASSUME o.jwt # Undefined
      PROVE  /\ ForwardedToken(o.jwt) \in AuthToken
             /\ ForwardedToken(o.jwt) # Undefined
             /\ ForwardedToken(o.jwt).user = UserId(o)
  <2>1. ForwardedToken(o.jwt) \in AuthToken /\ ForwardedToken(o.jwt).user = UserId(o)
    BY <1>1 DEF ForwardedToken, AuthToken, Options, Jwt, UserId
  <2> QED
    BY <2>1, DestinationAssumption
<1> QED
  BY <1>1 DEF SetForwardedAuthTokenIfNeeded, Destination

\* A call that found its own destination goes on to its authentication flow.
LEMMA UseOwnPreserves ==
  ASSUME IInv, NEW c \in Calls, UseFound(c), found[c] = c
  PROVE  IInv'
<1> DEFINE d == SetForwardedAuthTokenIfNeeded(dest[c], opts[c].jwt)
<1>1. Built(c) /\ opts[c] \in Options /\ pc[c] = "found"
  BY DEF UseFound, IInv, CallInv
<1>2. dest[c] \in Destination
  BY <1>1 DEF Built, IInv, TypeOK
<1>3. /\ d \in Destination /\ d # Undefined
      /\ d.account = dest[c].account /\ d.name = dest[c].name
      /\ d.token = dest[c].token \/ (d.token # Undefined /\ d.token.user = UserId(opts[c]))
  BY <1>1, <1>2, ForwardedDestination, DestinationAssumption
<1>4. PICK f \in Destination : f = d
  BY <1>3
<1>5. PICK label \in {"userFlow", "clientFlow", "refreshFlow", "finish", "failed"} :
        /\ pc' = [pc EXCEPT ![c] = label]
        /\ label = "userFlow" => opts[c].jwt # Undefined
  BY FlowLabels DEF UseFound, Goto
<1>6. /\ dest' = [dest EXCEPT ![c] = f]
      /\ UNCHANGED <<now, remote, changes, cache, opts, service, origin, found, result>>
  BY <1>4 DEF UseFound, Environment
<1>7. TypeOK'
  BY <1>4, <1>5, <1>6 DEF IInv, TypeOK, Labels
<1>8. LocalStep(c) /\ pc[c] # "done" /\ pc'[c] # "done" /\ cache' = cache
  BY <1>1, <1>5, <1>6 DEF LocalStep, Unchanged, IInv, TypeOK
<1>9. CallInv(c)'
  <2>1. /\ pc'[c] = label /\ service'[c] = service[c] /\ opts'[c] = opts[c]
        /\ dest'[c] = f /\ origin'[c] = origin[c] /\ found'[c] = c
    BY <1>5, <1>6 DEF IInv, TypeOK
  <2>2. Built(c)'
    BY <1>1, <1>3, <1>4, <2>1 DEF Built, Account, UserId
  <2> QED
    BY <1>1, <1>5, <2>1, <2>2 DEF CallInv, IInv, TenantForServiceToken, Documented, Or
<1> QED
  BY <1>7, <1>8, <1>9, LocalStepPreserves

\* Under `tenant-user' calls with the same key have the same user.
LEMMA SameKeySameUser ==
  ASSUME NEW c, NEW d, opts[d] \in Options, KeyOf(c) = KeyOf(d), KeyOf(d) # Undefined,
         IsolationStrategy(opts[c]) = "tenant-user"
  PROVE  UserId(opts[c]) = UserId(opts[d]) /\ IsolationStrategy(opts[d]) = "tenant-user"
<1>1. IsolationStrategy(opts[d]) \in {"tenant", "tenant-user"}
  BY DEF IsolationStrategy, Options
<1>2. KeyOf(c).user # Undefined /\ KeyOf(c).user = UserId(opts[c])
  BY DEF KeyOf, GetDestinationCacheKey
<1>3. IsolationStrategy(opts[d]) = "tenant" => KeyOf(d).user = Undefined
  BY DEF KeyOf, GetDestinationCacheKey
<1>4. IsolationStrategy(opts[d]) = "tenant-user" => KeyOf(d).user = UserId(opts[d])
  BY DEF KeyOf, GetDestinationCacheKey
<1> QED
  BY <1>1, <1>2, <1>3, <1>4

\* A call that found the object of another call writes its token into it; the
\* key under which the object is cached names the same user.
LEMMA UseSharedPreserves ==
  ASSUME IInv, NEW c \in Calls, UseFound(c), found[c] # c
  PROVE  IInv'
<1>1. Shared(c) /\ opts[c] \in Options /\ pc[c] = "found" /\ CallInv(c)
  BY DEF UseFound, IInv, CallInv, Built
<1>2. PICK e \in Calls : /\ e = found[c] /\ e # c
                        /\ pc[e] = "done" /\ result[e] = e /\ dest[e] # Undefined
                        /\ KeyOf(e) = KeyOf(c) /\ KeyOf(c) # Undefined
  BY <1>1 DEF Shared
<1>3. dest[e] \in Destination
  BY <1>2 DEF IInv, TypeOK
<1>4. PICK f \in Destination :
        /\ f = SetForwardedAuthTokenIfNeeded(dest[e], opts[c].jwt)
        /\ f # Undefined /\ f.account = dest[e].account /\ f.name = dest[e].name
        /\ f.token = dest[e].token \/ (f.token # Undefined /\ f.token.user = UserId(opts[c]))
  BY <1>1, <1>3, ForwardedDestination, DestinationAssumption
<1>5. /\ dest' = [dest EXCEPT ![e] = f]
      /\ pc' = [pc EXCEPT ![c] = "done"]
      /\ result' = [result EXCEPT ![c] = e]
      /\ UNCHANGED <<now, remote, changes, cache, opts, service, origin, found>>
  BY <1>2, <1>4 DEF UseFound, Goto, Environment
<1>6. TypeOK'
  BY <1>4, <1>5 DEF IInv, TypeOK, Labels
<1>7. ASSUME NEW x
      PROVE  KeyOf(x)' = KeyOf(x)
  BY <1>5 DEF KeyOf, GetDestinationCacheKey, IsolationStrategy, UserId
<1>8. ASSUME NEW x \in Calls
      PROVE  CallInv(x)'
  <2>1. CallInv(x)
    BY DEF IInv
  <2>2. CASE x = c
    <3>1. pc'[c] = "done" /\ result'[c] = e /\ pc'[e] = "done" /\ result'[e] = e
      BY <1>2, <1>5 DEF IInv, TypeOK
    <3>2. dest'[e] # Undefined
      BY <1>4, <1>5 DEF IInv, TypeOK
    <3>3. KeyOf(e)' = KeyOf(c)' /\ KeyOf(c)' # Undefined
      BY <1>2, <1>7
    <3>4. Returned(c)'
      BY <1>2, <3>1, <3>2, <3>3 DEF Returned, KeyOf
    <3> QED
      BY <1>1, <1>5, <2>2, <3>1, <3>4
      DEF CallInv, IInv, TypeOK, TenantForServiceToken, Documented, Or
  <2>3. CASE x # c
    <3>1. pc'[x] = pc[x] /\ result'[x] = result[x]
      BY <1>5, <2>3 DEF IInv, TypeOK
    <3>2. ASSUME pc[x] # "done", Built(x)
          PROVE  Built(x)'
      <4>1. dest'[x] = dest[x]
        BY <1>2, <1>5, <3>2 DEF IInv, TypeOK
      <4> QED
        BY <1>5, <3>2, <4>1 DEF Built, Account, UserId
    <3>3. ASSUME Shared(x)
          PROVE  Shared(x)'
      <4>1. found[x] # c
        BY <1>1, <3>3 DEF Shared
      <4>2. /\ pc'[found[x]] = "done" /\ dest'[found[x]] # Undefined
            /\ result'[found[x]] = found[x]
        BY <1>4, <1>5, <3>3, <4>1 DEF Shared, IInv, TypeOK
      <4>3. KeyOf(found[x])' = KeyOf(found[x])
        BY <1>5, <1>7 DEF KeyOf, GetDestinationCacheKey, IsolationStrategy, UserId
      <4> QED
        BY <1>5, <1>7, <3>3, <4>2, <4>3 DEF Shared
    <3>4. ASSUME Returned(x), pc[x] = "done"
          PROVE  Returned(x)'
      <4>1. PICK y \in Calls : y = result[x] /\ y # c
        BY <1>1, <3>4 DEF Returned
      <4>2. pc'[y] = "done" /\ result'[y] = y /\ dest'[y] # Undefined
        BY <1>4, <1>5, <3>4, <4>1 DEF Returned, IInv, TypeOK
      <4> QED
        BY <1>7, <3>1, <3>4, <4>1, <4>2 DEF Returned, KeyOf
    <3> QED
      BY <1>5, <2>1, <3>1, <3>2, <3>3, <3>4
      DEF CallInv, TenantForServiceToken, Documented, Or
  <2> QED
    BY <2>2, <2>3
<1>9. ASSUME NEW k \in DOMAIN cache
      PROVE  /\ EntryInv(k)'
             /\ dest'[cache[k].entry] # Undefined
             /\ dest'[cache[k].entry].account = k.tenant
             /\ dest'[cache[k].entry].name = k.name
  <2>1. PICK x \in Calls : x = cache[k].entry
    BY DEF IInv, TypeOK, CacheEntry
  <2>2. pc[x] = "done" /\ result[x] = x /\ KeyOf(x) = k
    BY <2>1 DEF IInv, EntryInv
  <2>3. EntryInv(k)'
    <3>1. x # c
      BY <1>1, <2>2
    <3>2. pc'[x] = "done" /\ result'[x] = x /\ cache'[k].entry = x
      BY <1>5, <2>1, <2>2, <3>1 DEF IInv, TypeOK
    <3> QED
      BY <1>7, <2>2, <3>2 DEF EntryInv
  <2>4. CASE x # e
    BY <1>5, <2>1, <2>3, <2>4 DEF IInv, TypeOK, AccountIsolation
  <2>5. CASE x = e
    <3>1. dest'[x] = f
      BY <1>5, <2>5 DEF IInv, TypeOK
    <3> QED
      BY <1>4, <2>1, <2>3, <2>5, <3>1 DEF IInv, AccountIsolation
  <2> QED
    BY <2>4, <2>5
<1>10. cache' = cache
  BY <1>5
<1>11. (\A k \in DOMAIN cache : EntryInv(k))' /\ AccountIsolation'
  BY <1>9, <1>10 DEF AccountIsolation
<1>12. UserIsolation'
  <2> SUFFICES ASSUME NEW x \in Calls, pc'[x] = "done", result'[x] # Null,
                      IsolationStrategy(opts[x]) = "tenant-user"
               PROVE  LET token == dest'[result'[x]].token IN
                        token # Undefined => token.user \in {UserId(opts[x]), Undefined}
    BY <1>5 DEF UserIsolation, IsolationStrategy, UserId
  <2>1. CASE result'[x] # e
    <3>1. x # c /\ pc[x] = "done" /\ result'[x] = result[x]
      BY <1>5, <2>1 DEF IInv, TypeOK
    <3>2. dest'[result[x]] = dest[result[x]]
      BY <1>5, <2>1, <3>1 DEF IInv, TypeOK
    <3> QED
      BY <3>1, <3>2 DEF IInv, UserIsolation
  <2>2. CASE result'[x] = e
    <3>1. KeyOf(x) = KeyOf(c) /\ KeyOf(e) = KeyOf(c)
      <4>1. CASE x \in {c, e}
        BY <1>2, <4>1
      <4>2. CASE x \notin {c, e}
        <5>1. pc[x] = "done" /\ result[x] = e /\ Returned(x)
          BY <1>2, <1>5, <2>2, <4>2 DEF IInv, TypeOK, CallInv
        <5> QED
          BY <1>2, <4>2, <5>1 DEF Returned
      <4> QED
        BY <4>1, <4>2
    <3>2. /\ UserId(opts[x]) = UserId(opts[c]) /\ UserId(opts[x]) = UserId(opts[e])
          /\ IsolationStrategy(opts[e]) = "tenant-user"
      <4>1. opts[c] \in Options /\ opts[e] \in Options
        BY <1>1, <1>2 DEF IInv, CallInv
      <4> QED
        BY <1>2, <3>1, <4>1, SameKeySameUser
    <3>3. dest[e].token # Undefined => dest[e].token.user \in {UserId(opts[e]), Undefined}
      BY <1>2, <3>2, DestinationAssumption DEF IInv, UserIsolation
    <3>4. dest'[e] = f
      BY <1>5 DEF IInv, TypeOK
    <3> QED
      BY <1>4, <2>2, <3>2, <3>3, <3>4
  <2> QED
    BY <2>1, <2>2
<1> QED
  BY <1>6, <1>8, <1>11, <1>12 DEF IInv

\* Every flow asks the account in which the destination was found: a user of
\* the provider's account has found it there.
LEMMA FlowAccountIsSearched ==
  ASSUME IInv, NEW c \in Calls, pc[c] \in {"userFlow", "clientFlow", "refreshFlow"}
  PROVE  FlowAccount(c) = Account(c, origin[c])
<1>1. Built(c) /\ Documented(opts[c]) /\ opts[c] \in Options
      /\ service[c] \in {TenantForServiceToken(opts[c]), Undefined}
  BY DEF IInv, CallInv
<1>2. CASE pc[c] = "userFlow"
  <2>1. opts[c].jwt # Undefined /\ opts[c].iss = Undefined
    BY <1>1, <1>2 DEF IInv, CallInv, Documented
  <2> QED
    BY <1>1, <2>1 DEF FlowAccount, Account, Built, TenantForServiceToken, Or
<1>3. CASE pc[c] # "userFlow"
  BY <1>3 DEF FlowAccount
<1> QED
  BY <1>2, <1>3

\* Whatever a flow is answered, a token or an error, is about the caller.
LEMMA FlowAnswerType ==
  ASSUME IInv, NEW c \in Calls, opts[c] \in Options, NEW account,
         NEW token \in FlowAnswers(c, account)
  PROVE  /\ token \in AuthToken \cup {Undefined}
         /\ token # Undefined => token.user \in {UserId(opts[c]), Undefined}
         /\ token = Undefined =>
              Config[account][opts[c].name].auth \notin {"user", "client", "refresh"}
<1>1. PICK user \in Users \cup {Undefined} :
        /\ user = (IF pc[c] = "clientFlow" THEN Undefined ELSE UserId(opts[c]))
        /\ user \in {UserId(opts[c]), Undefined}
  BY DEF UserId, Options, Jwt
<1>2. now \in Nat /\ now + 0 = now /\ now + Lifetime \in Nat /\ Lifetime \in Nat
  BY DestinationAssumption DEF IInv, TypeOK
<1>3. CASE Config[account][opts[c].name].auth \in {"user", "client", "refresh"}
  <2>1. \/ token = [user |-> user, exp |-> now + Lifetime, expiresIn |-> Lifetime, error |-> FALSE]
        \/ token = [user |-> user, exp |-> now + 0, expiresIn |-> 0, error |-> TRUE]
        \/ token = [user |-> user, exp |-> now + 0, expiresIn |-> Undefined, error |-> TRUE]
    BY <1>1, <1>3 DEF FlowAnswers
  <2>2. token \in AuthToken /\ token.user = user
    <3>1. ASSUME NEW x \in Nat, NEW l \in Nat \cup {Undefined}, NEW failed \in BOOLEAN
          PROVE  [user |-> user, exp |-> x, expiresIn |-> l, error |-> failed] \in AuthToken
      BY DEF AuthToken
    <3>2. TRUE \in BOOLEAN /\ FALSE \in BOOLEAN /\ 0 \in Nat
      OBVIOUS
    <3>3. token \in AuthToken
      BY <1>2, <2>1, <3>1, <3>2, Zenon
    <3>4. token.user = user
      BY <2>1
    <3> QED
      BY <3>3, <3>4
  <2>3. token # Undefined
    BY <2>2, DestinationAssumption
  <2> QED
    BY <1>1, <2>2, <2>3
<1>4. CASE Config[account][opts[c].name].auth \notin {"user", "client", "refresh"}
  BY <1>4 DEF FlowAnswers
<1> QED
  BY <1>3, <1>4

\* A flow adds what it was answered to the object that the caller has found.
LEMMA FetchPreserves ==
  ASSUME IInv, NEW c \in Calls, FetchWithToken(c)
  PROVE  IInv'
<1>0. PICK token \in FlowAnswers(c, FlowAccount(c)) :
        LET n == NewDestination(FlowAccount(c), opts[c].name, token) IN
          /\ dest' = [dest EXCEPT ![c] = n]
          /\ Goto(c, IF pc[c] = "userFlow" THEN LaterFlow(c, n) ELSE "finish")
  BY DEF FetchWithToken
<1> DEFINE d == NewDestination(FlowAccount(c), opts[c].name, token)
<1>1. /\ pc[c] \in {"userFlow", "clientFlow", "refreshFlow"}
      /\ Built(c) /\ opts[c] \in Options
  BY DEF FetchWithToken, IInv, CallInv
<1>2. FlowAccount(c) = Account(c, origin[c]) /\ FlowAccount(c) \in Tenants
  <2>1. Account(c, origin[c]) \in Tenants
    BY <1>1, DestinationAssumption DEF Built, Account, IInv, TypeOK
  <2> QED
    BY <1>1, <2>1, FlowAccountIsSearched
<1>3. /\ token \in AuthToken \cup {Undefined}
      /\ token # Undefined => token.user \in {UserId(opts[c]), Undefined}
  BY <1>1, FlowAnswerType
<1>4. d \in Destination /\ d # Undefined
  <2>1. d \in Destination
    BY <1>1, <1>2, <1>3 DEF NewDestination, Destination, Options
  <2> QED
    BY <2>1, DestinationAssumption
<1>5. PICK label \in {"clientFlow", "refreshFlow", "finish", "failed"} :
        pc' = [pc EXCEPT ![c] = label]
  BY <1>0, FlowLabels DEF Goto
<1>6. /\ dest' = [dest EXCEPT ![c] = d]
      /\ UNCHANGED <<now, remote, changes, cache, opts, service, origin, found, result>>
  BY <1>0 DEF FetchWithToken, Environment
<1>7. TypeOK'
  BY <1>4, <1>5, <1>6 DEF IInv, TypeOK, Labels
<1>8. LocalStep(c) /\ pc[c] # "done" /\ pc'[c] # "done" /\ cache' = cache
  BY <1>1, <1>5, <1>6 DEF LocalStep, Unchanged, IInv, TypeOK
<1>9. CallInv(c)'
  <2>1. /\ pc'[c] = label /\ service'[c] = service[c] /\ opts'[c] = opts[c]
        /\ dest'[c] = d /\ origin'[c] = origin[c] /\ found'[c] = c
    BY <1>1, <1>5, <1>6 DEF IInv, TypeOK, Built
  <2>2. /\ d.account = Account(c, origin[c]) /\ d.name = opts[c].name /\ d.token = token
    BY <1>2 DEF NewDestination
  <2>3. Built(c)'
    BY <1>1, <1>3, <1>4, <2>1, <2>2 DEF Built, Account, UserId
  <2> QED
    BY <1>1, <2>1, <2>3 DEF CallInv, IInv, TenantForServiceToken, Documented, Or
<1> QED
  BY <1>7, <1>8, <1>9, LocalStepPreserves

\* Finish() is the only action that fills the cache, with a finished object and
\* under the key of the account the object stems from.
LEMMA FinishPreserves ==
  ASSUME IInv, NEW c \in Calls, NEW fetched \in BOOLEAN, Finish(c, fetched)
  PROVE  IInv'
<1> DEFINE d == [dest[c] EXCEPT !.certificate = fetched]
<1>1. pc[c] = "finish" /\ Built(c) /\ opts[c] \in Options /\ CallInv(c)
  BY DEF Finish, IInv, CallInv
<1>2. /\ d \in Destination /\ d # Undefined
      /\ d.account = dest[c].account /\ d.name = dest[c].name /\ d.token = dest[c].token
  <2>1. dest[c] \in Destination
    BY <1>1 DEF Built, IInv, TypeOK
  <2>2. d \in Destination
    BY <2>1 DEF Destination
  <2> QED
    BY <2>1, <2>2, DestinationAssumption DEF Destination
<1>3. /\ dest' = [dest EXCEPT ![c] = d]
      /\ pc' = [pc EXCEPT ![c] = "done"]
      /\ result' = [result EXCEPT ![c] = c]
      /\ UNCHANGED <<now, remote, changes, opts, service, origin, found>>
  BY DEF Finish, Goto, Environment
<1>4. LocalStep(c) /\ pc[c] # "done"
  BY <1>1, <1>3 DEF LocalStep, Unchanged, IInv, TypeOK
<1>5. KeyOf(c)' = KeyOf(c) /\ pc'[c] = "done" /\ result'[c] = c /\ dest'[c] = d
  BY <1>3 DEF KeyOf, GetDestinationCacheKey, IsolationStrategy, UserId, IInv, TypeOK
<1>6. \A x \in Calls : CallInv(x)'
  <2>1. Returned(c)'
    BY <1>2, <1>5 DEF Returned
  <2>2. CallInv(c)'
    BY <1>1, <1>3, <1>5, <2>1 DEF CallInv, TenantForServiceToken, Documented, Or
  <2> QED
    BY <1>4, <2>2, OthersKeepCallInv
<1>7. CacheItem(c).entry = c /\ CacheItem(c).expires \in Expiry
  <2>1. dest[c].token # Undefined => dest[c].token.expiresIn \in Nat \cup {Undefined}
    BY <1>1 DEF Built, IInv, TypeOK, Destination, AuthToken
  <2> QED
    BY <2>1 DEF CacheItem, Expiry, IInv, TypeOK
<1>8. ASSUME NEW k \in DOMAIN cache'
      PROVE  \/ k \in DOMAIN cache /\ cache'[k] = cache[k]
             \/ /\ k = KeyOf(c) /\ k # Undefined
                /\ cache'[k].entry = c /\ cache'[k] \in CacheEntry(Calls)
  <2>1. CASE cache' = cache
    BY <2>1
  <2>2. CASE cache' = Set(cache, KeyOf(c), CacheItem(c), Validity, now)
    <3>1. CASE KeyOf(c) = Undefined
      BY <2>2, <3>1 DEF Set
    <3>2. CASE KeyOf(c) # Undefined
      <4>1. Validity \in Nat /\ now \in Nat
        BY DestinationAssumption DEF IInv, TypeOK
      <4> QED
        BY <1>7, <2>2, <3>2, <4>1, SetEntry, SetEntryType
    <3> QED
      BY <3>1, <3>2
  <2> QED
    BY <2>1, <2>2 DEF Finish, KeyOf
<1>9. KeyOf(c) # Undefined =>
        /\ KeyOf(c) \in Keys
        /\ KeyOf(c).tenant = d.account /\ KeyOf(c).name = d.name
        /\ KeyOf(c).user # Undefined => KeyOf(c).user = UserId(opts[c])
  BY <1>1, <1>2, KeyType DEF Built, KeyOf, IInv
<1>10. TypeOK'
  <2>1. \A k \in DOMAIN cache' : k \in Keys /\ cache'[k] \in CacheEntry(Calls)
    BY <1>8, <1>9 DEF IInv, TypeOK
  <2> QED
    BY <1>2, <1>3, <2>1 DEF IInv, TypeOK, Labels
<1>11. ASSUME NEW k \in DOMAIN cache'
       PROVE  /\ EntryInv(k)'
              /\ dest'[cache'[k].entry] # Undefined
              /\ dest'[cache'[k].entry].account = k.tenant
              /\ dest'[cache'[k].entry].name = k.name
  <2>1. CASE k \in DOMAIN cache /\ cache'[k] = cache[k]
    <3>1. PICK x \in Calls : x = cache[k].entry
      BY <2>1 DEF IInv, TypeOK, CacheEntry
    <3>2. pc[x] = "done" /\ result[x] = x /\ KeyOf(x) = k
      BY <2>1, <3>1 DEF IInv, EntryInv
    <3>3. Unchanged(x)
      BY <1>4, <3>2 DEF LocalStep
    <3>4. KeyOf(x)' = k /\ pc'[x] = "done" /\ result'[x] = x /\ dest'[x] = dest[x]
      BY <3>2, <3>3, OwnKey DEF Unchanged
    <3>5. EntryInv(k)'
      BY <2>1, <3>1, <3>4 DEF EntryInv, KeyOf
    <3> QED
      BY <2>1, <3>1, <3>4, <3>5 DEF IInv, AccountIsolation
  <2>2. CASE k = KeyOf(c) /\ k # Undefined /\ cache'[k].entry = c
    <3>1. EntryInv(k)'
      BY <1>5, <2>2 DEF EntryInv, KeyOf
    <3> QED
      BY <1>1, <1>2, <1>5, <1>9, <2>2, <3>1 DEF Built
  <2> QED
    BY <1>8, <2>1, <2>2
<1>12. (\A k \in DOMAIN cache : EntryInv(k))' /\ AccountIsolation'
  BY <1>11 DEF AccountIsolation
<1>13. UserIsolation'
  <2>1. dest'[c].token # Undefined => dest'[c].token.user \in {UserId(opts[c])', Undefined}
    BY <1>1, <1>2, <1>3, <1>5 DEF Built, UserId
  <2> QED
    BY <1>4, <1>5, <2>1, OthersKeepTheirToken DEF UserIsolation
<1> QED
  BY <1>6, <1>10, <1>12, <1>13 DEF IInv

\* A rejected call leaves the cache and the objects alone.
LEMMA FailPreserves ==
  ASSUME IInv, NEW c \in Calls, Fail(c)
  PROVE  IInv'
<1>1. /\ pc' = [pc EXCEPT ![c] = "failed"]
      /\ UNCHANGED <<now, remote, changes, cache, opts, service, origin, found, dest, result>>
      /\ pc[c] \notin {"idle", "done"}
  BY DEF Fail, AsksService, Missed, Goto, Environment
<1>2. TypeOK'
  BY <1>1 DEF IInv, TypeOK, Labels
<1>3. LocalStep(c)
  BY <1>1 DEF LocalStep, Unchanged, IInv, TypeOK
<1>4. CallInv(c)'
  <2>1. pc'[c] = "failed" /\ opts'[c] = opts[c] /\ opts[c] \in Options /\ Documented(opts[c])
    BY <1>1 DEF IInv, TypeOK, CallInv
  <2> QED
    BY <2>1 DEF CallInv, Documented
<1>5. pc'[c] # "done"
  BY <1>1 DEF IInv, TypeOK
<1> QED
  BY <1>1, <1>2, <1>3, <1>4, <1>5, LocalStepPreserves

\* The clock, the destination service and clear() touch no call.
LEMMA QuietPreserves ==
  ASSUME IInv,
         UNCHANGED <<pc, opts, service, origin, found, dest, result>>,
         cache' = cache \/ cache' = EmptyCache,
         remote' \in [Tenants -> SUBSET Names], now' \in Nat, changes' \in Nat
  PROVE  IInv'
<1>1. /\ cache' = cache \/ cache' = EmptyCache
      /\ UNCHANGED <<pc, opts, service, origin, found, dest, result>>
  OBVIOUS
<1>4. DOMAIN cache' \subseteq DOMAIN cache /\ \A k \in DOMAIN cache' : cache'[k] = cache[k]
  BY <1>1 DEF EmptyCache
<1>5. TypeOK'
  BY <1>1, <1>4 DEF IInv, TypeOK
<1>6. ASSUME NEW c \in Calls
      PROVE  CallInv(c)' /\ KeyOf(c)' = KeyOf(c)
  <2>1. \A d \in Calls : Unchanged(d) /\ KeyOf(d)' = KeyOf(d)
    BY <1>1, OwnKey DEF Unchanged
  <2>2. Built(c)' = Built(c)
    BY <1>1 DEF Built, Account, UserId
  <2>3. Shared(c) => Shared(c)'
    <3> SUFFICES ASSUME Shared(c)
                 PROVE  Shared(c)'
      OBVIOUS
    <3>1. PICK e \in Calls : e = found[c]
      BY DEF Shared
    <3>2. KeyOf(e)' = KeyOf(e) /\ KeyOf(c)' = KeyOf(c) /\ found'[c] = e
      BY <1>1, <2>1, <3>1
    <3> QED
      BY <1>1, <3>1, <3>2 DEF Shared, KeyOf
  <2>4. Returned(c) => Returned(c)'
    <3> SUFFICES ASSUME Returned(c)
                 PROVE  Returned(c)'
      OBVIOUS
    <3>1. PICK e \in Calls : e = result[c]
      BY DEF Returned
    <3>2. KeyOf(e)' = KeyOf(e) /\ KeyOf(c)' = KeyOf(c) /\ result'[c] = e
      BY <1>1, <2>1, <3>1
    <3> QED
      BY <1>1, <3>1, <3>2 DEF Returned, KeyOf
  <2> QED
    BY <1>1, <2>1, <2>2, <2>3, <2>4
    DEF IInv, CallInv, TenantForServiceToken, Documented, Or
<1>7. ASSUME NEW k \in DOMAIN cache'
      PROVE  EntryInv(k)'
  <2>1. PICK x \in Calls : x = cache[k].entry
    BY <1>4 DEF IInv, TypeOK, CacheEntry
  <2>2. pc[x] = "done" /\ result[x] = x /\ KeyOf(x) = k
    BY <1>4, <2>1 DEF IInv, EntryInv
  <2>3. cache'[k].entry = x
    BY <1>4, <2>1
  <2> QED
    BY <1>1, <1>6, <2>2, <2>3 DEF EntryInv, KeyOf
<1>8. AccountIsolation' /\ UserIsolation'
  BY <1>1, <1>4 DEF IInv, AccountIsolation, UserIsolation, IsolationStrategy, UserId
<1> QED
  BY <1>5, <1>6, <1>7, <1>8 DEF IInv

\* Every step keeps the invariant.
LEMMA NextPreserves ==
  ASSUME IInv, DocumentedOptions, [Next]_vars
  PROVE  IInv'
<1>1. CASE UNCHANGED vars \/ Clear \/ Tick
  BY <1>1, QuietPreserves DEF vars, Clear, Tick, Environment, IInv, TypeOK
<1>2. ASSUME NEW t \in Tenants, NEW n \in Names, Change(t, n)
      PROVE  IInv'
  BY <1>2, QuietPreserves DEF Change, IInv, TypeOK
<1>3. ASSUME NEW c \in Calls, Step(c)
      PROVE  IInv'
  <2>1. ASSUME UseFound(c)
        PROVE  IInv'
    BY <2>1, UseOwnPreserves, UseSharedPreserves
  <2> QED
    BY <1>3, <2>1, CallPreserves, ExchangePreserves, GetTokensPreserves,
       SearchCachePreserves, MissCachePreserves, SearchServicePreserves, FetchPreserves, FinishPreserves,
       FailPreserves
    DEF Step
<1> QED
  BY <1>1, <1>2, <1>3 DEF Next

-----------------------------------------------------------------------------
(* Theorems                                                                *)

\* The inductive invariant holds in every state, for every number of calls.
THEOREM DestinationInvariant == DocumentedOptions => (Spec => []IInv)
<1> SUFFICES ASSUME DocumentedOptions
             PROVE  Spec => []IInv
  OBVIOUS
<1>1. Init => IInv
  BY InitIInv
<1>2. IInv /\ [Next]_vars => IInv'
  BY NextPreserves
<1> QED
  BY <1>1, <1>2, PTL DEF Spec

\* The variables keep their types: the heap holds destinations, the cache
\* refers to objects of calls and expires at numbers.
THEOREM DestinationTypes == DocumentedOptions => (Spec => []TypeOK)
<1>1. IInv => TypeOK
  BY DEF IInv
<1> QED
  BY <1>1, DestinationInvariant, PTL

\* destinationCache: an entry is a destination of the account and with the name
\* of its key.
THEOREM DestinationAccountIsolation == DocumentedOptions => (Spec => []AccountIsolation)
<1>1. IInv => AccountIsolation
  BY DEF IInv
<1> QED
  BY <1>1, DestinationInvariant, PTL

\* getDestinationFromDestinationService() under `tenant-user': what a call has
\* returned carries tokens of its own user only, whoever else finds the cached
\* object and changes it.
THEOREM DestinationUserIsolation == DocumentedOptions => (Spec => []UserIsolation)
<1>1. IInv => UserIsolation
  BY DEF IInv
<1> QED
  BY <1>1, DestinationInvariant, PTL

-----------------------------------------------------------------------------
(* Errors in place of tokens                                               *)

\* What FailureIsNotKept says of one entry.
IsKeptFailure(token) == token # Undefined /\ token.error /\ token.expiresIn = 0

\* A step that adds nothing to the cache and no error to a cached object: time
\* only makes entries older.
LEMMA NoNewFailure ==
  ASSUME IInv, FailureIsNotKept, cache' = cache \/ cache' = EmptyCache,
         now' \in Nat, now <= now',
         \A e \in Calls : pc[e] = "done" /\ dest[e] # Undefined =>
            dest'[e].token = dest[e].token \/ ~IsKeptFailure(dest'[e].token)
  PROVE  FailureIsNotKept'
<1> SUFFICES ASSUME NEW k \in DOMAIN cache', IsKeptFailure(dest'[cache'[k].entry].token)
             PROVE  cache'[k].expires \in Nat /\ cache'[k].expires <= now'
  BY DEF FailureIsNotKept, IsKeptFailure
<1>1. k \in DOMAIN cache /\ cache'[k] = cache[k]
  BY DEF EmptyCache
<1>2. PICK e \in Calls : e = cache[k].entry /\ pc[e] = "done" /\ dest[e] # Undefined
  BY <1>1 DEF IInv, TypeOK, CacheEntry, EntryInv, AccountIsolation
<1>3. dest'[e].token = dest[e].token
  BY <1>1, <1>2
<1>4. cache[k].expires \in Nat /\ cache[k].expires <= now
  BY <1>1, <1>2, <1>3 DEF FailureIsNotKept, IsKeptFailure
<1>5. now \in Nat
  BY DEF IInv, TypeOK
<1> QED
  BY <1>1, <1>4, <1>5

\* The token that is written into a shared object is no error.
LEMMA ForwardingIsNoFailure ==
  ASSUME NEW d \in Destination, NEW jwt
  PROVE  LET f == SetForwardedAuthTokenIfNeeded(d, jwt) IN
           f.token = d.token \/ ~IsKeptFailure(f.token)
<1>1. ~IsKeptFailure(ForwardedToken(jwt))
  BY DEF IsKeptFailure, ForwardedToken
<1> QED
  BY <1>1 DEF SetForwardedAuthTokenIfNeeded, Destination

\* An error is cached with an expiration time of the very moment.
LEMMA FinishKeepsNoFailure ==
  ASSUME IInv, FailureIsNotKept, NEW c \in Calls, NEW fetched \in BOOLEAN, Finish(c, fetched)
  PROVE  FailureIsNotKept'
<1>1. pc[c] = "finish" /\ dest[c] \in Destination /\ now \in Nat /\ Validity \in Nat
  BY DestinationAssumption DEF Finish, IInv, CallInv, Built, TypeOK
<1>2. dest' = [dest EXCEPT ![c].certificate = fetched] /\ now' = now
  BY DEF Finish, Environment
<1>3. \A e \in Calls \ {c} : dest'[e] = dest[e]
  BY <1>2 DEF IInv, TypeOK
<1>4. dest'[c].token = dest[c].token
  <2>1. dest'[c] = [dest[c] EXCEPT !.certificate = fetched]
    BY <1>2 DEF IInv, TypeOK
  <2> QED
    BY <1>1, <2>1 DEF Destination
<1>5. CASE cache' = cache
  BY <1>1, <1>2, <1>3, <1>5, NoNewFailure
<1>6. CASE cache' = Set(cache, KeyOf(c), CacheItem(c), Validity, now)
  <2> SUFFICES ASSUME NEW k \in DOMAIN cache', IsKeptFailure(dest'[cache'[k].entry].token)
               PROVE  cache'[k].expires \in Nat /\ cache'[k].expires <= now'
    BY DEF FailureIsNotKept, IsKeptFailure
  <2>1. CASE k \in DOMAIN cache /\ cache'[k] = cache[k]
    <3>1. PICK e \in Calls : e = cache[k].entry /\ pc[e] = "done"
      BY <2>1 DEF IInv, TypeOK, CacheEntry, EntryInv
    <3>2. dest'[e] = dest[e]
      BY <1>1, <1>3, <3>1
    <3> QED
      BY <1>2, <2>1, <3>1, <3>2 DEF FailureIsNotKept, IsKeptFailure
  <2>2. CASE cache'[k] = StoredItem(CacheItem(c), Validity, now)
    <3>1. cache'[k].entry = c
      BY <2>2 DEF StoredItem, CacheItem
    <3>2. dest[c].token # Undefined /\ dest[c].token.expiresIn = 0
      BY <1>4, <3>1 DEF IsKeptFailure
    <3>3. CacheItem(c).expires = now + 0 /\ now + 0 = now /\ now # Undefined
      BY <1>1, <3>2, UndefinedAssumption DEF CacheItem
    <3>4. cache'[k].expires = now
      BY <2>2, <3>3 DEF StoredItem
    <3> QED
      BY <1>1, <1>2, <3>4
  <2> QED
    BY <1>6, <2>1, <2>2 DEF Set
<1> QED
  BY <1>5, <1>6 DEF Finish, KeyOf

\* Every step keeps errors from staying.
LEMMA NextKeepsNoFailure ==
  ASSUME IInv, FailureIsNotKept, [Next]_vars
  PROVE  FailureIsNotKept'
<1>1. now \in Nat /\ now <= now
  BY DEF IInv, TypeOK
<1>2. CASE UNCHANGED vars \/ Clear
  BY <1>1, <1>2, NoNewFailure DEF vars, Clear, Environment
<1>3. CASE Tick
  <2>1. now' \in Nat /\ now <= now'
    BY <1>1, <1>3 DEF Tick
  <2> QED
    BY <1>3, <2>1, NoNewFailure DEF Tick
<1>4. ASSUME NEW t \in Tenants, NEW n \in Names, Change(t, n)
      PROVE  FailureIsNotKept'
  BY <1>1, <1>4, NoNewFailure DEF Change
<1>5. ASSUME NEW c \in Calls, Step(c)
      PROVE  FailureIsNotKept'
  <2>1. ASSUME cache' = cache, now' = now, dest' = dest
        PROVE  FailureIsNotKept'
    BY <1>1, <2>1, NoNewFailure
  <2>2. ASSUME cache' = cache, now' = now, NEW d, dest' = [dest EXCEPT ![c] = d], pc[c] # "done"
        PROVE  FailureIsNotKept'
    <3>1. \A e \in Calls : pc[e] = "done" => dest'[e] = dest[e]
      BY <2>2 DEF IInv, TypeOK
    <3> QED
      BY <1>1, <2>2, <3>1, NoNewFailure
  <2>3. ASSUME NEW from \in {"subscriber", "provider"}, SearchService(c, from)
        PROVE  FailureIsNotKept'
    <3>1. /\ cache' = cache /\ now' = now /\ pc[c] # "done"
          /\ \E d : dest' = [dest EXCEPT ![c] = d]
      BY <2>3 DEF SearchService, AsksService, Missed, Environment
    <3> QED
      BY <2>2, <3>1
  <2>4. ASSUME FetchWithToken(c)
        PROVE  FailureIsNotKept'
    <3>1. /\ cache' = cache /\ now' = now /\ pc[c] # "done"
          /\ \E d : dest' = [dest EXCEPT ![c] = d]
      BY <2>4 DEF FetchWithToken, Environment
    <3> QED
      BY <2>2, <3>1
  <2>5. ASSUME UseFound(c)
        PROVE  FailureIsNotKept'
    <3>1. PICK e \in Calls : e = found[c] /\ dest[e] # Undefined
      BY <2>5 DEF UseFound, IInv, CallInv, Shared, Built
    <3>2. dest[e] \in Destination
      BY <3>1 DEF IInv, TypeOK
    <3>3. PICK f : f = SetForwardedAuthTokenIfNeeded(dest[e], opts[c].jwt)
      OBVIOUS
    <3>4. dest' = [dest EXCEPT ![e] = f] /\ cache' = cache /\ now' = now
      BY <2>5, <3>1, <3>3 DEF UseFound, Environment
    <3>5. f.token = dest[e].token \/ ~IsKeptFailure(f.token)
      BY <3>2, <3>3, ForwardingIsNoFailure
    <3>6. \A x \in Calls : dest'[x].token = dest[x].token \/ ~IsKeptFailure(dest'[x].token)
      BY <3>4, <3>5 DEF IInv, TypeOK
    <3> QED
      BY <1>1, <3>4, <3>6, NoNewFailure
  <2> QED
    BY <1>5, <2>1, <2>3, <2>4, <2>5, FinishKeepsNoFailure
    DEF Step, Call, ExchangeToken, GetTokens, SearchCache, MissCache, Fail, Environment
<1> QED
  BY <1>2, <1>3, <1>4, <1>5 DEF Next

\* cacheRetrievedDestination(): an error with an `expires_in' of '0' in place of
\* a token is in the cache for the moment it is written and no longer.
THEOREM DestinationFailureIsNotKept == DocumentedOptions => (Spec => []FailureIsNotKept)
<1> SUFFICES ASSUME DocumentedOptions
             PROVE  Spec => []FailureIsNotKept
  OBVIOUS
<1>1. Init => FailureIsNotKept
  BY DEF Init, FailureIsNotKept, EmptyCache
<1>2. IInv /\ FailureIsNotKept /\ [Next]_vars => FailureIsNotKept'
  BY NextKeepsNoFailure
<1> QED
  BY <1>1, <1>2, DestinationInvariant, PTL DEF Spec

-----------------------------------------------------------------------------
(* The right object: ResultIsSelected, ReturnedAfterFlow, ForwardsOwnToken *)

\* What a step of call c leaves of the other calls: all but the token of an
\* object that was returned, which is replaced by another one, never removed.
Kept(c) ==
  \A d \in Calls \ {c} :
    /\ pc'[d] = pc[d] /\ opts'[d] = opts[d] /\ service'[d] = service[d]
    /\ origin'[d] = origin[d] /\ result'[d] = result[d]
    /\ dest'[d] # Undefined => dest[d] # Undefined
    /\ dest[d] # Undefined =>
         /\ dest'[d].account = dest[d].account /\ dest'[d].name = dest[d].name
         /\ HasAnswer(dest[d]) => HasAnswer(dest'[d])
    /\ pc[d] # "done" => dest'[d] = dest[d]

\* A step that changes nothing of other calls keeps all of them.
LEMMA LocalStepKeeps ==
  ASSUME NEW c \in Calls, LocalStep(c)
  PROVE  Kept(c)
BY DEF LocalStep, Unchanged, Kept

\* What the strategy picks depends on the options, the service token and the
\* accounts only.
LEMMA OwnSelected ==
  ASSUME NEW c, opts'[c] = opts[c], service'[c] = service[c], remote' = remote
  PROVE  Selected(c)' = Selected(c)
BY DEF Selected

\* The strategies of the SDK and the one that prefers the provider, one by one.
LEMMA SelectCases ==
  ASSUME NEW a, NEW b
  PROVE  /\ Select("alwaysSubscriber", a, b) = a
         /\ Select("alwaysProvider", a, b) = b
         /\ Select("subscriberFirst", a, b) = Or(a, b)
         /\ Select("custom", a, b) = Or(b, a)
BY DEF Select

\* An object stays right while other calls take their steps.
LEMMA OthersKeepObject ==
  ASSUME IInv, NEW c \in Calls, pc[c] # "done", Kept(c), NEW d \in Calls, d # c, ObjectInv(d)
  PROVE  ObjectInv(d)'
<1>1. /\ pc'[d] = pc[d] /\ opts'[d] = opts[d] /\ service'[d] = service[d]
      /\ origin'[d] = origin[d] /\ result'[d] = result[d]
      /\ pc[d] # "done" => dest'[d] = dest[d]
  BY DEF Kept
<1>2. ASSUME pc[d] = "done", result[d] = d
      PROVE  /\ dest'[d].account = dest[d].account /\ dest'[d].name = dest[d].name
             /\ HasAnswer(dest[d]) => HasAnswer(dest'[d])
  <2>1. dest[d] # Undefined
    BY <1>2, DestinationAssumption DEF IInv, CallInv, Returned
  <2> QED
    BY <2>1 DEF Kept
<1>3. Account(d, origin[d])' = Account(d, origin[d])
  BY <1>1 DEF Account
<1>4. CASE pc[d] = "done"
  <2>1. HasAnswer(dest[d])' <=> HasAnswer(dest'[d])
    BY DEF HasAnswer, Configured
  <2> QED
    BY <1>1, <1>2, <1>3, <1>4, <2>1 DEF ObjectInv
<1>5. CASE pc[d] # "done"
  <2>1. (HasAnswer(dest[d])' <=> HasAnswer(dest[d])) /\ Configured(dest[d])' = Configured(dest[d])
    BY <1>1, <1>5 DEF HasAnswer, Configured
  <2> QED
    BY <1>1, <1>5, <2>1 DEF ObjectInv
<1> QED
  BY <1>4, <1>5

\* A search stays right while other calls take their steps.
LEMMA OthersKeepSearch ==
  ASSUME IInv, NEW c \in Calls, pc[c] # "done", Kept(c), remote' = remote,
         NEW d \in Calls, d # c, SearchInv(d)
  PROVE  SearchInv(d)'
<1>1. /\ pc'[d] = pc[d] /\ opts'[d] = opts[d] /\ service'[d] = service[d]
      /\ origin'[d] = origin[d] /\ result'[d] = result[d]
      /\ dest'[d] # Undefined =>
           /\ dest[d] # Undefined
           /\ dest'[d].account = dest[d].account /\ dest'[d].name = dest[d].name
  BY DEF Kept
<1>2. Selected(d)' = Selected(d) /\ Account(d, origin[d])' = Account(d, origin[d])
  BY <1>1, OwnSelected DEF Account
<1>3. ASSUME pc[d] = "done", result[d] # Null
      PROVE  /\ dest'[result[d]].account = dest[result[d]].account
             /\ dest'[result[d]].name = dest[result[d]].name
  <2>1. result[d] \in Calls /\ result[d] # c /\ dest[result[d]] # Undefined
    BY <1>3 DEF IInv, CallInv, Returned
  <2> QED
    BY <2>1 DEF Kept
<1> QED
  BY <1>1, <1>2, <1>3 DEF SearchInv

\* It is enough to look at the call that takes the step.
LEMMA StepOfCall ==
  ASSUME ResultInv, IInv', NEW c \in Calls, pc[c] # "done", Kept(c),
         remote' = remote, changes' = changes,
         ObjectInv(c)', changes = 0 => SearchInv(c)'
  PROVE  ResultInv'
<1>1. \A d \in Calls : ObjectInv(d)'
  BY OthersKeepObject DEF ResultInv
<1>2. changes = 0 => \A d \in Calls : SearchInv(d)'
  BY OthersKeepSearch DEF ResultInv
<1> QED
  BY <1>1, <1>2 DEF ResultInv

\* A step to a place where nothing is known of an object yet.
LEMMA BeforeSearch ==
  ASSUME ResultInv, IInv', NEW c \in Calls, pc[c] # "done", LocalStep(c),
         remote' = remote, changes' = changes, dest'[c] = dest[c],
         pc'[c] \in {"exchange", "tokens", "failed"}
  PROVE  ResultInv'
<1>1. ObjectInv(c)'
  BY DEF ObjectInv
<1>2. changes = 0 => SearchInv(c)'
  BY DEF SearchInv, Searched, ResultInv
<1> QED
  BY <1>1, <1>2, LocalStepKeeps, StepOfCall

\* The strategy is fixed before the first search.
LEMMA GetTokensKeepsResult ==
  ASSUME ResultInv, IInv', NEW c \in Calls, NEW serviceJwt \in Tenants \cup {Undefined},
         GetTokens(c, serviceJwt)
  PROVE  ResultInv'
<1> USE DEF ResultInv
<1>1. PICK label \in {"subscriber", "provider", "done"} :
        /\ pc' = [pc EXCEPT ![c] = label]
        /\ label = "subscriber" => IsSubscriberNeeded(c, serviceJwt)
        /\ label # "subscriber" => ~IsSubscriberNeeded(c, serviceJwt)
        /\ label = "provider" => IsProviderNeeded(opts[c].strategy, FALSE)
        /\ label = "done" => /\ ~IsProviderNeeded(opts[c].strategy, FALSE)
                             /\ result' = [result EXCEPT ![c] = Null]
        /\ label # "done" => result' = result
  BY DEF GetTokens, Goto
<1>2. /\ service' = [service EXCEPT ![c] = serviceJwt] /\ pc[c] = "tokens"
      /\ UNCHANGED <<now, remote, changes, cache, opts, origin, found, dest>>
  BY DEF GetTokens, Environment
<1>3. /\ pc'[c] = label /\ service'[c] = serviceJwt /\ opts'[c] = opts[c] /\ dest'[c] = dest[c]
      /\ label = "done" => result'[c] = Null
  BY <1>1, <1>2 DEF IInv, TypeOK
<1>4. LocalStep(c)
  BY <1>1, <1>2 DEF LocalStep, Unchanged, IInv, TypeOK
<1>5. ObjectInv(c)'
  BY <1>3, DestinationAssumption DEF ObjectInv
<1>6. ASSUME changes = 0
      PROVE  SearchInv(c)'
  <2>1. label = "provider" =>
          /\ opts[c].strategy # "alwaysSubscriber"
          /\ opts[c].strategy = "subscriberFirst" => serviceJwt = Undefined
    BY <1>1 DEF IsProviderNeeded, IsSubscriberNeeded
  <2>2. ASSUME label = "done"
        PROVE  Selected(c)' = Undefined
    <3>1. opts[c].strategy = "alwaysSubscriber" /\ serviceJwt = Undefined
      BY <1>1, <2>2 DEF IsProviderNeeded, IsSubscriberNeeded
    <3> QED
      BY <1>3, <3>1, SelectCases DEF Selected
  <2>3. dest'[c] # Undefined => dest'[c].name \in remote'[dest'[c].account]
    BY <1>2, <1>3, <1>6 DEF SearchInv
  <2> QED
    BY <1>1, <1>2, <1>3, <2>1, <2>2, <2>3 DEF SearchInv, Searched, IsSubscriberNeeded
<1> QED
  BY <1>2, <1>4, <1>5, <1>6, LocalStepKeeps, StepOfCall

\* What is found in the account searched last is what the strategy picks.
LEMMA FoundIsSelected ==
  ASSUME IInv, NEW c \in Calls, NEW from \in {"subscriber", "provider"},
         pc[c] \in {from, Missed(from)}, SearchInv(c), opts[c].name \in remote[Account(c, from)],
         from = "subscriber" => ~IsProviderNeeded(opts[c].strategy, TRUE)
  PROVE  Account(c, from) = Selected(c)
<1>1. opts[c].strategy \in Strategies /\ Provider # Undefined
  BY DestinationAssumption DEF IInv, CallInv, Options, Missed
<1>2. CASE from = "subscriber"
  <2>1. service[c] # Undefined /\ opts[c].strategy \in {"alwaysSubscriber", "subscriberFirst"}
    BY <1>1, <1>2 DEF IInv, CallInv, IsProviderNeeded, SearchInv, Strategies, Missed
  <2> QED
    BY <1>2, <2>1, SelectCases DEF Selected, Account, Or
<1>3. CASE from = "provider"
  <2>1. /\ opts[c].strategy # "alwaysSubscriber"
        /\ opts[c].strategy = "subscriberFirst" /\ service[c] # Undefined
             => opts[c].name \notin remote[service[c]]
    BY <1>3 DEF SearchInv, Missed
  <2> QED
    BY <1>1, <1>3, <2>1, SelectCases DEF Selected, Account, Or, Strategies
<1> QED
  BY <1>2, <1>3

\* The provider is searched after the subscriber only when the strategy needs it.
LEMMA ProviderIsNeeded ==
  ASSUME NEW strategy, NEW isFound, IsProviderNeeded(strategy, isFound)
  PROVE  strategy # "alwaysSubscriber" /\ (strategy = "subscriberFirst" => ~isFound)
BY DEF IsProviderNeeded

\* A hit is what the service said of the account when it was stored.
LEMMA SearchCacheKeepsResult ==
  ASSUME ResultInv, IInv', NEW c \in Calls, NEW from \in {"subscriber", "provider"},
         SearchCache(c, from)
  PROVE  ResultInv'
<1> DEFINE key == GetDestinationCacheKey(c, from)
<1> USE DEF ResultInv
<1>1. key # Undefined /\ key \in DOMAIN cache /\ CachedDestination(c, from) = cache[key].entry
  BY GetReturnsEntry DEF SearchCache, CachedDestination, Get
<1>2. PICK e \in Calls : /\ e = cache[key].entry /\ dest[e] # Undefined
                        /\ dest[e].account = key.tenant /\ dest[e].name = key.name
  BY <1>1 DEF IInv, TypeOK, CacheEntry, AccountIsolation
<1>3. key.tenant = Account(c, from) /\ key.name = opts[c].name
  BY <1>1 DEF GetDestinationCacheKey, Account
<1>4. PICK label \in {"provider", "found"} :
        /\ pc' = [pc EXCEPT ![c] = label] /\ result' = result
        /\ label = "provider" => from = "subscriber" /\ IsProviderNeeded(opts[c].strategy, TRUE)
        /\ label = "found" => ~(from = "subscriber" /\ IsProviderNeeded(opts[c].strategy, TRUE))
  BY DEF SearchCache, AfterSearch, Goto
<1>5. /\ found' = [found EXCEPT ![c] = e] /\ origin' = [origin EXCEPT ![c] = from]
      /\ UNCHANGED <<now, remote, changes, cache, opts, service, dest>>
      /\ pc[c] = from
  BY <1>1, <1>2 DEF SearchCache, Environment
<1>6. pc'[c] = label /\ origin'[c] = from
  BY <1>4, <1>5 DEF IInv, TypeOK
<1>7. LocalStep(c)
  BY <1>4, <1>5 DEF LocalStep, Unchanged, IInv, TypeOK
<1>8. ObjectInv(c)'
  BY <1>6 DEF ObjectInv
<1>9. ASSUME changes = 0
      PROVE  SearchInv(c)'
  <2>1. opts[c].name \in remote[Account(c, from)]
    BY <1>2, <1>3, <1>9 DEF SearchInv
  <2>2. label = "found" => Account(c, from) = Selected(c)
    BY <1>4, <1>5, <1>9, <2>1, FoundIsSelected
  <2>3. Account(c, from)' = Account(c, from) /\ Selected(c)' = Selected(c)
    BY <1>5, OwnSelected DEF Account
  <2>4. label = "provider" => /\ opts[c].strategy # "alwaysSubscriber"
                              /\ opts[c].strategy # "subscriberFirst"
    BY <1>4, ProviderIsNeeded
  <2>5. Account(c, origin[c])' = Account(c, from)
    BY <1>5, <1>6 DEF Account
  <2>6. SearchInv(c)
    BY <1>9
  <2> QED
    BY <1>5, <1>6, <2>2, <2>3, <2>4, <2>5, <2>6 DEF SearchInv, Searched
<1> QED
  BY <1>5, <1>7, <1>8, <1>9, LocalStepKeeps, StepOfCall

\* A miss leaves the search where it was.
LEMMA MissCacheKeepsResult ==
  ASSUME ResultInv, IInv', NEW c \in Calls, NEW from \in {"subscriber", "provider"},
         MissCache(c, from)
  PROVE  ResultInv'
<1> USE DEF ResultInv
<1>1. /\ pc[c] = from /\ pc' = [pc EXCEPT ![c] = Missed(from)]
      /\ UNCHANGED <<now, remote, changes, cache, opts, service, origin, found, dest, result>>
  BY DEF MissCache, Goto, Environment
<1>2. LocalStep(c) /\ pc[c] # "done" /\ pc'[c] = Missed(from)
  BY <1>1 DEF LocalStep, Unchanged, IInv, TypeOK
<1>3. ObjectInv(c)'
  BY <1>2 DEF ObjectInv, Missed
<1>4. changes = 0 => SearchInv(c)'
  BY <1>1, <1>2 DEF SearchInv, Searched, Missed
<1> QED
  BY <1>1, <1>2, <1>3, <1>4, LocalStepKeeps, StepOfCall

\* What the second account answers is weighed against the first's answer.
LEMMA SearchServiceKeepsResult ==
  ASSUME ResultInv, IInv', NEW c \in Calls, NEW from \in {"subscriber", "provider"},
         SearchService(c, from)
  PROVE  ResultInv'
<1> DEFINE account == Account(c, from)
           here == IF opts[c].name \in remote[account] THEN account ELSE Undefined
           d == NewDestination(account, opts[c].name, Undefined)
<1> USE DEF ResultInv
<1>1. /\ pc[c] \in {from, Missed(from)} /\ opts[c] \in Options
      /\ UNCHANGED <<now, remote, changes, cache, opts, service>>
  BY DEF SearchService, AsksService, Missed, Environment, IInv, CallInv
<1>2. account \in Tenants /\ account # Undefined /\ d # Undefined /\ d \in Destination
  <2>1. account \in Tenants /\ opts[c].name \in Names
    BY <1>1, DestinationAssumption DEF Account, IInv, CallInv, TypeOK, Options, Missed
  <2>2. d \in Destination
    BY <2>1 DEF NewDestination, Destination
  <2> QED
    BY <2>1, <2>2, DestinationAssumption
<1>3. PICK isFound \in BOOLEAN :
        /\ isFound <=> (IF from = "subscriber"
                          THEN Select(opts[c].strategy, here, Undefined) # Undefined
                          ELSE Select(opts[c].strategy, Undefined, here) # Undefined)
        /\ origin' = [origin EXCEPT ![c] = IF isFound THEN from ELSE Undefined]
        /\ dest' = [dest EXCEPT ![c] = IF isFound THEN d ELSE Undefined]
        /\ found' = [found EXCEPT ![c] = IF isFound THEN c ELSE Undefined]
        /\ AfterSearch(c, from, isFound)
  BY DEF SearchService
<1>4. PICK label \in {"provider", "found", "done"} :
        /\ pc' = [pc EXCEPT ![c] = label]
        /\ label = "provider" => from = "subscriber" /\ IsProviderNeeded(opts[c].strategy, isFound)
        /\ label # "provider" =>
             ~(from = "subscriber" /\ IsProviderNeeded(opts[c].strategy, isFound))
        /\ label = "found" => isFound
        /\ label = "done" => ~isFound /\ result' = [result EXCEPT ![c] = Null]
        /\ label # "done" => result' = result
  BY <1>3 DEF AfterSearch, Goto
<1>5. /\ pc'[c] = label /\ origin'[c] = (IF isFound THEN from ELSE Undefined)
      /\ dest'[c] = (IF isFound THEN d ELSE Undefined)
      /\ label = "done" => result'[c] = Null
  BY <1>3, <1>4 DEF IInv, TypeOK
<1>6. LocalStep(c) /\ pc[c] # "done"
  BY <1>1, <1>3, <1>4 DEF LocalStep, Unchanged, Missed, IInv, TypeOK
<1>7. ObjectInv(c)'
  BY <1>5, DestinationAssumption DEF ObjectInv
<1>8. ASSUME changes = 0
      PROVE  SearchInv(c)'
  <2>1. SearchInv(c)
    BY <1>8
  <2>2. isFound <=> opts[c].name \in remote[account]
    <3>1. CASE from = "subscriber"
      <4>1. opts[c].strategy \in {"alwaysSubscriber", "subscriberFirst", "custom"}
        BY <1>1, <2>1, <3>1 DEF SearchInv, Options, Strategies, Missed
      <4>2. Select(opts[c].strategy, here, Undefined) = here
        BY <4>1, SelectCases DEF Or
      <4> QED
        BY <1>2, <1>3, <3>1, <4>2
    <3>2. CASE from = "provider"
      <4>1. opts[c].strategy \in {"alwaysProvider", "subscriberFirst", "custom"}
        BY <1>1, <2>1, <3>2 DEF SearchInv, Options, Strategies, Missed
      <4>2. Select(opts[c].strategy, Undefined, here) = here
        BY <4>1, SelectCases DEF Or
      <4> QED
        BY <1>2, <1>3, <3>2, <4>2
    <3> QED
      BY <3>1, <3>2
  <2>3. dest'[c] # Undefined => dest'[c].name \in remote'[dest'[c].account]
    BY <1>1, <1>5, <2>2 DEF NewDestination
  <2>4. Selected(c)' = Selected(c) /\ (isFound => Account(c, origin[c])' = account)
    BY <1>1, <1>5, OwnSelected DEF Account
  <2>5. label = "found" => account = Selected(c)
    BY <1>1, <1>4, <2>1, <2>2, FoundIsSelected
  <2>6. label = "provider" =>
          /\ opts[c].strategy # "alwaysSubscriber"
          /\ opts[c].strategy = "subscriberFirst" => opts[c].name \notin remote[service[c]]
    BY <1>4, <2>2, ProviderIsNeeded DEF Account
  <2>7. ASSUME label = "done", opts[c].strategy # "custom"
        PROVE  Selected(c) = Undefined
    <3>1. opts[c].name \notin remote[account] /\ ~isFound
      BY <1>4, <2>2, <2>7
    <3>2. CASE from = "subscriber"
      <4>1. opts[c].strategy = "alwaysSubscriber"
        BY <1>1, <1>4, <2>7, <3>1, <3>2 DEF IsProviderNeeded, Options, Strategies
      <4> QED
        BY <3>1, <3>2, <4>1, SelectCases DEF Selected, Account
    <3>3. CASE from = "provider"
      <4>1. opts[c].strategy \in {"alwaysProvider", "subscriberFirst"}
        BY <1>1, <2>1, <2>7, <3>3 DEF SearchInv, Options, Strategies, Missed
      <4>2. opts[c].strategy = "subscriberFirst" /\ service[c] # Undefined
              => opts[c].name \notin remote[service[c]]
        BY <1>1, <2>1, <3>3 DEF SearchInv, Missed
      <4> QED
        BY <3>1, <3>3, <4>1, <4>2, SelectCases DEF Selected, Account, Or
    <3> QED
      BY <3>2, <3>3
  <2> QED
    BY <1>1, <1>4, <1>5, <2>3, <2>4, <2>5, <2>6, <2>7 DEF SearchInv, Searched
<1> QED
  BY <1>1, <1>6, <1>7, <1>8, LocalStepKeeps, StepOfCall

\* What the choice of a flow says about the destination.
LEMMA FlowMeans ==
  ASSUME NEW c, NEW d
  PROVE  /\ FirstFlow(c, d) \in {"userFlow", "clientFlow", "refreshFlow"}
              => ~Configured(d).forward
         /\ FirstFlow(c, d) = "finish" => HasAnswer(d)
BY DEF FirstFlow, LaterFlow, HasAnswer

\* A destination of the call's own gets its token and is returned, or a flow begins.
LEMMA UseOwnKeepsResult ==
  ASSUME ResultInv, IInv', NEW c \in Calls, UseFound(c), found[c] = c
  PROVE  ResultInv'
<1> DEFINE f == SetForwardedAuthTokenIfNeeded(dest[c], opts[c].jwt)
<1> USE DEF ResultInv
<1>1. Built(c) /\ opts[c] \in Options /\ pc[c] = "found" /\ dest[c] \in Destination
  BY DEF UseFound, IInv, CallInv, Built, TypeOK
<1>2. /\ f \in Destination /\ f.account = dest[c].account /\ f.name = dest[c].name
      /\ Configured(f).forward /\ opts[c].jwt # Undefined
           => f.token = ForwardedToken(opts[c].jwt)
  <2>1. f \in Destination /\ f.account = dest[c].account /\ f.name = dest[c].name
    BY <1>1, ForwardedDestination
  <2>2. Configured(f) = Configured(dest[c])
    BY <2>1 DEF Configured
  <2> QED
    BY <1>1, <2>1, <2>2 DEF SetForwardedAuthTokenIfNeeded, Destination
<1>3. PICK d \in Destination : d = f
  BY <1>2
<1>4. PICK label \in {"userFlow", "clientFlow", "refreshFlow", "finish", "failed"} :
        pc' = [pc EXCEPT ![c] = label] /\ label = FirstFlow(c, d)
  BY <1>3, FlowLabels DEF UseFound, Goto
<1>5. /\ dest' = [dest EXCEPT ![c] = d]
      /\ UNCHANGED <<now, remote, changes, cache, opts, service, origin, found, result>>
  BY <1>3 DEF UseFound, Environment
<1>6. pc'[c] = label /\ dest'[c] = d /\ Configured(dest[c])' = Configured(d)
  BY <1>4, <1>5 DEF IInv, TypeOK, Configured
<1>7. LocalStep(c)
  BY <1>4, <1>5 DEF LocalStep, Unchanged, IInv, TypeOK
<1>8. ObjectInv(c)'
  <2>1. HasAnswer(dest[c])' <=> HasAnswer(d)
    BY <1>6 DEF HasAnswer
  <2> QED
    BY <1>2, <1>3, <1>4, <1>5, <1>6, <2>1, FlowMeans DEF ObjectInv
<1>9. ASSUME changes = 0
      PROVE  SearchInv(c)'
  <2>1. SearchInv(c) /\ Selected(c)' = Selected(c) /\ Account(c, origin[c])' = Account(c, origin[c])
    BY <1>5, <1>9, OwnSelected DEF Account
  <2>2. d.account = dest[c].account /\ d.name = dest[c].name /\ dest[c] # Undefined
    BY <1>1, <1>2, <1>3 DEF Built
  <2> QED
    BY <1>1, <1>5, <1>6, <2>1, <2>2 DEF SearchInv, Searched
<1> QED
  BY <1>1, <1>5, <1>7, <1>8, <1>9, LocalStepKeeps, StepOfCall

\* Calls with the same key looked in the same account for the same name.
LEMMA SameKeySameAccount ==
  ASSUME NEW c, NEW e, KeyOf(c) = KeyOf(e), KeyOf(c) # Undefined
  PROVE  Account(c, origin[c]) = Account(e, origin[e]) /\ opts[c].name = opts[e].name
<1>1. ASSUME NEW x, KeyOf(x) # Undefined
      PROVE  KeyOf(x).tenant = Account(x, origin[x]) /\ KeyOf(x).name = opts[x].name
  BY <1>1 DEF KeyOf, GetDestinationCacheKey, Account
<1> QED
  BY <1>1

\* The one step that touches an object which other calls may hold.
LEMMA UseSharedKeepsResult ==
  ASSUME ResultInv, IInv', NEW c \in Calls, UseFound(c), found[c] # c
  PROVE  ResultInv'
<1> USE DEF ResultInv
<1>1. Shared(c) /\ opts[c] \in Options /\ pc[c] = "found"
  BY DEF UseFound, IInv, CallInv, Built
<1>2. PICK e \in Calls : /\ e = found[c] /\ e # c
                        /\ pc[e] = "done" /\ result[e] = e /\ dest[e] # Undefined
                        /\ KeyOf(e) = KeyOf(c) /\ KeyOf(c) # Undefined
  BY <1>1 DEF Shared
<1>3. dest[e] \in Destination
  BY <1>2 DEF IInv, TypeOK
<1>4. PICK f \in Destination :
        /\ f = SetForwardedAuthTokenIfNeeded(dest[e], opts[c].jwt)
        /\ f.account = dest[e].account /\ f.name = dest[e].name
        /\ f.token = dest[e].token \/ f.token # Undefined
  BY <1>1, <1>3, ForwardedDestination
<1>5. /\ dest' = [dest EXCEPT ![e] = f]
      /\ pc' = [pc EXCEPT ![c] = "done"]
      /\ result' = [result EXCEPT ![c] = e]
      /\ UNCHANGED <<now, remote, changes, cache, opts, service, origin, found>>
  BY <1>2, <1>4 DEF UseFound, Goto, Environment
<1>6. pc'[c] = "done" /\ result'[c] = e /\ dest'[e] = f /\ dest'[c] = dest[c]
  BY <1>2, <1>5 DEF IInv, TypeOK
<1>7. HasAnswer(dest[e]) => HasAnswer(f)
  BY <1>4 DEF HasAnswer, Configured
<1>8. Kept(c)
  <2> SUFFICES ASSUME NEW d \in Calls \ {c}
               PROVE  /\ pc'[d] = pc[d] /\ result'[d] = result[d]
                      /\ dest'[d] # Undefined => dest[d] # Undefined
                      /\ dest[d] # Undefined =>
                           /\ dest'[d].account = dest[d].account /\ dest'[d].name = dest[d].name
                           /\ HasAnswer(dest[d]) => HasAnswer(dest'[d])
                      /\ pc[d] # "done" => dest'[d] = dest[d]
    BY <1>5 DEF Kept
  <2>1. pc'[d] = pc[d] /\ result'[d] = result[d]
    BY <1>5 DEF IInv, TypeOK
  <2>2. CASE d = e
    BY <1>2, <1>4, <1>6, <1>7, <2>1, <2>2
  <2>3. CASE d # e
    <3>1. dest'[d] = dest[d]
      BY <1>5, <2>3 DEF IInv, TypeOK
    <3> QED
      BY <2>1, <3>1
  <2> QED
    BY <2>2, <2>3
<1>9. ObjectInv(c)'
  BY <1>2, <1>6 DEF ObjectInv
<1>10. ASSUME changes = 0
       PROVE  SearchInv(c)'
  <2>1. SearchInv(c) /\ Selected(c)' = Selected(c)
    BY <1>5, <1>10, OwnSelected
  <2>2. Account(c, origin[c]) = Selected(c)
    BY <1>1, <2>1 DEF SearchInv, Searched
  <2>3. dest[e].account = Account(e, origin[e]) /\ dest[e].name = opts[e].name
    BY <1>2 DEF ObjectInv
  <2>4. dest'[result'[c]].account = Selected(c)' /\ dest'[result'[c]].name = opts'[c].name
    BY <1>2, <1>4, <1>5, <1>6, <2>1, <2>2, <2>3, SameKeySameAccount
  <2>5. result'[c] # Null
    BY <1>6, DestinationAssumption
  <2> QED
    BY <1>5, <1>6, <2>1, <2>4, <2>5 DEF SearchInv, Searched
<1> QED
  BY <1>1, <1>5, <1>8, <1>9, <1>10, StepOfCall

\* The destination service runs the flow: the new object has its answer.
LEMMA FetchKeepsResult ==
  ASSUME ResultInv, IInv', NEW c \in Calls, FetchWithToken(c)
  PROVE  ResultInv'
<1>0. PICK token \in FlowAnswers(c, FlowAccount(c)) :
        LET m == NewDestination(FlowAccount(c), opts[c].name, token) IN
          /\ dest' = [dest EXCEPT ![c] = m]
          /\ Goto(c, IF pc[c] = "userFlow" THEN LaterFlow(c, m) ELSE "finish")
  BY DEF FetchWithToken
<1> DEFINE n == NewDestination(FlowAccount(c), opts[c].name, token)
<1> USE DEF ResultInv
<1>1. /\ pc[c] \in {"userFlow", "clientFlow", "refreshFlow"}
      /\ Built(c) /\ opts[c] \in Options /\ opts[c].name \in remote[FlowAccount(c)]
      /\ FlowAccount(c) = Account(c, origin[c])
  BY FlowAccountIsSearched DEF FetchWithToken, IInv, CallInv
<1>2. ~Configured(n).forward /\ HasAnswer(n)
  <2>1. token = Undefined
          => Config[FlowAccount(c)][opts[c].name].auth \notin {"user", "client", "refresh"}
    BY <1>1, FlowAnswerType
  <2>2. Configured(n) = Config[FlowAccount(c)][opts[c].name]
    BY DEF Configured, NewDestination
  <2>3. Configured(n) = Configured(dest[c])
    BY <1>1, <2>2 DEF Configured, Built
  <2> QED
    BY <1>1, <2>1, <2>2, <2>3 DEF HasAnswer, NewDestination, ObjectInv
<1>3. PICK d : d = n
  OBVIOUS
<1>4. PICK label \in {"clientFlow", "refreshFlow", "finish", "failed"} :
        pc' = [pc EXCEPT ![c] = label]
  BY <1>0, FlowLabels DEF Goto
<1>5. /\ dest' = [dest EXCEPT ![c] = d]
      /\ UNCHANGED <<now, remote, changes, cache, opts, service, origin, found, result>>
  BY <1>0, <1>3 DEF FetchWithToken, Environment
<1>6. pc'[c] = label /\ dest'[c] = d /\ Configured(dest[c])' = Configured(d)
  BY <1>4, <1>5 DEF IInv, TypeOK, Configured
<1>7. LocalStep(c)
  BY <1>4, <1>5 DEF LocalStep, Unchanged, IInv, TypeOK
<1>8. ObjectInv(c)'
  <2>1. HasAnswer(dest[c])' <=> HasAnswer(d)
    BY <1>6 DEF HasAnswer
  <2> QED
    BY <1>2, <1>3, <1>6, <2>1 DEF ObjectInv
<1>9. ASSUME changes = 0
      PROVE  SearchInv(c)'
  <2>1. SearchInv(c) /\ Selected(c)' = Selected(c) /\ Account(c, origin[c])' = Account(c, origin[c])
    BY <1>5, <1>9, OwnSelected DEF Account
  <2>2. d.account = FlowAccount(c) /\ d.name = opts[c].name
    BY <1>3 DEF NewDestination
  <2> QED
    BY <1>1, <1>5, <1>6, <2>1, <2>2 DEF SearchInv, Searched
<1> QED
  BY <1>1, <1>5, <1>7, <1>8, <1>9, LocalStepKeeps, StepOfCall

\* A finished object is returned as it is, but for the certificate.
LEMMA FinishKeepsResult ==
  ASSUME ResultInv, IInv', NEW c \in Calls, NEW fetched \in BOOLEAN, Finish(c, fetched)
  PROVE  ResultInv'
<1> DEFINE n == [dest[c] EXCEPT !.certificate = fetched]
<1> USE DEF ResultInv
<1>1. pc[c] = "finish" /\ Built(c) /\ dest[c] \in Destination
  BY DEF Finish, IInv, CallInv, Built, TypeOK
<1>2. PICK d \in Destination : /\ d = n /\ d.account = dest[c].account
                              /\ d.name = dest[c].name /\ d.token = dest[c].token
  <2>1. /\ n \in Destination /\ n.account = dest[c].account
        /\ n.name = dest[c].name /\ n.token = dest[c].token
    BY <1>1 DEF Destination
  <2> QED
    BY <2>1
<1>3. /\ dest' = [dest EXCEPT ![c] = d]
      /\ pc' = [pc EXCEPT ![c] = "done"]
      /\ result' = [result EXCEPT ![c] = c]
      /\ UNCHANGED <<now, remote, changes, opts, service, origin, found>>
  BY <1>2 DEF Finish, Goto, Environment
<1>4. pc'[c] = "done" /\ result'[c] = c /\ dest'[c] = d
  BY <1>3 DEF IInv, TypeOK
<1>5. LocalStep(c)
  BY <1>3 DEF LocalStep, Unchanged, IInv, TypeOK
<1>6. Account(c, origin[c])' = Account(c, origin[c])
  BY <1>3 DEF Account
<1>7. ObjectInv(c)'
  <2>1. HasAnswer(dest[c])' <=> HasAnswer(dest[c])
    BY <1>2, <1>4 DEF HasAnswer, Configured
  <2> QED
    BY <1>1, <1>2, <1>3, <1>4, <1>6, <2>1 DEF ObjectInv, Built
<1>8. ASSUME changes = 0
      PROVE  SearchInv(c)'
  <2>1. SearchInv(c) /\ Selected(c)' = Selected(c)
    BY <1>3, <1>8, OwnSelected
  <2>2. Account(c, origin[c]) = Selected(c) /\ dest[c].name \in remote[dest[c].account]
    BY <1>1, <2>1 DEF SearchInv, Searched, Built
  <2> QED
    BY <1>1, <1>2, <1>3, <1>4, <1>6, <2>1, <2>2, DestinationAssumption
    DEF SearchInv, Searched, Built
<1> QED
  BY <1>1, <1>3, <1>5, <1>7, <1>8, LocalStepKeeps, StepOfCall

\* The clock and clear() leave calls and accounts alone; once an account has
\* changed, nothing is said about searches any more.
LEMMA QuietKeepsResult ==
  ASSUME ResultInv, IInv', UNCHANGED <<pc, opts, service, origin, found, dest, result>>,
         UNCHANGED <<remote, changes>> \/ changes' # 0
  PROVE  ResultInv'
<1> USE DEF ResultInv
<1>1. ASSUME NEW c \in Calls
      PROVE  ObjectInv(c)'
  BY DEF ObjectInv, HasAnswer, Configured, Account
<1>2. ASSUME NEW c \in Calls, changes' = 0
      PROVE  SearchInv(c)'
  <2>1. UNCHANGED <<remote, changes>> /\ SearchInv(c)
    BY <1>2
  <2>2. Selected(c)' = Selected(c) /\ Account(c, origin[c])' = Account(c, origin[c])
    BY <2>1, OwnSelected DEF Account
  <2> QED
    BY <2>1, <2>2 DEF SearchInv
<1> QED
  BY <1>1, <1>2

\* No call has begun, so that none has a result.
LEMMA InitResultInv == Init => ResultInv
BY InitIInv DEF Init, ResultInv, ObjectInv, SearchInv, Searched

\* Every step keeps what is known about results.
LEMMA NextKeepsResult ==
  ASSUME ResultInv, DocumentedOptions, [Next]_vars
  PROVE  ResultInv'
<1>1. IInv'
  BY NextPreserves DEF ResultInv
<1>2. CASE UNCHANGED vars \/ Clear \/ Tick
  BY <1>1, <1>2, QuietKeepsResult DEF vars, Clear, Tick, Environment
<1>3. ASSUME NEW t \in Tenants, NEW n \in Names, Change(t, n)
      PROVE  ResultInv'
  <2>1. changes' # 0
    BY <1>3 DEF Change, ResultInv, IInv, TypeOK
  <2> QED
    BY <1>1, <1>3, <2>1, QuietKeepsResult DEF Change
<1>4. ASSUME NEW c \in Calls, Step(c)
      PROVE  ResultInv'
  <2>1. ASSUME NEW o \in OptionSets, Call(c, o)
        PROVE  ResultInv'
    <3>1. pc'[c] \in {"exchange", "tokens"} /\ pc[c] # "done" /\ LocalStep(c)
      BY <2>1 DEF Call, Goto, LocalStep, Unchanged, ResultInv, IInv, TypeOK
    <3> QED
      BY <1>1, <2>1, <3>1, BeforeSearch DEF Call, Environment
  <2>2. ASSUME ExchangeToken(c)
        PROVE  ResultInv'
    <3>1. pc'[c] = "tokens" /\ pc[c] # "done" /\ LocalStep(c)
      BY <2>2 DEF ExchangeToken, Goto, LocalStep, Unchanged, ResultInv, IInv, TypeOK
    <3> QED
      BY <1>1, <2>2, <3>1, BeforeSearch DEF ExchangeToken, Environment
  <2>3. ASSUME Fail(c)
        PROVE  ResultInv'
    <3>1. pc'[c] = "failed" /\ pc[c] # "done" /\ LocalStep(c)
      BY <2>3 DEF Fail, AsksService, Missed, Goto, LocalStep, Unchanged, ResultInv, IInv, TypeOK
    <3> QED
      BY <1>1, <2>3, <3>1, BeforeSearch DEF Fail, Environment
  <2>4. ASSUME UseFound(c)
        PROVE  ResultInv'
    BY <1>1, <2>4, UseOwnKeepsResult, UseSharedKeepsResult
  <2> QED
    BY <1>1, <1>4, <2>1, <2>2, <2>3, <2>4, GetTokensKeepsResult, SearchCacheKeepsResult,
       MissCacheKeepsResult, SearchServiceKeepsResult, FetchKeepsResult, FinishKeepsResult
    DEF Step
<1> QED
  BY <1>2, <1>3, <1>4 DEF Next

\* The invariant of the objects and searches holds in every state.
LEMMA ResultInvariant == DocumentedOptions => (Spec => []ResultInv)
<1> SUFFICES ASSUME DocumentedOptions
             PROVE  Spec => []ResultInv
  OBVIOUS
<1>1. Init => ResultInv
  BY InitResultInv
<1>2. ResultInv /\ [Next]_vars => ResultInv'
  BY NextKeepsResult
<1> QED
  BY <1>1, <1>2, PTL DEF Spec

\* searchDestinationWithSelectionStrategyAndTokens(): searching one account
\* after the other, from the cache or not, gives what the strategy picks from
\* both, as long as the accounts stay as they are.
THEOREM DestinationIsSelected == DocumentedOptions => (Spec => []ResultIsSelected)
<1>1. ResultInv => ResultIsSelected
  BY DEF ResultInv, SearchInv, ResultIsSelected
<1> QED
  BY <1>1, ResultInvariant, PTL

\* getDestinationFromDestinationService(): what a call returns has the answer of
\* the flow its authentication needs, also when another call built it.
THEOREM DestinationReturnedAfterFlow == DocumentedOptions => (Spec => []ReturnedAfterFlow)
<1>1. ResultInv => ReturnedAfterFlow
  <2> SUFFICES ASSUME ResultInv, NEW c \in Calls, pc[c] = "done", result[c] # Null
               PROVE  HasAnswer(dest[result[c]])
    BY DEF ReturnedAfterFlow, HasAnswer
  <2>1. PICK e \in Calls : e = result[c] /\ pc[e] = "done" /\ result[e] = e
    BY DEF ResultInv, IInv, CallInv, Returned
  <2> QED
    BY <2>1 DEF ResultInv, ObjectInv
<1> QED
  BY <1>1, ResultInvariant, PTL

\* setForwardedAuthTokenIfNeeded() is called for every destination found: a
\* call leaves with its own token, also for an object that others share.
THEOREM DestinationForwardsOwnToken == DocumentedOptions => (Spec => ForwardsOwnToken)
<1> DEFINE Forwards(c) ==
      pc[c] # "done" /\ pc'[c] = "done" /\ result'[c] # Null =>
        LET d == dest'[result'[c]] IN
          Configured(d).forward /\ opts[c].jwt # Undefined
            => d.token = ForwardedToken(opts[c].jwt)
<1> SUFFICES ASSUME DocumentedOptions
             PROVE  Spec => ForwardsOwnToken
  OBVIOUS
<1>1. ASSUME ResultInv, [Next]_vars, NEW c \in Calls
      PROVE  Forwards(c)
  <2> SUFFICES ASSUME pc[c] # "done", pc'[c] = "done", result'[c] # Null,
                      Configured(dest'[result'[c]]).forward, opts[c].jwt # Undefined
               PROVE  dest'[result'[c]].token = ForwardedToken(opts[c].jwt)
    OBVIOUS
  <2>1. \/ UseFound(c) /\ found[c] # c
        \/ \E fetched \in BOOLEAN : Finish(c, fetched)
    <3>1. PICK x \in Calls : Step(x)
      BY <1>1 DEF Next, vars, Clear, Tick, Change
    <3>2. x = c
      <4>1. PICK label : pc' = [pc EXCEPT ![x] = label]
        BY <3>1
        DEF Step, Call, ExchangeToken, GetTokens, SearchCache, MissCache, SearchService, AfterSearch,
            UseFound, FetchWithToken, Finish, Fail, Goto
      <4> QED
        BY <1>1, <4>1 DEF ResultInv, IInv, TypeOK
    <3>3. ASSUME UseFound(c), found[c] = c
          PROVE  FALSE
      <4>1. pc' = [pc EXCEPT ![c] = FirstFlow(c, SetForwardedAuthTokenIfNeeded(dest[c], opts[c].jwt))]
        BY <3>3 DEF UseFound, Goto
      <4> QED
        BY <1>1, <4>1, FlowLabels DEF ResultInv, IInv, TypeOK
    <3>4. ASSUME FetchWithToken(c)
          PROVE  FALSE
      BY <1>1, <3>4, FlowLabels DEF FetchWithToken, Goto, ResultInv, IInv, TypeOK
    <3>5. ASSUME \/ \E o \in OptionSets : Call(c, o)
                 \/ ExchangeToken(c)
                 \/ Fail(c)
          PROVE  FALSE
      BY <1>1, <3>5 DEF Call, ExchangeToken, Fail, Goto, ResultInv, IInv, TypeOK
    <3>9. ASSUME NEW from, MissCache(c, from)
          PROVE  FALSE
      BY <1>1, <3>9 DEF MissCache, Missed, Goto, ResultInv, IInv, TypeOK
    <3>6. ASSUME NEW serviceJwt, GetTokens(c, serviceJwt)
          PROVE  FALSE
      <4>1. \/ pc' = [pc EXCEPT ![c] = "subscriber"]
            \/ pc' = [pc EXCEPT ![c] = "provider"]
            \/ result' = [result EXCEPT ![c] = Null]
        BY <3>6 DEF GetTokens, Goto
      <4> QED
        BY <1>1, <4>1 DEF ResultInv, IInv, TypeOK
    <3>7. ASSUME NEW from, NEW isFound, AfterSearch(c, from, isFound)
          PROVE  FALSE
      <4>1. \/ pc' = [pc EXCEPT ![c] = "provider"]
            \/ pc' = [pc EXCEPT ![c] = "found"]
            \/ result' = [result EXCEPT ![c] = Null]
        BY <3>7 DEF AfterSearch, Goto
      <4> QED
        BY <1>1, <4>1 DEF ResultInv, IInv, TypeOK
    <3>8. ASSUME NEW from, SearchCache(c, from) \/ SearchService(c, from)
          PROVE  FALSE
      <4>1. \E isFound : AfterSearch(c, from, isFound)
        BY <3>8 DEF SearchCache, SearchService
      <4> QED
        BY <3>7, <4>1
    <3> QED
      BY <3>1, <3>2, <3>3, <3>4, <3>5, <3>6, <3>8, <3>9 DEF Step
  <2>2. CASE UseFound(c) /\ found[c] # c
    <3>1. PICK e \in Calls : e = found[c] /\ dest[e] # Undefined
      BY <1>1, <2>2 DEF UseFound, ResultInv, IInv, CallInv, Shared, Built
    <3>2. dest[e] \in Destination /\ opts[c] \in Options
      BY <1>1, <2>2, <3>1 DEF UseFound, ResultInv, IInv, CallInv, TypeOK
    <3>3. PICK f \in Destination :
            /\ f = SetForwardedAuthTokenIfNeeded(dest[e], opts[c].jwt)
            /\ f.account = dest[e].account /\ f.name = dest[e].name
      BY <3>2, ForwardedDestination
    <3>4. dest'[e] = f /\ result'[c] = e
      BY <1>1, <2>2, <3>1, <3>3 DEF UseFound, ResultInv, IInv, TypeOK
    <3>5. Configured(dest[e]).forward
      BY <3>3, <3>4 DEF Configured
    <3> QED
      BY <3>2, <3>3, <3>4, <3>5 DEF SetForwardedAuthTokenIfNeeded, Destination
  <2>3. CASE \E fetched \in BOOLEAN : Finish(c, fetched)
    <3>1. PICK fetched \in BOOLEAN : Finish(c, fetched)
      BY <2>3
    <3>2. pc[c] = "finish" /\ dest[c] \in Destination
      BY <1>1, <3>1 DEF Finish, ResultInv, IInv, CallInv, Built, TypeOK
    <3>3. dest'[c] = [dest[c] EXCEPT !.certificate = fetched] /\ result'[c] = c
      BY <1>1, <3>1 DEF Finish, ResultInv, IInv, TypeOK
    <3>4. dest'[c].account = dest[c].account /\ dest'[c].name = dest[c].name
          /\ dest'[c].token = dest[c].token
      BY <3>2, <3>3 DEF Destination
    <3> QED
      BY <1>1, <3>2, <3>3, <3>4 DEF Configured, ResultInv, ObjectInv
  <2> QED
    BY <2>1, <2>2, <2>3
<1>2. ResultInv /\ [Next]_vars => [\A c \in Calls : Forwards(c)]_vars
  BY <1>1
<1> QED
  BY <1>2, ResultInvariant, PTL DEF Spec, ForwardsOwnToken
=============================================================================
