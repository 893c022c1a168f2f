------------------------- MODULE ServiceTokenProofs -------------------------
(***************************************************************************)
(* serviceToken() never mixes tenants or services, for any number of       *)
(* concurrent callers, tenants, subdomains and services.                   *)
(***************************************************************************)
EXTENDS ServiceToken, CacheProofs

\* The key built for a request names the tenant a direct grant would use.
LEMMA KeyNamesGrantTenant ==
  ASSUME NEW req \in Requests,
         GetCacheKey(TenantForCaching(req), req.client) # Undefined
  PROVE  LET key == GetCacheKey(TenantForCaching(req), req.client) IN
           /\ key \in (Tenants \cup Subdomains \cup {DefaultTenantId}) \X Clients
           /\ KeyTenant(key[1]) = GrantTenant(req)
           /\ key[2] = req.client
<1> USE ServiceTokenAssumption
<1>1. req \in Request
  OBVIOUS
<1>2. CASE req.jwt = Undefined
  BY <1>1, <1>2 DEF Request, GetCacheKey, TenantForCaching, KeyTenant, GrantTenant,
                    GetTenantId, GetSubdomain, Or
<1>3. CASE req.jwt \in Jwt /\ req.jwt # Undefined
  BY <1>1, <1>3 DEF Request, Jwt, GetCacheKey, TenantForCaching, KeyTenant, GrantTenant,
                    GetTenantId, GetSubdomain, Or
<1> QED
  BY <1>1, <1>2, <1>3 DEF Request

\* XSUAA's answer to a request is a token of the requested service.
LEMMA GrantTenantType ==
  ASSUME NEW req \in Requests
  PROVE  GrantTenant(req) \in Tenants /\ req.client \in Clients
BY ServiceTokenAssumption DEF Request, Jwt, GrantTenant, GetTenantId, GetSubdomain

\* Storing a token with a numeric, absent or zero lifetime yields a well-formed
\* entry: the expiry is a point in time.
LEMMA CacheTokenEntry ==
  ASSUME TypeOK, NEW req \in Requests, NEW tok \in Token,
         NEW k \in DOMAIN CacheToken(req, tok)
  PROVE  LET key == GetCacheKey(TenantForCaching(req), req.client) IN
           \/ /\ key # Undefined /\ k = key
              /\ CacheToken(req, tok)[k] \in CacheEntry(Token)
              /\ CacheToken(req, tok)[k].entry = tok
           \/ /\ k \in DOMAIN cache
              /\ CacheToken(req, tok)[k] = cache[k]
<1> DEFINE key == GetCacheKey(TenantForCaching(req), req.client)
           item == [entry   |-> tok,
                    expires |-> IF tok.lifetime \in {0, Undefined}
                                  THEN Undefined ELSE now + tok.lifetime]
<1>1. CacheToken(req, tok) = Set(cache, key, item, Validity, now)
  BY DEF CacheToken
<1>2. CASE key = Undefined
  BY <1>1, <1>2 DEF Set
<1>3. CASE key # Undefined
  <2>1. CASE k # key
    BY <1>1, <1>3, <2>1 DEF Set
  <2>2. CASE k = key
    <3>1. CacheToken(req, tok)[k] = StoredItem(item, Validity, now)
      BY <1>1, <1>3, <2>2 DEF Set
    <3>2. StoredItem(item, Validity, now) \in CacheEntry(Token)
      <4>1. now \in Nat /\ Validity \in Nat \ {0}
        BY ServiceTokenAssumption DEF TypeOK
      <4>2. tok.lifetime \notin {0, Undefined} => tok.lifetime \in Nat
        BY ServiceTokenAssumption DEF Token
      <4>3. StoredItem(item, Validity, now).expires \in Nat
        BY <4>1, <4>2, UndefinedAssumption DEF StoredItem, InferDefaultExpirationTime
      <4> QED
        BY <4>3 DEF StoredItem, CacheEntry, Expiry
    <3>3. StoredItem(item, Validity, now).entry = tok
      BY DEF StoredItem
    <3> QED
      BY <1>3, <2>2, <3>1, <3>2, <3>3
  <2> QED
    BY <2>1, <2>2
<1> QED
  BY <1>2, <1>3

\* Nothing is cached, no call has begun.
LEMMA InitIInv == Init => IInv
BY ServiceTokenAssumption
DEF Init, IInv, TypeOK, KeysWellFormed, CacheIsolation, PendingMatches, EmptyCache

\* Receive() is the only action that fills the cache.
LEMMA ReceivePreserves ==
  ASSUME IInv, NEW c \in Callers, Receive(c)
  PROVE  IInv'
<1> USE DEF IInv
<1> DEFINE tok == [token[c] EXCEPT !.received = now]
           req == request[c]
           key == GetCacheKey(TenantForCaching(req), req.client)
<1>1. /\ req \in Requests
      /\ token[c] \in Token
      /\ tok \in Token
      /\ tok.tenant = GrantTenant(req)
      /\ tok.client = req.client
  BY DEF Receive, PendingMatches, Token, TypeOK
<1>2. /\ token' = [token EXCEPT ![c] = tok]
      /\ status' = [status EXCEPT ![c] = "done"]
      /\ now' = now /\ request' = request
      /\ cache' = cache \/ cache' = CacheToken(req, tok)
  BY DEF Receive
<1>3. ASSUME NEW k \in DOMAIN cache'
      PROVE  /\ k \in (Tenants \cup Subdomains \cup {DefaultTenantId}) \X Clients
             /\ cache'[k] \in CacheEntry(Token)
             /\ cache'[k].entry.tenant = KeyTenant(k[1])
             /\ cache'[k].entry.client = k[2]
  <2>1. CASE k \in DOMAIN cache /\ cache'[k] = cache[k]
    BY <2>1 DEF TypeOK, KeysWellFormed, CacheIsolation
  <2>2. CASE /\ key # Undefined /\ k = key
             /\ cache'[k] \in CacheEntry(Token)
             /\ cache'[k].entry = tok
    BY <1>1, <2>2, KeyNamesGrantTenant
  <2> QED
    BY <1>1, <1>2, <1>3, <2>1, <2>2, CacheTokenEntry
<1>4. TypeOK'
  BY <1>1, <1>2, <1>3 DEF TypeOK
<1>5. KeysWellFormed' /\ CacheIsolation'
  BY <1>3 DEF KeysWellFormed, CacheIsolation
<1>6. PendingMatches'
  BY <1>1, <1>2 DEF PendingMatches, TypeOK
<1> QED
  BY <1>4, <1>5, <1>6

\* A hit hands out the entry of the caller's own key.
LEMMA HitPreserves ==
  ASSUME IInv, NEW c \in Callers, NEW req \in Requests, CallHit(c, req)
  PROVE  IInv'
<1> USE DEF IInv
<1> DEFINE key == GetCacheKey(TenantForCaching(req), req.client)
<1>1. key \in DOMAIN cache /\ GetToken(req) = cache[key].entry
  BY GetReturnsEntry DEF CallHit, GetToken
<1>2. key # Undefined
  BY <1>1, GetReturnsEntry DEF CallHit, GetToken, Get
<1>3. /\ GetToken(req) \in Token
      /\ GetToken(req).tenant = GrantTenant(req)
      /\ GetToken(req).client = req.client
  BY <1>1, <1>2, KeyNamesGrantTenant DEF TypeOK, CacheEntry, CacheIsolation
<1>4. TypeOK' /\ KeysWellFormed' /\ CacheIsolation'
  BY <1>3 DEF CallHit, TypeOK, KeysWellFormed, CacheIsolation
<1>5. PendingMatches'
  BY <1>3 DEF CallHit, PendingMatches, TypeOK
<1> QED
  BY <1>4, <1>5

\* Every step keeps the invariant.
LEMMA StepPreservesIInv == IInv /\ [Next]_vars => IInv'
<1> SUFFICES ASSUME IInv, [Next]_vars PROVE IInv'
  OBVIOUS
<1> USE DEF IInv
<1>1. ASSUME NEW c \in Callers, NEW req \in Requests, CallHit(c, req)
      PROVE  IInv'
  BY <1>1, HitPreserves
<1>2. ASSUME NEW c \in Callers, NEW req \in Requests, CallMiss(c, req)
      PROVE  IInv'
  <2>1. TypeOK' /\ KeysWellFormed' /\ CacheIsolation'
    BY <1>2 DEF CallMiss, TypeOK, KeysWellFormed, CacheIsolation
  <2>2. PendingMatches'
    BY <1>2 DEF CallMiss, PendingMatches, TypeOK
  <2> QED
    BY <2>1, <2>2
<1>3. ASSUME NEW c \in Callers, NEW lifetime \in Lifetimes, Issue(c, lifetime)
      PROVE  IInv'
  <2> DEFINE tok == [tenant |-> GrantTenant(request[c]), client |-> request[c].client,
                     lifetime |-> lifetime, received |-> Undefined]
  <2>1. request[c] \in Requests
    BY <1>3 DEF Issue, PendingMatches
  <2>2. tok \in Token
    BY <2>1, GrantTenantType DEF Token
  <2>3. TypeOK' /\ KeysWellFormed' /\ CacheIsolation'
    BY <1>3, <2>2 DEF Issue, TypeOK, KeysWellFormed, CacheIsolation
  <2>4. PendingMatches'
    BY <1>3, <2>2 DEF Issue, PendingMatches, TypeOK
  <2> QED
    BY <2>3, <2>4
<1>4. ASSUME NEW c \in Callers, Receive(c)
      PROVE  IInv'
  BY <1>4, ReceivePreserves
<1>5. ASSUME NEW c \in Callers, Fail(c)
      PROVE  IInv'
  <2>1. TypeOK' /\ KeysWellFormed' /\ CacheIsolation'
    BY <1>5 DEF Fail, TypeOK, KeysWellFormed, CacheIsolation
  <2>2. PendingMatches'
    BY <1>5 DEF Fail, PendingMatches, TypeOK
  <2> QED
    BY <2>1, <2>2
<1>6. CASE Clear
  BY <1>6 DEF Clear, EmptyCache, TypeOK, KeysWellFormed, CacheIsolation, PendingMatches
<1>7. CASE Tick
  BY <1>7, ServiceTokenAssumption
  DEF Tick, TypeOK, KeysWellFormed, CacheIsolation, PendingMatches
<1>8. CASE UNCHANGED vars
  BY <1>8 DEF vars, TypeOK, KeysWellFormed, CacheIsolation, PendingMatches
<1> QED
  BY <1>1, <1>2, <1>3, <1>4, <1>5, <1>6, <1>7, <1>8 DEF Next

\* serviceToken() and its cache keep their types and never mix tenants or
\* services: the invariant behind the three theorems below.
THEOREM ServiceTokenInvariant == Spec => []IInv
BY InitIInv, StepPreservesIInv, PTL DEF Spec

\* The cache, the tokens under way and the results of serviceToken() keep their
\* types: an entry is always a token with an expiry.
THEOREM ServiceTokenTypes == Spec => []TypeOK
<1>1. IInv => TypeOK
  BY DEF IInv
<1> QED
  BY <1>1, ServiceTokenInvariant, PTL

\* The client credentials cache is isolated by tenant and client.
THEOREM ServiceTokenCacheIsolation == Spec => []CacheIsolation
<1>1. IInv => CacheIsolation
  BY DEF IInv
<1> QED
  BY <1>1, ServiceTokenInvariant, PTL

\* Every token serviceToken() returns is one for the caller's tenant and service.
THEOREM ServiceTokenMatchesRequest == Spec => []TokenMatchesRequest
<1>1. IInv => TokenMatchesRequest
  BY DEF IInv, PendingMatches, TokenMatchesRequest
<1> QED
  BY <1>1, ServiceTokenInvariant, PTL

-----------------------------------------------------------------------------
(* Lifetimes                                                               *)

\* An entry expires when its token, counted from its receipt, does.
FreshEntries ==
  \A k \in DOMAIN cache :
    LET tok == cache[k].entry IN
      /\ tok.received \in Nat
      /\ cache[k].expires = tok.received + ServingTime(tok)

\* The time a token is handed out for is a number.
LEMMA ServingTimeType ==
  ASSUME NEW tok \in Token
  PROVE  ServingTime(tok) \in Nat
BY ServiceTokenAssumption DEF ServingTime, Token

\* A token is cached with the moment at which its time is over.
LEMMA CacheTokenIsFresh ==
  ASSUME TypeOK, FreshEntries, NEW req \in Requests, NEW tok \in Token, tok.received = now,
         NEW k \in DOMAIN CacheToken(req, tok)
  PROVE  LET item == CacheToken(req, tok)[k] IN
           /\ item.entry.received \in Nat
           /\ item.expires = item.entry.received + ServingTime(item.entry)
<1> DEFINE key == GetCacheKey(TenantForCaching(req), req.client)
           item == [entry   |-> tok,
                    expires |-> IF tok.lifetime \in {0, Undefined}
                                  THEN Undefined ELSE now + tok.lifetime]
<1>1. CacheToken(req, tok) = Set(cache, key, item, Validity, now)
  BY DEF CacheToken
<1>2. CASE key = Undefined \/ k # key
  <2>1. k \in DOMAIN cache /\ CacheToken(req, tok)[k] = cache[k]
    BY <1>1, <1>2 DEF Set
  <2> QED
    BY <2>1 DEF FreshEntries
<1>3. CASE key # Undefined /\ k = key
  <2>1. CacheToken(req, tok)[k] = StoredItem(item, Validity, now)
    BY <1>1, <1>3 DEF Set
  <2>2. now \in Nat /\ Validity \in Nat \ {0}
    BY ServiceTokenAssumption DEF TypeOK
  <2>3. tok.lifetime \notin {0, Undefined} => tok.lifetime \in Nat
    BY ServiceTokenAssumption DEF Token
  <2>4. /\ StoredItem(item, Validity, now).entry = tok
        /\ StoredItem(item, Validity, now).expires = now + ServingTime(tok)
    BY <2>2, <2>3, UndefinedAssumption DEF StoredItem, InferDefaultExpirationTime, ServingTime
  <2> QED
    BY <2>1, <2>2, <2>4
<1> QED
  BY <1>2, <1>3

\* Only a received token enters the cache.
LEMMA StepKeepsFreshEntries ==
  ASSUME IInv, FreshEntries, [Next]_vars
  PROVE  FreshEntries'
<1>1. ASSUME NEW c \in Callers, Receive(c)
      PROVE  FreshEntries'
  <2> DEFINE tok == [token[c] EXCEPT !.received = now]
  <2>1. TypeOK /\ request[c] \in Requests /\ token[c] \in Token
    BY <1>1 DEF IInv, Receive, PendingMatches
  <2>2. now \in Nat
    BY <2>1 DEF TypeOK
  <2>3. tok \in Token /\ tok.received = now
    BY <2>1, <2>2 DEF Token
  <2>4. cache' = cache \/ cache' = CacheToken(request[c], tok)
    BY <1>1 DEF Receive
  <2> HIDE DEF tok
  <2> QED
    BY <2>1, <2>3, <2>4, CacheTokenIsFresh DEF FreshEntries, ServingTime
<1>2. CASE Clear
  BY <1>2 DEF Clear, EmptyCache, FreshEntries
<1>3. CASE UNCHANGED cache
  BY <1>3 DEF FreshEntries, ServingTime
<1> QED
  BY <1>1, <1>2, <1>3 DEF Next, vars, CallHit, CallMiss, Issue, Fail, Tick

\* serviceToken() ends with a token whose time is not over: a cached one has
\* not expired, a new one has just arrived.
THEOREM ServiceTokenServedInTime == Spec => ServedWithinLifetime
<1> DEFINE Served(c) == status[c] # "done" /\ status'[c] = "done"
                          => now <= token'[c].received + ServingTime(token'[c])
<1>1. Init => FreshEntries
  BY DEF Init, EmptyCache, FreshEntries
<1>2. IInv /\ FreshEntries /\ [Next]_vars => FreshEntries'
  BY StepKeepsFreshEntries
<1>3. IInv /\ FreshEntries /\ [Next]_vars => [\A c \in Callers : Served(c)]_vars
  <2> SUFFICES ASSUME IInv, FreshEntries, Next, NEW c \in Callers,
                      status[c] # "done", status'[c] = "done"
               PROVE  now <= token'[c].received + ServingTime(token'[c])
    BY DEF Served
  <2>1. now \in Nat /\ status \in [Callers -> {"idle", "fetching", "issued", "done", "failed"}]
        /\ token \in [Callers -> Token \cup {Undefined}]
    BY DEF IInv, TypeOK
  <2>2. ASSUME NEW req \in Requests, CallHit(c, req)
        PROVE  now <= token'[c].received + ServingTime(token'[c])
    <3> DEFINE key == GetCacheKey(TenantForCaching(req), req.client)
    <3>1. /\ key \in DOMAIN cache /\ token'[c] = cache[key].entry
          /\ ~IsExpired(cache[key], now)
      BY <2>1, <2>2 DEF CallHit, GetToken, Get, HasKey
    <3>2. /\ cache[key].entry.received \in Nat /\ cache[key].entry \in Token
          /\ cache[key].expires = cache[key].entry.received + ServingTime(cache[key].entry)
      BY <3>1 DEF FreshEntries, IInv, TypeOK, CacheEntry
    <3>3. ServingTime(cache[key].entry) \in Nat
      BY <3>2, ServingTimeType
    <3>4. ~(cache[key].expires < now) /\ cache[key].expires \in Nat
      BY <3>1, <3>2, <3>3 DEF IsExpired
    <3> QED
      BY <2>1, <3>1, <3>2, <3>3, <3>4 DEF ServingTime
  <2>3. CASE Receive(c)
    <3> DEFINE tok == [token[c] EXCEPT !.received = now]
    <3>1. tok \in Token /\ tok.received = now /\ token'[c] = tok
      BY <2>1, <2>3 DEF Receive, IInv, PendingMatches, Token
    <3>2. ServingTime(tok) \in Nat
      BY <3>1, ServingTimeType
    <3> HIDE DEF tok
    <3>3. now <= tok.received + ServingTime(tok)
      BY <2>1, <3>1, <3>2
    <3> QED
      BY <3>1, <3>3 DEF ServingTime
  <2>4. ASSUME NEW d \in Callers, d # c,
               \/ \E req \in Requests : CallHit(d, req) \/ CallMiss(d, req)
               \/ \E lifetime \in Lifetimes : Issue(d, lifetime)
               \/ Receive(d) \/ Fail(d)
        PROVE  FALSE
    BY <2>1, <2>4 DEF CallHit, CallMiss, Issue, Receive, Fail
  <2>5. ~(\E req \in Requests : CallMiss(c, req)) /\ ~Fail(c)
        /\ ~(\E lifetime \in Lifetimes : Issue(c, lifetime))
    BY <2>1 DEF CallMiss, Issue, Fail
  <2>6. ~Clear /\ ~Tick
    BY DEF Clear, Tick
  <2> QED
    BY <2>2, <2>3, <2>4, <2>5, <2>6 DEF Next
<1> QED
  BY <1>1, <1>2, <1>3, ServiceTokenInvariant, PTL DEF Spec, ServedWithinLifetime, Served
=============================================================================
