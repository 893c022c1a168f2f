---------------------------- MODULE ServiceToken ----------------------------
(***************************************************************************)
(* serviceToken() of token-accessor.ts with the process-wide               *)
(* clientCredentialsTokenCache.  Every call runs synchronously up to the   *)
(* request to XSUAA; between the request and the answer other calls, a     *)
(* clear() of the cache and the clock interleave.                          *)
(***************************************************************************)
EXTENDS Cache

CONSTANTS Callers,       \* concurrent calls of serviceToken()
          Tenants,       \* tenant identifiers (zid, app_tid)
          Subdomains,    \* subdomains (ext_attr.zdn, or taken from iss)
          TenantOf,      \* the tenant XSUAA resolves a subdomain to
          Clients,       \* clientid of the bound services
          HomeTenant,    \* the tenant the service bindings belong to
          BindingTenant, \* getTenantIdFromBinding(): HomeTenant or Undefined
          DefaultTenantId, \* 'provider-tenant'
          Requests,      \* the requests callers make, a subset of Request
          Lifetimes,     \* values of expires_in, Undefined when it is absent
          Validity,      \* default validity of the cache (5 minutes)
          MaxTime        \* bound on the clock

VARIABLES now,      \* Date.now()
          cache,    \* clientCredentialsTokenCache
          status,   \* progress of each call
          request,  \* what each call was called with
          token     \* the token issued for a call, later the one it returned

vars == <<now, cache, status, request, token>>

-----------------------------------------------------------------------------
(* Requests and tokens                                                     *)

\* A decoded JWT as far as tenants are concerned.  XSUAA tokens carry both
\* fields, IAS tokens the tenant only, the `iss' option the subdomain only.
Jwt == { j \in [zid : Tenants \cup {Undefined}, zdn : Subdomains \cup {Undefined}] :
           j.zid # Undefined /\ j.zdn # Undefined => TenantOf[j.zdn] = j.zid }

Request == [jwt : Jwt \cup {Undefined}, client : Clients, useCache : BOOLEAN]

\* `received' is the time at which the response reached serviceToken(); it is
\* not part of the JavaScript object and only read by properties.
Token == [tenant : Tenants, client : Clients, lifetime : Lifetimes,
          received : Nat \cup {Undefined}]

ASSUME ServiceTokenAssumption ==
  /\ TenantOf \in [Subdomains -> Tenants]
  /\ HomeTenant \in Tenants
  /\ BindingTenant \in {HomeTenant, Undefined}
  /\ Tenants \cap Subdomains = {}
  /\ Undefined \notin Tenants \cup Subdomains \cup Clients
  /\ DefaultTenantId \notin Tenants \cup Subdomains \cup {Undefined}
  /\ Requests \subseteq Request
  /\ Lifetimes \subseteq Nat \cup {Undefined}
  /\ Validity \in Nat \ {0}
  /\ MaxTime \in Nat

GetTenantId(jwt) == IF jwt = Undefined THEN Undefined ELSE jwt.zid
GetSubdomain(jwt) == IF jwt = Undefined THEN Undefined ELSE jwt.zdn

Or(a, b) == IF a # Undefined THEN a ELSE b

\* The tenant part of the cache key.
TenantForCaching(req) ==
  IF req.jwt # Undefined
    THEN Or(GetTenantId(req.jwt), GetSubdomain(req.jwt))
    ELSE Or(BindingTenant, DefaultTenantId)

\* Mutant: only the client identifies an entry.
GetCacheKeyWithoutTenant(tenantId, clientId) ==
  IF tenantId = Undefined \/ clientId = Undefined
    THEN Undefined
    ELSE <<DefaultTenantId, clientId>>

\* [tenantId, clientId].join(':'); identifiers hold no colon.
GetCacheKey(tenantId, clientId) ==
  IF tenantId = Undefined \/ clientId = Undefined
    THEN Undefined
    ELSE <<tenantId, clientId>>

GetToken(req) == Get(cache, GetCacheKey(TenantForCaching(req), req.client), now)

\* `token.expires_in ? Date.now() + ... : undefined': 0 counts as absent.
CacheToken(req, tok) ==
  Set(cache, GetCacheKey(TenantForCaching(req), req.client),
      [entry   |-> tok,
       expires |-> IF tok.lifetime \in {0, Undefined}
                     THEN Undefined
                     ELSE now + tok.lifetime],
      Validity, now)

\* The tenant XSUAA issues the token for: the zid, else the subdomain's
\* tenant, else the tenant of the credentials.
GrantTenant(req) ==
  IF GetTenantId(req.jwt) # Undefined THEN GetTenantId(req.jwt)
  ELSE IF GetSubdomain(req.jwt) # Undefined THEN TenantOf[GetSubdomain(req.jwt)]
  ELSE HomeTenant

-----------------------------------------------------------------------------
(* Actions                                                                 *)

Init ==
  /\ now = 0
  /\ cache = EmptyCache
  /\ status = [c \in Callers |-> "idle"]
  /\ request = [c \in Callers |-> Undefined]
  /\ token = [c \in Callers |-> Undefined]

\* serviceToken() up to the first await: a valid cached token ends the call.
CallHit(c, req) ==
  /\ status[c] = "idle"
  /\ req.useCache
  /\ GetToken(req) # Undefined
  /\ request' = [request EXCEPT ![c] = req]
  /\ status' = [status EXCEPT ![c] = "done"]
  /\ token' = [token EXCEPT ![c] = GetToken(req)]
  /\ UNCHANGED <<now, cache>>

\* ... otherwise the client credentials grant is requested.
CallMiss(c, req) ==
  /\ status[c] = "idle"
  /\ ~req.useCache \/ GetToken(req) = Undefined
  /\ request' = [request EXCEPT ![c] = req]
  /\ status' = [status EXCEPT ![c] = "fetching"]
  /\ UNCHANGED <<now, cache, token>>

\* XSUAA issues a token (fetchClientCredentialsToken of @sap/xssec).
Issue(c, lifetime) ==
  /\ status[c] = "fetching"
  /\ status' = [status EXCEPT ![c] = "issued"]
  /\ token' = [token EXCEPT ![c] =
       [tenant |-> GrantTenant(request[c]), client |-> request[c].client,
        lifetime |-> lifetime, received |-> Undefined]]
  /\ UNCHANGED <<now, cache, request>>

\* The continuation after the await: cache the token and return it.
Receive(c) ==
  /\ status[c] = "issued"
  /\ status' = [status EXCEPT ![c] = "done"]
  /\ LET tok == [token[c] EXCEPT !.received = now] IN
       /\ token' = [token EXCEPT ![c] = tok]
       /\ cache' = IF request[c].useCache THEN CacheToken(request[c], tok) ELSE cache
  /\ UNCHANGED <<now, request>>

\* The grant is rejected or times out, or the circuit breaker is open: the
\* call throws and neither reads nor writes the cache.
Fail(c) ==
  /\ status[c] \in {"fetching", "issued"}
  /\ status' = [status EXCEPT ![c] = "failed"]
  /\ token' = [token EXCEPT ![c] = Undefined]
  /\ UNCHANGED <<now, cache, request>>

\* clientCredentialsTokenCache.clear()
Clear ==
  /\ cache' = EmptyCache
  /\ UNCHANGED <<now, status, request, token>>

Tick ==
  /\ now < MaxTime
  /\ now' = now + 1
  /\ UNCHANGED <<cache, status, request, token>>

Next ==
  \/ \E c \in Callers :
       \/ \E req \in Requests : CallHit(c, req)
       \/ \E req \in Requests : CallMiss(c, req)
       \/ \E lifetime \in Lifetimes : Issue(c, lifetime)
       \/ Receive(c)
       \/ Fail(c)
  \/ Clear
  \/ Tick

Spec == Init /\ [][Next]_vars

-----------------------------------------------------------------------------
(* Properties                                                              *)

TypeOK ==
  /\ now \in 0..MaxTime
  /\ \A k \in DOMAIN cache : cache[k] \in CacheEntry(Token)
  /\ status \in [Callers -> {"idle", "fetching", "issued", "done", "failed"}]
  /\ request \in [Callers -> Requests \cup {Undefined}]
  /\ token \in [Callers -> Token \cup {Undefined}]

\* The tenant a cache key stands for.
KeyTenant(t) ==
  IF t \in Subdomains THEN TenantOf[t]
  ELSE IF t = DefaultTenantId THEN HomeTenant
  ELSE t

\* Whatever the order in which responses of concurrent calls arrive, an entry
\* of the client credentials cache holds a token issued for the tenant and the
\* client its key names.
CacheIsolation ==
  \A k \in DOMAIN cache :
    /\ cache[k].entry.tenant = KeyTenant(k[1])
    /\ cache[k].entry.client = k[2]

\* serviceToken() returns a token for the tenant that a direct grant with the
\* caller's JWT would have produced and for the requested service, also when
\* the token was fetched by another caller under a key built from a different
\* property of the JWT.
TokenMatchesRequest ==
  \A c \in Callers : status[c] = "done" =>
    /\ token[c].tenant = GrantTenant(request[c])
    /\ token[c].client = request[c].client

\* How long a received token may be handed out from the cache.
ServingTime(tok) == IF tok.lifetime \in {0, Undefined} THEN Validity ELSE tok.lifetime

\* A call never ends with a token whose lifetime, counted from the moment the
\* response arrived, is over: expired entries are misses, not hits.
ServedWithinLifetime ==
  [][ \A c \in Callers :
        status[c] # "done" /\ status'[c] = "done"
          => now <= token'[c].received + ServingTime(token'[c]) ]_vars

-----------------------------------------------------------------------------
(* The inductive invariant behind CacheIsolation and TokenMatchesRequest   *)

\* A key in the cache has a tenant part, never undefined, and a client part.
KeysWellFormed ==
  \A k \in DOMAIN cache :
    k \in (Tenants \cup Subdomains \cup {DefaultTenantId}) \X Clients

\* From the request on, a call remembers what it asked for; the token under
\* way is already the one that a direct grant yields.
PendingMatches ==
  \A c \in Callers :
    /\ status[c] # "idle" => request[c] \in Requests
    /\ status[c] \in {"issued", "done"} =>
         /\ token[c] \in Token
         /\ token[c].tenant = GrantTenant(request[c])
         /\ token[c].client = request[c].client

IInv == TypeOK /\ KeysWellFormed /\ CacheIsolation /\ PendingMatches
=============================================================================
