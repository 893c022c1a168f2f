------------------------- MODULE DestinationSources -------------------------
(***************************************************************************)
(* Where getDestination() looks before it asks the destination service:    *)
(* the environment variable `destinations', the destinations registered    *)
(* with registerDestination(), and the service bindings, the latter with   *)
(* the process-wide destinationCache.  What follows when all three have    *)
(* nothing is DestinationRetrieval.                                        *)
(*                                                                         *)
(* Both caches hold references to JavaScript objects that callers share    *)
(* and change, hence the `heap'.  Of time only the fact is kept that an    *)
(* entry of destinationCache may expire; registered ones have no lifetime. *)
(***************************************************************************)
EXTENDS Cache

CONSTANTS Calls,         \* calls of getDestination() or registerDestination()
          Tenants,
          Provider,      \* the tenant the application is bound in
          BindingTenant, \* getTenantIdFromBinding(): Provider or Undefined
          DefaultTenantId, \* 'provider-tenant'
          Users,
          Names,         \* names of destinations and of service instances
          EnvNames,      \* in the environment variable `destinations'
          BoundNames,    \* service instances with a supported binding
          Forwarding,    \* names of destinations with forwardAuthToken
          Proxied,       \* names of destinations behind a web proxy
          AppObjects,    \* the objects the application registers ...
          ObjectName,    \* ... and their names
          Lookups,       \* options of getDestination(), a subset of Options
          Registrations  \* options of registerDestination()

VARIABLES heap,       \* reference -> destination object
          registered, \* registerDestinationCache.destination
          cached,     \* destinationCache
          pc,         \* where each call stands
          opts,       \* its options
          found,      \* the object it read from a cache, built or registers
          result,     \* the object it returned
          source,     \* where that came from
          log         \* the registrations that were completed

vars == <<heap, registered, cached, pc, opts, found, result, source, log>>

-----------------------------------------------------------------------------
(* Data                                                                    *)

\* A decoded JWT: XSUAA names the tenant `zid', IAS names it `app_tid'.
Jwt == [tenant : Tenants \cup {DefaultTenantId, Undefined}, claim : {"zid", "app_tid"},
        user : Users \cup {Undefined}]

CallerJwt == { j \in Jwt : j.tenant # DefaultTenantId } \cup {Undefined}

Isolations == {"tenant", "tenant-user", Undefined}

Options == [name : Names, jwt : CallerJwt, iss : Tenants \cup {Undefined},
            isolation : Isolations, useCache : BOOLEAN]

RegisterOptions == [jwt : CallerJwt, isolation : Isolations,
                    inferMtls : BOOLEAN, useMtlsCache : BOOLEAN]

\* Objects a call may create: the destination it builds, and the copy
\* that the proxy configuration is added to.
Built(c) == <<"built", c>>
Copy(c) == <<"copy", c>>
Refs == AppObjects \cup ({"built", "copy"} \X Calls)

\* `auth': a service token for a tenant, or the forwarded JWT of a caller.
Object == [name : Names, auth : Tenants \cup Jwt \cup {Undefined}, mtls : BOOLEAN]

ASSUME SourcesAssumption ==
  /\ Provider \in Tenants
  /\ BindingTenant \in {Provider, Undefined}
  /\ DefaultTenantId \notin Tenants \cup {Undefined}
  /\ Undefined \notin Tenants \cup Users \cup Names \cup Calls \cup Refs \cup Jwt
                     \cup {"env", "registered", "binding"}
  /\ Tenants \cap Jwt = {}
  /\ EnvNames \subseteq Names /\ BoundNames \subseteq Names
  /\ Forwarding \subseteq Names /\ Proxied \subseteq Names
  /\ AppObjects \cap ({"built", "copy"} \X Calls) = {}
  /\ ObjectName \in [AppObjects -> Names]
  /\ Lookups \subseteq Options
  /\ Registrations \subseteq RegisterOptions

NewObject(name, auth) == [name |-> name, auth |-> auth, mtls |-> FALSE]

-----------------------------------------------------------------------------
(* Tenants and cache keys                                                  *)

HasTenant(jwt) == jwt # Undefined /\ jwt.tenant # Undefined

TenantJwt(tenant) == [tenant |-> tenant, claim |-> "zid", user |-> Undefined]

\* The given JWT if it names a tenant, a made one of the bound tenant if not.
DecodeOrMakeJwt(jwt) ==
  IF HasTenant(jwt) THEN jwt
  ELSE IF BindingTenant # Undefined THEN TenantJwt(BindingTenant)
  ELSE Undefined

\* Only `zid' is looked at here.
GetJwtForCaching(jwt) ==
  LET j == DecodeOrMakeJwt(jwt) IN
  IF j # Undefined /\ j.claim = "zid" THEN j ELSE TenantJwt(DefaultTenantId)

Isolation(o) ==
  IF o.isolation # Undefined THEN o.isolation
  ELSE IF o.jwt # Undefined /\ o.jwt.user # Undefined THEN "tenant-user" ELSE "tenant"

\* Mutant: the key of the strategy 'tenant-user' is built without the tenant.
CacheKeyWithoutTenant(jwt, name, isolation) ==
  IF isolation = "tenant-user"
    THEN IF jwt = Undefined \/ jwt.user = Undefined THEN Undefined
         ELSE <<jwt.user, Provider, name>>
  ELSE IF ~HasTenant(jwt) THEN Undefined ELSE <<Undefined, jwt.tenant, name>>

\* `tenant::name' or `user:tenant:name'.
GetDestinationCacheKey(jwt, name, isolation) ==
  IF ~HasTenant(jwt) THEN Undefined
  ELSE IF isolation = "tenant" THEN <<Undefined, jwt.tenant, name>>
  ELSE IF jwt.user # Undefined THEN <<jwt.user, jwt.tenant, name>>
  ELSE Undefined

RegisteredKey(o, name) ==
  GetDestinationCacheKey(GetJwtForCaching(o.jwt), name, Isolation(o))

\* The payload that getDestinationFromServiceBinding() works with: `iss' wins.
BindingJwt(o) == IF o.iss # Undefined THEN TenantJwt(Undefined) ELSE o.jwt

\* A service binding's destination is looked up with that payload ...
ReadKey(o) == GetDestinationCacheKey(DecodeOrMakeJwt(BindingJwt(o)), o.name, "tenant")

\* Mutant: the destination is filed under the tenant of the bindings.
WriteKeyOfProvider(o) == GetDestinationCacheKey(DecodeOrMakeJwt(Undefined), o.name, "tenant")

\* ... and filed with the JWT of the options, whatever `iss' says.
WriteKey(o) == GetDestinationCacheKey(DecodeOrMakeJwt(o.jwt), o.name, "tenant")

\* The tenant a caller acts for, as serviceToken() and XSUAA resolve it.
GrantTenant(o) ==
  IF o.iss # Undefined THEN o.iss
  ELSE IF HasTenant(o.jwt) THEN o.jwt.tenant
  ELSE Provider

\* cache.set() of a reference.
Put(cache, key, ref) == Set(cache, key, [entry |-> ref, expires |-> Undefined], 0, 0)

-----------------------------------------------------------------------------
(* Returning a destination                                                 *)

\* setForwardedAuthTokenIfNeeded()
Forward(obj, jwt) ==
  IF obj.name \in Forwarding /\ jwt # Undefined THEN [obj EXCEPT !.auth = jwt] ELSE obj

Goto(c, label) == pc' = [pc EXCEPT ![c] = label]

Return(c, ref, from) ==
  /\ Goto(c, "done")
  /\ result' = [result EXCEPT ![c] = ref]
  /\ source' = [source EXCEPT ![c] = from]

\* Mutant: the copy is made before the token is set.
CopyFirst(c, ref, obj, jwt, from) ==
  LET forwarded == Forward(obj, jwt) IN
  IF obj.name \in Proxied
    THEN /\ heap' = [heap EXCEPT ![ref] = forwarded, ![Copy(c)] = obj]
         /\ Return(c, Copy(c), from)
    ELSE /\ heap' = [heap EXCEPT ![ref] = forwarded]
         /\ Return(c, ref, from)

\* Environment and registration: the token is set on the object that was
\* found, and addProxyConfigurationInternet() copies it where there is a proxy.
ForwardThenCopy(c, ref, obj, jwt, from) ==
  LET forwarded == Forward(obj, jwt) IN
  IF obj.name \in Proxied
    THEN /\ heap' = [heap EXCEPT ![ref] = forwarded, ![Copy(c)] = forwarded]
         /\ Return(c, Copy(c), from)
    ELSE /\ heap' = [heap EXCEPT ![ref] = forwarded]
         /\ Return(c, ref, from)

\* Service bindings: the copy is made first and is what receives the token.
CopyThenForward(c, ref) ==
  LET target == IF heap[ref].name \in Proxied THEN Copy(c) ELSE ref IN
  /\ heap' = [heap EXCEPT ![target] = Forward(heap[ref], opts[c].jwt)]
  /\ Return(c, target, "binding")

-----------------------------------------------------------------------------
(* Actions of getDestination()                                             *)

Init ==
  /\ heap = [r \in Refs |-> IF r \in AppObjects
                              THEN NewObject(ObjectName[r], Undefined) ELSE Undefined]
  /\ registered = EmptyCache
  /\ cached = EmptyCache
  /\ pc = [c \in Calls |-> "idle"]
  /\ opts = [c \in Calls |-> Undefined]
  /\ found = [c \in Calls |-> Undefined]
  /\ result = [c \in Calls |-> Undefined]
  /\ source = [c \in Calls |-> Undefined]
  /\ log = {}

\* The environment variable is parsed anew by each call.
CallFromEnv(c, o) ==
  /\ pc[c] = "idle"
  /\ o.name \in EnvNames
  /\ opts' = [opts EXCEPT ![c] = o]
  /\ ForwardThenCopy(c, Built(c), NewObject(o.name, Undefined), o.jwt, "env")
  /\ UNCHANGED <<registered, cached, found, log>>

\* Otherwise the registered destinations are searched.
CallSearchRegistered(c, o) ==
  /\ pc[c] = "idle"
  /\ o.name \notin EnvNames
  /\ opts' = [opts EXCEPT ![c] = o]
  /\ found' = [found EXCEPT ![c] = Get(registered, RegisteredKey(o, o.name), 0)]
  /\ Goto(c, "registered")
  /\ UNCHANGED <<heap, registered, cached, result, source, log>>

\* searchRegisteredDestination() has found a destination.
ReturnRegistered(c) ==
  /\ pc[c] = "registered"
  /\ found[c] # Undefined
  /\ ForwardThenCopy(c, found[c], heap[found[c]], opts[c].jwt, "registered")
  /\ UNCHANGED <<registered, cached, opts, found, log>>

\* Without a service of that name the transformation throws, which
\* searchServiceBindingForDestination() turns into null.
StartTransform(c) == Goto(c, IF opts[c].name \in BoundNames THEN "transform" ELSE "service")

\* It has not: getDestinationFromServiceBinding() looks into destinationCache.
SearchBinding(c) ==
  /\ pc[c] = "registered"
  /\ found[c] = Undefined
  /\ IF opts[c].useCache
       THEN /\ found' = [found EXCEPT ![c] = Get(cached, ReadKey(opts[c]), 0)]
            /\ Goto(c, "binding")
       ELSE StartTransform(c) /\ UNCHANGED found
  /\ UNCHANGED <<heap, registered, cached, opts, result, source, log>>

ReturnCachedBinding(c) ==
  /\ pc[c] = "binding"
  /\ found[c] # Undefined
  /\ CopyThenForward(c, found[c])
  /\ UNCHANGED <<registered, cached, opts, found, log>>

MissBinding(c) ==
  /\ pc[c] = "binding"
  /\ found[c] = Undefined
  /\ StartTransform(c)
  /\ UNCHANGED <<heap, registered, cached, opts, found, result, source, log>>

\* The transformation has fetched a service token.  A transformation of the
\* application's own may yield a destination that forwards tokens instead.
Transform(c) ==
  /\ pc[c] = "transform"
  /\ LET auth == IF opts[c].name \in Forwarding THEN Undefined ELSE GrantTenant(opts[c]) IN
       heap' = [heap EXCEPT ![Built(c)] = NewObject(opts[c].name, auth)]
  /\ found' = [found EXCEPT ![c] = Built(c)]
  /\ cached' = IF opts[c].useCache THEN Put(cached, WriteKey(opts[c]), Built(c)) ELSE cached
  /\ Goto(c, "built")
  /\ UNCHANGED <<registered, opts, result, source, log>>

ReturnBuilt(c) ==
  /\ pc[c] = "built"
  /\ CopyThenForward(c, found[c])
  /\ UNCHANGED <<registered, cached, opts, found, log>>

\* No token can be fetched: the destination service is next.
FailTransform(c) ==
  /\ pc[c] = "transform"
  /\ Goto(c, "service")
  /\ UNCHANGED <<heap, registered, cached, opts, found, result, source, log>>

-----------------------------------------------------------------------------
(* Actions of registerDestination() and of the caches                      *)

Store(c, o, r) ==
  /\ registered' = Put(registered, RegisteredKey(o, ObjectName[r]), r)
  /\ log' = log \cup {[ref |-> r, by |-> o]}
  /\ Goto(c, "stored")

\* `destination.mtls' is set on the caller's object, then the destination is
\* stored, at once or when the certificate of the instance has been read.
Register(c, o, r) ==
  /\ pc[c] = "idle"
  /\ heap' = [heap EXCEPT ![r].mtls = o.inferMtls]
  /\ opts' = [opts EXCEPT ![c] = o]
  /\ found' = [found EXCEPT ![c] = r]
  /\ IF o.useMtlsCache
       THEN Goto(c, "certificate") /\ UNCHANGED <<registered, log>>
       ELSE Store(c, o, r)
  /\ UNCHANGED <<cached, result, source>>

CertificateRead(c) ==
  /\ pc[c] = "certificate"
  /\ Store(c, opts[c], found[c])
  /\ UNCHANGED <<heap, cached, opts, found, result, source>>

\* The certificate cannot be read: the registration is rejected.
CertificateFails(c) ==
  /\ pc[c] = "certificate"
  /\ Goto(c, "failed")
  /\ UNCHANGED <<heap, registered, cached, opts, found, result, source, log>>

Expire(k) ==
  /\ cached' = [j \in DOMAIN cached \ {k} |-> cached[j]]
  /\ UNCHANGED <<heap, registered, pc, opts, found, result, source, log>>

ClearRegistered ==
  /\ registered' = EmptyCache
  /\ UNCHANGED <<heap, cached, pc, opts, found, result, source, log>>

Step(c) ==
  \/ \E o \in Lookups : CallFromEnv(c, o)
  \/ \E o \in Lookups : CallSearchRegistered(c, o)
  \/ ReturnRegistered(c)
  \/ SearchBinding(c)
  \/ ReturnCachedBinding(c)
  \/ MissBinding(c)
  \/ Transform(c)
  \/ ReturnBuilt(c)
  \/ FailTransform(c)
  \/ \E o \in Registrations, r \in AppObjects : Register(c, o, r)
  \/ CertificateRead(c)
  \/ CertificateFails(c)

Next ==
  \/ \E c \in Calls : Step(c)
  \/ \E k \in DOMAIN cached : Expire(k)
  \/ ClearRegistered

Spec == Init /\ [][Next]_vars

-----------------------------------------------------------------------------
(* Properties                                                              *)

Labels == {"idle", "registered", "binding", "transform", "built", "service", "done",
           "certificate", "stored", "failed"}

Keys == (Users \cup {Undefined}) \X (Tenants \cup {DefaultTenantId}) \X Names

TypeOK ==
  /\ heap \in [Refs -> Object \cup {Undefined}]
  /\ DOMAIN registered \subseteq Keys
  /\ \A k \in DOMAIN registered : registered[k] \in CacheEntry(AppObjects)
  /\ DOMAIN cached \subseteq Keys
  /\ \A k \in DOMAIN cached : cached[k] \in CacheEntry({"built"} \X Calls)
  /\ pc \in [Calls -> Labels]
  /\ opts \in [Calls -> Lookups \cup Registrations \cup {Undefined}]
  /\ found \in [Calls -> Refs \cup {Undefined}]
  /\ result \in [Calls -> Refs \cup {Undefined}]
  /\ source \in [Calls -> {"env", "registered", "binding", Undefined}]
  /\ log \subseteq [ref : AppObjects, by : Registrations]

\* A destination made from a service binding is returned with a service token
\* of the tenant the caller acts for, also when another call built it.
BindingForCaller ==
  \A c \in Calls :
    source[c] = "binding" /\ heap[result[c]].auth \in Tenants
      => heap[result[c]].auth = GrantTenant(opts[c])

\* The tenant a caller of the registration acts for.
CallerTenant(o) == IF HasTenant(o.jwt) THEN o.jwt.tenant ELSE Provider

\* A registered destination is found only by callers of the tenant it was
\* registered for, and of the same user if the call isolates users.
RegisteredForCaller ==
  \A c \in Calls :
    source[c] = "registered" =>
      \E entry \in log :
        /\ entry.ref = found[c] /\ ObjectName[found[c]] = opts[c].name
        /\ CallerTenant(entry.by) = CallerTenant(opts[c])
        /\ Isolation(opts[c]) = "tenant-user" => entry.by.jwt.user = opts[c].jwt.user

\* A call that passes a JWT for a destination with forwardAuthToken holds a
\* destination with that JWT, and no other call changes it afterwards.
ForwardedTokenIsOwn ==
  \A c \in Calls :
    pc[c] = "done" /\ opts[c].jwt # Undefined /\ heap[result[c]].name \in Forwarding
      => heap[result[c]].auth = opts[c].jwt

\* The same for destinations behind a web proxy, which are returned as copies.
CopyKeepsToken ==
  \A c \in Calls :
    pc[c] = "done" /\ result[c] = Copy(c) /\ opts[c].jwt # Undefined
      /\ opts[c].name \in Forwarding
      => heap[Copy(c)].auth = opts[c].jwt
=============================================================================
