---------------------- MODULE DestinationSourcesProofs ----------------------
(***************************************************************************)
(* For every set of calls, tenants, users, objects and options: what calls *)
(* find in the two caches belongs to their tenant and user, and a copy     *)
(* keeps the token it was given.                                           *)
(***************************************************************************)
EXTENDS DestinationSources, CacheProofs, TLAPS

-----------------------------------------------------------------------------
(* The inductive invariant                                                 *)

\* No call that uses the cache names the tenant by `iss', which keys ignore.
NoIssuer == \A o \in Lookups : o.useCache => o.iss = Undefined

\* Tokens that name a tenant are tokens of XSUAA.
XsuaaTokens == \A o \in Lookups \cup Registrations : HasTenant(o.jwt) => o.jwt.claim = "zid"

\* An object that a call made from a service binding, and will not make again.
BuiltOnce(r) == \E d \in Calls : r = Built(d) /\ pc[d] \in {"built", "done"}

\* An object with a name whose service token, if it has one, is for the tenant.
Holds(r, name, tenant) ==
  /\ heap[r] \in Object
  /\ heap[r].name = name
  /\ NoIssuer /\ heap[r].auth \in Tenants => heap[r].auth = tenant

CachedInv(k) == BuiltOnce(cached[k].entry) /\ Holds(cached[k].entry, k[3], k[2])

RegisteredInv(k) ==
  \E entry \in log : /\ entry.ref = registered[k].entry
                     /\ RegisteredKey(entry.by, ObjectName[entry.ref]) = k

\* What the call has found was registered with the key of the call.
RegisteredFor(c) ==
  /\ found[c] \in AppObjects
  /\ RegisteredKey(opts[c], opts[c].name) # Undefined
  /\ \E entry \in log :
       /\ entry.ref = found[c]
       /\ RegisteredKey(entry.by, ObjectName[entry.ref]) = RegisteredKey(opts[c], opts[c].name)

CallInv(c) ==
  /\ pc[c] \in {"registered", "binding", "transform", "built", "done"} => opts[c] \in Lookups
  /\ pc[c] = "certificate" => opts[c] \in Registrations /\ found[c] \in AppObjects
  /\ pc[c] = "registered" /\ found[c] # Undefined => RegisteredFor(c)
  /\ pc[c] = "binding" /\ found[c] # Undefined =>
       BuiltOnce(found[c]) /\ Holds(found[c], opts[c].name, GrantTenant(opts[c]))
  /\ pc[c] = "built" =>
       found[c] = Built(c) /\ Holds(found[c], opts[c].name, GrantTenant(opts[c]))
  /\ pc[c] = "done" /\ source[c] = "registered" => RegisteredFor(c)
  /\ pc[c] = "done" /\ source[c] = "binding" =>
       /\ result[c] = Copy(c) \/ BuiltOnce(result[c])
       /\ Holds(result[c], opts[c].name, GrantTenant(opts[c]))
  /\ pc[c] = "done" /\ result[c] = Copy(c) /\ opts[c].jwt # Undefined
       /\ opts[c].name \in Forwarding => heap[Copy(c)].auth = opts[c].jwt
  /\ source[c] # Undefined => pc[c] = "done"

IInv ==
  /\ TypeOK
  /\ \A r \in AppObjects : heap[r] \in Object /\ heap[r].name = ObjectName[r]
  /\ \A k \in DOMAIN cached : CachedInv(k)
  /\ \A k \in DOMAIN registered : RegisteredInv(k)
  /\ \A c \in Calls : CallInv(c)

-----------------------------------------------------------------------------
(* Tenants and keys                                                        *)

\* Options have the JWT, the name and the issuer that their types say.
LEMMA OptionTypes ==
  /\ \A o \in Lookups : /\ o.jwt \in CallerJwt /\ o.name \in Names
                        /\ o.iss \in Tenants \cup {Undefined}
                        /\ o.isolation \in Isolations /\ o.useCache \in BOOLEAN
  /\ \A o \in Registrations : /\ o.jwt \in CallerJwt /\ o.isolation \in Isolations
                              /\ o.inferMtls \in BOOLEAN
  BY SourcesAssumption DEF Options, RegisterOptions

\* The tenant of a decoded or made JWT is the one of the caller or the bound one.
LEMMA DecodedJwt ==
  ASSUME NEW jwt \in CallerJwt
  PROVE  /\ DecodeOrMakeJwt(jwt) \in Jwt \cup {Undefined}
         /\ HasTenant(jwt) => DecodeOrMakeJwt(jwt) = jwt /\ jwt.tenant \in Tenants /\ jwt \in Jwt
         /\ ~HasTenant(jwt) /\ DecodeOrMakeJwt(jwt) # Undefined =>
              DecodeOrMakeJwt(jwt) = TenantJwt(Provider)
  <1>1. TenantJwt(Provider) \in Jwt
    BY SourcesAssumption DEF TenantJwt, Jwt
  <1>2. CASE HasTenant(jwt)
    <2>1. jwt \in Jwt /\ jwt.tenant # DefaultTenantId /\ jwt.tenant # Undefined
      BY <1>2 DEF HasTenant, CallerJwt
    <2>2. jwt.tenant \in Tenants
      BY <2>1 DEF Jwt
    <2> QED BY <1>2, <2>1, <2>2 DEF DecodeOrMakeJwt
  <1>3. CASE ~HasTenant(jwt)
    BY <1>1, <1>3, SourcesAssumption DEF DecodeOrMakeJwt
  <1> QED BY <1>2, <1>3

\* The parts of a key.
LEMMA KeyParts ==
  ASSUME NEW jwt \in Jwt \cup {Undefined}, NEW name \in Names, NEW isolation,
         NEW key, key = GetDestinationCacheKey(jwt, name, isolation), key # Undefined
  PROVE  /\ key \in Keys /\ jwt \in Jwt
         /\ key[2] = jwt.tenant /\ key[3] = name
         /\ isolation = "tenant" => key[1] = Undefined
         /\ isolation # "tenant" => key[1] = jwt.user /\ jwt.user # Undefined
  <1>1. HasTenant(jwt)
    BY DEF GetDestinationCacheKey
  <1>2. jwt \in Jwt /\ jwt.tenant \in Tenants \cup {DefaultTenantId}
        /\ jwt.user \in Users \cup {Undefined}
    BY <1>1 DEF HasTenant, Jwt
  <1>3. CASE isolation = "tenant"
    BY <1>1, <1>2, <1>3 DEF GetDestinationCacheKey, Keys
  <1>4. CASE isolation # "tenant"
    BY <1>1, <1>2, <1>4 DEF GetDestinationCacheKey, Keys
  <1> QED BY <1>3, <1>4

\* The stand-ins for a missing token are tokens.
LEMMA DefaultJwtType ==
  TenantJwt(DefaultTenantId) \in Jwt /\ TenantJwt(Undefined) \in CallerJwt
  BY SourcesAssumption DEF TenantJwt, Jwt, CallerJwt

\* The token that names the tenant of a cached destination.
LEMMA CachingJwtType ==
  ASSUME NEW jwt \in CallerJwt
  PROVE  GetJwtForCaching(jwt) \in Jwt
  BY DecodedJwt, DefaultJwtType DEF GetJwtForCaching

\* The token that a destination from a service binding is built with.
LEMMA BindingJwtType ==
  ASSUME NEW o \in Lookups
  PROVE  BindingJwt(o) \in CallerJwt
  BY OptionTypes, DefaultJwtType DEF BindingJwt

\* Keys of registered destinations.
LEMMA RegisteredKeyType ==
  ASSUME NEW o \in Lookups \cup Registrations, NEW name \in Names,
         RegisteredKey(o, name) # Undefined
  PROVE  RegisteredKey(o, name) \in Keys
  <1>1. GetJwtForCaching(o.jwt) \in Jwt
    BY OptionTypes, CachingJwtType
  <1> QED BY <1>1, KeyParts DEF RegisteredKey

\* Keys of cached destinations from service bindings name the tenant that a
\* service token is fetched for, unless `iss' does.
LEMMA BindingKeys ==
  ASSUME NEW o \in Lookups
  PROVE  /\ ReadKey(o) # Undefined =>
              ReadKey(o) \in Keys /\ ReadKey(o)[3] = o.name
              /\ (NoIssuer /\ o.useCache => ReadKey(o)[2] = GrantTenant(o))
         /\ WriteKey(o) # Undefined =>
              WriteKey(o) \in Keys /\ WriteKey(o)[3] = o.name
              /\ (NoIssuer /\ o.useCache => WriteKey(o)[2] = GrantTenant(o))
  <1>1. o.jwt \in CallerJwt /\ BindingJwt(o) \in CallerJwt /\ o.name \in Names
    BY OptionTypes, BindingJwtType
  <1>2. ASSUME NEW jwt \in CallerJwt, NEW key,
               key = GetDestinationCacheKey(DecodeOrMakeJwt(jwt), o.name, "tenant"),
               key # Undefined
        PROVE  /\ key \in Keys /\ key[3] = o.name
               /\ key[2] = IF HasTenant(jwt) THEN jwt.tenant ELSE Provider
    <2>1. /\ key \in Keys /\ key[3] = o.name /\ DecodeOrMakeJwt(jwt) \in Jwt
          /\ key[2] = DecodeOrMakeJwt(jwt).tenant
      BY <1>1, <1>2, DecodedJwt, KeyParts
    <2>2. DecodeOrMakeJwt(jwt) # Undefined
      BY <2>1, SourcesAssumption
    <2>3. CASE HasTenant(jwt)
      BY <2>1, <2>3, DecodedJwt
    <2>4. CASE ~HasTenant(jwt)
      BY <2>1, <2>2, <2>4, DecodedJwt DEF TenantJwt
    <2> QED BY <2>1, <2>3, <2>4
  <1>3. NoIssuer /\ o.useCache =>
               /\ BindingJwt(o) = o.jwt
               /\ GrantTenant(o) = IF HasTenant(o.jwt) THEN o.jwt.tenant ELSE Provider
    BY DEF NoIssuer, BindingJwt, GrantTenant
  <1>4. ReadKey(o) # Undefined =>
              ReadKey(o) \in Keys /\ ReadKey(o)[3] = o.name
              /\ (NoIssuer /\ o.useCache => ReadKey(o)[2] = GrantTenant(o))
    BY <1>1, <1>2, <1>3 DEF ReadKey
  <1>5. WriteKey(o) # Undefined =>
              WriteKey(o) \in Keys /\ WriteKey(o)[3] = o.name
              /\ (NoIssuer /\ o.useCache => WriteKey(o)[2] = GrantTenant(o))
    BY <1>1, <1>2, <1>3 DEF WriteKey
  <1> QED BY <1>4, <1>5

\* A lookup has the key of a registration only for the same name and tenant,
\* and for the same user if it isolates users.
LEMMA SameRegistration ==
  ASSUME XsuaaTokens, NEW o \in Lookups, NEW by \in Registrations, NEW name \in Names,
         RegisteredKey(by, name) = RegisteredKey(o, o.name),
         RegisteredKey(o, o.name) # Undefined
  PROVE  /\ name = o.name
         /\ CallerTenant(by) = CallerTenant(o)
         /\ Isolation(o) = "tenant-user" => by.jwt.user = o.jwt.user
  <1> DEFINE J(p) == GetJwtForCaching(p.jwt)
             key == RegisteredKey(o, o.name)
  <1>1. /\ o.jwt \in CallerJwt /\ by.jwt \in CallerJwt /\ o.name \in Names
        /\ J(o) \in Jwt /\ J(by) \in Jwt
    BY OptionTypes, CachingJwtType
  <1>2. /\ key[2] = J(o).tenant /\ key[3] = o.name
        /\ Isolation(o) = "tenant" => key[1] = Undefined
        /\ Isolation(o) # "tenant" => key[1] = J(o).user /\ J(o).user # Undefined
    BY <1>1, KeyParts DEF RegisteredKey
  <1>3. /\ key[2] = J(by).tenant /\ key[3] = name
        /\ Isolation(by) = "tenant" => key[1] = Undefined
        /\ Isolation(by) # "tenant" => key[1] = J(by).user /\ J(by).user # Undefined
    BY <1>1, KeyParts DEF RegisteredKey
  <1>4. ASSUME NEW p \in Lookups \cup Registrations, p.jwt \in CallerJwt
        PROVE  /\ HasTenant(p.jwt) => J(p) = p.jwt /\ p.jwt.tenant \in Tenants
               /\ ~HasTenant(p.jwt) =>
                    /\ J(p).user = Undefined
                    /\ J(p).tenant = IF BindingTenant = Undefined THEN DefaultTenantId
                                     ELSE Provider
    <2>1. CASE HasTenant(p.jwt)
      <3>1. DecodeOrMakeJwt(p.jwt) = p.jwt /\ p.jwt.tenant \in Tenants
        BY <1>4, <2>1, DecodedJwt
      <3>2. p.jwt # Undefined /\ p.jwt.claim = "zid"
        BY <2>1 DEF HasTenant, XsuaaTokens
      <3> QED BY <2>1, <3>1, <3>2 DEF GetJwtForCaching
    <2>2. CASE ~HasTenant(p.jwt) /\ BindingTenant = Undefined
      BY <2>2 DEF GetJwtForCaching, DecodeOrMakeJwt, TenantJwt
    <2>3. CASE ~HasTenant(p.jwt) /\ BindingTenant # Undefined
      <3>1. DecodeOrMakeJwt(p.jwt) = TenantJwt(Provider) /\ BindingTenant = Provider
        BY <2>3, SourcesAssumption DEF DecodeOrMakeJwt
      <3>2. TenantJwt(Provider) # Undefined /\ TenantJwt(Provider).claim = "zid"
        <4>1. TenantJwt(Provider) \in Jwt
          BY SourcesAssumption DEF TenantJwt, Jwt
        <4> QED BY <4>1, SourcesAssumption DEF TenantJwt
      <3>3. J(p) = TenantJwt(Provider)
        BY <3>1, <3>2 DEF GetJwtForCaching
      <3> QED BY <2>3, <3>1, <3>3 DEF TenantJwt
    <2> QED BY <2>1, <2>2, <2>3
  <1>5. J(o).tenant = J(by).tenant
    BY <1>2, <1>3
  <1>6. DefaultTenantId \notin Tenants /\ Provider \in Tenants
    BY SourcesAssumption
  <1>7. CallerTenant(by) = CallerTenant(o)
    <2> HIDE DEF J
    <2>1. CallerTenant(o) = IF HasTenant(o.jwt) THEN J(o).tenant ELSE Provider
      BY <1>1, <1>4 DEF CallerTenant
    <2>2. CallerTenant(by) = IF HasTenant(by.jwt) THEN J(by).tenant ELSE Provider
      BY <1>1, <1>4 DEF CallerTenant
    <2>3. /\ HasTenant(o.jwt) => J(o).tenant \in Tenants
          /\ HasTenant(by.jwt) => J(by).tenant \in Tenants
      BY <1>1, <1>4
    <2>4. /\ ~HasTenant(o.jwt) => J(o).tenant \in {DefaultTenantId, Provider}
          /\ ~HasTenant(by.jwt) => J(by).tenant \in {DefaultTenantId, Provider}
      BY <1>1, <1>4
    <2> QED BY <1>5, <1>6, <2>1, <2>2, <2>3, <2>4
  <1>8. ASSUME Isolation(o) = "tenant-user"
        PROVE  by.jwt.user = o.jwt.user
    <2>1. key[1] = J(o).user /\ J(o).user # Undefined
      BY <1>2, <1>8
    <2>2. key[1] = J(by).user
      BY <1>3, <2>1
    <2> HIDE DEF J, key
    <2>3. HasTenant(o.jwt) /\ HasTenant(by.jwt)
      BY <1>1, <1>4, <2>1, <2>2
    <2> QED BY <1>1, <1>4, <2>1, <2>2, <2>3
  <1> QED BY <1>2, <1>3, <1>7, <1>8

-----------------------------------------------------------------------------
(* The caches and the heap                                                 *)

\* Put() adds one entry, or none for an undefined key.
LEMMA PutEntry ==
  ASSUME NEW C, NEW key, NEW T, NEW ref \in T, NEW k \in DOMAIN Put(C, key, ref)
  PROVE  \/ /\ k = key /\ key # Undefined
            /\ Put(C, key, ref)[k].entry = ref /\ Put(C, key, ref)[k] \in CacheEntry(T)
         \/ k \in DOMAIN C /\ Put(C, key, ref)[k] = C[k]
  <1> DEFINE item == [entry |-> ref, expires |-> Undefined]
  <1>1. CASE key = Undefined
    BY <1>1 DEF Put, Set
  <1>2. CASE key # Undefined
    <2>1. item.entry \in T /\ item.expires \in Expiry /\ item.entry = ref
      BY DEF Expiry
    <2>2. Put(C, key, ref) = Set(C, key, item, 0, 0)
      BY DEF Put
    <2> HIDE DEF item
    <2>3. key \in DOMAIN Set(C, key, item, 0, 0) /\ Set(C, key, item, 0, 0)[key] \in CacheEntry(T)
      BY <1>2, <2>1, SetEntryType
    <2>4. /\ k = key => Set(C, key, item, 0, 0)[k].entry = item.entry
          /\ k # key => k \in DOMAIN C /\ Set(C, key, item, 0, 0)[k] = C[k]
      BY <1>2, <2>2, SetEntry
    <2> QED BY <1>2, <2>1, <2>2, <2>3, <2>4
  <1> QED BY <1>1, <1>2

\* What a cache answers is the entry of the key.
LEMMA FoundEntry ==
  ASSUME NEW C, NEW key, Get(C, key, 0) # Undefined
  PROVE  key # Undefined /\ key \in DOMAIN C /\ Get(C, key, 0) = C[key].entry
  BY GetReturnsEntry DEF Get

\* The references of two calls differ from each other and from the application's.
LEMMA RefTypes ==
  /\ AppObjects \subseteq Refs /\ Undefined \notin Refs
  /\ \A c \in Calls : /\ Built(c) \in Refs /\ Copy(c) \in Refs /\ Built(c) # Copy(c)
                      /\ Built(c) \notin AppObjects /\ Copy(c) \notin AppObjects
                      /\ Built(c) \in {"built"} \X Calls
  /\ \A c, d \in Calls : /\ Built(c) # Copy(d)
                         /\ (Built(c) = Built(d) => c = d)
                         /\ (Copy(c) = Copy(d) => c = d)
  BY SourcesAssumption DEF Refs, Built, Copy

\* A forwarded token is all that forwarding changes.
LEMMA Forwarded ==
  ASSUME NEW obj \in Object, NEW jwt \in CallerJwt
  PROVE  /\ Forward(obj, jwt) \in Object
         /\ Forward(obj, jwt).name = obj.name
         /\ Forward(obj, jwt).auth \in Tenants => Forward(obj, jwt).auth = obj.auth
         /\ obj.name \in Forwarding /\ jwt # Undefined => Forward(obj, jwt).auth = jwt
  <1>1. CASE obj.name \in Forwarding /\ jwt # Undefined
    <2>1. jwt \in Jwt /\ jwt \notin Tenants
      BY <1>1, SourcesAssumption DEF CallerJwt
    <2>2. Forward(obj, jwt) = [obj EXCEPT !.auth = jwt]
      BY <1>1 DEF Forward
    <2> QED BY <1>1, <2>1, <2>2 DEF Object
  <1>2. CASE ~(obj.name \in Forwarding /\ jwt # Undefined)
    BY <1>2 DEF Forward
  <1> QED BY <1>1, <1>2

\* An object that keeps its name and gets no service token it did not have.
Benign(r) ==
  heap[r] \in Object => /\ heap'[r] \in Object
                        /\ heap'[r].name = heap[r].name
                        /\ heap'[r].auth \in Tenants => heap'[r].auth = heap[r].auth

\* A step of call c changes only what c has, and objects it may change.
StepOf(c) ==
  /\ \A d \in Calls : d # c =>
       /\ pc'[d] = pc[d] /\ opts'[d] = opts[d] /\ found'[d] = found[d]
       /\ result'[d] = result[d] /\ source'[d] = source[d] /\ heap'[Copy(d)] = heap[Copy(d)]
  /\ log \subseteq log'
  /\ pc[c] \in {"built", "done"} => pc'[c] \in {"built", "done"}
  /\ \A r \in Refs : BuiltOnce(r) \/ r \in AppObjects => Benign(r)

\* An object that changes in such a way is still the one that was wanted.
LEMMA HoldsStays ==
  ASSUME NEW r, NEW name, NEW tenant, Holds(r, name, tenant), Benign(r)
  PROVE  Holds(r, name, tenant)'
  BY DEF Holds, Benign, NoIssuer

\* A step of call c neither disturbs the other calls nor what is cached.
LEMMA OthersKeep ==
  ASSUME IInv, NEW c \in Calls, StepOf(c)
  PROVE  /\ \A d \in Calls : d # c => CallInv(d)'
         /\ \A k \in DOMAIN cached : \A ref :
              ref = cached[k].entry => BuiltOnce(ref)' /\ Holds(ref, k[3], k[2])'
         /\ \A k \in DOMAIN registered : \A ref :
              ref = registered[k].entry =>
                \E entry \in log' : /\ entry.ref = ref
                                    /\ RegisteredKey(entry.by, ObjectName[entry.ref]) = k
  <1>1. ASSUME NEW r, BuiltOnce(r)
        PROVE  BuiltOnce(r)' /\ Benign(r)
    <2>1. PICK d \in Calls : r = Built(d) /\ pc[d] \in {"built", "done"}
      BY <1>1 DEF BuiltOnce
    <2>2. pc'[d] \in {"built", "done"} /\ r \in Refs
      BY <2>1, RefTypes DEF StepOf
    <2> QED BY <1>1, <2>1, <2>2 DEF BuiltOnce, Built, StepOf
  <1>2. ASSUME NEW d \in Calls, d # c
        PROVE  CallInv(d)'
    <2>1. /\ pc'[d] = pc[d] /\ opts'[d] = opts[d] /\ found'[d] = found[d]
          /\ result'[d] = result[d] /\ source'[d] = source[d] /\ heap'[Copy(d)] = heap[Copy(d)]
          /\ log \subseteq log'
      BY <1>2 DEF StepOf
    <2>2. CallInv(d)
      BY DEF IInv
    <2>3. RegisteredFor(d) => RegisteredFor(d)'
      BY <2>1 DEF RegisteredFor
    <2>4. ASSUME pc[d] = "binding", found[d] # Undefined
          PROVE  BuiltOnce(found[d])' /\ Holds(found[d], opts[d].name, GrantTenant(opts[d]))'
      <3>1. BuiltOnce(found[d]) /\ Holds(found[d], opts[d].name, GrantTenant(opts[d]))
        BY <2>2, <2>4 DEF CallInv
      <3>2. PICK r : r = found[d]
        OBVIOUS
      <3>3. BuiltOnce(r)' /\ Benign(r)
        BY <1>1, <3>1, <3>2
      <3>4. BuiltOnce(found[d])'
        BY <2>1, <3>2, <3>3 DEF BuiltOnce
      <3> QED BY <2>1, <3>1, <3>2, <3>3, <3>4 DEF Holds, Benign, NoIssuer
    <2>5. ASSUME pc[d] = "built"
          PROVE  Holds(found[d], opts[d].name, GrantTenant(opts[d]))'
      <3>1. found[d] = Built(d) /\ Holds(found[d], opts[d].name, GrantTenant(opts[d]))
        BY <2>2, <2>5 DEF CallInv
      <3>2. BuiltOnce(found[d])
        BY <2>5, <3>1 DEF BuiltOnce
      <3>3. Benign(found[d])
        BY <1>1, <3>2
      <3> QED BY <2>1, <3>1, <3>3 DEF Holds, Benign, NoIssuer
    <2>6. ASSUME pc[d] = "done", source[d] = "binding"
          PROVE  /\ result[d] = Copy(d) \/ BuiltOnce(result[d])'
                 /\ Holds(result[d], opts[d].name, GrantTenant(opts[d]))'
      <3>1. /\ result[d] = Copy(d) \/ BuiltOnce(result[d])
            /\ Holds(result[d], opts[d].name, GrantTenant(opts[d]))
        BY <2>2, <2>6 DEF CallInv
      <3>2. CASE result[d] = Copy(d)
        BY <2>1, <3>1, <3>2 DEF Holds, NoIssuer
      <3>3. CASE BuiltOnce(result[d])
        <4>1. PICK r : r = result[d]
          OBVIOUS
        <4>2. BuiltOnce(r)' /\ Benign(r)
          BY <1>1, <3>3, <4>1
        <4>3. BuiltOnce(result[d])'
          BY <2>1, <4>1, <4>2 DEF BuiltOnce
        <4> QED BY <2>1, <3>1, <4>1, <4>2, <4>3 DEF Holds, Benign, NoIssuer
      <3> QED BY <3>1, <3>2, <3>3
    <2> QED BY <2>1, <2>2, <2>3, <2>4, <2>5, <2>6 DEF CallInv, Copy, Built
  <1>3. ASSUME NEW k \in DOMAIN cached, NEW ref, ref = cached[k].entry
        PROVE  BuiltOnce(ref)' /\ Holds(ref, k[3], k[2])'
    <2>1. BuiltOnce(ref) /\ Holds(ref, k[3], k[2])
      BY <1>3 DEF IInv, CachedInv
    <2> QED BY <1>1, <2>1, HoldsStays
  <1>4. ASSUME NEW k \in DOMAIN registered, NEW ref, ref = registered[k].entry
        PROVE  \E entry \in log' : /\ entry.ref = ref
                                   /\ RegisteredKey(entry.by, ObjectName[entry.ref]) = k
    BY <1>4 DEF IInv, RegisteredInv, StepOf
  <1> QED BY <1>2, <1>3, <1>4

\* What is left to show of a step: types, its own call, and new cache entries.
LEMMA StepKeeps ==
  ASSUME IInv, NEW c \in Calls, StepOf(c), TypeOK', CallInv(c)',
         \A k \in DOMAIN cached' :
           (k \in DOMAIN cached /\ cached'[k] = cached[k]) \/ CachedInv(k)',
         \A k \in DOMAIN registered' :
           (k \in DOMAIN registered /\ registered'[k] = registered[k]) \/ RegisteredInv(k)'
  PROVE  IInv'
  <1>1. \A r \in AppObjects : heap'[r] \in Object /\ heap'[r].name = ObjectName[r]
    BY RefTypes DEF IInv, StepOf, Benign
  <1>2. ASSUME NEW k \in DOMAIN cached'
        PROVE  CachedInv(k)'
    <2>1. CASE CachedInv(k)'
      BY <2>1
    <2>2. CASE k \in DOMAIN cached /\ cached'[k] = cached[k]
      <3>1. PICK ref : ref = cached[k].entry
        OBVIOUS
      <3>2. BuiltOnce(ref)' /\ Holds(ref, k[3], k[2])'
        BY <2>2, <3>1, OthersKeep
      <3> QED BY <2>2, <3>1, <3>2 DEF CachedInv, BuiltOnce, Holds
    <2> QED BY <1>2, <2>1, <2>2
  <1>3. ASSUME NEW k \in DOMAIN registered'
        PROVE  RegisteredInv(k)'
    <2>1. CASE RegisteredInv(k)'
      BY <2>1
    <2>2. CASE k \in DOMAIN registered /\ registered'[k] = registered[k]
      <3>1. PICK ref : ref = registered[k].entry
        OBVIOUS
      <3>2. \E entry \in log' : /\ entry.ref = ref
                                /\ RegisteredKey(entry.by, ObjectName[entry.ref]) = k
        BY <2>2, <3>1, OthersKeep
      <3> QED BY <2>2, <3>1, <3>2 DEF RegisteredInv
    <2> QED BY <1>3, <2>1, <2>2
  <1>4. \A d \in Calls : CallInv(d)'
    BY OthersKeep
  <1> QED BY <1>1, <1>2, <1>3, <1>4 DEF IInv
-----------------------------------------------------------------------------
(* The steps                                                               *)

\* A lookup finds what was registered with its name.
LEMMA RegisteredName ==
  ASSUME NEW o \in Lookups, NEW by \in Registrations, NEW name \in Names,
         RegisteredKey(by, name) = RegisteredKey(o, o.name),
         RegisteredKey(o, o.name) # Undefined
  PROVE  name = o.name
  <1>1. /\ GetJwtForCaching(o.jwt) \in Jwt /\ GetJwtForCaching(by.jwt) \in Jwt
        /\ o.name \in Names
    BY OptionTypes, CachingJwtType
  <1> QED BY <1>1, KeyParts DEF RegisteredKey

\* Nothing is cached, registered or called at the beginning.
LEMMA InitIInv ==
  ASSUME Init
  PROVE  IInv
  <1>1. \A r \in AppObjects : /\ NewObject(ObjectName[r], Undefined) \in Object
                              /\ NewObject(ObjectName[r], Undefined).name = ObjectName[r]
    BY SourcesAssumption DEF NewObject, Object
  <1>2. DOMAIN EmptyCache = {}
    BY DEF EmptyCache
  <1>3. TypeOK
    BY <1>1, <1>2 DEF Init, TypeOK, Labels
  <1>4. \A r \in AppObjects : heap[r] \in Object /\ heap[r].name = ObjectName[r]
    BY <1>1, RefTypes DEF Init
  <1>5. \A c \in Calls : CallInv(c)
    BY DEF Init, CallInv
  <1> QED BY <1>2, <1>3, <1>4, <1>5 DEF IInv, Init

\* Where the token is set before the copy is made, both objects have it.
LEMMA ForwardThenCopyEffect ==
  ASSUME TypeOK, NEW c \in Calls, NEW ref \in Refs, NEW obj \in Object, NEW jwt \in CallerJwt,
         NEW from \in {"env", "registered"}, ForwardThenCopy(c, ref, obj, jwt, from)
  PROVE  /\ heap' \in [Refs -> Object \cup {Undefined}]
         /\ heap'[ref] = Forward(obj, jwt) \/ ref = Copy(c)
         /\ \A r \in Refs : r \notin {ref, Copy(c)} => heap'[r] = heap[r]
         /\ pc' = [pc EXCEPT ![c] = "done"] /\ source' = [source EXCEPT ![c] = from]
         /\ result' \in [Calls -> Refs \cup {Undefined}]
         /\ \A d \in Calls : d # c => result'[d] = result[d]
         /\ result'[c] \in {ref, Copy(c)}
         /\ result'[c] = Copy(c) /\ ref # Copy(c) => heap'[Copy(c)] = Forward(obj, jwt)
  <1>1. Forward(obj, jwt) \in Object /\ Copy(c) \in Refs
    BY Forwarded, RefTypes
  <1>2. CASE obj.name \in Proxied
    BY <1>1, <1>2 DEF ForwardThenCopy, Return, Goto, TypeOK
  <1>3. CASE obj.name \notin Proxied
    BY <1>1, <1>3 DEF ForwardThenCopy, Return, Goto, TypeOK
  <1> QED BY <1>2, <1>3

\* For a service binding only what is returned has it.
LEMMA CopyThenForwardEffect ==
  ASSUME TypeOK, NEW c \in Calls, NEW ref \in Refs, heap[ref] \in Object,
         opts[c].jwt \in CallerJwt, CopyThenForward(c, ref)
  PROVE  \E target \in {ref, Copy(c)} :
           /\ heap' = [heap EXCEPT ![target] = Forward(heap[ref], opts[c].jwt)]
           /\ heap' \in [Refs -> Object \cup {Undefined}]
           /\ pc' = [pc EXCEPT ![c] = "done"] /\ source' = [source EXCEPT ![c] = "binding"]
           /\ result' = [result EXCEPT ![c] = target]
           /\ result' \in [Calls -> Refs \cup {Undefined}]
  <1>1. Forward(heap[ref], opts[c].jwt) \in Object /\ Copy(c) \in Refs
    BY Forwarded, RefTypes
  <1> DEFINE target == IF heap[ref].name \in Proxied THEN Copy(c) ELSE ref
  <1>2. target \in {ref, Copy(c)} /\ target \in Refs
    BY <1>1
  <1>3. /\ heap' = [heap EXCEPT ![target] = Forward(heap[ref], opts[c].jwt)]
        /\ pc' = [pc EXCEPT ![c] = "done"] /\ source' = [source EXCEPT ![c] = "binding"]
        /\ result' = [result EXCEPT ![c] = target]
    BY DEF CopyThenForward, Return, Goto
  <1> HIDE DEF target
  <1>4. /\ heap' \in [Refs -> Object \cup {Undefined}]
        /\ result' \in [Calls -> Refs \cup {Undefined}]
    BY <1>1, <1>2, <1>3 DEF TypeOK
  <1> QED BY <1>2, <1>3, <1>4

\* The environment: both objects are new.
LEMMA CallFromEnvPreserves ==
  ASSUME IInv, NEW c \in Calls, NEW o \in Lookups, CallFromEnv(c, o)
  PROVE  IInv'
  <1> DEFINE obj == NewObject(o.name, Undefined)
  <1>1. TypeOK /\ CallInv(c) /\ pc[c] = "idle" /\ c \in DOMAIN pc
    BY DEF IInv, CallFromEnv, TypeOK
  <1>2. /\ opts' = [opts EXCEPT ![c] = o]
        /\ ForwardThenCopy(c, Built(c), obj, o.jwt, "env")
        /\ UNCHANGED <<registered, cached, found, log>>
    BY DEF CallFromEnv
  <1>3. obj \in Object /\ obj.name = o.name /\ o.jwt \in CallerJwt /\ o.name \in Names
    BY OptionTypes DEF NewObject, Object
  <1> HIDE DEF obj
  <1>4. /\ heap' \in [Refs -> Object \cup {Undefined}]
        /\ \A r \in Refs : r \notin {Built(c), Copy(c)} => heap'[r] = heap[r]
        /\ pc' = [pc EXCEPT ![c] = "done"] /\ source' = [source EXCEPT ![c] = "env"]
        /\ result' \in [Calls -> Refs \cup {Undefined}]
        /\ \A d \in Calls : d # c => result'[d] = result[d]
        /\ result'[c] = Copy(c) => heap'[Copy(c)] = Forward(obj, o.jwt)
    BY <1>1, <1>2, <1>3, RefTypes, ForwardThenCopyEffect
  <1>5. TypeOK'
    BY <1>1, <1>2, <1>4 DEF TypeOK, Labels
  <1>6. \A r \in Refs : BuiltOnce(r) \/ r \in AppObjects => heap'[r] = heap[r]
    BY <1>1, <1>4, RefTypes DEF BuiltOnce
  <1>7. StepOf(c)
    BY <1>1, <1>2, <1>4, <1>6, RefTypes DEF StepOf, Benign, TypeOK
  <1>8. CallInv(c)'
    <2>1. pc'[c] = "done" /\ source'[c] = "env" /\ opts'[c] = o
      BY <1>1, <1>2, <1>4 DEF TypeOK
    <2>2. result'[c] = Copy(c) /\ o.jwt # Undefined /\ o.name \in Forwarding
            => heap'[Copy(c)].auth = o.jwt
      BY <1>3, <1>4, Forwarded
    <2> QED BY <2>1, <2>2 DEF CallInv, Copy
  <1> QED BY <1>2, <1>5, <1>7, <1>8, StepKeeps

\* What the search finds was registered with the key of the call.
LEMMA CallSearchRegisteredPreserves ==
  ASSUME IInv, NEW c \in Calls, NEW o \in Lookups, CallSearchRegistered(c, o)
  PROVE  IInv'
  <1> DEFINE answer == Get(registered, RegisteredKey(o, o.name), 0)
  <1>1. TypeOK /\ CallInv(c) /\ pc[c] = "idle"
    BY DEF IInv, CallSearchRegistered
  <1>2. /\ opts' = [opts EXCEPT ![c] = o] /\ found' = [found EXCEPT ![c] = answer]
        /\ pc' = [pc EXCEPT ![c] = "registered"]
        /\ UNCHANGED <<heap, registered, cached, result, source, log>>
    BY DEF CallSearchRegistered, Goto
  <1>3. answer # Undefined =>
          /\ answer \in AppObjects /\ RegisteredKey(o, o.name) # Undefined
          /\ \E entry \in log :
               /\ entry.ref = answer
               /\ RegisteredKey(entry.by, ObjectName[entry.ref]) = RegisteredKey(o, o.name)
    <2>1. SUFFICES ASSUME answer # Undefined
                   PROVE  /\ answer \in AppObjects /\ RegisteredKey(o, o.name) # Undefined
                          /\ \E entry \in log :
                               /\ entry.ref = answer
                               /\ RegisteredKey(entry.by, ObjectName[entry.ref])
                                    = RegisteredKey(o, o.name)
      OBVIOUS
    <2> DEFINE key == RegisteredKey(o, o.name)
    <2>2. key # Undefined /\ key \in DOMAIN registered /\ answer = registered[key].entry
      BY <2>1, FoundEntry
    <2> HIDE DEF key
    <2>3. RegisteredInv(key) /\ registered[key] \in CacheEntry(AppObjects)
      BY <1>1, <2>2 DEF IInv, TypeOK
    <2> QED BY <2>2, <2>3 DEF RegisteredInv, CacheEntry, key
  <1> HIDE DEF answer
  <1>4. TypeOK'
    BY <1>1, <1>2, <1>3, RefTypes DEF TypeOK, Labels
  <1>5. StepOf(c)
    BY <1>1, <1>2 DEF StepOf, Benign, TypeOK
  <1>6. CallInv(c)'
    <2>1. /\ pc'[c] = "registered" /\ source'[c] = source[c] /\ opts'[c] = o
          /\ found'[c] = answer /\ source[c] = Undefined
      BY <1>1, <1>2 DEF TypeOK, CallInv
    <2> QED BY <1>2, <1>3, <2>1 DEF CallInv, RegisteredFor
  <1> QED BY <1>2, <1>4, <1>5, <1>6, StepKeeps

\* The application's object keeps its name and gets no service token.
LEMMA ReturnRegisteredPreserves ==
  ASSUME IInv, NEW c \in Calls, ReturnRegistered(c)
  PROVE  IInv'
  <1>1. TypeOK /\ CallInv(c) /\ pc[c] = "registered" /\ found[c] # Undefined
    BY DEF IInv, ReturnRegistered
  <1>2. /\ ForwardThenCopy(c, found[c], heap[found[c]], opts[c].jwt, "registered")
        /\ UNCHANGED <<registered, cached, opts, found, log>>
    BY DEF ReturnRegistered
  <1>3. RegisteredFor(c) /\ opts[c] \in Lookups
    BY <1>1 DEF CallInv
  <1>4. PICK ref \in AppObjects : ref = found[c]
    BY <1>3 DEF RegisteredFor
  <1>5. heap[ref] \in Object /\ heap[ref].name = ObjectName[ref] /\ ref \in Refs
    BY RefTypes DEF IInv
  <1>6. PICK obj \in Object : obj = heap[ref]
    BY <1>5
  <1>7. PICK jwt \in CallerJwt : jwt = opts[c].jwt
    BY <1>3, OptionTypes
  <1>8. Copy(c) \notin AppObjects /\ ref # Copy(c) /\ Copy(c) \in Refs
    BY RefTypes
  <1>9. ForwardThenCopy(c, ref, obj, jwt, "registered")
    BY <1>2, <1>4, <1>6, <1>7
  <1>10. /\ heap' \in [Refs -> Object \cup {Undefined}]
         /\ heap'[ref] = Forward(obj, jwt)
         /\ \A r \in Refs : r \notin {ref, Copy(c)} => heap'[r] = heap[r]
         /\ pc' = [pc EXCEPT ![c] = "done"] /\ source' = [source EXCEPT ![c] = "registered"]
         /\ result' \in [Calls -> Refs \cup {Undefined}]
         /\ \A d \in Calls : d # c => result'[d] = result[d]
         /\ result'[c] = Copy(c) => heap'[Copy(c)] = Forward(obj, jwt)
    BY <1>1, <1>5, <1>8, <1>9, ForwardThenCopyEffect
  <1>11. TypeOK'
    BY <1>1, <1>2, <1>10 DEF TypeOK, Labels
  <1>12. Benign(ref)
    BY <1>6, <1>10, Forwarded DEF Benign
  <1>13. \A r \in Refs : BuiltOnce(r) \/ r \in AppObjects => Benign(r)
    BY <1>10, <1>12, RefTypes DEF BuiltOnce, Benign
  <1>14. StepOf(c)
    BY <1>1, <1>2, <1>4, <1>10, <1>13, RefTypes DEF StepOf, TypeOK
  <1>15. ObjectName[ref] = opts[c].name
    BY <1>3, <1>4, RegisteredName, SourcesAssumption DEF RegisteredFor, IInv, TypeOK
  <1>16. CallInv(c)'
    <2>1. /\ pc'[c] = "done" /\ source'[c] = "registered" /\ opts'[c] = opts[c]
          /\ found'[c] = found[c] /\ log' = log
      BY <1>1, <1>2, <1>10 DEF TypeOK
    <2>2. RegisteredFor(c)'
      BY <1>3, <2>1 DEF RegisteredFor
    <2>3. result'[c] = Copy(c) /\ jwt # Undefined /\ opts[c].name \in Forwarding
            => heap'[Copy(c)].auth = jwt
      BY <1>5, <1>6, <1>10, <1>15, Forwarded
    <2> QED BY <1>3, <1>7, <2>1, <2>2, <2>3 DEF CallInv, Copy
  <1> QED BY <1>2, <1>11, <1>14, <1>16, StepKeeps

\* What the search finds was built for the tenant that the key names.
LEMMA SearchBindingPreserves ==
  ASSUME IInv, NEW c \in Calls, SearchBinding(c)
  PROVE  IInv'
  <1> DEFINE answer == Get(cached, ReadKey(opts[c]), 0)
  <1>1. /\ TypeOK /\ CallInv(c) /\ pc[c] = "registered" /\ found[c] = Undefined
        /\ UNCHANGED <<heap, registered, cached, opts, result, source, log>>
    BY DEF IInv, SearchBinding
  <1>2. opts[c] \in Lookups /\ source[c] = Undefined
    BY <1>1 DEF CallInv
  <1>3. PICK label \in {"binding", "transform", "service"} :
          /\ pc' = [pc EXCEPT ![c] = label]
          /\ label = "binding" =>
               found' = [found EXCEPT ![c] = answer] /\ opts[c].useCache
          /\ label # "binding" => found' = found
    BY DEF SearchBinding, StartTransform, Goto
  <1>4. ASSUME answer # Undefined, opts[c].useCache
        PROVE  /\ answer \in Refs /\ BuiltOnce(answer)
               /\ Holds(answer, opts[c].name, GrantTenant(opts[c]))
    <2>1. PICK key : key = ReadKey(opts[c])
      OBVIOUS
    <2>2. key # Undefined /\ key \in DOMAIN cached /\ answer = cached[key].entry
      BY <1>4, <2>1, FoundEntry
    <2>3. key[3] = opts[c].name /\ (NoIssuer => key[2] = GrantTenant(opts[c]))
      BY <1>2, <1>4, <2>1, <2>2, BindingKeys
    <2>4. CachedInv(key) /\ cached[key] \in CacheEntry({"built"} \X Calls)
      BY <1>1, <2>2 DEF IInv, TypeOK
    <2> QED BY <2>2, <2>3, <2>4 DEF CachedInv, Holds, CacheEntry, Refs
  <1>5. PICK a : a = answer
    OBVIOUS
  <1> HIDE DEF answer
  <1>6. TypeOK'
    BY <1>1, <1>3, <1>4 DEF TypeOK, Labels
  <1>7. StepOf(c)
    BY <1>1, <1>3 DEF StepOf, Benign, TypeOK
  <1>8. CallInv(c)'
    <2>1. /\ pc'[c] = label /\ source'[c] = Undefined /\ opts'[c] = opts[c]
          /\ label = "binding" => found'[c] = a
      BY <1>1, <1>2, <1>3, <1>5 DEF TypeOK
    <2>2. ASSUME label = "binding", a # Undefined
          PROVE  BuiltOnce(a)' /\ Holds(a, opts[c].name, GrantTenant(opts[c]))'
      <3>1. BuiltOnce(a)'
        BY <1>1, <1>3, <1>4, <1>5, <2>2 DEF BuiltOnce, TypeOK
      <3>2. Holds(a, opts[c].name, GrantTenant(opts[c]))'
        BY <1>1, <1>3, <1>4, <1>5, <2>1, <2>2 DEF Holds
      <3> QED BY <3>1, <3>2
    <2>3. label = "binding" /\ found'[c] # Undefined =>
            (BuiltOnce(found[c]) /\ Holds(found[c], opts[c].name, GrantTenant(opts[c])))'
      BY <2>1, <2>2 DEF BuiltOnce, Holds
    <2> QED BY <1>2, <2>1, <2>3 DEF CallInv
  <1> QED BY <1>1, <1>6, <1>7, <1>8, StepKeeps

\* Calls that turn to the transformation or to the destination service.
LEMMA MoveOnPreserves ==
  ASSUME IInv, NEW c \in Calls, MissBinding(c) \/ FailTransform(c)
  PROVE  IInv'
  <1>1. /\ TypeOK /\ CallInv(c) /\ pc[c] \in {"binding", "transform"}
        /\ UNCHANGED <<heap, registered, cached, opts, found, result, source, log>>
    BY DEF IInv, MissBinding, FailTransform
  <1>2. PICK label \in {"transform", "service"} : pc' = [pc EXCEPT ![c] = label]
    BY DEF MissBinding, FailTransform, StartTransform, Goto
  <1>3. TypeOK'
    BY <1>1, <1>2 DEF TypeOK, Labels
  <1>4. StepOf(c)
    BY <1>1, <1>2 DEF StepOf, Benign, TypeOK
  <1>5. CallInv(c)'
    <2>1. pc'[c] = label /\ source'[c] = Undefined /\ opts'[c] = opts[c] /\ opts[c] \in Lookups
      BY <1>1, <1>2 DEF TypeOK, CallInv
    <2> QED BY <2>1 DEF CallInv
  <1> QED BY <1>1, <1>3, <1>4, <1>5, StepKeeps

\* The object of a service binding, or its copy, is returned.
LEMMA ReturnBinding ==
  ASSUME IInv, NEW c \in Calls, NEW ref, ref = found[c], CopyThenForward(c, ref),
         BuiltOnce(ref), Holds(ref, opts[c].name, GrantTenant(opts[c])),
         opts[c] \in Lookups,
         UNCHANGED <<registered, cached, opts, found, log>>
  PROVE  IInv'
  <1>1. TypeOK /\ pc \in [Calls -> Labels]
    BY DEF IInv, TypeOK
  <1>2. opts[c].jwt \in CallerJwt /\ heap[ref] \in Object /\ heap[ref].name = opts[c].name
    BY OptionTypes DEF Holds
  <1>3. PICK d \in Calls : ref = Built(d) /\ pc[d] \in {"built", "done"}
    BY DEF BuiltOnce
  <1>4. ref \in Refs /\ ref \notin AppObjects /\ \A e \in Calls : ref # Copy(e)
    BY <1>3, RefTypes
  <1>5. PICK target \in {ref, Copy(c)} :
           /\ heap' = [heap EXCEPT ![target] = Forward(heap[ref], opts[c].jwt)]
           /\ heap' \in [Refs -> Object \cup {Undefined}]
           /\ pc' = [pc EXCEPT ![c] = "done"] /\ source' = [source EXCEPT ![c] = "binding"]
           /\ result' = [result EXCEPT ![c] = target]
           /\ result' \in [Calls -> Refs \cup {Undefined}]
    BY <1>1, <1>2, <1>4, CopyThenForwardEffect
  <1>6. target \in Refs
    BY <1>4, RefTypes
  <1>7. TypeOK'
    BY <1>1, <1>5 DEF TypeOK, Labels
  <1>8. /\ heap'[target] = Forward(heap[ref], opts[c].jwt)
        /\ \A r \in Refs : r # target => heap'[r] = heap[r]
    BY <1>1, <1>5, <1>6 DEF TypeOK
  <1>9. \A r \in Refs : r # Copy(c) => Benign(r)
    BY <1>2, <1>8, Forwarded DEF Benign
  <1>10. StepOf(c)
    <2>1. \A e \in Calls : e # c =>
            /\ pc'[e] = pc[e] /\ opts'[e] = opts[e] /\ found'[e] = found[e]
            /\ result'[e] = result[e] /\ source'[e] = source[e]
            /\ heap'[Copy(e)] = heap[Copy(e)]
      BY <1>1, <1>4, <1>5, <1>8, RefTypes DEF TypeOK
    <2>2. pc'[c] = "done" /\ log' = log
      BY <1>1, <1>5
    <2>3. \A r \in Refs : BuiltOnce(r) \/ r \in AppObjects => Benign(r)
      BY <1>9, RefTypes DEF BuiltOnce
    <2> QED BY <2>1, <2>2, <2>3 DEF StepOf
  <1>11. CallInv(c)'
    <2>1. /\ pc'[c] = "done" /\ source'[c] = "binding" /\ opts'[c] = opts[c]
          /\ result'[c] = target
      BY <1>1, <1>5 DEF TypeOK
    <2>2. target = Copy(c) \/ BuiltOnce(target)'
      BY <1>1, <1>3, <1>5 DEF BuiltOnce, Built
    <2>3. Holds(target, opts[c].name, GrantTenant(opts[c]))'
      BY <1>2, <1>8, <2>1, Forwarded DEF Holds
    <2>4. (/\ result[c] = Copy(c) \/ BuiltOnce(result[c])
           /\ Holds(result[c], opts[c].name, GrantTenant(opts[c])))'
      BY <2>1, <2>2, <2>3 DEF Holds, BuiltOnce, Copy
    <2>5. target = Copy(c) /\ opts[c].jwt # Undefined /\ opts[c].name \in Forwarding
            => heap'[Copy(c)].auth = opts[c].jwt
      BY <1>2, <1>8, Forwarded
    <2> QED BY <2>1, <2>4, <2>5 DEF CallInv, Copy
  <1> QED BY <1>7, <1>10, <1>11, StepKeeps

\* What a hit returns was built under the key of the caller.
LEMMA ReturnCachedBindingPreserves ==
  ASSUME IInv, NEW c \in Calls, ReturnCachedBinding(c)
  PROVE  IInv'
  <1>1. /\ CallInv(c) /\ pc[c] = "binding" /\ found[c] # Undefined
        /\ CopyThenForward(c, found[c]) /\ UNCHANGED <<registered, cached, opts, found, log>>
    BY DEF IInv, ReturnCachedBinding
  <1>2. /\ BuiltOnce(found[c]) /\ Holds(found[c], opts[c].name, GrantTenant(opts[c]))
        /\ opts[c] \in Lookups
    BY <1>1 DEF CallInv
  <1> QED BY <1>1, <1>2, ReturnBinding

\* What a call has built goes into the cache under its own key.
LEMMA ReturnBuiltPreserves ==
  ASSUME IInv, NEW c \in Calls, ReturnBuilt(c)
  PROVE  IInv'
  <1>1. /\ CallInv(c) /\ pc[c] = "built"
        /\ CopyThenForward(c, found[c]) /\ UNCHANGED <<registered, cached, opts, found, log>>
    BY DEF IInv, ReturnBuilt
  <1>2. /\ BuiltOnce(found[c]) /\ Holds(found[c], opts[c].name, GrantTenant(opts[c]))
        /\ opts[c] \in Lookups
    BY <1>1 DEF CallInv, BuiltOnce
  <1> QED BY <1>1, <1>2, ReturnBinding

\* The new object is for the tenant that it is filed under.
LEMMA TransformPreserves ==
  ASSUME IInv, NEW c \in Calls, Transform(c)
  PROVE  IInv'
  <1> DEFINE auth == IF opts[c].name \in Forwarding THEN Undefined ELSE GrantTenant(opts[c])
             obj == NewObject(opts[c].name, auth)
  <1>1. /\ TypeOK /\ CallInv(c) /\ pc[c] = "transform"
        /\ heap' = [heap EXCEPT ![Built(c)] = obj]
        /\ found' = [found EXCEPT ![c] = Built(c)] /\ pc' = [pc EXCEPT ![c] = "built"]
        /\ \/ cached' = Put(cached, WriteKey(opts[c]), Built(c)) /\ opts[c].useCache
           \/ cached' = cached
        /\ UNCHANGED <<registered, opts, result, source, log>>
    BY DEF IInv, Transform, Goto
  <1>2. opts[c] \in Lookups /\ source[c] = Undefined
    BY <1>1 DEF CallInv
  <1>3. obj \in Object /\ obj.name = opts[c].name
        /\ (obj.auth \in Tenants => obj.auth = GrantTenant(opts[c]))
    <2>1. opts[c].jwt \in CallerJwt /\ opts[c].name \in Names
          /\ opts[c].iss \in Tenants \cup {Undefined}
      BY <1>2, OptionTypes
    <2>2. GrantTenant(opts[c]) \in Tenants
      BY <2>1, DecodedJwt, SourcesAssumption DEF GrantTenant
    <2> QED BY <2>1, <2>2, SourcesAssumption DEF NewObject, Object
  <1> HIDE DEF obj
  <1>4. heap'[Built(c)] = obj /\ \A r \in Refs : r # Built(c) => heap'[r] = heap[r]
    BY <1>1, RefTypes DEF TypeOK
  <1>5. BuiltOnce(Built(c))'
    BY <1>1 DEF BuiltOnce, TypeOK, Built
  <1>6. Holds(Built(c), opts[c].name, GrantTenant(opts[c]))'
    BY <1>1, <1>3, <1>4 DEF Holds, Built
  <1>7. ASSUME NEW k \in DOMAIN cached', ~(k \in DOMAIN cached /\ cached'[k] = cached[k])
        PROVE  /\ k \in Keys /\ cached'[k] \in CacheEntry({"built"} \X Calls)
               /\ CachedInv(k)'
    <2>1. cached' = Put(cached, WriteKey(opts[c]), Built(c)) /\ opts[c].useCache
      BY <1>1, <1>7
    <2>2. Built(c) \in {"built"} \X Calls
      BY RefTypes
    <2>3. PICK ref \in {"built"} \X Calls : ref = Built(c)
      BY <2>2
    <2>4. PICK key : key = WriteKey(opts[c])
      OBVIOUS
    <2>5. cached' = Put(cached, key, ref)
      BY <2>1, <2>3, <2>4
    <2>6. /\ k = key /\ key # Undefined /\ cached'[k].entry = ref
          /\ cached'[k] \in CacheEntry({"built"} \X Calls)
      BY <1>7, <2>5, PutEntry
    <2>7. key \in Keys /\ key[3] = opts[c].name /\ (NoIssuer => key[2] = GrantTenant(opts[c]))
      BY <1>2, <2>1, <2>4, <2>6, BindingKeys
    <2>8. CachedInv(k)'
      BY <1>1, <1>5, <1>6, <2>3, <2>6, <2>7 DEF CachedInv, BuiltOnce, Holds, NoIssuer, Built
    <2> QED BY <2>6, <2>7, <2>8
  <1>8. TypeOK'
    <2>1. heap' \in [Refs -> Object \cup {Undefined}]
      BY <1>1, <1>3 DEF TypeOK
    <2>2. DOMAIN cached' \subseteq Keys
          /\ \A k \in DOMAIN cached' : cached'[k] \in CacheEntry({"built"} \X Calls)
      BY <1>1, <1>7 DEF TypeOK
    <2> QED BY <1>1, <2>1, <2>2, RefTypes DEF TypeOK, Labels
  <1>9. StepOf(c)
    <2>1. \A r \in Refs : BuiltOnce(r) \/ r \in AppObjects => heap'[r] = heap[r]
      BY <1>1, <1>4, RefTypes DEF BuiltOnce
    <2> QED BY <1>1, <1>4, <2>1, RefTypes DEF StepOf, Benign, TypeOK
  <1>10. CallInv(c)'
    <2>1. /\ pc'[c] = "built" /\ source'[c] = Undefined /\ opts'[c] = opts[c]
          /\ found'[c] = Built(c)
      BY <1>1, <1>2 DEF TypeOK
    <2>2. Holds(found[c], opts[c].name, GrantTenant(opts[c]))'
      BY <1>1, <1>6, <2>1 DEF Holds, Built
    <2> QED BY <1>2, <2>1, <2>2 DEF CallInv, Built
  <1> QED BY <1>1, <1>7, <1>8, <1>9, <1>10, StepKeeps

\* A registration that is completed is logged with the object and its options.
LEMMA StoreEntry ==
  ASSUME NEW c \in Calls, NEW o \in Registrations, NEW ref \in AppObjects,
         Store(c, o, ref), TypeOK
  PROVE  /\ pc' = [pc EXCEPT ![c] = "stored"] /\ log \subseteq log'
         /\ log' \subseteq [ref : AppObjects, by : Registrations]
         /\ \A k \in DOMAIN registered' :
              \/ k \in DOMAIN registered /\ registered'[k] = registered[k]
              \/ k \in Keys /\ registered'[k] \in CacheEntry(AppObjects) /\ RegisteredInv(k)'
  <1>1. PICK key : key = RegisteredKey(o, ObjectName[ref])
    OBVIOUS
  <1>2. /\ registered' = Put(registered, key, ref) /\ pc' = [pc EXCEPT ![c] = "stored"]
        /\ log' = log \cup {[ref |-> ref, by |-> o]}
    BY <1>1 DEF Store, Goto
  <1>3. ASSUME NEW k \in DOMAIN registered', ~(k \in DOMAIN registered /\ registered'[k] = registered[k])
        PROVE  k \in Keys /\ registered'[k] \in CacheEntry(AppObjects) /\ RegisteredInv(k)'
    <2>1. /\ k = key /\ key # Undefined /\ registered'[k].entry = ref
          /\ registered'[k] \in CacheEntry(AppObjects)
      BY <1>2, <1>3, PutEntry
    <2>2. key \in Keys
      BY <1>1, <2>1, RegisteredKeyType, SourcesAssumption
    <2>3. PICK entry \in log' : entry.ref = ref /\ entry.by = o
      <3>1. [ref |-> ref, by |-> o] \in log'
        BY <1>2
      <3>2. [ref |-> ref, by |-> o].ref = ref /\ [ref |-> ref, by |-> o].by = o
        OBVIOUS
      <3> QED BY <3>1, <3>2
    <2>4. RegisteredInv(k)'
      BY <1>1, <2>1, <2>3 DEF RegisteredInv
    <2> QED BY <2>1, <2>2, <2>4
  <1>4. log' \subseteq [ref : AppObjects, by : Registrations]
    BY <1>2 DEF TypeOK
  <1> QED BY <1>2, <1>3, <1>4

\* Only `mtls' is set on the application's object.
LEMMA RegisterPreserves ==
  ASSUME IInv, NEW c \in Calls, NEW o \in Registrations, NEW ref \in AppObjects,
         Register(c, o, ref)
  PROVE  IInv'
  <1>1. /\ TypeOK /\ CallInv(c) /\ pc[c] = "idle"
        /\ heap' = [heap EXCEPT ![ref].mtls = o.inferMtls]
        /\ opts' = [opts EXCEPT ![c] = o] /\ found' = [found EXCEPT ![c] = ref]
        /\ UNCHANGED <<cached, result, source>>
    BY DEF IInv, Register
  <1>2. /\ log \subseteq log' /\ log' \subseteq [ref : AppObjects, by : Registrations]
        /\ pc' = [pc EXCEPT ![c] = "certificate"] \/ pc' = [pc EXCEPT ![c] = "stored"]
        /\ \A k \in DOMAIN registered' :
             \/ k \in DOMAIN registered /\ registered'[k] = registered[k]
             \/ k \in Keys /\ registered'[k] \in CacheEntry(AppObjects) /\ RegisteredInv(k)'
    <2>1. CASE o.useMtlsCache
      BY <1>1, <2>1 DEF Register, Goto, TypeOK
    <2>2. CASE ~o.useMtlsCache
      BY <1>1, <2>2, StoreEntry DEF Register
    <2> QED BY <2>1, <2>2
  <1>3. heap[ref] \in Object /\ ref \in Refs /\ o.inferMtls \in BOOLEAN
    BY RefTypes, OptionTypes DEF IInv
  <1>4. PICK obj \in Object : obj = heap[ref]
    BY <1>3
  <1>5. /\ heap' \in [Refs -> Object \cup {Undefined}]
        /\ \A r \in Refs : r # ref => heap'[r] = heap[r]
        /\ heap'[ref] = [obj EXCEPT !.mtls = o.inferMtls]
    <2>1. [obj EXCEPT !.mtls = o.inferMtls] \in Object
      BY <1>3 DEF Object
    <2>2. heap' = [heap EXCEPT ![ref] = [obj EXCEPT !.mtls = o.inferMtls]]
      BY <1>1, <1>4
    <2> QED BY <1>1, <1>3, <2>1, <2>2 DEF TypeOK
  <1>6. Benign(ref)
    BY <1>3, <1>4, <1>5 DEF Benign, Object
  <1>7. TypeOK'
    <2>1. DOMAIN registered' \subseteq Keys
          /\ \A k \in DOMAIN registered' : registered'[k] \in CacheEntry(AppObjects)
      BY <1>1, <1>2 DEF TypeOK
    <2> QED BY <1>1, <1>2, <1>3, <1>5, <2>1 DEF TypeOK, Labels
  <1>8. StepOf(c)
    <2>1. \A r \in Refs : Benign(r)
      BY <1>5, <1>6 DEF Benign
    <2> QED BY <1>1, <1>2, <1>5, <2>1, RefTypes DEF StepOf, TypeOK
  <1>9. CallInv(c)'
    <2>1. /\ pc'[c] \in {"certificate", "stored"} /\ source'[c] = Undefined /\ opts'[c] = o
          /\ found'[c] = ref
      BY <1>1, <1>2 DEF TypeOK, CallInv
    <2> QED BY <2>1 DEF CallInv
  <1> QED BY <1>1, <1>2, <1>7, <1>8, <1>9, StepKeeps

\* The registration that waited for the certificate is completed.
LEMMA CertificateReadPreserves ==
  ASSUME IInv, NEW c \in Calls, CertificateRead(c)
  PROVE  IInv'
  <1>1. /\ TypeOK /\ CallInv(c) /\ pc[c] = "certificate" /\ Store(c, opts[c], found[c])
        /\ UNCHANGED <<heap, cached, opts, found, result, source>>
    BY DEF IInv, CertificateRead
  <1>2. /\ opts[c] \in Registrations /\ found[c] \in AppObjects /\ source[c] = Undefined
    BY <1>1 DEF CallInv
  <1>3. /\ log \subseteq log' /\ log' \subseteq [ref : AppObjects, by : Registrations]
        /\ pc' = [pc EXCEPT ![c] = "stored"]
        /\ \A k \in DOMAIN registered' :
             \/ k \in DOMAIN registered /\ registered'[k] = registered[k]
             \/ k \in Keys /\ registered'[k] \in CacheEntry(AppObjects) /\ RegisteredInv(k)'
    <2>1. PICK o \in Registrations : o = opts[c]
      BY <1>2
    <2>2. PICK ref \in AppObjects : ref = found[c]
      BY <1>2
    <2>3. Store(c, o, ref)
      BY <1>1, <2>1, <2>2
    <2> QED BY <1>1, <2>3, StoreEntry
  <1>4. TypeOK'
    <2>1. DOMAIN registered' \subseteq Keys
          /\ \A k \in DOMAIN registered' : registered'[k] \in CacheEntry(AppObjects)
      BY <1>1, <1>3 DEF TypeOK
    <2> QED BY <1>1, <1>3, <2>1 DEF TypeOK, Labels
  <1>5. StepOf(c)
    BY <1>1, <1>3 DEF StepOf, Benign, TypeOK
  <1>6. CallInv(c)'
    BY <1>1, <1>2, <1>3 DEF CallInv, TypeOK
  <1> QED BY <1>1, <1>3, <1>4, <1>5, <1>6, StepKeeps

\* A rejected registration stores nothing.
LEMMA CertificateFailsPreserves ==
  ASSUME IInv, NEW c \in Calls, CertificateFails(c)
  PROVE  IInv'
  <1>1. /\ TypeOK /\ CallInv(c) /\ pc[c] = "certificate" /\ pc' = [pc EXCEPT ![c] = "failed"]
        /\ UNCHANGED <<heap, registered, cached, opts, found, result, source, log>>
    BY DEF IInv, CertificateFails, Goto
  <1>2. TypeOK'
    BY <1>1 DEF TypeOK, Labels
  <1>3. StepOf(c)
    BY <1>1 DEF StepOf, Benign, TypeOK
  <1>4. CallInv(c)'
    BY <1>1 DEF CallInv, TypeOK
  <1> QED BY <1>1, <1>2, <1>3, <1>4, StepKeeps

\* Entries that disappear, and steps of others, leave the rest as it is.
LEMMA ForgetPreserves ==
  ASSUME IInv, UNCHANGED <<heap, pc, opts, found, result, source, log>>,
         \A k \in DOMAIN cached' : k \in DOMAIN cached /\ cached'[k] = cached[k],
         \A k \in DOMAIN registered' : k \in DOMAIN registered /\ registered'[k] = registered[k]
  PROVE  IInv'
  <1>1. TypeOK'
    BY DEF IInv, TypeOK
  <1>2. /\ \A k \in DOMAIN cached' : CachedInv(k)'
        /\ \A k \in DOMAIN registered' : RegisteredInv(k)'
    BY DEF IInv, CachedInv, RegisteredInv, BuiltOnce, Holds
  <1>3. \A c \in Calls : CallInv(c)'
    BY DEF IInv, CallInv, RegisteredFor, BuiltOnce, Holds
  <1> QED BY <1>1, <1>2, <1>3 DEF IInv

\* Every step keeps the invariant.
LEMMA NextPreserves ==
  ASSUME IInv, [Next]_vars
  PROVE  IInv'
  <1>1. ASSUME NEW c \in Calls, Step(c)
        PROVE  IInv'
    <2>1. ASSUME NEW o \in Lookups, CallFromEnv(c, o)  PROVE IInv'
      BY <2>1, CallFromEnvPreserves
    <2>2. ASSUME NEW o \in Lookups, CallSearchRegistered(c, o)  PROVE IInv'
      BY <2>2, CallSearchRegisteredPreserves
    <2>3. CASE ReturnRegistered(c)
      BY <2>3, ReturnRegisteredPreserves
    <2>4. CASE SearchBinding(c)
      BY <2>4, SearchBindingPreserves
    <2>5. CASE ReturnCachedBinding(c)
      BY <2>5, ReturnCachedBindingPreserves
    <2>6. CASE MissBinding(c) \/ FailTransform(c)
      BY <2>6, MoveOnPreserves
    <2>7. CASE Transform(c)
      BY <2>7, TransformPreserves
    <2>8. CASE ReturnBuilt(c)
      BY <2>8, ReturnBuiltPreserves
    <2>9. ASSUME NEW o \in Registrations, NEW r \in AppObjects, Register(c, o, r)  PROVE IInv'
      BY <2>9, RegisterPreserves
    <2>10. CASE CertificateRead(c)
      BY <2>10, CertificateReadPreserves
    <2>11. CASE CertificateFails(c)
      BY <2>11, CertificateFailsPreserves
    <2> QED BY <1>1, <2>1, <2>2, <2>3, <2>4, <2>5, <2>6, <2>7, <2>8, <2>9, <2>10, <2>11 DEF Step
  <1>2. ASSUME NEW k \in DOMAIN cached, Expire(k)
        PROVE  IInv'
    BY <1>2, ForgetPreserves DEF Expire
  <1>3. CASE ClearRegistered
    BY <1>3, ForgetPreserves DEF ClearRegistered, EmptyCache
  <1>4. CASE UNCHANGED vars
    BY <1>4, ForgetPreserves DEF vars
  <1> QED BY <1>1, <1>2, <1>3, <1>4 DEF Next

\* The invariant holds in every reachable state.
LEMMA Invariance == Spec => []IInv
  <1>1. Init => IInv
    BY InitIInv
  <1>2. IInv /\ [Next]_vars => IInv'
    BY NextPreserves
  <1> QED BY <1>1, <1>2, PTL DEF Spec

-----------------------------------------------------------------------------
(* The theorems                                                            *)

\* Both caches hold references under well-formed keys, and calls go through
\* the labels that getDestination() and registerDestination() have.
THEOREM SourcesTypes == Spec => []TypeOK
  <1>1. IInv => TypeOK
    BY DEF IInv
  <1> QED BY <1>1, Invariance, PTL

\* As long as no call that uses the cache names its tenant by `iss', what is made
\* from a service binding is returned with a service token of the caller's tenant.
THEOREM SourcesBindingForCaller == NoIssuer => (Spec => []BindingForCaller)
  <1> SUFFICES ASSUME NoIssuer
               PROVE  Spec => []BindingForCaller
    OBVIOUS
  <1>1. IInv => BindingForCaller
    BY SourcesAssumption DEF IInv, CallInv, Holds, BindingForCaller
  <1> QED BY <1>1, Invariance, PTL

\* As long as tenants are named by tokens of XSUAA, a registered destination
\* is found only by callers of the tenant, and the user, it is meant for.
THEOREM SourcesRegisteredForCaller == XsuaaTokens => (Spec => []RegisteredForCaller)
  <1> SUFFICES ASSUME XsuaaTokens
               PROVE  Spec => []RegisteredForCaller
    OBVIOUS
  <1>1. ASSUME IInv, NEW c \in Calls, source[c] = "registered"
        PROVE  \E entry \in log :
                 /\ entry.ref = found[c] /\ ObjectName[found[c]] = opts[c].name
                 /\ CallerTenant(entry.by) = CallerTenant(opts[c])
                 /\ Isolation(opts[c]) = "tenant-user" => entry.by.jwt.user = opts[c].jwt.user
    <2>1. CallInv(c) /\ log \subseteq [ref : AppObjects, by : Registrations]
      BY <1>1 DEF IInv, TypeOK
    <2>2. RegisteredFor(c) /\ opts[c] \in Lookups
      BY <1>1, <2>1, SourcesAssumption DEF CallInv
    <2>3. PICK entry \in log :
            /\ entry.ref = found[c] /\ RegisteredKey(opts[c], opts[c].name) # Undefined
            /\ RegisteredKey(entry.by, ObjectName[entry.ref])
                 = RegisteredKey(opts[c], opts[c].name)
      BY <2>2 DEF RegisteredFor
    <2>4. entry.by \in Registrations /\ ObjectName[entry.ref] \in Names
      BY <2>1, SourcesAssumption
    <2> QED BY <1>1, <2>2, <2>3, <2>4, SameRegistration
  <1>2. IInv => RegisteredForCaller
    BY <1>1 DEF RegisteredForCaller
  <1> QED BY <1>2, Invariance, PTL

\* A copy that was made for a proxied destination keeps the JWT of its caller.
THEOREM SourcesCopyKeepsToken == Spec => []CopyKeepsToken
  <1>1. IInv => CopyKeepsToken
    BY DEF IInv, CallInv, CopyKeepsToken
  <1> QED BY <1>1, Invariance, PTL
=============================================================================
