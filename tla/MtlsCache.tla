----------------------------- MODULE MtlsCache -----------------------------
(***************************************************************************)
(* The client certificate of the Cloud Foundry instance: getMtlsOptions()  *)
(* of http-agent.ts reads it and its key for each agent, or takes them     *)
(* from registerDestinationCache.mtls, for which a single registration     *)
(* with `useMtlsCache' decides for the whole process.  Cloud Foundry       *)
(* replaces the files before the certificate in them expires.              *)
(*                                                                         *)
(* CF_INSTANCE_CERT and CF_INSTANCE_KEY are set: without them no agent has *)
(* a certificate (a warning says so), and a registration fails.            *)
(***************************************************************************)
EXTENDS Cache

CONSTANTS Agents,        \* calls of getMtlsOptions()
          Registrations, \* calls of registerDestination() with `useMtlsCache'
          Lifetime,      \* of a certificate
          MaxTime        \* bound of the clock

VARIABLES now, cert, key,  \* the clock and the generations of the two files
          useMtlsCache,    \* the flag of the cache
          cache,           \* mtlsCache
          pc,              \* where each call stands
          read,            \* the files a call has read: [cert, key]
          options          \* what an agent gets, Undefined for `{}'

vars == <<now, cert, key, useMtlsCache, cache, pc, read, options>>

Callers == Agents \cup Registrations
CacheKey == "mtlsOptions"
DefaultValidityTime == 300000

Generation == 0..MaxTime
Unread == [cert |-> Undefined, key |-> Undefined]
Files == [cert : Generation \cup {Undefined}, key : Generation \cup {Undefined}]

MtlsAssumption ==
  /\ Agents \cap Registrations = {}
  /\ Lifetime \in Nat \ {0} /\ MaxTime \in Nat
  /\ Undefined \notin Callers \cup Files \cup {CacheKey}

\* Generation g is issued at g * Lifetime at the latest.
ValidTo(g) == (g + 1) * Lifetime

\* `Number(x509.validTo)': the date is a text like `Nov 16 12:00:00 2026 GMT'.
GetCertExpirationDate(g) == NaN

Retrieve == Get(cache, CacheKey, now)

Goto(c, label) == pc' = [pc EXCEPT ![c] = label]

-----------------------------------------------------------------------------

Init ==
  /\ now = 0 /\ cert = 0 /\ key = 0
  /\ useMtlsCache = FALSE
  /\ cache = EmptyCache
  /\ pc = [c \in Callers |-> "idle"]
  /\ read = [c \in Callers |-> Unread]
  /\ options = [c \in Agents |-> Undefined]

Tick ==
  /\ now < MaxTime
  /\ now < ValidTo(cert)
  /\ now' = now + 1
  /\ UNCHANGED <<cert, key, useMtlsCache, cache, pc, read, options>>

\* The platform replaces the certificate, then the key.
ReplaceCert ==
  /\ cert = key /\ cert < MaxTime
  /\ cert' = cert + 1
  /\ UNCHANGED <<now, key, useMtlsCache, cache, pc, read, options>>

ReplaceKey ==
  /\ key < cert
  /\ key' = cert
  /\ UNCHANGED <<now, cert, useMtlsCache, cache, pc, read, options>>

Return(c, value) ==
  /\ Goto(c, "done")
  /\ options' = [options EXCEPT ![c] = value]

\* The certificate and the key are to be read, in either order.
GetOptions(c) ==
  /\ pc[c] = "idle"
  /\ IF ~useMtlsCache THEN Goto(c, "reading") /\ UNCHANGED options
     ELSE IF Retrieve # Undefined THEN Return(c, Retrieve)
     ELSE Goto(c, "refreshing") /\ UNCHANGED options
  /\ UNCHANGED <<now, cert, key, useMtlsCache, cache, read>>

\* registerDestination() sets the flag before it reads the files.
Register(c) ==
  /\ pc[c] = "idle"
  /\ useMtlsCache' = TRUE
  /\ Goto(c, "refreshing")
  /\ UNCHANGED <<now, cert, key, cache, read, options>>

ReadCert(c) ==
  /\ pc[c] \in {"reading", "refreshing"}
  /\ read[c].cert = Undefined
  /\ read' = [read EXCEPT ![c].cert = cert]
  /\ UNCHANGED <<now, cert, key, useMtlsCache, cache, pc, options>>

ReadKey(c) ==
  /\ pc[c] \in {"reading", "refreshing"}
  /\ read[c].key = Undefined
  /\ read' = [read EXCEPT ![c].key = key]
  /\ UNCHANGED <<now, cert, key, useMtlsCache, cache, pc, options>>

BothRead(c) == read[c].cert # Undefined /\ read[c].key # Undefined

ReturnRead(c) ==
  /\ pc[c] = "reading"
  /\ BothRead(c)
  /\ Return(c, read[c])
  /\ UNCHANGED <<now, cert, key, useMtlsCache, cache, read>>

\* The end of cacheMtlsOptions().
CacheOptions(c) ==
  /\ pc[c] = "refreshing"
  /\ BothRead(c)
  /\ cache' = Set(cache, CacheKey,
                  [entry |-> read[c], expires |-> GetCertExpirationDate(read[c].cert)],
                  DefaultValidityTime, now)
  /\ Goto(c, IF c \in Agents THEN "retrieve" ELSE "done")
  /\ UNCHANGED <<now, cert, key, useMtlsCache, read, options>>

\* getMtlsOptions() looks into the cache a second time; what it does not find
\* there becomes `{}'.
RetrieveAgain(c) ==
  /\ pc[c] = "retrieve"
  /\ Return(c, Retrieve)
  /\ UNCHANGED <<now, cert, key, useMtlsCache, cache, read>>

\* A file cannot be read: the call is rejected, the flag remains.
Fail(c) ==
  /\ pc[c] \in {"reading", "refreshing"}
  /\ Goto(c, "failed")
  /\ UNCHANGED <<now, cert, key, useMtlsCache, cache, read, options>>

Next ==
  \/ Tick \/ ReplaceCert \/ ReplaceKey
  \/ \E c \in Agents : GetOptions(c) \/ ReturnRead(c) \/ RetrieveAgain(c)
  \/ \E c \in Registrations : Register(c)
  \/ \E c \in Callers : ReadCert(c) \/ ReadKey(c) \/ CacheOptions(c) \/ Fail(c)

Spec == Init /\ [][Next]_vars

-----------------------------------------------------------------------------
(* Properties                                                              *)

TypeOK ==
  /\ now \in 0..MaxTime /\ cert \in Generation /\ key \in Generation
  /\ useMtlsCache \in BOOLEAN
  /\ DOMAIN cache \subseteq {CacheKey}
  /\ \A k \in DOMAIN cache : cache[k] \in CacheEntry(Files \ {Unread})
  /\ pc \in [Callers -> {"idle", "reading", "refreshing", "retrieve", "done", "failed"}]
  /\ read \in [Callers -> Files]
  /\ options \in [Agents -> Files \cup {Undefined}]

\* A certificate that has expired is not taken from the cache.
ExpiredIsNotServed ==
  [][ \A c \in Agents :
        pc[c] = "idle" /\ pc'[c] = "done" => now <= ValidTo(options'[c].cert) ]_vars
=============================================================================
