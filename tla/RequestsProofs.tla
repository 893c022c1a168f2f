--------------------------- MODULE RequestsProofs ---------------------------
(***************************************************************************)
(* Components that surround a request, each of them alone: the cached      *)
(* client certificate, the lists of all destinations, CSRF tokens, the     *)
(* retries of a request for a destination, the mail client, and batch      *)
(* requests with the texts they are made of.                               *)
(***************************************************************************)
EXTENDS MCRequests, SequenceTheorems, FiniteSetTheorems, WellFoundedInduction, TLAPS

-----------------------------------------------------------------------------
(* The client certificate                                                  *)

\* What a look into the cache yields is a pair of files, or nothing.
LEMMA MtlsRetrieve ==
  ASSUME Mtls!TypeOK
  PROVE  Mtls!Retrieve \in Mtls!Files \cup {Undefined}
  <1>1. \A k \in DOMAIN cache : cache[k].entry \in Mtls!Files
    BY DEF Mtls!TypeOK, Mtls!CacheEntry
  <1>2. Mtls!Retrieve \in {Undefined} \cup { cache[k].entry : k \in DOMAIN cache }
    BY DEF Mtls!Retrieve, Mtls!Get, Mtls!HasKey
  <1> QED BY <1>1, <1>2

\* Nothing is cached at first.
LEMMA MtlsInitType ==
  ASSUME Mtls!Init
  PROVE  Mtls!TypeOK
  <1>1. DOMAIN Mtls!EmptyCache = {}
    BY DEF Mtls!EmptyCache
  <1>2. 0 \in Mtls!Generation /\ Mtls!Unread \in Mtls!Files
    BY MtlsConstants DEF Mtls!Generation, Mtls!MtlsAssumption, Mtls!Unread, Mtls!Files
  <1> QED BY <1>1, <1>2 DEF Mtls!Init, Mtls!TypeOK, Mtls!Generation, Mtls!Callers

\* What is put into the cache is a pair of files that were both read.
LEMMA MtlsCachesPair ==
  ASSUME Mtls!TypeOK, NEW c \in Mtls!Callers, Mtls!CacheOptions(c)
  PROVE  /\ DOMAIN cache' \subseteq {Mtls!CacheKey}
         /\ \A k \in DOMAIN cache' : cache'[k] \in Mtls!CacheEntry(Mtls!Files \ {Mtls!Unread})
  <1>1. /\ Undefined \notin Mtls!Files /\ Mtls!CacheKey # Undefined
        /\ Undefined \notin Mtls!Generation
    BY CacheConstants, MtlsConstants DEF Mtls!MtlsAssumption, Mtls!Generation
  <1>2. read[c] \in Mtls!Files \ {Mtls!Unread}
    BY DEF Mtls!CacheOptions, Mtls!BothRead, Mtls!TypeOK, Mtls!Unread
  <1>3. cache' = [k \in DOMAIN cache \cup {Mtls!CacheKey} |->
                    IF k = Mtls!CacheKey THEN [entry |-> read[c], expires |-> NaN]
                    ELSE cache[k]]
    BY <1>1, CacheConstants
       DEF Mtls!CacheOptions, Mtls!Set, Mtls!StoredItem, Mtls!GetCertExpirationDate
  <1> QED BY <1>2, <1>3 DEF Mtls!TypeOK, Mtls!CacheEntry, Mtls!Expiry

\* Every step of the certificate's users and of the platform keeps the types.
LEMMA MtlsNextType ==
  ASSUME Mtls!TypeOK, [Mtls!Next]_(Mtls!vars)
  PROVE  Mtls!TypeOK'
  <1> USE DEF Mtls!TypeOK, Mtls!Goto
  <1>1. CASE Mtls!Tick \/ Mtls!ReplaceCert \/ Mtls!ReplaceKey \/ UNCHANGED Mtls!vars
    <2>1. now' \in 0..MaxTime /\ cert' \in Mtls!Generation /\ key' \in Mtls!Generation
      BY <1>1, MtlsConstants
         DEF Mtls!Tick, Mtls!ReplaceCert, Mtls!ReplaceKey, Mtls!vars, Mtls!Generation,
             Mtls!MtlsAssumption
    <2>2. UNCHANGED <<useMtlsCache, cache, mtlsPc, read, mtlsOptions>>
      BY <1>1 DEF Mtls!Tick, Mtls!ReplaceCert, Mtls!ReplaceKey, Mtls!vars
    <2> QED BY <2>1, <2>2
  <1>2. ASSUME NEW c \in Agents, Mtls!GetOptions(c) \/ Mtls!ReturnRead(c) \/ Mtls!RetrieveAgain(c)
        PROVE  Mtls!TypeOK'
    <2>1. read[c] \in Mtls!Files
      BY DEF Mtls!Callers
    <2> QED BY <1>2, <2>1, MtlsRetrieve
            DEF Mtls!GetOptions, Mtls!ReturnRead, Mtls!RetrieveAgain, Mtls!Return
  <1>3. ASSUME NEW c \in Registrations, Mtls!Register(c)
        PROVE  Mtls!TypeOK'
    BY <1>3 DEF Mtls!Register
  <1>4. ASSUME NEW c \in Mtls!Callers, Mtls!ReadCert(c) \/ Mtls!ReadKey(c) \/ Mtls!Fail(c)
        PROVE  Mtls!TypeOK'
    <2>1. read' \in [Mtls!Callers -> Mtls!Files]
      BY <1>4 DEF Mtls!ReadCert, Mtls!ReadKey, Mtls!Fail, Mtls!Files
    <2> QED BY <1>4, <2>1 DEF Mtls!ReadCert, Mtls!ReadKey, Mtls!Fail
  <1>5. ASSUME NEW c \in Mtls!Callers, Mtls!CacheOptions(c)
        PROVE  Mtls!TypeOK'
    BY <1>5, MtlsCachesPair DEF Mtls!CacheOptions
  <1> QED BY <1>1, <1>2, <1>3, <1>4, <1>5 DEF Mtls!Next

-----------------------------------------------------------------------------
(* The lists of all destinations                                           *)

\* A list is in the cache under the account and the type it is of, and expires
\* a lifetime after it was sent; what a call has is of the account of its token.
ListsInv ==
  /\ Lists!TypeOK
  /\ \A k \in DOMAIN listCache :
       /\ listCache[k].entry.account = k[1] /\ listCache[k].entry.type = k[2]
       /\ listCache[k].expires = listCache[k].entry.at + Lifetime
  /\ \A c \in Calls :
       /\ listPc[c] = "token" => opts[c] \in Lists!Options
       /\ pending[c] # {} => account[c] # Undefined /\ opts[c] \in Lists!Options
       /\ listPc[c] \in {"fetch", "done"} => account[c] \in {opts[c].subscriber, Provider}
       /\ listPc[c] = "done" => \A t \in Lists!Types : lists[c][t] # Undefined
       /\ \A t \in Lists!Types : lists[c][t] # Undefined =>
            /\ lists[c][t].list.account = account[c] /\ lists[c][t].list.type = t
            /\ lists[c][t].taken - lists[c][t].list.at <= Lifetime

\* Options are what they should be, and Undefined is none of the values.
LEMMA ListsConstantTypes ==
  /\ Provider \in Tenants /\ Lifetime \in Nat \ {0} /\ ListMaxTime \in Nat
  /\ Undefined \notin Tenants /\ Undefined \notin Lists!List /\ Undefined \notin Lists!Taken
  /\ \A a1 \in Tenants, t \in Lists!Types : <<a1, t>> # Undefined
  BY ListsConstants DEF Lists!AllDestinationsAssumption

\* No call for the lists has begun.
LEMMA ListsInitInv ==
  ASSUME Lists!Init
  PROVE  ListsInv
  <1>1. DOMAIN Lists!EmptyCache = {}
    BY DEF Lists!EmptyCache
  <1>2. Lists!TypeOK
    BY <1>1, ListsConstantTypes DEF Lists!Init, Lists!TypeOK
  <1> QED BY <1>1, <1>2 DEF Lists!Init, ListsInv

\* What a call takes from the cache is of its account and not too old.
LEMMA ListsHit ==
  ASSUME ListsInv, NEW c \in Calls, NEW tenant \in Tenants, NEW t \in Lists!Types,
         Lists!RetrieveDestinations(c, tenant, t) # Undefined
  PROVE  LET hit == Lists!RetrieveDestinations(c, tenant, t) IN
         /\ hit \in Lists!List
         /\ hit.account = tenant /\ hit.type = t
         /\ listNow - hit.at <= Lifetime
  <1> DEFINE place == <<tenant, t>>
  <1>1. /\ Lists!RetrieveDestinations(c, tenant, t) = listCache[place].entry
        /\ place \in DOMAIN listCache /\ ~Lists!IsExpired(listCache[place], listNow)
    BY DEF Lists!RetrieveDestinations, Lists!Get, Lists!HasKey, Lists!DestinationCacheKey
  <1>2. /\ listCache[place] \in Lists!CacheEntry(Lists!List)
        /\ listCache[place].entry.account = tenant /\ listCache[place].entry.type = t
        /\ listCache[place].expires = listCache[place].entry.at + Lifetime
        /\ listNow \in 0..ListMaxTime
    BY <1>1 DEF ListsInv, Lists!TypeOK
  <1>3. listCache[place].entry \in Lists!List /\ listCache[place].entry.at \in Nat
    BY <1>2 DEF Lists!CacheEntry, Lists!List
  <1>4. listNow - listCache[place].entry.at <= Lifetime
    BY <1>1, <1>2, <1>3, ListsConstantTypes DEF Lists!IsExpired
  <1> QED BY <1>1, <1>2, <1>3, <1>4

\* With the token of a tenant, both lists are taken or requested.
LEMMA ListsFetchWith ==
  ASSUME ListsInv, NEW c \in Calls, NEW tenant \in Tenants, listPc[c] = "token",
         tenant \in {opts[c].subscriber, Provider}, Lists!FetchWith(c, tenant)
  PROVE  ListsInv'
  <1> DEFINE hit(t) == Lists!RetrieveDestinations(c, tenant, t)
             had == [t \in Lists!Types |-> IF hit(t) = Undefined THEN Undefined
                                           ELSE [list |-> hit(t), taken |-> listNow]]
  <1>1. /\ Lists!TypeOK /\ opts[c] \in Lists!Options /\ tenant # Undefined
        /\ listNow \in 0..ListMaxTime
    BY ListsConstantTypes DEF ListsInv, Lists!TypeOK
  <1>2. /\ account' = [account EXCEPT ![c] = tenant]
        /\ lists' = [lists EXCEPT ![c] = had]
        /\ pending' = [pending EXCEPT ![c] = { t \in Lists!Types : hit(t) = Undefined }]
        /\ listPc' = [listPc EXCEPT ![c] = "fetch"]
        /\ UNCHANGED <<listNow, listCache, opts>>
    BY DEF Lists!FetchWith
  <1>3. /\ had \in [Lists!Types -> Lists!Taken \cup {Undefined}]
        /\ \A t \in Lists!Types : had[t] # Undefined =>
             /\ had[t].list.account = tenant /\ had[t].list.type = t
             /\ had[t].taken - had[t].list.at <= Lifetime
    <2>1. ASSUME NEW t \in Lists!Types, hit(t) # Undefined
          PROVE  /\ [list |-> hit(t), taken |-> listNow] \in Lists!Taken
                 /\ hit(t).account = tenant /\ hit(t).type = t /\ listNow - hit(t).at <= Lifetime
      BY <1>1, <2>1, ListsHit DEF Lists!Taken
    <2> HIDE DEF hit
    <2> QED BY <2>1
  <1>4. { t \in Lists!Types : hit(t) = Undefined } \in SUBSET Lists!Types
    OBVIOUS
  <1> HIDE DEF had, hit
  <1>5. Lists!TypeOK'
    BY <1>1, <1>2, <1>3, <1>4 DEF Lists!TypeOK
  <1>6. /\ account'[c] = tenant /\ lists'[c] = had /\ listPc'[c] = "fetch" /\ opts'[c] = opts[c]
        /\ \A d \in Calls : d # c =>
             /\ account'[d] = account[d] /\ lists'[d] = lists[d] /\ listPc'[d] = listPc[d]
             /\ pending'[d] = pending[d] /\ opts'[d] = opts[d]
    BY <1>1, <1>2 DEF Lists!TypeOK
  <1> QED BY <1>1, <1>2, <1>3, <1>5, <1>6 DEF ListsInv

\* The list that was asked for enters the cache and the call.
LEMMA ListsAnswer ==
  ASSUME ListsInv, NEW c \in Calls, NEW type \in Lists!Types, Lists!Answer(c, type)
  PROVE  ListsInv'
  <1> DEFINE list == [account |-> account[c], type |-> type, at |-> listNow]
             item == [list |-> list, taken |-> listNow]
  <1>1. /\ Lists!TypeOK /\ pending[c] # {} /\ account[c] \in Tenants /\ opts[c] \in Lists!Options
        /\ listNow \in 0..ListMaxTime /\ listNow - listNow <= Lifetime
    BY ListsConstantTypes DEF ListsInv, Lists!TypeOK, Lists!Answer
  <1>2. list \in Lists!List /\ item \in Lists!Taken /\ item # Undefined
    BY <1>1, ListsConstantTypes DEF Lists!List, Lists!Taken
  <1>3. /\ pending' = [pending EXCEPT ![c] = @ \ {type}]
        /\ lists' = [lists EXCEPT ![c][type] = item]
        /\ UNCHANGED <<listNow, listPc, opts, account>>
    BY DEF Lists!Answer
  <1>4. \/ listCache' = listCache
        \/ listCache' = [k \in DOMAIN listCache \cup {<<account[c], type>>} |->
                           IF k = <<account[c], type>>
                             THEN [entry |-> list, expires |-> listNow + Lifetime]
                             ELSE listCache[k]]
    BY <1>1, ListsConstantTypes
       DEF Lists!Answer, Lists!Set, Lists!StoredItem, Lists!DestinationCacheKey,
           Lists!InferDefaultExpirationTime
  <1>5. [entry |-> list, expires |-> listNow + Lifetime] \in Lists!CacheEntry(Lists!List)
    BY <1>1, <1>2, ListsConstantTypes DEF Lists!CacheEntry, Lists!Expiry
  <1>6. /\ list.account = account[c] /\ list.type = type /\ list.at = listNow
        /\ item.list = list /\ item.taken = listNow
    OBVIOUS
  <1> HIDE DEF list, item
  <1>7. /\ DOMAIN listCache' \subseteq Tenants \X Lists!Types
        /\ \A k \in DOMAIN listCache' : listCache'[k] \in Lists!CacheEntry(Lists!List)
    BY <1>1, <1>4, <1>5 DEF Lists!TypeOK
  <1>8. \A k \in DOMAIN listCache' :
          /\ listCache'[k].entry.account = k[1] /\ listCache'[k].entry.type = k[2]
          /\ listCache'[k].expires = listCache'[k].entry.at + Lifetime
    BY <1>4, <1>6 DEF ListsInv
  <1>9. Lists!TypeOK'
    BY <1>1, <1>2, <1>3, <1>7 DEF Lists!TypeOK
  <1>10. /\ \A d \in Calls : d # c => lists'[d] = lists[d] /\ pending'[d] = pending[d]
         /\ \A t \in Lists!Types : t # type => lists'[c][t] = lists[c][t]
         /\ lists'[c][type] = item
    BY <1>1, <1>3 DEF Lists!TypeOK
  <1> QED BY <1>1, <1>2, <1>3, <1>6, <1>8, <1>9, <1>10 DEF ListsInv

\* Every step of the calls for the lists keeps the invariant.
LEMMA ListsNextInv ==
  ASSUME ListsInv, [Lists!Next]_(Lists!vars)
  PROVE  ListsInv'
  <1>1. Lists!TypeOK
    BY DEF ListsInv
  <1>2. ASSUME NEW c \in Calls, NEW o \in Lists!Options, Lists!Call(c, o)
        PROVE  ListsInv'
    <2>1. /\ opts' = [opts EXCEPT ![c] = o] /\ listPc' = [listPc EXCEPT ![c] = "token"]
          /\ listPc[c] = "idle" /\ UNCHANGED <<listNow, listCache, account, pending, lists>>
      BY <1>2 DEF Lists!Call
    <2>2. Lists!TypeOK'
      BY <1>1, <1>2, <2>1 DEF Lists!TypeOK, Lists!Options
    <2>3. /\ opts'[c] = o /\ listPc'[c] = "token"
          /\ \A d \in Calls : d # c => opts'[d] = opts[d] /\ listPc'[d] = listPc[d]
      BY <1>1, <2>1 DEF Lists!TypeOK
    <2> QED BY <2>1, <2>2, <2>3 DEF ListsInv
  <1>3. ASSUME NEW c \in Calls, Lists!TokenArrives(c) \/ Lists!FallBack(c)
        PROVE  ListsInv'
    <2>1. /\ listPc[c] = "token" /\ Lists!AccountOf(c) \in Tenants
          /\ Lists!AccountOf(c) \in {opts[c].subscriber, Provider}
      <3>1. listPc[c] = "token" /\ opts[c] \in Lists!Options
        BY <1>1, <1>3 DEF Lists!TokenArrives, Lists!FallBack, ListsInv, Lists!TypeOK, Lists!Options
      <3> QED BY <3>1, ListsConstantTypes DEF Lists!AccountOf, Lists!Options
    <2>2. PICK tenant \in Tenants : tenant \in {opts[c].subscriber, Provider}
                                   /\ Lists!FetchWith(c, tenant)
      BY <1>3, <2>1, ListsConstantTypes DEF Lists!TokenArrives, Lists!FallBack
    <2> QED BY <2>1, <2>2, ListsFetchWith
  <1>4. ASSUME NEW c \in Calls, Lists!TokenFails(c) \/ Lists!Return(c)
        PROVE  ListsInv'
    <2>1. PICK label \in {"failed", "done"} :
            /\ listPc' = [listPc EXCEPT ![c] = label]
            /\ label = "done" => /\ listPc[c] = "fetch"
                                 /\ \A t \in Lists!Types : lists[c][t] # Undefined
            /\ UNCHANGED <<listNow, listCache, opts, account, pending, lists>>
      BY <1>4 DEF Lists!TokenFails, Lists!Return, Lists!AllListsHere
    <2>2. Lists!TypeOK'
      BY <1>1, <2>1 DEF Lists!TypeOK
    <2>3. listPc'[c] = label /\ \A d \in Calls : d # c => listPc'[d] = listPc[d]
      BY <1>1, <2>1 DEF Lists!TypeOK
    <2> QED BY <2>1, <2>2, <2>3 DEF ListsInv
  <1>5. ASSUME NEW c \in Calls, NEW t \in Lists!Types, Lists!FetchFails(c, t)
        PROVE  ListsInv'
    <2>1. /\ pending' = [pending EXCEPT ![c] = @ \ {t}] /\ pending[c] # {}
          /\ listPc' = [listPc EXCEPT ![c] = "failed"]
          /\ UNCHANGED <<listNow, listCache, opts, account, lists>>
      BY <1>5 DEF Lists!FetchFails
    <2>2. Lists!TypeOK'
      BY <1>1, <2>1 DEF Lists!TypeOK
    <2>3. \A d \in Calls : /\ pending'[d] # {} => pending[d] # {}
                           /\ listPc'[d] \in {"token", "fetch", "done"} => listPc'[d] = listPc[d]
      BY <1>1, <2>1 DEF Lists!TypeOK
    <2> QED BY <2>1, <2>2, <2>3 DEF ListsInv
  <1>6. CASE Lists!Tick \/ UNCHANGED Lists!vars
    <2>1. Lists!TypeOK'
      BY <1>1, <1>6, ListsConstantTypes DEF Lists!Tick, Lists!vars, Lists!TypeOK
    <2> QED BY <1>6, <2>1 DEF Lists!Tick, Lists!vars, ListsInv
  <1> QED BY <1>2, <1>3, <1>4, <1>5, <1>6, ListsAnswer DEF Lists!Next, Lists!Options

\* Both lists that a call returns are of the account its token is for and no
\* older than an entry may be, whatever other calls put into the cache.
THEOREM ListsAreOfOneAccount == Lists!Spec => []ListsOfOneAccount
  <1>1. ListsInv => ListsOfOneAccount
    BY DEF ListsInv, ListsOfOneAccount, Lists!ListsOfOneAccount
  <1> QED BY <1>1, ListsInitInv, ListsNextInv, PTL DEF Lists!Spec
-----------------------------------------------------------------------------
(* CSRF tokens for a shared configuration                                  *)

\* One of the requests for a token was answered with one.
Found(e) == \E i \in 1..Len(csrfAnswers[e]) : csrfAnswers[e][i]

\* The requests for a token that the middleware at hand may still send.
Outstanding(e) ==
  IF csrfPc[e] = "fetch" THEN 2 ELSE IF csrfPc[e] = "lastFetch" THEN 1 ELSE 0

\* An execution asks as long as it has no token, and each middleware that it
\* has not run yet leaves room for two answers.
CsrfInv ==
  /\ Csrf!TypeOK
  /\ \A e \in Executions :
       /\ csrfPc[e] \in {"idle", "built"} => csrfAnswers[e] = <<>> /\ left[e] = 0
       /\ csrfPc[e] # "idle" => (token[e] <=> config.token \/ Found(e))
       /\ csrfPc[e] \in {"fetch", "lastFetch"} => ~token[e] /\ ~config.get
       /\ \A i \in 1..Len(csrfAnswers[e]) - 1 : ~csrfAnswers[e][i]
       /\ csrfAnswers[e] # <<>> => ~config.token /\ ~config.get
       /\ Len(csrfAnswers[e]) + 2 * left[e] + Outstanding(e) <= 2 * middleware

\* Appending an answer to answers without a token.
LEMMA AppendedAnswer ==
  ASSUME NEW s \in Seq(BOOLEAN), NEW found \in BOOLEAN, \A i \in 1..Len(s) : ~s[i]
  PROVE  /\ Append(s, found) \in Seq(BOOLEAN) /\ Len(Append(s, found)) = Len(s) + 1
         /\ Append(s, found) # <<>>
         /\ \A i \in 1..Len(Append(s, found)) - 1 : ~Append(s, found)[i]
         /\ (\E i \in 1..Len(Append(s, found)) : Append(s, found)[i]) <=> found
  <1>1. /\ Append(s, found) \in Seq(BOOLEAN) /\ Len(Append(s, found)) = Len(s) + 1
        /\ Len(s) \in Nat /\ Append(s, found)[Len(s) + 1] = found
        /\ \A i \in 1..Len(s) : Append(s, found)[i] = s[i]
    OBVIOUS
  <1>2. Append(s, found) # <<>>
    BY <1>1
  <1>3. \A i \in 1..Len(Append(s, found)) - 1 : ~Append(s, found)[i]
    BY <1>1
  <1>4. (\E i \in 1..Len(Append(s, found)) : Append(s, found)[i]) <=> found
    <2>1. ASSUME found
          PROVE  \E i \in 1..Len(Append(s, found)) : Append(s, found)[i]
      <3>1. Len(s) + 1 \in 1..Len(Append(s, found))
        BY <1>1
      <3> QED BY <1>1, <2>1, <3>1
    <2>2. ASSUME NEW i \in 1..Len(Append(s, found)), Append(s, found)[i]
          PROVE  found
      <3>1. i = Len(s) + 1
        BY <1>1, <2>2
      <3> QED BY <1>1, <2>2, <3>1
    <2> QED BY <2>1, <2>2
  <1> QED BY <1>1, <1>2, <1>3, <1>4

\* No request has run yet.
LEMMA CsrfInitInv ==
  ASSUME Csrf!Init
  PROVE  CsrfInv
  <1>1. <<>> \in Seq(BOOLEAN) /\ Len(<<>>) = 0
    OBVIOUS
  <1>2. Csrf!TypeOK
    BY <1>1 DEF Csrf!Init, Csrf!TypeOK
  <1> QED BY <1>1, <1>2 DEF Csrf!Init, CsrfInv, Outstanding

\* Every step of the executions keeps the invariant.
LEMMA CsrfNextInv ==
  ASSUME CsrfInv, [Csrf!Next]_(Csrf!vars)
  PROVE  CsrfInv'
  <1>1. /\ Csrf!TypeOK /\ config.get \in BOOLEAN /\ config.token \in BOOLEAN
    BY DEF CsrfInv, Csrf!TypeOK
  <1>2. ASSUME NEW e \in Executions, Csrf!BuildRequest(e)
        PROVE  CsrfInv'
    <2>1. /\ csrfPc[e] = "idle" /\ token' = [token EXCEPT ![e] = config.token]
          /\ csrfPc' = [csrfPc EXCEPT ![e] = "built"]
          /\ UNCHANGED <<config, middleware, left, csrfAnswers>>
      BY <1>2 DEF Csrf!BuildRequest, Csrf!Goto
    <2>2. Csrf!TypeOK'
      BY <1>1, <2>1 DEF Csrf!TypeOK
    <2>3. /\ csrfPc'[e] = "built" /\ token'[e] = config.token
          /\ \A d \in Executions : d # e => csrfPc'[d] = csrfPc[d] /\ token'[d] = token[d]
      BY <1>1, <2>1 DEF Csrf!TypeOK
    <2> QED BY <2>1, <2>2, <2>3 DEF CsrfInv, Found, Outstanding
  <1>3. ASSUME NEW e \in Executions, NEW f \in BOOLEAN, Csrf!AddMiddleware(e, f)
        PROVE  CsrfInv'
    <2>1. /\ csrfPc[e] = "built" /\ middleware' \in {middleware, middleware + 1}
          /\ left' = [left EXCEPT ![e] = middleware']
          /\ csrfPc' = [csrfPc EXCEPT ![e] = "middleware"]
          /\ UNCHANGED <<config, token, csrfAnswers>>
      BY <1>3 DEF Csrf!AddMiddleware, Csrf!Goto
    <2>2. /\ middleware \in Nat /\ middleware' \in Nat /\ middleware <= middleware'
      BY <1>1, <2>1 DEF Csrf!TypeOK
    <2>3. /\ csrfPc'[e] = "middleware" /\ left'[e] = middleware'
          /\ \A d \in Executions : d # e => csrfPc'[d] = csrfPc[d] /\ left'[d] = left[d]
      BY <1>1, <2>1 DEF Csrf!TypeOK
    <2>4. Csrf!TypeOK'
      BY <1>1, <2>1, <2>2, <2>3 DEF Csrf!TypeOK
    <2>5. \A d \in Executions : Len(csrfAnswers[d]) \in Nat /\ left[d] \in Nat
      BY <1>1 DEF Csrf!TypeOK
    <2>6. ASSUME NEW d \in Executions
          PROVE  Len(csrfAnswers'[d]) + 2 * left'[d] + Outstanding(d)' <= 2 * middleware'
      <3>1. CASE d = e
        BY <2>1, <2>2, <2>3, <3>1 DEF CsrfInv, Outstanding
      <3>2. CASE d # e
        BY <2>1, <2>2, <2>3, <2>5, <3>2 DEF CsrfInv, Outstanding
      <3> QED BY <3>1, <3>2
    <2> QED BY <2>1, <2>3, <2>4, <2>6 DEF CsrfInv, Found
  <1>4. ASSUME NEW e \in Executions, Csrf!Enter(e)
        PROVE  CsrfInv'
    <2>1. PICK label \in {"sent", "fetch", "middleware"} :
            /\ csrfPc' = [csrfPc EXCEPT ![e] = label]
            /\ IF label = "sent" THEN left' = left
               ELSE left[e] # 0 /\ left' = [left EXCEPT ![e] = @ - 1]
            /\ label = "fetch" => ~config.get /\ ~token[e]
            /\ csrfPc[e] = "middleware" /\ UNCHANGED <<config, middleware, token, csrfAnswers>>
      BY <1>4 DEF Csrf!Enter, Csrf!Goto, Csrf!NeedsCsrfToken
    <2>2. /\ csrfPc'[e] = label
          /\ IF label = "sent" THEN left'[e] = left[e] ELSE left[e] # 0 /\ left'[e] = left[e] - 1
          /\ \A d \in Executions : d # e => csrfPc'[d] = csrfPc[d] /\ left'[d] = left[d]
      BY <1>1, <2>1 DEF Csrf!TypeOK
    <2>3. \A d \in Executions : left'[d] \in Nat /\ left'[d] <= left[d] /\ left[d] \in Nat
                                /\ left[d] <= middleware /\ middleware \in Nat
      BY <1>1, <2>2 DEF Csrf!TypeOK
    <2>4. Csrf!TypeOK'
      BY <1>1, <2>1, <2>3 DEF Csrf!TypeOK
    <2>5. Len(csrfAnswers[e]) \in Nat /\ Outstanding(e) = 0
      BY <1>1, <2>1 DEF Csrf!TypeOK, Outstanding
    <2>6. ASSUME NEW d \in Executions
          PROVE  Len(csrfAnswers'[d]) + 2 * left'[d] + Outstanding(d)' <= 2 * middleware'
      <3>1. CASE d = e
        <4>1. Outstanding(d)' = IF label = "fetch" THEN 2 ELSE 0
          BY <2>2, <3>1 DEF Outstanding
        <4>2. /\ csrfAnswers'[d] = csrfAnswers[e] /\ middleware' = middleware
              /\ Len(csrfAnswers[e]) + 2 * left[e] + Outstanding(e) <= 2 * middleware
          BY <2>1, <3>1 DEF CsrfInv
        <4>3. label # "sent" => left'[d] = left[e] - 1 /\ left[e] \in Nat
          BY <2>2, <2>3, <3>1
        <4>4. label = "sent" => left'[d] = left[e] /\ left[e] \in Nat
          BY <2>2, <2>3, <3>1
        <4>5. PICK n \in Nat : n = Len(csrfAnswers[e])
          BY <2>5
        <4>6. middleware \in Nat /\ Outstanding(e) = 0
          BY <2>3, <2>5
        <4>7. CASE label = "sent"
          BY <4>1, <4>2, <4>4, <4>5, <4>6, <4>7
        <4>8. CASE label # "sent"
          <5>1. /\ Len(csrfAnswers'[d]) = n /\ left'[d] = left[e] - 1 /\ left[e] \in Nat
                /\ Outstanding(d)' \in {0, 2}
            BY <4>1, <4>2, <4>3, <4>5, <4>8
          <5>2. n + 2 * left[e] <= 2 * middleware /\ middleware' = middleware
            BY <4>2, <4>3, <4>5, <4>6, <4>8
          <5> QED BY <4>5, <4>6, <5>1, <5>2
        <4> QED BY <4>7, <4>8
      <3>2. CASE d # e
        BY <2>1, <2>2, <3>2 DEF CsrfInv, Outstanding
      <3> QED BY <3>1, <3>2
    <2> QED BY <2>1, <2>2, <2>4, <2>6 DEF CsrfInv, Found
  <1>5. ASSUME NEW e \in Executions, NEW found \in BOOLEAN, Csrf!CsrfAnswer(e, found)
        PROVE  CsrfInv'
    <2>1. PICK label \in {"lastFetch", "middleware"} :
            /\ csrfPc' = [csrfPc EXCEPT ![e] = label]
            /\ label = "lastFetch" => csrfPc[e] = "fetch" /\ ~found
            /\ csrfPc[e] \in {"fetch", "lastFetch"}
            /\ csrfAnswers' = [csrfAnswers EXCEPT ![e] = Append(@, found)]
            /\ token' = [token EXCEPT ![e] = @ \/ found]
            /\ UNCHANGED <<config, middleware, left>>
      BY <1>5 DEF Csrf!CsrfAnswer, Csrf!AfterFetch, Csrf!Goto
    <2>2. /\ ~token[e] /\ ~config.get /\ ~config.token /\ ~Found(e)
      BY <1>1, <2>1 DEF CsrfInv
    <2>3. /\ csrfAnswers[e] \in Seq(BOOLEAN) /\ \A i \in 1..Len(csrfAnswers[e]) : ~csrfAnswers[e][i]
      BY <1>1, <2>2 DEF Csrf!TypeOK, Found
    <2>4. PICK s : s = Append(csrfAnswers[e], found)
      OBVIOUS
    <2>5. /\ s \in Seq(BOOLEAN) /\ Len(s) = Len(csrfAnswers[e]) + 1
          /\ \A i \in 1..Len(s) - 1 : ~s[i]
          /\ (\E i \in 1..Len(s) : s[i]) <=> found
      BY <2>3, <2>4, AppendedAnswer
    <2>6. /\ csrfPc'[e] = label /\ csrfAnswers'[e] = s /\ token'[e] = found
          /\ \A d \in Executions : d # e => /\ csrfPc'[d] = csrfPc[d] /\ token'[d] = token[d]
                                            /\ csrfAnswers'[d] = csrfAnswers[d]
      BY <1>1, <2>1, <2>2, <2>4 DEF Csrf!TypeOK
    <2>7. Csrf!TypeOK'
      BY <1>1, <2>1, <2>2, <2>4, <2>5 DEF Csrf!TypeOK
    <2>8. Len(csrfAnswers'[e]) + 2 * left'[e] + Outstanding(e)' <= 2 * middleware'
      <3>1. /\ Len(csrfAnswers[e]) \in Nat /\ left[e] \in Nat /\ middleware \in Nat
        BY <1>1 DEF Csrf!TypeOK
      <3>2. Outstanding(e) \in {1, 2} /\ Outstanding(e)' <= Outstanding(e) - 1
            /\ Outstanding(e)' \in {0, 1}
        BY <2>1, <2>6 DEF Outstanding
      <3>3. Len(csrfAnswers[e]) + 2 * left[e] + Outstanding(e) <= 2 * middleware
        BY DEF CsrfInv
      <3> QED BY <2>1, <2>5, <2>6, <3>1, <3>2, <3>3
    <2>9. ASSUME NEW d \in Executions, d # e
          PROVE  Outstanding(d)' = Outstanding(d) /\ Found(d)' = Found(d)
      BY <2>6, <2>9 DEF Outstanding, Found
    <2>10. Found(e)' <=> found
      BY <2>5, <2>6 DEF Found
    <2>11. ASSUME NEW d \in Executions
           PROVE  /\ csrfPc'[d] \in {"idle", "built"} => csrfAnswers'[d] = <<>> /\ left'[d] = 0
                  /\ csrfPc'[d] # "idle" => (token'[d] <=> config'.token \/ Found(d)')
                  /\ csrfPc'[d] \in {"fetch", "lastFetch"} => ~token'[d] /\ ~config'.get
                  /\ \A i \in 1..Len(csrfAnswers'[d]) - 1 : ~csrfAnswers'[d][i]
                  /\ csrfAnswers'[d] # <<>> => ~config'.token /\ ~config'.get
                  /\ Len(csrfAnswers'[d]) + 2 * left'[d] + Outstanding(d)' <= 2 * middleware'
      <3>1. CASE d = e
        BY <2>1, <2>2, <2>5, <2>6, <2>8, <2>10, <3>1
      <3>2. CASE d # e
        BY <2>1, <2>6, <2>9, <3>2 DEF CsrfInv
      <3> QED BY <3>1, <3>2
    <2> QED BY <2>7, <2>11 DEF CsrfInv
  <1>6. CASE UNCHANGED Csrf!vars
    BY <1>6 DEF Csrf!vars, CsrfInv, Csrf!TypeOK, Found, Outstanding
  <1> QED BY <1>2, <1>3, <1>4, <1>5, <1>6 DEF Csrf!Next

\* However many executions share a configuration that grows a middleware with
\* each of them, none asks for a token when it has one.
THEOREM CsrfOneTokenPerRequest == Csrf!Spec => []OneTokenPerRequest
  <1>1. CsrfInv => OneTokenPerRequest
    <2>1. ASSUME CsrfInv, NEW e \in Executions
          PROVE  Len(csrfAnswers[e]) <= 2 * middleware
      <3>1. /\ Len(csrfAnswers[e]) \in Nat /\ left[e] \in Nat /\ middleware \in Nat
            /\ Outstanding(e) \in Nat
        BY <2>1 DEF CsrfInv, Csrf!TypeOK, Outstanding
      <3>2. Len(csrfAnswers[e]) + 2 * left[e] + Outstanding(e) <= 2 * middleware
        BY <2>1 DEF CsrfInv
      <3> QED BY <3>1, <3>2
    <2> QED BY <2>1 DEF CsrfInv, Found, OneTokenPerRequest, Csrf!OneTokenPerRequest
  <1> QED BY <1>1, CsrfInitInv, CsrfNextInv, PTL DEF Csrf!Spec
-----------------------------------------------------------------------------
(* Retries of a request for a destination                                  *)

\* How often an answer occurs.
CountIn(s, answer) == Cardinality({ i \in 1..Len(s) : s[i] = answer })

NoValid(s) == \A i \in 1..Len(s) : s[i] # "valid"

\* As long as attempts go on, each broken destination was counted, and no valid
\* one has come.
RetryInv ==
  /\ Retry!TypeOK
  /\ retryPc \in {"idle", "attempt", "backoff"} =>
       /\ NoValid(answers) /\ CountIn(answers, "broken") = retryCount - 1
       /\ Len(answers) <= Retries /\ outcome = Undefined
  /\ retryPc = "checking" =>
       /\ answers # <<>> /\ outcome = Undefined /\ retryCount > 1
       /\ \/ Retry!LastAnswer = "valid"
          \/ /\ Retry!LastAnswer = "broken" /\ NoValid(answers)
             /\ CountIn(answers, "broken") = retryCount - 1
  /\ retryPc = "resolved" =>
       \/ outcome = "valid"
       \/ outcome = "broken" /\ NoValid(answers) /\ CountIn(answers, "broken") = 3
  /\ retryPc = "rejected" => NoValid(answers) /\ outcome \notin {"valid", "broken"}

\* One more answer counts once if it is the one that is looked for.
LEMMA CountAppend ==
  ASSUME NEW s \in Seq(Retry!Answers), NEW new \in Retry!Answers, NEW answer
  PROVE  /\ CountIn(s, answer) \in Nat
         /\ CountIn(Append(s, new), answer) = CountIn(s, answer) + (IF new = answer THEN 1 ELSE 0)
         /\ Append(s, new) \in Seq(Retry!Answers) /\ Len(Append(s, new)) = Len(s) + 1
         /\ Append(s, new) # <<>>
         /\ Append(s, new)[Len(Append(s, new))] = new
         /\ NoValid(Append(s, new)) <=> NoValid(s) /\ new # "valid"
  <1> DEFINE old == { i \in 1..Len(s) : s[i] = answer }
             all == { i \in 1..Len(Append(s, new)) : Append(s, new)[i] = answer }
  <1>1. /\ Len(Append(s, new)) = Len(s) + 1 /\ Len(s) \in Nat
        /\ Append(s, new) \in Seq(Retry!Answers)
        /\ Append(s, new)[Len(s) + 1] = new
        /\ \A i \in 1..Len(s) : Append(s, new)[i] = s[i]
    OBVIOUS
  <1>2. IsFiniteSet(old) /\ Cardinality(old) \in Nat
    <2>1. IsFiniteSet(1..Len(s))
      BY <1>1, FS_Interval
    <2>2. old \subseteq 1..Len(s)
      OBVIOUS
    <2> QED BY <2>1, <2>2, FS_Subset, FS_CardinalityType
  <1>3. all = IF new = answer THEN old \cup {Len(s) + 1} ELSE old
    BY <1>1
  <1>4. Len(s) + 1 \notin old
    BY <1>1
  <1> HIDE DEF old, all
  <1>5. Cardinality(all) = Cardinality(old) + (IF new = answer THEN 1 ELSE 0)
    <2>1. CASE new = answer
      BY <1>2, <1>3, <1>4, <2>1, FS_AddElement
    <2>2. CASE new # answer
      BY <1>2, <1>3, <2>2
    <2> QED BY <2>1, <2>2
  <1>6. NoValid(Append(s, new)) <=> NoValid(s) /\ new # "valid"
    BY <1>1 DEF NoValid
  <1>7. Append(s, new) # <<>>
    BY <1>1
  <1> QED BY <1>1, <1>2, <1>5, <1>6, <1>7 DEF CountIn, old, all

\* No attempt has been made.
LEMMA RetryInitInv ==
  ASSUME Retry!Init
  PROVE  RetryInv
  <1>1. Len(<<>>) = 0 /\ <<>> \in Seq(Retry!Answers)
    OBVIOUS
  <1>2. { i \in 1..Len(<<>>) : <<>>[i] = "broken" } = {}
    BY <1>1
  <1>3. CountIn(<<>>, "broken") = 0
    BY <1>2, FS_EmptySet DEF CountIn
  <1>4. Retry!TypeOK
    BY <1>1, RetryConstants DEF Retry!Init, Retry!TypeOK, Retry!RetryAssumption
  <1> QED BY <1>1, <1>3, <1>4, RetryConstants
          DEF Retry!Init, RetryInv, NoValid, Retry!RetryAssumption

\* An error ends the attempts or has them repeated; it is never a destination.
LEMMA RetryCatch ==
  ASSUME NEW error, error # "valid", Retry!Catch(error), outcome = Undefined
  PROVE  \/ retryPc' = "backoff" /\ outcome' = Undefined /\ Len(answers') <= Retries
         \/ /\ retryPc' = "rejected" /\ outcome' \in Retry!HttpErrors \cup {"TypeError"}
            /\ outcome' \notin {"valid", "broken"}
  BY DEF Retry!Catch, Retry!RetryOrReject, Retry!Reported, Retry!IsClientError,
         Retry!HttpErrors

\* Every attempt and every answer keep the invariant.
LEMMA RetryNextInv ==
  ASSUME RetryInv, [Retry!Next]_(Retry!vars)
  PROVE  RetryInv'
  <1>1. /\ Retry!TypeOK /\ Retries \in Nat /\ Undefined \notin {"valid", "broken"}
    BY RetryConstants
       DEF RetryInv, Retry!RetryAssumption, Retry!Answers, Retry!Destinations
  <1>2. CASE Retry!Start \/ Retry!BackoffEnds
    BY <1>1, <1>2 DEF Retry!Start, Retry!BackoffEnds, RetryInv, Retry!TypeOK
  <1>3. ASSUME NEW error \in Retry!HttpErrors \cup {Retry!NoResponse}, Retry!AttemptFails(error)
        PROVE  RetryInv'
    <2>1. PICK s : s = Append(answers, error)
      OBVIOUS
    <2>2. /\ error \in Retry!Answers /\ error \notin {"valid", "broken"}
      BY DEF Retry!Answers, Retry!HttpErrors, Retry!NoResponse
    <2>3. /\ retryPc = "attempt" /\ answers' = s /\ Retry!Catch(error) /\ retryCount' = retryCount
      BY <1>3, <2>1 DEF Retry!AttemptFails
    <2>4. /\ answers \in Seq(Retry!Answers) /\ NoValid(answers) /\ outcome = Undefined
          /\ CountIn(answers, "broken") = retryCount - 1 /\ Len(answers) <= Retries
      BY <1>1, <2>3 DEF RetryInv, Retry!TypeOK
    <2>5. /\ s \in Seq(Retry!Answers) /\ NoValid(s) /\ Len(s) = Len(answers) + 1
          /\ CountIn(s, "broken") = CountIn(answers, "broken") /\ CountIn(answers, "broken") \in Nat
      BY <2>1, <2>2, <2>4, CountAppend
    <2>6. \/ retryPc' = "backoff" /\ outcome' = Undefined /\ Len(answers') <= Retries
          \/ /\ retryPc' = "rejected" /\ outcome' \in Retry!HttpErrors \cup {"TypeError"}
             /\ outcome' \notin {"valid", "broken"}
      BY <2>2, <2>3, <2>4, RetryCatch
    <2> QED BY <1>1, <2>3, <2>4, <2>5, <2>6 DEF RetryInv, Retry!TypeOK, Retry!Answers
  <1>4. ASSUME NEW destination \in Retry!Destinations, Retry!AttemptSucceeds(destination)
        PROVE  RetryInv'
    <2>1. PICK s : s = Append(answers, destination)
      OBVIOUS
    <2>2. retryPc = "attempt" /\ answers' = s
      BY <1>4, <2>1 DEF Retry!AttemptSucceeds
    <2>3. /\ answers \in Seq(Retry!Answers) /\ NoValid(answers) /\ outcome = Undefined
          /\ CountIn(answers, "broken") = retryCount - 1 /\ retryCount \in 1..3
          /\ Len(answers) <= Retries
      BY <1>1, <2>2 DEF RetryInv, Retry!TypeOK
    <2>4. /\ s \in Seq(Retry!Answers) /\ Len(s) = Len(answers) + 1
          /\ destination = "broken" => NoValid(s) /\ CountIn(s, "broken") = retryCount
          /\ s # <<>> /\ s[Len(s)] = destination /\ destination \in {"valid", "broken"}
      BY <2>1, <2>3, CountAppend DEF Retry!Answers, Retry!Destinations
    <2>5. CASE retryCount < 3
      <3>1. retryCount' = retryCount + 1 /\ retryPc' = "checking" /\ outcome' = outcome
        BY <1>4, <2>5 DEF Retry!AttemptSucceeds, Retry!IsChecked
      <3> QED BY <1>1, <2>2, <2>3, <2>4, <2>5, <3>1 DEF RetryInv, Retry!TypeOK, Retry!LastAnswer
    <2>6. CASE ~(retryCount < 3)
      <3>1. retryCount' = retryCount /\ retryPc' = "resolved" /\ outcome' = destination
            /\ retryCount = 3
        BY <1>4, <2>3, <2>6 DEF Retry!AttemptSucceeds, Retry!IsChecked
      <3> QED BY <1>1, <2>2, <2>3, <2>4, <3>1
              DEF RetryInv, Retry!TypeOK, Retry!Answers, Retry!Destinations
    <2> QED BY <2>5, <2>6
  <1>5. CASE Retry!Check
    <2>1. /\ retryPc = "checking" /\ UNCHANGED <<retryCount, answers>> /\ outcome = Undefined
      BY <1>5 DEF Retry!Check, RetryInv
    <2>2. CASE Retry!LastAnswer = "valid"
      BY <1>1, <1>5, <2>1, <2>2
         DEF Retry!Check, RetryInv, Retry!TypeOK, Retry!Answers, Retry!Destinations
    <2>3. CASE Retry!LastAnswer # "valid"
      <3>1. /\ Retry!Catch("broken") /\ NoValid(answers)
            /\ CountIn(answers, "broken") = retryCount - 1
        BY <1>5, <2>1, <2>3 DEF Retry!Check, RetryInv
      <3>2. \/ retryPc' = "backoff" /\ outcome' = Undefined /\ Len(answers') <= Retries
            \/ /\ retryPc' = "rejected" /\ outcome' \in Retry!HttpErrors \cup {"TypeError"}
               /\ outcome' \notin {"valid", "broken"}
        BY <2>1, <3>1, RetryCatch
      <3> QED BY <1>1, <2>1, <3>1, <3>2 DEF RetryInv, Retry!TypeOK, Retry!Answers
    <2> QED BY <2>2, <2>3
  <1>6. CASE UNCHANGED Retry!vars
    BY <1>1, <1>6 DEF Retry!vars, RetryInv, Retry!TypeOK, Retry!LastAnswer
  <1> QED BY <1>2, <1>3, <1>4, <1>5, <1>6 DEF Retry!Next

\* A destination with a broken token is accepted when it is the third, whatever
\* failures came in between, and a valid one always is.
THEOREM RetryBrokenOnlyAtThird == Retry!Spec => []BrokenOnlyAtThird
  <1>1. RetryInv => BrokenOnlyAtThird
    <2>1. ASSUME RetryInv, outcome = "broken"
          PROVE  Retry!Count("broken") = 3
      <3>1. Undefined # "broken"
        BY RetryConstants DEF Retry!RetryAssumption, Retry!Answers, Retry!Destinations
      <3>2. retryPc = "resolved"
        BY <2>1, <3>1 DEF RetryInv, Retry!TypeOK
      <3>3. CountIn(answers, "broken") = 3
        BY <2>1, <3>2 DEF RetryInv
      <3>4. Retry!Count("broken") = CountIn(answers, "broken")
        BY Zenon DEF Retry!Count, CountIn, Retry!Cardinality, Cardinality
      <3> QED BY <3>3, <3>4
    <2>2. ASSUME RetryInv, "valid" \in { answers[i] : i \in 1..Len(answers) },
                 retryPc \in {"resolved", "rejected"}
          PROVE  outcome = "valid"
      BY <2>2 DEF RetryInv, NoValid
    <2> QED BY <2>1, <2>2 DEF BrokenOnlyAtThird, Retry!BrokenOnlyAtThird
  <1> QED BY <1>1, RetryInitInv, RetryNextInv, PTL DEF Retry!Spec


-----------------------------------------------------------------------------
(* Sending mails                                                           *)

\* Who has been answered is known from the responses, whatever their order.
ResponsesMatch ==
  \A i \in Mails : mail[i] = "sent" <=> response[i] = i

\* The connections follow the progress of the call.
Connections ==
  /\ pc \in {"start", "connecting"} => transport = "none"
  /\ transport = "none" => \A i \in Mails : mail[i] = "new"
  /\ pc = "connecting" => options.onPremise
  /\ pc = "sending" => transport = "open"
  /\ transport = "open" /\ options.onPremise => socket = "open"
  /\ transport = "closed" => pc = "resolved" /\ socket # "open"
  /\ pc = "resolved" => transport = "closed"
  /\ transport = "closed" => \A i \in Mails : mail[i] = "sent"
  /\ transport = "open" /\ options.parallel # "false" => \A i \in Mails : mail[i] # "new"

MailInv ==
  /\ TypeOK
  /\ ResponsesMatch
  /\ Connections
  /\ SequentialStopsAtFailure

-----------------------------------------------------------------------------

\* The invariant holds when sendMail() is called.
LEMMA MailInitInv == Init => MailInv
  BY MailAssumption DEF Init, MailInv, TypeOK, ResponsesMatch, Connections,
     SequentialStopsAtFailure, Mails, NoResponse

\* Opening the transport hands the first mail over, or all of them.
LEMMA OpenTransportKeepsMailInv ==
  ASSUME MailInv, transport = "none", pc \in {"start", "connecting"}, OpenTransport,
         UNCHANGED <<options, response>>,
         socket' \in {"none", "open", "closed"}, options.onPremise => socket' = "open"
  PROVE MailInv'
  <1>1. /\ transport' = "open" /\ pc' = "sending"
        /\ mail' = [i \in Mails |->
                      IF IsMailSentInSequential /\ i # 1 THEN "new" ELSE "sending"]
    BY DEF OpenTransport
  <1>2. \A i \in Mails : mail[i] = "new"
    BY DEF MailInv, Connections
  <1>3. TypeOK'
    BY <1>1 DEF MailInv, TypeOK
  <1>4. ResponsesMatch'
    BY <1>1, <1>2 DEF MailInv, TypeOK, ResponsesMatch
  <1>5. Connections'
    BY <1>1, <1>2 DEF MailInv, Connections, IsMailSentInSequential
  <1>6. SequentialStopsAtFailure'
    BY <1>1, MailAssumption DEF SequentialStopsAtFailure, IsMailSentInSequential, Mails
  <1> QED BY <1>3, <1>4, <1>5, <1>6 DEF MailInv

\* An answer to one mail touches that mail and hands the next one over.
LEMMA AcceptKeepsMailInv ==
  ASSUME MailInv, NEW i \in Mails, Accept(i)
  PROVE MailInv'
  <1>1. /\ mail[i] = "sending"
        /\ mail' = [j \in Mails |->
             IF j = i THEN "sent"
             ELSE IF j = i + 1 /\ mail[j] = "new" THEN "sending" ELSE mail[j]]
        /\ response' = [response EXCEPT ![i] = i]
        /\ UNCHANGED <<options, pc, socket, transport>>
    BY DEF Accept, HandOver, Record
  <1>2. /\ mail \in [Mails -> {"new", "sending", "sent", "failed"}]
        /\ response \in [Mails -> Mails \cup {NoResponse}]
    BY DEF MailInv, TypeOK
  <1>3. TypeOK'
    BY <1>1, <1>2 DEF MailInv, TypeOK
  <1>4. ResponsesMatch'
    BY <1>1, <1>2 DEF MailInv, ResponsesMatch
  <1>5. transport # "none" /\ transport # "closed"
    BY <1>1 DEF MailInv, Connections
  <1>6. Connections'
    BY <1>1, <1>2, <1>5 DEF MailInv, Connections
  <1>7. SequentialStopsAtFailure'
    <2> SUFFICES ASSUME options.parallel = "false", NEW j \in Mails, NEW k \in Mails,
                        j < k, mail'[k] # "new"
                 PROVE mail'[j] = "sent"
      BY <1>1 DEF SequentialStopsAtFailure
    <2>1. \A m, n \in Mails : m < n /\ mail[n] # "new" => mail[m] = "sent"
      BY DEF MailInv, SequentialStopsAtFailure
    <2>2. CASE mail[k] # "new"
      BY <2>1, <2>2, <1>1
    <2>3. CASE mail[k] = "new"
      <3>1. k = i + 1
        BY <1>1, <2>3
      <3>2. j = i \/ j < i
        BY <3>1, MailAssumption DEF Mails
      <3>3. CASE j = i
        BY <1>1, <3>3
      <3>4. CASE j < i
        BY <1>1, <2>1, <3>4
      <3> QED BY <3>2, <3>3, <3>4
    <2> QED BY <2>2, <2>3
  <1> QED BY <1>3, <1>4, <1>6, <1>7 DEF MailInv

\* A refusal ends the call, the mail is never taken for sent.
LEMMA RefuseKeepsMailInv ==
  ASSUME MailInv, NEW i \in Mails, Refuse(i)
  PROVE MailInv'
  <1>1. /\ mail[i] = "sending"
        /\ mail' = [j \in Mails |-> IF j = i THEN "failed" ELSE mail[j]]
        /\ pc' = "rejected"
        /\ UNCHANGED <<options, socket, transport, response>>
    BY DEF Refuse, HandOver
  <1>2. mail \in [Mails -> {"new", "sending", "sent", "failed"}]
    BY DEF MailInv, TypeOK
  <1>3. transport # "none" /\ transport # "closed"
    BY <1>1 DEF MailInv, Connections
  <1>4. TypeOK'
    BY <1>1, <1>2 DEF MailInv, TypeOK
  <1>5. ResponsesMatch'
    BY <1>1, <1>2 DEF MailInv, ResponsesMatch
  <1>6. Connections'
    BY <1>1, <1>2, <1>3 DEF MailInv, Connections
  <1>7. SequentialStopsAtFailure'
    BY <1>1, <1>2 DEF MailInv, SequentialStopsAtFailure
  <1> QED BY <1>4, <1>5, <1>6, <1>7 DEF MailInv

\* The connections are closed when every mail is sent.
LEMMA FinishKeepsMailInv ==
  ASSUME MailInv, Finish
  PROVE MailInv'
  <1>1. /\ pc = "sending" /\ pc' = "resolved"
        /\ \A i \in Mails : mail[i] = "sent"
        /\ transport' = "closed"
        /\ socket' = IF socket = "open" THEN "closed" ELSE socket
        /\ UNCHANGED <<options, mail, response>>
    BY DEF Finish, AllSent, Teardown
  <1> QED BY <1>1 DEF MailInv, TypeOK, ResponsesMatch, Connections, SequentialStopsAtFailure

\* Every step preserves the invariant.
LEMMA MailNextInv == MailInv /\ [Next]_vars => MailInv'
  <1> SUFFICES ASSUME MailInv, [Next]_vars PROVE MailInv'
    OBVIOUS
  <1> USE DEF MailInv, TypeOK, ResponsesMatch, Connections, SequentialStopsAtFailure
  <1>1. CASE Resolve
    <2>1. CASE options.onPremise
      BY <1>1, <2>1 DEF Resolve
    <2>2. CASE ~options.onPremise
      BY <1>1, <2>2, OpenTransportKeepsMailInv DEF Resolve
    <2> QED BY <2>1, <2>2
  <1>2. CASE ResolveFails
    BY <1>2 DEF ResolveFails
  <1>3. CASE Connect
    BY <1>3, OpenTransportKeepsMailInv DEF Connect
  <1>4. CASE ConnectFails
    BY <1>4 DEF ConnectFails
  <1>5. CASE \E i \in Mails : Accept(i) \/ Refuse(i)
    BY <1>5, AcceptKeepsMailInv, RefuseKeepsMailInv
  <1>6. CASE Finish
    BY <1>6, FinishKeepsMailInv
  <1>7. CASE UNCHANGED vars
    BY <1>7 DEF vars
  <1> QED BY <1>1, <1>2, <1>3, <1>4, <1>5, <1>6, <1>7 DEF Next

\* The invariant of the mail client holds in all its behaviours.
LEMMA MailInvariance == Spec => []MailInv
  BY MailInitInv, MailNextInv, PTL DEF Spec

-----------------------------------------------------------------------------

\* The state of a call of sendMail() has its type, for any number of mails.
THEOREM MailTypes == Spec => []TypeOK
  <1>1. MailInv => TypeOK
    BY DEF MailInv
  <1> QED BY <1>1, MailInvariance, PTL

\* A call that resolves has sent each mail, answers at its position and has
\* closed its connections, for any number of mails.
THEOREM MailResolvedMeansSent == Spec => []ResolvedMeansSent
  <1>1. MailInv => ResolvedMeansSent
    BY DEF MailInv, ResolvedMeansSent, Connections, ResponsesMatch
  <1> QED BY <1>1, MailInvariance, PTL

\* The sequential strategy sends nothing after a refusal, for any number of mails.
THEOREM MailStopsAtFailure == Spec => []SequentialStopsAtFailure
  <1>1. MailInv => SequentialStopsAtFailure
    BY DEF MailInv
  <1> QED BY <1>1, MailInvariance, PTL

\* The connections are open while a mail is under way, for any number of mails.
THEOREM MailOpenWhileSending == Spec => []OpenWhileSending
  <1>1. MailInv => OpenWhileSending
    BY DEF MailInv, OpenWhileSending, Connections, TypeOK
  <1> QED BY <1>1, MailInvariance, PTL

-----------------------------------------------------------------------------
(* Recursion over positions                                                *)

\* A set of numbers has a smallest element.
LEMMA LeastNumber ==
  ASSUME NEW T, T \subseteq Nat, T # {}
  PROVE  \E i \in T : \A j \in T : i <= j
  <1>1. \E i \in T : \A j \in T : ~(<<j, i>> \in OpToRel(<, Nat))
    BY NatLessThanWellFounded, WFMin
  <1>2. PICK i \in T : \A j \in T : ~(j < i)
    BY <1>1 DEF OpToRel
  <1>3. \A j \in T : i <= j
    BY <1>2
  <1> QED
    BY <1>3

\* Induction over the numbers, for a set in place of a predicate.
LEMMA NumberInduction ==
  ASSUME NEW T, 0 \in T, \A n \in Nat : n \in T => n + 1 \in T
  PROVE  Nat \subseteq T
  <1> SUFFICES ASSUME Nat \ T # {} PROVE FALSE
    OBVIOUS
  <1>1. PICK n \in Nat \ T : \A m \in Nat \ T : n <= m
    BY LeastNumber
  <1>2. n # 0 /\ n - 1 \in Nat /\ ~(n <= n - 1)
    OBVIOUS
  <1>3. n - 1 \in T
    BY <1>1, <1>2
  <1>4. (n - 1) + 1 = n
    OBVIOUS
  <1> QED
    BY <1>2, <1>3, <1>4

\* A function whose values are computed from the value before, step by step.
Stepwise(f, V, last, first, step) ==
  /\ f \in [0..last -> V]
  /\ f[0] = first
  /\ \A n \in 1..last : f[n] = step[n][f[n - 1]]

\* Such a function exists.
LEMMA StepByStep ==
  ASSUME NEW last \in Nat, NEW V, NEW first \in V, NEW step \in [1..last -> [V -> V]]
  PROVE  \E f : Stepwise(f, V, last, first, step)
  <1> DEFINE Upto(n) == { f \in [0..n -> V] : /\ f[0] = first
                                              /\ \A m \in 1..n : f[m] = step[m][f[m - 1]] }
             T == { n \in Nat : n <= last => Upto(n) # {} }
  <1>1. 0 \in T
    <2>1. [m \in 0..0 |-> first] \in Upto(0)
      OBVIOUS
    <2> QED
      BY <2>1
  <1>2. ASSUME NEW n \in Nat, n \in T
        PROVE  n + 1 \in T
    <2> SUFFICES ASSUME n + 1 <= last PROVE Upto(n + 1) # {}
      OBVIOUS
    <2>1. PICK f : f \in Upto(n)
      BY <1>2
    <2> DEFINE g == [m \in 0..n + 1 |-> IF m = n + 1 THEN step[n + 1][f[n]] ELSE f[m]]
    <2>2. n + 1 \in 1..last /\ f[n] \in V /\ step[n + 1][f[n]] \in V
      BY <2>1
    <2>3. g \in [0..n + 1 -> V]
      BY <2>1, <2>2
    <2>4. g[0] = first
      BY <2>1
    <2>5. \A m \in 1..n + 1 : g[m] = step[m][g[m - 1]]
      <3> TAKE m \in 1..n + 1
      <3>1. CASE m = n + 1
        <4>1. g[m] = step[n + 1][f[n]] /\ g[n] = f[n] /\ m - 1 = n
          BY <3>1
        <4> HIDE DEF g
        <4> QED
          BY <3>1, <4>1
      <3>2. CASE m # n + 1
        <4>1. m \in 1..n /\ m - 1 \in 0..n
          BY <3>2
        <4>2. g[m] = f[m] /\ g[m - 1] = f[m - 1]
          BY <4>1
        <4>3. f[m] = step[m][f[m - 1]]
          BY <2>1, <4>1
        <4> HIDE DEF g
        <4> QED
          BY <4>2, <4>3
      <3> QED
        BY <3>1, <3>2
    <2> HIDE DEF g
    <2>6. g \in Upto(n + 1)
      BY <2>3, <2>4, <2>5
    <2> QED
      BY <2>6
  <1>3. last \in T
    <2> HIDE DEF T
    <2> QED
      BY <1>1, <1>2, NumberInduction
  <1> QED
    BY <1>3 DEF Stepwise

-----------------------------------------------------------------------------
(* Splitting texts                                                         *)

HasNo(mark, text) == \A i \in 1..Len(text) : ~Batch!IsBoundary(text[i], mark)

\* Lists of at least one text over the lines S.
Parts(S) == Seq(Seq(S)) \ {<<>>}

\* Extending the last part changes that one only.
LEMMA ExtendedLast ==
  ASSUME NEW S, NEW parts \in Parts(S), NEW line \in S
  PROVE  /\ Batch!ExtendLast(parts, line) \in Parts(S)
         /\ Len(Batch!ExtendLast(parts, line)) = Len(parts)
         /\ \A i \in 1..Len(parts) : Batch!ExtendLast(parts, line)[i] =
              IF i = Len(parts) THEN Append(parts[i], line) ELSE parts[i]
  <1>1. parts \in Seq(Seq(S)) /\ Len(parts) \in Nat \ {0}
    BY EmptySeq DEF Parts
  <1>2. parts[Len(parts)] \in Seq(S) /\ Append(parts[Len(parts)], line) \in Seq(S)
    <2>1. parts[Len(parts)] \in Seq(S)
      BY <1>1, ElementOfSeq
    <2> QED
      BY <2>1, AppendProperties
  <1>3. Len(parts) \in 1..Len(parts)
    BY <1>1
  <1>4. Batch!ExtendLast(parts, line)
          = [parts EXCEPT ![Len(parts)] = Append(parts[Len(parts)], line)]
    BY DEF Batch!ExtendLast
  <1>5. /\ Batch!ExtendLast(parts, line) \in Seq(Seq(S))
        /\ Len(Batch!ExtendLast(parts, line)) = Len(parts)
        /\ \A i \in 1..Len(parts) : Batch!ExtendLast(parts, line)[i]
             = IF i = Len(parts) THEN Append(parts[Len(parts)], line) ELSE parts[i]
    BY <1>1, <1>2, <1>3, <1>4, ExceptSeq
  <1>6. Batch!ExtendLast(parts, line) # <<>>
    BY <1>1, <1>5, EmptySeq
  <1> QED
    BY <1>5, <1>6 DEF Parts

\* A boundary adds a part with no lines.
LEMMA AddedPart ==
  ASSUME NEW S, NEW parts \in Parts(S)
  PROVE  /\ Append(parts, <<>>) \in Parts(S)
         /\ Len(Append(parts, <<>>)) = Len(parts) + 1
         /\ \A i \in 1..Len(parts) : Append(parts, <<>>)[i] = parts[i]
         /\ Append(parts, <<>>)[Len(parts) + 1] = <<>>
  <1>1. parts \in Seq(Seq(S)) /\ <<>> \in Seq(S)
    BY EmptySeq DEF Parts
  <1>2. /\ Append(parts, <<>>) \in Seq(Seq(S))
        /\ Len(Append(parts, <<>>)) = Len(parts) + 1
        /\ \A i \in 1..Len(parts) : Append(parts, <<>>)[i] = parts[i]
        /\ Append(parts, <<>>)[Len(parts) + 1] = <<>>
    BY <1>1, AppendProperties
  <1>3. Append(parts, <<>>) # <<>>
    BY <1>1, AppendProperties
  <1> QED
    BY <1>2, <1>3 DEF Parts

\* The parts of the first lines, line by line.
LEMMA SplitLines ==
  ASSUME NEW S, NEW text \in Seq(S), NEW mark
  PROVE  LET parts == Batch!Splits(text, mark) IN
           /\ parts \in [0..Len(text) -> Parts(S)]
           /\ parts[0] = << <<>> >>
           /\ \A n \in 1..Len(text) :
                parts[n] = IF Batch!IsBoundary(text[n], mark) THEN Append(parts[n - 1], <<>>)
                           ELSE Batch!ExtendLast(parts[n - 1], text[n])
  <1> DEFINE last == Len(text)
             step == [n \in 1..last |-> [parts \in Parts(S) |->
                        IF Batch!IsBoundary(text[n], mark) THEN Append(parts, <<>>)
                        ELSE Batch!ExtendLast(parts, text[n])]]
  <1>1. last \in Nat /\ \A n \in 1..last : text[n] \in S
    BY LenProperties, ElementOfSeq
  <1>2. << <<>> >> \in Parts(S)
    <2>1. <<>> \in Seq(S)
      BY EmptySeq
    <2>2. \A t \in Seq(S) : <<t>> \in Seq(Seq(S)) /\ <<t>> # <<>>
      OBVIOUS
    <2> QED
      BY <2>1, <2>2 DEF Parts
  <1>3. step \in [1..last -> [Parts(S) -> Parts(S)]]
    BY <1>1, ExtendedLast, AddedPart
  <1>4. PICK f \in [0..last -> Parts(S)] :
          f[0] = << <<>> >> /\ \A n \in 1..last : f[n] = step[n][f[n - 1]]
    <2> HIDE DEF step, last
    <2>1. \E f : Stepwise(f, Parts(S), last, << <<>> >>, step)
      BY <1>1, <1>2, <1>3, StepByStep
    <2> QED
      BY <2>1 DEF Stepwise
  <1>5. \A n \in 1..last : f[n] = IF Batch!IsBoundary(text[n], mark) THEN Append(f[n - 1], <<>>)
                               ELSE Batch!ExtendLast(f[n - 1], text[n])
    <2> TAKE n \in 1..last
    <2>1. f[n - 1] \in Parts(S)
      BY <1>1, <1>4
    <2> QED
      BY <1>4, <2>1
  <1> HIDE DEF step
  <1> DEFINE IsSplits(g) ==
        g = [n \in 0..Len(text) |->
               IF n = 0 THEN << <<>> >>
               ELSE IF Batch!IsBoundary(text[n], mark) THEN Append(g[n - 1], <<>>)
               ELSE Batch!ExtendLast(g[n - 1], text[n])]
  <1>6. IsSplits(f)
    <2>1. \A n \in 0..last : n = 0 \/ n \in 1..last
      BY <1>1
    <2>2. \A n \in 0..last :
            f[n] = IF n = 0 THEN << <<>> >>
                   ELSE IF Batch!IsBoundary(text[n], mark) THEN Append(f[n - 1], <<>>)
                   ELSE Batch!ExtendLast(f[n - 1], text[n])
      BY <1>1, <1>4, <1>5, <2>1
    <2>3. f = [n \in 0..last |-> f[n]]
      BY <1>4
    <2> QED
      BY <2>2, <2>3
  <1>7. Batch!Splits(text, mark) = CHOOSE g : IsSplits(g)
    BY DEF Batch!Splits
  <1>8. IsSplits(Batch!Splits(text, mark))
    BY <1>6, <1>7
  <1> QED
    <2> DEFINE h == Batch!Splits(text, mark)
    <2>1. DOMAIN h = 0..last /\ h[0] = << <<>> >>
          /\ \A n \in 1..last : h[n] = IF Batch!IsBoundary(text[n], mark) THEN Append(h[n - 1], <<>>)
                               ELSE Batch!ExtendLast(h[n - 1], text[n])
      <3>1. \A n \in 1..last : n \in 0..last /\ n # 0
        BY <1>1
      <3>2. 0 \in 0..last
        BY <1>1
      <3> QED
        BY <1>8, <3>1, <3>2
    <2>2. 0 \in { n \in Nat : n <= last => h[n] = f[n] }
      BY <1>4, <2>1
    <2>3. ASSUME NEW n \in Nat, n <= last => h[n] = f[n], n + 1 <= last
          PROVE  h[n + 1] = f[n + 1]
      <3>1. n + 1 \in 1..last /\ (n + 1) - 1 = n /\ h[n] = f[n]
        BY <1>1, <2>3
      <3> HIDE DEF h
      <3> QED
        BY <1>5, <2>1, <3>1
    <2> HIDE DEF h, last
    <2>4. Nat \subseteq { n \in Nat : n <= last => h[n] = f[n] }
      <3> DEFINE T == { n \in Nat : n <= last => h[n] = f[n] }
      <3>1. \A n \in Nat : n \in T => n + 1 \in T
        BY <1>1, <2>3
      <3> HIDE DEF T
      <3>2. 0 \in T
        BY <2>2 DEF T
      <3>3. Nat \subseteq T
        BY <3>1, <3>2, NumberInduction
      <3> QED
        BY <3>3 DEF T
    <2>5. h = [n \in 0..last |-> h[n]]
      BY <1>8 DEF h, last
    <2>6. h \in [0..last -> Parts(S)]
      BY <1>1, <1>4, <2>4, <2>5
    <2> QED
      BY <2>1, <2>6 DEF h, last

\* `after' are the parts of a text that goes on from `before' with `line'.
OneMoreLine(S, before, after, line, mark) ==
  /\ before \in Seq(Seq(S)) /\ after \in Seq(Seq(S))
  /\ Len(before) \in Nat \ {0} /\ Len(after) \in Nat \ {0}
  /\ Batch!IsBoundary(line, mark) =>
       /\ Len(after) = Len(before) + 1
       /\ \A i \in 1..Len(before) : after[i] = before[i]
       /\ after[Len(after)] = <<>>
  /\ ~Batch!IsBoundary(line, mark) =>
       /\ Len(after) = Len(before)
       /\ \A i \in 1..Len(before) :
            after[i] = IF i = Len(before) THEN Append(before[i], line) ELSE before[i]

\* What one more line does to the parts before it.
LEMMA SplitStep ==
  ASSUME NEW S, NEW text \in Seq(S), NEW mark, NEW n \in 1..Len(text)
  PROVE  OneMoreLine(S, Batch!Splits(text, mark)[n - 1], Batch!Splits(text, mark)[n], text[n], mark)
  <1> DEFINE before == Batch!Splits(text, mark)[n - 1]
             after == Batch!Splits(text, mark)[n]
  <1>1. /\ before \in Parts(S) /\ after \in Parts(S) /\ text[n] \in S
        /\ after = IF Batch!IsBoundary(text[n], mark) THEN Append(before, <<>>)
                   ELSE Batch!ExtendLast(before, text[n])
    <2>1. n - 1 \in 0..Len(text) /\ n \in 0..Len(text) /\ Len(text) \in Nat
      BY LenProperties
    <2>2. text[n] \in S
      BY ElementOfSeq
    <2>3. /\ Batch!Splits(text, mark) \in [0..Len(text) -> Parts(S)]
          /\ \A m \in 1..Len(text) :
               Batch!Splits(text, mark)[m] =
                 IF Batch!IsBoundary(text[m], mark)
                   THEN Append(Batch!Splits(text, mark)[m - 1], <<>>)
                   ELSE Batch!ExtendLast(Batch!Splits(text, mark)[m - 1], text[m])
      BY SplitLines, Zenon
    <2>4. before \in Parts(S) /\ after \in Parts(S)
      BY <2>1, <2>3
    <2> QED
      BY <2>2, <2>3, <2>4, Zenon
  <1> SUFFICES OneMoreLine(S, before, after, text[n], mark)
    OBVIOUS
  <1> HIDE DEF before, after
  <1>2. \A parts \in Parts(S) : parts \in Seq(Seq(S)) /\ Len(parts) \in Nat \ {0}
    BY EmptySeq DEF Parts
  <1>3. CASE Batch!IsBoundary(text[n], mark)
    <2>1. after = Append(before, <<>>)
      BY <1>1, <1>3
    <2>2. /\ Len(after) = Len(before) + 1
          /\ \A i \in 1..Len(before) : after[i] = before[i]
          /\ after[Len(before) + 1] = <<>>
      BY <1>1, <2>1, AddedPart
    <2> QED
      BY <1>1, <1>2, <1>3, <2>2 DEF OneMoreLine
  <1>4. CASE ~Batch!IsBoundary(text[n], mark)
    <2>1. after = Batch!ExtendLast(before, text[n])
      BY <1>1, <1>4
    <2>2. /\ Len(after) = Len(before)
          /\ \A i \in 1..Len(before) :
               after[i] = IF i = Len(before) THEN Append(before[i], text[n]) ELSE before[i]
      <3>1. \A line \in S :
              /\ Len(Batch!ExtendLast(before, line)) = Len(before)
              /\ \A i \in 1..Len(before) : Batch!ExtendLast(before, line)[i]
                   = IF i = Len(before) THEN Append(before[i], line) ELSE before[i]
        BY <1>1, ExtendedLast
      <3>2. text[n] \in S
        BY <1>1
      <3> QED
        BY <2>1, <3>1, <3>2
    <2>3. /\ before \in Seq(Seq(S)) /\ Len(before) \in Nat \ {0}
          /\ after \in Seq(Seq(S)) /\ Len(after) \in Nat \ {0}
      BY <1>1, <1>2
    <2> QED
      BY <1>4, <2>2, <2>3, Zenon DEF OneMoreLine
  <1> QED
    BY <1>3, <1>4

\* The parts of a beginning depend on that beginning only.
LEMMA SplitBeginning ==
  ASSUME NEW S, NEW text \in Seq(S), NEW longer \in Seq(S), NEW mark,
         Len(text) <= Len(longer), \A i \in 1..Len(text) : longer[i] = text[i]
  PROVE  \A n \in 0..Len(text) : Batch!Splits(longer, mark)[n] = Batch!Splits(text, mark)[n]
  <1> DEFINE p == Batch!Splits(text, mark)
             q == Batch!Splits(longer, mark)
             T == { n \in Nat : n <= Len(text) => q[n] = p[n] }
  <1>1. Len(text) \in Nat /\ Len(longer) \in Nat
    BY LenProperties
  <1>2. /\ p[0] = << <<>> >> /\ q[0] = << <<>> >>
        /\ \A n \in 1..Len(text) :
             p[n] = IF Batch!IsBoundary(text[n], mark) THEN Append(p[n - 1], <<>>)
                    ELSE Batch!ExtendLast(p[n - 1], text[n])
        /\ \A n \in 1..Len(longer) :
             q[n] = IF Batch!IsBoundary(longer[n], mark) THEN Append(q[n - 1], <<>>)
                    ELSE Batch!ExtendLast(q[n - 1], longer[n])
    BY SplitLines
  <1> HIDE DEF p, q
  <1>3. 0 \in T
    BY <1>2
  <1>4. ASSUME NEW n \in Nat, n \in T
        PROVE  n + 1 \in T
    <2> SUFFICES ASSUME n + 1 <= Len(text) PROVE q[n + 1] = p[n + 1]
      OBVIOUS
    <2>1. /\ n + 1 \in 1..Len(text) /\ n + 1 \in 1..Len(longer) /\ (n + 1) - 1 = n
          /\ longer[n + 1] = text[n + 1] /\ q[n] = p[n]
      BY <1>1, <1>4
    <2> QED
      BY <1>2, <2>1
  <1>5. Nat \subseteq T
    <2> HIDE DEF T
    <2> QED
      BY <1>3, <1>4, NumberInduction
  <1> QED
    BY <1>1, <1>5 DEF p, q

\* All parts but the last are among those of a longer text.
StayIn(p, q) == Len(p) <= Len(q) /\ \A i \in 1..Len(p) - 1 : q[i] = p[i]

\* Only the last part of a beginning changes with the lines that follow.
LEMMA PartsStay ==
  ASSUME NEW S, NEW text \in Seq(S), NEW mark, NEW m \in 0..Len(text), NEW n \in m..Len(text)
  PROVE  StayIn(Batch!Splits(text, mark)[m], Batch!Splits(text, mark)[n])
  <1> DEFINE p == Batch!Splits(text, mark)
             T == { k \in Nat : m <= k /\ k <= Len(text) =>
                      /\ Len(p[m]) <= Len(p[k])
                      /\ \A i \in 1..Len(p[m]) - 1 : p[k][i] = p[m][i] }
  <1>1. Len(text) \in Nat /\ p[m] \in Seq(Seq(S)) /\ Len(p[m]) \in Nat
    <2>1. Len(text) \in Nat /\ p[m] \in Seq(Seq(S))
      BY SplitLines, LenProperties DEF Parts
    <2> QED
      BY <2>1, LenProperties
  <1>2. 0 \in T
    BY <1>1
  <1>3. ASSUME NEW k \in Nat, k \in T
        PROVE  k + 1 \in T
    <2> SUFFICES ASSUME m <= k + 1, k + 1 <= Len(text)
                 PROVE  /\ Len(p[m]) <= Len(p[k + 1])
                        /\ \A i \in 1..Len(p[m]) - 1 : p[k + 1][i] = p[m][i]
      OBVIOUS
    <2>1. CASE m = k + 1
      BY <1>1, <2>1
    <2>2. CASE m # k + 1
      <3>1. /\ m <= k /\ k + 1 \in 1..Len(text) /\ (k + 1) - 1 = k
            /\ Len(p[m]) <= Len(p[k])
            /\ \A i \in 1..Len(p[m]) - 1 : p[k][i] = p[m][i]
        BY <1>1, <1>3, <2>2
      <3>2. /\ Len(p[k]) \in Nat /\ Len(p[k + 1]) \in Nat /\ Len(p[k]) <= Len(p[k + 1])
            /\ \A i \in 1..Len(p[k]) - 1 : p[k + 1][i] = p[k][i]
        <4>1. /\ Len(p[k]) \in Nat \ {0} /\ Len(p[k + 1]) \in Nat \ {0}
              /\ Batch!IsBoundary(text[k + 1], mark) =>
                   /\ Len(p[k + 1]) = Len(p[k]) + 1
                   /\ \A i \in 1..Len(p[k]) : p[k + 1][i] = p[k][i]
              /\ ~Batch!IsBoundary(text[k + 1], mark) =>
                   /\ Len(p[k + 1]) = Len(p[k])
                   /\ \A i \in 1..Len(p[k]) : p[k + 1][i] =
                        IF i = Len(p[k]) THEN Append(p[k][i], text[k + 1]) ELSE p[k][i]
          <5>1. OneMoreLine(S, p[(k + 1) - 1], p[k + 1], text[k + 1], mark)
            BY <3>1, SplitStep
          <5> HIDE DEF p
          <5> QED
            BY <3>1, <5>1 DEF OneMoreLine
        <4> HIDE DEF p
        <4>2. \A i \in 1..Len(p[k]) - 1 : i \in 1..Len(p[k]) /\ i # Len(p[k])
          BY <4>1
        <4>3. CASE Batch!IsBoundary(text[k + 1], mark)
          <5>1. /\ Len(p[k + 1]) = Len(p[k]) + 1
                /\ \A i \in 1..Len(p[k]) : p[k + 1][i] = p[k][i]
            BY <4>1, <4>3, Zenon
          <5>2. Len(p[k]) \in Nat /\ Len(p[k + 1]) \in Nat
            BY <4>1
          <5>3. \A i \in 1..Len(p[k]) - 1 : p[k + 1][i] = p[k][i]
            BY <4>2, <5>1, Zenon
          <5>4. Len(p[k]) <= Len(p[k + 1])
            BY <5>1, <5>2
          <5> QED
            BY <5>2, <5>3, <5>4, Zenon
        <4>4. CASE ~Batch!IsBoundary(text[k + 1], mark)
          BY <4>1, <4>2, <4>4
        <4> QED
          BY <4>3, <4>4
      <3> HIDE DEF p
      <3> QED
        BY <1>1, <3>1, <3>2
    <2> QED
      BY <2>1, <2>2
  <1>4. Nat \subseteq T
    <2> HIDE DEF T
    <2> QED
      BY <1>2, <1>3, NumberInduction
  <1>5. Len(p[m]) <= Len(p[n]) /\ \A i \in 1..Len(p[m]) - 1 : p[n][i] = p[m][i]
    BY <1>1, <1>4
  <1> QED
    BY <1>5 DEF StayIn

\* The parts of a text: a list of at least one.
LEMMA SplitType ==
  ASSUME NEW S, NEW text \in Seq(S), NEW mark
  PROVE  /\ Batch!SplitAt(text, mark) \in Seq(Seq(S))
         /\ Len(Batch!SplitAt(text, mark)) \in Nat \ {0}
  <1>1. Len(text) \in 0..Len(text)
    BY LenProperties
  <1>2. Batch!SplitAt(text, mark) \in Parts(S)
    BY <1>1, SplitLines DEF Batch!SplitAt
  <1> QED
    BY <1>2, EmptySeq DEF Parts

Associative(S) == \A u, v, w \in Seq(S) : (u \o v) \o w = u \o (v \o w)

\* Texts are put together in any order of steps.
LEMMA TextsAssociate == \A S : Associative(S)
  BY ConcatAssociative DEF Associative

\* The beginnings of a sequence, one element after the other.
LEMMA LongerBeginning ==
  ASSUME NEW S, NEW t \in Seq(S), NEW n \in Nat, n + 1 <= Len(t), NEW s \in Seq(S)
  PROVE  Append(s \o SubSeq(t, 1, n), t[n + 1]) = s \o SubSeq(t, 1, n + 1)
  <1>1. Len(t) \in Nat /\ n + 1 \in 1..Len(t) /\ 1 \in 1..Len(t) /\ n + 1 \in 1..n + 1
    BY LenProperties
  <1>2. t[n + 1] \in S /\ \A i \in 1..n : t[i] \in S
    BY <1>1, ElementOfSeq
  <1>3. SubSeq(t, 1, n) \in Seq(S)
    BY <1>2, SubSeqProperties
  <1>4. SubSeq(t, 1, n + 1) = SubSeq(t, 1, n) \o <<t[n + 1]>>
    <2>1. SubSeq(t, 1, n + 1) = SubSeq(t, 1, (n + 1) - 1) \o <<t[n + 1]>>
      BY <1>1, SubSeqRecursiveSecond
    <2>2. (n + 1) - 1 = n
      OBVIOUS
    <2> QED
      BY <2>1, <2>2
  <1>5. s \o SubSeq(t, 1, n) \in Seq(S)
    BY <1>3, ConcatProperties
  <1>6. Append(s \o SubSeq(t, 1, n), t[n + 1]) = (s \o SubSeq(t, 1, n)) \o <<t[n + 1]>>
    BY <1>2, <1>5, AppendIsConcat
  <1>7. <<t[n + 1]>> \in Seq(S)
    BY <1>2
  <1>8. (s \o SubSeq(t, 1, n)) \o <<t[n + 1]>> = s \o (SubSeq(t, 1, n) \o <<t[n + 1]>>)
    <2>1. Associative(S)
      BY TextsAssociate
    <2> QED
      BY <1>3, <1>7, <2>1, Zenon DEF Associative
  <1> QED
    BY <1>4, <1>6, <1>8, Zenon

\* Lines without a boundary are put behind the last part.
LEMMA SplitConcat ==
  ASSUME NEW S, NEW s \in Seq(S), NEW t \in Seq(S), NEW mark, HasNo(mark, t)
  PROVE  /\ Len(Batch!SplitAt(s \o t, mark)) = Len(Batch!SplitAt(s, mark))
         /\ \A i \in 1..Len(Batch!SplitAt(s, mark)) : Batch!SplitAt(s \o t, mark)[i] =
              IF i = Len(Batch!SplitAt(s, mark)) THEN Batch!SplitAt(s, mark)[i] \o t
              ELSE Batch!SplitAt(s, mark)[i]
  <1> DEFINE base == Batch!SplitAt(s, mark)
             q == Batch!Splits(s \o t, mark)
             T == { n \in Nat : n <= Len(t) =>
                      /\ Len(q[Len(s) + n]) = Len(base)
                      /\ \A i \in 1..Len(base) : q[Len(s) + n][i] =
                           IF i = Len(base) THEN base[i] \o SubSeq(t, 1, n) ELSE base[i] }
  <1>1. Len(s) \in Nat /\ Len(t) \in Nat
    BY LenProperties
  <1>2. /\ s \o t \in Seq(S) /\ Len(s \o t) = Len(s) + Len(t)
        /\ \A i \in 1..Len(s) : (s \o t)[i] = s[i]
        /\ \A i \in 1..Len(t) : (s \o t)[Len(s) + i] = t[i]
    <2>1. /\ s \o t \in Seq(S) /\ Len(s \o t) = Len(s) + Len(t)
          /\ \A i \in 1..Len(s) + Len(t) :
               (s \o t)[i] = IF i <= Len(s) THEN s[i] ELSE t[i - Len(s)]
      BY ConcatProperties
    <2>2. ASSUME NEW i \in 1..Len(t)
          PROVE  (s \o t)[Len(s) + i] = t[i]
      <3>1. Len(s) + i \in 1..Len(s) + Len(t) /\ ~(Len(s) + i <= Len(s)) /\ (Len(s) + i) - Len(s) = i
        BY <1>1
      <3> QED
        BY <2>1, <3>1
    <2> QED
      BY <1>1, <2>1, <2>2
  <1>3. q[Len(s)] = base
    <2>1. Len(s) \in 0..Len(s) /\ Len(s) <= Len(s \o t)
      BY <1>1, <1>2
    <2>2. \A i \in 1..Len(s) : (s \o t)[i] = s[i]
      BY <1>2
    <2>3. \A n \in 0..Len(s) : q[n] = Batch!Splits(s, mark)[n]
      <3>1. \A longer \in Seq(S) :
              (Len(s) <= Len(longer) /\ \A i \in 1..Len(s) : longer[i] = s[i]) =>
                \A n \in 0..Len(s) : Batch!Splits(longer, mark)[n] = Batch!Splits(s, mark)[n]
        BY SplitBeginning
      <3> QED
        BY <1>2, <2>1, <2>2, <3>1, Zenon
    <2> HIDE DEF q
    <2> QED
      BY <2>1, <2>3 DEF Batch!SplitAt
  <1>4. base \in Seq(Seq(S)) /\ Len(base) \in Nat \ {0} /\ \A i \in 1..Len(base) : base[i] \in Seq(S)
    <2>1. base \in Seq(Seq(S)) /\ Len(base) \in Nat \ {0}
      BY SplitType
    <2> QED
      BY <2>1, ElementOfSeq
  <1>5. 0 \in T
    <2>1. Len(s) + 0 = Len(s) /\ SubSeq(t, 1, 0) = <<>>
      BY <1>1, SubSeqEmpty
    <2> HIDE DEF base, q
    <2>2. \A i \in 1..Len(base) : base[i] \o SubSeq(t, 1, 0) = base[i]
      BY <1>4, <2>1, ConcatEmptySeq
    <2> QED
      BY <1>3, <2>1, <2>2
  <1>6. ASSUME NEW n \in Nat, n \in T, n + 1 <= Len(t)
        PROVE  n + 1 \in T
    <2>1. /\ Len(s) + (n + 1) \in 1..Len(s \o t) /\ (Len(s) + (n + 1)) - 1 = Len(s) + n
          /\ n <= Len(t) /\ n + 1 \in 1..Len(t)
      BY <1>1, <1>2, <1>6
    <2>2. (s \o t)[Len(s) + (n + 1)] = t[n + 1]
      BY <1>2, <2>1
    <2>3. OneMoreLine(S, q[Len(s) + n], q[Len(s) + (n + 1)], t[n + 1], mark)
      <3>1. OneMoreLine(S, q[(Len(s) + (n + 1)) - 1], q[Len(s) + (n + 1)],
                        (s \o t)[Len(s) + (n + 1)], mark)
        BY <1>2, <2>1, SplitStep
      <3> HIDE DEF q
      <3> QED
        BY <2>1, <2>2, <3>1
    <2>4. ~Batch!IsBoundary(t[n + 1], mark)
      BY <2>1 DEF HasNo
    <2> HIDE DEF base, q
    <2>5. /\ Len(q[Len(s) + n]) = Len(base)
          /\ \A i \in 1..Len(base) : q[Len(s) + n][i] =
               IF i = Len(base) THEN base[i] \o SubSeq(t, 1, n) ELSE base[i]
      BY <1>6, <2>1
    <2>6. /\ Len(q[Len(s) + (n + 1)]) = Len(base)
          /\ \A i \in 1..Len(base) : q[Len(s) + (n + 1)][i] =
               IF i = Len(base) THEN Append(q[Len(s) + n][i], t[n + 1]) ELSE q[Len(s) + n][i]
      BY <2>3, <2>4, <2>5 DEF OneMoreLine
    <2>7. \A i \in 1..Len(base) :
            Append(base[i] \o SubSeq(t, 1, n), t[n + 1]) = base[i] \o SubSeq(t, 1, n + 1)
      <3>1. \A u \in Seq(S) : Append(u \o SubSeq(t, 1, n), t[n + 1]) = u \o SubSeq(t, 1, n + 1)
        <4>1. n \in Nat /\ n + 1 <= Len(t)
          BY <1>6
        <4> QED
          BY <4>1, LongerBeginning, Zenon
      <3> QED
        BY <1>4, <3>1, Zenon
    <2>8. ASSUME NEW i \in 1..Len(base)
          PROVE  q[Len(s) + (n + 1)][i] =
                   IF i = Len(base) THEN base[i] \o SubSeq(t, 1, n + 1) ELSE base[i]
      BY <2>5, <2>6, <2>7, Zenon
    <2> QED
      BY <2>6, <2>8
  <1>7. Len(t) \in T
    <2>1. ASSUME NEW n \in Nat, n \in T
          PROVE  n + 1 \in T
      <3>1. CASE n + 1 <= Len(t)
        BY <1>6, <2>1, <3>1
      <3>2. CASE ~(n + 1 <= Len(t))
        BY <3>2
      <3> QED
        BY <3>1, <3>2
    <2> HIDE DEF T
    <2> QED
      BY <1>1, <1>5, <2>1, NumberInduction
  <1> QED
    <2>1. Batch!SplitAt(s \o t, mark) = q[Len(s) + Len(t)] /\ SubSeq(t, 1, Len(t)) = t
      BY <1>2, SubSeqFull DEF Batch!SplitAt
    <2>2. /\ Len(q[Len(s) + Len(t)]) = Len(base)
          /\ \A i \in 1..Len(base) : q[Len(s) + Len(t)][i] =
               IF i = Len(base) THEN base[i] \o SubSeq(t, 1, Len(t)) ELSE base[i]
      BY <1>1, <1>7
    <2> HIDE DEF base, q
    <2>3. /\ Len(q[Len(s) + Len(t)]) = Len(base)
          /\ \A i \in 1..Len(base) : q[Len(s) + Len(t)][i] =
               IF i = Len(base) THEN base[i] \o t ELSE base[i]
      BY <2>1, <2>2, Zenon
    <2>4. /\ Len(Batch!SplitAt(s \o t, mark)) = Len(base)
          /\ \A i \in 1..Len(base) : Batch!SplitAt(s \o t, mark)[i] =
               IF i = Len(base) THEN base[i] \o t ELSE base[i]
      BY <2>1, <2>3, Zenon
    <2> QED
      BY <2>4, Zenon DEF base

\* A boundary begins a new part.
LEMMA SplitBoundary ==
  ASSUME NEW S, NEW s \in Seq(S), NEW line \in S, NEW mark, Batch!IsBoundary(line, mark)
  PROVE  /\ Len(Batch!SplitAt(s \o <<line>>, mark)) = Len(Batch!SplitAt(s, mark)) + 1
         /\ \A i \in 1..Len(Batch!SplitAt(s, mark)) :
              Batch!SplitAt(s \o <<line>>, mark)[i] = Batch!SplitAt(s, mark)[i]
         /\ Batch!SplitAt(s \o <<line>>, mark)[Len(Batch!SplitAt(s, mark)) + 1] = <<>>
  <1> DEFINE text == s \o <<line>>
             n == Len(s) + 1
  <1>1. Len(s) \in Nat /\ <<line>> \in Seq(S) /\ Len(<<line>>) = 1 /\ <<line>>[1] = line
    BY LenProperties
  <1>2. /\ text \in Seq(S) /\ Len(text) = n
        /\ \A i \in 1..Len(s) : text[i] = s[i]
        /\ text[n] = line
    <2>1. /\ text \in Seq(S) /\ Len(text) = Len(s) + Len(<<line>>)
          /\ \A i \in 1..Len(s) + Len(<<line>>) :
               text[i] = IF i <= Len(s) THEN s[i] ELSE <<line>>[i - Len(s)]
      BY <1>1, ConcatProperties
    <2>2. n \in 1..Len(s) + Len(<<line>>) /\ ~(n <= Len(s)) /\ n - Len(s) = 1
      BY <1>1
    <2> HIDE DEF text
    <2> QED
      BY <1>1, <2>1, <2>2
  <1> HIDE DEF text
  <1>3. Batch!Splits(text, mark)[Len(s)] = Batch!SplitAt(s, mark)
    <2>1. Len(s) \in 0..Len(s) /\ Len(s) <= Len(text)
      BY <1>1, <1>2
    <2> QED
      BY <1>2, <2>1, SplitBeginning DEF Batch!SplitAt
  <1>4. OneMoreLine(S, Batch!SplitAt(s, mark), Batch!SplitAt(text, mark), line, mark)
    <2>1. n \in 1..Len(text) /\ n - 1 = Len(s)
      BY <1>1, <1>2
    <2>2. OneMoreLine(S, Batch!Splits(text, mark)[n - 1], Batch!Splits(text, mark)[n], text[n], mark)
      BY <1>2, <2>1, SplitStep
    <2> HIDE DEF n
    <2> QED
      BY <1>2, <1>3, <2>1, <2>2 DEF Batch!SplitAt
  <1>5. /\ Len(Batch!SplitAt(text, mark)) = Len(Batch!SplitAt(s, mark)) + 1
        /\ \A i \in 1..Len(Batch!SplitAt(s, mark)) :
             Batch!SplitAt(text, mark)[i] = Batch!SplitAt(s, mark)[i]
        /\ Batch!SplitAt(text, mark)[Len(Batch!SplitAt(text, mark))] = <<>>
    BY <1>4 DEF OneMoreLine
  <1> QED
    BY <1>5 DEF text

\* f computes the concatenation of texts one by one.
Concatenates(f, texts, S) ==
  /\ f \in [0..Len(texts) -> Seq(S)]
  /\ f[0] = <<>>
  /\ \A n \in 1..Len(texts) : f[n] = f[n - 1] \o texts[n]
  /\ Batch!FlattenSeq(texts) = f[Len(texts)]

\* FlattenSeq() is that concatenation.
LEMMA Concatenated ==
  ASSUME NEW S, NEW texts \in Seq(Seq(S))
  PROVE  \E f : Concatenates(f, texts, S)
  <1> DEFINE last == Len(texts)
             step == [n \in 1..last |-> [u \in Seq(S) |-> u \o texts[n]]]
             IsFlatten(g) == g = [n \in 1..last |-> IF n = 1 THEN texts[n] ELSE g[n - 1] \o texts[n]]
  <1>1. last \in Nat /\ \A n \in 1..last : texts[n] \in Seq(S)
    BY LenProperties, ElementOfSeq
  <1>2. step \in [1..last -> [Seq(S) -> Seq(S)]]
    <2>1. \A u, v \in Seq(S) : u \o v \in Seq(S)
      BY ConcatProperties
    <2> QED
      BY <1>1, <2>1
  <1>3. PICK f : /\ f \in [0..last -> Seq(S)]
                 /\ f[0] = <<>>
                 /\ \A n \in 1..last : f[n] = step[n][f[n - 1]]
    <2> HIDE DEF step, last
    <2>1. \E f : Stepwise(f, Seq(S), last, <<>>, step)
      BY <1>1, <1>2, StepByStep, EmptySeq
    <2> QED
      BY <2>1 DEF Stepwise
  <1>4. \A n \in 1..last : f[n] = f[n - 1] \o texts[n]
    <2> TAKE n \in 1..last
    <2>1. n - 1 \in 0..last
      BY <1>1
    <2>2. f[n - 1] \in Seq(S) /\ f[n] = step[n][f[n - 1]]
      <3> HIDE DEF step, last
      <3> QED
        BY <1>3, <2>1
    <2>3. \A u \in Seq(S) : step[n][u] = u \o texts[n]
      OBVIOUS
    <2> HIDE DEF step
    <2> QED
      BY <2>2, <2>3
  <1> HIDE DEF step
  <1>5. CASE last = 0
    <2>1. texts = <<>> /\ Batch!FlattenSeq(texts) = texts
      BY <1>5, EmptySeq DEF Batch!FlattenSeq
    <2>2. Concatenates(f, texts, S)
      BY <1>3, <1>4, <1>5, <2>1 DEF Concatenates
    <2> QED
      BY <2>2
  <1>6. CASE last # 0
    <2> DEFINE g == [n \in 1..last |-> f[n]]
    <2>1. IsFlatten(g)
      <3>1. ASSUME NEW n \in 1..last
            PROVE  g[n] = IF n = 1 THEN texts[n] ELSE g[n - 1] \o texts[n]
        <4>1. CASE n = 1
          <5>1. f[n] = <<>> \o texts[n] /\ texts[n] \in Seq(S)
            <6>1. n - 1 = 0 /\ texts[n] \in Seq(S)
              BY <1>1, <4>1
            <6>2. f[n] = f[n - 1] \o texts[n]
              BY <1>4
            <6> HIDE DEF last
            <6> QED
              BY <1>3, <6>1, <6>2
          <5>2. <<>> \o texts[n] = texts[n]
            BY <5>1, ConcatEmptySeq
          <5> QED
            BY <4>1, <5>1, <5>2
        <4>2. CASE n # 1
          <5>1. n - 1 \in 1..last
            BY <1>1, <4>2
          <5> QED
            BY <1>4, <4>2, <5>1
        <4> QED
          BY <4>1, <4>2
      <3>2. g = [n \in 1..last |-> g[n]]
        OBVIOUS
      <3> HIDE DEF g
      <3> QED
        BY <3>1, <3>2
    <2>2. Batch!FlattenSeq(texts) = (CHOOSE h : IsFlatten(h))[last]
      BY <1>6 DEF Batch!FlattenSeq
    <2> DEFINE h == CHOOSE h : IsFlatten(h)
    <2>3. IsFlatten(h)
      BY <2>1
    <2>4. \A n \in 1..last : h[n] = IF n = 1 THEN texts[n] ELSE h[n - 1] \o texts[n]
      BY <2>3
    <2> HIDE DEF h
    <2> DEFINE T == { n \in Nat : 1 <= n /\ n <= last => h[n] = f[n] }
    <2>5. 0 \in T
      OBVIOUS
    <2>6. ASSUME NEW n \in Nat, n \in T
          PROVE  n + 1 \in T
      <3> SUFFICES ASSUME n + 1 <= last PROVE h[n + 1] = f[n + 1]
        OBVIOUS
      <3>1. n + 1 \in 1..last /\ (n + 1) - 1 = n /\ f[n + 1] = f[n] \o texts[n + 1]
        <4>1. n + 1 \in 1..last /\ (n + 1) - 1 = n
          BY <1>1
        <4>2. f[n + 1] = f[(n + 1) - 1] \o texts[n + 1]
          BY <1>4, <4>1
        <4> QED
          BY <4>1, <4>2
      <3>2. CASE n = 0
        <4>1. n + 1 = 1 /\ texts[n + 1] \in Seq(S)
          BY <1>1, <3>1, <3>2
        <4>2. <<>> \o texts[n + 1] = texts[n + 1]
          BY <4>1, ConcatEmptySeq
        <4> QED
          BY <1>3, <2>4, <3>1, <3>2, <4>1, <4>2
      <3>3. CASE n # 0
        <4>1. n + 1 # 1 /\ h[n] = f[n]
          BY <1>1, <2>6, <3>3
        <4> QED
          BY <2>4, <3>1, <4>1
      <3> QED
        BY <3>2, <3>3
    <2>7. last \in T
      <3> HIDE DEF T
      <3> QED
        BY <1>1, <2>5, <2>6, NumberInduction
    <2>8. Batch!FlattenSeq(texts) = f[last]
      BY <1>1, <1>6, <2>2, <2>7 DEF h
    <2>9. Concatenates(f, texts, S)
      BY <1>3, <1>4, <2>8 DEF Concatenates
    <2> QED
      BY <2>9
  <1> QED
    BY <1>5, <1>6

\* One more part after those before.
OneMorePart(before, after, part) ==
  /\ Len(after) = Len(before) + 1
  /\ \A i \in 1..Len(before) : after[i] = before[i]
  /\ after[Len(before) + 1] = part

\* A boundary and lines without one are one more part.
LEMMA SplitPart ==
  ASSUME NEW S, NEW s \in Seq(S), NEW line \in S, NEW t \in Seq(S), NEW mark,
         Batch!IsBoundary(line, mark), HasNo(mark, t)
  PROVE  OneMorePart(Batch!SplitAt(s, mark), Batch!SplitAt((s \o <<line>>) \o t, mark), t)
  <1> DEFINE base == Batch!SplitAt(s, mark)
             begun == Batch!SplitAt(s \o <<line>>, mark)
             parts == Batch!SplitAt((s \o <<line>>) \o t, mark)
  <1>1. s \o <<line>> \in Seq(S) /\ (s \o <<line>>) \o t \in Seq(S)
    <2>1. <<line>> \in Seq(S)
      OBVIOUS
    <2>2. s \o <<line>> \in Seq(S)
      BY <2>1, ConcatProperties
    <2> QED
      BY <2>2, ConcatProperties
  <1>2. Len(base) \in Nat
    BY SplitType
  <1>3. /\ Len(begun) = Len(base) + 1
        /\ \A i \in 1..Len(base) : begun[i] = base[i]
        /\ begun[Len(base) + 1] = <<>>
    BY SplitBoundary
  <1>4. /\ Len(parts) = Len(begun)
        /\ \A i \in 1..Len(begun) : parts[i] = IF i = Len(begun) THEN begun[i] \o t ELSE begun[i]
    BY <1>1, SplitConcat
  <1>5. <<>> \o t = t
    BY ConcatEmptySeq
  <1> HIDE DEF base, begun, parts
  <1>6. \A i \in 1..Len(base) : i \in 1..Len(begun) /\ i # Len(begun)
    BY <1>2, <1>3
  <1>7. Len(begun) \in 1..Len(begun)
    BY <1>2, <1>3
  <1>8. /\ Len(parts) = Len(base) + 1
        /\ \A i \in 1..Len(base) : parts[i] = base[i]
        /\ parts[Len(base) + 1] = t
    BY <1>3, <1>4, <1>5, <1>6, <1>7
  <1> QED
    BY <1>8, Zenon DEF base, parts, OneMorePart

\* The parts of a text without a boundary: itself.
LEMMA SplitNothing ==
  ASSUME NEW S, NEW t \in Seq(S), NEW mark, HasNo(mark, t)
  PROVE  Len(Batch!SplitAt(t, mark)) = 1 /\ Batch!SplitAt(t, mark)[1] = t
  <1>1. <<>> \in Seq(S) /\ Len(<<>>) = 0
    BY EmptySeq
  <1> DEFINE p == Batch!SplitAt(<<>>, mark)
             q == Batch!SplitAt(t, mark)
  <1>2. Len(p) = 1 /\ p[1] = <<>>
    <2>1. p = << <<>> >>
      BY <1>1, SplitLines DEF Batch!SplitAt
    <2> HIDE DEF p
    <2> QED
      BY <2>1
  <1>3. <<>> \o t = t
    BY ConcatEmptySeq
  <1>4. /\ Len(q) = Len(p)
        /\ \A i \in 1..Len(p) : q[i] = IF i = Len(p) THEN p[i] \o t ELSE p[i]
    <2>1. /\ Len(Batch!SplitAt(<<>> \o t, mark)) = Len(p)
          /\ \A i \in 1..Len(p) : Batch!SplitAt(<<>> \o t, mark)[i] =
                IF i = Len(p) THEN p[i] \o t ELSE p[i]
      BY <1>1, SplitConcat
    <2> HIDE DEF p
    <2> QED
      BY <1>3, <2>1, Zenon
  <1> HIDE DEF p, q
  <1>5. Len(q) = 1 /\ q[1] = t
    BY <1>2, <1>3, <1>4
  <1> QED
    BY <1>5 DEF q

\* The parts of a text: what comes before the first boundary, and n texts.
PartsAre(parts, head, texts, n) ==
  /\ Len(parts) = n + 1
  /\ parts[1] = head
  /\ \A i \in 1..n : parts[i + 1] = texts[i]

\* Texts between boundaries are found again as they are, whatever their number,
\* as long as none has a boundary in itself.
THEOREM SplitEnclosed ==
  ASSUME NEW S, NEW head \in Seq(S), NEW texts \in Seq(Seq(S)), NEW mark, texts # <<>>,
         HasNo(mark, head), \A i \in 1..Len(texts) : HasNo(mark, texts[i]),
         Batch!Delimiter(mark) \in S, Batch!Close(mark) \in S
  PROVE  /\ Batch!Enclose(texts, mark) \in Seq(S)
         /\ head \o Batch!Enclose(texts, mark) \in Seq(S)
         /\ PartsAre(Batch!SplitAt(head \o Batch!Enclose(texts, mark), mark),
                     head, Append(texts, <<>>), Len(texts) + 1)
  <1> DEFINE D == Batch!Delimiter(mark)
             C == Batch!Close(mark)
             pieces == [i \in 1..Len(texts) |-> IF i = 1 THEN texts[i] ELSE <<D>> \o texts[i]]
  <1>assoc. Associative(S)
    BY TextsAssociate
  <1>1. /\ Len(texts) \in Nat \ {0} /\ \A i \in 1..Len(texts) : texts[i] \in Seq(S)
        /\ <<D>> \in Seq(S) /\ <<C>> \in Seq(S) /\ D \in S /\ C \in S
    BY EmptySeq, ElementOfSeq
  <1>2. Batch!IsBoundary(D, mark) /\ Batch!IsBoundary(C, mark)
    BY DEF Batch!IsBoundary, Batch!Delimiter, Batch!Close
  <1>3. pieces \in Seq(Seq(S)) /\ Len(pieces) = Len(texts)
    <2>1. \A i \in 1..Len(texts) : <<D>> \o texts[i] \in Seq(S)
      BY <1>1, ConcatProperties
    <2> HIDE DEF D
    <2> QED
      BY <1>1, <2>1
  <1>4. Batch!Join(texts, D) = Batch!FlattenSeq(pieces)
    BY DEF Batch!Join
  <1>5. PICK f : Concatenates(f, pieces, S)
    BY <1>3, Concatenated
  <1>6. /\ \A n \in 0..Len(texts) : f[n] \in Seq(S)
        /\ f[0] = <<>> /\ Batch!Join(texts, D) = f[Len(texts)]
        /\ \A n \in 1..Len(texts) : f[n] = f[n - 1] \o pieces[n]
    BY <1>3, <1>4, <1>5 DEF Concatenates
  <1>7. f[1] = texts[1] /\ \A n \in 2..Len(texts) : f[n] = f[n - 1] \o (<<D>> \o texts[n])
    <2>1. 1 \in 1..Len(texts) /\ \A n \in 2..Len(texts) : n \in 1..Len(texts) /\ n # 1
      BY <1>1
    <2>2. pieces[1] = texts[1] /\ \A n \in 2..Len(texts) : pieces[n] = <<D>> \o texts[n]
      BY <2>1
    <2>3. ASSUME NEW n \in 1..Len(texts), n = 1
          PROVE  f[n] = f[0] \o pieces[n]
      <3>1. f[n] = f[n - 1] \o pieces[n]
        BY <1>6
      <3>2. n - 1 = 0
        BY <2>3
      <3> QED
        BY <3>1, <3>2
    <2>4. <<>> \o texts[1] = texts[1]
      BY <1>1, <2>1, ConcatEmptySeq
    <2> HIDE DEF pieces, D
    <2>5. f[1] = texts[1]
      BY <1>6, <2>1, <2>2, <2>3, <2>4
    <2>6. \A n \in 2..Len(texts) : f[n] = f[n - 1] \o (<<D>> \o texts[n])
      BY <1>6, <2>1, <2>2
    <2> QED
      BY <2>5, <2>6
  <1> HIDE DEF D, C, pieces
  <1> DEFINE text(n) == (head \o <<D>>) \o f[n]
  <1>8. head \o <<D>> \in Seq(S) /\ \A n \in 0..Len(texts) : text(n) \in Seq(S)
    <2>1. head \o <<D>> \in Seq(S)
      BY <1>1, ConcatProperties
    <2> QED
      BY <1>6, <2>1, ConcatProperties
  <1>9. PartsAre(Batch!SplitAt(text(1), mark), head, texts, 1)
    <2>1. 1 \in 1..Len(texts)
      BY <1>1
    <2>2. texts[1] \in Seq(S) /\ HasNo(mark, texts[1]) /\ text(1) = (head \o <<D>>) \o texts[1]
      BY <1>1, <1>7, <2>1
    <2>3. Len(Batch!SplitAt(head, mark)) = 1 /\ Batch!SplitAt(head, mark)[1] = head
      BY SplitNothing
    <2>4. OneMorePart(Batch!SplitAt(head, mark),
                      Batch!SplitAt((head \o <<D>>) \o texts[1], mark), texts[1])
      BY <1>1, <1>2, <2>2, SplitPart
    <2> HIDE DEF text
    <2> DEFINE p == Batch!SplitAt(head, mark)
               q == Batch!SplitAt(text(1), mark)
    <2>5. OneMorePart(p, q, texts[1])
      BY <2>2, <2>4, Zenon
    <2> HIDE DEF p
    <2> SUFFICES PartsAre(q, head, texts, 1)
      OBVIOUS
    <2> HIDE DEF q
    <2>6. Len(p) = 1 /\ p[1] = head
      BY <2>3 DEF p
    <2> QED
      BY <2>5, <2>6 DEF PartsAre, OneMorePart
  <1>10. ASSUME NEW n \in 1..Len(texts), n + 1 <= Len(texts),
                PartsAre(Batch!SplitAt(text(n), mark), head, texts, n)
         PROVE  PartsAre(Batch!SplitAt(text(n + 1), mark), head, texts, n + 1)
    <2>1. n + 1 \in 2..Len(texts) /\ n + 1 \in 1..Len(texts) /\ (n + 1) - 1 = n /\ n \in 0..Len(texts)
      BY <1>1, <1>10
    <2>2. texts[n + 1] \in Seq(S) /\ HasNo(mark, texts[n + 1]) /\ text(n) \in Seq(S)
      BY <1>1, <1>8, <2>1
    <2>3. text(n + 1) = (text(n) \o <<D>>) \o texts[n + 1]
      <3>1. f[n + 1] = f[n] \o (<<D>> \o texts[n + 1])
        <4>1. f[n + 1] = f[(n + 1) - 1] \o (<<D>> \o texts[n + 1])
          BY <1>7, <2>1
        <4> QED
          BY <2>1, <4>1
      <3>2. f[n] \in Seq(S) /\ <<D>> \o texts[n + 1] \in Seq(S)
        <4>1. f[n] \in Seq(S) /\ <<D>> \in Seq(S)
          BY <1>1, <1>6, <2>1
        <4> QED
          BY <2>2, <4>1, ConcatProperties
      <3>4. (head \o <<D>>) \o (f[n] \o (<<D>> \o texts[n + 1]))
              = ((head \o <<D>>) \o f[n]) \o (<<D>> \o texts[n + 1])
        BY <1>8, <1>assoc, <3>2, Zenon DEF Associative
      <3>5. ((head \o <<D>>) \o f[n]) \o (<<D>> \o texts[n + 1])
              = (((head \o <<D>>) \o f[n]) \o <<D>>) \o texts[n + 1]
        <4>1. (head \o <<D>>) \o f[n] \in Seq(S) /\ <<D>> \in Seq(S) /\ texts[n + 1] \in Seq(S)
          BY <1>1, <2>2
        <4> QED
          BY <1>assoc, <4>1, Zenon DEF Associative
      <3> QED
        BY <3>1, <3>4, <3>5, Zenon
    <2> HIDE DEF text
    <2>4. OneMorePart(Batch!SplitAt(text(n), mark), Batch!SplitAt(text(n + 1), mark), texts[n + 1])
      <3>1. OneMorePart(Batch!SplitAt(text(n), mark),
                        Batch!SplitAt((text(n) \o <<D>>) \o texts[n + 1], mark), texts[n + 1])
        BY <1>1, <1>2, <2>2, SplitPart
      <3> QED
        BY <2>3, <3>1, Zenon
    <2> DEFINE p == Batch!SplitAt(text(n), mark)
               q == Batch!SplitAt(text(n + 1), mark)
    <2> SUFFICES PartsAre(q, head, texts, n + 1)
      OBVIOUS
    <2>5. /\ Len(q) = Len(p) + 1 /\ \A i \in 1..Len(p) : q[i] = p[i]
          /\ q[Len(p) + 1] = texts[n + 1]
          /\ Len(p) = n + 1 /\ p[1] = head /\ \A i \in 1..n : p[i + 1] = texts[i]
      BY <1>10, <2>4 DEF PartsAre, OneMorePart
    <2> HIDE DEF p, q
    <2>6. q[1] = head
      BY <1>1, <2>5
    <2>7. ASSUME NEW i \in 1..n + 1
          PROVE  q[i + 1] = texts[i]
      <3>1. CASE i = n + 1
        BY <2>5, <3>1
      <3>2. CASE i # n + 1
        <4>1. i \in 1..n /\ i + 1 \in 1..n + 1
          BY <3>2
        <4> QED
          BY <2>5, <4>1
      <3> QED
        BY <3>1, <3>2
    <2> QED
      BY <2>5, <2>6, <2>7 DEF PartsAre
  <1>11. PartsAre(Batch!SplitAt(text(Len(texts)), mark), head, texts, Len(texts))
    <2> DEFINE T == { n \in Nat : 1 <= n /\ n <= Len(texts) =>
                        PartsAre(Batch!SplitAt(text(n), mark), head, texts, n) }
    <2> HIDE DEF text
    <2>1. 0 \in T
      OBVIOUS
    <2>2. ASSUME NEW n \in Nat, n \in T
          PROVE  n + 1 \in T
      <3>1. CASE n = 0
        BY <1>9, <3>1
      <3>2. CASE n # 0 /\ n + 1 <= Len(texts)
        <4>1. n \in 1..Len(texts) /\ PartsAre(Batch!SplitAt(text(n), mark), head, texts, n)
          BY <1>1, <2>2, <3>2
        <4>2. PartsAre(Batch!SplitAt(text(n + 1), mark), head, texts, n + 1)
          BY <1>10, <3>2, <4>1
        <4> QED
          BY <4>2
      <3>3. CASE ~(n + 1 <= Len(texts))
        BY <3>3
      <3> QED
        BY <3>1, <3>2, <3>3
    <2>3. Len(texts) \in T
      <3> HIDE DEF T
      <3> QED
        BY <1>1, <2>1, <2>2, NumberInduction
    <2> QED
      BY <1>1, <2>3
  <1>12. /\ Batch!Enclose(texts, mark) \in Seq(S)
         /\ head \o Batch!Enclose(texts, mark) = text(Len(texts)) \o <<C>>
    <2>1. Batch!Enclose(texts, mark) = (<<D>> \o f[Len(texts)]) \o <<C>>
      BY <1>6 DEF Batch!Enclose, D, C
    <2>2. f[Len(texts)] \in Seq(S) /\ <<D>> \o f[Len(texts)] \in Seq(S)
      <3>1. f[Len(texts)] \in Seq(S) /\ <<D>> \in Seq(S)
        BY <1>1, <1>6
      <3> QED
        BY <3>1, ConcatProperties
    <2>4. head \o ((<<D>> \o f[Len(texts)]) \o <<C>>) = (head \o (<<D>> \o f[Len(texts)])) \o <<C>>
      BY <1>1, <1>assoc, <2>2, Zenon DEF Associative
    <2>5. head \o (<<D>> \o f[Len(texts)]) = (head \o <<D>>) \o f[Len(texts)]
      BY <1>1, <1>assoc, <2>2, Zenon DEF Associative
    <2>6. (<<D>> \o f[Len(texts)]) \o <<C>> \in Seq(S)
      BY <1>1, <2>2, ConcatProperties
    <2> QED
      BY <2>1, <2>4, <2>5, <2>6, Zenon
  <1> HIDE DEF text
  <1>13. text(Len(texts)) \in Seq(S)
    BY <1>1, <1>8
  <1>14. text(Len(texts)) \o <<C>> \in Seq(S)
    BY <1>1, <1>13, ConcatProperties
  <1>15. PartsAre(Batch!SplitAt(text(Len(texts)) \o <<C>>, mark),
                  head, Append(texts, <<>>), Len(texts) + 1)
    <2> DEFINE p == Batch!SplitAt(text(Len(texts)), mark)
               q == Batch!SplitAt(text(Len(texts)) \o <<C>>, mark)
    <2> SUFFICES PartsAre(q, head, Append(texts, <<>>), Len(texts) + 1)
      OBVIOUS
    <2>1. /\ Len(q) = Len(p) + 1
          /\ \A i \in 1..Len(p) : q[i] = p[i]
          /\ q[Len(p) + 1] = <<>>
      BY <1>1, <1>2, <1>13, SplitBoundary
    <2>2. Len(p) = Len(texts) + 1 /\ p[1] = head /\ \A i \in 1..Len(texts) : p[i + 1] = texts[i]
      BY <1>11 DEF PartsAre
    <2>3. /\ \A i \in 1..Len(texts) : Append(texts, <<>>)[i] = texts[i]
          /\ Append(texts, <<>>)[Len(texts) + 1] = <<>>
      BY EmptySeq, AppendProperties
    <2> HIDE DEF p, q
    <2>4. q[1] = head
      BY <1>1, <2>1, <2>2
    <2>5. ASSUME NEW i \in 1..Len(texts) + 1
          PROVE  q[i + 1] = Append(texts, <<>>)[i]
      <3>1. CASE i = Len(texts) + 1
        BY <2>1, <2>2, <2>3, <3>1
      <3>2. CASE i # Len(texts) + 1
        <4>1. i \in 1..Len(texts) /\ i + 1 \in 1..Len(texts) + 1
          BY <1>1, <3>2
        <4> QED
          BY <2>1, <2>2, <2>3, <4>1
      <3> QED
        BY <3>1, <3>2
    <2> QED
      BY <2>1, <2>2, <2>4, <2>5 DEF PartsAre
  <1> QED
    BY <1>12, <1>14, <1>15

\* A text that breaks off has lost its last parts, and at most the last of the
\* parts that are left is not whole.
LEMMA SplitTruncated ==
  ASSUME NEW S, NEW full \in Seq(S), NEW mark, NEW n \in 0..Len(full)
  PROVE  /\ SubSeq(full, 1, n) \in Seq(S)
         /\ Len(Batch!SplitAt(SubSeq(full, 1, n), mark)) <= Len(Batch!SplitAt(full, mark))
         /\ \A i \in 1..Len(Batch!SplitAt(SubSeq(full, 1, n), mark)) - 1 :
              Batch!SplitAt(full, mark)[i] = Batch!SplitAt(SubSeq(full, 1, n), mark)[i]
  <1> DEFINE text == SubSeq(full, 1, n)
  <1>1. Len(full) \in Nat
    BY LenProperties
  <1>2. text \in Seq(S) /\ Len(text) = n /\ \A i \in 1..Len(text) : full[i] = text[i]
    <2>1. \A i \in 1..n : full[i] \in S
      BY <1>1, ElementOfSeq
    <2>2. /\ text \in Seq(S)
          /\ Len(text) = IF 1 <= n THEN n - 1 + 1 ELSE 0
          /\ \A i \in 1..n - 1 + 1 : text[i] = full[1 + i - 1]
      BY <2>1, SubSeqProperties
    <2>3. Len(text) = n
      BY <1>1, <2>2
    <2>4. ASSUME NEW i \in 1..n
          PROVE  full[i] = text[i]
      <3>1. i \in 1..n - 1 + 1 /\ 1 + i - 1 = i
        OBVIOUS
      <3> HIDE DEF text
      <3> QED
        BY <2>2, <3>1
    <2> QED
      BY <2>2, <2>3, <2>4
  <1> HIDE DEF text
  <1>3. Batch!Splits(full, mark)[n] = Batch!SplitAt(text, mark)
    <2>1. Len(text) <= Len(full) /\ n \in 0..Len(text)
      BY <1>1, <1>2
    <2>2. Batch!Splits(full, mark)[n] = Batch!Splits(text, mark)[n]
      BY <1>2, <2>1, SplitBeginning
    <2> QED
      BY <1>2, <2>2 DEF Batch!SplitAt
  <1>4. n \in 0..Len(full) /\ Len(full) \in n..Len(full)
    BY <1>1
  <1>5. StayIn(Batch!Splits(full, mark)[n], Batch!Splits(full, mark)[Len(full)])
    BY <1>4, PartsStay
  <1>6. /\ Len(Batch!SplitAt(text, mark)) <= Len(Batch!SplitAt(full, mark))
        /\ \A i \in 1..Len(Batch!SplitAt(text, mark)) - 1 :
             Batch!SplitAt(full, mark)[i] = Batch!SplitAt(text, mark)[i]
    BY <1>3, <1>5, Zenon DEF Batch!SplitAt, StayIn
  <1> QED
    BY <1>2, <1>6 DEF text

\* What lies between the first and the last part.
LEMMA MiddleParts ==
  ASSUME NEW S, NEW head \in Seq(S), NEW texts \in Seq(Seq(S)), NEW parts \in Seq(Seq(S)),
         PartsAre(parts, head, Append(texts, <<>>), Len(texts) + 1)
  PROVE  SubSeq(parts, 2, Len(parts) - 1) = texts
  <1>1. /\ Len(texts) \in Nat /\ Len(parts) = Len(texts) + 2
        /\ \A i \in 1..Len(texts) : parts[i + 1] = texts[i]
    <2>1. Len(texts) \in Nat /\ Len(parts) = (Len(texts) + 1) + 1
      BY LenProperties DEF PartsAre
    <2>2. \A i \in 1..Len(texts) : i \in 1..Len(texts) + 1
      BY <2>1
    <2>3. \A i \in 1..Len(texts) : Append(texts, <<>>)[i] = texts[i]
      BY EmptySeq, AppendProperties
    <2> QED
      BY <2>1, <2>2, <2>3 DEF PartsAre
  <1> DEFINE middle == SubSeq(parts, 2, Len(parts) - 1)
  <1>2. \A i \in 2..Len(parts) - 1 : parts[i] \in Seq(S)
    BY <1>1, ElementOfSeq
  <1>3. /\ middle \in Seq(Seq(S))
        /\ Len(middle) = IF 2 <= Len(parts) - 1 THEN (Len(parts) - 1) - 2 + 1 ELSE 0
        /\ \A i \in 1..(Len(parts) - 1) - 2 + 1 : middle[i] = parts[2 + i - 1]
    <2>1. 2 \in Int /\ Len(parts) - 1 \in Int
      BY <1>1
    <2> QED
      BY <1>2, <2>1, SubSeqProperties
  <1> HIDE DEF middle
  <1>4. Len(middle) = Len(texts)
    BY <1>1, <1>3
  <1>5. ASSUME NEW i \in 1..Len(texts)
        PROVE  middle[i] = texts[i]
    <2>1. i \in 1..(Len(parts) - 1) - 2 + 1 /\ 2 + i - 1 = i + 1
      BY <1>1
    <2> QED
      BY <1>1, <1>3, <2>1
  <1>6. middle = texts
    BY <1>3, <1>4, <1>5, SeqEqual
  <1> QED
    BY <1>6 DEF middle

\* The client finds all answers in a response, as they were put there.
LEMMA WholeResponse ==
  ASSUME NEW S, NEW head \in Seq(S), NEW texts \in Seq(Seq(S)), NEW mark, texts # <<>>,
         HasNo(mark, head), \A i \in 1..Len(texts) : HasNo(mark, texts[i]),
         Batch!Delimiter(mark) \in S, Batch!Close(mark) \in S
  PROVE  LET parts == Batch!SplitAt(head \o Batch!Enclose(texts, mark), mark)
         IN /\ SubSeq(parts, 2, Len(parts) - 1) = texts
            /\ Batch!SplitResponse(head \o Batch!Enclose(texts, mark), mark) = texts
  <1> DEFINE text == head \o Batch!Enclose(texts, mark)
             parts == Batch!SplitAt(text, mark)
  <1>1. text \in Seq(S) /\ PartsAre(parts, head, Append(texts, <<>>), Len(texts) + 1)
    BY SplitEnclosed
  <1>2. parts \in Seq(Seq(S)) /\ Len(texts) \in Nat \ {0}
    BY <1>1, SplitType, EmptySeq
  <1>3. SubSeq(parts, 2, Len(parts) - 1) = texts
    BY <1>1, <1>2, MiddleParts
  <1>4. Len(parts) >= 3
    <2> HIDE DEF parts
    <2> QED
      BY <1>1, <1>2 DEF PartsAre
  <1> QED
    BY <1>3, <1>4, Zenon DEF Batch!SplitResponse

\* The parts that a client finds in the first n lines of a response.
FoundIn(found, texts, mark, n) ==
  /\ n \in 0..Len(Batch!Enclose(texts, mark))
  /\ found = Batch!SplitResponse(SubSeq(Batch!Enclose(texts, mark), 1, n), mark)
  /\ found # Batch!Malformed

\* Wherever a response breaks off, the client finds nothing at all or the first
\* answers, whole and in order.
THEOREM BrokenResponse ==
  ASSUME NEW S, NEW texts \in Seq(Seq(S)), NEW mark, texts # <<>>,
         \A i \in 1..Len(texts) : HasNo(mark, texts[i]),
         Batch!Delimiter(mark) \in S, Batch!Close(mark) \in S,
         NEW n, NEW found, FoundIn(found, texts, mark, n)
  PROVE  /\ found \in Seq(Seq(S))
         /\ Len(found) \in 1..Len(texts)
         /\ \A i \in 1..Len(found) : found[i] = texts[i]
  <1> DEFINE full == Batch!Enclose(texts, mark)
             text == SubSeq(full, 1, n)
             parts == Batch!SplitAt(text, mark)
             whole == Batch!SplitAt(full, mark)
  <1>0. n \in 0..Len(full) /\ found = Batch!SplitResponse(text, mark) /\ found # Batch!Malformed
    BY DEF FoundIn
  <1>1. full \in Seq(S) /\ PartsAre(whole, <<>>, Append(texts, <<>>), Len(texts) + 1)
    <2>1. <<>> \in Seq(S) /\ HasNo(mark, <<>>)
      BY EmptySeq DEF HasNo
    <2>2. /\ full \in Seq(S)
          /\ PartsAre(Batch!SplitAt(<<>> \o full, mark), <<>>, Append(texts, <<>>), Len(texts) + 1)
      BY <2>1, SplitEnclosed
    <2>3. <<>> \o full = full
      BY <2>2, ConcatEmptySeq
    <2> QED
      BY <2>2, <2>3
  <1>2. whole \in Seq(Seq(S)) /\ Len(texts) \in Nat
    BY <1>1, SplitType, LenProperties
  <1>3. SubSeq(whole, 2, Len(whole) - 1) = texts /\ Len(whole) = Len(texts) + 2
    <2>1. SubSeq(whole, 2, Len(whole) - 1) = texts
      BY <1>1, <1>2, EmptySeq, MiddleParts
    <2> HIDE DEF whole
    <2> QED
      BY <1>1, <1>2, <2>1 DEF PartsAre
  <1>4. /\ text \in Seq(S) /\ Len(parts) <= Len(whole)
        /\ \A i \in 1..Len(parts) - 1 : whole[i] = parts[i]
    <2> HIDE DEF full
    <2> QED
      BY <1>0, <1>1, SplitTruncated DEF full
  <1>5. parts \in Seq(Seq(S)) /\ Len(parts) \in Nat
    BY <1>4, SplitType
  <1>6. Len(parts) >= 3 /\ found = SubSeq(parts, 2, Len(parts) - 1)
    <2>1. found = IF Len(parts) >= 3 THEN SubSeq(parts, 2, Len(parts) - 1) ELSE Batch!Malformed
      BY <1>0 DEF Batch!SplitResponse
    <2> QED
      BY <1>0, <2>1, Zenon
  <1> HIDE DEF parts, whole
  <1>7. \A i \in 2..Len(whole) - 1 : whole[i] \in Seq(S)
    BY <1>2, <1>3, ElementOfSeq
  <1>8. \A i \in 1..Len(texts) : texts[i] = whole[i + 1]
    <2>1. 2 \in Int /\ Len(whole) - 1 \in Int
      BY <1>2, <1>3
    <2>2. \A i \in 1..(Len(whole) - 1) - 2 + 1 :
            SubSeq(whole, 2, Len(whole) - 1)[i] = whole[2 + i - 1]
      BY <1>7, <2>1, SubSeqProperties
    <2> TAKE i \in 1..Len(texts)
    <2>3. i \in 1..(Len(whole) - 1) - 2 + 1 /\ 2 + i - 1 = i + 1
      BY <1>2, <1>3
    <2> QED
      BY <1>3, <2>2, <2>3
  <1>9. /\ found \in Seq(Seq(S))
        /\ Len(found) = Len(parts) - 2
        /\ \A i \in 1..Len(found) : found[i] = parts[i + 1]
    <2>1. 2 \in Int /\ Len(parts) - 1 \in Int /\ \A i \in 2..Len(parts) - 1 : parts[i] \in Seq(S)
      BY <1>5, ElementOfSeq
    <2>2. /\ SubSeq(parts, 2, Len(parts) - 1) \in Seq(Seq(S))
          /\ Len(SubSeq(parts, 2, Len(parts) - 1))
               = IF 2 <= Len(parts) - 1 THEN (Len(parts) - 1) - 2 + 1 ELSE 0
          /\ \A i \in 1..(Len(parts) - 1) - 2 + 1 :
               SubSeq(parts, 2, Len(parts) - 1)[i] = parts[2 + i - 1]
      BY <2>1, SubSeqProperties
    <2>3. /\ found \in Seq(Seq(S))
          /\ Len(found) = IF 2 <= Len(parts) - 1 THEN (Len(parts) - 1) - 2 + 1 ELSE 0
          /\ \A i \in 1..(Len(parts) - 1) - 2 + 1 : found[i] = parts[2 + i - 1]
      BY <1>6, <2>2, Zenon
    <2>4. Len(found) = Len(parts) - 2
      BY <1>5, <1>6, <2>3
    <2>5. ASSUME NEW i \in 1..Len(found)
          PROVE  found[i] = parts[i + 1]
      <3>1. i \in 1..(Len(parts) - 1) - 2 + 1 /\ 2 + i - 1 = i + 1
        BY <1>5, <1>6, <2>4
      <3> QED
        BY <2>3, <3>1
    <2> QED
      BY <2>3, <2>4, <2>5
  <1>10. Len(found) \in 1..Len(texts)
    <2>1. /\ Len(parts) \in Nat /\ Len(parts) >= 3 /\ Len(parts) <= Len(whole)
          /\ Len(whole) = Len(texts) + 2 /\ Len(texts) \in Nat /\ Len(found) = Len(parts) - 2
      BY <1>2, <1>3, <1>4, <1>5, <1>6, <1>9, Zenon
    <2> QED
      BY <2>1
  <1>11. ASSUME NEW i \in 1..Len(found)
         PROVE  found[i] = texts[i]
    <2>1. i + 1 \in 1..Len(parts) - 1 /\ i \in 1..Len(texts)
      BY <1>2, <1>5, <1>9, <1>10
    <2> QED
      BY <1>4, <1>8, <1>9, <2>1
  <1> QED
    BY <1>9, <1>10, <1>11

-----------------------------------------------------------------------------
(* The lines of a batch                                                    *)

SpreadLines == { <<"line", text>> : text \in {"{", "}"} }

PlainLines ==
  {Batch!Http, Batch!Multipart(Batch!Inner)}
  \cup { <<"read", k>> : k \in Keys }
  \cup { <<"write", k, i>> : k \in Keys, i \in Nat }
  \cup { <<"status", code>> : code \in {200, 400} }
  \cup SpreadLines
  \cup { <<"body", body>> : body \in Batch!Body }

InnerLines == PlainLines \cup {Batch!Delimiter(Batch!Inner), Batch!Close(Batch!Inner)}

Lines == InnerLines \cup {Batch!Delimiter(Batch!Outer), Batch!Close(Batch!Outer)}

\* Only the boundaries of a change set and of the batch are boundaries.
LEMMA NoBoundaries ==
  /\ \A line \in PlainLines : \A mark : ~Batch!IsBoundary(line, mark)
  /\ \A line \in InnerLines : ~Batch!IsBoundary(line, Batch!Outer)
  <1>1. ASSUME NEW line \in PlainLines, NEW mark
        PROVE  ~Batch!IsBoundary(line, mark)
    <2>1. line[1] \in {"type", "read", "write", "status", "line", "body"}
      <3>1. CASE line \in {Batch!Http, Batch!Multipart(Batch!Inner)}
        BY <3>1 DEF Batch!Http, Batch!Multipart
      <3>2. CASE line \in { <<"read", k>> : k \in Keys }
        BY <3>2
      <3>3. CASE line \in { <<"write", k, i>> : k \in Keys, i \in Nat }
        BY <3>3
      <3>4. CASE line \in { <<"status", code>> : code \in {200, 400} }
        <4>1. PICK code \in {200, 400} : line = <<"status", code>>
          BY <3>4
        <4> QED
          BY <4>1
      <3>5. CASE line \in SpreadLines
        <4>1. PICK text : line = <<"line", text>>
          BY <3>5, Zenon DEF SpreadLines
        <4> QED
          BY <4>1
      <3>6. CASE line \in { <<"body", body>> : body \in Batch!Body }
        BY <3>6
      <3> QED
        BY <3>1, <3>2, <3>3, <3>4, <3>5, <3>6 DEF PlainLines
    <2> QED
      BY <2>1 DEF Batch!IsBoundary
  <1>2. ASSUME NEW line \in {Batch!Delimiter(Batch!Inner), Batch!Close(Batch!Inner)}
        PROVE  ~Batch!IsBoundary(line, Batch!Outer)
    BY DEF Batch!IsBoundary, Batch!Delimiter, Batch!Close, Batch!Inner, Batch!Outer
  <1> QED
    BY <1>1, <1>2 DEF InnerLines

\* Texts without boundaries, or with the boundaries of change sets only.
LEMMA TextsWithoutBoundaries ==
  /\ \A t \in Seq(PlainLines) : \A mark : HasNo(mark, t)
  /\ \A t \in Seq(InnerLines) : HasNo(Batch!Outer, t)
  BY NoBoundaries, ElementOfSeq DEF HasNo

\* Short texts, line by line.
LEMMA ShortTexts ==
  /\ \A S : \A u, v \in S :
       <<u, v>> \in Seq(S) /\ Len(<<u, v>>) = 2 /\ <<u, v>>[1] = u /\ <<u, v>>[2] = v
  /\ \A S : \A u, v, w \in S :
       /\ <<u, v, w>> \in Seq(S) /\ Len(<<u, v, w>>) = 3
       /\ <<u, v, w>>[1] = u /\ <<u, v, w>>[2] = v /\ <<u, v, w>>[3] = w
  /\ \A S : \A u, v, w, x \in S :
       /\ <<u, v, w, x>> \in Seq(S) /\ Len(<<u, v, w, x>>) = 4
       /\ <<u, v, w, x>>[1] = u /\ <<u, v, w, x>>[2] = v /\ <<u, v, w, x>>[4] = x
  /\ \A u, v : <<u, v>> \o <<>> = <<u, v>>
  /\ \A u, v, w : <<u, v>> \o <<w>> = <<u, v, w>>
  /\ \A u, v, w, x : <<u, v>> \o <<w, x>> = <<u, v, w, x>>
  <1>1. ASSUME NEW S, NEW u \in S, NEW v \in S
        PROVE  <<u, v>> \in Seq(S) /\ Len(<<u, v>>) = 2 /\ <<u, v>>[1] = u /\ <<u, v>>[2] = v
    OBVIOUS
  <1>2. ASSUME NEW S, NEW u \in S, NEW v \in S, NEW w \in S
        PROVE  /\ <<u, v, w>> \in Seq(S) /\ Len(<<u, v, w>>) = 3
               /\ <<u, v, w>>[1] = u /\ <<u, v, w>>[2] = v /\ <<u, v, w>>[3] = w
    OBVIOUS
  <1>3. ASSUME NEW S, NEW u \in S, NEW v \in S, NEW w \in S, NEW x \in S
        PROVE  /\ <<u, v, w, x>> \in Seq(S) /\ Len(<<u, v, w, x>>) = 4
               /\ <<u, v, w, x>>[1] = u /\ <<u, v, w, x>>[2] = v /\ <<u, v, w, x>>[4] = x
    OBVIOUS
  <1>4. \A u, v : <<u, v>> \o <<>> = <<u, v>>
    OBVIOUS
  <1>5. ASSUME NEW u, NEW v, NEW w
        PROVE  <<u, v>> \o <<w>> = <<u, v, w>>
    <2> DEFINE S == {u, v, w}
               s == <<u, v>> \o <<w>>
    <2>1. <<u, v>> \in Seq(S) /\ <<w>> \in Seq(S) /\ <<u, v, w>> \in Seq(S)
      OBVIOUS
    <2>2. /\ s \in Seq(S) /\ Len(s) = Len(<<u, v>>) + Len(<<w>>)
          /\ \A i \in 1..Len(<<u, v>>) + Len(<<w>>) :
               s[i] = IF i <= Len(<<u, v>>) THEN <<u, v>>[i] ELSE <<w>>[i - Len(<<u, v>>)]
      BY <2>1, ConcatProperties
    <2> HIDE DEF s
    <2>3. Len(s) = 3 /\ s[1] = u /\ s[2] = v /\ s[3] = w
      BY <2>2
    <2>4. s = <<u, v, w>>
      <3>1. \A i \in 1..3 : i = 1 \/ i = 2 \/ i = 3
        OBVIOUS
      <3>2. Len(<<u, v, w>>) = 3 /\ \A i \in 1..3 : s[i] = <<u, v, w>>[i]
        BY <2>3, <3>1
      <3> QED
        BY <2>1, <2>2, <2>3, <3>2, SeqEqual
    <2> QED
      BY <2>4 DEF s
  <1>6. ASSUME NEW u, NEW v, NEW w, NEW x
        PROVE  <<u, v>> \o <<w, x>> = <<u, v, w, x>>
    <2> DEFINE S == {u, v, w, x}
               s == <<u, v>> \o <<w, x>>
    <2>1. <<u, v>> \in Seq(S) /\ <<w, x>> \in Seq(S) /\ <<u, v, w, x>> \in Seq(S)
      OBVIOUS
    <2>2. /\ s \in Seq(S) /\ Len(s) = Len(<<u, v>>) + Len(<<w, x>>)
          /\ \A i \in 1..Len(<<u, v>>) + Len(<<w, x>>) :
               s[i] = IF i <= Len(<<u, v>>) THEN <<u, v>>[i] ELSE <<w, x>>[i - Len(<<u, v>>)]
      BY <2>1, ConcatProperties
    <2> HIDE DEF s
    <2>3. Len(s) = 4 /\ s[1] = u /\ s[2] = v /\ s[3] = w /\ s[4] = x
      BY <2>2
    <2>4. s = <<u, v, w, x>>
      <3>1. \A i \in 1..4 : i = 1 \/ i = 2 \/ i = 3 \/ i = 4
        OBVIOUS
      <3>2. Len(<<u, v, w, x>>) = 4 /\ \A i \in 1..4 : s[i] = <<u, v, w, x>>[i]
        BY <2>3, <3>1
      <3> QED
        BY <2>1, <2>2, <2>3, <3>2, SeqEqual
    <2> QED
      BY <2>4 DEF s
  <1> QED
    BY <1>1, <1>2, <1>3, <1>4, <1>5, <1>6, Zenon

\* What a body is after it was sent and parsed: spread over lines, it is lost.
Shown(body) == IF Multiline THEN Batch!NoBody ELSE body

\* A single answer is parsed to its status and its body.
LEMMA AnswerParsed ==
  ASSUME NEW code \in {200, 400}, NEW body \in Batch!Body
  PROVE  /\ Batch!AnswerLines(code, body) \in Seq(PlainLines)
         /\ Batch!AnswerLines(code, body) # <<>>
         /\ Batch!AnswerLines(code, body)[1] = Batch!Http
         /\ Batch!ParseResponseData(Batch!AnswerLines(code, body))
              = <<"data", [httpCode |-> code, body |-> Shown(body)]>>
  <1> DEFINE part == Batch!AnswerLines(code, body)
  <1>1. /\ Batch!Http \in PlainLines /\ <<"status", code>> \in PlainLines
        /\ <<"line", "{">> \in PlainLines /\ <<"line", "}">> \in PlainLines
        /\ <<"body", body>> \in PlainLines
    BY DEF PlainLines, SpreadLines
  <1>2. /\ part \in Seq(PlainLines) /\ Len(part) \in Nat /\ Len(part) >= 2
        /\ part[1] = Batch!Http /\ part[2] = <<"status", code>>
        /\ Batch!ParseResponseBody(part) = Shown(body)
    <2>1. CASE body = Batch!NoBody
      <3>1. part = <<Batch!Http, <<"status", code>>>>
        <4>1. <<Batch!Http, <<"status", code>>>> \o <<>>
                = <<Batch!Http, <<"status", code>>>>
          BY ShortTexts, Zenon
        <4> QED
          BY <2>1, <4>1, Zenon DEF Batch!AnswerLines
      <3> HIDE DEF part
      <3>2. part \in Seq(PlainLines) /\ Len(part) = 2 /\ part[1] = Batch!Http /\ part[2] = <<"status", code>>
            /\ part[2] = <<"status", code>>
        BY <1>1, <3>1, ShortTexts, Zenon
      <3>3. Batch!ParseResponseBody(part) = Batch!NoBody
        <4>1. part[Len(part)] = <<"status", code>>
          BY <3>2
        <4>2. <<"status", code>>[1] = "status" /\ "status" # "body"
          OBVIOUS
        <4> QED
          BY <4>1, <4>2 DEF Batch!ParseResponseBody
      <3>4. Len(part) \in Nat /\ Len(part) >= 2
        BY <3>2
      <3> QED
        BY <2>1, <3>2, <3>3, <3>4, Zenon DEF Shown
    <2>2. CASE body # Batch!NoBody /\ Multiline
      <3>1. PICK opening, closing :
              /\ <<"line", opening>> \in PlainLines /\ <<"line", closing>> \in PlainLines
              /\ part = <<Batch!Http, <<"status", code>>>> \o
                        <<<<"line", opening>>, <<"line", closing>>>>
        BY <1>1, <2>2, Zenon DEF Batch!AnswerLines
      <3>2. part = <<Batch!Http, <<"status", code>>, <<"line", opening>>, <<"line", closing>>>>
        <4>1. \A u, v, w, x : <<u, v>> \o <<w, x>> = <<u, v, w, x>>
          BY ShortTexts
        <4> HIDE DEF part
        <4> QED
          BY <3>1, <4>1
      <3> HIDE DEF part
      <3>3. /\ part \in Seq(PlainLines) /\ Len(part) = 4
            /\ part[1] = Batch!Http /\ part[2] = <<"status", code>>
            /\ part[4] = <<"line", closing>>
        <4>1. \A u, v, w, x \in PlainLines :
                /\ <<u, v, w, x>> \in Seq(PlainLines) /\ Len(<<u, v, w, x>>) = 4
                /\ <<u, v, w, x>>[1] = u /\ <<u, v, w, x>>[2] = v /\ <<u, v, w, x>>[4] = x
          BY ShortTexts
        <4>2. Batch!Http \in PlainLines /\ <<"status", code>> \in PlainLines
          BY <1>1, Zenon
        <4> DEFINE l == <<"line", opening>>
                   m == <<"line", closing>>
                   n == <<"status", code>>
        <4>3. l \in PlainLines /\ m \in PlainLines /\ n \in PlainLines
          BY <3>1, <4>2, Zenon
        <4> HIDE DEF l, m, n
        <4>4. /\ <<Batch!Http, n, l, m>> \in Seq(PlainLines) /\ Len(<<Batch!Http, n, l, m>>) = 4
              /\ <<Batch!Http, n, l, m>>[1] = Batch!Http /\ <<Batch!Http, n, l, m>>[2] = n
              /\ <<Batch!Http, n, l, m>>[4] = m
          BY <4>1, <4>2, <4>3
        <4> QED
          BY <3>2, <4>4, Zenon DEF l, m, n
      <3>4. Batch!ParseResponseBody(part) = Batch!NoBody
        <4>1. part[Len(part)] = <<"line", closing>>
          BY <3>3
        <4>2. part[Len(part)][1] = "line" /\ "line" # "body"
          BY <4>1
        <4> QED
          BY <4>2 DEF Batch!ParseResponseBody
      <3>5. Len(part) \in Nat /\ Len(part) >= 2
        BY <3>3
      <3> QED
        BY <2>2, <3>3, <3>4, <3>5, Zenon DEF Shown
    <2>3. CASE body # Batch!NoBody /\ ~Multiline
      <3>1. part = <<Batch!Http, <<"status", code>>, <<"body", body>>>>
        <4>1. <<Batch!Http, <<"status", code>>>> \o <<<<"body", body>>>>
                = <<Batch!Http, <<"status", code>>, <<"body", body>>>>
          BY ShortTexts, Zenon
        <4> QED
          BY <2>3, <4>1, Zenon DEF Batch!AnswerLines
      <3> HIDE DEF part
      <3>2. part \in Seq(PlainLines) /\ Len(part) = 3 /\ part[1] = Batch!Http /\ part[2] = <<"status", code>>
            /\ part[3] = <<"body", body>>
        BY <1>1, <3>1, ShortTexts, Zenon
      <3>3. Batch!ParseResponseBody(part) = body
        <4>1. part[Len(part)] = <<"body", body>>
          BY <3>2
        <4>2. <<"body", body>>[1] = "body" /\ "body" = "body" /\ <<"body", body>>[2] = body
          OBVIOUS
        <4> QED
          BY <4>1, <4>2 DEF Batch!ParseResponseBody
      <3>4. Len(part) \in Nat /\ Len(part) >= 2
        BY <3>2
      <3> QED
        BY <2>3, <3>2, <3>3, <3>4, Zenon DEF Shown
    <2> QED
      BY <2>1, <2>2, <2>3
  <1> HIDE DEF part
  <1>3. part[1][1] = "type" /\ part[2][1] = "status" /\ part[2][2] = code
    BY <1>2 DEF Batch!Http
  <1>4. Batch!HasStatus(part)
    BY <1>2, <1>3 DEF Batch!HasStatus
  <1>5. Batch!ParseHttpCode(part) = code
    <2> DEFINE First(i) == part[i][1] = "status" /\ \A j \in 1..i - 1 : part[j][1] # "status"
    <2>1. 2 \in 1..Len(part) /\ First(2)
      <3>1. \A j \in 1..2 - 1 : j = 1
        OBVIOUS
      <3> QED
        BY <1>2, <1>3, <3>1
    <2>2. \A i \in 1..Len(part) : First(i) => i = 2
      <3>1. ASSUME NEW i \in 1..Len(part), First(i), i # 2
            PROVE  FALSE
        <4>1. CASE i = 1
          BY <1>3, <3>1, <4>1
        <4>2. CASE i # 1
          <5>1. 2 \in 1..i - 1
            BY <1>2, <3>1, <4>2
          <5> QED
            BY <1>3, <3>1, <5>1
        <4> QED
          BY <4>1, <4>2
      <3> QED
        BY <3>1
    <2> HIDE DEF First
    <2>3. (CHOOSE i \in 1..Len(part) : First(i)) = 2
      BY <2>1, <2>2
    <2> QED
      BY <1>3, <2>3 DEF Batch!ParseHttpCode, First
  <1>6. part # <<>>
    BY <1>2, EmptySeq
  <1>7. Batch!ParseResponseData(part) = <<"data", [httpCode |-> code, body |-> Shown(body)]>>
    BY <1>2, <1>4, <1>5 DEF Batch!ParseResponseData
  <1> QED
    BY <1>2, <1>6, <1>7 DEF part

\* A change set and the answer to it: its texts are found again, and the batch
\* finds no boundary of its own in it.
LEMMA InnerText ==
  ASSUME NEW texts \in Seq(Seq(PlainLines)), texts # <<>>,
         NEW text, text = <<Batch!Multipart(Batch!Inner)>> \o Batch!Enclose(texts, Batch!Inner)
  PROVE  /\ text \in Seq(InnerLines) /\ text # <<>>
         /\ text[1] = Batch!Multipart(Batch!Inner)
         /\ Batch!SplitResponse(text, Batch!Inner) = texts
         /\ Len(Batch!SplitAt(text, Batch!Inner)) = Len(texts) + 2
         /\ \A j \in 1..Len(texts) : Batch!SplitAt(text, Batch!Inner)[j + 1] = texts[j]
  <1> DEFINE head == <<Batch!Multipart(Batch!Inner)>>
             E == Batch!Enclose(texts, Batch!Inner)
             parts == Batch!SplitAt(text, Batch!Inner)
  <1>1. PlainLines \subseteq InnerLines
    BY DEF InnerLines
  <1>2. texts \in Seq(Seq(InnerLines))
    <2>1. \A t \in Seq(PlainLines) : t \in Seq(InnerLines)
      BY <1>1, SeqMonotonic
    <2>2. Seq(PlainLines) \subseteq Seq(InnerLines)
      BY <2>1
    <2> QED
      BY <2>2, SeqMonotonic
  <1>3. head \in Seq(PlainLines) /\ head \in Seq(InnerLines)
    <2>1. Batch!Multipart(Batch!Inner) \in PlainLines
      BY DEF PlainLines
    <2> QED
      BY <1>1, <2>1
  <1>4. HasNo(Batch!Inner, head) /\ \A i \in 1..Len(texts) : HasNo(Batch!Inner, texts[i])
    <2>1. \A i \in 1..Len(texts) : texts[i] \in Seq(PlainLines)
      BY ElementOfSeq
    <2> QED
      BY <1>3, <2>1, TextsWithoutBoundaries
  <1>5. Batch!Delimiter(Batch!Inner) \in InnerLines /\ Batch!Close(Batch!Inner) \in InnerLines
    BY DEF InnerLines
  <1>6. /\ E \in Seq(InnerLines) /\ text \in Seq(InnerLines)
        /\ PartsAre(parts, head, Append(texts, <<>>), Len(texts) + 1)
    BY <1>2, <1>3, <1>4, <1>5, SplitEnclosed
  <1>7. Batch!SplitResponse(text, Batch!Inner) = texts
    BY <1>2, <1>3, <1>4, <1>5, WholeResponse
  <1>8. text[1] = Batch!Multipart(Batch!Inner) /\ text # <<>>
    <2> HIDE DEF E
    <2> DEFINE m == Batch!Multipart(Batch!Inner)
    <2>1. Len(head) = 1 /\ head[1] = m
      OBVIOUS
    <2> HIDE DEF head, m
    <2>2. /\ Len(text) = Len(head) + Len(E)
          /\ \A i \in 1..Len(head) + Len(E) :
               text[i] = IF i <= Len(head) THEN head[i] ELSE E[i - Len(head)]
      <3>1. /\ Len(head \o E) = Len(head) + Len(E)
            /\ \A i \in 1..Len(head) + Len(E) :
                 (head \o E)[i] = IF i <= Len(head) THEN head[i] ELSE E[i - Len(head)]
        BY <1>3, <1>6, ConcatProperties
      <3>2. text = head \o E
        BY DEF head, E
      <3> QED
        BY <3>1, <3>2
    <2>3. Len(E) \in Nat
      BY <1>6, LenProperties
    <2>4. Len(text) # 0 /\ text[1] = m
      BY <2>1, <2>2, <2>3
    <2>5. text # <<>>
      BY <2>4
    <2> QED
      BY <2>4, <2>5 DEF m
  <1>9. Len(parts) = Len(texts) + 2 /\ \A j \in 1..Len(texts) : parts[j + 1] = texts[j]
    <2>1. Len(texts) \in Nat
      BY LenProperties
    <2>2. \A j \in 1..Len(texts) : j \in 1..Len(texts) + 1 /\ Append(texts, <<>>)[j] = texts[j]
      BY <2>1, EmptySeq, AppendProperties
    <2> HIDE DEF parts
    <2> QED
      BY <1>6, <2>1, <2>2 DEF PartsAre
  <1> QED
    BY <1>6, <1>7, <1>8, <1>9

\* What a subrequest of a batch is.
LEMMA RequestTypes ==
  ASSUME requests \in Batches, NEW i \in 1..Len(requests)
  PROVE  \/ requests[i].kind = "get" /\ requests[i].key \in Keys
         \/ requests[i].kind = "changeSet" /\ requests[i].writes \in Seq(Keys)
  <1> DEFINE S == [kind : {"get"}, key : Keys] \cup [kind : {"changeSet"}, writes : Seq(Keys)]
  <1>1. requests \in Seq(S)
    BY BatchConstants DEF Batch!BatchAssumption
  <1>2. requests[i] \in S
    BY <1>1, ElementOfSeq
  <1> QED
    BY <1>2

\* What a subrequest becomes, and what the service makes of it.
LEMMA SerializedText ==
  ASSUME requests \in Batches, NEW i \in 1..Len(requests), Batch!Serialized(i) # <<>>
  PROVE  /\ Batch!Serialized(i) \in Seq(InnerLines)
         /\ \/ /\ requests[i].kind = "get" /\ requests[i].key \in Keys
               /\ Batch!IsRead(Batch!Serialized(i))
               /\ Batch!Key(Batch!Serialized(i)) = requests[i].key
            \/ /\ requests[i].kind = "changeSet"
               /\ requests[i].writes \in Seq(Keys) /\ requests[i].writes # <<>>
               /\ ~Batch!IsRead(Batch!Serialized(i))
               /\ Batch!WritesOf(Batch!Serialized(i))
                    = [j \in 1..Len(requests[i].writes) |-> <<"write", requests[i].writes[j], i>>]
  <1>1. PlainLines \subseteq InnerLines /\ Batch!Http \in PlainLines
    BY DEF InnerLines, PlainLines
  <1>2. \A line \in PlainLines : /\ Batch!SerializeRequest(line) \in Seq(PlainLines)
                                 /\ Batch!SerializeRequest(line) \in Seq(InnerLines)
                                 /\ Batch!SerializeRequest(line)[1] = Batch!Http
                                 /\ Batch!SerializeRequest(line)[2] = line
    <2> TAKE line \in PlainLines
    <2>1. Batch!SerializeRequest(line) = <<Batch!Http, line>>
      BY DEF Batch!SerializeRequest
    <2> QED
      BY <1>1, <2>1
  <1>3. CASE requests[i].kind = "get"
    <2> DEFINE line == <<"read", requests[i].key>>
    <2>1. requests[i].key \in Keys
      BY <1>3, RequestTypes
    <2>2. line \in PlainLines /\ line[2] = requests[i].key
      BY <2>1 DEF PlainLines
    <2>3. Batch!Serialized(i) = Batch!SerializeRequest(line)
      BY <1>3 DEF Batch!Serialized
    <2> HIDE DEF line
    <2> QED
      BY <1>2, <1>3, <2>1, <2>2, <2>3 DEF Batch!IsRead, Batch!Key
  <1>4. CASE requests[i].kind = "changeSet"
    <2> DEFINE writes == requests[i].writes
               line(j) == <<"write", writes[j], i>>
               texts == [j \in 1..Len(writes) |-> Batch!SerializeRequest(line(j))]
    <2>1. writes \in Seq(Keys) /\ writes # <<>> /\ Len(writes) \in Nat \ {0}
      <3>1. writes \in Seq(Keys)
        BY <1>4, RequestTypes
      <3>2. writes # <<>>
        BY <1>4 DEF Batch!Serialized
      <3> QED
        BY <3>1, <3>2, EmptySeq
    <2>2. Len(requests) \in Nat /\ i \in Nat
      <3>1. Len(requests) \in Nat
        BY BatchConstants, LenProperties DEF Batch!BatchAssumption
      <3> QED
        BY <3>1
    <2>3. Batch!Serialized(i)
            = <<Batch!Multipart(Batch!Inner)>> \o Batch!Enclose(texts, Batch!Inner)
      BY <1>4, <2>1 DEF Batch!Serialized, Batch!SerializeChangeSet
    <2>4. \A j \in 1..Len(writes) : line(j) \in PlainLines
      <3> TAKE j \in 1..Len(writes)
      <3>1. writes[j] \in Keys
        BY <2>1, ElementOfSeq
      <3> QED
        BY <2>2, <3>1 DEF PlainLines
    <2> HIDE DEF writes, line
    <2>5. /\ texts \in Seq(Seq(PlainLines)) /\ Len(texts) = Len(writes) /\ texts # <<>>
          /\ \A j \in 1..Len(texts) : texts[j][2] = line(j)
      <3>1. \A j \in 1..Len(writes) : /\ Batch!SerializeRequest(line(j)) \in Seq(PlainLines)
                                      /\ Batch!SerializeRequest(line(j))[2] = line(j)
        BY <1>2, <2>4
      <3>2. texts \in Seq(Seq(PlainLines)) /\ Len(texts) = Len(writes)
        BY <2>1, <3>1
      <3>3. \A j \in 1..Len(texts) : texts[j][2] = line(j)
        BY <3>1, <3>2
      <3> HIDE DEF texts
      <3>4. texts # <<>>
        BY <2>1, <3>2
      <3> QED
        BY <3>2, <3>3, <3>4
    <2> HIDE DEF texts
    <2> DEFINE text == Batch!Serialized(i)
               parts == Batch!SplitAt(text, Batch!Inner)
    <2>6. /\ text \in Seq(InnerLines) /\ text[1] = Batch!Multipart(Batch!Inner)
          /\ Len(parts) = Len(texts) + 2
          /\ \A j \in 1..Len(texts) : parts[j + 1] = texts[j]
      BY <2>3, <2>5, InnerText
    <2>7. ~Batch!IsRead(text)
      <3>1. Batch!Multipart(Batch!Inner) # Batch!Http
        BY DEF Batch!Multipart, Batch!Http
      <3> HIDE DEF text
      <3> QED
        BY <2>6, <3>1 DEF Batch!IsRead
    <2>8. Batch!WritesOf(text) = [j \in 1..Len(parts) - 2 |-> parts[j + 1][2]]
      BY DEF Batch!WritesOf
    <2> HIDE DEF parts
    <2>9. Batch!WritesOf(text) = [j \in 1..Len(writes) |-> line(j)]
      <3>1. Len(parts) - 2 = Len(writes)
        BY <2>1, <2>5, <2>6
      <3>2. \A j \in 1..Len(writes) : parts[j + 1][2] = line(j)
        BY <2>5, <2>6
      <3> HIDE DEF text
      <3> QED
        BY <2>8, <3>1, <3>2
    <2> QED
      BY <1>4, <2>1, <2>6, <2>7, <2>9 DEF writes, line
  <1> QED
    BY <1>3, <1>4, RequestTypes

\* The positions that are sent are those of requests that become something.
LEMMA SentPositions ==
  ASSUME requests \in Batches
  PROVE  Batch!Sent \in Seq({ i \in 1..Len(requests) : Batch!Serialized(i) # <<>> })
  <1> DEFINE S == { i \in 1..Len(requests) : Batch!Serialized(i) # <<>> }
             last == Len(requests)
             step == [n \in 1..last |-> [sent \in Seq(S) |->
                        IF Batch!Serialized(n) # <<>> THEN Append(sent, n) ELSE sent]]
             IsSentOf(g) == g = [n \in 0..Len(requests) |->
                              IF n = 0 THEN <<>>
                              ELSE IF Batch!Serialized(n) # <<>> THEN Append(g[n - 1], n)
                              ELSE g[n - 1]]
  <1>1. last \in Nat
    BY BatchConstants, LenProperties DEF Batch!BatchAssumption
  <1>2. step \in [1..last -> [Seq(S) -> Seq(S)]]
    <2>1. ASSUME NEW n \in 1..last, NEW sent \in Seq(S)
          PROVE  (IF Batch!Serialized(n) # <<>> THEN Append(sent, n) ELSE sent) \in Seq(S)
      <3>1. CASE Batch!Serialized(n) # <<>>
        <4>1. n \in S
          BY <3>1
        <4> HIDE DEF S
        <4> QED
          BY <3>1, <4>1, AppendProperties
      <3>2. CASE Batch!Serialized(n) = <<>>
        BY <3>2
      <3> QED
        BY <3>1, <3>2
    <2> HIDE DEF S
    <2> QED
      BY <2>1
  <1>3. PICK f : /\ f \in [0..last -> Seq(S)]
                 /\ f[0] = <<>>
                 /\ \A n \in 1..last : f[n] = step[n][f[n - 1]]
    <2> HIDE DEF step, last, S
    <2>1. \E f : Stepwise(f, Seq(S), last, <<>>, step)
      BY <1>1, <1>2, StepByStep, EmptySeq
    <2> QED
      BY <2>1 DEF Stepwise
  <1>4. IsSentOf(f)
    <2>1. ASSUME NEW n \in 0..last
          PROVE  f[n] = IF n = 0 THEN <<>>
                        ELSE IF Batch!Serialized(n) # <<>> THEN Append(f[n - 1], n) ELSE f[n - 1]
      <3>1. CASE n = 0
        BY <1>3, <3>1
      <3>2. CASE n # 0
        <4>1. n \in 1..last /\ n - 1 \in 0..last
          BY <1>1, <3>2
        <4>2. f[n - 1] \in Seq(S) /\ f[n] = step[n][f[n - 1]]
          <5> HIDE DEF step, S, last
          <5> QED
            BY <1>3, <4>1
        <4>3. \A sent \in Seq(S) : step[n][sent]
                = IF Batch!Serialized(n) # <<>> THEN Append(sent, n) ELSE sent
          <5> HIDE DEF S
          <5> QED
            BY <4>1
        <4> HIDE DEF step, S
        <4> QED
          BY <3>2, <4>2, <4>3
      <3> QED
        BY <3>1, <3>2
    <2>2. f = [n \in 0..last |-> f[n]]
      BY <1>3
    <2> QED
      BY <2>1, <2>2
  <1>5. Batch!SentOf = CHOOSE g : IsSentOf(g)
    BY DEF Batch!SentOf
  <1>6. IsSentOf(Batch!SentOf)
    BY <1>4, <1>5
  <1> DEFINE h == Batch!SentOf
             T == { n \in Nat : n <= last => h[n] \in Seq(S) }
  <1>7. \A n \in 0..last : h[n] = IF n = 0 THEN <<>>
                                  ELSE IF Batch!Serialized(n) # <<>> THEN Append(h[n - 1], n)
                                  ELSE h[n - 1]
    BY <1>6
  <1> HIDE DEF h
  <1>8. 0 \in T
    <2>1. 0 \in 0..last
      BY <1>1
    <2> HIDE DEF S, last
    <2>2. h[0] = <<>>
      BY <1>7, <2>1
    <2> QED
      BY <2>2, EmptySeq
  <1>9. ASSUME NEW n \in Nat, n \in T
        PROVE  n + 1 \in T
    <2> SUFFICES ASSUME n + 1 <= last PROVE h[n + 1] \in Seq(S)
      OBVIOUS
    <2>1. n + 1 \in 1..last /\ n + 1 \in 0..last /\ n + 1 # 0 /\ (n + 1) - 1 = n /\ h[n] \in Seq(S)
      BY <1>1, <1>9
    <2>2. h[n + 1] = IF Batch!Serialized(n + 1) # <<>> THEN Append(h[n], n + 1) ELSE h[n]
      BY <1>7, <2>1
    <2>3. CASE Batch!Serialized(n + 1) # <<>>
      <3>1. n + 1 \in S
        BY <2>1, <2>3
      <3> HIDE DEF S
      <3> QED
        BY <2>1, <2>2, <2>3, <3>1, AppendProperties
    <2>4. CASE Batch!Serialized(n + 1) = <<>>
      BY <2>1, <2>2, <2>4
    <2> QED
      BY <2>3, <2>4
  <1>10. last \in T
    <2> HIDE DEF T
    <2> QED
      BY <1>1, <1>8, <1>9, NumberInduction
  <1> QED
    BY <1>1, <1>10 DEF Batch!Sent, h

\* The positions and texts of the parts that are sent.
LEMMA SentTexts ==
  ASSUME requests \in Batches
  PROVE  /\ Len(Batch!Sent) \in Nat
         /\ \A n \in 1..Len(Batch!Sent) : /\ Batch!Sent[n] \in 1..Len(requests)
                                          /\ Batch!Sent[n] \in Nat
                                          /\ Batch!Serialized(Batch!Sent[n]) # <<>>
  <1> DEFINE S == { i \in 1..Len(requests) : Batch!Serialized(i) # <<>> }
  <1>1. Batch!Sent \in Seq(S)
    BY SentPositions
  <1>2. \A n \in 1..Len(Batch!Sent) : Batch!Sent[n] \in S
    <2> HIDE DEF S
    <2> QED
      BY <1>1, ElementOfSeq
  <1>3. Len(Batch!Sent) \in Nat
    <2> HIDE DEF S
    <2> QED
      BY <1>1, LenProperties
  <1>4. Len(requests) \in Nat
    BY BatchConstants, LenProperties DEF Batch!BatchAssumption
  <1> QED
    BY <1>2, <1>3, <1>4

\* The texts of a batch: the parts of a request, or the answers.
LEMMA OuterText ==
  ASSUME NEW texts \in Seq(Seq(InnerLines)), texts # <<>>
  PROVE  /\ Batch!Enclose(texts, Batch!Outer) \in Seq(Lines)
         /\ Batch!Enclose(texts, Batch!Outer) # <<>>
         /\ LET parts == Batch!SplitAt(Batch!Enclose(texts, Batch!Outer), Batch!Outer)
            IN SubSeq(parts, 2, Len(parts) - 1) = texts
         /\ texts \in Seq(Seq(Lines))
         /\ \A i \in 1..Len(texts) : HasNo(Batch!Outer, texts[i])
         /\ Batch!Delimiter(Batch!Outer) \in Lines /\ Batch!Close(Batch!Outer) \in Lines
  <1> DEFINE E == Batch!Enclose(texts, Batch!Outer)
             parts == Batch!SplitAt(E, Batch!Outer)
  <1>1. texts \in Seq(Seq(Lines))
    <2>1. \A t \in Seq(InnerLines) : t \in Seq(Lines)
      BY SeqMonotonic DEF Lines
    <2>2. Seq(InnerLines) \subseteq Seq(Lines)
      BY <2>1
    <2> QED
      BY <2>2, SeqMonotonic
  <1>2. \A i \in 1..Len(texts) : HasNo(Batch!Outer, texts[i])
    BY ElementOfSeq, TextsWithoutBoundaries
  <1>3. Batch!Delimiter(Batch!Outer) \in Lines /\ Batch!Close(Batch!Outer) \in Lines
    BY DEF Lines
  <1>4. <<>> \in Seq(Lines) /\ \A mark : HasNo(mark, <<>>)
    BY EmptySeq DEF HasNo
  <1>5. /\ E \in Seq(Lines)
        /\ PartsAre(Batch!SplitAt(<<>> \o E, Batch!Outer), <<>>, Append(texts, <<>>), Len(texts) + 1)
    BY <1>1, <1>2, <1>3, <1>4, SplitEnclosed
  <1>6. <<>> \o E = E
    BY <1>5, ConcatEmptySeq
  <1>7. PartsAre(parts, <<>>, Append(texts, <<>>), Len(texts) + 1)
    BY <1>5, <1>6
  <1>8. parts \in Seq(Seq(Lines))
    BY <1>5, SplitType
  <1>9. SubSeq(parts, 2, Len(parts) - 1) = texts
    BY <1>1, <1>4, <1>7, <1>8, MiddleParts
  <1>10. E # <<>>
    <2>1. Len(Batch!SplitAt(<<>>, Batch!Outer)) = 1
      BY <1>4, SplitNothing
    <2>2. Len(texts) \in Nat /\ Len(parts) = Len(texts) + 1 + 1 /\ Len(texts) # 0
      BY <1>7, EmptySeq DEF PartsAre
    <2> HIDE DEF E, parts
    <2>3. E = <<>> => Len(parts) = 1
      BY <2>1 DEF parts
    <2> QED
      BY <2>2, <2>3
  <1> QED
    BY <1>1, <1>2, <1>3, <1>5, <1>9, <1>10

\* The service receives the parts that were sent, in their order.
LEMMA ReceivedParts ==
  ASSUME requests \in Batches, payload = Batch!SerializeBatchRequest
  PROVE  Batch!Received = [n \in 1..Len(Batch!Sent) |-> Batch!Serialized(Batch!Sent[n])]
  <1> DEFINE texts == [n \in 1..Len(Batch!Sent) |-> Batch!Serialized(Batch!Sent[n])]
  <1>1. texts \in Seq(Seq(InnerLines)) /\ Len(texts) = Len(Batch!Sent) /\ Len(Batch!Sent) \in Nat
    <2>1. \A n \in 1..Len(Batch!Sent) : Batch!Serialized(Batch!Sent[n]) \in Seq(InnerLines)
      BY SentTexts, SerializedText
    <2>2. Len(Batch!Sent) \in Nat
      BY SentTexts
    <2> QED
      BY <2>1, <2>2
  <1>2. CASE Batch!Sent = <<>>
    <2>1. payload = <<>> /\ Batch!Received = <<>>
      BY <1>2 DEF Batch!SerializeBatchRequest, Batch!Received
    <2>2. texts = <<>>
      BY <1>2, EmptySeq
    <2> QED
      BY <2>1, <2>2
  <1>3. CASE Batch!Sent # <<>>
    <2>1. payload = Batch!Enclose(texts, Batch!Outer)
      BY <1>3 DEF Batch!SerializeBatchRequest
    <2>2. texts # <<>>
      <3>1. Len(Batch!Sent) # 0
        BY <1>3, SentPositions, EmptySeq
      <3> HIDE DEF texts
      <3> QED
        BY <1>1, <3>1
    <2> HIDE DEF texts
    <2>3. payload # <<>> /\ LET parts == Batch!SplitAt(payload, Batch!Outer)
                            IN SubSeq(parts, 2, Len(parts) - 1) = texts
      BY <1>1, <2>1, <2>2, OuterText
    <2>4. Batch!Received = texts
      BY <2>3 DEF Batch!Received
    <2> QED
      BY <2>4 DEF texts
  <1> QED
    BY <1>2, <1>3

-----------------------------------------------------------------------------
(* Answers                                                                 *)

\* What the service noted of subrequest i.
EntryOf(entry, i) ==
  /\ entry.part = Batch!Serialized(i)
  /\ entry.ok \in BOOLEAN
  /\ entry.ok /\ requests[i].kind = "get" =>
       /\ entry.bodies[1] \in Batch!Body
       /\ entry.bodies[1].key = requests[i].key
  /\ entry.ok /\ requests[i].kind = "changeSet" =>
       /\ entry.bodies \in Seq(Batch!Body)
       /\ Len(entry.bodies) = Len(requests[i].writes)
       /\ \A k \in Keys :
            (\E j \in 1..Len(requests[i].writes) : requests[i].writes[j] = k)
              <=> (\E j \in 1..Len(requests[i].writes) : entry.bodies[j].key = k)

\* What the client makes of the answer to subrequest i.
MatchesEntry(r, entry, i) ==
  /\ ~entry.ok => r.type = "ErrorResponse" /\ r.httpCode = 400
  /\ entry.ok /\ requests[i].kind = "get" =>
       /\ r.type = "ReadResponse" /\ r.body = Shown(entry.bodies[1])
       /\ r.entity \in Keys \cup {Undefined}
  /\ entry.ok /\ requests[i].kind = "changeSet" =>
       /\ r.type = "WriteResponses" /\ Len(r.responses) = Len(entry.bodies)
       /\ \A j \in 1..Len(entry.bodies) : r.responses[j].body = Shown(entry.bodies[j])

\* Bodies are bodies before and after they were sent.
LEMMA ShownBodies ==
  /\ Batch!NoBody \in Batch!Body
  /\ \A body \in Batch!Body : Shown(body) \in Batch!Body
  <1>1. Batch!NoBody \in Batch!Body
    BY DEF Batch!NoBody, Batch!Body, Batch!Values, Batch!Initial
  <1> QED
    BY <1>1, Zenon DEF Shown

\* A single answer is parsed by itself.
LEMMA SingleAnswer ==
  ASSUME NEW code \in {200, 400}, NEW body \in Batch!Body
  PROVE  Batch!ParsePart(Batch!AnswerLines(code, body))
           = <<"data", [httpCode |-> code, body |-> Shown(body)]>>
  <1> DEFINE part == Batch!AnswerLines(code, body)
  <1>1. /\ part # <<>> /\ part[1] = Batch!Http
        /\ Batch!ParseResponseData(part) = <<"data", [httpCode |-> code, body |-> Shown(body)]>>
    BY AnswerParsed
  <1>2. part[1][2] # "multipart/mixed"
    <2> HIDE DEF part
    <2> QED
      BY <1>1 DEF Batch!Http
  <1> HIDE DEF part
  <1>3. Batch!ParsePart(part) = Batch!ParseResponseData(part)
    BY <1>1, <1>2, Zenon DEF Batch!ParsePart
  <1> QED
    BY <1>1, <1>3, Zenon DEF part

\* The answer to subrequest i, parsed, is what the service noted of it.
LEMMA AnswerText ==
  ASSUME requests \in Batches, NEW i \in 1..Len(requests), Batch!Serialized(i) # <<>>,
         NEW entry, EntryOf(entry, i)
  PROVE  /\ Batch!Answer(entry) \in Seq(InnerLines)
         /\ Batch!ParsePart(Batch!Answer(entry)) # Batch!Malformed =>
              MatchesEntry(Batch!Deserialize(Batch!ParsePart(Batch!Answer(entry))), entry, i)
  <1>1. Seq(PlainLines) \subseteq Seq(InnerLines)
    <2>1. PlainLines \subseteq InnerLines
      BY DEF InnerLines
    <2> QED
      BY <2>1, SeqMonotonic
  <1>2. CASE ~entry.ok
    <2> DEFINE p == Batch!ParsePart(Batch!Answer(entry))
    <2>1. Batch!Answer(entry) = Batch!AnswerLines(400, Batch!NoBody)
      BY <1>2, Zenon DEF Batch!Answer
    <2>2. /\ p = <<"data", [httpCode |-> 400, body |-> Shown(Batch!NoBody)]>>
          /\ Batch!AnswerLines(400, Batch!NoBody) \in Seq(PlainLines)
      BY <2>1, ShownBodies, AnswerParsed, SingleAnswer
    <2> HIDE DEF p
    <2>3. p[1] # "list" /\ p[2].httpCode = 400 /\ ~Batch!IsHttpSuccessCode(400)
      BY <2>2 DEF Batch!IsHttpSuccessCode
    <2>4. Batch!Deserialize(p) = [type |-> "ErrorResponse", httpCode |-> 400]
      BY <2>3 DEF Batch!Deserialize
    <2>5. MatchesEntry(Batch!Deserialize(p), entry, i)
      BY <1>2, <2>4 DEF MatchesEntry
    <2> QED
      BY <1>1, <2>1, <2>2, <2>5 DEF p
  <1>3. CASE entry.ok /\ requests[i].kind = "get"
    <2> DEFINE p == Batch!ParsePart(Batch!Answer(entry))
               body == entry.bodies[1]
    <2>1. body \in Batch!Body
      BY <1>3 DEF EntryOf
    <2>2. Batch!IsRead(entry.part)
      BY <1>3, SerializedText DEF EntryOf
    <2>3. Batch!Answer(entry) = Batch!AnswerLines(200, body)
      BY <1>3, <2>2, Zenon DEF Batch!Answer
    <2>4. /\ p = <<"data", [httpCode |-> 200, body |-> Shown(body)]>>
          /\ Batch!AnswerLines(200, body) \in Seq(PlainLines)
      BY <2>1, <2>3, AnswerParsed, SingleAnswer
    <2>5. Shown(body) \in Batch!Body
      BY <2>1, ShownBodies
    <2> HIDE DEF p, body
    <2>6. p[1] # "list" /\ p[2].httpCode = 200 /\ Batch!IsHttpSuccessCode(200) /\ p[2].body = Shown(body)
      BY <2>4 DEF Batch!IsHttpSuccessCode
    <2>7. Batch!Deserialize(p)
            = [type |-> "ReadResponse", body |-> Shown(body), entity |-> Batch!GetApi(Shown(body))]
      BY <2>6 DEF Batch!Deserialize
    <2>8. Batch!GetApi(Shown(body)) \in Keys \cup {Undefined}
      <3>1. Shown(body).key \in Keys \cup {Undefined}
        BY <2>5 DEF Batch!Body
      <3> QED
        BY <3>1, Zenon DEF Batch!GetApi
    <2>9. MatchesEntry(Batch!Deserialize(p), entry, i)
      BY <1>3, <2>7, <2>8 DEF MatchesEntry, body
    <2> QED
      BY <1>1, <2>3, <2>4, <2>9 DEF p
  <1>4. CASE entry.ok /\ requests[i].kind = "changeSet"
    <2> DEFINE bodies == entry.bodies
               texts == [j \in 1..Len(bodies) |-> Batch!AnswerLines(200, bodies[j])]
               text == Batch!Answer(entry)
    <2>1. bodies \in Seq(Batch!Body) /\ Len(bodies) \in Nat \ {0}
      <3>1. requests[i].writes \in Seq(Keys) /\ requests[i].writes # <<>>
        BY <1>4, SerializedText
      <3> QED
        BY <1>4, <3>1, EmptySeq DEF EntryOf
    <2>2. ~Batch!IsRead(entry.part)
      BY <1>4, SerializedText DEF EntryOf
    <2>3. text = <<Batch!Multipart(Batch!Inner)>> \o Batch!Enclose(texts, Batch!Inner)
      BY <1>4, <2>2, Zenon DEF Batch!Answer
    <2> HIDE DEF bodies
    <2>4. /\ texts \in Seq(Seq(PlainLines)) /\ Len(texts) = Len(bodies)
          /\ \A j \in 1..Len(bodies) : Batch!ParseResponseData(texts[j])
               = <<"data", [httpCode |-> 200, body |-> Shown(bodies[j])]>>
      <3>1. \A j \in 1..Len(bodies) :
              /\ Batch!AnswerLines(200, bodies[j]) \in Seq(PlainLines)
              /\ Batch!ParseResponseData(Batch!AnswerLines(200, bodies[j]))
                   = <<"data", [httpCode |-> 200, body |-> Shown(bodies[j])]>>
        <4> TAKE j \in 1..Len(bodies)
        <4>1. bodies[j] \in Batch!Body
          BY <2>1, ElementOfSeq
        <4> QED
          BY <4>1, AnswerParsed
      <3>2. texts \in Seq(Seq(PlainLines)) /\ Len(texts) = Len(bodies)
        <4>1. \A j \in 1..Len(bodies) : Batch!AnswerLines(200, bodies[j]) \in Seq(PlainLines)
          BY <3>1
        <4> QED
          BY <2>1, <4>1
      <3> QED
        BY <3>1, <3>2
    <2>5. texts # <<>>
      <3> HIDE DEF texts
      <3> QED
        BY <2>1, <2>4
    <2> HIDE DEF texts, text
    <2>6. /\ text \in Seq(InnerLines) /\ text # <<>>
          /\ text[1] = Batch!Multipart(Batch!Inner)
          /\ Batch!SplitResponse(text, Batch!Inner) = texts
      BY <2>3, <2>4, <2>5, InnerText
    <2>7. text[1][1] = "type" /\ text[1][2] = "multipart/mixed" /\ text[1][3] = Batch!Inner
      BY <2>6 DEF Batch!Multipart
    <2>8. Batch!ParsePart(text) =
            IF texts = Batch!Malformed
                 \/ \E j \in 1..Len(texts) : Batch!ParseResponseData(texts[j]) = Batch!Malformed
              THEN Batch!Malformed
              ELSE <<"list", [j \in 1..Len(texts) |-> Batch!ParseResponseData(texts[j])[2]]>>
      BY <2>6, <2>7, Zenon DEF Batch!ParsePart
    <2> SUFFICES ASSUME Batch!ParsePart(text) # Batch!Malformed
                 PROVE  MatchesEntry(Batch!Deserialize(Batch!ParsePart(text)), entry, i)
      BY <2>6 DEF text
    <2> DEFINE datas == [j \in 1..Len(texts) |-> Batch!ParseResponseData(texts[j])[2]]
               p == Batch!ParsePart(text)
    <2>9. p = <<"list", datas>>
      BY <2>8, Zenon
    <2>10. Len(datas) = Len(bodies) /\ \A j \in 1..Len(bodies) : datas[j].body = Shown(bodies[j])
      <3>1. Len(texts) \in Nat
        BY <2>1, <2>4
      <3>2. Len(datas) = Len(bodies)
        BY <2>4, <3>1
      <3>3. ASSUME NEW j \in 1..Len(bodies)
            PROVE  datas[j].body = Shown(bodies[j])
        <4>1. datas[j] = Batch!ParseResponseData(texts[j])[2]
          BY <2>4
        <4>2. Batch!ParseResponseData(texts[j])
                = <<"data", [httpCode |-> 200, body |-> Shown(bodies[j])]>>
          BY <2>4
        <4> HIDE DEF datas
        <4> QED
          BY <4>1, <4>2
      <3> QED
        BY <3>2, <3>3
    <2> HIDE DEF p, datas
    <2>11. Batch!Deserialize(p) = [type |-> "WriteResponses", responses |-> datas]
      <3>1. p[1] = "list" /\ p[2] = datas
        BY <2>9
      <3> QED
        BY <3>1 DEF Batch!Deserialize
    <2>12. MatchesEntry(Batch!Deserialize(p), entry, i)
      BY <1>4, <2>10, <2>11 DEF MatchesEntry, bodies
    <2> QED
      BY <2>12 DEF p
  <1>5. requests[i].kind \in {"get", "changeSet"} /\ entry.ok \in BOOLEAN
    BY RequestTypes DEF EntryOf
  <1> QED
    BY <1>2, <1>3, <1>4, <1>5

-----------------------------------------------------------------------------
(* The batch                                                               *)

\* As long as the subrequests stay, what is sent stays.
LEMMA SameRequests ==
  ASSUME requests' = requests
  PROVE  /\ Batch!Sent' = Batch!Sent
         /\ Batch!SerializeBatchRequest' = Batch!SerializeBatchRequest
         /\ \A i : Batch!Serialized(i)' = Batch!Serialized(i)
  <1>1. \A i : Batch!Serialized(i)' = Batch!Serialized(i)
    BY DEF Batch!Serialized
  <1>2. Batch!SentOf' = Batch!SentOf
    BY <1>1 DEF Batch!SentOf, Batch!Serialized
  <1>3. Batch!Sent' = Batch!Sent
    BY <1>2 DEF Batch!Sent
  <1>4. Batch!SerializeBatchRequest' = Batch!SerializeBatchRequest
    BY <1>1, <1>3 DEF Batch!SerializeBatchRequest
  <1> QED
    BY <1>1, <1>3, <1>4

LogEntries == [part : Seq(InnerLines), ok : BOOLEAN, bodies : Seq(Batch!Body)]

BatchTypes ==
  /\ batchPc \in {"build", "service", "response", "done", "failed"}
  /\ requests \in Batches
  /\ store \in [Keys -> Batch!Values]
  /\ log \in Seq(LogEntries)

\* The service notes the parts in the order in which they were sent.
BatchLog ==
  /\ Len(log) <= Len(Batch!Sent)
  /\ \A i \in 1..Len(log) : EntryOf(log[i], Batch!Sent[i])

BatchPayload == IF batchPc = "build" THEN log = <<>> ELSE payload = Batch!SerializeBatchRequest

\* The change sets among the first n parts that wrote k.
Applied(n, k) == { j \in 1..n : log[j].ok /\ Batch!Wrote(Batch!Sent[j], k) }

\* A value that k may have after the first n parts.
ValueAfter(v, n, k) ==
  \/ v = Batch!Others
  \/ v = Batch!Initial /\ Applied(n, k) = {}
  \/ \E j \in Applied(n, k) : v = Batch!Sent[j] /\ \A h \in Applied(n, k) : h <= j

\* So the entities have such a value, ...
StoreValues == \A k \in Keys : ValueAfter(store[k], Len(log), k)

\* ... and so had those that were read.
ReadValues ==
  \A i \in 1..Len(log) :
    log[i].ok /\ requests[Batch!Sent[i]].kind = "get" =>
      ValueAfter(log[i].bodies[1].value, i - 1, requests[Batch!Sent[i]].key)

Answers == [i \in 1..Len(log) |-> Batch!Answer(log[i])]

WholeAnswer == IF log = <<>> THEN <<>> ELSE Batch!Enclose(Answers, Batch!Outer)

\* The response is what the service answered, or a beginning of it.
ResponseOfLog ==
  batchPc = "response" => \E n \in 0..Len(WholeAnswer) : batchResponse = SubSeq(WholeAnswer, 1, n)

\* The result is what the service noted, or a beginning of it.
ResultOfLog ==
  batchPc = "done" =>
    /\ Len(result) \in 0..Len(log)
    /\ \A i \in 1..Len(result) : MatchesEntry(result[i], log[i], Batch!Sent[i])

BatchInv ==
  /\ BatchTypes /\ BatchLog /\ BatchPayload
  /\ StoreValues /\ ReadValues /\ ResponseOfLog /\ ResultOfLog

\* Before the batch is built nothing is noted and nothing written.
LEMMA BatchInit == Batch!Init => BatchInv
  <1> SUFFICES ASSUME Batch!Init PROVE BatchInv
    OBVIOUS
  <1> USE DEF Batch!Init
  <1>1. BatchTypes
    BY EmptySeq DEF BatchTypes, Batch!Values, Batch!Initial
  <1>2. log = <<>> /\ Len(log) = 0 /\ batchPc = "build" /\ requests \in Batches
    BY EmptySeq
  <1>3. BatchLog
    BY <1>2, SentTexts DEF BatchLog
  <1>4. BatchPayload /\ ResponseOfLog /\ ResultOfLog
    BY <1>2 DEF BatchPayload, ResponseOfLog, ResultOfLog
  <1>5. StoreValues /\ ReadValues
    <2>1. \A k \in Keys : store[k] = Batch!Initial /\ Applied(Len(log), k) = {}
      BY <1>2 DEF Applied
    <2> QED
      BY <1>2, <2>1 DEF StoreValues, ReadValues, ValueAfter
  <1> QED
    BY <1>1, <1>3, <1>4, <1>5 DEF BatchInv

\* What becomes of the notes and of the values known from them when the service
\* notes one more part.
LEMMA NextEntry ==
  ASSUME BatchTypes, BatchLog, requests' = requests,
         Len(log) < Len(Batch!Sent), NEW entry \in LogEntries, log' = Append(log, entry),
         EntryOf(entry, Batch!Sent[Len(log) + 1])
  PROVE  /\ log' \in Seq(LogEntries) /\ Len(log') = Len(log) + 1 /\ Len(log) \in Nat
         /\ \A i \in 1..Len(log) : log'[i] = log[i]
         /\ log'[Len(log) + 1] = entry
         /\ BatchLog'
         /\ \A m \in 0..Len(log) : \A k, v : ValueAfter(v, m, k) => ValueAfter(v, m, k)'
         /\ \A k, n : n = Len(log) + 1 =>
              Applied(n, k)' = IF entry.ok /\ Batch!Wrote(Batch!Sent[n], k)
                                 THEN Applied(Len(log), k) \cup {n} ELSE Applied(Len(log), k)
  <1>1. /\ log' \in Seq(LogEntries) /\ Len(log') = Len(log) + 1 /\ Len(log) \in Nat
        /\ \A i \in 1..Len(log) : log'[i] = log[i]
        /\ log'[Len(log) + 1] = entry
    BY AppendProperties, LenProperties DEF BatchTypes
  <1>2. /\ Batch!Sent' = Batch!Sent
        /\ \A i : Batch!Serialized(i)' = Batch!Serialized(i)
        /\ \A i, k : Batch!Wrote(i, k)' = Batch!Wrote(i, k)
        /\ Len(Batch!Sent) \in Nat
    BY SameRequests, SentTexts DEF Batch!Wrote, BatchTypes
  <1>3. BatchLog'
    <2>1. \A e, i : EntryOf(e, i) => EntryOf(e, i)'
      BY <1>2 DEF EntryOf
    <2>2. \A i \in 1..Len(log) + 1 : EntryOf(log'[i], Batch!Sent[i])
      BY <1>1 DEF BatchLog
    <2>3. \A i \in 1..Len(log') : EntryOf(log[i], Batch!Sent[i])'
      BY <1>1, <1>2, <2>1, <2>2
    <2>4. Len(log') <= Len(Batch!Sent')
      BY <1>1, <1>2
    <2> QED
      BY <2>3, <2>4 DEF BatchLog
  <1>4. \A m \in 0..Len(log) : \A k : Applied(m, k)' = Applied(m, k)
    <2> TAKE m \in 0..Len(log)
    <2> TAKE k
    <2>1. \A j \in 1..m : log'[j] = log[j]
      BY <1>1
    <2> QED
      BY <1>2, <2>1 DEF Applied
  <1>5. \A m \in 0..Len(log) : \A k, v : ValueAfter(v, m, k) => ValueAfter(v, m, k)'
    BY <1>2, <1>4 DEF ValueAfter, Batch!Others, Batch!Initial
  <1>6. ASSUME NEW k, NEW n, n = Len(log) + 1
        PROVE  Applied(n, k)' =
                 IF entry.ok /\ Batch!Wrote(Batch!Sent[n], k)
                   THEN Applied(Len(log), k) \cup {n} ELSE Applied(Len(log), k)
    <2>1. Applied(n, k)' = { j \in 1..n : log'[j].ok /\ Batch!Wrote(Batch!Sent[j], k) }
      BY <1>2 DEF Applied
    <2>2. \A j \in 1..n : j = n \/ (j \in 1..Len(log) /\ log'[j] = log[j])
      BY <1>1, <1>6
    <2>3. log'[n] = entry /\ n \in Nat /\ n \in 1..n /\ \A j \in 1..Len(log) : j \in 1..n /\ j # n
      BY <1>1, <1>6
    <2> QED
      BY <2>1, <2>2, <2>3 DEF Applied
  <1> QED
    BY <1>1, <1>3, <1>5, <1>6

\* The part that is executed next is a subrequest that was sent.
LEMMA NextPartSent ==
  ASSUME BatchTypes, BatchPayload, Batch!Executing
  PROVE  /\ batchPc = "service"
         /\ Len(log) \in Nat /\ Len(log) < Len(Batch!Sent)
         /\ Len(log) + 1 \in 1..Len(Batch!Sent)
         /\ Batch!Sent[Len(log) + 1] \in 1..Len(requests)
         /\ Batch!Sent[Len(log) + 1] \in Nat
         /\ Batch!Serialized(Batch!Sent[Len(log) + 1]) # <<>>
         /\ Batch!NextPart = Batch!Serialized(Batch!Sent[Len(log) + 1])
  <1>1. batchPc = "service" /\ Len(log) < Len(Batch!Received)
    BY DEF Batch!Executing
  <1>2. /\ Batch!Received = [n \in 1..Len(Batch!Sent) |-> Batch!Serialized(Batch!Sent[n])]
        /\ Len(Batch!Sent) \in Nat /\ Len(log) \in Nat
    BY <1>1, ReceivedParts, SentTexts, LenProperties DEF BatchTypes, BatchPayload
  <1>3. Len(Batch!Received) = Len(Batch!Sent)
    BY <1>2
  <1>4. Len(log) + 1 \in 1..Len(Batch!Sent)
    BY <1>1, <1>2, <1>3
  <1>5. Batch!NextPart = Batch!Serialized(Batch!Sent[Len(log) + 1])
    BY <1>2, <1>4 DEF Batch!NextPart
  <1> QED
    BY <1>1, <1>2, <1>3, <1>4, <1>5, SentTexts DEF BatchTypes

\* Noting a part keeps what is known of the notes; what is left to show is what
\* is known of the entities.
LEMMA NotesStay ==
  ASSUME BatchInv, Batch!Executing, UNCHANGED <<requests, batchPc, payload>>,
         store' \in [Keys -> Batch!Values],
         NEW entry \in LogEntries, log' = Append(log, entry),
         EntryOf(entry, Batch!Sent[Len(log) + 1]),
         entry.ok /\ requests[Batch!Sent[Len(log) + 1]].kind = "get" =>
           entry.bodies[1].value = store[requests[Batch!Sent[Len(log) + 1]].key],
         \A k \in Keys : \A v, m : m = Len(log) + 1 /\ v = store'[k] => ValueAfter(v, m, k)'
  PROVE  BatchInv'
  <1> DEFINE n == Len(log) + 1
             i == Batch!Sent[n]
  <1>1. /\ BatchTypes /\ BatchLog /\ BatchPayload /\ StoreValues /\ ReadValues
        /\ batchPc = "service" /\ Len(log) \in Nat /\ Len(log) < Len(Batch!Sent)
        /\ i \in 1..Len(requests) /\ Batch!Serialized(i) # <<>>
    BY NextPartSent DEF BatchInv
  <1>2. /\ log' \in Seq(LogEntries) /\ Len(log') = n /\ log'[n] = entry
        /\ \A j \in 1..Len(log) : log'[j] = log[j]
        /\ BatchLog'
        /\ \A m \in 0..Len(log) : \A k, v : ValueAfter(v, m, k) => ValueAfter(v, m, k)'
    BY <1>1, NextEntry
  <1>3. Batch!Sent' = Batch!Sent /\ Batch!SerializeBatchRequest' = Batch!SerializeBatchRequest
    BY SameRequests
  <1>4. BatchTypes' /\ BatchPayload' /\ ResponseOfLog' /\ ResultOfLog'
    BY <1>1, <1>2, <1>3 DEF BatchTypes, BatchPayload, ResponseOfLog, ResultOfLog
  <1>5. StoreValues'
    <2>1. \A k \in Keys : \A v, m : v = store'[k] /\ m = Len(log') => ValueAfter(v, m, k)'
      BY <1>2
    <2> QED
      BY <2>1 DEF StoreValues
  <1>6. ReadValues'
    <2>1. ASSUME NEW j \in 1..n, log'[j].ok, requests[Batch!Sent[j]].kind = "get",
                 NEW v, v = log'[j].bodies[1].value,
                 NEW k, k = requests[Batch!Sent[j]].key,
                 NEW m, m = j - 1
          PROVE  ValueAfter(v, m, k)'
      <3>1. CASE j # n
        <4>1. j \in 1..Len(log) /\ log'[j] = log[j] /\ m \in 0..Len(log)
          BY <1>1, <1>2, <2>1, <3>1
        <4>2. ValueAfter(v, m, k)
          BY <1>1, <2>1, <4>1 DEF ReadValues
        <4> QED
          BY <1>2, <4>1, <4>2
      <3>2. CASE j = n
        <4>1. m = Len(log) /\ m \in 0..Len(log) /\ v = store[k] /\ k \in Keys
          <5>1. requests[i].kind = "get" /\ requests[i].key \in Keys
            BY <1>1, <2>1, <3>2, RequestTypes DEF BatchTypes
          <5> QED
            BY <1>1, <1>2, <2>1, <3>2, <5>1
        <4>2. ValueAfter(v, m, k)
          BY <1>1, <4>1 DEF StoreValues
        <4> QED
          BY <1>2, <4>1, <4>2
      <3> QED
        BY <3>1, <3>2
    <2>2. \A j \in 1..Len(log') : \A v, k, m :
            /\ log'[j].ok /\ requests'[Batch!Sent'[j]].kind = "get"
            /\ v = log'[j].bodies[1].value /\ k = requests'[Batch!Sent'[j]].key /\ m = j - 1
            => ValueAfter(v, m, k)'
      BY <1>2, <1>3, <2>1
    <2> QED
      BY <2>2 DEF ReadValues
  <1> QED
    BY <1>2, <1>4, <1>5, <1>6 DEF BatchInv

\* Noting a part that wrote nothing keeps the invariant.
LEMMA NotesWithoutWrites ==
  ASSUME BatchInv, Batch!Executing, UNCHANGED <<requests, batchPc, payload, store>>,
         NEW entry \in LogEntries, log' = Append(log, entry),
         EntryOf(entry, Batch!Sent[Len(log) + 1]),
         entry.ok => /\ requests[Batch!Sent[Len(log) + 1]].kind = "get"
                     /\ entry.bodies[1].value = store[requests[Batch!Sent[Len(log) + 1]].key]
  PROVE  BatchInv'
  <1> DEFINE n == Len(log) + 1
  <1>1. BatchTypes /\ BatchLog /\ BatchPayload /\ StoreValues /\ Len(log) < Len(Batch!Sent)
    BY NextPartSent DEF BatchInv
  <1>2. \A k, m : m = n =>
          Applied(m, k)' = IF entry.ok /\ Batch!Wrote(Batch!Sent[m], k)
                             THEN Applied(Len(log), k) \cup {m} ELSE Applied(Len(log), k)
    BY <1>1, NextEntry
  <1>3. Batch!Sent' = Batch!Sent
    BY SameRequests
  <1>4. ASSUME NEW k, NEW m, m = n
        PROVE  Applied(m, k)' = Applied(Len(log), k)
    <2>1. ~(entry.ok /\ Batch!Wrote(Batch!Sent[m], k))
      BY <1>4 DEF Batch!Wrote
    <2> QED
      BY <1>2, <1>4, <2>1
  <1>5. ASSUME NEW k \in Keys, NEW v, NEW m, m = n, ValueAfter(v, Len(log), k)
        PROVE  ValueAfter(v, m, k)'
    BY <1>3, <1>4, <1>5 DEF ValueAfter, Batch!Others, Batch!Initial
  <1>6. \A k \in Keys : \A v, m : m = Len(log) + 1 /\ v = store'[k] => ValueAfter(v, m, k)'
    BY <1>1, <1>5 DEF StoreValues
  <1>7. store' \in [Keys -> Batch!Values]
    BY <1>1 DEF BatchTypes
  <1> QED
    BY <1>6, <1>7, NotesStay

\* An executed retrieve request is noted with the value that the entity has.
LEMMA ReadKeepsInv ==
  ASSUME BatchInv, Batch!ExecuteRead
  PROVE  BatchInv'
  <1> DEFINE i == Batch!Sent[Len(log) + 1]
             body == [key |-> Batch!Key(Batch!NextPart), value |-> store[Batch!Key(Batch!NextPart)]]
             entry == [part |-> Batch!NextPart, ok |-> TRUE, bodies |-> <<body>>]
  <1>1. /\ Batch!Executing /\ Batch!IsRead(Batch!NextPart)
        /\ log' = Append(log, entry)
        /\ UNCHANGED <<requests, batchPc, payload, store>>
    BY DEF Batch!ExecuteRead
  <1>2. /\ requests \in Batches /\ store \in [Keys -> Batch!Values]
        /\ i \in 1..Len(requests) /\ Batch!Serialized(i) # <<>>
        /\ Batch!NextPart = Batch!Serialized(i)
    BY <1>1, NextPartSent DEF BatchInv, BatchTypes
  <1>3. /\ requests[i].kind = "get" /\ requests[i].key \in Keys
        /\ Batch!Key(Batch!NextPart) = requests[i].key
        /\ Batch!NextPart \in Seq(InnerLines)
    BY <1>1, <1>2, SerializedText
  <1>4. body \in Batch!Body /\ body.key = requests[i].key /\ body.value = store[requests[i].key]
    BY <1>2, <1>3 DEF Batch!Body
  <1> HIDE DEF body
  <1>5. entry \in LogEntries /\ entry.ok /\ entry.bodies[1] = body /\ entry.part = Batch!NextPart
    <2>1. <<body>> \in Seq(Batch!Body) /\ <<body>>[1] = body
      BY <1>4
    <2> QED
      BY <1>3, <2>1 DEF LogEntries
  <1> HIDE DEF entry, i
  <1>6. EntryOf(entry, i)
    BY <1>2, <1>3, <1>4, <1>5 DEF EntryOf
  <1> QED
    BY <1>1, <1>3, <1>4, <1>5, <1>6, NotesWithoutWrites DEF i

\* A refused part changes nothing but the notes.
LEMMA RefusalKeepsInv ==
  ASSUME BatchInv, Batch!Refuse
  PROVE  BatchInv'
  <1> DEFINE i == Batch!Sent[Len(log) + 1]
             entry == [part |-> Batch!NextPart, ok |-> FALSE, bodies |-> <<>>]
  <1>1. /\ Batch!Executing
        /\ log' = Append(log, entry)
        /\ UNCHANGED <<requests, batchPc, payload, store>>
    BY DEF Batch!Refuse
  <1>2. /\ requests \in Batches /\ i \in 1..Len(requests) /\ Batch!Serialized(i) # <<>>
        /\ Batch!NextPart = Batch!Serialized(i)
    BY <1>1, NextPartSent DEF BatchInv, BatchTypes
  <1>3. Batch!NextPart \in Seq(InnerLines)
    BY <1>2, SerializedText
  <1>4. entry \in LogEntries /\ ~entry.ok /\ entry.ok \in BOOLEAN /\ entry.part = Batch!NextPart
    BY <1>3, EmptySeq DEF LogEntries
  <1> HIDE DEF entry, i
  <1>5. EntryOf(entry, i)
    BY <1>2, <1>4 DEF EntryOf
  <1> QED
    BY <1>1, <1>4, <1>5, NotesWithoutWrites DEF i

\* An executed change set is noted with one body for each write, and its own
\* position is the value of all entities it wrote.
LEMMA ChangeSetKeepsInv ==
  ASSUME BatchInv, Batch!ExecuteChangeSet
  PROVE  BatchInv'
  <1> DEFINE i == Batch!Sent[Len(log) + 1]
             W == requests[i].writes
  <1>1. /\ requests \in Batches /\ store \in [Keys -> Batch!Values]
        /\ Batch!Executing /\ ~Batch!IsRead(Batch!NextPart)
        /\ i \in 1..Len(requests) /\ i \in Nat /\ Batch!Serialized(i) # <<>>
        /\ Batch!NextPart = Batch!Serialized(i)
        /\ UNCHANGED <<requests, batchPc, payload>>
        /\ Len(log) \in Nat /\ Len(log) < Len(Batch!Sent)
    BY NextPartSent DEF BatchInv, BatchTypes, Batch!ExecuteChangeSet
  <1>2. /\ requests[i].kind = "changeSet" /\ W \in Seq(Keys) /\ W # <<>>
        /\ Batch!WritesOf(Batch!NextPart) = [j \in 1..Len(W) |-> <<"write", W[j], i>>]
        /\ Batch!NextPart \in Seq(InnerLines)
    BY <1>1, SerializedText
  <1>3. Len(W) \in Nat \ {0} /\ \A j \in 1..Len(W) : W[j] \in Keys
    BY <1>2, EmptySeq, ElementOfSeq
  <1> DEFINE writes == Batch!WritesOf(Batch!NextPart)
  <1>4. PICK order \in Batch!Bijection(1..Len(writes), 1..Len(writes)) :
          log' = Append(log, [part |-> Batch!NextPart, ok |-> TRUE,
                   bodies |-> [j \in 1..Len(writes) |->
                     [key |-> writes[order[j]][2], value |-> writes[order[j]][3]]]])
    BY DEF Batch!ExecuteChangeSet
  <1>5. store' = [k \in Keys |->
                    IF \E j \in 1..Len(writes) : writes[j][2] = k THEN writes[1][3] ELSE store[k]]
    BY DEF Batch!ExecuteChangeSet
  <1> DEFINE bodies == [j \in 1..Len(writes) |->
                          [key |-> writes[order[j]][2], value |-> writes[order[j]][3]]]
             entry == [part |-> Batch!NextPart, ok |-> TRUE, bodies |-> bodies]
  <1> HIDE DEF W, i
  <1>6. /\ Len(writes) = Len(W)
        /\ \A j \in 1..Len(W) : writes[j][2] = W[j] /\ writes[j][3] = i
    <2>1. Len(writes) = Len(W)
      BY <1>2, <1>3
    <2>2. ASSUME NEW j \in 1..Len(W)
          PROVE  writes[j][2] = W[j] /\ writes[j][3] = i
      <3>1. writes[j] = <<"write", W[j], i>>
        BY <1>2
      <3> HIDE DEF writes
      <3> QED
        BY <3>1
    <2> QED
      BY <2>1, <2>2
  <1> HIDE DEF writes
  <1>7. /\ \A j \in 1..Len(W) : order[j] \in 1..Len(W)
        /\ \A j \in 1..Len(W) : \E h \in 1..Len(W) : order[h] = j
    BY <1>4, <1>6 DEF Batch!Bijection, Batch!Injection, Batch!Surjection
  <1>8. \A j \in 1..Len(W) : bodies[j] = [key |-> W[order[j]], value |-> i]
    BY <1>6, <1>7
  <1>9. bodies \in Seq(Batch!Body) /\ Len(bodies) = Len(W)
    <2>1. \A j \in 1..Len(W) : [key |-> W[order[j]], value |-> i] \in Batch!Body
      BY <1>1, <1>3, <1>7 DEF Batch!Body, Batch!Values
    <2>2. bodies = [j \in 1..Len(W) |-> bodies[j]]
      BY <1>6
    <2> HIDE DEF bodies
    <2> QED
      BY <1>3, <1>8, <2>1, <2>2
  <1>10. \A k \in Keys : (\E j \in 1..Len(W) : W[j] = k) <=> (\E j \in 1..Len(W) : bodies[j].key = k)
    <2> TAKE k \in Keys
    <2>1. ASSUME NEW j \in 1..Len(W), W[j] = k
          PROVE  \E h \in 1..Len(W) : bodies[h].key = k
      <3>1. PICK h \in 1..Len(W) : order[h] = j
        BY <1>7
      <3>2. bodies[h] = [key |-> W[j], value |-> i]
        BY <1>8, <3>1
      <3> HIDE DEF bodies
      <3> QED
        BY <2>1, <3>2
    <2>2. ASSUME NEW j \in 1..Len(W), bodies[j].key = k
          PROVE  \E h \in 1..Len(W) : W[h] = k
      <3>1. bodies[j] = [key |-> W[order[j]], value |-> i] /\ order[j] \in 1..Len(W)
        BY <1>7, <1>8
      <3> HIDE DEF bodies
      <3> QED
        BY <2>2, <3>1
    <2> QED
      BY <2>1, <2>2
  <1> HIDE DEF bodies
  <1>11. /\ entry \in LogEntries /\ entry.ok /\ entry.bodies = bodies
         /\ entry.part = Batch!NextPart
    BY <1>2, <1>9 DEF LogEntries
  <1>12. log' = Append(log, entry)
    BY <1>4 DEF bodies
  <1> HIDE DEF entry
  <1>13. EntryOf(entry, i)
    BY <1>1, <1>2, <1>9, <1>10, <1>11 DEF EntryOf, W
  <1>14. store' \in [Keys -> Batch!Values]
    BY <1>1, <1>3, <1>5, <1>6 DEF Batch!Values
  <1>15. ASSUME NEW k \in Keys, NEW v, NEW m, m = Len(log) + 1, v = store'[k]
         PROVE  ValueAfter(v, m, k)'
    <2>1. i = Batch!Sent[m] /\ m \in Nat
      BY <1>1, <1>15 DEF i
    <2>2. /\ Applied(m, k)' = IF entry.ok /\ Batch!Wrote(i, k)
                                THEN Applied(Len(log), k) \cup {m} ELSE Applied(Len(log), k)
          /\ Batch!Sent' = Batch!Sent
          /\ \A h \in Applied(Len(log), k) : h <= m
      <3>1. /\ \A q, n : n = Len(log) + 1 =>
                 Applied(n, q)' = IF entry.ok /\ Batch!Wrote(Batch!Sent[n], q)
                                    THEN Applied(Len(log), q) \cup {n} ELSE Applied(Len(log), q)
        BY <1>1, <1>11, <1>12, <1>13, NextEntry DEF BatchInv, i
      <3>2. \A h \in Applied(Len(log), k) : h <= m
        BY <1>1, <1>15 DEF Applied
      <3> QED
        BY <1>1, <1>15, <2>1, <3>1, <3>2, SameRequests
    <2>3. Batch!Wrote(i, k) <=> \E j \in 1..Len(W) : W[j] = k
      BY <1>2 DEF Batch!Wrote, W
    <2>4. CASE Batch!Wrote(i, k)
      <3>1. v = i
        BY <1>3, <1>5, <1>6, <1>15, <2>3, <2>4
      <3>2. m \in Applied(m, k)' /\ \A h \in Applied(m, k)' : h <= m
        BY <1>11, <2>1, <2>2, <2>4
      <3> QED
        BY <2>1, <2>2, <3>1, <3>2 DEF ValueAfter
    <2>5. CASE ~Batch!Wrote(i, k)
      <3>1. v = store[k]
        BY <1>3, <1>5, <1>6, <1>15, <2>3, <2>5
      <3>2. Applied(m, k)' = Applied(Len(log), k)
        BY <2>2, <2>5
      <3>3. ValueAfter(v, Len(log), k)
        BY <3>1 DEF BatchInv, StoreValues
      <3> QED
        BY <2>2, <3>2, <3>3 DEF ValueAfter, Batch!Others, Batch!Initial
    <2> QED
      BY <2>4, <2>5
  <1> QED
    BY <1>1, <1>2, <1>11, <1>12, <1>13, <1>14, <1>15, NotesStay DEF i

\* As long as the subrequests and the notes stay, all that is known of them stays.
LEMMA SameNotes ==
  ASSUME BatchTypes, BatchLog, StoreValues, ReadValues,
         UNCHANGED <<requests, log>>,
         \A k \in Keys : store'[k] = store[k] \/ store'[k] = Batch!Others
  PROVE  /\ BatchLog' /\ StoreValues' /\ ReadValues'
         /\ WholeAnswer' = WholeAnswer
         /\ Batch!Sent' = Batch!Sent
         /\ Batch!SerializeBatchRequest' = Batch!SerializeBatchRequest
         /\ \A r, e, i : MatchesEntry(r, e, i) => MatchesEntry(r, e, i)'
  <1>1. /\ Batch!Sent' = Batch!Sent
        /\ Batch!SerializeBatchRequest' = Batch!SerializeBatchRequest
        /\ \A i : Batch!Serialized(i)' = Batch!Serialized(i)
        /\ \A i, k : Batch!Wrote(i, k)' = Batch!Wrote(i, k)
    BY SameRequests DEF Batch!Wrote
  <1>2. BatchLog'
    <2>1. \A e, i : EntryOf(e, i) => EntryOf(e, i)'
      BY <1>1 DEF EntryOf
    <2>2. \A i \in 1..Len(log') : EntryOf(log[i], Batch!Sent[i])'
      BY <1>1, <2>1 DEF BatchLog
    <2>3. Len(log') <= Len(Batch!Sent')
      BY <1>1 DEF BatchLog
    <2> QED
      BY <2>2, <2>3 DEF BatchLog
  <1>3. \A n, k : Applied(n, k)' = Applied(n, k)
    BY <1>1 DEF Applied
  <1>4. \A n, k, v : ValueAfter(v, n, k) => ValueAfter(v, n, k)'
    BY <1>1, <1>3 DEF ValueAfter, Batch!Others, Batch!Initial
  <1>5. StoreValues'
    <2>1. ASSUME NEW k \in Keys, NEW v, v = store'[k], NEW n, n = Len(log')
          PROVE  ValueAfter(v, n, k)'
      <3>1. CASE v = store[k]
        BY <1>4, <2>1, <3>1 DEF StoreValues
      <3>2. CASE v = Batch!Others
        BY <3>2 DEF ValueAfter, Batch!Others
      <3> QED
        BY <2>1, <3>1, <3>2
    <2> QED
      BY <2>1 DEF StoreValues
  <1>6. ReadValues'
    <2>1. \A j \in 1..Len(log') : \A v, k, m :
            /\ log'[j].ok /\ requests'[Batch!Sent'[j]].kind = "get"
            /\ v = log'[j].bodies[1].value /\ k = requests'[Batch!Sent'[j]].key /\ m = j - 1
            => ValueAfter(v, m, k)'
      BY <1>1, <1>4 DEF ReadValues
    <2> QED
      BY <2>1 DEF ReadValues
  <1>7. WholeAnswer' = WholeAnswer
    BY DEF WholeAnswer, Answers
  <1>8. \A r, e, i : MatchesEntry(r, e, i) => MatchesEntry(r, e, i)'
    BY DEF MatchesEntry
  <1> QED
    BY <1>1, <1>2, <1>5, <1>6, <1>7, <1>8

\* What the service answers is a text of the batch.
LEMMA WholeAnswerText ==
  ASSUME BatchTypes, BatchLog
  PROVE  /\ Len(log) \in Nat
         /\ Answers \in Seq(Seq(InnerLines)) /\ Len(Answers) = Len(log)
         /\ log # <<>> => Answers # <<>>
         /\ WholeAnswer \in Seq(Lines)
  <1>1. Len(log) \in Nat /\ (log # <<>> => Len(log) # 0)
    BY LenProperties, EmptySeq DEF BatchTypes
  <1>2. \A i \in 1..Len(log) : Batch!Answer(log[i]) \in Seq(InnerLines)
    <2> TAKE i \in 1..Len(log)
    <2>1. /\ i \in 1..Len(Batch!Sent) /\ EntryOf(log[i], Batch!Sent[i]) /\ requests \in Batches
      BY <1>1, SentTexts DEF BatchLog, BatchTypes
    <2>2. Batch!Sent[i] \in 1..Len(requests) /\ Batch!Serialized(Batch!Sent[i]) # <<>>
      BY <2>1, SentTexts
    <2> QED
      BY <2>1, <2>2, AnswerText
  <1>3. Answers \in Seq(Seq(InnerLines)) /\ Len(Answers) = Len(log)
    BY <1>1, <1>2 DEF Answers
  <1>4. log # <<>> => Answers # <<>>
    BY <1>1, <1>3
  <1>5. WholeAnswer \in Seq(Lines)
    BY <1>3, <1>4, OuterText, EmptySeq DEF WholeAnswer
  <1> QED
    BY <1>1, <1>3, <1>4, <1>5

\* Building the request, sending the response, losing its end, failing, and the
\* writes of others.
LEMMA QuietStepsKeepInv ==
  ASSUME BatchInv,
         \/ Batch!Build \/ \E k \in Keys : Batch!ForeignWrite(k)
         \/ Batch!Respond \/ Batch!RequestFails \/ Batch!Truncate
         \/ UNCHANGED Batch!vars
  PROVE  BatchInv'
  <1>1. BatchTypes /\ BatchLog /\ BatchPayload /\ StoreValues /\ ReadValues /\ ResponseOfLog /\ ResultOfLog
    BY DEF BatchInv
  <1>2. UNCHANGED <<requests, log>>
    BY DEF Batch!Build, Batch!ForeignWrite, Batch!Respond, Batch!RequestFails, Batch!Truncate, Batch!vars
  <1>3. /\ \A k \in Keys : store'[k] = store[k] \/ store'[k] = Batch!Others
        /\ store' \in [Keys -> Batch!Values]
    <2>1. CASE \E k \in Keys : Batch!ForeignWrite(k)
      BY <1>1, <2>1 DEF Batch!ForeignWrite, BatchTypes, Batch!Values, Batch!Others
    <2>2. CASE UNCHANGED store
      BY <1>1, <2>2 DEF BatchTypes
    <2> QED
      BY <2>1, <2>2 DEF Batch!Build, Batch!Respond, Batch!RequestFails, Batch!Truncate, Batch!vars
  <1>4. /\ BatchLog' /\ StoreValues' /\ ReadValues'
        /\ WholeAnswer' = WholeAnswer
        /\ Batch!Sent' = Batch!Sent
        /\ Batch!SerializeBatchRequest' = Batch!SerializeBatchRequest
        /\ \A r, e, i : MatchesEntry(r, e, i) => MatchesEntry(r, e, i)'
    BY <1>1, <1>2, <1>3, SameNotes
  <1>5. BatchTypes'
    BY <1>1, <1>2, <1>3
       DEF BatchTypes, Batch!Build, Batch!ForeignWrite, Batch!Respond, Batch!RequestFails,
           Batch!Truncate, Batch!vars
  <1>6. BatchPayload'
    BY <1>1, <1>2, <1>4
       DEF BatchPayload, Batch!Build, Batch!ForeignWrite, Batch!Respond, Batch!RequestFails,
           Batch!Truncate, Batch!vars
  <1>7. WholeAnswer \in Seq(Lines) /\ Len(WholeAnswer) \in Nat
    BY <1>1, WholeAnswerText, LenProperties
  <1>8. ResponseOfLog'
    <2>1. CASE Batch!Respond
      <3>1. batchResponse' = WholeAnswer
        BY <2>1 DEF Batch!Respond, WholeAnswer, Answers
      <3>2. SubSeq(WholeAnswer, 1, Len(WholeAnswer)) = WholeAnswer
        BY <1>7, SubSeqFull
      <3>3. Len(WholeAnswer) \in 0..Len(WholeAnswer)
        BY <1>7
      <3>4. \E n \in 0..Len(WholeAnswer) : batchResponse' = SubSeq(WholeAnswer, 1, n)
        BY <3>1, <3>2, <3>3
      <3> QED
        BY <1>4, <3>4 DEF ResponseOfLog
    <2>2. CASE Batch!Truncate
      <3>1. PICK m \in 0..Len(batchResponse) - 1 : batchResponse' = SubSeq(batchResponse, 1, m)
        BY <2>2 DEF Batch!Truncate
      <3>2. PICK n \in 0..Len(WholeAnswer) : batchResponse = SubSeq(WholeAnswer, 1, n)
        BY <1>1, <2>2 DEF Batch!Truncate, ResponseOfLog
      <3>3. /\ batchResponse \in Seq(Lines) /\ Len(batchResponse) = n
            /\ \A i \in 1..n : batchResponse[i] = WholeAnswer[i]
        <4>1. \A i \in 1..n : WholeAnswer[i] \in Lines
          BY <1>7, ElementOfSeq
        <4>2. /\ SubSeq(WholeAnswer, 1, n) \in Seq(Lines)
              /\ Len(SubSeq(WholeAnswer, 1, n)) = IF 1 <= n THEN n - 1 + 1 ELSE 0
              /\ \A i \in 1..n - 1 + 1 : SubSeq(WholeAnswer, 1, n)[i] = WholeAnswer[1 + i - 1]
          BY <4>1, SubSeqProperties
        <4>3. \A i \in 1..n : i \in 1..n - 1 + 1 /\ 1 + i - 1 = i
          OBVIOUS
        <4> QED
          BY <1>7, <3>2, <4>2, <4>3
      <3>4. m <= n /\ m \in 0..Len(WholeAnswer) /\ m \in Nat
        BY <1>7, <3>1, <3>3
      <3>5. SubSeq(batchResponse, 1, m) = SubSeq(WholeAnswer, 1, m)
        <4>1. \A i \in 1..m : batchResponse[i] \in Lines /\ WholeAnswer[i] = batchResponse[i]
          BY <3>3, <3>4, ElementOfSeq
        <4>2. /\ SubSeq(batchResponse, 1, m) \in Seq(Lines)
              /\ Len(SubSeq(batchResponse, 1, m)) = IF 1 <= m THEN m - 1 + 1 ELSE 0
              /\ \A i \in 1..m - 1 + 1 : SubSeq(batchResponse, 1, m)[i] = batchResponse[1 + i - 1]
          BY <3>4, <4>1, SubSeqProperties
        <4>3. /\ SubSeq(WholeAnswer, 1, m) \in Seq(Lines)
              /\ Len(SubSeq(WholeAnswer, 1, m)) = IF 1 <= m THEN m - 1 + 1 ELSE 0
              /\ \A i \in 1..m - 1 + 1 : SubSeq(WholeAnswer, 1, m)[i] = WholeAnswer[1 + i - 1]
          <5>1. \A i \in 1..m : WholeAnswer[i] \in Lines
            BY <4>1
          <5> QED
            BY <3>4, <5>1, SubSeqProperties
        <4> DEFINE s == SubSeq(batchResponse, 1, m)
                   t == SubSeq(WholeAnswer, 1, m)
        <4>4. s \in Seq(Lines) /\ t \in Seq(Lines) /\ Len(s) = Len(t) /\ Len(s) = m
          BY <3>4, <4>2, <4>3
        <4>5. \A i \in 1..m : s[i] = t[i]
          <5> TAKE i \in 1..m
          <5>1. i \in 1..m - 1 + 1 /\ 1 + i - 1 = i /\ WholeAnswer[i] = batchResponse[i]
            BY <3>4, <4>1
          <5>2. s[i] = batchResponse[1 + i - 1] /\ t[i] = WholeAnswer[1 + i - 1]
            BY <4>2, <4>3, <5>1
          <5> HIDE DEF s, t
          <5> QED
            BY <5>1, <5>2
        <4> HIDE DEF s, t
        <4>6. s = t
          BY <4>4, <4>5, SeqEqual
        <4> QED
          BY <4>6 DEF s, t
      <3>6. \E j \in 0..Len(WholeAnswer) : batchResponse' = SubSeq(WholeAnswer, 1, j)
        BY <3>1, <3>4, <3>5
      <3> QED
        BY <1>4, <3>6 DEF ResponseOfLog
    <2>3. CASE batchPc' # "response" \/ UNCHANGED <<batchPc, batchResponse>>
      BY <1>1, <1>4, <2>3 DEF ResponseOfLog
    <2> QED
      BY <2>1, <2>2, <2>3
         DEF Batch!Build, Batch!ForeignWrite, Batch!RequestFails, Batch!vars
  <1>9. ResultOfLog'
    <2>1. CASE batchPc' # "done"
      BY <2>1 DEF ResultOfLog
    <2>2. CASE batchPc' = "done"
      <3>1. UNCHANGED <<batchPc, result>>
        BY <1>1, <2>2 DEF Batch!Build, Batch!ForeignWrite, Batch!Respond, Batch!RequestFails,
                          Batch!Truncate, Batch!vars
      <3>2. \A i \in 1..Len(result') : MatchesEntry(result[i], log[i], Batch!Sent[i])'
        <4>1. \A i \in 1..Len(result) : \A r, e, n :
                r = result[i] /\ e = log[i] /\ n = Batch!Sent[i] => MatchesEntry(r, e, n)'
          BY <1>1, <1>4, <2>2, <3>1 DEF ResultOfLog
        <4> QED
          BY <1>2, <1>4, <3>1, <4>1
      <3>3. Len(result') \in 0..Len(log')
        BY <1>1, <1>2, <2>2, <3>1 DEF ResultOfLog
      <3> QED
        BY <3>2, <3>3 DEF ResultOfLog
    <2> QED
      BY <2>1, <2>2
  <1> QED
    BY <1>4, <1>5, <1>6, <1>8, <1>9 DEF BatchInv


\* The parts that are found in a response, or in a beginning of it, are answers.
LEMMA BrokenAnswer ==
  ASSUME NEW texts \in Seq(Seq(InnerLines)), texts # <<>>,
         NEW n, NEW found, FoundIn(found, texts, Batch!Outer, n)
  PROVE  Len(found) \in 1..Len(texts) /\ \A i \in 1..Len(found) : found[i] = texts[i]
  <1>1. /\ texts \in Seq(Seq(Lines))
        /\ \A i \in 1..Len(texts) : HasNo(Batch!Outer, texts[i])
        /\ Batch!Delimiter(Batch!Outer) \in Lines /\ Batch!Close(Batch!Outer) \in Lines
    BY OuterText
  <1> QED
    BY <1>1, BrokenResponse

\* The client's result is made of the parts that were complete when it came.
LEMMA ParsedParts ==
  ASSUME BatchInv, batchPc = "response", batchResponse # <<>>,
         NEW parsed, parsed = Batch!ParseBatchResponse(batchResponse),
         parsed # Batch!Malformed
  PROVE  /\ Len(parsed) \in 0..Len(log)
         /\ parsed = [i \in 1..Len(parsed) |-> Batch!ParsePart(Batch!Answer(log[i]))]
         /\ \A i \in 1..Len(parsed) : Batch!ParsePart(Batch!Answer(log[i])) # Batch!Malformed
  <1> DEFINE found == Batch!SplitResponse(batchResponse, Batch!Outer)
  <1>1. BatchTypes /\ BatchLog /\ ResponseOfLog
    BY DEF BatchInv
  <1>2. /\ Len(log) \in Nat
        /\ Answers \in Seq(Seq(InnerLines)) /\ Len(Answers) = Len(log)
        /\ log # <<>> => Answers # <<>>
        /\ WholeAnswer \in Seq(Lines)
    BY <1>1, WholeAnswerText
  <1>3. PICK n \in 0..Len(WholeAnswer) : batchResponse = SubSeq(WholeAnswer, 1, n)
    BY <1>1 DEF ResponseOfLog
  <1>4. log # <<>>
    <2>1. ASSUME log = <<>> PROVE FALSE
      <3>1. WholeAnswer = <<>>
        BY <2>1 DEF WholeAnswer
      <3>2. n = 0
        BY <1>2, <1>3, <3>1, EmptySeq
      <3>3. batchResponse = <<>>
        BY <1>2, <1>3, <3>1, <3>2, EmptySeq
      <3> QED
        BY <3>3
    <2> QED
      BY <2>1
  <1>5. WholeAnswer = Batch!Enclose(Answers, Batch!Outer)
    BY <1>4 DEF WholeAnswer
  <1>6. /\ found # Batch!Malformed
        /\ \A i \in 1..Len(found) : Batch!ParsePart(found[i]) # Batch!Malformed
        /\ parsed = [i \in 1..Len(found) |-> Batch!ParsePart(found[i])]
    <2>1. parsed = IF found = Batch!Malformed
                        \/ \E i \in 1..Len(found) : Batch!ParsePart(found[i]) = Batch!Malformed
                     THEN Batch!Malformed
                     ELSE [i \in 1..Len(found) |-> Batch!ParsePart(found[i])]
      BY Zenon DEF Batch!ParseBatchResponse
    <2> HIDE DEF found
    <2> QED
      BY <2>1
  <1>7. /\ Len(found) \in 1..Len(Answers)
        /\ \A i \in 1..Len(found) : found[i] = Answers[i]
    <2> DEFINE E == Batch!Enclose(Answers, Batch!Outer)
    <2>1. n \in 0..Len(E) /\ found = Batch!SplitResponse(SubSeq(E, 1, n), Batch!Outer)
      BY <1>3, <1>5
    <2>2. FoundIn(found, Answers, Batch!Outer, n)
      BY <1>6, <2>1 DEF FoundIn
    <2> HIDE DEF found
    <2> QED
      BY <1>2, <1>4, <2>2, BrokenAnswer
  <1> HIDE DEF found
  <1>8. Len(parsed) = Len(found) /\ Len(found) \in 0..Len(log)
    BY <1>2, <1>6, <1>7
  <1>9. \A i \in 1..Len(found) : found[i] = Batch!Answer(log[i])
    <2>1. \A i \in 1..Len(log) : Answers[i] = Batch!Answer(log[i])
      BY DEF Answers
    <2> QED
      BY <1>2, <1>7, <2>1
  <1>10. parsed = [i \in 1..Len(parsed) |-> Batch!ParsePart(Batch!Answer(log[i]))]
    BY <1>6, <1>8, <1>9
  <1> QED
    BY <1>6, <1>8, <1>9, <1>10

\* Parsing the response, however much of it came, makes the result match the notes.
LEMMA ParseKeepsInv ==
  ASSUME BatchInv, Batch!Parse
  PROVE  BatchInv'
  <1> DEFINE parsed == Batch!ParseBatchResponse(batchResponse)
  <1>1. BatchTypes /\ BatchLog /\ BatchPayload /\ StoreValues /\ ReadValues
    BY DEF BatchInv
  <1>2. /\ batchPc = "response"
        /\ UNCHANGED <<requests, payload, store, log, batchResponse>>
        /\ \/ parsed = Batch!Malformed /\ batchPc' = "failed"
           \/ /\ parsed # Batch!Malformed /\ batchPc' = "done"
              /\ result' = Batch!DeserializeBatchResponse(parsed)
    BY DEF Batch!Parse
  <1>3. /\ BatchLog' /\ StoreValues' /\ ReadValues'
        /\ Batch!Sent' = Batch!Sent
        /\ Batch!SerializeBatchRequest' = Batch!SerializeBatchRequest
        /\ \A r, e, i : MatchesEntry(r, e, i) => MatchesEntry(r, e, i)'
    BY <1>1, <1>2, SameNotes
  <1>4. BatchTypes' /\ BatchPayload' /\ ResponseOfLog'
    BY <1>1, <1>2, <1>3 DEF BatchTypes, BatchPayload, ResponseOfLog
  <1>5. ResultOfLog'
    <2>1. CASE batchPc' = "failed"
      BY <2>1 DEF ResultOfLog
    <2>2. CASE batchPc' = "done"
      <3>1. parsed # Batch!Malformed /\ result' = Batch!DeserializeBatchResponse(parsed)
        BY <1>2, <2>2
      <3>2. Len(log) \in Nat
        BY <1>1, LenProperties DEF BatchTypes
      <3>3. CASE batchResponse = <<>>
        <4>1. parsed = <<>>
          BY <3>3 DEF Batch!ParseBatchResponse
        <4>2. result' = [i \in 1..Len(parsed) |-> Batch!Deserialize(parsed[i])]
          BY <3>1 DEF Batch!DeserializeBatchResponse
        <4>3. Len(parsed) = 0
          BY <4>1, EmptySeq
        <4> HIDE DEF parsed
        <4>4. Len(result') = 0
          BY <4>2, <4>3
        <4> QED
          BY <1>2, <3>2, <4>4 DEF ResultOfLog
      <3>4. CASE batchResponse # <<>>
        <4>1. /\ Len(parsed) \in 0..Len(log)
              /\ parsed = [i \in 1..Len(parsed) |-> Batch!ParsePart(Batch!Answer(log[i]))]
              /\ \A i \in 1..Len(parsed) : Batch!ParsePart(Batch!Answer(log[i])) # Batch!Malformed
          <5> HIDE DEF parsed
          <5>1. parsed = Batch!ParseBatchResponse(batchResponse)
            BY DEF parsed
          <5> QED
            BY <1>2, <3>1, <3>4, <5>1, ParsedParts
        <4>2. result' = [i \in 1..Len(parsed) |-> Batch!Deserialize(parsed[i])]
          BY <3>1 DEF Batch!DeserializeBatchResponse
        <4> HIDE DEF parsed
        <4>3. Len(result') = Len(parsed)
          BY <3>2, <4>1, <4>2
        <4>4. ASSUME NEW i \in 1..Len(parsed)
              PROVE  MatchesEntry(result'[i], log[i], Batch!Sent[i])
          <5>1. /\ i \in 1..Len(Batch!Sent) /\ EntryOf(log[i], Batch!Sent[i]) /\ requests \in Batches
            BY <1>1, <3>2, <4>1, SentTexts DEF BatchLog, BatchTypes
          <5>2. Batch!Sent[i] \in 1..Len(requests) /\ Batch!Serialized(Batch!Sent[i]) # <<>>
            BY <5>1, SentTexts
          <5>3. /\ Batch!ParsePart(Batch!Answer(log[i])) # Batch!Malformed
                /\ parsed[i] = Batch!ParsePart(Batch!Answer(log[i]))
            BY <4>1
          <5>4. result'[i] = Batch!Deserialize(Batch!ParsePart(Batch!Answer(log[i])))
            BY <4>2, <5>3
          <5> QED
            BY <5>1, <5>2, <5>3, <5>4, AnswerText
        <4>5. \A i \in 1..Len(parsed) : \A r, e, n :
                r = result'[i] /\ e = log[i] /\ n = Batch!Sent[i] => MatchesEntry(r, e, n)'
          BY <1>3, <4>4
        <4>6. \A i \in 1..Len(result') : MatchesEntry(result[i], log[i], Batch!Sent[i])'
          BY <1>2, <1>3, <4>3, <4>5
        <4>7. Len(result') \in 0..Len(log')
          BY <1>2, <4>1, <4>3
        <4> QED
          BY <4>6, <4>7 DEF ResultOfLog
      <3> QED
        BY <3>3, <3>4
    <2> QED
      BY <1>2, <2>1, <2>2
  <1> QED
    BY <1>3, <1>4, <1>5 DEF BatchInv

\* Every step of a batch keeps the invariant.
LEMMA BatchNextInv == BatchInv /\ [Batch!Next]_(Batch!vars) => BatchInv'
  <1> SUFFICES ASSUME BatchInv, [Batch!Next]_(Batch!vars) PROVE BatchInv'
    OBVIOUS
  <1>1. CASE Batch!ExecuteRead
    BY <1>1, ReadKeepsInv
  <1>2. CASE Batch!ExecuteChangeSet
    BY <1>2, ChangeSetKeepsInv
  <1>3. CASE Batch!Refuse
    BY <1>3, RefusalKeepsInv
  <1>4. CASE Batch!Parse
    BY <1>4, ParseKeepsInv
  <1>5. CASE \/ Batch!Build \/ \E k \in Keys : Batch!ForeignWrite(k)
             \/ Batch!Respond \/ Batch!RequestFails \/ Batch!Truncate
             \/ UNCHANGED Batch!vars
    BY <1>5, QuietStepsKeepInv
  <1> QED
    BY <1>1, <1>2, <1>3, <1>4, <1>5 DEF Batch!Next

\* What is known of a batch stays true to its end.
THEOREM BatchInvariance == Batch!Spec => []BatchInv
  BY BatchInit, BatchNextInv, PTL DEF Batch!Spec


\* Each element of the result, its subrequest and what the service noted of it.
LEMMA ResultOfRequest ==
  ASSUME BatchInv, batchPc = "done", NEW i \in 1..Len(result)
  PROVE  /\ i \in 1..Len(log) /\ i \in 1..Len(Batch!Sent) /\ Len(log) \in Nat
         /\ Len(result) \in 0..Len(log) /\ Len(log) <= Len(Batch!Sent)
         /\ Batch!Sent[i] \in 1..Len(requests)
         /\ EntryOf(log[i], Batch!Sent[i]) /\ MatchesEntry(result[i], log[i], Batch!Sent[i])
         /\ requests[Batch!Sent[i]].kind \in {"get", "changeSet"}
         /\ requests[Batch!Sent[i]].kind = "get" => requests[Batch!Sent[i]].key \in Keys
         /\ requests[Batch!Sent[i]].kind = "changeSet" => requests[Batch!Sent[i]].writes \in Seq(Keys)
  <1>1. BatchTypes /\ BatchLog /\ ResultOfLog
    BY DEF BatchInv
  <1>2. Len(log) \in Nat /\ Len(Batch!Sent) \in Nat /\ requests \in Batches
    BY <1>1, LenProperties, SentTexts DEF BatchTypes
  <1>3. /\ Len(result) \in 0..Len(log) /\ MatchesEntry(result[i], log[i], Batch!Sent[i])
        /\ Len(log) <= Len(Batch!Sent)
    BY <1>1 DEF ResultOfLog, BatchLog
  <1>4. i \in 1..Len(log) /\ i \in 1..Len(Batch!Sent)
    BY <1>2, <1>3
  <1>5. EntryOf(log[i], Batch!Sent[i])
    BY <1>1, <1>4 DEF BatchLog
  <1>6. Batch!Sent[i] \in 1..Len(requests)
    BY <1>2, <1>4, SentTexts
  <1> QED
    BY <1>2, <1>3, <1>4, <1>5, <1>6, RequestTypes

\* The invariant gives the data of a batch their types.
LEMMA BatchInvTypes == BatchInv => Batch!TypeOK
  <1> SUFFICES ASSUME BatchInv PROVE Batch!TypeOK
    OBVIOUS
  <1>1. BatchTypes /\ BatchLog
    BY DEF BatchInv
  <1>2. ASSUME batchPc = "done", NEW i \in 1..Len(result)
        PROVE  Batch!IsBatchResponse(result[i])
    <2> DEFINE s == Batch!Sent[i]
    <2>1. /\ EntryOf(log[i], s) /\ MatchesEntry(result[i], log[i], s)
          /\ requests[s].kind \in {"get", "changeSet"}
      BY <1>2, ResultOfRequest
    <2> HIDE DEF s
    <2>2. CASE ~log[i].ok
      BY <2>1, <2>2 DEF MatchesEntry, Batch!IsBatchResponse
    <2>3. CASE log[i].ok /\ requests[s].kind = "get"
      <3>1. log[i].bodies[1] \in Batch!Body
        BY <2>1, <2>3 DEF EntryOf
      <3>2. Shown(log[i].bodies[1]) \in Batch!Body
        BY <3>1, ShownBodies
      <3> QED
        BY <2>1, <2>3, <3>2 DEF MatchesEntry, Batch!IsBatchResponse
    <2>4. CASE log[i].ok /\ requests[s].kind = "changeSet"
      <3>1. log[i].bodies \in Seq(Batch!Body)
        BY <2>1, <2>4 DEF EntryOf
      <3>2. /\ result[i].type = "WriteResponses" /\ Len(result[i].responses) = Len(log[i].bodies)
            /\ \A j \in 1..Len(log[i].bodies) : result[i].responses[j].body = Shown(log[i].bodies[j])
        BY <2>1, <2>4 DEF MatchesEntry
      <3>3. \A j \in 1..Len(log[i].bodies) : Shown(log[i].bodies[j]) \in Batch!Body
        BY <3>1, ElementOfSeq, ShownBodies
      <3> QED
        BY <3>2, <3>3 DEF Batch!IsBatchResponse
    <2> QED
      BY <2>1, <2>2, <2>3, <2>4
  <1> QED
    BY <1>1, <1>2 DEF Batch!TypeOK, BatchTypes, BatchLog

\* Bodies on one line are shown as they were sent, and the invariant then relates
\* each element of the result to its subrequest.
LEMMA BatchInvMatches == BatchInv /\ ~Multiline => ResultMatchesRequest
  <1> SUFFICES ASSUME BatchInv, ~Multiline, batchPc = "done"
               PROVE  Batch!ResultMatchesRequest
    BY DEF ResultMatchesRequest, Batch!ResultMatchesRequest
  <1>1. Len(result) <= Len(Batch!Sent)
    <2>1. BatchTypes /\ BatchLog /\ ResultOfLog
      BY DEF BatchInv
    <2> QED
      BY <2>1, SentTexts, LenProperties DEF BatchLog, ResultOfLog, BatchTypes
  <1>2. \A body : Shown(body) = body
    BY Zenon DEF Shown
  <1>3. ASSUME NEW i \in 1..Len(result)
        PROVE  LET request == requests[Batch!Sent[i]] IN
                 IF ~log[i].ok THEN result[i].type = "ErrorResponse"
                 ELSE IF request.kind = "get"
                   THEN result[i].type = "ReadResponse" /\ result[i].body.key = request.key
                 ELSE /\ result[i].type = "WriteResponses"
                      /\ Len(result[i].responses) = Len(request.writes)
                      /\ \A k \in Keys :
                           (\E j \in 1..Len(request.writes) : request.writes[j] = k)
                             <=> (\E j \in 1..Len(request.writes) : result[i].responses[j].body.key = k)
    <2> DEFINE s == Batch!Sent[i]
    <2>1. /\ EntryOf(log[i], s) /\ MatchesEntry(result[i], log[i], s)
          /\ requests[s].kind \in {"get", "changeSet"}
      BY ResultOfRequest
    <2> HIDE DEF s
    <2>2. CASE ~log[i].ok
      BY <2>1, <2>2 DEF MatchesEntry, s
    <2>3. CASE log[i].ok /\ requests[s].kind = "get"
      <3>1. log[i].bodies[1].key = requests[s].key
        BY <2>1, <2>3 DEF EntryOf
      <3>2. result[i].type = "ReadResponse" /\ result[i].body = log[i].bodies[1]
        BY <1>2, <2>1, <2>3 DEF MatchesEntry
      <3> QED
        BY <2>3, <3>1, <3>2 DEF s
    <2>4. CASE log[i].ok /\ requests[s].kind = "changeSet"
      <3>1. /\ Len(log[i].bodies) = Len(requests[s].writes)
            /\ \A k \in Keys :
                 (\E j \in 1..Len(requests[s].writes) : requests[s].writes[j] = k)
                   <=> (\E j \in 1..Len(requests[s].writes) : log[i].bodies[j].key = k)
        BY <2>1, <2>4 DEF EntryOf
      <3>2. /\ result[i].type = "WriteResponses"
            /\ Len(result[i].responses) = Len(requests[s].writes)
            /\ \A j \in 1..Len(requests[s].writes) : result[i].responses[j].body = log[i].bodies[j]
        BY <1>2, <2>1, <2>4, <3>1 DEF MatchesEntry
      <3>3. \A k \in Keys :
              (\E j \in 1..Len(requests[s].writes) : requests[s].writes[j] = k)
                <=> (\E j \in 1..Len(requests[s].writes) : result[i].responses[j].body.key = k)
        <4>1. \A j \in 1..Len(requests[s].writes) :
                result[i].responses[j].body.key = log[i].bodies[j].key
          BY <3>2
        <4> TAKE k \in Keys
        <4> DEFINE P(j) == requests[s].writes[j] = k
                   Q(j) == log[i].bodies[j].key = k
                   R(j) == result[i].responses[j].body.key = k
        <4>2. (\E j \in 1..Len(requests[s].writes) : P(j)) <=> (\E j \in 1..Len(requests[s].writes) : Q(j))
          BY <3>1
        <4>3. \A j \in 1..Len(requests[s].writes) : Q(j) <=> R(j)
          BY <4>1
        <4> HIDE DEF P, Q, R
        <4>4. (\E j \in 1..Len(requests[s].writes) : P(j)) <=> (\E j \in 1..Len(requests[s].writes) : R(j))
          BY <4>2, <4>3
        <4> QED
          BY <4>4 DEF P, R
      <3> QED
        BY <2>4, <3>2, <3>3 DEF s
    <2> QED
      BY <2>1, <2>2, <2>3, <2>4
  <1> QED
    BY <1>1, <1>3 DEF Batch!ResultMatchesRequest

\* ... and each value that was read to the change sets before it.
LEMMA BatchInvReads == BatchInv /\ ~Multiline => ReadsSeeEarlierWrites
  <1> SUFFICES ASSUME BatchInv, ~Multiline, batchPc = "done"
               PROVE  Batch!ReadsSeeEarlierWrites
    BY DEF ReadsSeeEarlierWrites, Batch!ReadsSeeEarlierWrites
  <1>1. \A body : Shown(body) = body
    BY Zenon DEF Shown
  <1>2. \A j \in 1..Len(result) :
          result[j].type # "ErrorResponse" <=> log[j].ok
    <2> TAKE j \in 1..Len(result)
    <2>1. /\ MatchesEntry(result[j], log[j], Batch!Sent[j])
          /\ requests[Batch!Sent[j]].kind \in {"get", "changeSet"}
      BY ResultOfRequest
    <2> QED
      BY <2>1 DEF MatchesEntry
  <1>3. ASSUME NEW i \in 1..Len(result), result[i].type = "ReadResponse"
        PROVE  LET before == { j \in 1..i - 1 : /\ Batch!Wrote(Batch!Sent[j], requests[Batch!Sent[i]].key)
                                               /\ result[j].type # "ErrorResponse" }
                   value == result[i].body.value
               IN \/ value = Batch!Others
                  \/ value = Batch!Initial /\ before = {}
                  \/ \E j \in before : value = Batch!Sent[j] /\ \A h \in before : h <= j
    <2> DEFINE k == requests[Batch!Sent[i]].key
               value == result[i].body.value
               before == { j \in 1..i - 1 : /\ Batch!Wrote(Batch!Sent[j], k)
                                            /\ result[j].type # "ErrorResponse" }
    <2>1. /\ i \in 1..Len(log) /\ Len(log) \in Nat /\ Len(result) \in 0..Len(log)
          /\ MatchesEntry(result[i], log[i], Batch!Sent[i])
          /\ requests[Batch!Sent[i]].kind \in {"get", "changeSet"}
      BY ResultOfRequest
    <2>2. log[i].ok /\ requests[Batch!Sent[i]].kind = "get"
      BY <1>3, <2>1 DEF MatchesEntry
    <2>3. value = log[i].bodies[1].value
      BY <1>1, <2>1, <2>2 DEF MatchesEntry
    <2>4. before = Applied(i - 1, k)
      <3>1. \A j \in 1..i - 1 : j \in 1..Len(result)
        BY <2>1
      <3> HIDE DEF k
      <3> QED
        BY <1>2, <3>1 DEF Applied
    <2>5. ValueAfter(value, i - 1, k)
      BY <2>1, <2>2, <2>3 DEF BatchInv, ReadValues
    <2> HIDE DEF k, value, before
    <2>6. \/ value = Batch!Others
          \/ value = Batch!Initial /\ before = {}
          \/ \E j \in before : value = Batch!Sent[j] /\ \A h \in before : h <= j
      BY <2>4, <2>5 DEF ValueAfter
    <2> QED
      BY <2>6, Zenon DEF k, value, before
  <1> QED
    BY <1>3 DEF Batch!ReadsSeeEarlierWrites

\* Each element of the result is what the service noted of the subrequest at its
\* position, but for bodies that the client cannot parse: also where bodies are
\* spread over several lines.
THEOREM BatchResultOfLog == Batch!Spec => [](BatchLog /\ ResultOfLog)
  <1>1. BatchInv => BatchLog /\ ResultOfLog
    BY DEF BatchInv
  <1> QED
    BY <1>1, BatchInvariance, PTL

\* The data of a batch keep their types.
THEOREM BatchTypeCorrect == Batch!Spec => []Batch!TypeOK
  BY BatchInvariance, BatchInvTypes, PTL

\* Where the service writes a body on one line, each element of the result is the
\* whole answer to the subrequest at its position, whatever was refused and
\* wherever the response broke off.
THEOREM BatchResultMatchesRequest ==
  ASSUME ~Multiline
  PROVE  Batch!Spec => []ResultMatchesRequest
  <1>1. BatchInv => ResultMatchesRequest
    BY BatchInvMatches
  <1> QED
    BY <1>1, BatchInvariance, PTL

\* Then a retrieve request also shows the last successful write before it.
THEOREM BatchReadsSeeEarlierWrites ==
  ASSUME ~Multiline
  PROVE  Batch!Spec => []ReadsSeeEarlierWrites
  <1>1. BatchInv => ReadsSeeEarlierWrites
    BY BatchInvReads
  <1> QED
    BY <1>1, BatchInvariance, PTL

-----------------------------------------------------------------------------
(* All six components                                                      *)

AllInv == MailInv /\ BatchInv /\ RetryInv /\ Mtls!TypeOK /\ ListsInv /\ CsrfInv

\* Each step is one of a component, and the others rest.
LEMMA AllNextInv ==
  ASSUME AllInv, [MCNext]_MCVars
  PROVE  AllInv'
  <1>1. /\ [Next]_vars /\ [Batch!Next]_(Batch!vars) /\ [Retry!Next]_(Retry!vars)
        /\ [Mtls!Next]_(Mtls!vars) /\ [Lists!Next]_(Lists!vars) /\ [Csrf!Next]_(Csrf!vars)
    BY DEF MCNext, MCVars, batchVars, retryVars, mtlsVars, listVars, csrfVars,
           vars, Batch!vars, Retry!vars, Mtls!vars, Lists!vars, Csrf!vars
  <1> QED
    BY <1>1, MailNextInv, BatchNextInv, RetryNextInv, MtlsNextType, ListsNextInv, CsrfNextInv
       DEF AllInv

\* The data of each component keep their types, whichever component runs.
THEOREM AllTypeCorrect == MCSpec => []AllTypes
  <1>1. MCInit => AllInv
    BY MailInitInv, BatchInit, RetryInitInv, MtlsInitType, ListsInitInv, CsrfInitInv
       DEF MCInit, AllInv
  <1>2. AllInv /\ [MCNext]_MCVars => AllInv'
    BY AllNextInv
  <1>3. AllInv => AllTypes
    BY BatchInvTypes DEF AllInv, AllTypes, MailInv, RetryInv, ListsInv, CsrfInv
  <1> QED
    BY <1>1, <1>2, <1>3, PTL DEF MCSpec
=============================================================================
