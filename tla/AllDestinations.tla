-------------------------- MODULE AllDestinations --------------------------
(***************************************************************************)
(* getAllDestinationsFromDestinationService(): the destinations of the     *)
(* service instance and those of the subaccount are fetched at the same    *)
(* time with one token, each from destinationServiceCache or from the      *)
(* destination service, and joined.                                        *)
(*                                                                         *)
(* The result has no tokens: they are deleted from the objects, which are  *)
(* those in the cache if they come from there.  As the service sends no    *)
(* tokens with these lists, the deletion is left out.                      *)
(***************************************************************************)
EXTENDS Cache

CONSTANTS Calls, Tenants, Provider,
          OptionSets,  \* what calls are made with, a subset of Options
          Lifetime,    \* of an entry: five minutes
          MaxTime      \* bound of the clock

VARIABLES now,      \* the clock
          cache,    \* destinationServiceCache
          pc,       \* where each call stands
          opts,     \* its options
          account,  \* the account its token is for
          pending,  \* the requests of each call that are not answered yet
          lists     \* the lists a call has, by type

vars == <<now, cache, pc, opts, account, pending, lists>>

Types == {"instance", "subaccount"}

\* The tenant that the JWT or `iss' names, if any.
Options == [subscriber : Tenants \cup {Undefined}, useCache : BOOLEAN]

\* A list of destinations: whose it is, and when the service sent it.
List == [account : Tenants, type : Types, at : 0..MaxTime]

\* A list that a call has, and when it got it.
Taken == [list : List, taken : 0..MaxTime]

AllDestinationsAssumption ==
  /\ Provider \in Tenants
  /\ OptionSets \subseteq Options
  /\ Lifetime \in Nat \ {0} /\ MaxTime \in Nat
  /\ Undefined \notin Tenants \cup (Tenants \X Types) \cup List \cup Taken

\* Mutant: the lists of a tenant share one entry.
KeyWithoutType(tenant, type) == <<tenant, "subaccount">>

\* getDestinationCacheKey(): the target URI contains the type; isolation 'tenant'.
DestinationCacheKey(tenant, type) == <<tenant, type>>

RetrieveDestinations(c, tenant, type) ==
  IF opts[c].useCache THEN Get(cache, DestinationCacheKey(tenant, type), now) ELSE Undefined

-----------------------------------------------------------------------------

Init ==
  /\ now = 0
  /\ cache = EmptyCache
  /\ pc = [c \in Calls |-> "idle"]
  /\ opts = [c \in Calls |-> Undefined]
  /\ account = [c \in Calls |-> Undefined]
  /\ pending = [c \in Calls |-> {}]
  /\ lists = [c \in Calls |-> [t \in Types |-> Undefined]]

Call(c, o) ==
  /\ pc[c] = "idle"
  /\ opts' = [opts EXCEPT ![c] = o]
  /\ pc' = [pc EXCEPT ![c] = "token"]
  /\ UNCHANGED <<now, cache, account, pending, lists>>

\* Both calls of fetchDestinations() up to their first await: what the cache
\* has is taken at once, together with the moment, the rest is requested.
FetchWith(c, tenant) ==
  /\ account' = [account EXCEPT ![c] = tenant]
  /\ LET hit == [t \in Types |-> RetrieveDestinations(c, tenant, t)] IN
       /\ lists' = [lists EXCEPT ![c] =
            [t \in Types |-> IF hit[t] = Undefined THEN Undefined
                             ELSE [list |-> hit[t], taken |-> now]]]
       /\ pending' = [pending EXCEPT ![c] = { t \in Types : hit[t] = Undefined }]
  /\ pc' = [pc EXCEPT ![c] = "fetch"]
  /\ UNCHANGED <<now, cache, opts>>

AccountOf(c) == IF opts[c].subscriber = Undefined THEN Provider ELSE opts[c].subscriber

\* There is a token: the subscriber's, or the provider's if nobody is named.  The
\* exchange of the JWT before is part of the step: its result is assumed to name the
\* same tenant, and nothing it reads or writes is shared.
TokenArrives(c) ==
  /\ pc[c] = "token"
  /\ FetchWith(c, AccountOf(c))

\* The subscriber's token cannot be fetched, which is logged only.
FallBack(c) ==
  /\ pc[c] = "token"
  /\ opts[c].subscriber # Undefined
  /\ FetchWith(c, Provider)

TokenFails(c) ==
  /\ pc[c] = "token"
  /\ pc' = [pc EXCEPT ![c] = "failed"]
  /\ UNCHANGED <<now, cache, opts, account, pending, lists>>

\* A request is answered, perhaps after the other one has failed the call: the
\* list enters the cache all the same.
Answer(c, type) ==
  /\ type \in pending[c]
  /\ pending' = [pending EXCEPT ![c] = @ \ {type}]
  /\ LET list == [account |-> account[c], type |-> type, at |-> now] IN
       /\ lists' = [lists EXCEPT ![c][type] = [list |-> list, taken |-> now]]
       /\ cache' = IF opts[c].useCache
                     THEN Set(cache, DestinationCacheKey(account[c], type),
                              [entry |-> list, expires |-> Undefined], Lifetime, now)
                     ELSE cache
  /\ UNCHANGED <<now, pc, opts, account>>

FetchFails(c, type) ==
  /\ type \in pending[c]
  /\ pending' = [pending EXCEPT ![c] = @ \ {type}]
  /\ pc' = [pc EXCEPT ![c] = "failed"]
  /\ UNCHANGED <<now, cache, opts, account, lists>>

AllListsHere(c) == \A t \in Types : lists[c][t] # Undefined

Return(c) ==
  /\ pc[c] = "fetch"
  /\ AllListsHere(c)
  /\ pc' = [pc EXCEPT ![c] = "done"]
  /\ UNCHANGED <<now, cache, opts, account, pending, lists>>

Tick ==
  /\ now < MaxTime
  /\ now' = now + 1
  /\ UNCHANGED <<cache, pc, opts, account, pending, lists>>

Next ==
  \/ \E c \in Calls :
       \/ \E o \in OptionSets : Call(c, o)
       \/ TokenArrives(c) \/ FallBack(c) \/ TokenFails(c)
       \/ \E t \in Types : Answer(c, t) \/ FetchFails(c, t)
       \/ Return(c)
  \/ Tick

Spec == Init /\ [][Next]_vars

-----------------------------------------------------------------------------
(* Properties                                                              *)

TypeOK ==
  /\ now \in 0..MaxTime
  /\ DOMAIN cache \subseteq Tenants \X Types
  /\ \A k \in DOMAIN cache : cache[k] \in CacheEntry(List)
  /\ pc \in [Calls -> {"idle", "token", "fetch", "done", "failed"}]
  /\ opts \in [Calls -> OptionSets \cup {Undefined}]
  /\ account \in [Calls -> Tenants \cup {Undefined}]
  /\ pending \in [Calls -> SUBSET Types]
  /\ lists \in [Calls -> [Types -> Taken \cup {Undefined}]]

\* What a call returns is complete and of one account: its subscriber's, or the
\* provider's as a whole, however other calls fill the cache in between; and no
\* list in it is older than an entry may be.
ListsOfOneAccount ==
  \A c \in Calls : pc[c] = "done" =>
    /\ account[c] \in {opts[c].subscriber, Provider}
    /\ \A t \in Types :
         /\ lists[c][t] # Undefined
         /\ lists[c][t].list.account = account[c] /\ lists[c][t].list.type = t
         /\ lists[c][t].taken - lists[c][t].list.at <= Lifetime
=============================================================================
