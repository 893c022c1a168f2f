-------------------------------- MODULE Cache --------------------------------
(***************************************************************************)
(* The in-memory cache of packages/connectivity/src/scp-cf/cache.ts and    *)
(* its asynchronous wrapper async-cache.ts, as operators on a value        *)
(* `cache': a function whose domain is the set of keys the JavaScript      *)
(* object owns and whose values are the records [entry, expires].          *)
(*                                                                         *)
(* Time is in the unit of Date.now().  `expires' is a point in time, or    *)
(* Undefined (never expires), or NaN: JavaScript stores whatever the       *)
(* caller computed, and a comparison with NaN is always false.             *)
(***************************************************************************)
EXTENDS Naturals

CONSTANTS Undefined,  \* JavaScript's undefined
          NaN         \* JavaScript's not-a-number

ASSUME UndefinedAssumption == Undefined \notin Nat /\ NaN \notin Nat /\ Undefined # NaN

Expiry == Nat \cup {Undefined, NaN}

CacheEntry(T) == [entry : T, expires : Expiry]

\* constructor() and clear(): the object without own properties.
EmptyCache == [k \in {} |-> Undefined]

HasKey(cache, key) == key \in DOMAIN cache

\* `item.expires < Date.now()': strict, and false for undefined and NaN.
IsExpired(item, now) == item.expires \in Nat /\ item.expires < now

\* get(): undefined for a missing key, an absent entry or an expired one.
Get(cache, key, now) ==
  IF key # Undefined /\ HasKey(cache, key) /\ ~IsExpired(cache[key], now)
    THEN cache[key].entry
    ELSE Undefined

\* A validity of 0 means an unlimited cache duration.
InferDefaultExpirationTime(validity, now) ==
  IF validity = 0 THEN Undefined ELSE now + validity

\* Mutant: the entry is stored bare, without its expiration time.
StoredItemBare(item, validity, now) == item.entry

\* Mutant: the expiration time passed in is ignored.
StoredItemDefaultExpiry(item, validity, now) ==
  [entry   |-> item.entry,
   expires |-> InferDefaultExpirationTime(validity, now)]

\* `item.expires ?? default': only undefined is replaced, NaN is kept.
StoredItem(item, validity, now) ==
  [entry   |-> item.entry,
   expires |-> IF item.expires = Undefined
                 THEN InferDefaultExpirationTime(validity, now)
                 ELSE item.expires]

\* set(): nothing happens for an undefined key; an existing entry is replaced.
Set(cache, key, item, validity, now) ==
  IF key = Undefined
    THEN cache
    ELSE [k \in DOMAIN cache \cup {key} |->
            IF k = key THEN StoredItem(item, validity, now) ELSE cache[k]]
=============================================================================
