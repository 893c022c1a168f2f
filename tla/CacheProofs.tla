----------------------------- MODULE CacheProofs -----------------------------
(***************************************************************************)
(* What the operations of the cache do to its entries, for every key and   *)
(* every kind of entry.                                                    *)
(***************************************************************************)
EXTENDS Cache, TLAPS

\* What get() finds is the entry of the key that was asked for.
LEMMA GetReturnsEntry ==
  ASSUME NEW C, NEW key, NEW t, Get(C, key, t) # Undefined
  PROVE  key \in DOMAIN C /\ Get(C, key, t) = C[key].entry
BY DEF Get, HasKey

\* set() with a defined key changes that key's entry and no other.
LEMMA SetEntry ==
  ASSUME NEW C, NEW key, NEW item, NEW v, NEW t, key # Undefined,
         NEW k \in DOMAIN Set(C, key, item, v, t)
  PROVE  /\ k = key => Set(C, key, item, v, t)[k].entry = item.entry
         /\ k # key => k \in DOMAIN C /\ Set(C, key, item, v, t)[k] = C[k]
BY DEF Set, StoredItem

\* Given a numeric or absent expiry, set() stores a well-formed entry.
LEMMA SetEntryType ==
  ASSUME NEW C, NEW key, NEW T, NEW item, NEW v \in Nat, NEW t \in Nat,
         key # Undefined, item.entry \in T, item.expires \in Expiry
  PROVE  /\ key \in DOMAIN Set(C, key, item, v, t)
         /\ Set(C, key, item, v, t)[key] \in CacheEntry(T)
<1>1. /\ key \in DOMAIN Set(C, key, item, v, t)
      /\ Set(C, key, item, v, t)[key] = StoredItem(item, v, t)
  BY DEF Set
<1>2. StoredItem(item, v, t).expires \in Expiry
  BY DEF StoredItem, InferDefaultExpirationTime, Expiry
<1> QED
  BY <1>1, <1>2 DEF StoredItem, CacheEntry
=============================================================================
