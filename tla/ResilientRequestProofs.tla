----------------------- MODULE ResilientRequestProofs -----------------------
(***************************************************************************)
(* For every set of calls, targets, tenants and options: breakers block a  *)
(* call only for failures of its own target and tenant, answers are final, *)
(* and the middlewares together implement RequestContract.                 *)
(***************************************************************************)
EXTENDS ResilientRequest, FiniteSetTheorems, TLAPS

-----------------------------------------------------------------------------
(* The inductive invariant                                                 *)

Phases == {"idle", "waiting", "backoff", "resolved", "rejected"}
ResultKinds == Answers \cup {"timeout", "blocked"}
FlightStates == {"none", "csrf", "csrfNoSlash", "sent", "answered"}

Typed ==
  /\ phase \in [Calls -> Phases]
  /\ results \in [Calls -> Seq(ResultKinds)]
  /\ flight \in [Calls -> Seq(FlightStates)]
  /\ token \in [Calls -> BOOLEAN]
  /\ breaker \in [Keys -> Breaker]

\* A call that goes on has attempts left and was not answered for good.
CallInv(c) ==
  /\ Len(flight[c]) = Len(results[c]) + (IF phase[c] = "waiting" THEN 1 ELSE 0)
  /\ phase[c] = "idle" => results[c] = <<>>
  /\ Len(results[c]) <= MaxAttempts(c)
  /\ phase[c] \in {"idle", "waiting", "backoff"} =>
       /\ Len(results[c]) < MaxAttempts(c)
       /\ \A i \in 1..Len(results[c]) : results[c][i] \notin {"ok", "4xx"}

\* The failed attempts that the breaker of key k has seen in its whole life.
Failed(k) ==
  UNION { { <<c, i>> : i \in { j \in 1..Len(results[c]) :
                                 results[c][j] \in {"failure", "timeout"} } } :
          c \in { d \in Calls : UseBreaker[d] /\ BreakerKey(d) = k } }

Enough(k) ==
  100 * Cardinality(Failed(k)) > ErrorThresholdPercentage * VolumeThreshold

\* A breaker counts no failure twice, and once it was open it had seen enough.
BreakerInv(k) ==
  /\ IsFiniteSet(Failed(k))
  /\ breaker[k].failures <= Cardinality(Failed(k))
  /\ breaker[k].state # "closed" => Enough(k)

BlockedInv ==
  \A c \in Calls : \A i \in 1..Len(results[c]) :
    results[c][i] = "blocked" => Enough(BreakerKey(c))

IInv ==
  /\ Typed
  /\ \A c \in Calls : CallInv(c)
  /\ \A k \in Keys : BreakerInv(k)
  /\ BlockedInv

-----------------------------------------------------------------------------
(* Keys, numbers and failures                                              *)

\* The breaker of a call is one of the breakers.
LEMMA KeyType ==
  ASSUME NEW c \in Calls
  PROVE  BreakerKey(c) \in Keys
  BY RequestAssumption DEF BreakerKey, Keys

\* Products with a larger factor are larger.
LEMMA Monotonic ==
  ASSUME NEW a \in Nat, NEW b \in Nat, NEW d \in Nat, b <= d
  PROVE  a * b \in Nat /\ a * d \in Nat /\ a * b <= a * d
  <1>1. PICK e \in Nat : d = b + e
    BY d - b \in Nat
  <1>2. a * d = a * b + a * e /\ a * e \in Nat /\ a * b \in Nat
    BY <1>1
  <1> QED BY <1>1, <1>2

\* The settings of the breakers are numbers, and so is their product.
LEMMA ThresholdType ==
  /\ ErrorThresholdPercentage \in Nat /\ VolumeThreshold \in Nat
  /\ ErrorThresholdPercentage * VolumeThreshold \in Nat
  BY RequestAssumption

\* Two calls share a breaker only if they share target and tenant.
LEMMA KeyNamesTenant ==
  ASSUME NEW c \in Calls, NEW d \in Calls, BreakerKey(c) = BreakerKey(d)
  PROVE  Uri[c] = Uri[d] /\ TenantId[c] = TenantId[d]
  BY RequestAssumption DEF BreakerKey

\* The end of an attempt is one more failure of its own breaker, or none.
LEMMA FailedGrows ==
  ASSUME Typed, NEW c \in Calls, NEW r \in ResultKinds, NEW k \in Keys,
         results' = [results EXCEPT ![c] = Append(@, r)]
  PROVE  /\ <<c, Len(results[c]) + 1>> \notin Failed(k)
         /\ Failed(k)' =
              IF UseBreaker[c] /\ BreakerKey(c) = k /\ r \in {"failure", "timeout"}
                THEN Failed(k) \cup {<<c, Len(results[c]) + 1>>} ELSE Failed(k)
  <1>1. /\ results[c] \in Seq(ResultKinds)
        /\ Len(results[c]) \in Nat
        /\ results'[c] = Append(results[c], r)
        /\ \A d \in Calls : d # c => results'[d] = results[d]
    BY DEF Typed
  <1>2. /\ Len(results'[c]) = Len(results[c]) + 1
        /\ \A i \in 1..Len(results[c]) : results'[c][i] = results[c][i]
        /\ results'[c][Len(results[c]) + 1] = r
    BY <1>1
  <1>3. <<c, Len(results[c]) + 1>> \notin Failed(k)
    BY <1>1 DEF Failed
  <1>4. ASSUME NEW d \in Calls, NEW i \in Nat
        PROVE  <<d, i>> \in Failed(k)' <=>
                 \/ <<d, i>> \in Failed(k)
                 \/ /\ UseBreaker[c] /\ BreakerKey(c) = k /\ r \in {"failure", "timeout"}
                    /\ d = c /\ i = Len(results[c]) + 1
    <2>1. /\ <<d, i>> \in Failed(k) <=>
               /\ UseBreaker[d] /\ BreakerKey(d) = k
               /\ i \in 1..Len(results[d]) /\ results[d][i] \in {"failure", "timeout"}
          /\ <<d, i>> \in Failed(k)' <=>
               /\ UseBreaker[d] /\ BreakerKey(d) = k
               /\ i \in 1..Len(results'[d]) /\ results'[d][i] \in {"failure", "timeout"}
      BY DEF Failed, BreakerKey
    <2>2. CASE d # c
      BY <2>1, <2>2, <1>1
    <2>3. CASE d = c
      <3>1. i \in 1..Len(results'[c]) <=> i \in 1..Len(results[c]) \/ i = Len(results[c]) + 1
        BY <1>1, <1>2
      <3> QED BY <2>1, <2>3, <3>1, <1>1, <1>2
    <2> QED BY <2>2, <2>3
  <1>5. /\ \A p \in Failed(k)' : \E d \in Calls, i \in Nat : p = <<d, i>>
        /\ \A p \in Failed(k) : \E d \in Calls, i \in Nat : p = <<d, i>>
    BY DEF Failed
  <1> DEFINE fails == UseBreaker[c] /\ BreakerKey(c) = k /\ r \in {"failure", "timeout"}
             new == <<c, Len(results[c]) + 1>>
  <1>6. ASSUME NEW d \in Calls, NEW i \in Nat
        PROVE  <<d, i>> \in Failed(k)' <=> <<d, i>> \in Failed(k) \/ (fails /\ <<d, i>> = new)
    BY <1>4
  <1>7. Len(results[c]) + 1 \in Nat
    BY <1>1
  <1> HIDE DEF fails
  <1>8. \A p : p \in Failed(k)' <=> p \in Failed(k) \/ (fails /\ p = new)
    BY <1>5, <1>6, <1>7
  <1>9. Failed(k)' = IF fails THEN Failed(k) \cup {new} ELSE Failed(k)
    BY <1>8
  <1> QED BY <1>3, <1>9 DEF fails

\* Failures are never forgotten.
LEMMA EnoughStays ==
  ASSUME Typed, NEW c \in Calls, NEW r \in ResultKinds, NEW k \in Keys,
         results' = [results EXCEPT ![c] = Append(@, r)], IsFiniteSet(Failed(k))
  PROVE  /\ IsFiniteSet(Failed(k)')
         /\ Cardinality(Failed(k)) \in Nat
         /\ Cardinality(Failed(k)') =
              IF UseBreaker[c] /\ BreakerKey(c) = k /\ r \in {"failure", "timeout"}
                THEN Cardinality(Failed(k)) + 1 ELSE Cardinality(Failed(k))
         /\ Enough(k) => Enough(k)'
  <1>1. /\ IsFiniteSet(Failed(k)')
        /\ Cardinality(Failed(k)) \in Nat
        /\ Cardinality(Failed(k)') =
             IF UseBreaker[c] /\ BreakerKey(c) = k /\ r \in {"failure", "timeout"}
               THEN Cardinality(Failed(k)) + 1 ELSE Cardinality(Failed(k))
    <2> DEFINE new == <<c, Len(results[c]) + 1>>
    <2>1. new \notin Failed(k)
      BY FailedGrows
    <2>2. /\ IsFiniteSet(Failed(k) \cup {new})
          /\ Cardinality(Failed(k) \cup {new}) = Cardinality(Failed(k)) + 1
          /\ Cardinality(Failed(k)) \in Nat
      BY <2>1, FS_AddElement, FS_CardinalityType
    <2>3. Failed(k)' = IF UseBreaker[c] /\ BreakerKey(c) = k /\ r \in {"failure", "timeout"}
                         THEN Failed(k) \cup {new} ELSE Failed(k)
      BY FailedGrows
    <2> QED BY <2>2, <2>3
  <1> QED BY <1>1, ThresholdType DEF Enough

-----------------------------------------------------------------------------
(* Circuit breakers                                                        *)

\* No call has begun, all breakers are closed.
LEMMA InitIInv == Init => IInv
  <1> SUFFICES ASSUME Init PROVE IInv
    OBVIOUS
  <1>1. Typed
    BY DEF Init, Typed, Phases, FreshBreaker, Breaker
  <1>2. \A c \in Calls : CallInv(c)
    BY RequestAssumption DEF Init, CallInv, MaxAttempts
  <1>3. \A k \in Keys : Failed(k) = {}
    BY DEF Init, Failed
  <1>4. \A k \in Keys : BreakerInv(k)
    <2> TAKE k \in Keys
    <2>1. breaker[k].failures = 0 /\ breaker[k].state = "closed"
      BY DEF Init, FreshBreaker
    <2>2. IsFiniteSet(Failed(k)) /\ Cardinality(Failed(k)) = 0
      BY <1>3, FS_EmptySet
    <2> QED BY <2>1, <2>2 DEF BreakerInv
  <1>5. BlockedInv
    BY DEF Init, BlockedInv
  <1> QED BY <1>1, <1>2, <1>4, <1>5 DEF IInv

\* What the end of an attempt does to its breaker: `n' failures were seen before.
LEMMA RecordedBreaker ==
  ASSUME NEW b \in Breaker, NEW result, NEW n \in Nat, NEW m \in Nat,
         m = IF result = "ok" \/ HttpErrorFilter(result) THEN n ELSE n + 1,
         b.failures <= n,
         b.state # "closed" => 100 * n > ErrorThresholdPercentage * VolumeThreshold
  PROVE  /\ Recorded(b, result) \in Breaker
         /\ Recorded(b, result).failures <= m
         /\ Recorded(b, result).state # "closed" =>
              100 * m > ErrorThresholdPercentage * VolumeThreshold
  <1>1. CASE result = "ok" \/ HttpErrorFilter(result)
    BY <1>1 DEF Recorded, AfterSuccess, Breaker
  <1>2. CASE ~(result = "ok" \/ HttpErrorFilter(result))
    <2> DEFINE failed == [b EXCEPT !.failures = @ + 1]
               tooMany == /\ failed.fires >= VolumeThreshold
                          /\ failed.failures * 100 > ErrorThresholdPercentage * failed.fires
    <2>1. /\ failed \in Breaker /\ failed.failures = b.failures + 1
          /\ failed.state = b.state /\ failed.fires = b.fires /\ b.fires \in Nat
      BY DEF Breaker
    <2>2. Recorded(b, result) = IF b.state = "halfOpen" \/ tooMany
                                  THEN [failed EXCEPT !.state = "open", !.pendingClose = FALSE]
                                  ELSE failed
      BY <1>2 DEF Recorded, AfterFailure
    <2>3. ASSUME tooMany
          PROVE  100 * m > ErrorThresholdPercentage * VolumeThreshold
      <3>1. ErrorThresholdPercentage * VolumeThreshold
              <= ErrorThresholdPercentage * failed.fires
        BY <2>1, <2>3, ThresholdType, Monotonic
      <3>2. ErrorThresholdPercentage * failed.fires \in Nat
        BY <2>1, ThresholdType, Monotonic
      <3>3. failed.failures <= m /\ failed.failures \in Nat
        BY <1>2, <2>1 DEF Breaker
      <3> HIDE DEF failed
      <3> QED BY <2>3, <3>1, <3>2, <3>3, ThresholdType
    <2>4. 100 * n > ErrorThresholdPercentage * VolumeThreshold
            => 100 * m > ErrorThresholdPercentage * VolumeThreshold
      BY <1>2, ThresholdType
    <2>5. failed.failures <= m
      BY <1>2, <2>1 DEF Breaker
    <2>6. Recorded(b, result) \in Breaker /\ Recorded(b, result).failures = failed.failures
      BY <2>1, <2>2 DEF Breaker
    <2>7. Recorded(b, result).state # "closed" => b.state # "closed" \/ tooMany
      BY <2>1, <2>2
    <2> QED BY <2>3, <2>4, <2>5, <2>6, <2>7
  <1> QED BY <1>1, <1>2

-----------------------------------------------------------------------------
(* Steps                                                                   *)

\* What Settle() makes of a call: one more result, and what follows from it.
LEMMA SettleEffect ==
  ASSUME Typed, NEW c \in Calls, NEW r \in ResultKinds, Settle(c, r)
  PROVE  /\ results' \in [Calls -> Seq(ResultKinds)] /\ phase' \in [Calls -> Phases]
         /\ results'[c] = Append(results[c], r)
         /\ phase'[c] = IF r = "ok" THEN "resolved"
                        ELSE IF IsRetried(c, r, Len(results[c]) + 1) THEN "backoff"
                        ELSE "rejected"
         /\ \A d \in Calls : d # c => results'[d] = results[d] /\ phase'[d] = phase[d]
  <1>1. /\ results \in [Calls -> Seq(ResultKinds)] /\ phase \in [Calls -> Phases]
        /\ results[c] \in Seq(ResultKinds)
    BY DEF Typed
  <1>2. Append(results[c], r) \in Seq(ResultKinds)
    BY <1>1
  <1>3. {"resolved", "backoff", "rejected"} \subseteq Phases
    BY DEF Phases
  <1> QED BY <1>1, <1>2, <1>3 DEF Settle

\* After the end of an attempt the call is over, or has attempts left.
LEMMA SettleCallInv ==
  ASSUME IInv, NEW c \in Calls, NEW r \in ResultKinds, Settle(c, r),
         phase[c] \in {"idle", "waiting", "backoff"},
         flight' \in [Calls -> Seq(FlightStates)],
         Len(flight'[c]) = Len(results[c]) + 1,
         \A d \in Calls : d # c => flight'[d] = flight[d]
  PROVE  \A d \in Calls : CallInv(d)'
  <1> TAKE d \in Calls
  <1>1. CallInv(c) /\ CallInv(d) /\ MaxAttempts(c) \in Nat
    BY RequestAssumption DEF IInv, MaxAttempts
  <1>2. CASE d # c
    <2>1. results'[d] = results[d] /\ phase'[d] = phase[d] /\ flight'[d] = flight[d]
      BY <1>2, SettleEffect DEF IInv
    <2> QED BY <1>1, <2>1 DEF CallInv, MaxAttempts
  <1>3. CASE d = c
    <2>1. results[c] \in Seq(ResultKinds)
      BY DEF IInv, Typed
    <2>2. results'[c] = Append(results[c], r)
      BY SettleEffect DEF IInv
    <2>3. /\ Len(results'[c]) = Len(results[c]) + 1 /\ Len(results[c]) \in Nat
          /\ \A i \in 1..Len(results[c]) : results'[c][i] = results[c][i]
          /\ results'[c][Len(results[c]) + 1] = r
          /\ results'[c] # <<>>
      BY <2>1, <2>2
    <2>4. phase'[c] = IF r = "ok" THEN "resolved"
                      ELSE IF IsRetried(c, r, Len(results[c]) + 1) THEN "backoff"
                      ELSE "rejected"
      BY SettleEffect DEF IInv
    <2>5. Len(results[c]) < MaxAttempts(c)
      BY <1>1 DEF CallInv
    <2>6. Len(flight'[c]) = Len(results'[c]) + (IF phase'[c] = "waiting" THEN 1 ELSE 0)
      BY <2>3, <2>4
    <2>7. Len(results'[c]) <= MaxAttempts(c)
      BY <1>1, <2>3, <2>5
    <2>8. ASSUME phase'[c] \in {"idle", "waiting", "backoff"}
          PROVE  /\ Len(results'[c]) < MaxAttempts(c)
                 /\ \A i \in 1..Len(results'[c]) : results'[c][i] \notin {"ok", "4xx"}
      <3>1. r \notin {"ok", "4xx"} /\ Len(results[c]) + 1 < MaxAttempts(c)
        BY <2>4, <2>8 DEF IsRetried
      <3>2. \A i \in 1..Len(results[c]) : results[c][i] \notin {"ok", "4xx"}
        BY <1>1, <2>4, <2>8 DEF CallInv
      <3>3. ASSUME NEW i \in 1..Len(results'[c])
            PROVE  results'[c][i] \notin {"ok", "4xx"}
        <4>1. i \in 1..Len(results[c]) \/ i = Len(results[c]) + 1
          BY <2>3
        <4> QED BY <4>1, <2>3, <3>1, <3>2
      <3>4. Len(results'[c]) < MaxAttempts(c)
        BY <2>3, <3>1
      <3> QED BY <3>3, <3>4
    <2>9. phase'[c] # "idle"
      BY <2>4
    <2> QED BY <1>3, <2>6, <2>7, <2>8, <2>9 DEF CallInv, MaxAttempts
  <1> QED BY <1>2, <1>3

\* Blocked results stay justified, and a new one was justified by its breaker.
LEMMA SettleBlockedInv ==
  ASSUME IInv, NEW c \in Calls, NEW r \in ResultKinds, Settle(c, r),
         r = "blocked" => Enough(BreakerKey(c))
  PROVE  BlockedInv'
  <1>1. results' = [results EXCEPT ![c] = Append(@, r)]
    BY DEF Settle
  <1>2. \A k \in Keys : Enough(k) => Enough(k)'
    BY <1>1, EnoughStays DEF IInv, BreakerInv
  <1>3. results[c] \in Seq(ResultKinds)
    BY DEF IInv, Typed
  <1> SUFFICES ASSUME NEW d \in Calls, NEW i \in 1..Len(results'[d]),
                      results'[d][i] = "blocked"
               PROVE  Enough(BreakerKey(d))'
    BY DEF BlockedInv
  <1>4. BreakerKey(d)' = BreakerKey(d) /\ BreakerKey(d) \in Keys
    BY KeyType DEF BreakerKey
  <1>5. CASE d = c /\ i = Len(results[c]) + 1
    <2>1. r = "blocked"
      BY <1>1, <1>3, <1>5 DEF IInv, Typed
    <2> QED BY <1>2, <1>4, <1>5, <2>1
  <1>6. CASE ~(d = c /\ i = Len(results[c]) + 1)
    <2>1. i \in 1..Len(results[d]) /\ results[d][i] = "blocked"
      BY <1>1, <1>3, <1>6 DEF IInv, Typed
    <2> QED BY <1>2, <1>4, <2>1 DEF IInv, BlockedInv
  <1> QED BY <1>5, <1>6

\* The breaker of an attempt counts its failure, the others saw nothing.
LEMMA EndAttemptBreaker ==
  ASSUME IInv, NEW c \in Calls, NEW r \in Answers \cup {"timeout"}, EndAttempt(c, r)
  PROVE  breaker' \in [Keys -> Breaker] /\ \A k \in Keys : BreakerInv(k)'
  <1>1. r \in ResultKinds /\ results' = [results EXCEPT ![c] = Append(@, r)]
    BY DEF EndAttempt, Settle, ResultKinds
  <1>2. breaker \in [Keys -> Breaker] /\ BreakerKey(c) \in Keys
    BY KeyType DEF IInv, Typed
  <1>3. ASSUME NEW k \in Keys
        PROVE  breaker'[k] \in Breaker /\ BreakerInv(k)'
    <2> DEFINE n == Cardinality(Failed(k))
               m == Cardinality(Failed(k)')
    <2>1. BreakerInv(k) /\ breaker[k] \in Breaker
      BY <1>2 DEF IInv
    <2>2. /\ IsFiniteSet(Failed(k)') /\ n \in Nat
          /\ m = IF UseBreaker[c] /\ BreakerKey(c) = k /\ r \in {"failure", "timeout"}
                   THEN n + 1 ELSE n
          /\ Enough(k) => Enough(k)'
      BY <1>1, <2>1, EnoughStays DEF IInv, BreakerInv
    <2>3. CASE UseBreaker[c] /\ BreakerKey(c) = k
      <3>1. breaker'[k] = Recorded(breaker[k], r)
        BY <1>2, <2>3 DEF EndAttempt
      <3>2. m = IF r = "ok" \/ HttpErrorFilter(r) THEN n ELSE n + 1
        BY <2>2, <2>3 DEF HttpErrorFilter, Answers
      <3>3. /\ breaker[k].failures <= n
            /\ breaker[k].state # "closed" =>
                 100 * n > ErrorThresholdPercentage * VolumeThreshold
        BY <2>1 DEF BreakerInv, Enough
      <3>4. m \in Nat
        BY <2>2
      <3> HIDE DEF n, m
      <3>5. /\ Recorded(breaker[k], r) \in Breaker
            /\ Recorded(breaker[k], r).failures <= m
            /\ Recorded(breaker[k], r).state # "closed" =>
                 100 * m > ErrorThresholdPercentage * VolumeThreshold
        BY <2>1, <2>2, <3>2, <3>3, <3>4, RecordedBreaker
      <3> QED BY <2>2, <3>1, <3>5 DEF m, BreakerInv, Enough
    <2>4. CASE ~(UseBreaker[c] /\ BreakerKey(c) = k)
      <3>1. breaker'[k] = breaker[k]
        BY <1>2, <2>4 DEF EndAttempt
      <3>2. m = n
        BY <2>2, <2>4
      <3> QED BY <2>1, <2>2, <3>1, <3>2 DEF BreakerInv
    <2> QED BY <2>3, <2>4
  <1>4. DOMAIN breaker' = Keys /\ breaker' = [k \in Keys |-> breaker'[k]]
    BY <1>2 DEF EndAttempt
  <1> QED BY <1>3, <1>4

\* The end of an awaited attempt, whichever way it ends.
LEMMA EndAttemptPreserves ==
  ASSUME IInv, NEW c \in Calls, NEW r \in Answers \cup {"timeout"}, EndAttempt(c, r),
         phase[c] = "waiting", token' = token,
         flight' \in [Calls -> Seq(FlightStates)],
         \A d \in Calls : Len(flight'[d]) = Len(flight[d]) /\ (d # c => flight'[d] = flight[d])
  PROVE  IInv'
  <1>1. r \in ResultKinds /\ r # "blocked" /\ Settle(c, r)
    BY DEF EndAttempt, ResultKinds, Answers
  <1>2. Len(flight'[c]) = Len(results[c]) + 1
    BY DEF IInv, CallInv
  <1>3. Typed'
    BY <1>1, SettleEffect, EndAttemptBreaker DEF IInv, Typed
  <1>4. \A d \in Calls : CallInv(d)'
    BY <1>1, <1>2, SettleCallInv
  <1>5. BlockedInv'
    BY <1>1, SettleBlockedInv
  <1>6. \A k \in Keys : BreakerInv(k)'
    BY EndAttemptBreaker
  <1>7. Keys' = Keys
    BY DEF Keys
  <1> QED BY <1>3, <1>4, <1>5, <1>6, <1>7 DEF IInv

\* While no attempt ends, a breaker may open for another reason only if it was
\* open before, and may forget failures.
LEMMA QuietBreakers ==
  ASSUME IInv, results' = results, breaker' \in [Keys -> Breaker],
         \A k \in Keys : /\ breaker'[k].failures <= breaker[k].failures
                         /\ breaker[k].state = "closed" => breaker'[k].state = "closed"
  PROVE  (\A k \in Keys : BreakerInv(k)') /\ BlockedInv'
  <1>1. \A k \in Keys : Failed(k)' = Failed(k)
    BY DEF Failed, BreakerKey
  <1>2. \A k \in Keys : Enough(k)' <=> Enough(k)
    BY <1>1 DEF Enough
  <1>3. ASSUME NEW k \in Keys
        PROVE  BreakerInv(k)'
    <2>1. BreakerInv(k) /\ breaker[k] \in Breaker /\ breaker'[k] \in Breaker
      BY DEF IInv, Typed
    <2>2. IsFiniteSet(Failed(k)') /\ Cardinality(Failed(k)') = Cardinality(Failed(k))
      BY <1>1, <2>1 DEF BreakerInv
    <2>3. Cardinality(Failed(k)) \in Nat
      BY <2>1, FS_CardinalityType DEF BreakerInv
    <2>4. breaker'[k].failures <= Cardinality(Failed(k)')
      BY <2>1, <2>2, <2>3 DEF BreakerInv, Breaker
    <2> QED BY <1>2, <2>1, <2>2, <2>4 DEF BreakerInv
  <1>4. BlockedInv'
    <2> SUFFICES ASSUME NEW d \in Calls, NEW i \in 1..Len(results[d]),
                        results[d][i] = "blocked"
                 PROVE  Enough(BreakerKey(d))'
      BY DEF BlockedInv
    <2>1. Enough(BreakerKey(d))
      BY DEF IInv, BlockedInv
    <2>2. BreakerKey(d) \in Keys /\ BreakerKey(d)' = BreakerKey(d)
      BY KeyType DEF BreakerKey
    <2> QED BY <1>2, <2>1, <2>2
  <1> QED BY <1>3, <1>4

\* What a call, the reset timer and the rolling window do to a breaker.
LEMMA BreakerSteps ==
  ASSUME NEW b \in Breaker
  PROVE  /\ b.failures \in Nat
         /\ Fired(b) \in Breaker /\ Fired(b).failures = b.failures /\ Fired(b).state = b.state
         /\ [b EXCEPT !.fires = @ + 1] \in Breaker
         /\ [b EXCEPT !.state = "halfOpen", !.pendingClose = TRUE] \in Breaker
         /\ [b EXCEPT !.fires = 0, !.failures = 0] \in Breaker
  <1>1. b.failures \in Nat /\ b.fires \in Nat
    BY DEF Breaker
  <1>2. Fired(b) \in Breaker /\ Fired(b).failures = b.failures /\ Fired(b).state = b.state
    <2> DEFINE f == [b EXCEPT !.fires = @ + 1]
    <2>1. f \in Breaker /\ f.failures = b.failures /\ f.state = b.state
      BY DEF Breaker
    <2>2. Fired(b) = [f EXCEPT !.pendingClose = FALSE]
      BY DEF Fired
    <2> HIDE DEF f
    <2> QED BY <2>1, <2>2 DEF Breaker
  <1>3. [b EXCEPT !.fires = @ + 1] \in Breaker
    BY DEF Breaker
  <1>4. [b EXCEPT !.state = "halfOpen", !.pendingClose = TRUE] \in Breaker
    BY DEF Breaker
  <1>5. [b EXCEPT !.fires = 0, !.failures = 0] \in Breaker
    BY DEF Breaker
  <1> QED BY <1>1, <1>2, <1>3, <1>4, <1>5

\* A call that is about to make an attempt has one flight for each result.
LEMMA FlightsOfResults ==
  ASSUME IInv, NEW c \in Calls, phase[c] \in {"idle", "backoff"}
  PROVE  Len(flight[c]) = Len(results[c]) /\ Len(results[c]) \in Nat
  <1>1. Len(results[c]) \in Nat
    BY DEF IInv, Typed
  <1>2. phase[c] # "waiting"
    OBVIOUS
  <1>3. Len(flight[c]) = Len(results[c]) + (IF phase[c] = "waiting" THEN 1 ELSE 0)
    BY DEF IInv, CallInv
  <1>4. Len(flight[c]) = Len(results[c]) + 0
    BY <1>2, <1>3
  <1> QED BY <1>1, <1>4

\* A breaker that is replaced by one that is not further from opening.
LEMMA ReplaceBreaker ==
  ASSUME IInv, NEW k \in Keys, NEW b \in Breaker, breaker' = [breaker EXCEPT ![k] = b],
         b.failures <= breaker[k].failures, breaker[k].state = "closed" => b.state = "closed"
  PROVE  /\ breaker' \in [Keys -> Breaker]
         /\ \A j \in Keys : /\ breaker'[j].failures <= breaker[j].failures
                            /\ breaker[j].state = "closed" => breaker'[j].state = "closed"
  <1>1. breaker \in [Keys -> Breaker]
    BY DEF IInv, Typed
  <1>2. \A j \in Keys : breaker[j].failures \in Nat
    BY <1>1 DEF Breaker
  <1> QED BY <1>1, <1>2

\* An attempt that the breaker ends at once.
LEMMA BlockedAttemptPreserves ==
  ASSUME IInv, NEW c \in Calls, Attempt(c),
         UseBreaker[c] /\ Blocks(breaker[BreakerKey(c)])
  PROVE  IInv'
  <1> DEFINE k == BreakerKey(c)
  <1>1. /\ phase[c] \in {"idle", "backoff"}
        /\ breaker' = [breaker EXCEPT ![k].fires = @ + 1]
        /\ flight' = [flight EXCEPT ![c] = Append(@, "none")]
        /\ Settle(c, "blocked") /\ UNCHANGED token
    BY DEF Attempt
  <1>2. /\ k \in Keys /\ breaker \in [Keys -> Breaker] /\ BreakerInv(k)
        /\ flight \in [Calls -> Seq(FlightStates)] /\ CallInv(c)
    BY KeyType DEF IInv, Typed
  <1>3. "blocked" \in ResultKinds /\ "none" \in FlightStates
    BY DEF ResultKinds, FlightStates
  <1>4. /\ flight' \in [Calls -> Seq(FlightStates)]
        /\ Len(flight'[c]) = Len(results[c]) + 1
        /\ \A d \in Calls : d # c => flight'[d] = flight[d]
    <2>1. flight[c] \in Seq(FlightStates) /\ flight'[c] = Append(flight[c], "none")
      BY <1>1, <1>2
    <2>2. flight'[c] \in Seq(FlightStates) /\ Len(flight'[c]) = Len(flight[c]) + 1
      BY <2>1, <1>3
    <2>3. Len(flight[c]) = Len(results[c])
      BY <1>1, FlightsOfResults
    <2> QED BY <1>1, <1>2, <2>2, <2>3
  <1>5. \A d \in Calls : CallInv(d)'
    BY <1>1, <1>3, <1>4, SettleCallInv
  <1>6. Enough(k)
    BY <1>2 DEF Blocks, BreakerInv
  <1>7. BlockedInv'
    BY <1>1, <1>3, <1>6, SettleBlockedInv
  <1> DEFINE b == [breaker[k] EXCEPT !.fires = @ + 1]
  <1>11. /\ b \in Breaker /\ breaker' = [breaker EXCEPT ![k] = b]
        /\ b.failures = breaker[k].failures /\ b.state = breaker[k].state
    <2>1. breaker[k] \in Breaker
      BY <1>2
    <2>2. b \in Breaker
      BY <2>1, BreakerSteps
    <2> QED BY <1>1, <1>2, <2>1, <2>2 DEF Breaker
  <1> HIDE DEF b
  <1>8. breaker' \in [Keys -> Breaker]
    BY <1>2, <1>11
  <1>9. ASSUME NEW j \in Keys
        PROVE  BreakerInv(j)'
    <2>1. BreakerInv(j)
      BY DEF IInv
    <2>2. breaker'[j].failures = breaker[j].failures /\ breaker'[j].state = breaker[j].state
      BY <1>2, <1>11
    <2>3. results' = [results EXCEPT ![c] = Append(@, "blocked")]
      BY <1>1 DEF Settle
    <2>4. /\ IsFiniteSet(Failed(j)')
          /\ Cardinality(Failed(j)') = Cardinality(Failed(j))
          /\ Enough(j) => Enough(j)'
      BY <1>3, <2>1, <2>3, EnoughStays DEF IInv, BreakerInv
    <2> QED BY <2>1, <2>2, <2>4 DEF BreakerInv
  <1>10. Typed'
    BY <1>1, <1>3, <1>4, <1>8, SettleEffect DEF IInv, Typed
  <1> QED BY <1>5, <1>7, <1>9, <1>10 DEF IInv, Keys

\* An attempt whose request, or the one for its CSRF token, is sent.
LEMMA SentAttemptPreserves ==
  ASSUME IInv, NEW c \in Calls, Attempt(c),
         ~(UseBreaker[c] /\ Blocks(breaker[BreakerKey(c)]))
  PROVE  IInv'
  <1> DEFINE k == BreakerKey(c)
             state == IF NeedsCsrfToken(c) THEN "csrf" ELSE "sent"
  <1>1. /\ phase[c] \in {"idle", "backoff"}
        /\ breaker' = IF UseBreaker[c] THEN [breaker EXCEPT ![k] = Fired(@)] ELSE breaker
        /\ flight' = [flight EXCEPT ![c] = Append(@, state)]
        /\ phase' = [phase EXCEPT ![c] = "waiting"]
        /\ UNCHANGED <<results, token>>
    BY DEF Attempt
  <1>2. /\ k \in Keys /\ breaker \in [Keys -> Breaker]
        /\ flight \in [Calls -> Seq(FlightStates)] /\ phase \in [Calls -> Phases]
    BY KeyType DEF IInv, Typed
  <1>3. state \in FlightStates /\ "waiting" \in Phases
    BY DEF FlightStates, Phases
  <1> HIDE DEF state
  <1>4. /\ flight' \in [Calls -> Seq(FlightStates)]
        /\ Len(flight'[c]) = Len(flight[c]) + 1
        /\ \A d \in Calls : d # c => flight'[d] = flight[d]
    BY <1>1, <1>2, <1>3
  <1>5. ASSUME NEW d \in Calls
        PROVE  CallInv(d)'
    <2>1. CallInv(d)
      BY DEF IInv
    <2>2. CASE d # c
      BY <1>1, <1>2, <1>4, <2>1, <2>2 DEF CallInv, MaxAttempts
    <2>3. CASE d = c
      <3>1. phase'[c] = "waiting" /\ results'[c] = results[c] /\ Len(results[c]) \in Nat
        BY <1>1, <1>2 DEF IInv, Typed
      <3>2. Len(flight[c]) = Len(results[c])
        BY <1>1, FlightsOfResults
      <3>3. Len(flight'[c]) = Len(results[c]) + 1
        BY <1>4, <3>2
      <3>4. /\ Len(results[c]) < MaxAttempts(c) /\ Len(results[c]) <= MaxAttempts(c)
            /\ \A i \in 1..Len(results[c]) : results[c][i] \notin {"ok", "4xx"}
        BY <1>1, <2>1, <2>3 DEF CallInv
      <3> QED BY <2>3, <3>1, <3>3, <3>4 DEF CallInv, MaxAttempts
    <2> QED BY <2>2, <2>3
  <1>6. /\ breaker' \in [Keys -> Breaker]
        /\ \A j \in Keys : /\ breaker'[j].failures <= breaker[j].failures
                           /\ breaker[j].state = "closed" => breaker'[j].state = "closed"
    <2>1. breaker[k] \in Breaker
      BY <1>2
    <2>2. /\ Fired(breaker[k]) \in Breaker /\ Fired(breaker[k]).state = breaker[k].state
          /\ Fired(breaker[k]).failures = breaker[k].failures
          /\ breaker[k].failures \in Nat
      BY <2>1, BreakerSteps
    <2>3. CASE UseBreaker[c]
      <3>1. breaker' = [breaker EXCEPT ![k] = Fired(breaker[k])]
        BY <1>1, <2>3
      <3>2. Fired(breaker[k]).failures <= breaker[k].failures
        BY <2>2
      <3> QED BY <1>2, <2>2, <3>1, <3>2, ReplaceBreaker
    <2>4. CASE ~UseBreaker[c]
      BY <1>1, <1>2, <2>4 DEF Breaker
    <2> QED BY <2>3, <2>4
  <1>8. (\A j \in Keys : BreakerInv(j)') /\ BlockedInv'
    BY <1>1, <1>6, QuietBreakers
  <1>9. Typed'
    BY <1>1, <1>2, <1>3, <1>4, <1>6 DEF IInv, Typed
  <1> QED BY <1>5, <1>8, <1>9 DEF IInv, Keys

\* A step that changes the state of one request under way, and perhaps its token.
LEMMA FlightPreserves ==
  ASSUME IInv, NEW c \in Calls, NEW i \in DOMAIN flight[c], NEW state \in FlightStates,
         flight' = [flight EXCEPT ![c][i] = state]
  PROVE  /\ flight' \in [Calls -> Seq(FlightStates)]
         /\ \A d \in Calls : Len(flight'[d]) = Len(flight[d]) /\ (d # c => flight'[d] = flight[d])
  <1>1. flight \in [Calls -> Seq(FlightStates)] /\ flight[c] \in Seq(FlightStates)
    BY DEF IInv, Typed
  <1>2. flight'[c] = [flight[c] EXCEPT ![i] = state]
    BY <1>1
  <1>3. flight'[c] \in Seq(FlightStates) /\ Len(flight'[c]) = Len(flight[c])
    BY <1>1, <1>2
  <1> QED BY <1>1, <1>3

\* Steps of requests that nobody waits for leave everything else alone.
LEMMA QuietFlightPreserves ==
  ASSUME IInv, UNCHANGED <<phase, results, breaker>>, token' \in [Calls -> BOOLEAN],
         flight' \in [Calls -> Seq(FlightStates)],
         \A d \in Calls : Len(flight'[d]) = Len(flight[d])
  PROVE  IInv'
  <1>1. breaker \in [Keys -> Breaker]
    BY DEF IInv, Typed
  <1>2. \A k \in Keys : breaker[k].failures \in Nat
    BY <1>1 DEF Breaker
  <1>3. (\A j \in Keys : BreakerInv(j)') /\ BlockedInv'
    BY <1>1, <1>2, QuietBreakers
  <1>4. \A d \in Calls : CallInv(d)'
    BY DEF IInv, CallInv, MaxAttempts
  <1>5. Typed'
    BY DEF IInv, Typed
  <1> QED BY <1>3, <1>4, <1>5 DEF IInv, Keys

\* The token's answer lets the request follow, or ends the attempt.
LEMMA CsrfAnswerPreserves ==
  ASSUME IInv, NEW c \in Calls, NEW i \in MaxFlights, NEW found \in BOOLEAN,
         CsrfAnswer(c, i, found)
  PROVE  IInv'
  <1>1. PICK state \in FlightStates : flight' = [flight EXCEPT ![c][i] = state]
    BY DEF CsrfAnswer, FlightStates
  <1>2. /\ flight' \in [Calls -> Seq(FlightStates)]
        /\ \A d \in Calls : Len(flight'[d]) = Len(flight[d])
    BY <1>1, FlightPreserves DEF CsrfAnswer
  <1>3. token' \in [Calls -> BOOLEAN]
    BY DEF CsrfAnswer, IInv, Typed
  <1> QED BY <1>2, <1>3, QuietFlightPreserves DEF CsrfAnswer

\* An answer settles the attempt that is waited for, and no other.
LEMMA AnswerPreserves ==
  ASSUME IInv, NEW c \in Calls, NEW i \in MaxFlights, NEW r \in Answers, Answer(c, i, r)
  PROVE  IInv'
  <1>1. /\ i \in DOMAIN flight[c] /\ flight' = [flight EXCEPT ![c][i] = "answered"]
        /\ "answered" \in FlightStates /\ token' = token
    BY DEF Answer, FlightStates
  <1>2. /\ flight' \in [Calls -> Seq(FlightStates)]
        /\ \A d \in Calls : Len(flight'[d]) = Len(flight[d]) /\ (d # c => flight'[d] = flight[d])
    BY <1>1, FlightPreserves
  <1>3. CASE IsAwaited(c, i)
    <2>1. EndAttempt(c, r) /\ phase[c] = "waiting"
      BY <1>3 DEF Answer, IsAwaited
    <2> QED BY <1>1, <1>2, <2>1, EndAttemptPreserves
  <1>4. CASE ~IsAwaited(c, i)
    <2>1. UNCHANGED <<phase, results, breaker>> /\ token' \in [Calls -> BOOLEAN]
      BY <1>4 DEF Answer, IInv, Typed
    <2> QED BY <1>2, <2>1, QuietFlightPreserves
  <1> QED BY <1>3, <1>4

\* A timeout ends the attempt and leaves its request under way.
LEMMA TimeoutPreserves ==
  ASSUME IInv, NEW c \in Calls, Timeout(c)
  PROVE  IInv'
  <1>1. flight' \in [Calls -> Seq(FlightStates)]
    BY DEF Timeout, IInv, Typed
  <1> QED BY <1>1, EndAttemptPreserves DEF Timeout

\* The timers of the breakers.
LEMMA BreakerTimersPreserve ==
  ASSUME IInv, NEW k \in Keys, ResetTimeout(k) \/ RollWindow(k)
  PROVE  IInv'
  <1>1. UNCHANGED <<phase, results, flight, token>>
    BY DEF ResetTimeout, RollWindow
  <1>2. breaker \in [Keys -> Breaker] /\ \A j \in Keys : breaker[j].failures \in Nat
    BY DEF IInv, Typed, Breaker
  <1>3. /\ breaker' \in [Keys -> Breaker]
        /\ \A j \in Keys : /\ breaker'[j].failures <= breaker[j].failures
                           /\ breaker[j].state = "closed" => breaker'[j].state = "closed"
    <2>1. breaker[k] \in Breaker
      BY <1>2
    <2>2. CASE ResetTimeout(k)
      <3> DEFINE b == [breaker[k] EXCEPT !.state = "halfOpen", !.pendingClose = TRUE]
      <3>1. b \in Breaker /\ breaker[k].failures \in Nat
        BY <2>1, BreakerSteps
      <3>3. b.failures = breaker[k].failures
        BY <2>1 DEF Breaker
      <3>2. breaker' = [breaker EXCEPT ![k] = b] /\ breaker[k].state # "closed"
        BY <1>2, <2>2 DEF ResetTimeout
      <3> HIDE DEF b
      <3>4. b.failures <= breaker[k].failures
        BY <3>1, <3>3
      <3> QED BY <3>1, <3>2, <3>3, <3>4, ReplaceBreaker
    <2>3. CASE RollWindow(k)
      <3> DEFINE b == [breaker[k] EXCEPT !.fires = 0, !.failures = 0]
      <3>1. b \in Breaker /\ breaker[k].failures \in Nat
        BY <2>1, BreakerSteps
      <3>3. b.failures = 0 /\ b.state = breaker[k].state
        BY <2>1 DEF Breaker
      <3>2. breaker' = [breaker EXCEPT ![k] = b]
        BY <1>2, <2>3 DEF RollWindow
      <3> HIDE DEF b
      <3>4. b.failures <= breaker[k].failures
        BY <3>1, <3>3
      <3> QED BY <3>1, <3>2, <3>3, <3>4, ReplaceBreaker
    <2> QED BY <2>2, <2>3
  <1>4. (\A j \in Keys : BreakerInv(j)') /\ BlockedInv'
    BY <1>1, <1>3, QuietBreakers
  <1>5. \A d \in Calls : CallInv(d)'
    BY <1>1 DEF IInv, CallInv, MaxAttempts
  <1>6. Typed'
    BY <1>1, <1>3 DEF IInv, Typed
  <1> QED BY <1>4, <1>5, <1>6 DEF IInv, Keys

\* A step that changes nothing keeps the invariant.
LEMMA StutterPreserves ==
  ASSUME IInv, UNCHANGED vars
  PROVE  IInv'
  <1>1. token' \in [Calls -> BOOLEAN] /\ flight' \in [Calls -> Seq(FlightStates)]
    BY DEF IInv, Typed, vars
  <1> QED BY <1>1, QuietFlightPreserves DEF vars

\* Every step keeps the invariant.
LEMMA NextPreserves == IInv /\ [Next]_vars => IInv'
  <1> SUFFICES ASSUME IInv, [Next]_vars PROVE IInv'
    OBVIOUS
  <1>1. ASSUME NEW c \in Calls, Attempt(c) PROVE IInv'
    BY <1>1, BlockedAttemptPreserves, SentAttemptPreserves
  <1>2. ASSUME NEW c \in Calls, NEW i \in MaxFlights, NEW found \in BOOLEAN,
               CsrfAnswer(c, i, found)
        PROVE  IInv'
    BY <1>2, CsrfAnswerPreserves
  <1>3. ASSUME NEW c \in Calls, NEW i \in MaxFlights, NEW r \in Answers, Answer(c, i, r)
        PROVE  IInv'
    BY <1>3, AnswerPreserves
  <1>4. ASSUME NEW c \in Calls, Timeout(c) PROVE IInv'
    BY <1>4, TimeoutPreserves
  <1>5. ASSUME NEW k \in Keys, ResetTimeout(k) \/ RollWindow(k) PROVE IInv'
    BY <1>5, BreakerTimersPreserve
  <1>6. CASE UNCHANGED vars
    BY <1>6, StutterPreserves
  <1> QED BY <1>1, <1>2, <1>3, <1>4, <1>5, <1>6 DEF Next

\* The invariant holds in all behaviours.
LEMMA Invariance == Spec => []IInv
  BY InitIInv, NextPreserves, PTL DEF Spec

-----------------------------------------------------------------------------
(* Invariants and the action property                                      *)

\* The state of all calls and breakers has its type, for every set of calls.
THEOREM RequestTypes == Spec => []TypeOK
  <1>1. IInv => TypeOK
    <2> SUFFICES ASSUME IInv PROVE TypeOK
      OBVIOUS
    <2>1. ASSUME NEW c \in Calls
          PROVE  /\ \A i \in DOMAIN results[c] : results[c][i] \in Answers \cup {"timeout", "blocked"}
                 /\ \A i \in DOMAIN flight[c] :
                      flight[c][i] \in {"none", "csrf", "csrfNoSlash", "sent", "answered"}
                 /\ Len(flight[c]) = Len(results[c]) + (IF phase[c] = "waiting" THEN 1 ELSE 0)
      <3>1. results[c] \in Seq(ResultKinds) /\ flight[c] \in Seq(FlightStates) /\ CallInv(c)
        BY DEF IInv, Typed
      <3>2. \A i \in DOMAIN results[c] : results[c][i] \in ResultKinds
        BY <3>1
      <3>3. \A i \in DOMAIN flight[c] : flight[c][i] \in FlightStates
        BY <3>1
      <3> QED BY <3>1, <3>2, <3>3 DEF CallInv, ResultKinds, FlightStates
    <2> QED BY <2>1 DEF IInv, Typed, TypeOK, Phases
  <1> QED BY <1>1, Invariance, PTL

\* A breaker fails calls of a tenant fast only after enough failed attempts of
\* that very tenant at that very target, whatever calls share the process.
THEOREM RequestBlockedByOwnFailures == Spec => []BlockedByOwnFailures
  <1>1. IInv => BlockedByOwnFailures
    <2> SUFFICES ASSUME IInv, NEW c \in Calls, NEW i \in DOMAIN results[c],
                        results[c][i] = "blocked"
                 PROVE  100 * Cardinality(FailuresOf(Uri[c], TenantId[c]))
                          > ErrorThresholdPercentage * VolumeThreshold
      BY DEF BlockedByOwnFailures
    <2>1. \A d \in Calls : results[d] \in Seq(ResultKinds)
      BY DEF IInv, Typed
    <2>2. { d \in Calls : UseBreaker[d] /\ Uri[d] = Uri[c] /\ TenantId[d] = TenantId[c] }
            = { d \in Calls : UseBreaker[d] /\ BreakerKey(d) = BreakerKey(c) }
      BY KeyNamesTenant DEF BreakerKey
    <2>3. \A d \in Calls : DOMAIN results[d] = 1..Len(results[d])
      BY <2>1
    <2>4. FailuresOf(Uri[c], TenantId[c]) = Failed(BreakerKey(c))
      BY <2>2, <2>3 DEF FailuresOf, Failed
    <2>5. Enough(BreakerKey(c))
      BY <2>3 DEF IInv, BlockedInv
    <2> QED BY <2>4, <2>5 DEF Enough
  <1> QED BY <1>1, Invariance, PTL

\* No attempt follows an answer of the target with success or a client error,
\* whatever attempts that have timed out still do.
THEOREM RequestAnswerIsFinal == Spec => AnswerIsFinal
  <1> DEFINE Final == \A c \in Calls : \A i \in DOMAIN results[c] :
                        results[c][i] \in {"ok", "4xx"} => Len(flight'[c]) = Len(flight[c])
  <1>1. IInv /\ [Next]_vars => [Final]_vars
    <2> SUFFICES ASSUME IInv, Next, NEW c \in Calls, NEW i \in DOMAIN results[c],
                        results[c][i] \in {"ok", "4xx"}
                 PROVE  Len(flight'[c]) = Len(flight[c])
      OBVIOUS
    <2>1. phase[c] \notin {"idle", "waiting", "backoff"}
      <3>1. i \in 1..Len(results[c])
        BY DEF IInv, Typed
      <3> QED BY <3>1 DEF IInv, CallInv
    <2>2. flight \in [Calls -> Seq(FlightStates)]
      BY DEF IInv, Typed
    <2>3. ASSUME NEW d \in Calls, Attempt(d) PROVE Len(flight'[c]) = Len(flight[c])
      <3>1. d # c
        BY <2>1, <2>3 DEF Attempt
      <3> QED BY <2>2, <2>3, <3>1 DEF Attempt
    <2>4. ASSUME NEW d \in Calls, NEW j \in MaxFlights, NEW found \in BOOLEAN,
                 CsrfAnswer(d, j, found)
          PROVE  Len(flight'[c]) = Len(flight[c])
      <3>1. PICK state \in FlightStates : flight' = [flight EXCEPT ![d][j] = state]
        BY <2>4 DEF CsrfAnswer, FlightStates
      <3> QED BY <2>4, <3>1, FlightPreserves DEF CsrfAnswer
    <2>5. ASSUME NEW d \in Calls, NEW j \in MaxFlights, NEW r \in Answers, Answer(d, j, r)
          PROVE  Len(flight'[c]) = Len(flight[c])
      <3>1. "answered" \in FlightStates /\ flight' = [flight EXCEPT ![d][j] = "answered"]
        BY <2>5 DEF Answer, FlightStates
      <3> QED BY <2>5, <3>1, FlightPreserves DEF Answer
    <2>6. ASSUME NEW d \in Calls, Timeout(d) PROVE Len(flight'[c]) = Len(flight[c])
      BY <2>6 DEF Timeout
    <2>7. ASSUME NEW k \in Keys, ResetTimeout(k) \/ RollWindow(k)
          PROVE  Len(flight'[c]) = Len(flight[c])
      BY <2>7 DEF ResetTimeout, RollWindow
    <2> QED BY <2>3, <2>4, <2>5, <2>6, <2>7 DEF Next
  <1> QED BY <1>1, Invariance, PTL DEF Spec, AnswerIsFinal

-----------------------------------------------------------------------------
(* The refinement of RequestContract                                       *)

IsSent(state) == state \in {"sent", "answered"}

Sent(c) == { i \in DOMAIN flight[c] : flight[c][i] \in {"sent", "answered"} }

\* A call has at most one flight for each attempt; a flight that has not been
\* sent leaves room for a further send, one that has been counts.
LEMMA SendsBound ==
  ASSUME IInv, NEW c \in Calls
  PROVE  /\ IsFiniteSet(Sent(c)) /\ Sends(c) = Cardinality(Sent(c)) /\ Sends(c) \in Nat
         /\ Len(flight[c]) \in Nat /\ Len(flight[c]) <= Retries[c] + 1
         /\ Sends(c) <= Len(flight[c])
         /\ \A i \in DOMAIN flight[c] :
              /\ ~IsSent(flight[c][i]) => Sends(c) < Retries[c] + 1
              /\ IsSent(flight[c][i]) => Sends(c) > 0
  <1>1. /\ flight[c] \in Seq(FlightStates) /\ results[c] \in Seq(ResultKinds)
        /\ DOMAIN flight[c] = 1..Len(flight[c]) /\ Len(flight[c]) \in Nat
        /\ Len(results[c]) \in Nat /\ Retries[c] \in Nat
    BY RequestAssumption DEF IInv, Typed
  <1>2. /\ IsFiniteSet(DOMAIN flight[c]) /\ Cardinality(DOMAIN flight[c]) = Len(flight[c])
    <2> DEFINE n == Len(flight[c])
    <2>1. n \in Nat /\ 1 \in Int /\ n \in Int /\ DOMAIN flight[c] = 1..n
      BY <1>1
    <2> HIDE DEF n
    <2>2. IsFiniteSet(1..n) /\ Cardinality(1..n) = IF 1 > n THEN 0 ELSE n - 1 + 1
      BY <2>1, FS_Interval
    <2>3. Cardinality(1..n) = n
      BY <2>1, <2>2
    <2> QED BY <2>1, <2>2, <2>3 DEF n
  <1>3. /\ IsFiniteSet(Sent(c)) /\ Cardinality(Sent(c)) <= Len(flight[c])
        /\ Cardinality(Sent(c)) = Len(flight[c]) => Sent(c) = DOMAIN flight[c]
    BY <1>2, FS_Subset DEF Sent
  <1>4. Sends(c) = Cardinality(Sent(c)) /\ Sends(c) \in Nat
    BY <1>3, FS_CardinalityType DEF Sent, Sends
  <1>5. Len(flight[c]) <= Retries[c] + 1
    <2>1. CallInv(c) /\ MaxAttempts(c) = Retries[c] + 1
      BY DEF IInv, MaxAttempts
    <2>2. CASE phase[c] = "waiting"
      BY <1>1, <2>1, <2>2 DEF CallInv
    <2>3. CASE phase[c] # "waiting"
      <3>1. Len(flight[c]) = Len(results[c]) + 0
        BY <2>1, <2>3 DEF CallInv
      <3>2. Len(results[c]) <= MaxAttempts(c)
        BY <2>1 DEF CallInv
      <3> QED BY <1>1, <2>1, <3>1, <3>2
    <2> QED BY <2>2, <2>3
  <1>6. ASSUME NEW i \in DOMAIN flight[c], ~IsSent(flight[c][i])
        PROVE  Sends(c) < Retries[c] + 1
    <2>1. i \notin Sent(c)
      BY <1>6 DEF Sent, IsSent
    <2>2. Cardinality(Sent(c)) # Len(flight[c])
      BY <1>3, <2>1, <1>6
    <2> QED BY <1>1, <1>3, <1>4, <1>5, <2>2
  <1>7. ASSUME NEW i \in DOMAIN flight[c], IsSent(flight[c][i])
        PROVE  Sends(c) > 0
    <2>1. Sent(c) # {}
      BY <1>7 DEF Sent, IsSent
    <2>2. Cardinality(Sent(c)) # 0
      BY <1>3, <2>1, FS_EmptySet
    <2> QED BY <1>4, <2>2
  <1> QED BY <1>1, <1>3, <1>4, <1>5, <1>6, <1>7

\* Sending changes one flight of one call, whether it is new or was on its way.
LEMMA SendsGrow ==
  ASSUME IInv, NEW c \in Calls, NEW i,
         Sent(c)' = Sent(c) \cup {i}, i \notin Sent(c)
  PROVE  Sends(c)' = Sends(c) + 1
  <1>1. IsFiniteSet(Sent(c)) /\ Sends(c) = Cardinality(Sent(c))
    BY SendsBound
  <1>2. Sends(c)' = Cardinality(Sent(c)')
    BY DEF Sends, Sent
  <1> QED BY <1>1, <1>2, FS_AddElement

\* What was sent is all that the contract counts.
LEMMA SendsStay ==
  ASSUME NEW c \in Calls, Sent(c)' = Sent(c)
  PROVE  Sends(c)' = Sends(c)
  BY DEF Sends, Sent

\* Steps of the contract, in terms of what callers and the target see.
LEMMA AbstractStart ==
  ASSUME NEW c \in Calls, Outcome(c) = "idle", Outcome(c)' = "pending",
         Sends(c) = 0, Sends(c)' \in {0, 1},
         \A d \in Calls : d # c => Outcome(d)' = Outcome(d) /\ Sends(d)' = Sends(d)
  PROVE  Contract!Next
  <1>1. Contract!Start(c)
    BY DEF Contract!Start
  <1> QED BY <1>1 DEF Contract!Next

\* One more copy reaches the target.
LEMMA AbstractSend ==
  ASSUME NEW c \in Calls, Outcome(c) # "idle", Sends(c) < Retries[c] + 1,
         Sends(c)' = Sends(c) + 1, \A d \in Calls : d # c => Sends(d)' = Sends(d),
         \A d \in Calls : Outcome(d)' = Outcome(d)
  PROVE  Contract!Next
  <1>1. Contract!Send(c)
    BY DEF Contract!Send
  <1> QED BY <1>1 DEF Contract!Next

\* A call succeeds after the target got a copy.
LEMMA AbstractResolve ==
  ASSUME NEW c \in Calls, Outcome(c) = "pending", Outcome(c)' = "resolved", Sends(c) > 0,
         \A d \in Calls : d # c => Outcome(d)' = Outcome(d),
         \A d \in Calls : Sends(d)' = Sends(d)
  PROVE  Contract!Next
  <1>1. Contract!Resolve(c)
    BY DEF Contract!Resolve
  <1> QED BY <1>1 DEF Contract!Next

\* A call fails, at once or later.
LEMMA AbstractReject ==
  ASSUME NEW c \in Calls, Outcome(c) \in {"idle", "pending"}, Outcome(c)' = "rejected",
         \A d \in Calls : d # c => Outcome(d)' = Outcome(d),
         \A d \in Calls : Sends(d)' = Sends(d)
  PROVE  Contract!Next
  <1>1. Contract!Reject(c)
    BY DEF Contract!Reject
  <1> QED BY <1>1 DEF Contract!Next

ContractStep == [Contract!Next]_<<[c \in Calls |-> Outcome(c)], [c \in Calls |-> Sends(c)]>>

\* A step that neither callers nor the target see.
LEMMA AbstractStutter ==
  ASSUME \A d \in Calls : Outcome(d)' = Outcome(d) /\ Sends(d)' = Sends(d)
  PROVE  ContractStep
  BY DEF ContractStep

\* The end of an attempt: nothing is sent, and the call is over or goes on.
LEMMA EndAttemptRefines ==
  ASSUME IInv, NEW c \in Calls, NEW r \in ResultKinds, Settle(c, r),
         phase[c] \in {"waiting", "backoff"},
         r = "ok" => Sends(c) > 0, \A d \in Calls : Sends(d)' = Sends(d)
  PROVE  ContractStep
  <1>1. \A d \in Calls : d # c => Outcome(d)' = Outcome(d)
    BY SettleEffect DEF IInv, Outcome
  <1>2. Outcome(c) = "pending"
    BY DEF Outcome
  <1>3. phase'[c] \in {"resolved", "backoff", "rejected"} /\ (phase'[c] = "resolved" => r = "ok")
    BY SettleEffect DEF IInv
  <1>4. CASE phase'[c] = "resolved"
    <2>1. Outcome(c)' = "resolved"
      BY <1>4 DEF Outcome
    <2> QED BY <1>1, <1>2, <1>3, <1>4, <2>1, AbstractResolve DEF ContractStep
  <1>5. CASE phase'[c] = "rejected"
    <2>1. Outcome(c)' = "rejected"
      BY <1>5 DEF Outcome
    <2> QED BY <1>1, <1>2, <2>1, AbstractReject DEF ContractStep
  <1>6. CASE phase'[c] = "backoff"
    <2>1. Outcome(c)' = "pending"
      BY <1>6 DEF Outcome
    <2> QED BY <1>1, <1>2, <2>1, AbstractStutter
  <1> QED BY <1>3, <1>4, <1>5, <1>6

\* A new flight is one more send or none.
LEMMA NewFlight ==
  ASSUME IInv, NEW c \in Calls, NEW state \in FlightStates,
         flight' = [flight EXCEPT ![c] = Append(@, state)]
  PROVE  /\ \A d \in Calls : d # c => Sends(d)' = Sends(d)
         /\ Sends(c)' = IF IsSent(state) THEN Sends(c) + 1 ELSE Sends(c)
  <1>1. flight \in [Calls -> Seq(FlightStates)] /\ flight[c] \in Seq(FlightStates)
    BY DEF IInv, Typed
  <1>2. \A d \in Calls : d # c => Sends(d)' = Sends(d)
    BY <1>1, SendsStay DEF Sent
  <1>3. /\ DOMAIN flight[c] = 1..Len(flight[c]) /\ Len(flight[c]) \in Nat
        /\ DOMAIN flight'[c] = 1..Len(flight[c]) + 1
        /\ \A i \in 1..Len(flight[c]) : flight'[c][i] = flight[c][i]
        /\ flight'[c][Len(flight[c]) + 1] = state
    BY <1>1
  <1>4. CASE IsSent(state)
    <2>1. Sent(c)' = Sent(c) \cup {Len(flight[c]) + 1} /\ Len(flight[c]) + 1 \notin Sent(c)
      BY <1>3, <1>4 DEF Sent, IsSent
    <2> QED BY <1>2, <1>4, <2>1, SendsGrow
  <1>5. CASE ~IsSent(state)
    <2>1. Sent(c)' = Sent(c)
      BY <1>3, <1>5 DEF Sent, IsSent
    <2> QED BY <1>2, <1>5, <2>1, SendsStay
  <1> QED BY <1>4, <1>5

\* A flight that changes its state is one more send if it was none before.
LEMMA ChangedFlight ==
  ASSUME IInv, NEW c \in Calls, NEW i \in DOMAIN flight[c], NEW state \in FlightStates,
         flight' = [flight EXCEPT ![c][i] = state], IsSent(flight[c][i]) => IsSent(state)
  PROVE  /\ \A d \in Calls : d # c => Sends(d)' = Sends(d)
         /\ Sends(c)' = IF IsSent(state) /\ ~IsSent(flight[c][i])
                          THEN Sends(c) + 1 ELSE Sends(c)
  <1>1. flight \in [Calls -> Seq(FlightStates)] /\ flight[c] \in Seq(FlightStates)
    BY DEF IInv, Typed
  <1>2. \A d \in Calls : d # c => Sends(d)' = Sends(d)
    BY <1>1, SendsStay DEF Sent
  <1>3. /\ DOMAIN flight'[c] = DOMAIN flight[c] /\ flight'[c][i] = state
        /\ \A j \in DOMAIN flight[c] : j # i => flight'[c][j] = flight[c][j]
    BY <1>1
  <1>4. CASE IsSent(state) /\ ~IsSent(flight[c][i])
    <2>1. Sent(c)' = Sent(c) \cup {i} /\ i \notin Sent(c)
      BY <1>3, <1>4 DEF Sent, IsSent
    <2> QED BY <1>2, <1>4, <2>1, SendsGrow
  <1>5. CASE ~(IsSent(state) /\ ~IsSent(flight[c][i]))
    <2>1. Sent(c)' = Sent(c)
      BY <1>3, <1>5 DEF Sent, IsSent
    <2> QED BY <1>2, <1>5, <2>1, SendsStay
  <1> QED BY <1>4, <1>5

\* A call that was never started has sent nothing.
LEMMA IdleSendsNothing ==
  ASSUME IInv, NEW c \in Calls, phase[c] = "idle"
  PROVE  Sends(c) = 0
  <1>1. Len(flight[c]) = 0
    <2>1. results[c] = <<>>
      BY DEF IInv, CallInv
    <2> QED BY <2>1, FlightsOfResults
  <1> QED BY <1>1, SendsBound

\* An attempt sends a copy, asks for a token first, or is refused by the breaker.
LEMMA AttemptRefines ==
  ASSUME IInv, NEW c \in Calls, Attempt(c)
  PROVE  ContractStep
  <1>1. phase[c] \in {"idle", "backoff"}
    BY DEF Attempt
  <1>2. CASE UseBreaker[c] /\ Blocks(breaker[BreakerKey(c)])
    <2>1. /\ flight' = [flight EXCEPT ![c] = Append(@, "none")] /\ Settle(c, "blocked")
          /\ "none" \in FlightStates /\ "blocked" \in ResultKinds /\ ~IsSent("none")
      BY <1>2 DEF Attempt, FlightStates, ResultKinds, IsSent
    <2>2. \A d \in Calls : Sends(d)' = Sends(d)
      BY <2>1, NewFlight
    <2>3. CASE phase[c] = "backoff"
      BY <2>1, <2>2, <2>3, EndAttemptRefines
    <2>4. CASE phase[c] = "idle"
      <3>1. phase'[c] \in {"backoff", "rejected"} /\ Outcome(c) = "idle"
        BY <2>1, <2>4, SettleEffect DEF IInv, Outcome
      <3>2. \A d \in Calls : d # c => Outcome(d)' = Outcome(d)
        BY <2>1, SettleEffect DEF IInv, Outcome
      <3>3. CASE phase'[c] = "backoff"
        <4>1. Outcome(c)' = "pending" /\ Sends(c) = 0
          BY <2>4, <3>3, IdleSendsNothing DEF Outcome
        <4> QED BY <2>2, <3>1, <3>2, <4>1, AbstractStart DEF ContractStep
      <3>4. CASE phase'[c] = "rejected"
        <4>1. Outcome(c)' = "rejected"
          BY <3>4 DEF Outcome
        <4> QED BY <2>2, <3>1, <3>2, <4>1, AbstractReject DEF ContractStep
      <3> QED BY <3>1, <3>3, <3>4
    <2> QED BY <1>1, <2>3, <2>4
  <1>3. CASE ~(UseBreaker[c] /\ Blocks(breaker[BreakerKey(c)]))
    <2>1. PICK state \in FlightStates :
            /\ flight' = [flight EXCEPT ![c] = Append(@, state)]
            /\ phase' = [phase EXCEPT ![c] = "waiting"]
      BY <1>3 DEF Attempt, FlightStates
    <2>2. /\ \A d \in Calls : d # c => Sends(d)' = Sends(d)
          /\ Sends(c)' = IF IsSent(state) THEN Sends(c) + 1 ELSE Sends(c)
      BY <2>1, NewFlight
    <2>3. /\ Outcome(c)' = "pending"
          /\ \A d \in Calls : d # c => Outcome(d)' = Outcome(d)
      BY <2>1 DEF Outcome, IInv, Typed
    <2>4. CASE phase[c] = "idle"
      <3>1. Outcome(c) = "idle" /\ Sends(c) = 0
        BY <2>4, IdleSendsNothing DEF Outcome
      <3> QED BY <2>2, <2>3, <3>1, AbstractStart DEF ContractStep
    <2>5. CASE phase[c] = "backoff"
      <3>1. Outcome(c) = "pending"
        BY <2>5 DEF Outcome
      <3>2. Sends(c) < Retries[c] + 1
        <4>1. Len(results[c]) < Retries[c] + 1 /\ Retries[c] \in Nat
          BY <2>5, RequestAssumption DEF IInv, CallInv, MaxAttempts
        <4>2. Len(flight[c]) = Len(results[c])
          BY <2>5, FlightsOfResults
        <4> QED BY <4>1, <4>2, SendsBound
      <3>3. CASE IsSent(state)
        BY <2>2, <2>3, <3>1, <3>2, <3>3, AbstractSend DEF ContractStep
      <3>4. CASE ~IsSent(state)
        BY <2>2, <2>3, <3>1, <3>4, AbstractStutter
      <3> QED BY <3>3, <3>4
    <2> QED BY <1>1, <2>4, <2>5
  <1> QED BY <1>2, <1>3

\* After the token a copy is sent, even if nobody waits for it any more.
LEMMA CsrfAnswerRefines ==
  ASSUME IInv, NEW c \in Calls, NEW i \in MaxFlights, NEW found \in BOOLEAN,
         CsrfAnswer(c, i, found)
  PROVE  ContractStep
  <1>1. PICK state \in FlightStates : flight' = [flight EXCEPT ![c][i] = state]
    BY DEF CsrfAnswer, FlightStates
  <1>2. i \in DOMAIN flight[c] /\ ~IsSent(flight[c][i])
    BY DEF CsrfAnswer, IsSent
  <1>3. /\ \A d \in Calls : d # c => Sends(d)' = Sends(d)
        /\ Sends(c)' = IF IsSent(state) THEN Sends(c) + 1 ELSE Sends(c)
    BY <1>1, <1>2, ChangedFlight
  <1>4. \A d \in Calls : Outcome(d)' = Outcome(d)
    BY DEF CsrfAnswer, Outcome
  <1>5. Sends(c) < Retries[c] + 1
    BY <1>2, SendsBound
  <1>6. Outcome(c) # "idle"
    <2>1. Len(flight[c]) # 0
      BY <1>2 DEF IInv, Typed
    <2>2. phase[c] # "idle"
      <3> SUFFICES ASSUME phase[c] = "idle" PROVE FALSE
        OBVIOUS
      <3>1. results[c] = <<>>
        BY DEF IInv, CallInv
      <3> QED BY <2>1, <3>1, FlightsOfResults
    <2> QED BY <2>2 DEF Outcome
  <1>7. CASE IsSent(state)
    BY <1>3, <1>4, <1>5, <1>6, <1>7, AbstractSend DEF ContractStep
  <1>8. CASE ~IsSent(state)
    BY <1>3, <1>4, <1>8, AbstractStutter
  <1> QED BY <1>7, <1>8

\* An answer to the awaited attempt may settle the call; a late one is not seen.
LEMMA AnswerRefines ==
  ASSUME IInv, NEW c \in Calls, NEW i \in MaxFlights, NEW r \in Answers, Answer(c, i, r)
  PROVE  ContractStep
  <1>1. /\ i \in DOMAIN flight[c] /\ flight' = [flight EXCEPT ![c][i] = "answered"]
        /\ "answered" \in FlightStates /\ IsSent("answered") /\ IsSent(flight[c][i])
    BY DEF Answer, FlightStates, IsSent
  <1>2. \A d \in Calls : Sends(d)' = Sends(d)
    BY <1>1, ChangedFlight
  <1>3. Sends(c) > 0
    BY <1>1, SendsBound
  <1>4. CASE IsAwaited(c, i)
    <2>1. Settle(c, r) /\ phase[c] = "waiting" /\ r \in ResultKinds
      BY <1>4 DEF Answer, IsAwaited, EndAttempt, ResultKinds
    <2> QED BY <1>2, <1>3, <2>1, EndAttemptRefines
  <1>5. CASE ~IsAwaited(c, i)
    <2>1. \A d \in Calls : Outcome(d)' = Outcome(d)
      BY <1>5 DEF Answer, Outcome
    <2> QED BY <1>2, <2>1, AbstractStutter
  <1> QED BY <1>4, <1>5

\* A timeout fails the call or leads to a back-off.
LEMMA TimeoutRefines ==
  ASSUME IInv, NEW c \in Calls, Timeout(c)
  PROVE  ContractStep
  <1>1. /\ Settle(c, "timeout") /\ phase[c] = "waiting" /\ "timeout" \in ResultKinds
        /\ UNCHANGED flight
    BY DEF Timeout, EndAttempt, ResultKinds
  <1>2. \A d \in Calls : Sends(d)' = Sends(d)
    BY <1>1 DEF Sends
  <1> QED BY <1>1, <1>2, EndAttemptRefines

\* The timers of the breakers are not seen.
LEMMA QuietRefines ==
  ASSUME UNCHANGED <<phase, flight>>
  PROVE  ContractStep
  <1>1. \A d \in Calls : Outcome(d)' = Outcome(d) /\ Sends(d)' = Sends(d)
    BY DEF Outcome, Sends
  <1> QED BY <1>1, AbstractStutter

\* Every step is one of the contract, or is not seen.
LEMMA NextRefines == IInv /\ [Next]_vars => ContractStep
  <1> SUFFICES ASSUME IInv, [Next]_vars PROVE ContractStep
    OBVIOUS
  <1>1. ASSUME NEW c \in Calls, Attempt(c) PROVE ContractStep
    BY <1>1, AttemptRefines
  <1>2. ASSUME NEW c \in Calls, NEW i \in MaxFlights, NEW found \in BOOLEAN,
               CsrfAnswer(c, i, found)
        PROVE  ContractStep
    BY <1>2, CsrfAnswerRefines
  <1>3. ASSUME NEW c \in Calls, NEW i \in MaxFlights, NEW r \in Answers, Answer(c, i, r)
        PROVE  ContractStep
    BY <1>3, AnswerRefines
  <1>4. ASSUME NEW c \in Calls, Timeout(c) PROVE ContractStep
    BY <1>4, TimeoutRefines
  <1>5. ASSUME NEW k \in Keys, ResetTimeout(k) \/ RollWindow(k) PROVE ContractStep
    BY <1>5, QuietRefines DEF ResetTimeout, RollWindow
  <1>6. CASE UNCHANGED vars
    BY <1>6, QuietRefines DEF vars
  <1> QED BY <1>1, <1>2, <1>3, <1>4, <1>5, <1>6 DEF Next

\* Retry, circuit breaker, timeout and CSRF token together keep the contract of
\* a single request: it settles once, succeeds only if it was sent, and reaches
\* the target at most once per permitted attempt.
THEOREM RequestKeepsContract == Spec => KeepsContract
  <1>1. Init => Contract!Init
    <2> SUFFICES ASSUME Init PROVE Contract!Init
      OBVIOUS
    <2>1. \A c \in Calls : Outcome(c) = "idle"
      BY DEF Init, Outcome
    <2>2. ASSUME NEW c \in Calls PROVE Sends(c) = 0
      <3>1. IInv /\ phase[c] = "idle"
        BY InitIInv DEF Init
      <3> QED BY <3>1, IdleSendsNothing
    <2> QED BY <2>1, <2>2 DEF Contract!Init
  <1>2. IInv /\ [Next]_vars =>
          [Contract!Next]_<<[c \in Calls |-> Outcome(c)], [c \in Calls |-> Sends(c)]>>
    BY NextRefines DEF ContractStep
  <1> QED BY <1>1, <1>2, Invariance, PTL DEF Spec, KeepsContract, Contract!Spec
=============================================================================
