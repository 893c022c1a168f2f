--------------------------- MODULE ResilientRequest ---------------------------
(***************************************************************************)
(* A request of the HTTP client under the middlewares of resilience() and  *)
(* csrf(), composed as retry(circuitBreaker(timeout(csrf(request)))) by    *)
(* executeWithMiddleware().  Calls share one circuit breaker per target    *)
(* and tenant.  A timeout only ends the waiting: what it raced against     *)
(* keeps running, so an attempt has a state of its own (its flight).       *)
(***************************************************************************)
EXTENDS Naturals, Sequences, FiniteSets

CONSTANTS Undefined,
          Calls,
          Uri,         \* target of each call
          TenantId,    \* tenant of each call, Undefined without a JWT
          Retries,     \* 0 when the retry middleware is not used
          UseBreaker,  \* option circuitBreaker
          UseTimeout,  \* option timeout
          WithCsrf,    \* option fetchCsrfToken, for a method other than GET
          VolumeThreshold,
          ErrorThresholdPercentage

VARIABLES phase,    \* what the caller sees: idle, waiting, backoff, resolved, rejected
          results,  \* how the attempts of a call ended, in order
          flight,   \* the underlying request of each attempt
          token,    \* whether the request's headers have a CSRF token
          breaker   \* circuitBreakers

vars == <<phase, results, flight, token, breaker>>

-----------------------------------------------------------------------------
(* Circuit breakers                                                        *)

DefaultTenant == "tenant_id"

\* Mutant: the tenant is left out of the key.
BreakerKeyWithoutTenant(c) == <<Uri[c], DefaultTenant>>

\* circuitBreakerKeyBuilder()
BreakerKey(c) ==
  <<Uri[c], IF TenantId[c] = Undefined THEN DefaultTenant ELSE TenantId[c]>>

\* Every key some call or a default can have; breakers are created lazily,
\* which nobody can tell from a fresh one.
Keys == { <<Uri[c], t>> : c \in Calls, t \in {TenantId[d] : d \in Calls} \cup {DefaultTenant} }

Breaker == [state : {"closed", "open", "halfOpen"}, pendingClose : BOOLEAN,
            fires : Nat, failures : Nat]

FreshBreaker == [state |-> "closed", pendingClose |-> FALSE, fires |-> 0, failures |-> 0]

ASSUME RequestAssumption ==
  /\ Uri \in [Calls -> STRING] /\ DOMAIN TenantId = Calls
  \* Tenants are known by UUIDs: none is called like the default.
  /\ \A c \in Calls : TenantId[c] # DefaultTenant
  /\ Retries \in [Calls -> Nat]
  /\ {UseBreaker, UseTimeout, WithCsrf} \subseteq [Calls -> BOOLEAN]
  /\ VolumeThreshold \in Nat /\ ErrorThresholdPercentage \in 0..100

\* opossum: a breaker that is not closed passes the one call that is pending.
Blocks(b) == b.state # "closed" /\ ~b.pendingClose

Fired(b) == [b EXCEPT !.fires = @ + 1, !.pendingClose = FALSE]

\* opossum: the first success closes a half-open breaker.
AfterSuccess(b) ==
  IF b.state = "halfOpen" THEN [b EXCEPT !.state = "closed", !.pendingClose = FALSE] ELSE b

\* opossum: a failure opens the breaker when it is half-open, or when the error
\* rate of at least VolumeThreshold calls exceeds the threshold.
AfterFailure(b) ==
  LET failed  == [b EXCEPT !.failures = @ + 1]
      tooMany == /\ failed.fires >= VolumeThreshold
                 /\ failed.failures * 100 > ErrorThresholdPercentage * failed.fires
  IN IF b.state = "halfOpen" \/ tooMany
       THEN [failed EXCEPT !.state = "open", !.pendingClose = FALSE]
       ELSE failed

\* httpErrorFilter(): responses with status 4xx do not count.
HttpErrorFilter(result) == result = "4xx"

Recorded(b, result) ==
  IF result = "ok" \/ HttpErrorFilter(result) THEN AfterSuccess(b) ELSE AfterFailure(b)

-----------------------------------------------------------------------------
(* Attempts                                                                *)

\* Responses with a status 5xx and requests without a response are treated alike.
Answers == {"ok", "4xx", "failure"}

MaxAttempts(c) == Retries[c] + 1

\* Mutant: client errors are retried like server errors.
RetriesAllErrors(c, result, attempts) ==
  result # "ok" /\ attempts < MaxAttempts(c)

\* Mutant: one attempt too many.
RetriesOnceMore(c, result, attempts) ==
  result \notin {"ok", "4xx"} /\ attempts < MaxAttempts(c) + 1

\* retry(): a status 4xx bails out, errors without a status are retried.
IsRetried(c, result, attempts) ==
  result \notin {"ok", "4xx"} /\ attempts < MaxAttempts(c)

\* What follows the end of an attempt with `result'.
Settle(c, result) ==
  /\ results' = [results EXCEPT ![c] = Append(@, result)]
  /\ phase' = [phase EXCEPT ![c] =
       IF result = "ok" THEN "resolved"
       ELSE IF IsRetried(c, result, Len(results[c]) + 1) THEN "backoff"
       ELSE "rejected"]

Init ==
  /\ phase = [c \in Calls |-> "idle"]
  /\ results = [c \in Calls |-> <<>>]
  /\ flight = [c \in Calls |-> <<>>]
  /\ token = [c \in Calls |-> FALSE]
  /\ breaker = [k \in Keys |-> FreshBreaker]

NeedsCsrfToken(c) == WithCsrf[c] /\ ~token[c]

\* The first attempt, or the next one after a back-off: an open breaker ends it
\* at once, otherwise the request, or the one for its CSRF token, is sent.
Attempt(c) ==
  LET k == BreakerKey(c)
      blocked == UseBreaker[c] /\ Blocks(breaker[k])
  IN /\ phase[c] \in {"idle", "backoff"}
     /\ IF blocked
          THEN /\ breaker' = [breaker EXCEPT ![k].fires = @ + 1]
               /\ flight' = [flight EXCEPT ![c] = Append(@, "none")]
               /\ Settle(c, "blocked")
          ELSE /\ breaker' = IF UseBreaker[c]
                               THEN [breaker EXCEPT ![k] = Fired(@)]
                               ELSE breaker
               /\ flight' = [flight EXCEPT ![c] =
                    Append(@, IF NeedsCsrfToken(c) THEN "csrf" ELSE "sent")]
               /\ phase' = [phase EXCEPT ![c] = "waiting"]
               /\ UNCHANGED results
     /\ UNCHANGED token

\* Mutant: late answers are not told from awaited ones.
IsAwaitedOrLate(c, i) == i \in DOMAIN flight[c]

\* The caller still waits for attempt i.
IsAwaited(c, i) == phase[c] = "waiting" /\ i = Len(results[c]) + 1

EndAttempt(c, result) ==
  /\ Settle(c, result)
  /\ breaker' = IF UseBreaker[c]
                  THEN [breaker EXCEPT ![BreakerKey(c)] = Recorded(@, result)]
                  ELSE breaker

\* makeCsrfRequests() with a slash at the end of the URL and then without: the
\* request follows with the token, or without one when both requests fail.
\* Nobody cancels it when the attempt has timed out.
CsrfAnswer(c, i, found) ==
  /\ i \in DOMAIN flight[c]
  /\ \/ /\ flight[c][i] = "csrf"
        /\ flight' = [flight EXCEPT ![c][i] = IF found THEN "sent" ELSE "csrfNoSlash"]
     \/ /\ flight[c][i] = "csrfNoSlash"
        /\ flight' = [flight EXCEPT ![c][i] = "sent"]
  /\ token' = [token EXCEPT ![c] = @ \/ found]
  /\ UNCHANGED <<phase, results, breaker>>

\* The target answers, or the connection breaks; only an awaited answer counts.
Answer(c, i, result) ==
  /\ i \in DOMAIN flight[c]
  /\ flight[c][i] = "sent"
  /\ flight' = [flight EXCEPT ![c][i] = "answered"]
  /\ IF IsAwaited(c, i)
       THEN EndAttempt(c, result)
       ELSE UNCHANGED <<phase, results, breaker>>
  /\ UNCHANGED token

\* Mutant: the timer is cleared without rejecting.
TimeoutNever(c) == FALSE /\ UNCHANGED vars

\* wrapInTimeout(): the timer wins the race.
Timeout(c) ==
  /\ UseTimeout[c]
  /\ phase[c] = "waiting"
  /\ EndAttempt(c, "timeout")
  /\ UNCHANGED <<flight, token>>

\* opossum's reset timer, and the statistics leaving the rolling window.
ResetTimeout(k) ==
  /\ breaker[k].state = "open"
  /\ breaker' = [breaker EXCEPT ![k].state = "halfOpen", ![k].pendingClose = TRUE]
  /\ UNCHANGED <<phase, results, flight, token>>

RollWindow(k) ==
  /\ breaker[k].fires > 0
  /\ breaker' = [breaker EXCEPT ![k].fires = 0, ![k].failures = 0]
  /\ UNCHANGED <<phase, results, flight, token>>

MaxFlights == 1..(CHOOSE n \in {MaxAttempts(c) : c \in Calls} :
                    \A c \in Calls : MaxAttempts(c) <= n)

Next ==
  \/ \E c \in Calls :
       \/ Attempt(c)
       \/ \E i \in MaxFlights, found \in BOOLEAN : CsrfAnswer(c, i, found)
       \/ \E i \in MaxFlights, result \in Answers : Answer(c, i, result)
       \/ Timeout(c)
  \/ \E k \in Keys : ResetTimeout(k) \/ RollWindow(k)

Spec == Init /\ [][Next]_vars

\* Timers fire: the event loop runs the timeout of an attempt and the back-off
\* of a retry.  Nothing is assumed of the target, which may never answer.
Fairness ==
  \A c \in Calls : WF_vars(Timeout(c)) /\ WF_vars(phase[c] = "backoff" /\ Attempt(c))

FairSpec == Spec /\ Fairness

-----------------------------------------------------------------------------
(* Properties                                                              *)

TypeOK ==
  /\ phase \in [Calls -> {"idle", "waiting", "backoff", "resolved", "rejected"}]
  /\ \A c \in Calls :
       /\ \A i \in DOMAIN results[c] : results[c][i] \in Answers \cup {"timeout", "blocked"}
       /\ \A i \in DOMAIN flight[c] :
            flight[c][i] \in {"none", "csrf", "csrfNoSlash", "sent", "answered"}
       /\ Len(flight[c]) = Len(results[c]) + (IF phase[c] = "waiting" THEN 1 ELSE 0)
  /\ token \in [Calls -> BOOLEAN]
  /\ breaker \in [Keys -> Breaker]

Sends(c) == Cardinality({ i \in DOMAIN flight[c] : flight[c][i] \in {"sent", "answered"} })

Outcome(c) == IF phase[c] \in {"waiting", "backoff"} THEN "pending" ELSE phase[c]

\* The middlewares together keep the contract: among others, a target never
\* gets more copies of a request than attempts were asked for, although timed
\* out attempts keep running, wait for a CSRF token and are sent late.
Contract == INSTANCE RequestContract WITH
  outcome  <- [c \in Calls |-> Outcome(c)],
  sends    <- [c \in Calls |-> Sends(c)],
  MaxSends <- [c \in Calls |-> Retries[c] + 1]

KeepsContract == Contract!Spec

\* No attempt follows one that the target has answered with success or with a
\* client error, whatever timed out attempts still do.
AnswerIsFinal ==
  [][ \A c \in Calls : \A i \in DOMAIN results[c] :
        results[c][i] \in {"ok", "4xx"} => Len(flight'[c]) = Len(flight[c]) ]_vars

FailuresOf(uri, tenant) ==
  UNION { { <<c, i>> : i \in { j \in DOMAIN results[c] :
                                 results[c][j] \in {"failure", "timeout"} } } :
          c \in { d \in Calls : UseBreaker[d] /\ Uri[d] = uri /\ TenantId[d] = tenant } }

\* A breaker fails calls of a tenant fast only after enough failed attempts of
\* that very tenant at that very target; client errors do not add up to it.
BlockedByOwnFailures ==
  \A c \in Calls : \A i \in DOMAIN results[c] :
    results[c][i] = "blocked" =>
      100 * Cardinality(FailuresOf(Uri[c], TenantId[c]))
        > ErrorThresholdPercentage * VolumeThreshold

\* With a timeout every call settles, even if the target never answers.
Settles ==
  \A c \in Calls : UseTimeout[c] =>
    (phase[c] # "idle" ~> phase[c] \in {"resolved", "rejected"})

\* A half-open breaker that waits for its one trial call gets a verdict, so that
\* it does not block its target for good.
TrialEnds ==
  \A k \in Keys : (\A c \in Calls : BreakerKey(c) = k => UseTimeout[c]) =>
    (breaker[k].state = "halfOpen" /\ ~breaker[k].pendingClose
       ~> breaker[k].state # "halfOpen" \/ breaker[k].pendingClose)
=============================================================================
