--------------------------- MODULE RequestContract ---------------------------
(***************************************************************************)
(* What a caller of executeHttpRequest() with resilience() may rely on,    *)
(* without retry, circuit breaker, timeout or CSRF token: a request settles*)
(* once, it succeeds only if it was sent, and the target gets it at most   *)
(* once per permitted attempt - possibly after the caller has been told    *)
(* that it failed.                                                         *)
(***************************************************************************)
EXTENDS Naturals

CONSTANTS Calls,
          MaxSends  \* attempts permitted for each call

VARIABLES outcome, sends

Init ==
  /\ outcome = [c \in Calls |-> "idle"]
  /\ sends = [c \in Calls |-> 0]

Start(c) ==
  /\ outcome[c] = "idle"
  /\ outcome' = [outcome EXCEPT ![c] = "pending"]
  /\ sends' \in {sends, [sends EXCEPT ![c] = 1]}

\* A copy of the request reaches the target, however late.
Send(c) ==
  /\ outcome[c] # "idle"
  /\ sends[c] < MaxSends[c]
  /\ sends' = [sends EXCEPT ![c] = @ + 1]
  /\ UNCHANGED outcome

Resolve(c) ==
  /\ outcome[c] = "pending"
  /\ sends[c] > 0
  /\ outcome' = [outcome EXCEPT ![c] = "resolved"]
  /\ UNCHANGED sends

\* Without an answer, or without even having been sent.
Reject(c) ==
  /\ outcome[c] \in {"idle", "pending"}
  /\ outcome' = [outcome EXCEPT ![c] = "rejected"]
  /\ UNCHANGED sends

Next == \E c \in Calls : Start(c) \/ Send(c) \/ Resolve(c) \/ Reject(c)

Spec == Init /\ [][Next]_<<outcome, sends>>
=============================================================================
