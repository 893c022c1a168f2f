-------------------------- MODULE RetryDestination --------------------------
(***************************************************************************)
(* The middleware retryDestination() around a request for one destination. *)
(* An attempt is answered by the destination service, with a destination   *)
(* whose auth token the service could or could not fetch or with an HTTP   *)
(* error, or it fails without a response: the network, the timeout or an   *)
(* open circuit breaker.                                                   *)
(***************************************************************************)
EXTENDS Naturals, Sequences, FiniteSets

CONSTANTS Undefined,
          Retries    \* of asyncRetry(): 3

VARIABLES pc,          \* "idle", "attempt", "checking", "backoff", "resolved", "rejected"
          retryCount,  \* the variable of that name
          answers,     \* what the attempts so far were answered with
          outcome      \* the destination or the error the middleware ends with

vars == <<pc, retryCount, answers, outcome>>

\* Destinations with a valid and with a broken token, and errors.
Destinations == {"valid", "broken"}
HttpErrors == {"404", "403", "500"}
NoResponse == "ECONNABORTED"

Answers == Destinations \cup HttpErrors \cup {NoResponse}

RetryAssumption == Retries \in Nat /\ Undefined \notin Answers \cup {"TypeError"}

LastAnswer == answers[Len(answers)]

\* status.toString().startsWith('4')
IsClientError(error) == error \in {"404", "403"}

\* `error.response?.status' is undefined without a response and for an error
\* of the token check: its toString() is what fails, and what is reported.
Reported(error) == IF error \in HttpErrors THEN error ELSE "TypeError"

-----------------------------------------------------------------------------

Init ==
  /\ pc = "idle"
  /\ retryCount = 1
  /\ answers = <<>>
  /\ outcome = Undefined

Start ==
  /\ pc = "idle"
  /\ pc' = "attempt"
  /\ UNCHANGED <<retryCount, answers, outcome>>

\* asyncRetry() goes on after a delay, or gives the last error up.
RetryOrReject(error) ==
  IF Len(answers') <= Retries
    THEN pc' = "backoff" /\ UNCHANGED outcome
    ELSE pc' = "rejected" /\ outcome' = error

\* The catch block: a client error bails out, every other error is thrown on.
Catch(error) ==
  IF IsClientError(error)
    THEN pc' = "rejected" /\ outcome' = error
    ELSE RetryOrReject(Reported(error))

AttemptFails(error) ==
  /\ pc = "attempt"
  /\ answers' = Append(answers, error)
  /\ Catch(error)
  /\ UNCHANGED retryCount

\* Mutant: the number of attempts that are checked is off by one.
CheckOnce == retryCount < 2

IsChecked == retryCount < 3

\* A destination is checked, the first two times.
AttemptSucceeds(destination) ==
  /\ pc = "attempt"
  /\ answers' = Append(answers, destination)
  /\ IF IsChecked
       THEN retryCount' = retryCount + 1 /\ pc' = "checking" /\ UNCHANGED outcome
       ELSE pc' = "resolved" /\ outcome' = destination /\ UNCHANGED retryCount

\* buildAuthorizationHeaders() resolves, or throws for a broken token.
Check ==
  /\ pc = "checking"
  /\ UNCHANGED <<retryCount, answers>>
  /\ IF LastAnswer = "valid"
       THEN pc' = "resolved" /\ outcome' = LastAnswer
       ELSE Catch(LastAnswer)

BackoffEnds ==
  /\ pc = "backoff"
  /\ pc' = "attempt"
  /\ UNCHANGED <<retryCount, answers, outcome>>

Next ==
  \/ Start
  \/ \E error \in HttpErrors \cup {NoResponse} : AttemptFails(error)
  \/ \E destination \in Destinations : AttemptSucceeds(destination)
  \/ Check
  \/ BackoffEnds

Spec == Init /\ [][Next]_vars

-----------------------------------------------------------------------------
(* Properties                                                              *)

TypeOK ==
  /\ pc \in {"idle", "attempt", "checking", "backoff", "resolved", "rejected"}
  /\ retryCount \in 1..3
  /\ answers \in Seq(Answers) /\ Len(answers) <= Retries + 1
  /\ outcome \in Answers \cup {"TypeError", Undefined}

Count(answer) == Cardinality({ i \in 1..Len(answers) : answers[i] = answer })

\* A destination with a broken token is handed out only when two attempts
\* before had one, failures in between not counted; a valid one always is.
BrokenOnlyAtThird ==
  /\ outcome = "broken" => Count("broken") = 3
  /\ "valid" \in { answers[i] : i \in 1..Len(answers) } /\ pc \in {"resolved", "rejected"}
       => outcome = "valid"
=============================================================================
