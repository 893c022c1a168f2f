----------------------------- MODULE CsrfToken -----------------------------
(***************************************************************************)
(* Executions of requests that are given the same request configuration    *)
(* with origins (HttpRequestConfigWithOrigin), which is passed on as it    *)
(* is; a plain configuration is copied for each request.  execute() of     *)
(* http-client.ts appends the middleware csrf() to the middlewares of that *)
(* very object, so that later executions run it again, once for each       *)
(* execution before.                                                       *)
(***************************************************************************)
EXTENDS Naturals, Sequences

CONSTANTS Executions,
          Configs  \* the request configurations, a subset of Config

VARIABLES config,      \* method and header of the configuration
          middleware,  \* number of csrf() in requestConfig.middleware
          pc,          \* where each execution stands
          left,        \* middlewares it has not run yet
          token,       \* whether its own request has the header x-csrf-token
          answers      \* whether its CSRF requests were answered with a token

vars == <<config, middleware, pc, left, token, answers>>

Config == [get : BOOLEAN, token : BOOLEAN]

CsrfAssumption == Configs \subseteq Config

\* Mutant: the header that is there is not looked for.
NeedsUnlessGet(e) == ~config.get

NeedsCsrfToken(e) == ~config.get /\ ~token[e]

Goto(e, label) == pc' = [pc EXCEPT ![e] = label]

Init ==
  /\ config \in Configs
  /\ middleware = 0
  /\ pc = [e \in Executions |-> "idle"]
  /\ left = [e \in Executions |-> 0]
  /\ token = [e \in Executions |-> FALSE]
  /\ answers = [e \in Executions |-> <<>>]

\* The destination is resolved, and the request made from the configuration.
BuildRequest(e) ==
  /\ pc[e] = "idle"
  /\ token' = [token EXCEPT ![e] = config.token]
  /\ Goto(e, "built")
  /\ UNCHANGED <<config, middleware, left, answers>>

\* `fetchCsrfToken' appends a middleware; all that are there are wrapped around.
AddMiddleware(e, fetchCsrfToken) ==
  /\ pc[e] = "built"
  /\ middleware' = IF fetchCsrfToken THEN middleware + 1 ELSE middleware
  /\ left' = [left EXCEPT ![e] = middleware']
  /\ Goto(e, "middleware")
  /\ UNCHANGED <<config, token, answers>>

\* The next middleware starts: it does nothing, or asks for a token.
Enter(e) ==
  /\ pc[e] = "middleware"
  /\ IF left[e] = 0
       THEN Goto(e, "sent") /\ UNCHANGED left
       ELSE /\ left' = [left EXCEPT ![e] = @ - 1]
            /\ Goto(e, IF NeedsCsrfToken(e) THEN "fetch" ELSE "middleware")
  /\ UNCHANGED <<config, middleware, token, answers>>

\* The request for the URL with a slash, then the one without it.
AfterFetch(e, found) ==
  Goto(e, IF pc[e] = "fetch" /\ ~found THEN "lastFetch" ELSE "middleware")

CsrfAnswer(e, found) ==
  /\ pc[e] \in {"fetch", "lastFetch"}
  /\ answers' = [answers EXCEPT ![e] = Append(@, found)]
  /\ token' = [token EXCEPT ![e] = @ \/ found]
  /\ AfterFetch(e, found)
  /\ UNCHANGED <<config, middleware, left>>

Next ==
  \E e \in Executions :
    \/ BuildRequest(e)
    \/ \E fetchCsrfToken \in BOOLEAN : AddMiddleware(e, fetchCsrfToken)
    \/ Enter(e)
    \/ \E found \in BOOLEAN : CsrfAnswer(e, found)

Spec == Init /\ [][Next]_vars

-----------------------------------------------------------------------------
(* Properties                                                              *)

TypeOK ==
  /\ config \in Configs
  /\ middleware \in Nat
  /\ pc \in [Executions -> {"idle", "built", "middleware", "fetch", "lastFetch", "sent"}]
  /\ left \in [Executions -> Nat] /\ \A e \in Executions : left[e] <= middleware
  /\ token \in [Executions -> BOOLEAN]
  /\ answers \in [Executions -> Seq(BOOLEAN)]

\* However often a configuration is used, and by how many at a time: no
\* execution asks for a token when it has one, from the application or from an
\* answer, and each sends the token it was given.
OneTokenPerRequest ==
  \A e \in Executions :
    /\ \A i \in 1..Len(answers[e]) - 1 : ~answers[e][i]
    /\ answers[e] # <<>> => ~config.token /\ ~config.get
    /\ pc[e] = "sent" =>
         (token[e] <=> config.token \/ \E i \in 1..Len(answers[e]) : answers[e][i])
    /\ Len(answers[e]) <= 2 * middleware
=============================================================================
