----------------------- MODULE MCDestinationRetrieval -----------------------
(***************************************************************************)
(* Two calls over a provider t1 and a subscriber t2.  `MCOptions' has      *)
(* the combinations of options that make calls meet in the cache.          *)
(***************************************************************************)
EXTENDS DestinationRetrieval, TLC

CONSTANTS c1, c2, t1, t2, u1, u2, n1, n2

Plain == [auth |-> "none", forward |-> FALSE, jwks |-> FALSE, trust |-> FALSE]

\* n1 needs a user in both accounts, n2 forwards tokens in the subscriber's
\* account and needs a refresh token in the provider's.
MCConfig ==
  (t1 :> (n1 :> [Plain EXCEPT !.auth = "user"] @@
          n2 :> [Plain EXCEPT !.auth = "refresh", !.trust = TRUE]))
  @@
  (t2 :> (n1 :> [Plain EXCEPT !.auth = "user"] @@
          n2 :> [Plain EXCEPT !.forward = TRUE]))

Token(tenant, u, xsuaa) == [tenant |-> tenant, user |-> u, xsuaa |-> xsuaa, exp |-> 2]

Base == [name |-> n1, jwt |-> Undefined, iss |-> Undefined, strategy |-> "subscriberFirst",
         isolation |-> Undefined, useCache |-> TRUE, exchange |-> TRUE, refreshToken |-> FALSE]

MCOptions ==
  { [Base EXCEPT !.jwt = Token(t2, u1, TRUE)],
    [Base EXCEPT !.jwt = Token(t2, u2, FALSE), !.strategy = "alwaysSubscriber"],
    [Base EXCEPT !.jwt = Token(t1, u1, TRUE), !.isolation = "tenant", !.useCache = Undefined],
    [Base EXCEPT !.jwt = Token(t2, u1, TRUE), !.name = n2],
    [Base EXCEPT !.jwt = Token(t2, u2, TRUE), !.name = n2, !.useCache = Undefined,
                 !.isolation = "tenant"],
    [Base EXCEPT !.jwt = Token(t2, u1, TRUE), !.name = n2, !.isolation = "tenant"],
    [Base EXCEPT !.iss = t2, !.name = n2],
    [Base EXCEPT !.jwt = Token(t2, u1, TRUE), !.strategy = "custom"],
    [Base EXCEPT !.strategy = "alwaysProvider", !.name = n2, !.refreshToken = TRUE] }

\* One user whose token is forwarded.
ForwardOptions == { [Base EXCEPT !.jwt = Token(t2, u1, TRUE), !.name = n2] }

Symmetry == Permutations(Calls)
=============================================================================
