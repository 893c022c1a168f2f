--------------------------- MODULE MCServiceToken ---------------------------
(***************************************************************************)
(* Three calls over two tenants and two services.  t2 is addressed by its  *)
(* tenant identifier, by its subdomain, or by both; t1 is the provider.    *)
(***************************************************************************)
EXTENDS ServiceToken, TLC

CONSTANTS c1, c2, c3, t1, t2, s2, cl1, cl2

MCTenantOf == (s2 :> t2)

MCLifetimes == {0, 1, Undefined}

Req(jwt, client, useCache) == [jwt |-> jwt, client |-> client, useCache |-> useCache]

MCRequests ==
  { Req(Undefined, cl1, TRUE),
    Req([zid |-> t2, zdn |-> s2], cl1, TRUE),
    Req([zid |-> t2, zdn |-> Undefined], cl2, TRUE),
    Req([zid |-> Undefined, zdn |-> s2], cl1, TRUE),
    Req([zid |-> t2, zdn |-> s2], cl1, FALSE),
    Req([zid |-> Undefined, zdn |-> Undefined], cl1, TRUE) }

Symmetry == Permutations({c1, c2, c3})
=============================================================================
