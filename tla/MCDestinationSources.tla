------------------------ MODULE MCDestinationSources ------------------------
(***************************************************************************)
(* Three calls, each a lookup or a registration, of the provider t1 and    *)
(* the subscriber t2.                                                      *)
(***************************************************************************)
EXTENDS DestinationSources, TLC

CONSTANTS t1, t2, u1, u2, env, reg, fwd, bound, r1, r2, r3

MCObjectName == r1 :> reg @@ r2 :> reg @@ r3 :> fwd

Xsuaa(tenant, user) == [tenant |-> tenant, claim |-> "zid", user |-> user]
Ias(tenant, user) == [tenant |-> tenant, claim |-> "app_tid", user |-> user]

Lookup(name, jwt) == [name |-> name, jwt |-> jwt, iss |-> Undefined,
                      isolation |-> Undefined, useCache |-> TRUE]

Registration(jwt) == [jwt |-> jwt, isolation |-> Undefined,
                      inferMtls |-> FALSE, useMtlsCache |-> FALSE]

\* Tokens of XSUAA only, no `iss'.
MCLookups ==
  { Lookup(env, Xsuaa(t1, u1)),
    Lookup(reg, Xsuaa(t2, u1)),
    Lookup(reg, Xsuaa(t1, u1)),
    [Lookup(reg, Xsuaa(t2, u2)) EXCEPT !.isolation = "tenant"],
    Lookup(reg, Undefined),
    Lookup(bound, Xsuaa(t2, u1)),
    Lookup(bound, Xsuaa(t2, Undefined)),
    Lookup(bound, Undefined),
    [Lookup(bound, Xsuaa(t1, u1)) EXCEPT !.useCache = FALSE],
    [Lookup(fwd, Xsuaa(t2, u1)) EXCEPT !.isolation = "tenant"],
    [Lookup(fwd, Xsuaa(t2, u2)) EXCEPT !.isolation = "tenant"] }

MCRegistrations ==
  { Registration(Undefined),
    Registration(Xsuaa(t2, u1)),
    Registration(Xsuaa(t2, Undefined)),
    [Registration(Xsuaa(t2, u2)) EXCEPT !.isolation = "tenant", !.inferMtls = TRUE,
                                        !.useMtlsCache = TRUE] }

\* Tokens of IAS, which name the tenant `app_tid', for tenant isolation.
IasLookups == { [Lookup(reg, Ias(t, u1)) EXCEPT !.isolation = "tenant"] : t \in {t1, t2} }
IasRegistrations == { [Registration(Ias(t, u1)) EXCEPT !.isolation = "tenant"] : t \in {t1, t2} }

\* Two users of one tenant whose tokens are forwarded.
ForwardLookups ==
  { [Lookup(fwd, Xsuaa(t2, u)) EXCEPT !.isolation = "tenant"] : u \in {u1, u2} }
ForwardRegistrations == { Registration(Xsuaa(t2, Undefined)) }

Symmetry == Permutations(Calls)
=============================================================================
