------------------------- MODULE MCResilientRequest -------------------------
(***************************************************************************)
(* c1 and c2 share the breaker of tenant t1, c3 asks the same target for   *)
(* another tenant.  c1 is a modifying request and has one retry; only c3   *)
(* has no timeout.                                                         *)
(***************************************************************************)
EXTENDS ResilientRequest

CONSTANTS c1, c2, c3, t1

MCUri == [c \in Calls |-> "uri"]
MCTenantId == [c \in Calls |-> IF c = c3 THEN Undefined ELSE t1]
MCRetries == [c \in Calls |-> IF c = c1 THEN 1 ELSE 0]
OnlyC1 == [c \in Calls |-> c = c1]
NotC3 == [c \in Calls |-> c # c3]
All == [c \in Calls |-> TRUE]
=============================================================================
