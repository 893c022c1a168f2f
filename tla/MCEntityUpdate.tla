---------------------------- MODULE MCEntityUpdate ----------------------------
(***************************************************************************)
(* One entity object with two properties; builders send PATCH, PATCH with  *)
(* a required field, or PUT.                                               *)
(***************************************************************************)
EXTENDS EntityUpdate, TLC

CONSTANTS f1, f2

Plain == [put |-> FALSE, required |-> {}, ignored |-> {}, versionIdentifierIgnored |-> FALSE]

MCBuildOptions == {Plain, [Plain EXCEPT !.required = {f2}], [Plain EXCEPT !.put = TRUE]}

Symmetry == Permutations(Builders) \cup Permutations(Values)

OnlyPlain == {Plain}
=============================================================================
