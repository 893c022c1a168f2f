---------------------------- MODULE OpenApiNames ----------------------------
(***************************************************************************)
(* ensureUniqueNames() of the OpenAPI generator: the names of operations,  *)
(* parameters, schemas and files, formatted and told apart.  Names that    *)
(* are fine as they are keep precedence over names that are renamed.       *)
(***************************************************************************)
EXTENDS UniqueNameGenerator

CONSTANTS Lists,          \* lists of original names, without `strictNaming' or with it
          Format,         \* the format function, e.g. camelCase, by original name
          ReservedWords

VARIABLES names,   \* the original names
          strict,  \* the option strictNaming
          pending, \* nonConflictingNames
          used,    \* usedNames of the name generator
          result,  \* the names found so far
          status   \* "start", "rename", "done" or "failed"

vars == <<names, strict, pending, used, result, status>>

NamesAssumption ==
  /\ Lists \subseteq Seq(Name)
  /\ ReservedWords \subseteq Name
  /\ Format \in [DOMAIN Format -> Name]
  /\ \A list \in Lists : \A i \in 1..Len(list) : list[i] \in DOMAIN Format

Positions == 1..Len(names)

\* getNonConflictingNames(): those among the first i names.
CorrectNames[i \in 0..Len(names)] ==
  IF i = 0 THEN <<>>
  ELSE IF \/ names[i] \in ReservedWords
          \/ names[i] \in NamesIn(CorrectNames[i - 1])
          \/ Format[names[i]] # names[i]
    THEN CorrectNames[i - 1]
  ELSE Append(CorrectNames[i - 1], names[i])

\* Mutant: each name is put before those that were found earlier.
PrependedNames ==
  LET found == CorrectNames[Len(names)] IN [n \in 1..Len(found) |-> found[Len(found) + 1 - n]]

NonConflictingNames == CorrectNames[Len(names)]

\* validateUniqueness()
HasConflicts ==
  \/ \E i, j \in Positions : i < j /\ Format[names[i]] = Format[names[j]]
  \/ \E i \in Positions : Format[names[i]] \in ReservedWords

-----------------------------------------------------------------------------

Init ==
  /\ names \in Lists
  /\ strict \in BOOLEAN
  /\ pending = <<>>
  /\ used = {}
  /\ result = <<>>
  /\ status = "start"

EnsureStrictly ==
  /\ status = "start"
  /\ strict
  /\ IF HasConflicts
       THEN status' = "failed" /\ UNCHANGED result
       ELSE status' = "done" /\ result' = [i \in Positions |-> Format[names[i]]]
  /\ UNCHANGED <<names, strict, pending, used>>

\* Mutant: the generator knows the reserved words only.
StartWithReserved ==
  /\ pending' = NonConflictingNames
  /\ used' = ReservedWords

\* deduplicateNames() up to the loop.
StartGenerator ==
  /\ pending' = NonConflictingNames
  /\ used' = ReservedWords \cup NamesIn(NonConflictingNames)

StartRenaming ==
  /\ status = "start"
  /\ ~strict
  /\ StartGenerator
  /\ status' = "rename"
  /\ UNCHANGED <<names, strict, result>>

Current == names[Len(result) + 1]

AddToUsedNames(generated) == used' = used \cup NamesIn(generated)

IsKept == pending # <<>> /\ pending[1] = Current

KeepName ==
  /\ status = "rename"
  /\ Len(result) < Len(names)
  /\ IsKept
  /\ pending' = SubSeq(pending, 2, Len(pending))
  /\ result' = Append(result, Current)
  /\ UNCHANGED <<names, strict, used, status>>

GenerateName ==
  /\ status = "rename"
  /\ Len(result) < Len(names)
  /\ ~IsKept
  /\ LET generated == GenerateUniqueNamesWithSuffixes(used, Format[Current], <<>>, TRUE) IN
       IF generated = Exhausted
         THEN status' = "failed" /\ UNCHANGED <<used, result>>
         ELSE /\ AddToUsedNames(<<generated[1]>>)
              /\ result' = Append(result, generated[1])
              /\ UNCHANGED status
  /\ UNCHANGED <<names, strict, pending>>

FinishRenaming ==
  /\ status = "rename"
  /\ Len(result) = Len(names)
  /\ status' = "done"
  /\ UNCHANGED <<names, strict, pending, used, result>>

Next ==
  \/ EnsureStrictly
  \/ StartRenaming
  \/ KeepName
  \/ GenerateName
  \/ FinishRenaming

Spec == Init /\ [][Next]_vars

-----------------------------------------------------------------------------
(* Properties                                                              *)

TypeOK ==
  /\ names \in Lists
  /\ strict \in BOOLEAN
  /\ pending \in Seq(Name)
  /\ used \subseteq Name
  /\ result \in Seq(Name)
  /\ Len(result) <= Len(names)
  /\ status \in {"start", "rename", "done", "failed"}

\* A name that is fine as it is: not reserved, the first of its kind, formatted.
IsNonConflicting(i) ==
  /\ names[i] \notin ReservedWords
  /\ \A j \in 1..i - 1 : names[j] # names[i]
  /\ Format[names[i]] = names[i]

\* No two of the names found so far are equal and none is reserved.
ResultIsUnique ==
  \A i \in 1..Len(result) :
    /\ result[i] \notin ReservedWords
    /\ \A j \in 1..Len(result) : result[i] = result[j] => i = j

\* A name that is fine as it is stays at its place, whichever names before it
\* would be formatted to it: the loop, which compares with the first pending
\* name only, does not miss it.
ProperNamesStay ==
  \A i \in 1..Len(result) : IsNonConflicting(i) => result[i] = names[i]
=============================================================================
