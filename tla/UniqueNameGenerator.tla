------------------------ MODULE UniqueNameGenerator ------------------------
(***************************************************************************)
(* The class UniqueNameGenerator of the util package, which the generators *)
(* use to name classes, functions, parameters and files.                   *)
(*                                                                         *)
(* A name is a sequence of tokens.  The token <<w, v>> is a word w in the  *)
(* spelling v, 0 being lower case; the token <<Index, i>> is the separator *)
(* followed by the number i.                                               *)
(***************************************************************************)
EXTENDS Naturals, Sequences

CONSTANTS MaximumNumberOfSuffix,  \* MAXIMUM_NUMBER_OF_SUFFIX: 1000 in the code
          Exhausted               \* thrown when no index is left

Index == "#"

Token == STRING \X Nat
Name == Seq(Token)

ASSUME GeneratorAssumption ==
  /\ MaximumNumberOfSuffix \in Nat
  /\ Exhausted \notin Seq(Name)
  /\ Index \in STRING  \* true by itself, but no prover knows that it is

Lower(name) ==
  [i \in 1..Len(name) |-> IF name[i][1] = Index THEN name[i] ELSE <<name[i][1], 0>>]

GetNameForComparison(name, caseSensitive) == IF caseSensitive THEN name ELSE Lower(name)

\* The digits at the end and the separator before them are cut off.
GetNameWithoutIndex(name) ==
  IF name # <<>> /\ name[Len(name)][1] = Index THEN SubSeq(name, 1, Len(name) - 1) ELSE name

StartsWith(name, start) ==
  Len(start) <= Len(name) /\ SubSeq(name, 1, Len(start)) = start

\* Mutant: the used names are compared as they are spelled.
UsedNamesAsSpelled(used, name, caseSensitive) ==
  { u \in used : StartsWith(u, GetNameWithoutIndex(name)) }

\* Used names that begin like the name, spelled for comparison.
GetUsedNamesStartingWith(used, name, caseSensitive) ==
  { u \in { GetNameForComparison(v, caseSensitive) : v \in used } :
      StartsWith(u, GetNameForComparison(GetNameWithoutIndex(name), caseSensitive)) }

GenerateNamesWithSuffixes(name, suffixes) ==
  <<name>> \o [i \in 1..Len(suffixes) |-> name \o suffixes[i]]

GenerateNamesWithIndexAndSuffixes(name, index, suffixes) ==
  GenerateNamesWithSuffixes(GetNameWithoutIndex(name) \o <<<<Index, index>>>>, suffixes)

\* Mutant: a name that begins a used name counts as used.
BeginUsedName(names, used, caseSensitive) ==
  \E i \in 1..Len(names) :
    \E u \in used : StartsWith(GetNameForComparison(u, caseSensitive),
                              GetNameForComparison(names[i], caseSensitive))

AreNamesUsed(names, used, caseSensitive) ==
  \E i \in 1..Len(names) :
    \E u \in used : GetNameForComparison(names[i], caseSensitive)
                      = GetNameForComparison(u, caseSensitive)

\* Indices below the maximum whose names are all free.
FreeIndices(used, name, suffixes, caseSensitive) ==
  { i \in 1..MaximumNumberOfSuffix - 1 :
      ~AreNamesUsed(GenerateNamesWithIndexAndSuffixes(name, i, suffixes), used, caseSensitive) }

\* Without an index the result holds the name itself twice.
GenerateUniqueNamesWithSuffixes(used, name, suffixes, caseSensitive) ==
  LET relevant == GetUsedNamesStartingWith(used, name, caseSensitive)
      plain == GenerateNamesWithSuffixes(name, suffixes)
      free == FreeIndices(relevant, name, suffixes, caseSensitive)
  IN IF ~AreNamesUsed(plain, relevant, caseSensitive) THEN <<name>> \o plain
     ELSE IF free = {} THEN Exhausted
     ELSE GenerateNamesWithIndexAndSuffixes(
            name, CHOOSE i \in free : \A j \in free : i <= j, suffixes)

\* addToUsedNames()
NamesIn(names) == { names[i] : i \in 1..Len(names) }
=============================================================================
