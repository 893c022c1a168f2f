---------------------------- MODULE ServiceNames ----------------------------
(***************************************************************************)
(* ServiceNameFormatter: the names of the classes, types and functions     *)
(* that are generated for one OData service.  All share one generator of   *)
(* unique names; classes and types are compared ignoring the case, as each *)
(* becomes a file, functions are not.                                      *)
(***************************************************************************)
EXTENDS UniqueNameGenerator

CONSTANTS Classes,        \* transformed names of entity sets
          Types,          \* transformed names of complex types and enums
          Operations,     \* transformed names of actions and functions
          ReservedWords,  \* names the generator starts with
          JsKeywords,     \* reservedJsKeywords
          SkipValidation, \* the option of the generator
          MaxNames        \* bound: so many names are asked for

VARIABLES used,    \* usedNames of the serviceWideNameGenerator
          granted, \* the names given away, in the order of the calls
          status   \* "ok", "conflict" or "exhausted": an error ends the generation

vars == <<used, granted, status>>

TypeSuffix == <<<<"type", 1>>>>
Prefix == <<<<"f", 0>>>>

ASSUME ServiceAssumption ==
  /\ {TypeSuffix, Prefix} \subseteq Name
  /\ Classes \cup Types \cup Operations \cup ReservedWords \cup JsKeywords \subseteq Name
  /\ <<>> \notin JsKeywords
  /\ SkipValidation \in BOOLEAN
  /\ MaxNames \in Nat

\* applyPrefixOnJsConflictFunctionImports(), after the name was made unique.
ApplyPrefixOnJsConflict(name) ==
  IF name \in JsKeywords
    THEN Prefix \o <<<<name[1][1], 1>>>> \o SubSeq(name, 2, Len(name)) ELSE name

\* Mutant: a tolerated change is remembered.
RememberNameChange(wanted, name) ==
  status' = IF name = wanted THEN "ok" ELSE IF SkipValidation THEN "warned" ELSE "conflict"

\* assertNameChange(): a changed name is an error unless it is tolerated.
AssertNameChange(wanted, name) ==
  status' = IF name = wanted \/ SkipValidation THEN "ok" ELSE "conflict"

Ready == status = "ok" /\ Len(granted) < MaxNames

\* One of the methods: the names are saved before the change is looked at.
Grant(kind, wanted, names, name) ==
  /\ used' = used \cup NamesIn(names)
  /\ granted' = Append(granted, [kind |-> kind, wanted |-> wanted,
                                 names |-> NamesIn(names), name |-> name])
  /\ AssertNameChange(wanted, name)

Exhaust ==
  /\ status' = "exhausted"
  /\ UNCHANGED <<used, granted>>

-----------------------------------------------------------------------------

Init ==
  /\ used = ReservedWords
  /\ granted = <<>>
  /\ status = "ok"

\* originalToEntityClassName(): a class and the interface called ...Type.
EntityClassName(n) ==
  /\ Ready
  /\ LET names == GenerateUniqueNamesWithSuffixes(used, n, <<TypeSuffix>>, FALSE) IN
       IF names = Exhausted THEN Exhaust ELSE Grant("class", n, names, names[1])

\* originalToComplexTypeName() and originalToEnumTypeName()
ServiceWideName(n) ==
  /\ Ready
  /\ LET names == GenerateUniqueNamesWithSuffixes(used, n, <<>>, FALSE) IN
       IF names = Exhausted THEN Exhaust ELSE Grant("type", n, <<names[1]>>, names[1])

\* originalToOperationName()
OperationName(n) ==
  /\ Ready
  /\ LET names == GenerateUniqueNamesWithSuffixes(used, n, <<>>, TRUE) IN
       IF names = Exhausted THEN Exhaust
       ELSE Grant("operation", n, <<names[1]>>, ApplyPrefixOnJsConflict(names[1]))

Next ==
  \/ \E n \in Classes : EntityClassName(n)
  \/ \E n \in Types : ServiceWideName(n)
  \/ \E n \in Operations : OperationName(n)

Spec == Init /\ [][Next]_vars

-----------------------------------------------------------------------------
(* Properties                                                              *)

TypeOK ==
  /\ used \subseteq Name
  /\ granted \in Seq([kind : {"class", "type", "operation"}, wanted : Name,
                      names : SUBSET Name, name : Name])
  /\ status \in {"ok", "conflict", "exhausted"}

LowerAll(names) == { Lower(n) : n \in names }

\* What a grant exports: a function has its name after the prefix, a class goes
\* with the interface.
Exports(g) == IF g.kind = "operation" THEN {g.name} ELSE g.names

\* A function whose name was a keyword.
HasPrefix(g) == g.kind = "operation" /\ g.name \notin g.names

\* Whatever is named in which order: two exports of the service have one name only
\* if one of them got the prefix for keywords, which is put before a name that was
\* made unique without it; and the files of two classes or types, and the interfaces
\* in them, never differ in the case of letters only, nor from a reserved name.
NamesDiffer ==
  \A i, j \in 1..Len(granted) :
    /\ i < j /\ Exports(granted[i]) \cap Exports(granted[j]) # {} =>
         HasPrefix(granted[i]) \/ HasPrefix(granted[j])
    /\ granted[i].kind # "operation" =>
         /\ LowerAll(granted[i].names) \cap LowerAll(ReservedWords) = {}
         /\ i < j /\ granted[j].kind # "operation" =>
              LowerAll(granted[i].names) \cap LowerAll(granted[j].names) = {}

\* A name is refused only when each index has a taken name, and changed only
\* when it or its interface was taken, ignoring the case where files are named.
ConflictOnlyWhenTaken ==
  [][ /\ status' = "exhausted" => \E n \in Classes \cup Types \cup Operations :
           \A i \in 1..MaximumNumberOfSuffix - 1 :
             \E u \in used : StartsWith(Lower(u),
                               Lower(GetNameWithoutIndex(n)) \o <<<<Index, i>>>>)
      /\ \A i \in Len(granted) + 1..Len(granted') :
           LET g == granted'[i] IN
             g.name # g.wanted =>
               \/ g.wanted \in JsKeywords
               \/ \E u \in used : Lower(u) \in {Lower(g.wanted), Lower(g.wanted \o TypeSuffix)} ]_vars
=============================================================================
