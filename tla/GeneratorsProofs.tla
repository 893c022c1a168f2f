-------------------------- MODULE GeneratorsProofs --------------------------
(***************************************************************************)
(* The names that the two generators give differ, and change only for a    *)
(* reason, for every set or list of names, format, reserved words and      *)
(* keywords, and every number of suffixes.                                 *)
(***************************************************************************)
EXTENDS MCGenerators, SequenceTheorems, WellFoundedInduction, TLAPS

-----------------------------------------------------------------------------
(* Names and their spelling                                                *)

\* How one token is spelled for comparison.
Spell(token, caseSensitive) ==
  IF caseSensitive \/ token[1] = Index THEN token ELSE <<token[1], 0>>

\* Names with the same tokens are the same.
LEMMA SameTokens ==
  ASSUME NEW m \in Name, NEW n \in Name, Len(m) = Len(n),
         \A i \in 1..Len(m) : m[i] = n[i]
  PROVE  m = n
<1>1. m \in [1..Len(m) -> Token] /\ n \in [1..Len(m) -> Token]
  BY LenProperties DEF Name
<1> QED
  BY <1>1

\* A name is compared token by token.
LEMMA Comparison ==
  ASSUME NEW name \in Name, NEW caseSensitive \in BOOLEAN
  PROVE  LET compared == GetNameForComparison(name, caseSensitive) IN
           /\ compared \in Name
           /\ Len(compared) = Len(name)
           /\ \A i \in 1..Len(name) : compared[i] = Spell(name[i], caseSensitive)
<1>1. Len(name) \in Nat /\ \A i \in 1..Len(name) : name[i] \in Token
  BY LenProperties, ElementOfSeq DEF Name
<1>2. CASE caseSensitive
  BY <1>1, <1>2 DEF GetNameForComparison, Spell
<1>3. CASE ~caseSensitive
  <2>1. \A i \in 1..Len(name) :
          (IF name[i][1] = Index THEN name[i] ELSE <<name[i][1], 0>>) \in Token
    BY <1>1 DEF Token
  <2>2. Lower(name) \in [1..Len(name) -> Token]
    BY <2>1 DEF Lower
  <2>3. Lower(name) \in Name
    BY <1>1, <2>2, SeqDef DEF Name
  <2>4. Len(Lower(name)) = Len(name)
    <3>1. DOMAIN Lower(name) = 1..Len(Lower(name)) /\ Len(Lower(name)) \in Nat
      BY <2>3, LenProperties DEF Name
    <3> QED
      BY <1>1, <2>2, <3>1
  <2> QED
    BY <1>3, <2>3, <2>4 DEF GetNameForComparison, Spell, Lower
<1> QED
  BY <1>2, <1>3

\* Lower case is the spelling for a comparison that ignores case.
LEMMA LowerIsComparison ==
  ASSUME NEW name
  PROVE  Lower(name) = GetNameForComparison(name, FALSE)
BY DEF GetNameForComparison

\* What was spelled for comparison is compared as it is.
LEMMA ComparedOnce ==
  ASSUME NEW name \in Name, NEW caseSensitive \in BOOLEAN
  PROVE  LET compared == GetNameForComparison(name, caseSensitive) IN
           GetNameForComparison(compared, caseSensitive) = compared
<1> DEFINE compared == GetNameForComparison(name, caseSensitive)
           again == GetNameForComparison(compared, caseSensitive)
<1>1. /\ compared \in Name /\ Len(compared) = Len(name)
      /\ \A i \in 1..Len(name) : compared[i] = Spell(name[i], caseSensitive)
  BY Comparison
<1>2. /\ again \in Name /\ Len(again) = Len(name)
      /\ \A i \in 1..Len(name) : again[i] = Spell(compared[i], caseSensitive)
  BY <1>1, Comparison
<1>3. \A t : Spell(Spell(t, caseSensitive), caseSensitive) = Spell(t, caseSensitive)
  BY DEF Spell
<1>4. \A i \in 1..Len(again) : again[i] = compared[i]
  BY <1>1, <1>2, <1>3
<1> QED
  BY <1>1, <1>2, <1>4, SameTokens

\* Beginning with a name means having its tokens.
LEMMA StartTokens ==
  ASSUME NEW name \in Name, NEW start \in Name
  PROVE  StartsWith(name, start) <=>
           /\ Len(start) <= Len(name)
           /\ \A i \in 1..Len(start) : name[i] = start[i]
<1>1. Len(start) \in Nat /\ Len(name) \in Nat /\ \A i \in 1..Len(name) : name[i] \in Token
  BY LenProperties, ElementOfSeq DEF Name
<1> SUFFICES ASSUME Len(start) <= Len(name)
             PROVE  SubSeq(name, 1, Len(start)) = start
                      <=> \A i \in 1..Len(start) : name[i] = start[i]
  BY DEF StartsWith
<1>2. /\ SubSeq(name, 1, Len(start)) \in Name
      /\ Len(SubSeq(name, 1, Len(start))) = Len(start)
      /\ \A i \in 1..Len(start) : SubSeq(name, 1, Len(start))[i] = name[i]
  <2>1. \A i \in 1..Len(start) : name[i] \in Token
    BY <1>1
  <2>2. /\ SubSeq(name, 1, Len(start)) \in Seq(Token)
        /\ Len(SubSeq(name, 1, Len(start))) = IF 1 <= Len(start) THEN Len(start) - 1 + 1 ELSE 0
        /\ \A i \in 1..Len(start) - 1 + 1 : SubSeq(name, 1, Len(start))[i] = name[1 + i - 1]
    BY <1>1, <2>1, SubSeqProperties
  <2> QED
    BY <1>1, <2>2 DEF Name
<1> QED
  BY <1>2, SameTokens

\* Spelling names for comparison keeps how they begin.
LEMMA ComparedStart ==
  ASSUME NEW name \in Name, NEW start \in Name, NEW caseSensitive \in BOOLEAN,
         StartsWith(name, start)
  PROVE  StartsWith(GetNameForComparison(name, caseSensitive),
                    GetNameForComparison(start, caseSensitive))
<1>1. Len(start) \in Nat /\ Len(name) \in Nat
  BY LenProperties DEF Name
<1>2. /\ Len(start) <= Len(name)
      /\ \A i \in 1..Len(start) : name[i] = start[i]
  BY StartTokens
<1>3. \A i \in 1..Len(start) : i \in 1..Len(name)
  BY <1>1, <1>2
<1>4. /\ GetNameForComparison(name, caseSensitive) \in Name
      /\ Len(GetNameForComparison(name, caseSensitive)) = Len(name)
      /\ \A i \in 1..Len(name) :
           GetNameForComparison(name, caseSensitive)[i] = Spell(name[i], caseSensitive)
      /\ GetNameForComparison(start, caseSensitive) \in Name
      /\ Len(GetNameForComparison(start, caseSensitive)) = Len(start)
      /\ \A i \in 1..Len(start) :
           GetNameForComparison(start, caseSensitive)[i] = Spell(start[i], caseSensitive)
  BY Comparison
<1> QED
  BY <1>2, <1>3, <1>4, StartTokens

\* A name begins with each name it is put behind.
LEMMA ConcatStart ==
  ASSUME NEW name \in Name, NEW start \in Name, NEW end \in Name,
         StartsWith(name, start)
  PROVE  /\ name \o end \in Name
         /\ StartsWith(name \o end, start)
<1>1. Len(start) \in Nat /\ Len(name) \in Nat /\ Len(end) \in Nat
  BY LenProperties DEF Name
<1>2. /\ Len(start) <= Len(name)
      /\ \A i \in 1..Len(start) : name[i] = start[i]
  BY StartTokens
<1>3. /\ name \o end \in Name
      /\ Len(name \o end) = Len(name) + Len(end)
      /\ \A i \in 1..Len(name) + Len(end) :
           (name \o end)[i] = IF i <= Len(name) THEN name[i] ELSE end[i - Len(name)]
  BY ConcatProperties DEF Name
<1>4. \A i \in 1..Len(start) : (name \o end)[i] = start[i]
  BY <1>1, <1>2, <1>3
<1>5. Len(start) <= Len(name \o end)
  BY <1>1, <1>2, <1>3
<1>6. StartsWith(name \o end, start)
  BY <1>3, <1>4, <1>5, StartTokens
<1> QED
  BY <1>3, <1>6

\* Beginnings of beginnings are beginnings.
LEMMA StartTransitive ==
  ASSUME NEW m \in Name, NEW n \in Name, NEW start \in Name,
         StartsWith(m, n), StartsWith(n, start)
  PROVE  StartsWith(m, start)
<1>1. Len(start) \in Nat /\ Len(m) \in Nat /\ Len(n) \in Nat
  BY LenProperties DEF Name
<1>2. /\ Len(start) <= Len(n) /\ Len(n) <= Len(m)
      /\ \A i \in 1..Len(start) : n[i] = start[i]
      /\ \A i \in 1..Len(n) : m[i] = n[i]
  BY StartTokens
<1>3. Len(start) <= Len(m) /\ \A i \in 1..Len(start) : m[i] = start[i]
  BY <1>1, <1>2
<1> QED
  BY <1>3, StartTokens

\* A name begins with itself.
LEMMA StartReflexive ==
  ASSUME NEW name \in Name
  PROVE  StartsWith(name, name)
<1>1. Len(name) \in Nat
  BY LenProperties DEF Name
<1> QED
  BY <1>1, StartTokens

\* Without its index a name is a name, with which it begins.
LEMMA WithoutIndex ==
  ASSUME NEW name \in Name
  PROVE  /\ GetNameWithoutIndex(name) \in Name
         /\ StartsWith(name, GetNameWithoutIndex(name))
<1>1. Len(name) \in Nat /\ \A i \in 1..Len(name) : name[i] \in Token
  BY LenProperties, ElementOfSeq DEF Name
<1>2. CASE name # <<>> /\ name[Len(name)][1] = Index
  <2> DEFINE short == SubSeq(name, 1, Len(name) - 1)
  <2>1. Len(name) # 0
    BY <1>2, EmptySeq DEF Name
  <2>2. \A i \in 1..Len(name) - 1 : name[i] \in Token
    BY <1>1
  <2>3. /\ short \in Seq(Token)
        /\ Len(short) = IF 1 <= Len(name) - 1 THEN Len(name) - 1 - 1 + 1 ELSE 0
        /\ \A i \in 1..Len(name) - 1 - 1 + 1 : short[i] = name[1 + i - 1]
    BY <1>1, <2>1, <2>2, SubSeqProperties
  <2>4. PICK s : s = short
    OBVIOUS
  <2>5. s \in Name /\ Len(s) = Len(name) - 1
    <3>1. s \in Name /\ Len(s) = IF 1 <= Len(name) - 1 THEN Len(name) - 1 - 1 + 1 ELSE 0
      BY <2>3, <2>4 DEF Name
    <3>2. \A k \in Nat : k # 0 => (IF 1 <= k - 1 THEN k - 1 - 1 + 1 ELSE 0) = k - 1
      OBVIOUS
    <3> QED
      BY <1>1, <2>1, <3>1, <3>2
  <2>6. \A i \in 1..Len(s) : i \in 1..Len(name) - 1 - 1 + 1 /\ 1 + i - 1 = i
    BY <1>1, <2>5
  <2>7. \A i \in 1..Len(s) : name[i] = s[i]
    BY <2>3, <2>4, <2>6
  <2>8. StartsWith(name, s)
    BY <1>1, <2>5, <2>7, StartTokens
  <2> QED
    BY <1>2, <2>4, <2>5, <2>8 DEF GetNameWithoutIndex
<1>3. CASE ~(name # <<>> /\ name[Len(name)][1] = Index)
  BY <1>3, StartReflexive DEF GetNameWithoutIndex
<1> QED
  BY <1>2, <1>3

-----------------------------------------------------------------------------
(* The generator of unique names                                           *)

\* The names that are generated for one name, by their positions.
LEMMA NamesWithSuffixes ==
  ASSUME NEW name \in Name, NEW suffixes \in Seq(Name)
  PROVE  LET names == GenerateNamesWithSuffixes(name, suffixes) IN
           /\ names \in Seq(Name)
           /\ Len(names) = Len(suffixes) + 1
           /\ names[1] = name
           /\ \A i \in 1..Len(suffixes) : names[i + 1] = name \o suffixes[i]
           /\ \A i \in 1..Len(names) : StartsWith(names[i], name)
<1> DEFINE names == GenerateNamesWithSuffixes(name, suffixes)
           long == [i \in 1..Len(suffixes) |-> name \o suffixes[i]]
<1>1. Len(suffixes) \in Nat /\ \A i \in 1..Len(suffixes) : suffixes[i] \in Name
  BY LenProperties, ElementOfSeq
<1>2. \A i \in 1..Len(suffixes) :
        name \o suffixes[i] \in Name /\ StartsWith(name \o suffixes[i], name)
  BY <1>1, ConcatStart, StartReflexive
<1>3. long \in Seq(Name) /\ Len(long) = Len(suffixes)
  <2>1. long \in [1..Len(suffixes) -> Name]
    BY <1>2
  <2>2. long \in Seq(Name)
    BY <1>1, <2>1, SeqDef
  <2>3. DOMAIN long = 1..Len(long) /\ Len(long) \in Nat
    BY <2>2, LenProperties
  <2> QED
    BY <1>1, <2>1, <2>2, <2>3
<1>4. /\ <<name>> \in Seq(Name) /\ Len(<<name>>) = 1 /\ <<name>>[1] = name
  OBVIOUS
<1>5. /\ names \in Seq(Name) /\ Len(names) = 1 + Len(suffixes)
      /\ \A i \in 1..1 + Len(suffixes) : names[i] = IF i <= 1 THEN <<name>>[i] ELSE long[i - 1]
  BY <1>3, <1>4, ConcatProperties DEF GenerateNamesWithSuffixes
<1>6. names[1] = name
  <2>1. 1 \in 1..1 + Len(suffixes)
    BY <1>1
  <2> HIDE DEF names, long
  <2>2. names[1] = <<name>>[1]
    BY <1>5, <2>1
  <2> QED
    BY <1>4, <2>2
<1>7. \A i \in 1..Len(suffixes) : names[i + 1] = name \o suffixes[i]
  <2> TAKE i \in 1..Len(suffixes)
  <2>1. i + 1 \in 1..1 + Len(suffixes) /\ ~(i + 1 <= 1) /\ (i + 1) - 1 = i
    BY <1>1
  <2>2. long[i] = name \o suffixes[i]
    OBVIOUS
  <2> HIDE DEF names, long
  <2> QED
    BY <1>5, <2>1, <2>2
<1>8. \A i \in 1..Len(names) : i = 1 \/ \E j \in 1..Len(suffixes) : i = j + 1
  <2> TAKE i \in 1..Len(names)
  <2>1. i # 1 => i - 1 \in 1..Len(suffixes) /\ i = (i - 1) + 1
    BY <1>1, <1>5
  <2> QED
    BY <2>1
<1>9. \A i \in 1..Len(names) : StartsWith(names[i], name)
  BY <1>2, <1>6, <1>7, <1>8, StartReflexive
<1> QED
  BY <1>1, <1>5, <1>6, <1>7, <1>9

\* Looking only at used names with the same beginning overlooks none.
LEMMA NoneIsOverlooked ==
  ASSUME NEW taken \in SUBSET Name, NEW name \in Name, NEW caseSensitive \in BOOLEAN,
         NEW names \in Seq(Name),
         \A i \in 1..Len(names) : StartsWith(names[i], GetNameWithoutIndex(name))
  PROVE  AreNamesUsed(names, GetUsedNamesStartingWith(taken, name, caseSensitive), caseSensitive)
           <=> AreNamesUsed(names, taken, caseSensitive)
<1> DEFINE Compared(n) == GetNameForComparison(n, caseSensitive)
           relevant == GetUsedNamesStartingWith(taken, name, caseSensitive)
<1>1. \A i \in 1..Len(names) : names[i] \in Name
  BY ElementOfSeq
<1>2. ASSUME NEW i \in 1..Len(names), NEW u \in taken, Compared(names[i]) = Compared(u)
      PROVE  \E v \in relevant : Compared(names[i]) = Compared(v)
  <2>1. StartsWith(Compared(u), Compared(GetNameWithoutIndex(name)))
    BY <1>1, <1>2, ComparedStart, WithoutIndex
  <2>2. Compared(u) \in relevant
    BY <2>1 DEF GetUsedNamesStartingWith
  <2>3. Compared(names[i]) = Compared(Compared(u))
    BY <1>2, ComparedOnce
  <2> QED
    BY <2>2, <2>3
<1>3. ASSUME NEW i \in 1..Len(names), NEW v \in relevant, Compared(names[i]) = Compared(v)
      PROVE  \E u \in taken : Compared(names[i]) = Compared(u)
  <2>1. PICK u \in taken : v = Compared(u)
    BY DEF GetUsedNamesStartingWith
  <2>2. Compared(v) = Compared(u)
    BY <2>1, ComparedOnce
  <2> QED
    BY <1>3, <2>2
<1> QED
  BY <1>2, <1>3 DEF AreNamesUsed

\* A set of numbers has a smallest element, which stands in for induction below.
LEMMA LeastNumber ==
  ASSUME NEW T, T \subseteq Nat, T # {}
  PROVE  \E i \in T : \A j \in T : i <= j
<1>1. \E i \in T : \A j \in T : ~(<<j, i>> \in OpToRel(<, Nat))
  BY NatLessThanWellFounded, WFMin
<1>2. PICK i \in T : \A j \in T : ~(j < i)
  BY <1>1 DEF OpToRel
<1>3. \A j \in T : i <= j
  BY <1>2
<1> QED
  BY <1>3

\* Induction over the numbers, for a set in place of a predicate.
LEMMA NumberInduction ==
  ASSUME NEW T, 0 \in T, \A n \in Nat : n \in T => n + 1 \in T
  PROVE  Nat \subseteq T
<1> SUFFICES ASSUME Nat \ T # {} PROVE FALSE
  OBVIOUS
<1>1. Nat \ T \subseteq Nat
  OBVIOUS
<1>2. PICK n \in Nat \ T : \A m \in Nat \ T : n <= m
  BY <1>1, LeastNumber
<1>3. n # 0 /\ n - 1 \in Nat /\ (n - 1) + 1 = n /\ ~(n <= n - 1)
  BY <1>2
<1>4. n - 1 \in T
  BY <1>2, <1>3
<1> QED
  BY <1>2, <1>3, <1>4

\* The smallest of the free indices is one of them.
LEMMA Smallest ==
  ASSUME NEW T, T \subseteq Nat, T # {}
  PROVE  (CHOOSE i \in T : \A j \in T : i <= j) \in T
BY LeastNumber

\* The name with one of the indices.
Indexed(name, i) == GetNameWithoutIndex(name) \o <<<<Index, i>>>>

\* A name with an index is a name, and begins with the name without its own index.
LEMMA IndexedName ==
  ASSUME NEW name \in Name, NEW i \in Nat
  PROVE  Indexed(name, i) \in Name /\ StartsWith(Indexed(name, i), GetNameWithoutIndex(name))
<1>1. <<<<Index, i>>>> \in Name
  <2>1. \A t \in Token : <<t>> \in Seq(Token)
    OBVIOUS
  <2>2. Index \in STRING
    BY GeneratorAssumption
  <2>3. <<Index, i>> \in Token
    BY <2>2 DEF Token
  <2> QED
    BY <2>1, <2>3 DEF Name
<1> QED
  BY <1>1, WithoutIndex, ConcatStart, StartReflexive DEF Indexed

\* Names are used when one of them is.
LEMMA NotUsed ==
  ASSUME NEW names, NEW taken, NEW caseSensitive, ~AreNamesUsed(names, taken, caseSensitive)
  PROVE  \A i \in 1..Len(names) : \A u \in taken :
           GetNameForComparison(names[i], caseSensitive) # GetNameForComparison(u, caseSensitive)
BY DEF AreNamesUsed

\* What the generator promises: names that are not used, which are the wanted
\* ones unless one of those is used; and an index for each try that failed.
LEMMA Generated ==
  ASSUME NEW taken \in SUBSET Name, NEW name \in Name, NEW suffixes \in Seq(Name),
         NEW caseSensitive \in BOOLEAN
  PROVE  LET names == GenerateUniqueNamesWithSuffixes(taken, name, suffixes, caseSensitive)
             plain == GenerateNamesWithSuffixes(name, suffixes)
         IN /\ names = Exhausted => \A i \in 1..MaximumNumberOfSuffix - 1 :
                 AreNamesUsed(GenerateNamesWithSuffixes(Indexed(name, i), suffixes),
                              taken, caseSensitive)
            /\ names # Exhausted =>
                 /\ names \in Seq(Name) /\ Len(names) \in Nat \ {0}
                 /\ ~AreNamesUsed(names, taken, caseSensitive)
                 /\ names[1] # name => AreNamesUsed(plain, taken, caseSensitive)
<1> DEFINE names == GenerateUniqueNamesWithSuffixes(taken, name, suffixes, caseSensitive)
           plain == GenerateNamesWithSuffixes(name, suffixes)
           relevant == GetUsedNamesStartingWith(taken, name, caseSensitive)
           numbered(i) == GenerateNamesWithSuffixes(Indexed(name, i), suffixes)
           free == FreeIndices(relevant, name, suffixes, caseSensitive)
<1>1. /\ plain \in Seq(Name) /\ Len(plain) \in Nat \ {0} /\ plain[1] = name
      /\ \A i \in 1..Len(plain) :
           plain[i] \in Name /\ StartsWith(plain[i], GetNameWithoutIndex(name))
  <2>1. /\ plain \in Seq(Name) /\ Len(plain) = Len(suffixes) + 1 /\ plain[1] = name
        /\ \A i \in 1..Len(plain) : StartsWith(plain[i], name)
    BY NamesWithSuffixes
  <2>2. Len(suffixes) \in Nat /\ \A i \in 1..Len(plain) : plain[i] \in Name
    BY <2>1, LenProperties, ElementOfSeq
  <2> QED
    BY <2>1, <2>2, WithoutIndex, StartTransitive
<1>2. ASSUME NEW i \in Nat
      PROVE  /\ numbered(i) \in Seq(Name) /\ Len(numbered(i)) \in Nat \ {0}
             /\ \A j \in 1..Len(numbered(i)) :
                  StartsWith(numbered(i)[j], GetNameWithoutIndex(name))
  <2>1. Indexed(name, i) \in Name /\ StartsWith(Indexed(name, i), GetNameWithoutIndex(name))
    BY IndexedName
  <2>2. /\ numbered(i) \in Seq(Name) /\ Len(numbered(i)) = Len(suffixes) + 1
        /\ \A j \in 1..Len(numbered(i)) : StartsWith(numbered(i)[j], Indexed(name, i))
    BY <2>1, NamesWithSuffixes
  <2>3. Len(suffixes) \in Nat /\ \A j \in 1..Len(numbered(i)) : numbered(i)[j] \in Name
    BY <2>2, LenProperties, ElementOfSeq
  <2> QED
    BY <2>1, <2>2, <2>3, WithoutIndex, StartTransitive
<1>3. 1..MaximumNumberOfSuffix - 1 \subseteq Nat
  BY GeneratorAssumption
<1>4. AreNamesUsed(plain, relevant, caseSensitive) <=> AreNamesUsed(plain, taken, caseSensitive)
  BY <1>1, NoneIsOverlooked
<1>5. ASSUME NEW i \in Nat
      PROVE  AreNamesUsed(numbered(i), relevant, caseSensitive)
               <=> AreNamesUsed(numbered(i), taken, caseSensitive)
  BY <1>2, NoneIsOverlooked
<1>6. free = { i \in 1..MaximumNumberOfSuffix - 1 :
                 ~AreNamesUsed(numbered(i), taken, caseSensitive) }
  BY <1>3, <1>5 DEF FreeIndices, GenerateNamesWithIndexAndSuffixes, Indexed
<1>7. CASE ~AreNamesUsed(plain, taken, caseSensitive)
  <2>1. names = <<name>> \o plain
    BY <1>4, <1>7 DEF GenerateUniqueNamesWithSuffixes
  <2>2. /\ names \in Seq(Name) /\ Len(names) = 1 + Len(plain)
        /\ \A i \in 1..1 + Len(plain) : names[i] = IF i <= 1 THEN <<name>>[i] ELSE plain[i - 1]
    BY <1>1, <2>1, ConcatProperties
  <2>3. names[1] = name
    BY <1>1, <2>2
  <2>4. \A i \in 1..Len(names) : \E j \in 1..Len(plain) : names[i] = plain[j]
    <3> TAKE i \in 1..Len(names)
    <3>1. CASE i = 1
      BY <1>1, <2>3, <3>1
    <3>2. CASE i # 1
      <4>1. i - 1 \in 1..Len(plain) /\ names[i] = plain[i - 1]
        BY <1>1, <2>2, <3>2
      <4> QED
        BY <4>1
    <3> QED
      BY <3>1, <3>2
  <2>5. ~AreNamesUsed(names, taken, caseSensitive)
    BY <1>7, <2>4 DEF AreNamesUsed
  <2> QED
    BY <1>1, <2>2, <2>3, <2>5, GeneratorAssumption
<1>8. CASE AreNamesUsed(plain, taken, caseSensitive) /\ free = {}
  <2>1. names = Exhausted
    BY <1>4, <1>8 DEF GenerateUniqueNamesWithSuffixes
  <2> QED
    BY <1>6, <1>8, <2>1
<1>9. CASE AreNamesUsed(plain, taken, caseSensitive) /\ free # {}
  <2>1. PICK i : i = CHOOSE k \in free : \A j \in free : k <= j
    OBVIOUS
  <2>2. i \in free /\ i \in Nat
    BY <1>3, <1>6, <1>9, <2>1, Smallest
  <2>3. names = numbered(i)
    BY <1>4, <1>9, <2>1 DEF GenerateUniqueNamesWithSuffixes, GenerateNamesWithIndexAndSuffixes, Indexed
  <2>4. names \in Seq(Name) /\ Len(names) \in Nat \ {0} /\ ~AreNamesUsed(names, taken, caseSensitive)
    BY <1>2, <1>6, <2>2, <2>3
  <2> QED
    BY <1>9, <2>4, GeneratorAssumption
<1> QED
  BY <1>7, <1>8, <1>9

-----------------------------------------------------------------------------
(* The inductive invariant                                                 *)

\* The generated names, before any prefix, differ; those of files do ignoring case.
GeneratedDiffer ==
  \A i, j \in 1..Len(granted) :
    /\ i < j => granted[i].names \cap granted[j].names = {}
    /\ granted[i].kind # "operation" =>
         /\ LowerAll(granted[i].names) \cap LowerAll(ReservedWords) = {}
         /\ i < j /\ granted[j].kind # "operation" =>
              LowerAll(granted[i].names) \cap LowerAll(granted[j].names) = {}

\* What was given away, and what is reserved, is remembered as used.
NamesInv ==
  /\ TypeOK
  /\ ReservedWords \subseteq used
  /\ \A i \in 1..Len(granted) : granted[i].names \subseteq used
  /\ GeneratedDiffer

\* Names that differ in their spelling for comparison differ.
LEMMA DifferAsCompared ==
  ASSUME NEW m, NEW n, NEW caseSensitive \in BOOLEAN,
         GetNameForComparison(m, caseSensitive) # GetNameForComparison(n, caseSensitive)
  PROVE  m # n /\ (~caseSensitive => Lower(m) # Lower(n))
BY DEF GetNameForComparison

\* Names that were not used yet may be given away.
LEMMA GrantKeepsInv ==
  ASSUME NamesInv, NEW kind \in {"class", "type", "operation"}, NEW wanted \in Name,
         NEW names \in Seq(Name), NEW name \in Name, Grant(kind, wanted, names, name),
         \A x \in NamesIn(names) : \A u \in used :
           x # u /\ (kind # "operation" => Lower(x) # Lower(u))
  PROVE  NamesInv'
<1> DEFINE new == [kind |-> kind, wanted |-> wanted, names |-> NamesIn(names), name |-> name]
           Granted == [kind : {"class", "type", "operation"}, wanted : Name,
                       names : SUBSET Name, name : Name]
<1>1. NamesIn(names) \subseteq Name
  BY ElementOfSeq DEF NamesIn
<1>2. PICK g : g = new
  OBVIOUS
<1>3. g \in Granted /\ g.kind = kind /\ g.names = NamesIn(names)
  BY <1>1, <1>2
<1>4. /\ used' = used \cup NamesIn(names) /\ granted' = Append(granted, g)
      /\ status' \in {"ok", "conflict"}
  BY <1>2 DEF Grant, AssertNameChange
<1>5. granted \in Seq(Granted) /\ Len(granted) \in Nat
  BY LenProperties DEF NamesInv, TypeOK
<1>6. /\ granted' \in Seq(Granted) /\ Len(granted') = Len(granted) + 1
      /\ granted'[Len(granted) + 1] = g
      /\ \A i \in 1..Len(granted) : granted'[i] = granted[i]
  BY <1>3, <1>4, <1>5, AppendProperties
<1>7. \A i \in 1..Len(granted') : i \in 1..Len(granted) \/ i = Len(granted) + 1
  BY <1>5, <1>6
<1>8. TypeOK'
  BY <1>1, <1>4, <1>6 DEF NamesInv, TypeOK
<1>9. ReservedWords \subseteq used'
  BY <1>4 DEF NamesInv
<1>10. \A i \in 1..Len(granted') : granted'[i].names \subseteq used'
  BY <1>3, <1>4, <1>6, <1>7 DEF NamesInv
<1>11. GeneratedDiffer'
  <2> SUFFICES ASSUME NEW i \in 1..Len(granted'), NEW j \in 1..Len(granted')
               PROVE  /\ i < j => granted'[i].names \cap granted'[j].names = {}
                      /\ granted'[i].kind # "operation" =>
                           /\ LowerAll(granted'[i].names) \cap LowerAll(ReservedWords) = {}
                           /\ i < j /\ granted'[j].kind # "operation" =>
                                LowerAll(granted'[i].names) \cap LowerAll(granted'[j].names) = {}
    BY DEF GeneratedDiffer
  <2>1. CASE i \in 1..Len(granted) /\ j \in 1..Len(granted)
    BY <1>6, <2>1 DEF NamesInv, GeneratedDiffer
  <2>2. CASE i \in 1..Len(granted) /\ j = Len(granted) + 1
    <3>1. granted'[i] = granted[i] /\ granted'[j] = g /\ granted[i].names \subseteq used
      BY <1>6, <2>2 DEF NamesInv
    <3>2. granted[i].kind # "operation" => LowerAll(granted[i].names) \cap LowerAll(ReservedWords) = {}
      BY <2>2 DEF NamesInv, GeneratedDiffer
    <3>3. granted[i].names \cap NamesIn(names) = {}
      BY <3>1
    <3>4. kind # "operation" => LowerAll(granted[i].names) \cap LowerAll(NamesIn(names)) = {}
      BY <3>1 DEF LowerAll
    <3> QED
      BY <1>3, <3>1, <3>2, <3>3, <3>4
  <2>3. CASE i = Len(granted) + 1
    <3>1. granted'[i] = g /\ ~(i < j)
      BY <1>5, <1>6, <2>3
    <3>2. kind # "operation" => LowerAll(NamesIn(names)) \cap LowerAll(ReservedWords) = {}
      BY DEF LowerAll, NamesInv
    <3> QED
      BY <1>3, <3>1, <3>2
  <2> QED
    BY <1>7, <2>1, <2>2, <2>3
<1> QED
  BY <1>8, <1>9, <1>10, <1>11 DEF NamesInv

\* What the generator yields for a name is new among the used names.
LEMMA GeneratedIsNew ==
  ASSUME used \subseteq Name, NEW name \in Name, NEW suffixes \in Seq(Name),
         NEW caseSensitive \in BOOLEAN, NEW names,
         names = GenerateUniqueNamesWithSuffixes(used, name, suffixes, caseSensitive),
         names # Exhausted
  PROVE  /\ names \in Seq(Name) /\ Len(names) \in Nat \ {0} /\ names[1] \in Name
         /\ NamesIn(<<names[1]>>) \subseteq NamesIn(names)
         /\ \A x \in NamesIn(names) : \A u \in used :
              x # u /\ (~caseSensitive => Lower(x) # Lower(u))
<1>1. /\ names \in Seq(Name) /\ Len(names) \in Nat \ {0}
      /\ ~AreNamesUsed(names, used, caseSensitive)
  BY Generated
<1>2. 1 \in 1..Len(names)
  BY <1>1
<1>3. names[1] \in Name /\ names[1] \in NamesIn(names)
  BY <1>1, <1>2, ElementOfSeq DEF NamesIn
<1>4. NamesIn(<<names[1]>>) = {names[1]}
  BY DEF NamesIn
<1>5. \A x \in NamesIn(names) : \A u \in used :
        x # u /\ (~caseSensitive => Lower(x) # Lower(u))
  BY <1>1, NotUsed, DifferAsCompared DEF NamesIn
<1> QED
  BY <1>1, <1>3, <1>4, <1>5

\* A prefix makes a name of a name.
LEMMA PrefixedName ==
  ASSUME NEW name \in Name
  PROVE  ApplyPrefixOnJsConflict(name) \in Name
<1>1. CASE name \in JsKeywords
  <2>1. Len(name) \in Nat /\ Len(name) # 0 /\ \A i \in 1..Len(name) : name[i] \in Token
    BY <1>1, LenProperties, ElementOfSeq, EmptySeq, ServiceAssumption DEF Name
  <2>2. name[1] \in Token
    BY <2>1
  <2>3. \A i \in 2..Len(name) : name[i] \in Token
    BY <2>1
  <2>4. SubSeq(name, 2, Len(name)) \in Seq(Token)
    BY <2>1, <2>3, SubSeqProperties
  <2>5. \A t \in Token : <<t>> \in Seq(Token)
    OBVIOUS
  <2>6. <<<<name[1][1], 1>>>> \in Seq(Token)
    BY <2>2, <2>5 DEF Token
  <2>7. Prefix \in Seq(Token)
    BY ServiceAssumption DEF Name
  <2>8. Prefix \o <<<<name[1][1], 1>>>> \in Seq(Token)
    BY <2>6, <2>7, ConcatProperties
  <2>9. (Prefix \o <<<<name[1][1], 1>>>>) \o SubSeq(name, 2, Len(name)) \in Seq(Token)
    BY <2>4, <2>8, ConcatProperties
  <2> QED
    BY <1>1, <2>9 DEF ApplyPrefixOnJsConflict, Name
<1>2. CASE name \notin JsKeywords
  BY <1>2 DEF ApplyPrefixOnJsConflict
<1> QED
  BY <1>1, <1>2

-----------------------------------------------------------------------------
(* Initial states and steps                                                *)

\* Only the reserved words are used.
LEMMA InitNamesInv == Init => NamesInv
<1> SUFFICES ASSUME Init
             PROVE  NamesInv
  OBVIOUS
<1>1. granted = <<>> /\ Len(granted) = 0
  BY DEF Init
<1> QED
  BY <1>1, ServiceAssumption DEF Init, NamesInv, TypeOK, GeneratedDiffer

\* An error that ends the generation leaves the names alone.
LEMMA ExhaustKeepsInv ==
  ASSUME NamesInv, Exhaust
  PROVE  NamesInv'
BY DEF Exhaust, NamesInv, TypeOK, GeneratedDiffer

\* The suffixes are names: the one of interfaces, or none.
LEMMA Suffixes == <<TypeSuffix>> \in Seq(Name) /\ <<>> \in Seq(Name)
BY ServiceAssumption

\* A class and its companion interface differ from all names of the service.
LEMMA EntityClassKeepsInv ==
  ASSUME NamesInv, NEW n \in Classes, EntityClassName(n)
  PROVE  NamesInv'
<1>1. used \subseteq Name /\ n \in Name
  BY ServiceAssumption DEF NamesInv, TypeOK
<1>2. PICK names : names = GenerateUniqueNamesWithSuffixes(used, n, <<TypeSuffix>>, FALSE)
  OBVIOUS
<1>3. IF names = Exhausted THEN Exhaust ELSE Grant("class", n, names, names[1])
  BY <1>2 DEF EntityClassName
<1>4. ASSUME names # Exhausted
      PROVE  NamesInv'
  <2>1. /\ names \in Seq(Name) /\ names[1] \in Name
        /\ \A x \in NamesIn(names) : \A u \in used : x # u /\ Lower(x) # Lower(u)
    BY <1>1, <1>2, <1>4, Suffixes, GeneratedIsNew
  <2> QED
    BY <1>1, <1>3, <1>4, <2>1, GrantKeepsInv
<1> QED
  BY <1>3, <1>4, ExhaustKeepsInv

\* A type differs from all names of the service.
LEMMA ServiceWideKeepsInv ==
  ASSUME NamesInv, NEW n \in Types, ServiceWideName(n)
  PROVE  NamesInv'
<1>1. used \subseteq Name /\ n \in Name
  BY ServiceAssumption DEF NamesInv, TypeOK
<1>2. PICK names : names = GenerateUniqueNamesWithSuffixes(used, n, <<>>, FALSE)
  OBVIOUS
<1>3. IF names = Exhausted THEN Exhaust ELSE Grant("type", n, <<names[1]>>, names[1])
  BY <1>2 DEF ServiceWideName
<1>4. ASSUME names # Exhausted
      PROVE  NamesInv'
  <2>1. /\ names[1] \in Name
        /\ \A x \in NamesIn(<<names[1]>>) : \A u \in used : x # u /\ Lower(x) # Lower(u)
    BY <1>1, <1>2, <1>4, Suffixes, GeneratedIsNew
  <2>2. <<names[1]>> \in Seq(Name)
    BY <2>1
  <2> QED
    BY <1>1, <1>3, <1>4, <2>1, <2>2, GrantKeepsInv
<1> QED
  BY <1>3, <1>4, ExhaustKeepsInv

\* An operation differs from all names of the service.
LEMMA OperationKeepsInv ==
  ASSUME NamesInv, NEW n \in Operations, OperationName(n)
  PROVE  NamesInv'
<1>1. used \subseteq Name /\ n \in Name
  BY ServiceAssumption DEF NamesInv, TypeOK
<1>2. PICK names : names = GenerateUniqueNamesWithSuffixes(used, n, <<>>, TRUE)
  OBVIOUS
<1>3. IF names = Exhausted THEN Exhaust
      ELSE Grant("operation", n, <<names[1]>>, ApplyPrefixOnJsConflict(names[1]))
  BY <1>2 DEF OperationName
<1>4. ASSUME names # Exhausted
      PROVE  NamesInv'
  <2>1. /\ names[1] \in Name
        /\ \A x \in NamesIn(<<names[1]>>) : \A u \in used : x # u
    BY <1>1, <1>2, <1>4, Suffixes, GeneratedIsNew
  <2>2. <<names[1]>> \in Seq(Name) /\ ApplyPrefixOnJsConflict(names[1]) \in Name
    BY <2>1, PrefixedName
  <2> QED
    BY <1>1, <1>3, <1>4, <2>1, <2>2, GrantKeepsInv
<1> QED
  BY <1>3, <1>4, ExhaustKeepsInv

\* Every name that is given keeps the invariant.
LEMMA NextNamesInv ==
  ASSUME NamesInv, [Next]_vars
  PROVE  NamesInv'
<1>1. CASE UNCHANGED vars
  BY <1>1 DEF vars, NamesInv, TypeOK, GeneratedDiffer
<1>2. CASE Next
  BY <1>2, EntityClassKeepsInv, ServiceWideKeepsInv, OperationKeepsInv DEF Next
<1> QED
  BY <1>1, <1>2

\* The invariant holds in all behaviours.
LEMMA NamesInvariant == Spec => []NamesInv
BY InitNamesInv, NextNamesInv, PTL DEF Spec

-----------------------------------------------------------------------------
(* Why a name changes or is refused                                        *)

\* Names that are equal as compared are equal in lower case.
LEMMA SameInLowerCase ==
  ASSUME NEW m, NEW n, NEW caseSensitive \in BOOLEAN,
         GetNameForComparison(m, caseSensitive) = GetNameForComparison(n, caseSensitive)
  PROVE  Lower(m) = Lower(n)
BY DEF GetNameForComparison

\* An index has no case.
LEMMA LowerIndexed ==
  ASSUME NEW name \in Name, NEW i \in Nat
  PROVE  Lower(Indexed(name, i)) = Lower(GetNameWithoutIndex(name)) \o <<<<Index, i>>>>
<1> DEFINE base == GetNameWithoutIndex(name)
           tail == <<<<Index, i>>>>
           long == Lower(Indexed(name, i))
           low == Lower(base)
<1>1. base \in Name /\ Len(base) \in Nat
  BY WithoutIndex, LenProperties DEF Name
<1>2. tail \in Name /\ Len(tail) = 1 /\ tail[1] = <<Index, i>>
  <2>1. \A t \in Token : <<t>> \in Seq(Token) /\ Len(<<t>>) = 1 /\ <<t>>[1] = t
    OBVIOUS
  <2>2. <<Index, i>> \in Token
    BY GeneratorAssumption DEF Token
  <2> QED
    BY <2>1, <2>2 DEF Name
<1>3. /\ low \in Name /\ Len(low) = Len(base)
      /\ \A k \in 1..Len(base) : low[k] = Spell(base[k], FALSE)
  BY <1>1, Comparison, LowerIsComparison
<1>4. /\ Indexed(name, i) \in Name /\ Len(Indexed(name, i)) = Len(base) + 1
      /\ \A k \in 1..Len(base) + 1 :
           Indexed(name, i)[k] = IF k <= Len(base) THEN base[k] ELSE tail[k - Len(base)]
  BY <1>1, <1>2, ConcatProperties DEF Name, Indexed
<1>5. /\ long \in Name /\ Len(long) = Len(base) + 1
      /\ \A k \in 1..Len(base) + 1 : long[k] = Spell(Indexed(name, i)[k], FALSE)
  BY <1>4, Comparison, LowerIsComparison
<1>6. /\ low \o tail \in Name /\ Len(low \o tail) = Len(base) + 1
      /\ \A k \in 1..Len(base) + 1 :
           (low \o tail)[k] = IF k <= Len(base) THEN low[k] ELSE tail[k - Len(base)]
  BY <1>2, <1>3, ConcatProperties DEF Name
<1>7. Spell(tail[1], FALSE) = tail[1]
  BY <1>2 DEF Spell
<1>8. ASSUME NEW k \in 1..Len(base) + 1
      PROVE  long[k] = (low \o tail)[k]
  <2>1. CASE k <= Len(base)
    <3>1. k \in 1..Len(base)
      BY <1>1, <2>1
    <3> QED
      BY <1>3, <1>4, <1>5, <1>6, <2>1, <3>1
  <2>2. CASE ~(k <= Len(base))
    <3>1. k - Len(base) = 1
      BY <1>1, <2>2
    <3>2. Indexed(name, i)[k] = tail[1] /\ (low \o tail)[k] = tail[1]
      BY <1>4, <1>6, <2>2, <3>1
    <3> QED
      BY <1>5, <1>7, <3>2
  <2> QED
    BY <2>1, <2>2
<1> QED
  BY <1>5, <1>6, <1>8, SameTokens

\* The generator gives up when each index has a name that begins with it.
LEMMA ExhaustedWhenTaken ==
  ASSUME used \subseteq Name, NEW name \in Name, NEW suffixes \in Seq(Name),
         NEW caseSensitive \in BOOLEAN,
         GenerateUniqueNamesWithSuffixes(used, name, suffixes, caseSensitive) = Exhausted,
         NEW i \in 1..MaximumNumberOfSuffix - 1
  PROVE  \E u \in used : StartsWith(Lower(u), Lower(GetNameWithoutIndex(name)) \o <<<<Index, i>>>>)
<1> DEFINE names == GenerateNamesWithSuffixes(Indexed(name, i), suffixes)
<1>1. i \in Nat
  BY GeneratorAssumption
<1>2. AreNamesUsed(names, used, caseSensitive)
  BY Generated
<1>3. PICK k \in 1..Len(names), u \in used :
        GetNameForComparison(names[k], caseSensitive) = GetNameForComparison(u, caseSensitive)
  BY <1>2 DEF AreNamesUsed
<1>4. Indexed(name, i) \in Name
  BY <1>1, IndexedName
<1>5. names[k] \in Name /\ StartsWith(names[k], Indexed(name, i))
  BY <1>4, NamesWithSuffixes, ElementOfSeq
<1>6. StartsWith(Lower(names[k]), Lower(Indexed(name, i)))
  BY <1>4, <1>5, ComparedStart, LowerIsComparison
<1>7. Lower(names[k]) = Lower(u)
  BY <1>3, SameInLowerCase
<1> QED
  BY <1>1, <1>6, <1>7, LowerIndexed

\* The generator changes a name when it, or the name of its interface, is used.
LEMMA ChangedWhenTaken ==
  ASSUME used \subseteq Name, NEW name \in Name, NEW suffixes \in {<<>>, <<TypeSuffix>>},
         NEW caseSensitive \in BOOLEAN, NEW names,
         names = GenerateUniqueNamesWithSuffixes(used, name, suffixes, caseSensitive),
         names # Exhausted, names[1] # name
  PROVE  \E u \in used : Lower(u) \in {Lower(name), Lower(name \o TypeSuffix)}
<1> DEFINE plain == GenerateNamesWithSuffixes(name, suffixes)
<1>1. suffixes \in Seq(Name)
  BY Suffixes
<1>2. AreNamesUsed(plain, used, caseSensitive)
  BY <1>1, Generated
<1>3. PICK k \in 1..Len(plain), u \in used :
        GetNameForComparison(plain[k], caseSensitive) = GetNameForComparison(u, caseSensitive)
  BY <1>2 DEF AreNamesUsed
<1>4. plain[k] \in {name, name \o TypeSuffix}
  <2>1. Len(suffixes) \in {0, 1} /\ \A j \in 1..Len(suffixes) : suffixes[j] = TypeSuffix
    OBVIOUS
  <2>2. /\ Len(plain) = Len(suffixes) + 1 /\ plain[1] = name
        /\ \A j \in 1..Len(suffixes) : plain[j + 1] = name \o suffixes[j]
    BY <1>1, NamesWithSuffixes
  <2>3. CASE k = 1
    BY <2>2, <2>3
  <2>4. CASE k # 1
    <3>1. k = 1 + 1 /\ 1 \in 1..Len(suffixes)
      BY <2>1, <2>2, <2>4
    <3> QED
      BY <2>1, <2>2, <3>1
  <2> QED
    BY <2>3, <2>4
<1> QED
  BY <1>3, <1>4, SameInLowerCase

\* A refusal has a name without any free index.
LEMMA ExhaustMeans ==
  ASSUME NamesInv, Next, status' = "exhausted"
  PROVE  \E n \in Classes \cup Types \cup Operations :
           \A i \in 1..MaximumNumberOfSuffix - 1 :
             \E u \in used : StartsWith(Lower(u),
                               Lower(GetNameWithoutIndex(n)) \o <<<<Index, i>>>>)
<1>1. used \subseteq Name /\ Classes \cup Types \cup Operations \subseteq Name
  BY ServiceAssumption DEF NamesInv, TypeOK
<1>2. PICK n \in Classes \cup Types \cup Operations, suffixes \in {<<>>, <<TypeSuffix>>},
           caseSensitive \in BOOLEAN :
        GenerateUniqueNamesWithSuffixes(used, n, suffixes, caseSensitive) = Exhausted
  <2>1. ASSUME NEW kind, NEW wanted, NEW names, NEW name, Grant(kind, wanted, names, name)
        PROVE  FALSE
    BY <2>1 DEF Grant, AssertNameChange
  <2>2. CASE \E n \in Classes : EntityClassName(n)
    BY <2>1, <2>2 DEF EntityClassName
  <2>3. CASE \E n \in Types : ServiceWideName(n)
    BY <2>1, <2>3 DEF ServiceWideName
  <2>4. CASE \E n \in Operations : OperationName(n)
    BY <2>1, <2>4 DEF OperationName
  <2> QED
    BY <2>2, <2>3, <2>4 DEF Next
<1>3. n \in Name /\ suffixes \in Seq(Name)
  BY <1>1, Suffixes
<1> QED
  BY <1>1, <1>2, <1>3, ExhaustedWhenTaken

\* A step that gives a name away appends it to what was granted.
LEMMA GrantAppends ==
  ASSUME NamesInv, NEW kind, NEW wanted, NEW names, NEW name,
         Grant(kind, wanted, names, name),
         NEW i \in Len(granted) + 1..Len(granted')
  PROVE  granted'[i].name = name /\ granted'[i].wanted = wanted
<1>1. granted \in Seq([kind : {"class", "type", "operation"}, wanted : Name,
                       names : SUBSET Name, name : Name]) /\ Len(granted) \in Nat
  BY LenProperties DEF NamesInv, TypeOK
<1>2. PICK g : g = [kind |-> kind, wanted |-> wanted, names |-> NamesIn(names), name |-> name]
  OBVIOUS
<1>3. granted' = Append(granted, g)
  BY <1>2 DEF Grant
<1>4. Len(granted') = Len(granted) + 1 /\ granted'[Len(granted) + 1] = g
  BY <1>1, <1>3
<1>5. i = Len(granted) + 1
  BY <1>1, <1>4
<1> QED
  BY <1>2, <1>4, <1>5

\* A name that was changed is a keyword, or it or its interface was taken.
LEMMA ChangeMeans ==
  ASSUME NamesInv, Next, NEW i \in Len(granted) + 1..Len(granted'),
         granted'[i].name # granted'[i].wanted
  PROVE  \/ granted'[i].wanted \in JsKeywords
         \/ \E u \in used : Lower(u) \in {Lower(granted'[i].wanted),
                                          Lower(granted'[i].wanted \o TypeSuffix)}
<1>1. used \subseteq Name /\ Classes \cup Types \cup Operations \subseteq Name
  BY ServiceAssumption DEF NamesInv, TypeOK
<1>2. ~Exhaust
  <2>1. Len(granted) \in Nat
    BY LenProperties DEF NamesInv, TypeOK
  <2> QED
    BY <2>1 DEF Exhaust
<1>3. CASE \E n \in Classes : EntityClassName(n)
  <2>1. PICK n \in Classes : EntityClassName(n)
    BY <1>3
  <2>2. PICK names : names = GenerateUniqueNamesWithSuffixes(used, n, <<TypeSuffix>>, FALSE)
    OBVIOUS
  <2>3. names # Exhausted /\ Grant("class", n, names, names[1])
    BY <1>2, <2>1, <2>2 DEF EntityClassName
  <2>4. granted'[i].name = names[1] /\ granted'[i].wanted = n
    BY <2>3, GrantAppends
  <2>5. n \in Name /\ names[1] # n
    BY <1>1, <2>4
  <2>6. \E u \in used : Lower(u) \in {Lower(n), Lower(n \o TypeSuffix)}
    BY <1>1, <2>2, <2>3, <2>5, ChangedWhenTaken
  <2> QED
    BY <2>4, <2>6
<1>4. CASE \E n \in Types : ServiceWideName(n)
  <2>1. PICK n \in Types : ServiceWideName(n)
    BY <1>4
  <2>2. PICK names : names = GenerateUniqueNamesWithSuffixes(used, n, <<>>, FALSE)
    OBVIOUS
  <2>3. names # Exhausted /\ Grant("type", n, <<names[1]>>, names[1])
    BY <1>2, <2>1, <2>2 DEF ServiceWideName
  <2>4. granted'[i].name = names[1] /\ granted'[i].wanted = n
    BY <2>3, GrantAppends
  <2>5. n \in Name /\ names[1] # n
    BY <1>1, <2>4
  <2>6. \E u \in used : Lower(u) \in {Lower(n), Lower(n \o TypeSuffix)}
    BY <1>1, <2>2, <2>3, <2>5, ChangedWhenTaken
  <2> QED
    BY <2>4, <2>6
<1>5. CASE \E n \in Operations : OperationName(n)
  <2>1. PICK n \in Operations : OperationName(n)
    BY <1>5
  <2>2. PICK names : names = GenerateUniqueNamesWithSuffixes(used, n, <<>>, TRUE)
    OBVIOUS
  <2>3. /\ names # Exhausted
        /\ Grant("operation", n, <<names[1]>>, ApplyPrefixOnJsConflict(names[1]))
    BY <1>2, <2>1, <2>2 DEF OperationName
  <2>4. granted'[i].name = ApplyPrefixOnJsConflict(names[1]) /\ granted'[i].wanted = n
    BY <2>3, GrantAppends
  <2>5. CASE names[1] = n
    BY <2>4, <2>5 DEF ApplyPrefixOnJsConflict
  <2>6. CASE names[1] # n
    <3>1. n \in Name
      BY <1>1
    <3>2. \E u \in used : Lower(u) \in {Lower(n), Lower(n \o TypeSuffix)}
      BY <1>1, <2>2, <2>3, <2>6, <3>1, ChangedWhenTaken
    <3> QED
      BY <2>4, <3>2
  <2> QED
    BY <2>5, <2>6
<1> QED
  BY <1>3, <1>4, <1>5 DEF Next

-----------------------------------------------------------------------------
(* Theorems about ServiceNameFormatter                                     *)

\* ServiceNameFormatter: what is used and given away are names, whatever the
\* entities, types and operations of the service are called.
THEOREM ServiceTypes == Spec => []TypeOK
<1>1. NamesInv => TypeOK
  BY DEF NamesInv
<1> QED
  BY <1>1, NamesInvariant, PTL

\* A grant without the prefix for keywords exports generated names only.
LEMMA ExportsAreGenerated ==
  ASSUME NEW g, ~HasPrefix(g)
  PROVE  Exports(g) \subseteq g.names
BY DEF HasPrefix, Exports

\* ServiceNameFormatter: two exports of a service that have one name are a keyword
\* with its prefix and another name, and no two of its files differ in case only,
\* for every service and every order of calls.
THEOREM ServiceNamesDiffer == Spec => []NamesDiffer
<1>1. NamesInv => NamesDiffer
  BY ExportsAreGenerated DEF NamesInv, GeneratedDiffer, NamesDiffer
<1> QED
  BY <1>1, NamesInvariant, PTL

\* UniqueNameGenerator: a name is changed, or refused, only when it was taken.
THEOREM ServiceNamesStay == Spec => ConflictOnlyWhenTaken
<1> DEFINE Refused ==
             status' = "exhausted" => \E n \in Classes \cup Types \cup Operations :
               \A i \in 1..MaximumNumberOfSuffix - 1 :
                 \E u \in used : StartsWith(Lower(u),
                                   Lower(GetNameWithoutIndex(n)) \o <<<<Index, i>>>>)
           Changed ==
             \A i \in Len(granted) + 1..Len(granted') :
               LET g == granted'[i] IN
                 g.name # g.wanted =>
                   \/ g.wanted \in JsKeywords
                   \/ \E u \in used : Lower(u) \in {Lower(g.wanted), Lower(g.wanted \o TypeSuffix)}
<1>1. NamesInv /\ [Next]_vars => [Refused /\ Changed]_vars
  <2> SUFFICES ASSUME NamesInv, Next
               PROVE  Refused /\ Changed
    OBVIOUS
  <2>1. Refused
    BY ExhaustMeans
  <2>2. Changed
    BY ChangeMeans
  <2> QED
    BY <2>1, <2>2
<1> QED
  BY <1>1, NamesInvariant, PTL DEF Spec, ConflictOnlyWhenTaken

-----------------------------------------------------------------------------
(* ensureUniqueNames() of the OpenAPI generator                            *)

\* How many names there are, and which of the first i may stay as they are.
Amount == Len(originalNames)
Kept(i) == OpenApi!CorrectNames[i]

\* How the names among the first i follow from those among the first i - 1.
NextKept(kept, i) ==
  IF i = 0 THEN <<>>
  ELSE IF \/ originalNames[i] \in OpenApiReservedWords
          \/ originalNames[i] \in NamesIn(kept[i - 1])
          \/ Format[originalNames[i]] # originalNames[i]
    THEN kept[i - 1]
  ELSE Append(kept[i - 1], originalNames[i])

\* There is a function as getNonConflictingNames() defines it.
LEMMA KeptNamesExist ==
  ASSUME NEW n \in Nat
  PROVE  \E kept : kept = [i \in 0..n |-> NextKept(kept, i)]
<1> DEFINE Exists(m) == \E kept : kept = [i \in 0..m |-> NextKept(kept, i)]
<1>1. Exists(0)
  <2> DEFINE kept == [i \in 0..0 |-> <<>>]
  <2>1. kept = [i \in 0..0 |-> NextKept(kept, i)]
    BY DEF NextKept
  <2> QED
    BY <2>1
<1>2. ASSUME NEW m \in Nat, Exists(m)
      PROVE  Exists(m + 1)
  <2>1. PICK kept : kept = [i \in 0..m |-> NextKept(kept, i)]
    BY <1>2
  <2> DEFINE longer == [i \in 0..m + 1 |-> IF i = m + 1 THEN NextKept(kept, i) ELSE kept[i]]
  <2>2. \A i \in 0..m : longer[i] = kept[i]
    OBVIOUS
  <2>3. ASSUME NEW i \in 0..m + 1
        PROVE  NextKept(longer, i) = NextKept(kept, i)
    <3>1. i # 0 => i - 1 \in 0..m
      OBVIOUS
    <3>2. i # 0 => longer[i - 1] = kept[i - 1]
      BY <2>2, <3>1
    <3> HIDE DEF longer
    <3> QED
      BY <3>2 DEF NextKept
  <2>4. \A i \in 0..m + 1 : longer[i] = NextKept(kept, i)
    <3> TAKE i \in 0..m + 1
    <3>1. i # m + 1 => i \in 0..m
      OBVIOUS
    <3>2. i \in 0..m => kept[i] = NextKept(kept, i)
      BY <2>1
    <3> QED
      BY <3>1, <3>2
  <2>5. longer = [i \in 0..m + 1 |-> longer[i]]
    OBVIOUS
  <2> HIDE DEF longer
  <2>6. longer = [i \in 0..m + 1 |-> NextKept(longer, i)]
    BY <2>3, <2>4, <2>5
  <2> QED
    BY <2>6
<1> HIDE DEF Exists
<1>3. Nat \subseteq { m \in Nat : Exists(m) }
  <2> DEFINE T == { m \in Nat : Exists(m) }
  <2>1. 0 \in T /\ \A m \in Nat : m \in T => m + 1 \in T
    BY <1>1, <1>2
  <2> HIDE DEF T
  <2>2. Nat \subseteq T
    BY <2>1, NumberInduction
  <2> QED
    BY <2>2 DEF T
<1> QED
  BY <1>3 DEF Exists

\* getNonConflictingNames() goes through the names from first to last.
LEMMA KeptStep ==
  ASSUME originalNames \in Seq(Name)
  PROVE  \A i \in 0..Amount : Kept(i) = NextKept(OpenApi!CorrectNames, i)
<1>1. Amount \in Nat
  BY LenProperties DEF Amount
<1>2. OpenApi!CorrectNames = CHOOSE kept : kept = [i \in 0..Amount |-> NextKept(kept, i)]
  BY DEF OpenApi!CorrectNames, NextKept, Amount, NamesIn, OpenApi!NamesIn
<1>3. OpenApi!CorrectNames = [i \in 0..Amount |-> NextKept(OpenApi!CorrectNames, i)]
  BY <1>1, <1>2, KeptNamesExist
<1> QED
  BY <1>3 DEF Kept

\* The names that stay are those that IsNonConflicting() describes.
LEMMA KeptIsNonConflicting ==
  ASSUME originalNames \in Seq(Name)
  PROVE  /\ Kept(0) = <<>>
         /\ \A i \in 1..Amount :
              Kept(i) = IF OpenApi!IsNonConflicting(i)
                          THEN Append(Kept(i - 1), originalNames[i]) ELSE Kept(i - 1)
         /\ \A i \in 0..Amount :
              /\ Kept(i) \in Seq(Name)
              /\ \A n \in NamesIn(Kept(i)) : \E q \in 1..i :
                   OpenApi!IsNonConflicting(q) /\ n = originalNames[q]
              /\ \A q \in 1..i :
                   OpenApi!IsNonConflicting(q) => originalNames[q] \in NamesIn(Kept(i))
<1> DEFINE Proper(q) == OpenApi!IsNonConflicting(q)
           Filtered(i) == Kept(i) = IF Proper(i) THEN Append(Kept(i - 1), originalNames[i])
                                    ELSE Kept(i - 1)
           Found(i) == /\ Kept(i) \in Seq(Name)
                       /\ \A n \in NamesIn(Kept(i)) : \E q \in 1..i :
                            Proper(q) /\ n = originalNames[q]
                       /\ \A q \in 1..i : Proper(q) => originalNames[q] \in NamesIn(Kept(i))
           T == { i \in Nat : i <= Amount => Found(i) /\ (i > 0 => Filtered(i)) }
<1>1. Amount \in Nat /\ \A i \in 1..Amount : originalNames[i] \in Name
  BY LenProperties, ElementOfSeq DEF Amount
<1>2. Kept(0) = <<>>
  BY <1>1, KeptStep DEF NextKept
<1>3. Found(0)
  <2>1. <<>> \in Seq(Name) /\ NamesIn(<<>>) = {} /\ 1..0 = {}
    BY DEF NamesIn
  <2>2. Kept(0) \in Seq(Name) /\ NamesIn(Kept(0)) = {}
    BY <1>2, <2>1
  <2> QED
    BY <2>1, <2>2
<1>4. ASSUME NEW i \in 1..Amount, Found(i - 1)
      PROVE  Found(i) /\ Filtered(i)
  <2>1. /\ i - 1 \in 0..Amount /\ i \in 0..Amount /\ i \in 1..i /\ i # 0
        /\ \A q \in 1..i : q # i => q \in 1..i - 1
        /\ \A q \in 1..i - 1 : q \in 1..i
    BY <1>1
  <2>2. Kept(i) = IF \/ originalNames[i] \in OpenApiReservedWords
                     \/ originalNames[i] \in NamesIn(Kept(i - 1))
                     \/ Format[originalNames[i]] # originalNames[i]
                   THEN Kept(i - 1) ELSE Append(Kept(i - 1), originalNames[i])
    BY <2>1, KeptStep DEF NextKept, Kept
  <2>3. ASSUME Proper(i)
        PROVE  originalNames[i] \notin NamesIn(Kept(i - 1))
    BY <1>4, <2>3 DEF OpenApi!IsNonConflicting
  <2>4. ASSUME ~Proper(i), originalNames[i] \notin OpenApiReservedWords,
               Format[originalNames[i]] = originalNames[i]
        PROVE  originalNames[i] \in NamesIn(Kept(i - 1))
    <3> DEFINE Same == { j \in 1..i - 1 : originalNames[j] = originalNames[i] }
    <3>1. Same # {} /\ Same \subseteq Nat
      BY <2>4 DEF OpenApi!IsNonConflicting
    <3> HIDE DEF Same
    <3>2. PICK j \in Same : \A k \in Same : j <= k
      BY <3>1, LeastNumber
    <3>3. j \in 1..i - 1 /\ originalNames[j] = originalNames[i]
      BY <3>2 DEF Same
    <3>4. ASSUME NEW k \in 1..j - 1, originalNames[k] = originalNames[j]
          PROVE  FALSE
      <4>1. k \in 1..i - 1 /\ ~(j <= k)
        BY <3>3
      <4> QED
        BY <3>2, <3>3, <3>4, <4>1 DEF Same
    <3>5. Proper(j)
      BY <2>4, <3>3, <3>4 DEF OpenApi!IsNonConflicting
    <3> QED
      BY <1>4, <3>3, <3>5
  <2>5. Filtered(i)
    <3>1. CASE Proper(i)
      BY <2>2, <2>3, <3>1 DEF OpenApi!IsNonConflicting
    <3>2. CASE ~Proper(i)
      BY <2>2, <2>4, <3>2
    <3> QED
      BY <3>1, <3>2
  <2>6. originalNames[i] \in Name /\ Kept(i - 1) \in Seq(Name)
    BY <1>1, <1>4
  <2>7. CASE ~Proper(i)
    BY <1>4, <2>1, <2>5, <2>7
  <2>8. CASE Proper(i)
    <3> DEFINE before == Kept(i - 1)
    <3>1. /\ Kept(i) \in Seq(Name) /\ Len(Kept(i)) = Len(before) + 1
          /\ \A m \in 1..Len(before) : Kept(i)[m] = before[m]
          /\ Kept(i)[Len(before) + 1] = originalNames[i]
      BY <2>5, <2>6, <2>8, AppendProperties
    <3>2. NamesIn(Kept(i)) = NamesIn(before) \cup {originalNames[i]}
      <4> HIDE DEF before
      <4>1. Len(before) \in Nat
        BY <2>6, LenProperties DEF before
      <4>2. 1..Len(Kept(i)) = 1..Len(before) \cup {Len(before) + 1}
        BY <3>1, <4>1
      <4> QED
        BY <3>1, <4>2 DEF NamesIn
    <3> QED
      BY <1>4, <2>1, <2>5, <2>8, <3>1, <3>2
  <2> QED
    BY <2>5, <2>7, <2>8
<1>5. Nat \subseteq T
  <2>1. 0 \in T
    BY <1>3
  <2>2. ASSUME NEW i \in Nat, i \in T
        PROVE  i + 1 \in T
    <3>1. ASSUME i + 1 <= Amount
          PROVE  Found(i + 1) /\ Filtered(i + 1)
      <4>1. i + 1 \in 1..Amount /\ (i + 1) - 1 = i /\ i <= Amount
        BY <1>1, <3>1
      <4>2. Found(i)
        BY <2>2, <4>1
      <4> HIDE DEF Found, Filtered
      <4>3. Found((i + 1) - 1)
        BY <4>1, <4>2
      <4> QED
        BY <1>4, <4>1, <4>3
    <3> HIDE DEF Found, Filtered
    <3> QED
      BY <3>1
  <2> HIDE DEF T
  <2> QED
    BY <2>1, <2>2, NumberInduction
<1>6. \A i \in 0..Amount : Found(i) /\ (i > 0 => Filtered(i))
  <2> HIDE DEF Found, Filtered
  <2> QED
    BY <1>1, <1>5
<1> QED
  BY <1>1, <1>2, <1>6

\* What stays among the first names begins what stays of all, and the rest of it
\* comes from the names behind them.
LEMMA KeptGrows ==
  ASSUME originalNames \in Seq(Name), NEW i \in 0..Amount
  PROVE  /\ Kept(Amount) \in Seq(Name) /\ Kept(i) \in Seq(Name)
         /\ Len(Kept(i)) <= Len(Kept(Amount))
         /\ \A m \in 1..Len(Kept(i)) : Kept(Amount)[m] = Kept(i)[m]
         /\ \A m \in Len(Kept(i)) + 1..Len(Kept(Amount)) : \E q \in i + 1..Amount :
              OpenApi!IsNonConflicting(q) /\ Kept(Amount)[m] = originalNames[q]
<1> DEFINE Proper(q) == OpenApi!IsNonConflicting(q)
           Grown(n) == /\ Len(Kept(i)) <= Len(Kept(n))
                       /\ \A m \in 1..Len(Kept(i)) : Kept(n)[m] = Kept(i)[m]
                       /\ \A m \in Len(Kept(i)) + 1..Len(Kept(n)) : \E q \in i + 1..n :
                            Proper(q) /\ Kept(n)[m] = originalNames[q]
           T == { n \in Nat : i + n <= Amount => Grown(i + n) }
<1>1. /\ Amount \in Nat /\ \A n \in 1..Amount : originalNames[n] \in Name
      /\ \A n \in 0..Amount : Kept(n) \in Seq(Name) /\ Len(Kept(n)) \in Nat
  BY KeptIsNonConflicting, LenProperties, ElementOfSeq DEF Amount
<1>2. Grown(i)
  BY <1>1
<1>3. ASSUME NEW n \in i..Amount - 1, Grown(n)
      PROVE  Grown(n + 1)
  <2>1. /\ n \in 0..Amount /\ n + 1 \in 1..Amount /\ (n + 1) - 1 = n
        /\ n + 1 \in i + 1..n + 1 /\ \A q \in i + 1..n : q \in i + 1..n + 1
    BY <1>1
  <2>2. Kept(n + 1) = IF Proper(n + 1) THEN Append(Kept(n), originalNames[n + 1]) ELSE Kept(n)
    BY <2>1, KeptIsNonConflicting
  <2>3. CASE ~Proper(n + 1)
    BY <1>3, <2>1, <2>2, <2>3
  <2>4. CASE Proper(n + 1)
    <3> DEFINE before == Kept(n)
               after == Kept(n + 1)
    <3>1. /\ Len(after) = Len(before) + 1
          /\ \A m \in 1..Len(before) : after[m] = before[m]
          /\ after[Len(before) + 1] = originalNames[n + 1]
      BY <1>1, <2>1, <2>2, <2>4, AppendProperties
    <3>2. Len(before) \in Nat /\ Len(Kept(i)) \in Nat /\ Len(Kept(i)) <= Len(before)
      BY <1>1, <1>3, <2>1
    <3> HIDE DEF before, after
    <3>3. \A m \in 1..Len(Kept(i)) : after[m] = Kept(i)[m]
      <4>1. \A m \in 1..Len(Kept(i)) : m \in 1..Len(before)
        BY <3>2
      <4> QED
        BY <1>3, <3>1, <4>1 DEF before
    <3>4. \A m \in Len(Kept(i)) + 1..Len(after) : \E q \in i + 1..n + 1 :
            Proper(q) /\ after[m] = originalNames[q]
      <4> TAKE m \in Len(Kept(i)) + 1..Len(after)
      <4>1. CASE m = Len(before) + 1
        BY <2>1, <2>4, <3>1, <4>1
      <4>2. CASE m # Len(before) + 1
        <5>1. m \in Len(Kept(i)) + 1..Len(before) /\ m \in 1..Len(before)
          BY <3>1, <3>2, <4>2
        <5>2. PICK q \in i + 1..n : Proper(q) /\ before[m] = originalNames[q]
          BY <1>3, <5>1 DEF before
        <5> QED
          BY <2>1, <3>1, <5>1, <5>2
      <4> QED
        BY <4>1, <4>2
    <3>5. Len(Kept(i)) <= Len(after)
      BY <3>1, <3>2
    <3> QED
      BY <3>3, <3>4, <3>5 DEF after
  <2> QED
    BY <2>3, <2>4
<1>4. Nat \subseteq T
  <2> HIDE DEF Grown
  <2>1. 0 \in T
    <3>1. i + 0 = i
      OBVIOUS
    <3> QED
      BY <1>2, <3>1
  <2>2. ASSUME NEW n \in Nat, n \in T
        PROVE  n + 1 \in T
    <3>1. ASSUME i + (n + 1) <= Amount
          PROVE  Grown(i + (n + 1))
      <4>1. i + n \in i..Amount - 1 /\ i + n <= Amount /\ (i + n) + 1 = i + (n + 1)
        BY <1>1, <3>1
      <4>2. Grown(i + n)
        BY <2>2, <4>1
      <4> QED
        BY <1>3, <4>1, <4>2
    <3> QED
      BY <3>1
  <2> HIDE DEF T
  <2> QED
    BY <2>1, <2>2, NumberInduction
<1>5. Amount - i \in T /\ i + (Amount - i) = Amount
  <2>1. Amount - i \in Nat /\ i + (Amount - i) = Amount
    BY <1>1
  <2> HIDE DEF T
  <2> QED
    BY <1>4, <2>1
<1>6. Grown(Amount)
  <2> HIDE DEF Grown
  <2> QED
    BY <1>5
<1> QED
  BY <1>1, <1>6

\* A generated name was not used.
LEMMA OpenApiGenerated ==
  ASSUME NEW taken \in SUBSET Name, NEW name \in Name, NEW generated,
         generated = OpenApi!GenerateUniqueNamesWithSuffixes(taken, name, <<>>, TRUE),
         generated # Exhausted
  PROVE  generated[1] \in Name /\ generated[1] \notin taken
<1>1. generated = GenerateUniqueNamesWithSuffixes(taken, name, <<>>, TRUE)
  BY DEF GenerateUniqueNamesWithSuffixes, OpenApi!GenerateUniqueNamesWithSuffixes,
         GetUsedNamesStartingWith, OpenApi!GetUsedNamesStartingWith,
         GenerateNamesWithSuffixes, OpenApi!GenerateNamesWithSuffixes,
         GenerateNamesWithIndexAndSuffixes, OpenApi!GenerateNamesWithIndexAndSuffixes,
         FreeIndices, OpenApi!FreeIndices, AreNamesUsed, OpenApi!AreNamesUsed,
         GetNameForComparison, OpenApi!GetNameForComparison, Lower, OpenApi!Lower,
         GetNameWithoutIndex, OpenApi!GetNameWithoutIndex, StartsWith, OpenApi!StartsWith,
         Index, OpenApi!Index
<1>2. <<>> \in Seq(Name)
  OBVIOUS
<1>3. /\ generated \in Seq(Name) /\ Len(generated) \in Nat \ {0}
      /\ ~AreNamesUsed(generated, taken, TRUE)
  BY <1>1, <1>2, Generated
<1>4. 1 \in 1..Len(generated)
  <2>1. \A n \in Nat \ {0} : 1 \in 1..n
    OBVIOUS
  <2> QED
    BY <1>3, <2>1
<1> QED
  BY <1>3, <1>4, NotUsed, ElementOfSeq DEF GetNameForComparison

-----------------------------------------------------------------------------
(* The invariant of ensureUniqueNames()                                    *)

\* The loop of deduplicateNames(): what waits in `pending' are the names behind
\* the current one that stay, and nothing else has been given such a name.
Renaming ==
  LET kept == NamesIn(Kept(Amount)) IN
  /\ OpenApiReservedWords \cup kept \cup NamesIn(result) \subseteq openApiUsed
  /\ pending = SubSeq(Kept(Amount), Len(Kept(Len(result))) + 1, Len(Kept(Amount)))
  /\ \A p \in 1..Len(result) :
       IF OpenApi!IsNonConflicting(p) THEN result[p] = originalNames[p]
       ELSE result[p] \notin OpenApiReservedWords \cup kept

OpenApiInv ==
  /\ OpenApi!TypeOK
  /\ OpenApi!ResultIsUnique
  /\ OpenApi!ProperNamesStay
  /\ openApiStatus = "start" => result = <<>> /\ openApiUsed = {}
  /\ openApiStatus = "rename" => Renaming

\* Nothing has been named.
LEMMA OpenApiInitInv == OpenApi!Init => OpenApiInv
<1> SUFFICES ASSUME OpenApi!Init PROVE OpenApiInv
  OBVIOUS
<1>1. /\ originalNames \in Lists /\ strict \in BOOLEAN /\ pending = <<>>
      /\ openApiUsed = {} /\ result = <<>> /\ openApiStatus = "start"
  BY DEF OpenApi!Init
<1>2. Len(originalNames) \in Nat
  BY <1>1, OpenApiConstants, LenProperties DEF OpenApi!NamesAssumption, OpenApi!Name, OpenApi!Token
<1>3. Len(result) = 0 /\ result \in Seq(OpenApi!Name) /\ pending \in Seq(OpenApi!Name) /\ 1..0 = {}
  BY <1>1
<1>4. OpenApi!TypeOK
  BY <1>1, <1>2, <1>3 DEF OpenApi!TypeOK
<1>5. OpenApi!ResultIsUnique /\ OpenApi!ProperNamesStay
  BY <1>3 DEF OpenApi!ResultIsUnique, OpenApi!ProperNamesStay
<1> QED
  BY <1>1, <1>4, <1>5 DEF OpenApiInv

\* What the types say, in the words of the module.
LEMMA OpenApiTypes ==
  ASSUME OpenApi!TypeOK
  PROVE  /\ originalNames \in Seq(Name) /\ result \in Seq(Name) /\ pending \in Seq(Name)
         /\ openApiUsed \subseteq Name /\ OpenApiReservedWords \subseteq Name
         /\ Amount \in Nat /\ Len(result) \in 0..Amount
         /\ \A i \in 1..Amount :
              originalNames[i] \in Name /\ Format[originalNames[i]] \in Name
<1>1. OpenApi!Name = Name
  BY DEF OpenApi!Name, Name, OpenApi!Token, Token
<1>2. /\ originalNames \in Seq(Name) /\ result \in Seq(Name) /\ pending \in Seq(Name)
      /\ openApiUsed \subseteq Name /\ OpenApiReservedWords \subseteq Name
      /\ Len(result) <= Amount /\ originalNames \in Lists
  BY <1>1, OpenApiConstants DEF OpenApi!TypeOK, OpenApi!NamesAssumption, Amount
<1>3. Amount \in Nat /\ Len(result) \in Nat
  BY <1>2, LenProperties DEF Amount
<1>4. \A i \in 1..Amount : originalNames[i] \in Name
  BY <1>2, ElementOfSeq DEF Amount
<1>5. \A i \in 1..Amount : originalNames[i] \in DOMAIN Format
  BY <1>2, OpenApiConstants DEF OpenApi!NamesAssumption, Amount
<1>6. Format \in [DOMAIN Format -> Name]
  BY <1>1, OpenApiConstants DEF OpenApi!NamesAssumption
<1> QED
  BY <1>2, <1>3, <1>4, <1>5, <1>6

\* Under `strictNaming' names are formatted only, if that makes no conflict.
LEMMA StrictKeepsInv ==
  ASSUME OpenApiInv, OpenApi!EnsureStrictly
  PROVE  OpenApiInv'
<1>1. /\ UNCHANGED <<originalNames, strict, pending, openApiUsed>> /\ openApiStatus = "start"
      /\ result = <<>> /\ OpenApi!TypeOK
  BY DEF OpenApi!EnsureStrictly, OpenApiInv
<1>2. CASE OpenApi!HasConflicts
  <2>1. openApiStatus' = "failed" /\ UNCHANGED result
    BY <1>2 DEF OpenApi!EnsureStrictly
  <2> QED
    BY <1>1, <2>1 DEF OpenApiInv, OpenApi!TypeOK, OpenApi!ResultIsUnique,
       OpenApi!ProperNamesStay, OpenApi!IsNonConflicting
<1>3. CASE ~OpenApi!HasConflicts
  <2>1. openApiStatus' = "done" /\ result' = [i \in 1..Amount |-> Format[originalNames[i]]]
    BY <1>3 DEF OpenApi!EnsureStrictly, OpenApi!Positions, Amount
  <2>2. result' \in Seq(Name) /\ Len(result') = Amount
    <3>1. result' \in [1..Amount -> Name] /\ Amount \in Nat
      BY <1>1, <2>1, OpenApiTypes
    <3>2. result' \in Seq(Name)
      BY <3>1, SeqDef
    <3>3. DOMAIN result' = 1..Len(result') /\ Len(result') \in Nat
      BY <3>2, LenProperties
    <3> QED
      BY <3>1, <3>2, <3>3
  <2>3. OpenApi!TypeOK'
    <3>1. OpenApi!Name = Name
      BY DEF OpenApi!Name, Name, OpenApi!Token, Token
    <3> QED
      BY <1>1, <2>1, <2>2, <3>1, OpenApiTypes DEF OpenApi!TypeOK, Amount
  <2>4. \A i \in 1..Amount :
          /\ result'[i] \notin OpenApiReservedWords
          /\ \A j \in 1..Amount : result'[i] = result'[j] => i = j
    <3>1. Amount \in Nat /\ \A i \in 1..Amount : result'[i] = Format[originalNames[i]]
      BY <1>1, <2>1, OpenApiTypes
    <3>2. \A i \in 1..Amount, j \in 1..Amount : i < j => result'[i] # result'[j]
      BY <1>3, <3>1 DEF OpenApi!HasConflicts, OpenApi!Positions, Amount
    <3>3. \A i \in 1..Amount, j \in 1..Amount : i = j \/ i < j \/ j < i
      BY <3>1
    <3> QED
      BY <1>3, <3>1, <3>2, <3>3 DEF OpenApi!HasConflicts, OpenApi!Positions, Amount
  <2>5. OpenApi!ResultIsUnique'
    BY <2>2, <2>4 DEF OpenApi!ResultIsUnique
  <2>6. OpenApi!ProperNamesStay'
    BY <1>1, <2>1, <2>2 DEF OpenApi!ProperNamesStay, OpenApi!IsNonConflicting
  <2> QED
    BY <2>1, <2>3, <2>5, <2>6 DEF OpenApiInv
<1> QED
  BY <1>2, <1>3

\* The loop begins with all names that stay.
LEMMA StartKeepsInv ==
  ASSUME OpenApiInv, OpenApi!StartRenaming
  PROVE  OpenApiInv'
<1>1. /\ UNCHANGED <<originalNames, strict, result>> /\ openApiStatus = "start"
      /\ openApiStatus' = "rename" /\ result = <<>> /\ OpenApi!TypeOK
      /\ pending' = Kept(Amount) /\ openApiUsed' = OpenApiReservedWords \cup NamesIn(Kept(Amount))
  BY DEF OpenApi!StartRenaming, OpenApi!StartGenerator, OpenApi!NonConflictingNames, OpenApiInv,
     Kept, Amount, OpenApi!NamesIn, NamesIn
<1>2. /\ Kept(0) = <<>> /\ Kept(Amount) \in Seq(Name) /\ NamesIn(Kept(Amount)) \subseteq Name
      /\ Len(result) = 0 /\ NamesIn(result) = {} /\ 1..0 = {} /\ Amount \in 0..Amount
  <2>1. Kept(0) = <<>> /\ Kept(Amount) \in Seq(Name)
    BY <1>1, KeptIsNonConflicting, OpenApiTypes
  <2> QED
    BY <1>1, <2>1, OpenApiTypes, ElementOfSeq DEF NamesIn
<1>3. UNCHANGED <<Kept(Amount), Kept(0), Amount>>
  BY <1>1 DEF Kept, Amount, OpenApi!CorrectNames
<1>4. SubSeq(Kept(Amount), 1, Len(Kept(Amount))) = Kept(Amount)
  BY <1>2, SubSeqFull
<1>5. OpenApi!TypeOK'
  <2>1. OpenApi!Name = Name
    BY DEF OpenApi!Name, Name, OpenApi!Token, Token
  <2> QED
    BY <1>1, <1>2, <2>1, OpenApiTypes DEF OpenApi!TypeOK
<1>6. OpenApi!ResultIsUnique' /\ OpenApi!ProperNamesStay'
  BY <1>1, <1>2 DEF OpenApi!ResultIsUnique, OpenApi!ProperNamesStay
<1>7. Renaming'
  BY <1>1, <1>2, <1>3, <1>4 DEF Renaming
<1> QED
  BY <1>1, <1>5, <1>6, <1>7 DEF OpenApiInv

\* Which names stay depends on the original names only.
LEMMA SameNames ==
  ASSUME UNCHANGED originalNames
  PROVE  /\ UNCHANGED OpenApi!CorrectNames /\ UNCHANGED Amount
         /\ \A i : Kept(i)' = Kept(i)
         /\ \A i : OpenApi!IsNonConflicting(i)' = OpenApi!IsNonConflicting(i)
         /\ Kept(Amount)' = Kept(Amount)
<1>1. OpenApi!CorrectNames' = OpenApi!CorrectNames
  BY DEF OpenApi!CorrectNames
<1>2. Amount' = Amount
  BY DEF Amount
<1>3. \A i : Kept(i)' = Kept(i)
  BY <1>1 DEF Kept
<1>4. \A i : OpenApi!IsNonConflicting(i)' = OpenApi!IsNonConflicting(i)
  BY DEF OpenApi!IsNonConflicting
<1>5. Kept(Amount)' = Kept(Amount)
  BY <1>1, <1>2 DEF Kept
<1> QED
  BY <1>1, <1>2, <1>3, <1>4, <1>5

\* The next name in the result, if it is new, and stays if it may.
LEMMA NamedKeepsInv ==
  ASSUME OpenApiInv, openApiStatus = "rename", openApiStatus' = "rename",
         UNCHANGED <<originalNames, strict>>, Len(result) < Amount,
         NEW x \in Name, result' = Append(result, x),
         x \notin OpenApiReservedWords \cup NamesIn(result),
         openApiUsed' = openApiUsed \cup {x}, pending' \in Seq(Name),
         NEW p, p = Len(result) + 1,
         pending' = SubSeq(Kept(Amount), Len(Kept(p)) + 1, Len(Kept(Amount))),
         IF OpenApi!IsNonConflicting(p) THEN x = originalNames[p]
         ELSE x \notin NamesIn(Kept(Amount))
  PROVE  OpenApiInv'
<1>1. /\ OpenApi!TypeOK /\ OpenApi!ResultIsUnique /\ OpenApi!ProperNamesStay /\ Renaming
      /\ result \in Seq(Name) /\ Len(result) \in Nat /\ Amount \in Nat
      /\ openApiUsed \subseteq Name
  BY OpenApiTypes DEF OpenApiInv
<1>2. /\ result' \in Seq(Name) /\ Len(result') = p /\ result'[p] = x
      /\ \A i \in 1..Len(result) : result'[i] = result[i]
  BY <1>1, AppendProperties
<1>3. /\ p \in 1..Amount /\ p \in Nat /\ 1..p = 1..Len(result) \cup {p}
      /\ p \notin 1..Len(result)
  BY <1>1
<1>4. NamesIn(result') = NamesIn(result) \cup {x}
  BY <1>2, <1>3 DEF NamesIn
<1>5. /\ UNCHANGED <<Kept(Amount), Kept(p), Amount>>
      /\ \A i : OpenApi!IsNonConflicting(i)' = OpenApi!IsNonConflicting(i)
  BY SameNames
<1>6. OpenApi!TypeOK'
  <2>1. OpenApi!Name = Name
    BY DEF OpenApi!Name, Name, OpenApi!Token, Token
  <2>2. openApiUsed' \subseteq Name /\ Len(result') <= Len(originalNames')
    BY <1>1, <1>2, <1>3 DEF Amount
  <2> QED
    BY <1>1, <1>2, <2>1, <2>2 DEF OpenApi!TypeOK
<1>7. OpenApi!ResultIsUnique'
  <2>1. \A i \in 1..Len(result) : result[i] # x /\ result[i] \notin OpenApiReservedWords
    BY <1>1 DEF NamesIn, OpenApi!ResultIsUnique
  <2>2. ASSUME NEW i \in 1..p, NEW j \in 1..p, result'[i] = result'[j]
        PROVE  i = j
    <3>1. CASE i = p /\ j = p
      BY <3>1
    <3>2. CASE i \in 1..Len(result) /\ j \in 1..Len(result)
      BY <1>1, <1>2, <2>2, <3>2 DEF OpenApi!ResultIsUnique
    <3>3. CASE i \in 1..Len(result) /\ j = p
      BY <1>2, <2>1, <2>2, <3>3
    <3>4. CASE i = p /\ j \in 1..Len(result)
      BY <1>2, <2>1, <2>2, <3>4
    <3> QED
      BY <1>3, <3>1, <3>2, <3>3, <3>4
  <2>3. \A i \in 1..p : result'[i] \notin OpenApiReservedWords
    BY <1>2, <1>3, <2>1
  <2> QED
    BY <1>2, <2>2, <2>3 DEF OpenApi!ResultIsUnique
<1>8. OpenApi!ProperNamesStay'
  <2>1. ASSUME NEW i \in 1..p, OpenApi!IsNonConflicting(i)
        PROVE  result'[i] = originalNames[i]
    BY <1>1, <1>2, <1>3, <2>1 DEF OpenApi!ProperNamesStay
  <2> QED
    BY <1>2, <1>5, <2>1 DEF OpenApi!ProperNamesStay
<1>9. Renaming'
  <2>1. OpenApiReservedWords \cup NamesIn(Kept(Amount))' \cup NamesIn(result') \subseteq openApiUsed'
    BY <1>1, <1>4, <1>5 DEF Renaming, NamesIn
  <2>2. \A i \in 1..p :
          IF OpenApi!IsNonConflicting(i) THEN result'[i] = originalNames[i]
          ELSE result'[i] \notin OpenApiReservedWords \cup NamesIn(Kept(Amount))
    <3> TAKE i \in 1..p
    <3>1. CASE i = p
      BY <1>2, <3>1
    <3>2. CASE i # p
      <4>1. i \in 1..Len(result)
        BY <1>3, <3>2
      <4> QED
        BY <1>1, <1>2, <4>1 DEF Renaming
    <3> QED
      BY <3>1, <3>2
  <2>3. NamesIn(Kept(Amount))' = NamesIn(Kept(Amount))
    BY <1>5 DEF NamesIn
  <2>4. Kept(Len(result))' = Kept(p)
    BY <1>2, <1>5 DEF Kept
  <2> QED
    BY <1>2, <1>5, <2>1, <2>2, <2>3, <2>4 DEF Renaming
<1> QED
  BY <1>6, <1>7, <1>8, <1>9 DEF OpenApiInv

\* The loop, which looks at the first pending name only, keeps a name exactly if
\* it is fine as it is.
LEMMA KeptIfProper ==
  ASSUME OpenApi!TypeOK, Renaming, NEW p, p = Len(result) + 1, p <= Amount
  PROVE  /\ OpenApi!IsKept <=> OpenApi!IsNonConflicting(p)
         /\ OpenApi!IsKept =>
              SubSeq(pending, 2, Len(pending))
                = SubSeq(Kept(Amount), Len(Kept(p)) + 1, Len(Kept(Amount)))
         /\ ~OpenApi!IsKept => Kept(p) = Kept(p - 1)
<1> DEFINE all == Kept(Amount)
           k == Len(Kept(p - 1))
<1>1. /\ originalNames \in Seq(Name) /\ Amount \in Nat /\ Len(result) \in Nat
      /\ p \in 1..Amount /\ p - 1 = Len(result) /\ p - 1 \in 0..Amount /\ p \in 0..Amount
      /\ (p - 1) + 1 = p
  BY OpenApiTypes
<1>2. /\ all \in Seq(Name) /\ Kept(p - 1) \in Seq(Name) /\ Len(all) \in Nat /\ k \in Nat /\ k <= Len(all)
      /\ \A m \in k + 1..Len(all) : \E q \in p..Amount :
           OpenApi!IsNonConflicting(q) /\ all[m] = originalNames[q]
  <2>1. \A m \in Len(Kept(p - 1)) + 1..Len(all) : \E q \in (p - 1) + 1..Amount :
          OpenApi!IsNonConflicting(q) /\ all[m] = originalNames[q]
    BY <1>1, KeptGrows
  <2>2. all \in Seq(Name) /\ Kept(p - 1) \in Seq(Name) /\ k <= Len(all)
    BY <1>1, KeptGrows
  <2>3. Len(all) \in Nat /\ k \in Nat
    BY <2>2, LenProperties
  <2> HIDE DEF all, k
  <2> QED
    BY <1>1, <2>1, <2>2, <2>3 DEF k
<1>3. pending = SubSeq(all, k + 1, Len(all))
  BY <1>1 DEF Renaming
<1>4. OpenApi!IsKept <=> pending # <<>> /\ pending[1] = originalNames[p]
  BY DEF OpenApi!IsKept, OpenApi!Current
<1>5. CASE k = Len(all)
  <2>1. pending = <<>>
    BY <1>2, <1>3, <1>5, SubSeqEmpty
  <2>2. ~OpenApi!IsNonConflicting(p)
    <3>1. SUFFICES ASSUME OpenApi!IsNonConflicting(p) PROVE FALSE
      OBVIOUS
    <3>2. Kept(p) = Append(Kept(p - 1), originalNames[p]) /\ Len(Kept(p)) <= Len(all)
      BY <1>1, <3>1, KeptIsNonConflicting, KeptGrows
    <3>3. originalNames[p] \in Name
      BY <1>1, OpenApiTypes
    <3>4. Len(Kept(p)) = k + 1
      BY <1>2, <3>2, <3>3, AppendProperties
    <3> QED
      BY <1>2, <1>5, <3>2, <3>4
  <2>3. Kept(p) = Kept(p - 1)
    BY <1>1, <2>2, KeptIsNonConflicting
  <2> QED
    BY <1>4, <2>1, <2>2, <2>3
<1>6. CASE k # Len(all)
  <2>1. k + 1 \in 1..Len(all) /\ k + 1 \in k + 1..Len(all) /\ Len(all) \in k + 1..Len(all)
    BY <1>2, <1>6
  <2>2. /\ pending \in Seq(Name) /\ pending # <<>>
        /\ pending[1] = all[k + 1]
        /\ SubSeq(pending, 2, Len(pending)) = SubSeq(all, (k + 1) + 1, Len(all))
    <3>1. /\ Head(pending) = all[k + 1]
          /\ Tail(pending) = SubSeq(all, (k + 1) + 1, Len(all))
      BY <1>2, <1>3, <2>1, HeadTailOfSubSeq
    <3>2. pending \in Seq(Name) /\ Len(pending) # 0
      <4>1. \A i \in k + 1..Len(all) : all[i] \in Name
        BY <1>2, ElementOfSeq
      <4> HIDE DEF all, k
      <4> QED
        BY <1>2, <1>3, <2>1, <4>1, SubSeqProperties
    <3>3. pending # <<>>
      BY <3>2
    <3>4. Tail(pending) = SubSeq(pending, 2, Len(pending)) /\ Head(pending) = pending[1]
      BY <3>2, <3>3, TailIsSubSeq, HeadTailProperties
    <3> HIDE DEF all, k
    <3> QED
      BY <3>1, <3>2, <3>3, <3>4
  <2>3. PICK q \in p..Amount : OpenApi!IsNonConflicting(q) /\ all[k + 1] = originalNames[q]
    BY <1>2, <2>1
  <2>4. ASSUME OpenApi!IsNonConflicting(p)
        PROVE  all[k + 1] = originalNames[p] /\ Len(Kept(p)) = k + 1
    <3>1. Kept(p) = Append(Kept(p - 1), originalNames[p]) /\ originalNames[p] \in Name
      BY <1>1, <2>4, KeptIsNonConflicting, OpenApiTypes
    <3>2. Len(Kept(p)) = k + 1 /\ Kept(p)[k + 1] = originalNames[p]
      BY <1>2, <3>1, AppendProperties
    <3>3. k + 1 \in 1..Len(Kept(p)) /\ \A m \in 1..Len(Kept(p)) : all[m] = Kept(p)[m]
      BY <1>1, <1>2, <3>2, KeptGrows
    <3> QED
      BY <3>2, <3>3
  <2>5. ASSUME all[k + 1] = originalNames[p]
        PROVE  OpenApi!IsNonConflicting(p)
    <3>1. CASE q = p
      BY <2>3, <3>1
    <3>2. CASE q # p
      <4>1. p \in 1..q - 1
        BY <1>1, <3>2
      <4> QED
        BY <2>3, <2>5, <4>1 DEF OpenApi!IsNonConflicting
    <3> QED
      BY <3>1, <3>2
  <2>6. ~OpenApi!IsNonConflicting(p) => Kept(p) = Kept(p - 1)
    BY <1>1, KeptIsNonConflicting
  <2> HIDE DEF all, k
  <2>7. OpenApi!IsKept <=> OpenApi!IsNonConflicting(p)
    BY <1>4, <2>2, <2>4, <2>5
  <2> QED
    BY <2>2, <2>4, <2>6, <2>7 DEF all
<1> QED
  BY <1>5, <1>6

\* A name that may stay is kept.
LEMMA KeepNameKeepsInv ==
  ASSUME OpenApiInv, OpenApi!KeepName
  PROVE  OpenApiInv'
<1> DEFINE p == Len(result) + 1
           x == originalNames[p]
<1>1. /\ openApiStatus = "rename" /\ Renaming /\ OpenApi!TypeOK /\ OpenApi!IsKept
      /\ UNCHANGED <<originalNames, strict, openApiUsed, openApiStatus>>
      /\ pending' = SubSeq(pending, 2, Len(pending)) /\ result' = Append(result, x)
      /\ Len(result) < Amount
  BY DEF OpenApiInv, OpenApi!KeepName, OpenApi!Current, Amount
<1>2. /\ originalNames \in Seq(Name) /\ Amount \in Nat /\ Len(result) \in Nat
      /\ p \in 1..Amount /\ p <= Amount /\ x \in Name /\ Amount \in 0..Amount
  BY <1>1, OpenApiTypes
<1>3. /\ OpenApi!IsNonConflicting(p)
      /\ pending' = SubSeq(Kept(Amount), Len(Kept(p)) + 1, Len(Kept(Amount)))
  BY <1>1, <1>2, KeptIfProper
<1>4. pending' \in Seq(Name)
  <2>1. pending \in Seq(Name) /\ pending # <<>>
    BY <1>1, OpenApiTypes DEF OpenApi!IsKept
  <2>2. pending' = Tail(pending) /\ Tail(pending) \in Seq(Name)
    BY <1>1, <2>1, TailIsSubSeq, HeadTailProperties
  <2> QED
    BY <2>2
<1>5. x \in NamesIn(Kept(Amount))
  BY <1>2, <1>3, KeptIsNonConflicting
<1>6. ASSUME NEW i \in 1..Len(result)
      PROVE  result[i] # x
  <2>1. i \in 1..p - 1
    BY <1>2
  <2>2. originalNames[i] # x
    BY <1>3, <2>1 DEF OpenApi!IsNonConflicting
  <2> QED
    BY <1>1, <1>5, <2>2 DEF Renaming
<1>7. x \notin OpenApiReservedWords \cup NamesIn(result)
  BY <1>3, <1>6 DEF OpenApi!IsNonConflicting, NamesIn
<1>8. openApiUsed' = openApiUsed \cup {x}
  BY <1>1, <1>5 DEF Renaming
<1> QED
  BY <1>1, <1>2, <1>3, <1>4, <1>7, <1>8, NamedKeepsInv

\* Any other name gets one that nothing has.
LEMMA GenerateNameKeepsInv ==
  ASSUME OpenApiInv, OpenApi!GenerateName
  PROVE  OpenApiInv'
<1> DEFINE p == Len(result) + 1
           generated == OpenApi!GenerateUniqueNamesWithSuffixes(
                          openApiUsed, Format[originalNames[p]], <<>>, TRUE)
<1>1. /\ openApiStatus = "rename" /\ Renaming /\ OpenApi!TypeOK /\ ~OpenApi!IsKept
      /\ UNCHANGED <<originalNames, strict, pending>> /\ Len(result) < Amount
  BY DEF OpenApiInv, OpenApi!GenerateName, Amount
<1>2. CASE generated = Exhausted
  <2>1. openApiStatus' = "failed" /\ UNCHANGED <<openApiUsed, result>>
    BY <1>2 DEF OpenApi!GenerateName, OpenApi!Current
  <2> QED
    BY <1>1, <2>1 DEF OpenApiInv, OpenApi!TypeOK, OpenApi!ResultIsUnique,
       OpenApi!ProperNamesStay, OpenApi!IsNonConflicting
<1>3. CASE generated # Exhausted
  <2>1. /\ openApiUsed' = openApiUsed \cup {generated[1]}
        /\ result' = Append(result, generated[1]) /\ UNCHANGED openApiStatus
    <3>1. OpenApi!NamesIn(<<generated[1]>>) = {generated[1]}
      <4> HIDE DEF generated
      <4> QED
        BY DEF OpenApi!NamesIn
    <3>2. OpenApi!Current = originalNames[p]
      BY DEF OpenApi!Current
    <3>3. /\ OpenApi!AddToUsedNames(<<generated[1]>>)
          /\ result' = Append(result, generated[1]) /\ UNCHANGED openApiStatus
      BY <1>3, <3>2 DEF OpenApi!GenerateName
    <3> QED
      BY <3>1, <3>3 DEF OpenApi!AddToUsedNames
  <2>2. /\ Amount \in Nat /\ Len(result) \in Nat /\ p \in 1..Amount /\ p <= Amount
        /\ openApiUsed \in SUBSET Name /\ Format[originalNames[p]] \in Name
        /\ pending \in Seq(Name) /\ p - 1 = Len(result)
    BY <1>1, OpenApiTypes
  <2>3. generated[1] \in Name /\ generated[1] \notin openApiUsed
    BY <1>3, <2>2, OpenApiGenerated
  <2>4. /\ ~OpenApi!IsNonConflicting(p)
        /\ Kept(p) = Kept(p - 1)
    BY <1>1, <2>2, KeptIfProper
  <2>5. pending' = SubSeq(Kept(Amount), Len(Kept(p)) + 1, Len(Kept(Amount)))
    BY <1>1, <2>2, <2>4 DEF Renaming
  <2>6. /\ generated[1] \notin OpenApiReservedWords \cup NamesIn(result)
        /\ generated[1] \notin NamesIn(Kept(Amount))
    BY <1>1, <2>3 DEF Renaming
  <2> HIDE DEF generated
  <2> QED
    BY <1>1, <2>1, <2>2, <2>3, <2>4, <2>5, <2>6, NamedKeepsInv
<1> QED
  BY <1>2, <1>3

\* Every step of ensureUniqueNames() keeps the invariant.
LEMMA OpenApiNextInv ==
  ASSUME OpenApiInv, [OpenApi!Next]_(OpenApi!vars)
  PROVE  OpenApiInv'
<1>1. CASE OpenApi!FinishRenaming
  BY <1>1 DEF OpenApi!FinishRenaming, OpenApiInv, OpenApi!TypeOK, OpenApi!ResultIsUnique,
     OpenApi!ProperNamesStay, OpenApi!IsNonConflicting
<1>2. CASE UNCHANGED OpenApi!vars
  <2>1. UNCHANGED <<originalNames, strict, pending, openApiUsed, result, openApiStatus>>
    BY <1>2 DEF OpenApi!vars
  <2>2. /\ UNCHANGED OpenApi!CorrectNames /\ UNCHANGED Amount
        /\ \A i : OpenApi!IsNonConflicting(i)' = OpenApi!IsNonConflicting(i)
    BY <2>1, SameNames
  <2>3. Renaming' <=> Renaming
    BY <2>1, <2>2 DEF Renaming, NamesIn, Kept
  <2> QED
    BY <2>1, <2>2, <2>3 DEF OpenApiInv, OpenApi!TypeOK, OpenApi!ResultIsUnique,
       OpenApi!ProperNamesStay
<1> QED
  BY <1>1, <1>2, StrictKeepsInv, StartKeepsInv, KeepNameKeepsInv, GenerateNameKeepsInv
     DEF OpenApi!Next

\* ensureUniqueNames(): no two names are equal and none is reserved, for every list
\* of names, every format and every set of reserved words.
THEOREM OpenApiNamesDiffer == OpenApi!Spec => []ResultIsUnique
<1>1. OpenApiInv => ResultIsUnique
  BY DEF OpenApiInv, ResultIsUnique
<1> QED
  BY <1>1, OpenApiInitInv, OpenApiNextInv, PTL DEF OpenApi!Spec

\* deduplicateNames(): a name that needs no change has its place in the result,
\* whatever the names before it would become.
THEOREM OpenApiNamesStay == OpenApi!Spec => []ProperNamesStay
<1>1. OpenApiInv => ProperNamesStay
  BY DEF OpenApiInv, ProperNamesStay
<1> QED
  BY <1>1, OpenApiInitInv, OpenApiNextInv, PTL DEF OpenApi!Spec

-----------------------------------------------------------------------------
(* One run of the command line                                             *)

\* The data of both generators keep their types, whichever of them runs.
THEOREM GeneratorsTypes == MCSpec => []AllTypes
<1>1. MCInit => NamesInv /\ OpenApiInv
  BY InitNamesInv, OpenApiInitInv DEF MCInit
<1>2. ASSUME NamesInv, OpenApiInv, [MCNext]_<<generator, vars, openApiVars>>
      PROVE  NamesInv' /\ OpenApiInv'
  <2>1. UNCHANGED openApiVars <=> UNCHANGED OpenApi!vars
    BY DEF openApiVars, OpenApi!vars
  <2>2. [Next]_vars /\ [OpenApi!Next]_(OpenApi!vars)
    BY <1>2, <2>1 DEF MCNext
  <2> QED
    BY <1>2, <2>2, NextNamesInv, OpenApiNextInv
<1>3. NamesInv /\ OpenApiInv => AllTypes
  BY DEF NamesInv, OpenApiInv, AllTypes
<1> QED
  BY <1>1, <1>2, <1>3, PTL DEF MCSpec
=============================================================================
