-------------------------- MODULE CGStrategy_proofs ------------------------
(***************************************************************************)
(* The strategies of cg_based.py and the APFD measured from their order,   *)
(* for any list of files, with a file listed any number of times, any      *)
(* methods covered and any tests failed, or none.                          *)
(*                                                                         *)
(* CGInv counts: a file is emitted and left, together, as often as it is   *)
(* listed.  test_idx_map sends all entries of a file to its last position, *)
(* so only counting by file works.  Order adds what the additional         *)
(* strategy knows at every position: the methods covered before it, and    *)
(* that no test left then or emitted since would have added more.  The     *)
(* APFD is a sum over the positions of faults, bounded by counting.        *)
(***************************************************************************)
EXTENDS CGStrategy, Lemmas

\* What Init fixes, and the list that is left.
CGTypes ==
  /\ names \in Seq(FilePath) /\ Len(names) =< MaxTests
  /\ fails \in SUBSET (1 .. Len(names))
  /\ TA_tmp \in [FilePath -> SUBSET Method]
  /\ stragety \in {"total", "additional"}
  /\ cg_test_cases \in Seq(Range(names))
  /\ sorted_list \in Seq(0 .. Len(names) - 1)
  /\ cg_pc \in {"prioritise", "measure", "done"}

\* The files in the order of the positions emitted.
File(i) == names[sorted_list[i] + 1]
Files == [i \in DOMAIN sorted_list |-> File(i)]

\* The number of times a value is in a list.
LEMMA CountType ==
  ASSUME NEW S, NEW s \in Seq(S), NEW x
  PROVE  /\ IsFiniteSet({i \in DOMAIN s : s[i] = x}) /\ Count(s, x) \in Nat
         /\ Count(s, x) = 0 <=> \A i \in 1 .. Len(s) : s[i] # x
<1> DEFINE D == {i \in DOMAIN s : s[i] = x}
<1>1. DOMAIN s = 1 .. Len(s) /\ Len(s) \in Nat
  OBVIOUS
<1>2. IsFiniteSet(1 .. Len(s))
  BY <1>1, FS_Interval
<1>3. D \in SUBSET (1 .. Len(s))
  BY <1>1, Zenon
<1>4. IsFiniteSet(D)
  BY <1>2, <1>3, FS_Subset, Zenon
<1>5. Cardinality(D) \in Nat /\ (Cardinality(D) = 0 <=> D = {})
  BY <1>4, FS_CardinalityType, FS_EmptySet, Zenon
<1> QED
  BY <1>1, <1>4, <1>5, Zenon DEF Count

\* One more of the value that is appended.
LEMMA CountAppend ==
  ASSUME NEW S, NEW s \in Seq(S), NEW y \in S, NEW x
  PROVE  Count(Append(s, y), x) = Count(s, x) + (IF x = y THEN 1 ELSE 0)
<1> DEFINE r == Append(s, y)
           n == Len(s)
           D == {i \in DOMAIN s : s[i] = x}
           E == {i \in DOMAIN r : r[i] = x}
<1>1. /\ n \in Nat /\ DOMAIN s = 1 .. n /\ DOMAIN r = (1 .. n) \cup {n + 1} /\ r[n + 1] = y
      /\ \A i \in 1 .. n : r[i] = s[i]
      /\ n + 1 \notin 1 .. n
  OBVIOUS
<1> HIDE DEF r
<1>2. IsFiniteSet(D)
  BY CountType, Zenon
<1>3. CASE x = y
  <2>1. E = D \cup {n + 1} /\ n + 1 \notin D
    BY <1>1, <1>3, Zenon
  <2> HIDE DEF D, E
  <2>2. Cardinality(E) = Cardinality(D) + 1
    BY <1>2, <2>1, FS_AddElement, Zenon
  <2> QED
    BY <1>3, <2>2, Zenon DEF Count, D, E, r
<1>4. CASE x # y
  <2>1. E = D
    BY <1>1, <1>4, Zenon
  <2> HIDE DEF D, E
  <2>2. Cardinality(D) + 0 = Cardinality(E)
    BY <1>2, <2>1, FS_CardinalityType
  <2> QED
    BY <1>4, <2>2, Zenon DEF Count, D, E, r
<1> QED
  BY <1>3, <1>4, Zenon

\* What a list without its i-th element is.
Without(s, i) == SubSeq(s, 1, i - 1) \o SubSeq(s, i + 1, Len(s))

\* Its elements.
LEMMA WithoutElements ==
  ASSUME NEW S, NEW s \in Seq(S), NEW i \in 1 .. Len(s)
  PROVE  /\ Without(s, i) \in Seq(S) /\ Len(Without(s, i)) = Len(s) - 1
         /\ \A j \in 1 .. Len(s) - 1 : Without(s, i)[j] = s[IF j < i THEN j ELSE j + 1]
<1>1. PICK n \in Nat : n = Len(s)
  OBVIOUS
<1> DEFINE a == SubSeq(s, 1, i - 1)
           b == SubSeq(s, i + 1, Len(s))
<1>2. i \in Nat /\ 1 =< i /\ i =< n
  BY <1>1
<1>3. /\ a \in Seq(S) /\ Len(a) = i - 1 /\ \A j \in 1 .. i - 1 : a[j] = s[j]
  BY <1>1, <1>2
<1>4. /\ b \in Seq(S) /\ Len(b) = n - i /\ \A j \in 1 .. n - i : b[j] = s[i + j]
  BY <1>1, <1>2
<1>5. Without(s, i) = a \o b
  BY Zenon DEF Without
<1> HIDE DEF a, b
<1>6. /\ a \o b \in Seq(S) /\ Len(a \o b) = Len(a) + Len(b)
      /\ \A j \in 1 .. Len(a) : (a \o b)[j] = a[j]
      /\ \A j \in 1 .. Len(b) : (a \o b)[Len(a) + j] = b[j]
  <2>0. a \in Seq(S) /\ b \in Seq(S)
    BY <1>3, <1>4, Zenon
  <2>3. a \o b \in Seq(S)
    BY <2>0
  <2>1. /\ Len(a \o b) = Len(a) + Len(b)
        /\ Len(a) \in Nat /\ Len(b) \in Nat
    BY <2>0
  <2>2. \A j \in 1 .. Len(a) + Len(b) :
          (a \o b)[j] = IF j =< Len(a) THEN a[j] ELSE b[j - Len(a)]
    BY <2>0
  <2> QED
    BY <2>1, <2>2, <2>3
<1>7. ASSUME NEW j \in 1 .. n - 1 PROVE (a \o b)[j] = s[IF j < i THEN j ELSE j + 1]
  <2>1. CASE j < i
    BY <1>2, <1>3, <1>6, <2>1
  <2>2. CASE ~ (j < i)
    <3>1. j - (i - 1) \in 1 .. n - i /\ (i - 1) + (j - (i - 1)) = j /\ i + (j - (i - 1)) = j + 1
      BY <1>2, <2>2
    <3>2. (a \o b)[j] = b[j - (i - 1)]
      BY <1>3, <1>4, <1>6, <3>1
    <3>3. b[j - (i - 1)] = s[j + 1]
      BY <1>4, <3>1, Zenon
    <3> QED
      BY <2>2, <3>2, <3>3, Zenon
  <2> QED
    BY <2>1, <2>2, Zenon
<1>8. Len(a \o b) = n - 1
  BY <1>2, <1>3, <1>4, <1>6
<1> QED
  BY <1>1, <1>5, <1>6, <1>7, <1>8, Zenon

\* A value is at finitely many places of a list.
LEMMA PlacesFinite ==
  ASSUME NEW S, NEW q \in Seq(S), NEW x
  PROVE  IsFiniteSet({j \in DOMAIN q : q[j] = x})
  BY CountType, Zenon

\* One less of the value that is taken out.
LEMMA CountWithout ==
  ASSUME NEW S, NEW s \in Seq(S), NEW i \in 1 .. Len(s), NEW x
  PROVE  Count(s, x) = Count(Without(s, i), x) + (IF x = s[i] THEN 1 ELSE 0)
<1> DEFINE r == Without(s, i)
           D == {j \in DOMAIN s : s[j] = x}
           E == {j \in DOMAIN r : r[j] = x}
           at == [j \in E |-> IF j < i THEN j ELSE j + 1]
<1>1. PICK n \in Nat : n = Len(s)
  OBVIOUS
<1>2. /\ r \in Seq(S) /\ Len(r) = n - 1 /\ DOMAIN r = 1 .. n - 1 /\ DOMAIN s = 1 .. n
      /\ \A j \in 1 .. n - 1 : r[j] = s[IF j < i THEN j ELSE j + 1]
      /\ i \in 1 .. n
  <2>1. /\ r \in Seq(S) /\ Len(r) = n - 1
        /\ \A j \in 1 .. n - 1 : r[j] = s[IF j < i THEN j ELSE j + 1]
    BY <1>1, WithoutElements, Zenon
  <2> QED
    BY <1>1, <2>1
<1>3. IsFiniteSet(E) /\ IsFiniteSet(D)
  <2>1. IsFiniteSet(E)
    <3> HIDE DEF r
    <3>1. r \in Seq(S)
      BY <1>2, Zenon
    <3> QED
      BY <3>1, PlacesFinite, Zenon
  <2>2. IsFiniteSet(D)
    BY CountType, Zenon
  <2> QED
    BY <2>1, <2>2, Zenon
<1> HIDE DEF r
<1>4. ASSUME NEW j \in E PROVE at[j] \in D \ {i}
  BY <1>2
<1>5. ASSUME NEW j \in E, NEW k \in E, at[j] = at[k] PROVE j = k
  BY <1>2, <1>5
<1>6. ASSUME NEW d \in D \ {i} PROVE \E j \in E : at[j] = d
  <2>1. CASE d < i
    BY <1>2, <2>1
  <2>2. CASE ~ (d < i)
    <3>1. d - 1 \in 1 .. n - 1 /\ ~ (d - 1 < i) /\ (d - 1) + 1 = d
      BY <1>2, <2>2
    <3>2. d - 1 \in E
      BY <1>2, <3>1, Zenon
    <3> QED
      BY <3>1, <3>2, Zenon
  <2> QED
    BY <2>1, <2>2, Zenon
<1>7. at \in Bijection(E, D \ {i})
  <2>1. at \in [E -> D \ {i}]
    BY <1>4, Zenon
  <2> HIDE DEF at, D, E
  <2>2. DOMAIN at = E
    BY <2>1, Zenon
  <2> QED
    BY <1>5, <1>6, <2>1, <2>2, Zenon DEF Bijection, Injection, Surjection, IsInjective
<1>8. Cardinality(D \ {i}) = Cardinality(E)
  <2> HIDE DEF at, D, E
  <2>1. ExistsBijection(E, D \ {i})
    BY <1>7, Zenon DEF ExistsBijection
  <2> QED
    BY <1>3, <2>1, FS_Bijection, Zenon
<1>9. Cardinality(D) \in Nat /\ Cardinality(E) \in Nat
  BY <1>3, FS_CardinalityType, Zenon
<1>10. i \in D <=> x = s[i]
  BY <1>2, Zenon
<1>11. Cardinality(D \ {i}) = IF i \in D THEN Cardinality(D) - 1 ELSE Cardinality(D)
  <2> HIDE DEF D
  <2> QED
    BY <1>3, FS_RemoveElement, Zenon
<1>12. Count(s, x) = Cardinality(D) /\ Count(r, x) = Cardinality(E)
  BY Zenon DEF Count
<1> HIDE DEF D, E
<1> QED
  BY <1>8, <1>9, <1>10, <1>11, <1>12 DEF r

\* Sets that a function pairs off have the same number of elements.
LEMMA PairedOff ==
  ASSUME NEW S, NEW T, IsFiniteSet(S), NEW f \in [S -> T],
         \A x, y \in S : f[x] = f[y] => x = y,
         \A t \in T : \E x \in S : f[x] = t
  PROVE  IsFiniteSet(T) /\ Cardinality(T) = Cardinality(S)
<1>1. f \in Bijection(S, T)
  BY Zenon DEF Bijection, Injection, Surjection, IsInjective
<1>2. ExistsBijection(S, T)
  BY <1>1, Zenon DEF ExistsBijection
<1> QED
  BY <1>2, FS_Bijection, Zenon

\* An injective function between sets of the same size is onto.
LEMMA InjectiveIsOnto ==
  ASSUME NEW S, NEW T, IsFiniteSet(S), IsFiniteSet(T), Cardinality(S) = Cardinality(T),
         NEW f \in [S -> T], \A x, y \in S : f[x] = f[y] => x = y
  PROVE  \A t \in T : \E x \in S : f[x] = t
<1>1. f \in Injection(S, T)
  BY Zenon DEF Injection, IsInjective
<1>2. f \in Surjection(S, T)
  BY <1>1, FS_Injection, Zenon
<1> QED
  BY <1>2, Zenon DEF Surjection

\* The elements of 0 .. n - 1 that a stable sort by descending size puts
\* before p.
Ahead(size, n, p) ==
  {q \in 0 .. n - 1 : size[q] > size[p] \/ (size[q] = size[p] /\ q < p)}

\* Counting the elements ahead numbers them.
LEMMA Ranking ==
  ASSUME NEW n \in Nat, NEW size \in [0 .. n - 1 -> Nat]
  PROVE  /\ \A p \in 0 .. n - 1 : 1 + Cardinality(Ahead(size, n, p)) \in 1 .. n
         /\ \A p, q \in 0 .. n - 1 :
              Cardinality(Ahead(size, n, p)) = Cardinality(Ahead(size, n, q)) => p = q
         /\ \A r \in 1 .. n : \E p \in 0 .. n - 1 : 1 + Cardinality(Ahead(size, n, p)) = r
<1> DEFINE P == 0 .. n - 1
           A(p) == Ahead(size, n, p)
           rank == [p \in P |-> 1 + Cardinality(A(p))]
<1>1. IsFiniteSet(P) /\ Cardinality(P) = n
  BY FS_Interval
<1>2. \A p \in P : A(p) \subseteq P /\ p \notin A(p)
  BY DEF Ahead
<1>3. ASSUME NEW p \in P, NEW q \in P, q \in A(p) PROVE A(q) \subseteq A(p)
  BY <1>3 DEF Ahead
<1>4. \A p, q \in P : p # q => p \in A(q) \/ q \in A(p)
  BY DEF Ahead
<1> HIDE DEF A, P
<1>5. ASSUME NEW p \in P
      PROVE  IsFiniteSet(A(p)) /\ Cardinality(A(p)) \in Nat /\ Cardinality(A(p)) =< n - 1
  <2>1. A(p) \in SUBSET (P \ {p}) /\ IsFiniteSet(P \ {p}) /\ Cardinality(P \ {p}) = n - 1
    BY <1>1, <1>2, FS_RemoveElement, Zenon
  <2>2. IsFiniteSet(A(p)) /\ Cardinality(A(p)) =< Cardinality(P \ {p})
    BY <2>1, FS_Subset, Zenon
  <2> QED
    BY <2>1, <2>2, FS_CardinalityType, Zenon
<1>6. ASSUME NEW p \in P, NEW q \in P, q \in A(p)
      PROVE  Cardinality(A(p)) # Cardinality(A(q))
  <2>1. A(q) \in SUBSET A(p) /\ A(q) # A(p)
    BY <1>2, <1>3, <1>6, Zenon
  <2> QED
    BY <1>5, <2>1, FS_Subset, Zenon
<1>7. \A p, q \in P : Cardinality(A(p)) = Cardinality(A(q)) => p = q
  BY <1>4, <1>6, Zenon
<1>8. \A p \in P : 1 + Cardinality(A(p)) \in 1 .. n
  BY <1>5
<1>9. \A r \in 1 .. n : \E p \in P : rank[p] = r
  <2>1. rank \in [P -> 1 .. n]
    BY <1>8, Zenon
  <2>2. \A p, q \in P : rank[p] = rank[q] => p = q
    BY <1>5, <1>7
  <2>3. IsFiniteSet(1 .. n) /\ Cardinality(1 .. n) = n
    BY FS_Interval
  <2> DEFINE R == 1 .. n
  <2>4. rank \in [P -> R] /\ IsFiniteSet(R) /\ Cardinality(R) = n
    BY <2>1, <2>3, Zenon
  <2> HIDE DEF rank, R
  <2>5. \A r \in R : \E p \in P : rank[p] = r
    BY <1>1, <2>2, <2>4, InjectiveIsOnto
  <2> QED
    BY <2>5, Zenon DEF R
<1> QED
  BY <1>7, <1>8, <1>9, Zenon DEF A, P

-----------------------------------------------------------------------------
\* The numbers of methods are natural numbers.
LEMMA MethodsCounted ==
  ASSUME CGAssumption, NEW S \in SUBSET Method
  PROVE  IsFiniteSet(S) /\ Cardinality(S) \in Nat
BY FS_Subset, FS_CardinalityType, Zenon DEF CGAssumption

\* test_idx_map gives a position with the name.
LEMMA IndexHasName ==
  ASSUME CGTypes, NEW name \in Range(names)
  PROVE  /\ test_idx_map(name) \in 0 .. Len(names) - 1
         /\ names[test_idx_map(name) + 1] = name
<1> DEFINE T == {p \in DOMAIN names : names[p] = name}
<1>1. DOMAIN names = 1 .. Len(names) /\ Len(names) \in Nat
  BY DEF CGTypes
<1>2. T \subseteq Nat /\ T # {} /\ \A p \in T : p =< Len(names)
  BY <1>1 DEF Range
<1>3. PICK x \in T : \A y \in T : y =< x
  BY <1>1, <1>2, Greatest, Zenon
<1>4. Max(T) \in T
  <2>1. x \in T /\ \A y \in T : x >= y
    BY <1>2, <1>3, Zenon
  <2> HIDE DEF T
  <2> QED
    BY <2>1, Zenon DEF Max
<1>5. test_idx_map(name) = Max(T) - 1
  BY Zenon DEF test_idx_map
<1>6. Max(T) \in 1 .. Len(names) /\ names[Max(T)] = name
  BY <1>1, <1>4, Zenon
<1> HIDE DEF T
<1>7. test_idx_map(name) + 1 = Max(T)
  BY <1>1, <1>5, <1>6
<1> QED
  BY <1>1, <1>5, <1>6, <1>7

\* The test chosen is one of the list, and none of the list adds more.
LEMMA MaxTABest ==
  ASSUME CGAssumption, CGTypes, cg_test_cases # << >>
  PROVE  /\ MaxTA \in 1 .. Len(cg_test_cases)
         /\ cg_test_cases[MaxTA] \in Range(names)
         /\ \A j \in 1 .. Len(cg_test_cases) : Gain(cg_test_cases[j]) =< Gain(cg_test_cases[MaxTA])
<1> DEFINE n == Len(cg_test_cases)
           f == [i \in 1 .. n |-> Gain(cg_test_cases[i])]
           T == {i \in DOMAIN cg_test_cases :
                   \A j \in DOMAIN cg_test_cases : Gain(cg_test_cases[j]) =< Gain(cg_test_cases[i])}
<1>1. /\ n \in Nat \ {0} /\ DOMAIN cg_test_cases = 1 .. n
      /\ \A i \in 1 .. n : cg_test_cases[i] \in Range(names)
  BY DEF CGTypes
<1>2. Range(names) \subseteq FilePath
  BY DEF CGTypes, Range
<1>3. ASSUME NEW i \in 1 .. n PROVE Gain(cg_test_cases[i]) \in Nat
  <2>1. TA_tmp[cg_test_cases[i]] \ slide_set \in SUBSET Method
    BY <1>1, <1>2, Zenon DEF CGTypes
  <2> QED
    BY <2>1, MethodsCounted, Zenon DEF Gain
<1>4. f \in [1 .. n -> Nat]
  BY <1>3, Zenon
<1>5. PICK i \in 1 .. n : \A j \in 1 .. n : f[j] =< f[i]
  <2> HIDE DEF f, n
  <2> QED
    BY <1>1, <1>4, ListMaximum, Zenon
<1>6. T \subseteq Nat /\ T # {}
  BY <1>1, <1>5
<1>7. PICK x \in T : \A y \in T : x =< y
  <2> HIDE DEF T
  <2> QED
    BY <1>6, Least, Zenon
<1>8. Min(T) \in T
  <2> HIDE DEF T
  <2> QED
    BY <1>7, Zenon DEF Min
<1>9. MaxTA = Min(T)
  BY Zenon DEF MaxTA
<1> QED
  BY <1>1, <1>8, <1>9, Zenon

-----------------------------------------------------------------------------
(* Every file as often as it is listed *)

\* The files emitted and the files that are left are the files listed.
Balance ==
  /\ stragety = "total" /\ cg_pc = "prioritise" => sorted_list = << >>
  /\ stragety = "additional" =>
       /\ Len(sorted_list) + Len(cg_test_cases) = Len(names)
       /\ \A f \in FilePath : Count(names, f) = Count(Files, f) + Count(cg_test_cases, f)
  /\ Measured => Len(sorted_list) = Len(names)

\* The inductive invariant.
CGInv == CGTypes /\ Balance /\ EveryFileAsListed

\* The files emitted.
LEMMA FilesAre ==
  ASSUME CGTypes
  PROVE  /\ Files \in Seq(FilePath) /\ Len(Files) = Len(sorted_list)
         /\ DOMAIN sorted_list = 1 .. Len(sorted_list)
         /\ \A i \in 1 .. Len(sorted_list) : Files[i] = File(i) /\ sorted_list[i] + 1 \in 1 .. Len(names)
<1>1. /\ Len(sorted_list) \in Nat /\ DOMAIN sorted_list = 1 .. Len(sorted_list)
      /\ Len(names) \in Nat /\ \A i \in 1 .. Len(names) : names[i] \in FilePath
  BY DEF CGTypes
<1>2. \A i \in 1 .. Len(sorted_list) : sorted_list[i] \in 0 .. Len(names) - 1
  BY DEF CGTypes
<1>3. \A i \in 1 .. Len(sorted_list) : sorted_list[i] + 1 \in 1 .. Len(names)
  BY <1>1, <1>2
<1>4. \A i \in 1 .. Len(sorted_list) : File(i) \in FilePath
  BY <1>1, <1>3, Zenon DEF File
<1>5. Files = [i \in 1 .. Len(sorted_list) |-> File(i)]
  BY <1>1, Zenon DEF Files
<1>6. Files \in Seq(FilePath) /\ Len(Files) = Len(sorted_list)
  BY <1>1, <1>4, <1>5
<1> QED
  BY <1>1, <1>3, <1>5, <1>6, Zenon

\* Nothing is emitted at first.
LEMMA CGStarts ==
  ASSUME CGAssumption, CgInit
  PROVE  CGInv
<1>1. PICK n \in 0 .. MaxTests : names \in [1 .. n -> FilePath]
  BY Zenon DEF CgInit
<1>2. n \in Nat
  BY DEF CGAssumption
<1>3. names \in Seq(FilePath) /\ Len(names) = n /\ DOMAIN names = 1 .. n /\ Len(names) =< MaxTests
  BY <1>1, <1>2 DEF CGAssumption
<1>4. \A i \in 1 .. n : names[i] \in Range(names)
  BY <1>3, Zenon DEF Range
<1>5. names = [i \in 1 .. n |-> names[i]]
  BY <1>1, Zenon
<1>6. names \in Seq(Range(names))
  BY <1>2, <1>4, <1>5
<1>7. CGTypes
  BY <1>3, <1>6 DEF CGTypes, CgInit
<1>8. ASSUME NEW f \in FilePath PROVE Count(Files, f) = 0 /\ Count(names, f) \in Nat
  <2>1. Files \in Seq(FilePath) /\ Len(Files) = 0
    BY <1>7, FilesAre, Zenon DEF CgInit
  <2>2. Count(Files, f) = 0
    <3>1. Count(Files, f) = 0 <=> \A i \in 1 .. Len(Files) : Files[i] # f
      BY <2>1, CountType, Zenon
    <3> QED
      BY <2>1, <3>1
  <2> QED
    BY <1>3, <2>2, CountType, Zenon
<1>9. Balance
  BY <1>3, <1>8 DEF Balance, CgInit, Measured
<1> QED
  BY <1>7, <1>9, Zenon DEF CGInv, EveryFileAsListed, Measured, CgInit

\* A list with one more element.
LEMMA AppendIs ==
  ASSUME NEW S, NEW s \in Seq(S), NEW y \in S
  PROVE  Append(s, y) = [i \in 1 .. Len(s) + 1 |-> IF i = Len(s) + 1 THEN y ELSE s[i]]
<1> DEFINE r == Append(s, y)
<1>1. Len(s) \in Nat /\ r \in Seq(S) /\ Len(r) = Len(s) + 1
  OBVIOUS
<1>2. \A i \in 1 .. Len(s) + 1 : r[i] = IF i = Len(s) + 1 THEN y ELSE s[i]
  OBVIOUS
<1> HIDE DEF r
<1>3. r = [i \in 1 .. Len(r) |-> r[i]]
  BY <1>1
<1> QED
  BY <1>1, <1>2, <1>3, Zenon DEF r

\* A step of the additional strategy that emits a test.
Emits ==
  /\ cg_pc = "prioritise" /\ stragety = "additional" /\ cg_test_cases # << >>
  /\ slide_set' = Slide(cg_test_cases[MaxTA])
  /\ sorted_list' = Append(sorted_list, test_idx_map(cg_test_cases[MaxTA]))
  /\ cg_test_cases' = Without(cg_test_cases, MaxTA)
  /\ UNCHANGED <<cg_input, apfd, cg_pc>>

\* The test that additional_stragety emits is one of the files.
LEMMA EmitsFile ==
  ASSUME CGAssumption, CGTypes, Emits
  PROVE  /\ cg_test_cases[MaxTA] \in Range(names) /\ cg_test_cases[MaxTA] \in FilePath
         /\ TA_tmp[cg_test_cases[MaxTA]] \subseteq Method
<1>1. cg_test_cases[MaxTA] \in Range(names)
  BY MaxTABest, Zenon DEF Emits
<1>2. names \in Seq(FilePath) /\ TA_tmp \in [FilePath -> SUBSET Method]
  BY Zenon DEF CGTypes
<1>3. \A i \in DOMAIN names : names[i] \in FilePath
  BY <1>2
<1>4. cg_test_cases[MaxTA] \in FilePath
  BY <1>1, <1>3, Zenon DEF Range
<1> QED
  BY <1>1, <1>2, <1>4, Zenon

\* What it leaves.
LEMMA EmitsTypes ==
  ASSUME CGAssumption, CGTypes, Emits
  PROVE  /\ CGTypes'
         /\ Files' = Append(Files, cg_test_cases[MaxTA])
         /\ Len(sorted_list') = Len(sorted_list) + 1
         /\ Len(cg_test_cases') = Len(cg_test_cases) - 1
<1> DEFINE name == cg_test_cases[MaxTA]
           x == test_idx_map(name)
           n == Len(sorted_list)
<1>1. MaxTA \in 1 .. Len(cg_test_cases) /\ name \in Range(names)
  BY MaxTABest, Zenon DEF Emits
<1>2. x \in 0 .. Len(names) - 1 /\ names[x + 1] = name
  BY <1>1, IndexHasName, Zenon
<1>3. /\ cg_test_cases' \in Seq(Range(names)) /\ Len(cg_test_cases') = Len(cg_test_cases) - 1
  BY <1>1, WithoutElements, Zenon DEF Emits, CGTypes
<1>4. names' = names /\ fails' = fails /\ stragety' = stragety /\ TA_tmp' = TA_tmp /\ cg_pc' = cg_pc
  BY Zenon DEF Emits, cg_input
<1>5. sorted_list' = Append(sorted_list, x)
  BY Zenon DEF Emits
<1> HIDE DEF x, name
<1>6. sorted_list' \in Seq(0 .. Len(names) - 1)
  BY <1>2, <1>5 DEF CGTypes
<1>7. CGTypes'
  BY <1>3, <1>4, <1>6, Zenon DEF CGTypes
<1>8. /\ n \in Nat /\ Len(sorted_list') = n + 1 /\ sorted_list'[n + 1] = x
      /\ \A i \in 1 .. n : sorted_list'[i] = sorted_list[i]
      /\ DOMAIN sorted_list = 1 .. n /\ DOMAIN (sorted_list') = 1 .. n + 1
  BY <1>5 DEF CGTypes
<1>9. Files' = [i \in 1 .. n + 1 |-> names[sorted_list'[i] + 1]]
  BY <1>4, <1>8, Zenon DEF Files, File
<1>10. Files = [i \in 1 .. n |-> names[sorted_list[i] + 1]]
  BY <1>8, Zenon DEF Files, File
<1>11. Files \in Seq(FilePath) /\ Len(Files) = n
  BY FilesAre, Zenon
<1>12. Append(Files, name) = [i \in 1 .. n + 1 |-> IF i = n + 1 THEN name ELSE Files[i]]
  <2>1. name \in FilePath
    BY <1>1 DEF CGTypes, Range
  <2> QED
    BY <1>11, <2>1, AppendIs
<1>13. \A i \in 1 .. n + 1 : names[sorted_list'[i] + 1] = IF i = n + 1 THEN name ELSE Files[i]
  BY <1>2, <1>8, <1>10
<1>14. Files' = Append(Files, name)
  BY <1>9, <1>12, <1>13, Zenon
<1> QED
  BY <1>3, <1>7, <1>8, <1>14, Zenon DEF name

\* What total_stragety returns is a list of all positions.
LEMMA TotalTypes ==
  ASSUME CGAssumption, CGTypes, total_stragety
  PROVE  /\ CGTypes' /\ Len(sorted_list') = Len(names)
         /\ \A i, j \in 1 .. Len(names) : sorted_list'[i] = sorted_list'[j] => i = j
         /\ \A p \in 0 .. Len(names) - 1 : \E i \in 1 .. Len(names) : sorted_list'[i] = p
<1> DEFINE n == Len(names)
           size == [p \in 0 .. n - 1 |-> Size(p)]
           rank(p) == 1 + Cardinality(Ahead(size, n, p))
           counted(p) == 1 + Cardinality({q \in 0 .. n - 1 : Before(q, p)})
<1>1. n \in Nat /\ \A p \in 0 .. n - 1 : names[p + 1] \in FilePath
  BY DEF CGTypes
<1>2. ASSUME NEW p \in 0 .. n - 1 PROVE Size(p) \in Nat
  <2>1. TA_tmp[names[p + 1]] \in SUBSET Method
    BY <1>1, Zenon DEF CGTypes
  <2> QED
    BY <2>1, MethodsCounted, Zenon DEF Size
<1>3. size \in [0 .. n - 1 -> Nat]
  BY <1>2, Zenon
<1>4. ASSUME NEW p \in 0 .. n - 1
      PROVE  counted(p) = rank(p)
  <2>1. {q \in 0 .. n - 1 : Before(q, p)} = Ahead(size, n, p)
    BY Zenon DEF Before, Ahead
  <2> QED
    BY <2>1, Zenon
<1>5. sorted_list' = [r \in 1 .. n |-> CHOOSE p \in 0 .. n - 1 : counted(p) = r]
  BY Zenon DEF total_stragety
<1>6. /\ \A p \in 0 .. n - 1 : rank(p) \in 1 .. n
      /\ \A p, q \in 0 .. n - 1 : rank(p) = rank(q) => p = q
      /\ \A r \in 1 .. n : \E p \in 0 .. n - 1 : rank(p) = r
  <2> HIDE DEF size, n
  <2>1. /\ \A p \in 0 .. n - 1 : rank(p) \in 1 .. n
        /\ \A p, q \in 0 .. n - 1 :
             Cardinality(Ahead(size, n, p)) = Cardinality(Ahead(size, n, q)) => p = q
        /\ \A r \in 1 .. n : \E p \in 0 .. n - 1 : rank(p) = r
    BY <1>1, <1>3, Ranking
  <2>2. \A p \in 0 .. n - 1 : Cardinality(Ahead(size, n, p)) \in Nat
    <3> SUFFICES ASSUME NEW p \in 0 .. n - 1 PROVE Cardinality(Ahead(size, n, p)) \in Nat
      BY Zenon
    <3> DEFINE P == 0 .. n - 1
    <3>1. IsFiniteSet(P) /\ Ahead(size, n, p) \in SUBSET P
      BY <1>1, FS_Interval DEF Ahead
    <3> QED
      BY <3>1, FS_Subset, FS_CardinalityType, Zenon
  <2> QED
    BY <2>1, <2>2
<1> HIDE DEF rank, counted, size, n
<1>7. \A r \in 1 .. n : sorted_list'[r] \in 0 .. n - 1 /\ rank(sorted_list'[r]) = r
  BY <1>4, <1>5, <1>6
<1>8. sorted_list' \in Seq(0 .. n - 1) /\ Len(sorted_list') = n
  <2>1. sorted_list' \in [1 .. n -> 0 .. n - 1]
    BY <1>5, <1>7, Zenon
  <2> QED
    BY <1>1, <2>1
<1>9. \A i, j \in 1 .. n : sorted_list'[i] = sorted_list'[j] => i = j
  BY <1>7, Zenon
<1>10. \A p \in 0 .. n - 1 : sorted_list'[rank(p)] = p /\ rank(p) \in 1 .. n
  BY <1>6, <1>7, Zenon
<1>11. CGTypes'
  BY <1>8, Zenon DEF CGTypes, total_stragety, cg_input, n
<1> QED
  BY <1>8, <1>9, <1>10, <1>11, Zenon DEF n

\* Steps that leave the lists alone.
LEMMA CGQuiet ==
  ASSUME CGInv, UNCHANGED <<names, fails, stragety, TA_tmp, cg_test_cases, sorted_list>>,
         cg_pc' = cg_pc \/ (cg_pc = "measure" /\ cg_pc' = "done")
  PROVE  CGInv'
<1>1. Files' = Files
  BY Zenon DEF Files, File
<1> QED
  BY <1>1, Zenon DEF CGInv, CGTypes, Balance, EveryFileAsListed, Measured, Files, File

\* A step of either strategy, or the measurement, keeps the invariant.
LEMMA CGStep ==
  ASSUME CGAssumption, CGInv, [CgNext]_cg_vars
  PROVE  CGInv'
<1> USE DEF CGInv
<1>1. CASE total_stragety
  <2> DEFINE n == Len(names)
  <2>1. /\ CGTypes' /\ Len(sorted_list') = n
        /\ \A i, j \in 1 .. n : sorted_list'[i] = sorted_list'[j] => i = j
        /\ \A p \in 0 .. n - 1 : \E i \in 1 .. n : sorted_list'[i] = p
    BY <1>1, TotalTypes, Zenon
  <2>2. names' = names /\ cg_pc' = "measure" /\ stragety = "total" /\ stragety' = "total"
    BY <1>1, Zenon DEF total_stragety, cg_input
  <2>3. /\ n \in Nat /\ DOMAIN names = 1 .. n /\ DOMAIN sorted_list' = 1 .. n
        /\ \A i \in 1 .. n : sorted_list'[i] \in 0 .. n - 1
    BY <2>1, <2>2 DEF CGTypes
  <2>4. ASSUME NEW f \in FilePath PROVE Count(names, f) = Count(Files, f)'
    <3> DEFINE D == {i \in DOMAIN names : names[i] = f}
               E == {i \in 1 .. n : names[sorted_list'[i] + 1] = f}
               at == [i \in E |-> sorted_list'[i] + 1]
    <3>1. at \in [E -> D]
      BY <2>3
    <3>2. \A i, j \in E : at[i] = at[j] => i = j
      BY <2>1, <2>3
    <3>3. ASSUME NEW d \in D PROVE \E i \in E : at[i] = d
      <4>1. d - 1 \in 0 .. n - 1 /\ (d - 1) + 1 = d
        BY <2>3
      <4>2. PICK i \in 1 .. n : sorted_list'[i] = d - 1
        BY <2>1, <4>1, Zenon
      <4> QED
        BY <4>1, <4>2, Zenon
    <3>4. IsFiniteSet(E)
      <4> DEFINE U == 1 .. n
      <4>1. IsFiniteSet(U) /\ E \in SUBSET U
        BY <2>3, FS_Interval
      <4> HIDE DEF U, E
      <4> QED
        BY <4>1, FS_Subset, Zenon
    <3>5. Count(Files, f)' = Cardinality(E)
      <4>1. Files' = [i \in 1 .. n |-> names[sorted_list'[i] + 1]]
        BY <2>2, <2>3, Zenon DEF Files, File
      <4>2. {i \in DOMAIN Files' : Files'[i] = f} = E
        BY <4>1, Zenon
      <4> QED
        BY <4>2, Zenon DEF Count
    <3>6. Count(names, f) = Cardinality(D)
      BY Zenon DEF Count
    <3> HIDE DEF D, E, at
    <3>7. Cardinality(D) = Cardinality(E)
      BY <3>1, <3>2, <3>3, <3>4, PairedOff, Zenon
    <3> QED
      BY <3>5, <3>6, <3>7, Zenon
  <2>5. Balance'
    BY <2>1, <2>2, Zenon DEF Balance
  <2>6. EveryFileAsListed'
    BY <2>2, <2>4, Zenon DEF EveryFileAsListed, Files, File
  <2> QED
    BY <2>1, <2>5, <2>6, Zenon
<1>2. CASE additional_stragety /\ cg_test_cases = << >>
  <2>1. UNCHANGED <<names, fails, stragety, TA_tmp, cg_test_cases, sorted_list>> /\ cg_pc' = "measure"
    BY <1>2, Zenon DEF additional_stragety, cg_input
  <2>2. CGTypes'
    BY <2>1, Zenon DEF CGTypes
  <2>3. stragety = "additional" /\ Len(cg_test_cases) = 0
    BY <1>2, Zenon DEF additional_stragety
  <2>4. ASSUME NEW f \in FilePath PROVE Count(cg_test_cases, f) = 0 /\ Count(Files, f) \in Nat
    <3>1. cg_test_cases \in Seq(Range(names)) /\ Files \in Seq(FilePath)
      BY FilesAre, Zenon DEF CGTypes
    <3>2. Count(cg_test_cases, f) = 0 <=> \A i \in 1 .. Len(cg_test_cases) : cg_test_cases[i] # f
      BY <3>1, CountType, Zenon
    <3>3. Count(Files, f) \in Nat
      BY <3>1, CountType, Zenon
    <3> QED
      BY <2>3, <3>2, <3>3
  <2>5. \A f \in FilePath : Count(names, f) = Count(Files, f)
    BY <2>3, <2>4 DEF Balance
  <2>6. Files' = Files
    BY <2>1, Zenon DEF Files, File
  <2>7. Len(sorted_list) \in Nat
    BY DEF CGTypes
  <2>8. Balance'
    BY <2>1, <2>3, <2>6, <2>7 DEF Balance
  <2>9. EveryFileAsListed'
    BY <2>1, <2>5, Zenon DEF EveryFileAsListed, Files, File
  <2> QED
    BY <2>2, <2>8, <2>9, Zenon
<1>3. CASE additional_stragety /\ cg_test_cases # << >>
  <2> DEFINE name == cg_test_cases[MaxTA]
  <2>1. Emits
    BY <1>3, Zenon DEF additional_stragety, Emits, Remaining, Without
  <2>2. /\ CGTypes' /\ Files' = Append(Files, name)
        /\ Len(sorted_list') = Len(sorted_list) + 1 /\ Len(cg_test_cases') = Len(cg_test_cases) - 1
    BY <2>1, EmitsTypes, Zenon
  <2>3. MaxTA \in 1 .. Len(cg_test_cases) /\ name \in Range(names) /\ name \in FilePath
    BY <1>3, MaxTABest DEF CGTypes, Range
  <2>4. names' = names /\ stragety = "additional" /\ stragety' = stragety /\ cg_pc' = "prioritise"
    BY <2>1, Zenon DEF Emits, cg_input
  <2>5. ASSUME NEW f \in FilePath
        PROVE  Count(names, f) = Count(Files', f) + Count(cg_test_cases', f)
    <3>1. Files \in Seq(FilePath) /\ cg_test_cases \in Seq(Range(names))
      BY FilesAre, Zenon DEF CGTypes
    <3>2. Count(Files', f) = Count(Files, f) + (IF f = name THEN 1 ELSE 0)
      BY <2>2, <2>3, <3>1, CountAppend
    <3>3. Count(cg_test_cases, f) = Count(cg_test_cases', f) + (IF f = name THEN 1 ELSE 0)
      BY <2>1, <2>3, <3>1, CountWithout DEF Emits
    <3>4. Count(names, f) = Count(Files, f) + Count(cg_test_cases, f)
      BY <2>4, Zenon DEF Balance
    <3>5. Count(Files, f) \in Nat
      BY <3>1, CountType, Zenon
    <3>6. Count(cg_test_cases', f) \in Nat
      <4>1. cg_test_cases' \in Seq(Range(names))
        BY <2>2, <2>4, Zenon DEF CGTypes
      <4> QED
        BY <4>1, CountType, Zenon
    <3> QED
      BY <3>2, <3>3, <3>4, <3>5, <3>6
  <2>6. /\ Len(sorted_list) \in Nat /\ Len(cg_test_cases) \in Nat
        /\ Len(sorted_list) + Len(cg_test_cases) = Len(names)
    BY <2>4 DEF CGTypes, Balance
  <2>7. Balance'
    <3>1. Len(sorted_list') + Len(cg_test_cases') = Len(names)
      <4>1. Len(sorted_list') = Len(sorted_list) + 1 /\ Len(cg_test_cases') = Len(cg_test_cases) - 1
        BY <2>2, Zenon
      <4> QED
        BY <2>6, <4>1
    <3> QED
      BY <2>4, <2>5, <3>1, Zenon DEF Balance, Measured
  <2>8. EveryFileAsListed'
    BY <2>4, Zenon DEF EveryFileAsListed, Measured
  <2> QED
    BY <2>2, <2>7, <2>8, Zenon
<1>4. CASE APFD
  BY <1>4, CGQuiet, Zenon DEF APFD, cg_input
<1>5. CASE UNCHANGED cg_vars
  BY <1>5, CGQuiet, Zenon DEF cg_vars
<1> QED
  BY <1>1, <1>2, <1>3, <1>4, <1>5, Zenon DEF CgNext

\* The invariant holds throughout.
LEMMA CGInvariant ==
  ASSUME CGAssumption
  PROVE  CgSpec => []CGInv
<1>1. CgInit => CGInv
  BY CGStarts, Zenon
<1>2. CGInv /\ [CgNext]_cg_vars => CGInv'
  BY CGStep, Zenon
<1> QED
  BY <1>1, <1>2, PTL DEF CgSpec

\* Whatever files are listed, and how often, both strategies emit every file
\* as often as it is in the list of test cases, although test_idx_map has only
\* the last position of a file.
THEOREM CGKeepsFiles ==
  ASSUME CGAssumption
  PROVE  CgSpec => []EveryFileAsListed
<1>1. CGInv => EveryFileAsListed
  BY Zenon DEF CGInv
<1> QED
  BY <1>1, CGInvariant, PTL

-----------------------------------------------------------------------------
(* The order of the additional strategy *)

\* What CoveredUpTo is defined to be.
CoversLists ==
  /\ CoveredUpTo \in [0 .. MaxTests -> SUBSET Method]
  /\ CoveredUpTo[0] = {}
  /\ \A i \in 1 .. MaxTests :
       CoveredUpTo[i] = IF i \notin DOMAIN sorted_list THEN {}
                        ELSE IF Related(i) \subseteq CoveredUpTo[i - 1] THEN {}
                        ELSE CoveredUpTo[i - 1] \cup Related(i)

\* The recursive function has the values its definition gives.
LEMMA CoveredUpToIs == CGAssumption /\ CGTypes => CoversLists
<1> SUFFICES ASSUME CGAssumption, CGTypes PROVE CoversLists
  BY Zenon
<1> DEFINE S == SUBSET Method
           N == MaxTests
           h == [x \in Nat \X S |->
                   IF x[1] + 1 \notin DOMAIN sorted_list THEN {}
                   ELSE IF Related(x[1] + 1) \subseteq x[2] THEN {}
                   ELSE x[2] \cup Related(x[1] + 1)]
           body(f) == [i \in 0 .. N |->
                         IF i = 0 \/ i \notin DOMAIN sorted_list THEN {}
                         ELSE IF Related(i) \subseteq f[i - 1] THEN {}
                         ELSE f[i - 1] \cup Related(i)]
           iter == CHOOSE f : f = body(f)
<1>1. N \in Nat
  BY Zenon DEF CGAssumption
<1>2. CoveredUpTo = iter
  BY Zenon DEF CoveredUpTo
<1>3. ASSUME NEW i \in DOMAIN sorted_list PROVE Related(i) \in S
  <2>1. sorted_list[i] + 1 \in 1 .. Len(names)
    BY FilesAre, Zenon
  <2> QED
    BY <2>1 DEF Related, CGTypes
<1>4. h \in [Nat \X S -> S]
  <2>1. ASSUME NEW x \in Nat \X S PROVE h[x] \in S
    BY <1>3, Zenon
  <2> QED
    BY <2>1, Zenon
<1>5. PICK g : Iterates(g, S, {}, h)
  <2>1. {} \in S
    BY Zenon
  <2> HIDE DEF S, h
  <2> QED
    BY <1>4, <2>1, Recursion, Zenon
<1>6. /\ g \in [Nat -> S] /\ g[0] = {}
      /\ \A n \in Nat : g[n + 1] = IF n + 1 \notin DOMAIN sorted_list THEN {}
                                 ELSE IF Related(n + 1) \subseteq g[n] THEN {}
                                 ELSE g[n] \cup Related(n + 1)
  <2> HIDE DEF S
  <2> QED
    BY <1>5, Zenon DEF Iterates
<1> DEFINE c == [i \in 0 .. N |-> g[i]]
<1>7. c = body(c)
  <2>1. ASSUME NEW i \in 0 .. N PROVE c[i] = body(c)[i]
    <3>1. CASE i = 0
      BY <1>6, <3>1, Zenon
    <3>2. CASE i # 0
      <4>1. i - 1 \in Nat /\ (i - 1) + 1 = i /\ i - 1 \in 0 .. N
        BY <1>1, <3>2
      <4>2. g[(i - 1) + 1] = IF (i - 1) + 1 \notin DOMAIN sorted_list THEN {}
                             ELSE IF Related((i - 1) + 1) \subseteq g[i - 1] THEN {}
                             ELSE g[i - 1] \cup Related((i - 1) + 1)
        BY <1>6, <4>1, Zenon
      <4>3. g[i] = IF i \notin DOMAIN sorted_list THEN {}
                   ELSE IF Related(i) \subseteq g[i - 1] THEN {}
                   ELSE g[i - 1] \cup Related(i)
        BY <4>1, <4>2, Zenon
      <4>4. c[i - 1] = g[i - 1] /\ c[i] = g[i]
        BY <4>1, Zenon
      <4> HIDE DEF c
      <4> QED
        BY <3>2, <4>3, <4>4, Zenon
    <3> QED
      BY <3>1, <3>2
  <2> QED
    BY <2>1, Zenon
<1>8. iter = body(iter)
  <2> HIDE DEF body, c
  <2> QED
    BY <1>7, Zenon
<1> HIDE DEF iter
<1>9. /\ DOMAIN iter = 0 .. N
      /\ \A i \in 0 .. N : iter[i] = IF i = 0 \/ i \notin DOMAIN sorted_list THEN {}
                                   ELSE IF Related(i) \subseteq iter[i - 1] THEN {}
                                   ELSE iter[i - 1] \cup Related(i)
  <2> DEFINE bi == body(iter)
  <2>1. DOMAIN bi = 0 .. N /\ \A i \in 0 .. N :
          bi[i] = IF i = 0 \/ i \notin DOMAIN sorted_list THEN {}
                  ELSE IF Related(i) \subseteq iter[i - 1] THEN {}
                  ELSE iter[i - 1] \cup Related(i)
    BY Zenon
  <2> HIDE DEF body
  <2> QED
    BY <1>8, <2>1, Zenon
<1> HIDE DEF body
<1> DEFINE T == {i \in Nat : i =< N => iter[i] \in S}
<1>10. 0 \in T
  <2>1. 0 \in 0 .. N
    BY <1>1
  <2>2. iter[0] = {}
    BY <1>9, <2>1, Zenon
  <2> QED
    BY <1>1, <2>2
<1>11. ASSUME NEW i \in Nat, i \in T PROVE i + 1 \in T
  <2> SUFFICES ASSUME i + 1 =< N PROVE iter[i + 1] \in S
    OBVIOUS
  <2>1. iter[i] \in S /\ i + 1 \in 0 .. N /\ i + 1 # 0 /\ (i + 1) - 1 = i
    BY <1>1, <1>11
  <2>2. iter[i + 1] = IF i + 1 \notin DOMAIN sorted_list THEN {}
                      ELSE IF Related(i + 1) \subseteq iter[i] THEN {}
                      ELSE iter[i] \cup Related(i + 1)
    BY <1>9, <2>1, Zenon
  <2> QED
    BY <1>3, <2>1, <2>2, Zenon
<1>12. \A i \in Nat : i \in T
  <2> HIDE DEF T
  <2> QED
    BY <1>10, <1>11, NatInduces, Zenon
<1>13. iter \in [0 .. N -> S]
  <2>1. \A i \in 0 .. N : iter[i] \in S
    BY <1>1, <1>12
  <2>2. iter = [i \in DOMAIN iter |-> iter[i]]
    BY <1>8, Zenon DEF body
  <2> HIDE DEF S
  <2> QED
    BY <1>9, <2>1, <2>2, Zenon
<1>14. iter[0] = {} /\ \A i \in 1 .. N : i # 0 /\ i \in 0 .. N
  BY <1>1, <1>9
<1> QED
  BY <1>2, <1>9, <1>13, <1>14, Zenon DEF CoversLists

\* What emitting a test does to CoveredUpTo.
LEMMA CoveredGrows ==
  ASSUME CGAssumption, CGTypes, CGTypes', Emits, CoversLists, CoversLists',
         NEW n \in Nat, n = Len(sorted_list), n < MaxTests
  PROVE  /\ \A i \in 0 .. n : CoveredUpTo'[i] = CoveredUpTo[i]
         /\ \A i \in 1 .. n : Related(i)' = Related(i)
         /\ Related(n + 1)' = TA_tmp[cg_test_cases[MaxTA]]
         /\ slide_set = CoveredUpTo[n] => CoveredUpTo'[n + 1] = slide_set'
<1>1. n + 1 \in 1 .. MaxTests /\ MaxTests \in Nat
  BY DEF CGAssumption
<1> DEFINE name == cg_test_cases[MaxTA]
           x == test_idx_map(name)
<1>2. name \in Range(names) /\ name \in FilePath
  BY EmitsFile, Zenon
<1>3. names[x + 1] = name /\ x \in 0 .. Len(names) - 1
  BY <1>2, IndexHasName, Zenon
<1>4. sorted_list' = Append(sorted_list, x) /\ slide_set' = Slide(name)
      /\ names' = names /\ TA_tmp' = TA_tmp
  BY Zenon DEF Emits, cg_input
<1> HIDE DEF name, x
<1>5. /\ DOMAIN sorted_list = 1 .. n /\ DOMAIN sorted_list' = 1 .. n + 1
      /\ \A i \in 1 .. n : sorted_list'[i] = sorted_list[i]
      /\ sorted_list'[n + 1] = x
  BY <1>1, <1>3, <1>4 DEF CGTypes
<1>6. \A i \in 1 .. n : Related(i)' = Related(i)
  BY <1>4, <1>5, Zenon DEF Related
<1>7. Related(n + 1)' = TA_tmp[name]
  BY <1>3, <1>4, <1>5 DEF Related
<1> DEFINE T == {i \in Nat : i =< n => CoveredUpTo'[i] = CoveredUpTo[i]}
<1>8. 0 \in T
  BY Zenon DEF CoversLists
<1>9. ASSUME NEW i \in Nat, i \in T PROVE i + 1 \in T
  <2> SUFFICES ASSUME i + 1 =< n PROVE CoveredUpTo'[i + 1] = CoveredUpTo[i + 1]
    OBVIOUS
  <2>1. /\ i + 1 \in 1 .. MaxTests /\ i + 1 \in 1 .. n /\ (i + 1) - 1 = i
        /\ i + 1 \in 1 .. n + 1 /\ CoveredUpTo'[i] = CoveredUpTo[i]
    BY <1>1, <1>9
  <2>2. CoveredUpTo[i + 1] = IF Related(i + 1) \subseteq CoveredUpTo[i] THEN {}
                             ELSE CoveredUpTo[i] \cup Related(i + 1)
    BY <1>5, <2>1, Zenon DEF CoversLists
  <2>3. CoveredUpTo'[i + 1] = IF Related(i + 1)' \subseteq CoveredUpTo'[i] THEN {}
                              ELSE CoveredUpTo'[i] \cup Related(i + 1)'
    BY <1>5, <2>1, Zenon DEF CoversLists
  <2> QED
    BY <1>6, <2>1, <2>2, <2>3, Zenon
<1>10. \A i \in Nat : i \in T
  <2> HIDE DEF T
  <2> QED
    BY <1>8, <1>9, NatInduces, Zenon
<1>11. \A i \in 0 .. n : CoveredUpTo'[i] = CoveredUpTo[i]
  BY <1>10
<1>12. ASSUME slide_set = CoveredUpTo[n] PROVE CoveredUpTo'[n + 1] = slide_set'
  <2>1. CoveredUpTo'[n + 1] = IF Related(n + 1)' \subseteq CoveredUpTo'[n] THEN {}
                              ELSE CoveredUpTo'[n] \cup Related(n + 1)'
    <3>1. (n + 1) - 1 = n /\ n + 1 \in 1 .. n + 1
      BY <1>1
    <3> QED
      BY <1>1, <1>5, <3>1, Zenon DEF CoversLists
  <2>2. CoveredUpTo'[n] = slide_set
    <3>1. n \in 0 .. n
      BY <1>1
    <3> QED
      BY <1>11, <1>12, <3>1, Zenon
  <2>3. Gain(name) = 0 <=> TA_tmp[name] \subseteq slide_set
    <3> DEFINE A == TA_tmp[name] \ slide_set
    <3>1. IsFiniteSet(A)
      <4>1. A \in SUBSET Method
        BY <1>2, Zenon DEF CGTypes
      <4> QED
        BY <4>1, MethodsCounted, Zenon
    <3>2. Cardinality(A) = 0 <=> A = {}
      BY <3>1, FS_EmptySet, Zenon
    <3> QED
      BY <3>2, Zenon DEF Gain
  <2> QED
    BY <1>4, <1>7, <2>1, <2>2, <2>3, Zenon DEF Slide
<1> QED
  BY <1>1, <1>6, <1>7, <1>11, <1>12, Zenon DEF name

\* The additional strategy has what it has covered in slide_set, and no test
\* that is left would have added more at a position than the one that is there.
Order ==
  stragety = "additional" =>
    /\ slide_set = CoveredUpTo[Len(sorted_list)]
    /\ \A i \in 1 .. Len(sorted_list) : \A j \in 1 .. Len(cg_test_cases) :
         Cardinality(TA_tmp[cg_test_cases[j]] \ CoveredUpTo[i - 1]) =< Gains(i, i)
    /\ \A n \in 1 .. Len(sorted_list) : \A i \in 1 .. n : Gains(i, n) =< Gains(i, i)

\* Nothing is emitted and nothing covered.
LEMMA OrderStarts ==
  ASSUME CGAssumption, CgInit, CGTypes, CoversLists
  PROVE  Order
<1>1. sorted_list = << >> /\ Len(sorted_list) = 0 /\ slide_set = {}
  BY Zenon DEF CgInit
<1>2. CoveredUpTo[0] = {}
  BY Zenon DEF CoversLists
<1> QED
  BY <1>1, <1>2 DEF Order

\* The test taken out adds at least as much as any that stays, and what was
\* true of the earlier positions stays true of a shorter list.
LEMMA OrderEmits ==
  ASSUME CGAssumption, CGTypes, CGTypes', Emits, CoversLists, CoversLists', Order,
         Len(sorted_list) < MaxTests
  PROVE  Order'
<1>1. PICK n \in Nat : n = Len(sorted_list)
  BY DEF CGTypes
<1>2. PICK m \in Nat : m = Len(cg_test_cases)
  BY DEF CGTypes
<1> DEFINE name == cg_test_cases[MaxTA]
           C == CoveredUpTo
<1>3. /\ stragety = "additional" /\ TA_tmp' = TA_tmp
      /\ cg_test_cases' = Without(cg_test_cases, MaxTA)
  BY Zenon DEF Emits, cg_input
<1>4. /\ MaxTA \in 1 .. m
      /\ \A j \in 1 .. m : Gain(cg_test_cases[j]) =< Gain(name)
  BY <1>2, MaxTABest, Zenon DEF Emits
<1>5. Len(cg_test_cases') = m - 1
      /\ \A j \in 1 .. m - 1 : \E k \in 1 .. m : cg_test_cases'[j] = cg_test_cases[k]
  <2>1. /\ Len(cg_test_cases') = m - 1
        /\ \A j \in 1 .. m - 1 : cg_test_cases'[j] = cg_test_cases[IF j < MaxTA THEN j ELSE j + 1]
    <3>1. cg_test_cases \in Seq(Range(names))
      BY Zenon DEF CGTypes
    <3> QED
      BY <1>2, <1>3, <1>4, <3>1, WithoutElements, Zenon
  <2>2. \A j \in 1 .. m - 1 : (IF j < MaxTA THEN j ELSE j + 1) \in 1 .. m
    BY <1>2, <1>4
  <2> QED
    BY <2>1, <2>2, Zenon
<1>6. Len(sorted_list') = n + 1
  BY <1>1, EmitsTypes, Zenon
<1>7. /\ \A i \in 0 .. n : C'[i] = C[i]
      /\ \A i \in 1 .. n : Related(i)' = Related(i)
      /\ Related(n + 1)' = TA_tmp[name]
      /\ C'[n + 1] = slide_set' /\ slide_set = C[n]
  <2>1. slide_set = C[n]
    BY <1>1, <1>3, Zenon DEF Order
  <2>2. n < MaxTests
    BY <1>1, Zenon
  <2> QED
    BY <1>1, <2>1, <2>2, CoveredGrows
<1>8. \A i \in 1 .. n : Gains(i, i)' = Gains(i, i)
  <2> SUFFICES ASSUME NEW i \in 1 .. n PROVE Gains(i, i)' = Gains(i, i)
    BY Zenon
  <2>1. i - 1 \in 0 .. n
    BY <1>1
  <2> QED
    BY <1>7, <2>1, Zenon DEF Gains
<1>9. Gains(n + 1, n + 1)' = Gain(name)
  <2>1. (n + 1) - 1 = n /\ n \in 0 .. n
    BY <1>1
  <2> QED
    BY <1>7, <2>1, Zenon DEF Gains, Gain
<1>10. ASSUME NEW i \in 1 .. n + 1, NEW j \in 1 .. m - 1
       PROVE  Cardinality(TA_tmp[cg_test_cases'[j]] \ C'[i - 1]) =< Gains(i, i)'
  <2>1. PICK k \in 1 .. m : cg_test_cases'[j] = cg_test_cases[k]
    BY <1>5, Zenon
  <2>2. CASE i = n + 1
    <3>1. C'[i - 1] = slide_set
      BY <1>1, <1>7, <2>2
    <3> QED
      BY <1>4, <1>9, <2>1, <2>2, <3>1, Zenon DEF Gain
  <2>3. CASE i \in 1 .. n
    <3>1. C'[i - 1] = C[i - 1]
      <4>1. i - 1 \in 0 .. n
        BY <1>1, <2>3
      <4> QED
        BY <1>7, <4>1, Zenon
    <3>2. Cardinality(TA_tmp[cg_test_cases[k]] \ C[i - 1]) =< Gains(i, i)
      BY <1>1, <1>2, <1>3, <2>3, Zenon DEF Order
    <3> QED
      BY <1>8, <2>1, <2>3, <3>1, <3>2, Zenon
  <2> QED
    BY <1>1, <2>2, <2>3
<1>11. ASSUME NEW k \in 1 .. n + 1, NEW i \in 1 .. k
       PROVE  Gains(i, k)' =< Gains(i, i)'
  <2>1. CASE k \in 1 .. n
    <3>1. i \in 1 .. n /\ i - 1 \in 0 .. n
      BY <1>1, <2>1
    <3>2. Gains(i, k)' = Gains(i, k)
      BY <1>7, <2>1, <3>1, Zenon DEF Gains
    <3>3. Gains(i, k) =< Gains(i, i)
      BY <1>1, <1>3, <2>1, Zenon DEF Order
    <3> QED
      BY <1>8, <3>1, <3>2, <3>3, Zenon
  <2>2. CASE k = n + 1 /\ i = n + 1
    <3>1. Gain(name) \in Nat
      <4>1. TA_tmp[name] \ slide_set \in SUBSET Method
        BY EmitsFile, Zenon
      <4> QED
        BY <4>1, MethodsCounted, Zenon DEF Gain
    <3> QED
      BY <1>9, <2>2, <3>1
  <2>3. CASE k = n + 1 /\ i \in 1 .. n
    <3>1. i - 1 \in 0 .. n
      BY <1>1, <2>3
    <3>2. Gains(i, k)' = Cardinality(TA_tmp[name] \ C[i - 1])
      BY <1>7, <2>3, <3>1, Zenon DEF Gains
    <3>3. Cardinality(TA_tmp[name] \ C[i - 1]) =< Gains(i, i)
      BY <1>1, <1>2, <1>3, <1>4, <2>3, Zenon DEF Order
    <3> QED
      BY <1>8, <2>3, <3>2, <3>3, Zenon
  <2> QED
    BY <1>1, <2>1, <2>2, <2>3
<1> QED
  BY <1>3, <1>5, <1>6, <1>7, <1>10, <1>11 DEF Order

\* Every step keeps it.
LEMMA OrderStep ==
  ASSUME CGAssumption, CGInv, CGInv', CoversLists, CoversLists', Order, [CgNext]_cg_vars
  PROVE  Order'
<1> USE DEF CGInv
<1>1. CASE total_stragety
  BY <1>1, Zenon DEF total_stragety, cg_input, Order
<1>2. ASSUME UNCHANGED <<stragety, names, TA_tmp, cg_test_cases, slide_set, sorted_list>> PROVE Order'
  <2>1. CoveredUpTo' = CoveredUpTo
    BY <1>2 DEF CoveredUpTo, Related
  <2>2. \A i, j : Related(j)' = Related(j) /\ Gains(i, j)' = Gains(i, j)
    BY <1>2, <2>1, Zenon DEF Gains, Related
  <2> QED
    BY <1>2, <2>1, <2>2, Zenon DEF Order
<1>3. CASE additional_stragety /\ cg_test_cases = << >>
  BY <1>2, <1>3, Zenon DEF additional_stragety, cg_input
<1>4. CASE additional_stragety /\ cg_test_cases # << >>
  <2>1. Emits
    BY <1>4, Zenon DEF additional_stragety, Emits, Remaining, Without
  <2>2. /\ Len(sorted_list) \in Nat /\ Len(cg_test_cases) \in Nat \ {0} /\ Len(names) =< MaxTests
        /\ Len(sorted_list) + Len(cg_test_cases) = Len(names) /\ Len(names) \in Nat
    BY <1>4 DEF CGTypes, Balance, additional_stragety
  <2>3. MaxTests \in Nat
    BY Zenon DEF CGAssumption
  <2>4. Len(sorted_list) < MaxTests
    BY <2>2, <2>3
  <2> QED
    BY <2>1, <2>4, OrderEmits, Zenon
<1>5. CASE APFD
  BY <1>2, <1>5, Zenon DEF APFD, cg_input
<1>6. CASE UNCHANGED cg_vars
  BY <1>2, <1>6, Zenon DEF cg_vars
<1> QED
  BY <1>1, <1>3, <1>4, <1>5, <1>6, Zenon DEF CgNext

\* At no position does the additional strategy emit a test when one that it
\* emits later would have added more methods.
THEOREM AdditionalIsGreedy ==
  ASSUME CGAssumption
  PROVE  CgSpec => []NothingLaterAddsMore
<1>1. CGInv => CoversLists
  BY CoveredUpToIs, Zenon DEF CGInv
<1>2. CgInit => Order
  <2> SUFFICES ASSUME CgInit PROVE Order
    BY Zenon
  <2>1. CGInv
    BY CGStarts, Zenon
  <2> QED
    BY <1>1, <2>1, OrderStarts, Zenon DEF CGInv
<1>3. CGInv /\ CGInv' /\ CoversLists /\ CoversLists' /\ Order /\ [CgNext]_cg_vars => Order'
  BY OrderStep, Zenon
<1>4. CGInv /\ Order => NothingLaterAddsMore
  <2> SUFFICES ASSUME CGInv, Order PROVE NothingLaterAddsMore
    BY Zenon
  <2>1. DOMAIN sorted_list = 1 .. Len(sorted_list)
    BY DEF CGInv, CGTypes
  <2> QED
    BY <2>1, Zenon DEF Order, NothingLaterAddsMore
<1>5. CgSpec => []CGInv
  BY CGInvariant, Zenon
<1> QED
  BY <1>1, <1>2, <1>3, <1>4, <1>5, PTL DEF CgSpec

-----------------------------------------------------------------------------
(* The APFD value *)

\* The numbers of elements of two intervals.
LEMMA Intervals ==
  ASSUME NEW n \in Nat
  PROVE  /\ IsFiniteSet(1 .. n) /\ Cardinality(1 .. n) = n
         /\ IsFiniteSet(0 .. n - 1) /\ Cardinality(0 .. n - 1) = n
<1>1. IsFiniteSet(1 .. n) /\ Cardinality(1 .. n) = n
  BY FS_Interval
<1>2. IsFiniteSet(0 .. n - 1) /\ Cardinality(0 .. n - 1) = n
  BY FS_Interval
<1> QED
  BY <1>1, <1>2, Zenon

\* A sum s of c of the numbers 1 to n is least when they are the first ones
\* and greatest when they are the last ones.
Bounds(c, s, n) ==
  /\ c \in Nat /\ s \in Nat /\ c =< n
  /\ c * c + c =< 2 * s
  /\ 2 * s + c * c =< 2 * (c * n) + c

\* The next number may be left out or added.
LEMMA BoundsNext ==
  ASSUME NEW c, NEW s, NEW n \in Nat, Bounds(c, s, n)
  PROVE  Bounds(c, s, n + 1) /\ Bounds(c + 1, s + (n + 1), n + 1)
<1>1. c \in Nat /\ s \in Nat /\ c =< n
  BY Zenon DEF Bounds
<1>2. PICK cc \in Nat : cc = c * c
  BY <1>1
<1>3. PICK cn \in Nat : cn = c * n
  BY <1>1
<1>4. cc + c =< 2 * s /\ 2 * s + cc =< 2 * cn + c
  BY <1>2, <1>3, Zenon DEF Bounds
<1>5. c * (n + 1) = cn + c
  BY <1>1, <1>3
<1>6. (c + 1) * (c + 1) = cc + 2 * c + 1
  BY <1>1, <1>2
<1>7. (c + 1) * (n + 1) = cn + c + n + 1
  BY <1>1, <1>3
<1>8. Bounds(c, s, n + 1)
  <2>1. 2 * s + cc =< 2 * (cn + c) + c
    BY <1>1, <1>2, <1>3, <1>4
  <2>2. c =< n + 1
    BY <1>1
  <2> QED
    BY <1>1, <1>2, <1>4, <1>5, <2>1, <2>2 DEF Bounds
<1>9. Bounds(c + 1, s + (n + 1), n + 1)
  <2>1. (cc + 2 * c + 1) + (c + 1) =< 2 * (s + (n + 1))
    BY <1>1, <1>2, <1>3, <1>4
  <2>2. 2 * (s + (n + 1)) + (cc + 2 * c + 1) =< 2 * (cn + c + n + 1) + (c + 1)
    BY <1>1, <1>2, <1>3, <1>4
  <2>3. c + 1 \in Nat /\ s + (n + 1) \in Nat /\ c + 1 =< n + 1
    BY <1>1
  <2> QED
    BY <1>6, <1>7, <2>1, <2>2, <2>3, Zenon DEF Bounds
<1> QED
  BY <1>8, <1>9, Zenon

\* The numbers that are added, and their sum.
Added(w, m) == {i \in 1 .. m : w[i] # 0}
SumUpTo(w, m) == SumFunctionOnSet(w, 1 .. m)

\* Numbers w[i] that are i or 0 sum up to a sum of as many of the numbers from
\* 1 to n as are not 0.
LEMMA PositionsSum ==
  ASSUME NEW n \in Nat, NEW w \in [1 .. n -> Nat], \A i \in 1 .. n : w[i] \in {0, i}
  PROVE  Bounds(Cardinality(Added(w, n)), SumUpTo(w, n), n)
<1> DEFINE c(m) == Cardinality(Added(w, m))
           T == {m \in Nat : m =< n => Bounds(c(m), SumUpTo(w, m), m)}
<1>1. 0 \in T
  <2>1. Added(w, 0) = {}
    BY DEF Added
  <2>2. c(0) = 0
    BY <2>1, FS_EmptySet, Zenon
  <2>3. 1 .. 0 = {}
    OBVIOUS
  <2>4. SumUpTo(w, 0) = 0
    BY <2>3, SumEmpty, Zenon DEF SumUpTo
  <2>5. Bounds(0, 0, 0)
    BY DEF Bounds
  <2> QED
    BY <2>2, <2>4, <2>5, Zenon
<1>2. ASSUME NEW m \in Nat, m \in T PROVE m + 1 \in T
  <2> SUFFICES ASSUME m + 1 =< n PROVE Bounds(c(m + 1), SumUpTo(w, m + 1), m + 1)
    OBVIOUS
  <2>1. Bounds(c(m), SumUpTo(w, m), m)
    BY <1>2
  <2>2. PICK k \in 1 .. n : /\ k = m + 1 /\ 1 .. k = (1 .. m) \cup {k} /\ k \notin 1 .. m
    OBVIOUS
  <2>3. SumUpTo(w, k) = SumUpTo(w, m) + w[k]
    <3> DEFINE I == 1 .. m
    <3>1. IsFiniteSet(I)
      BY Intervals, Zenon
    <3>2. k \notin I /\ \A i \in I \cup {k} : w[i] \in Nat
      BY <2>2
    <3>3. 1 .. k = I \cup {k}
      BY <2>2, Zenon
    <3> HIDE DEF I
    <3>4. SumFunctionOnSet(w, I \cup {k}) = SumFunctionOnSet(w, I) + w[k]
      BY <3>1, <3>2, SumAdd, Zenon
    <3> QED
      BY <3>3, <3>4, Zenon DEF I, SumUpTo
  <2>4. IsFiniteSet(Added(w, m)) /\ k \notin Added(w, m)
    <3> DEFINE I == 1 .. m
    <3>1. IsFiniteSet(I) /\ Added(w, m) \in SUBSET I /\ k \notin I
      BY <2>2, Intervals, Zenon DEF Added
    <3> HIDE DEF I
    <3> QED
      BY <3>1, FS_Subset, Zenon
  <2>5. CASE w[k] = 0
    <3>1. Added(w, k) = Added(w, m)
      BY <2>2, <2>5, Zenon DEF Added
    <3>2. SumUpTo(w, k) = SumUpTo(w, m)
      BY <2>1, <2>3, <2>5 DEF Bounds
    <3>3. c(k) = c(m)
      BY <3>1, Zenon
    <3> HIDE DEF c
    <3> QED
      BY <2>1, <2>2, <3>2, <3>3, BoundsNext, Zenon
  <2>6. CASE w[k] = k
    <3>1. Added(w, k) = Added(w, m) \cup {k}
      BY <2>2, <2>6 DEF Added
    <3>2. c(k) = c(m) + 1
      BY <2>4, <3>1, FS_AddElement, Zenon
    <3>3. SumUpTo(w, k) = SumUpTo(w, m) + (m + 1)
      BY <2>2, <2>3, <2>6, Zenon
    <3> HIDE DEF c
    <3> QED
      BY <2>1, <2>2, <3>2, <3>3, BoundsNext
  <2> QED
    BY <2>2, <2>5, <2>6, Zenon
<1>3. \A m \in Nat : m \in T
  <2> HIDE DEF T
  <2> QED
    BY <1>1, <1>2, NatInduces, Zenon
<1> QED
  BY <1>3

\* Of different files, every position is emitted once.
LEMMA EmittedOnce ==
  ASSUME CGAssumption, CGInv, Measured, DistinctFiles
  PROVE  /\ Len(sorted_list) = Len(names)
         /\ \A i, j \in 1 .. Len(names) : sorted_list[i] = sorted_list[j] => i = j
         /\ \A p \in 1 .. Len(names) : \E i \in 1 .. Len(names) : sorted_list[i] + 1 = p
<1>1. PICK n \in Nat : n = Len(names)
  BY DEF CGInv, CGTypes
<1>2. /\ Len(sorted_list) = n /\ DOMAIN names = 1 .. n /\ DOMAIN sorted_list = 1 .. n
      /\ \A i \in 1 .. n : sorted_list[i] \in 0 .. n - 1 /\ sorted_list[i] + 1 \in 1 .. n
      /\ \A i \in 1 .. n : names[i] \in FilePath
      /\ sorted_list \in [1 .. n -> 0 .. n - 1]
  <2>1. Len(sorted_list) = n
    BY <1>1, Zenon DEF CGInv, Balance
  <2>2. names \in Seq(FilePath) /\ sorted_list \in Seq(0 .. n - 1)
    BY <1>1, Zenon DEF CGInv, CGTypes
  <2>3. names \in [1 .. n -> FilePath] /\ sorted_list \in [1 .. n -> 0 .. n - 1]
    BY <1>1, <2>1, <2>2
  <2>4. \A q \in 0 .. n - 1 : q + 1 \in 1 .. n
    OBVIOUS
  <2> QED
    BY <2>1, <2>3, <2>4, Zenon
<1>3. ASSUME NEW i \in 1 .. n, NEW j \in 1 .. n, sorted_list[i] = sorted_list[j], i # j
      PROVE  FALSE
  <2> DEFINE p == sorted_list[i] + 1
             f == names[p]
             D == {k \in DOMAIN names : names[k] = f}
             E == {k \in DOMAIN Files : Files[k] = f}
  <2>1. f \in FilePath /\ p \in 1 .. n
    BY <1>2, Zenon
  <2>2. Count(names, f) = Count(Files, f)
    BY <2>1, Zenon DEF CGInv, EveryFileAsListed, Files, File
  <2>3. D = {p}
    BY <1>2, <2>1, Zenon DEF DistinctFiles
  <2>4. Count(names, f) = 1
    BY <2>3, FS_Singleton, Zenon DEF Count
  <2>5. Files \in Seq(FilePath) /\ i \in E /\ j \in E
    <3>1. Files = [k \in 1 .. n |-> names[sorted_list[k] + 1]]
      BY <1>2, Zenon DEF Files, File
    <3>2. Files \in Seq(FilePath)
      BY FilesAre, Zenon DEF CGInv
    <3> QED
      BY <1>3, <3>1, <3>2, Zenon
  <2>6. IsFiniteSet(E)
    BY <2>5, CountType, Zenon
  <2>7. Cardinality(E) = 1
    BY <2>2, <2>4, Zenon DEF Count
  <2> HIDE DEF E
  <2>8. PICK x : E = {x}
    BY <2>6, <2>7, FS_Singleton, Zenon
  <2> QED
    BY <1>3, <2>5, <2>8
<1>4. \A i, j \in 1 .. n : sorted_list[i] = sorted_list[j] => i = j
  BY <1>3, Zenon
<1>5. \A q \in 0 .. n - 1 : \E i \in 1 .. n : sorted_list[i] = q
  <2> DEFINE S == 1 .. n
             R == 0 .. n - 1
  <2>1. IsFiniteSet(S) /\ IsFiniteSet(R) /\ Cardinality(S) = n /\ Cardinality(R) = n
    BY Intervals, Zenon
  <2>2. sorted_list \in [S -> R] /\ \A i, j \in S : sorted_list[i] = sorted_list[j] => i = j
    BY <1>2, <1>4, Zenon
  <2> HIDE DEF S, R
  <2>3. \A q \in R : \E i \in S : sorted_list[i] = q
    BY <2>1, <2>2, InjectiveIsOnto
  <2> QED
    BY <2>3, Zenon DEF S, R
<1>6. ASSUME NEW p \in 1 .. n PROVE \E i \in 1 .. n : sorted_list[i] + 1 = p
  <2>1. p - 1 \in 0 .. n - 1 /\ (p - 1) + 1 = p
    BY <1>1
  <2> QED
    BY <1>5, <2>1, Zenon
<1> QED
  BY <1>1, <1>2, <1>4, <1>6

\* Of different files, the faults are the failures.
LEMMA FaultsAreFails ==
  ASSUME CGAssumption, CGInv, DistinctFiles
  PROVE  /\ IsFiniteSet(fails) /\ FaultCount = Cardinality(fails)
         /\ FaultCount \in Nat /\ FaultCount =< Len(names)
         /\ \A p \in 1 .. Len(names) : (\E q \in fails : names[q] = names[p]) <=> p \in fails
<1> DEFINE n == Len(names)
           I == 1 .. n
           E == {pair \in fails \X DOMAIN names : names[pair[1]] = names[pair[2]]}
           g == [p \in fails |-> <<p, p>>]
<1>1. n \in Nat /\ DOMAIN names = I /\ fails \in SUBSET I
  BY DEF CGInv, CGTypes
<1>2. IsFiniteSet(I) /\ Cardinality(I) = n
  BY <1>1, Intervals, Zenon
<1> HIDE DEF I
<1>3. IsFiniteSet(fails) /\ Cardinality(fails) =< n
  BY <1>1, <1>2, FS_Subset, Zenon
<1>4. Cardinality(fails) \in Nat
  BY <1>3, FS_CardinalityType, Zenon
<1>5. \A p \in I : (\E q \in fails : names[q] = names[p]) <=> p \in fails
  BY <1>1, Zenon DEF DistinctFiles
<1>6. g \in [fails -> E]
  BY <1>1, Zenon
<1>7. \A p, q \in fails : g[p] = g[q] => p = q
  BY Zenon
<1>8. \A e \in E : \E p \in fails : g[p] = e
  <2> SUFFICES ASSUME NEW e \in E PROVE \E p \in fails : g[p] = e
    BY Zenon
  <2>1. e[1] \in fails /\ e[2] \in I /\ names[e[1]] = names[e[2]] /\ e = <<e[1], e[2]>>
    BY <1>1
  <2>2. e[1] = e[2]
    BY <1>1, <2>1, Zenon DEF DistinctFiles
  <2> QED
    BY <2>1, <2>2, Zenon
<1>9. Cardinality(E) = Cardinality(fails)
  <2> HIDE DEF E, g
  <2> QED
    BY <1>3, <1>6, <1>7, <1>8, PairedOff, Zenon
<1>10. FaultCount = Cardinality(fails)
  BY <1>9, Zenon DEF FaultCount
<1> QED
  BY <1>3, <1>4, <1>5, <1>10, Zenon DEF I

\* The arithmetic of the two bounds of the value.
LEMMA BoundsOfValue ==
  ASSUME NEW f \in Nat \ {0}, NEW n \in Nat, NEW s, Bounds(f, s, n)
  PROVE  LET a == 2 * f * n - 2 * s + f
             b == 2 * f * n
         IN  f * b =< 2 * n * a /\ 2 * n * a =< (2 * n - f) * b
<1>1. s \in Nat
  BY Zenon DEF Bounds
<1>2. PICK ff \in Nat : ff = f * f
  OBVIOUS
<1>3. PICK fn \in Nat : fn = f * n
  OBVIOUS
<1>4. ff + f =< 2 * s /\ 2 * s + ff =< 2 * fn + f
  BY <1>2, <1>3, Zenon DEF Bounds
<1>5. PICK a \in Int : a = 2 * fn - 2 * s + f
  BY <1>1
<1>6. ff =< a /\ a =< 2 * fn - ff
  BY <1>1, <1>2, <1>3, <1>4, <1>5
<1>7. 2 * f * n = 2 * fn
  BY <1>3
<1>8. f * (2 * fn) = (2 * n) * ff
  BY <1>2, <1>3
<1>9. (2 * n - f) * (2 * fn) = (2 * n) * (2 * fn - ff)
  BY <1>2, <1>3
<1>10. (2 * n) * ff =< (2 * n) * a /\ (2 * n) * a =< (2 * n) * (2 * fn - ff)
  <2>1. \A m \in Nat, x, y \in Int : x =< y => m * x =< m * y
    OBVIOUS
  <2> QED
    BY <1>2, <1>3, <1>5, <1>6, <2>1
<1> QED
  BY <1>5, <1>7, <1>8, <1>9, <1>10, Zenon

\* What APFD computes.
Total == SumFunction([i \in 1 .. Len(sorted_list) |-> Detected(i)])
Value == IF FaultCount = 0 \/ Len(sorted_list) = 0 THEN <<1, 2>>
         ELSE <<2 * FaultCount * Len(sorted_list) - 2 * Total + FaultCount,
                2 * FaultCount * Len(sorted_list)>>

\* The value is assigned once, from lists that stay.
LEMMA MeasuredOnce ==
  ASSUME cg_pc = "done" => apfd = Value, [CgNext]_cg_vars, cg_pc' = "done"
  PROVE  apfd' = Value'
<1>1. CASE APFD
  <2>1. UNCHANGED <<names, fails, sorted_list>> /\ apfd' = Value
    BY <1>1, Zenon DEF APFD, cg_input, Value, Total
  <2>2. FaultCount' = FaultCount
    BY <2>1, Zenon DEF FaultCount
  <2>3. Total' = Total
    BY <2>1, Zenon DEF Total, Detected, IsFault
  <2> QED
    BY <2>1, <2>2, <2>3, Zenon DEF Value
<1>2. CASE UNCHANGED cg_vars
  <2>1. UNCHANGED <<names, fails, sorted_list, apfd, cg_pc>>
    BY <1>2, Zenon DEF cg_vars
  <2>2. FaultCount' = FaultCount
    BY <2>1, Zenon DEF FaultCount
  <2>3. Total' = Total
    BY <2>1, Zenon DEF Total, Detected, IsFault
  <2> QED
    BY <2>1, <2>2, <2>3, Zenon DEF Value
<1>3. CASE total_stragety \/ additional_stragety
  BY <1>3, Zenon DEF total_stragety, additional_stragety
<1> QED
  BY <1>1, <1>2, <1>3, Zenon DEF CgNext

\* With n files and m faults, found at m different positions.
LEMMA ValueInRange ==
  ASSUME CGAssumption, CGInv, cg_pc = "done" => apfd = Value
  PROVE  ApfdInRange
<1> SUFFICES ASSUME cg_pc = "done", DistinctFiles, apfd = Value
             PROVE  /\ Cardinality(fails) * apfd[2] =< 2 * Len(names) * apfd[1]
                    /\ 2 * Len(names) * apfd[1] =< (2 * Len(names) - Cardinality(fails)) * apfd[2]
  BY Zenon DEF ApfdInRange
<1>1. PICK n \in Nat : n = Len(names)
  BY DEF CGInv, CGTypes
<1>2. /\ Len(sorted_list) = n
      /\ \A i, j \in 1 .. n : sorted_list[i] = sorted_list[j] => i = j
      /\ \A p \in 1 .. n : \E i \in 1 .. n : sorted_list[i] + 1 = p
  BY <1>1, EmittedOnce, Zenon DEF Measured
<1>3. PICK f \in Nat : f = Cardinality(fails) /\ f =< n
  BY <1>1, FaultsAreFails, Zenon
<1>4. /\ IsFiniteSet(fails) /\ FaultCount = f /\ fails \subseteq 1 .. n
      /\ \A p \in 1 .. n : (\E q \in fails : names[q] = names[p]) <=> p \in fails
  BY <1>1, <1>3, FaultsAreFails, Zenon DEF CGInv, CGTypes
<1>5. \A i \in 1 .. n : sorted_list[i] + 1 \in 1 .. n
  BY <1>1, <1>2, FilesAre, Zenon DEF CGInv
<1> DEFINE w == [i \in 1 .. n |-> Detected(i)]
<1>6. \A i \in 1 .. n : w[i] = IF sorted_list[i] + 1 \in fails THEN i ELSE 0
  BY <1>4, <1>5, Zenon DEF Detected, IsFault
<1>7. w \in [1 .. n -> Nat] /\ \A i \in 1 .. n : w[i] \in {0, i}
  BY <1>6
<1>8. Total = SumUpTo(w, n)
  BY <1>2, Zenon DEF Total, SumUpTo, SumFunction
<1> HIDE DEF w
<1>9. Added(w, n) = {i \in 1 .. n : sorted_list[i] + 1 \in fails}
  BY <1>6 DEF Added
<1>10. IsFiniteSet(Added(w, n))
  <2> DEFINE I == 1 .. n
  <2>1. IsFiniteSet(I) /\ Added(w, n) \in SUBSET I
    BY Intervals, Zenon DEF Added
  <2> HIDE DEF I
  <2> QED
    BY <2>1, FS_Subset, Zenon
<1>11. PICK A : A = {i \in 1 .. n : sorted_list[i] + 1 \in fails}
  BY Zenon
<1>12. \A i \in 1 .. n : sorted_list[i] \in Int
  <2>1. sorted_list \in Seq(0 .. Len(names) - 1)
    BY Zenon DEF CGInv, CGTypes
  <2>2. \A i \in DOMAIN sorted_list : sorted_list[i] \in 0 .. Len(names) - 1
    BY <2>1
  <2>3. \A y \in 0 .. Len(names) - 1 : y \in Int
    OBVIOUS
  <2>4. \A i \in 1 .. n : i \in DOMAIN sorted_list
    BY <1>1, <1>2, <2>1
  <2> QED
    BY <2>2, <2>3, <2>4, Zenon
<1>13. Cardinality(Added(w, n)) = f
  <2> DEFINE at == [i \in A |-> sorted_list[i] + 1]
  <2>1. at \in [A -> fails]
    BY <1>11, Zenon
  <2>2. ASSUME NEW x \in fails PROVE \E i \in A : at[i] = x
    <3>1. PICK i \in 1 .. n : sorted_list[i] + 1 = x
      BY <1>2, <1>4, Zenon
    <3> QED
      BY <1>11, <3>1, Zenon
  <2>3. ASSUME NEW i \in A, NEW j \in A, at[i] = at[j] PROVE i = j
    <3>1. sorted_list[i] + 1 = sorted_list[j] + 1 /\ i \in 1 .. n /\ j \in 1 .. n
      BY <1>11, <2>3, Zenon
    <3>2. sorted_list[i] = sorted_list[j]
      BY <1>12, <3>1
    <3> QED
      BY <1>2, <3>1, <3>2, Zenon
  <2>4. A = Added(w, n) /\ IsFiniteSet(A)
    BY <1>9, <1>10, <1>11, Zenon
  <2> HIDE DEF at
  <2>5. Cardinality(fails) = Cardinality(A)
    BY <2>1, <2>2, <2>3, <2>4, PairedOff
  <2> QED
    BY <1>3, <2>4, <2>5, Zenon
<1>14. Bounds(f, Total, n)
  BY <1>7, <1>8, <1>13, PositionsSum, Zenon
<1>15. CASE f = 0
  <2>1. apfd = <<1, 2>>
    BY <1>4, <1>15, Zenon DEF Value
  <2> QED
    BY <1>1, <1>3, <1>15, <2>1
<1>16. CASE f # 0
  <2>1. f \in Nat \ {0} /\ n # 0
    BY <1>3, <1>16
  <2>2. apfd = <<2 * f * n - 2 * Total + f, 2 * f * n>>
    BY <1>2, <1>4, <2>1, Zenon DEF Value
  <2>3. /\ f * apfd[2] =< 2 * n * apfd[1]
        /\ 2 * n * apfd[1] =< (2 * n - f) * apfd[2]
    BY <1>14, <2>1, <2>2, BoundsOfValue
  <2> QED
    BY <1>1, <1>3, <2>3, Zenon
<1> QED
  BY <1>15, <1>16, Zenon

\* The APFD value of any list of different files and any set of failures lies
\* between those of the worst and the best order, f / 2n and 1 - f / 2n.
THEOREM ApfdIsAFraction ==
  ASSUME CGAssumption
  PROVE  CgSpec => []ApfdInRange
<1> DEFINE Done == cg_pc = "done" => apfd = Value
<1>1. CgInit => Done
  BY Zenon DEF CgInit
<1>2. Done /\ [CgNext]_cg_vars => Done'
  <2> SUFFICES ASSUME cg_pc = "done" => apfd = Value, [CgNext]_cg_vars, cg_pc' = "done" PROVE apfd' = Value'
    BY Zenon
  <2> QED
    BY MeasuredOnce, Zenon
<1>3. CGInv /\ Done => ApfdInRange
  BY ValueInRange, Zenon
<1>4. CgSpec => []CGInv
  BY CGInvariant, Zenon
<1> HIDE DEF Done
<1> QED
  BY <1>1, <1>2, <1>3, <1>4, PTL DEF CgSpec

-----------------------------------------------------------------------------
(* The contract of the approaches *)

\* The additional strategy on different files; otherwise the prioritiser is
\* given nothing.
Orderly == stragety = "additional" /\ DistinctFiles
Contract == INSTANCE Prioritizer WITH
  n <- IF Orderly THEN Len(names) ELSE 0,
  order <- IF Orderly THEN sorted_list ELSE << >>

\* The position emitted is a new one.
LEMMA EmitsNew ==
  ASSUME CGAssumption, CGInv, Emits, DistinctFiles
  PROVE  /\ test_idx_map(cg_test_cases[MaxTA]) \in 0 .. Len(names) - 1
         /\ \A i \in 1 .. Len(sorted_list) : sorted_list[i] # test_idx_map(cg_test_cases[MaxTA])
<1> DEFINE name == cg_test_cases[MaxTA]
           x == test_idx_map(name)
           D == {k \in DOMAIN names : names[k] = name}
<1>1. MaxTA \in 1 .. Len(cg_test_cases) /\ name \in Range(names) /\ name \in FilePath
  BY MaxTABest DEF Emits, CGInv, CGTypes, Range
<1>2. x \in 0 .. Len(names) - 1 /\ names[x + 1] = name
  BY <1>1, IndexHasName, Zenon DEF CGInv
<1>3. Count(names, name) = 1
  <2>1. x + 1 \in DOMAIN names
    BY <1>2 DEF CGInv, CGTypes
  <2>2. D = {x + 1}
    BY <1>2, <2>1, Zenon DEF DistinctFiles
  <2> QED
    BY <2>2, FS_Singleton, Zenon DEF Count
<1>4. Count(names, name) = Count(Files, name) + Count(cg_test_cases, name)
  BY <1>1, Zenon DEF CGInv, Balance, Emits
<1>5. Files \in Seq(FilePath) /\ cg_test_cases \in Seq(Range(names))
      /\ \A i \in 1 .. Len(sorted_list) : Files[i] = File(i) /\ Len(Files) = Len(sorted_list)
  BY FilesAre, Zenon DEF CGInv, CGTypes
<1>6. Count(cg_test_cases, name) \in Nat /\ Count(cg_test_cases, name) # 0
  BY <1>1, <1>5, CountType, Zenon
<1>7. /\ Count(Files, name) \in Nat
      /\ Count(Files, name) = 0 <=> \A i \in 1 .. Len(Files) : Files[i] # name
  BY <1>5, CountType, Zenon
<1>8. \A i \in 1 .. Len(Files) : Files[i] # name
  BY <1>3, <1>4, <1>6, <1>7
<1>9. ASSUME NEW i \in 1 .. Len(sorted_list), sorted_list[i] = x PROVE FALSE
  <2>1. Files[i] = name
    BY <1>2, <1>5, <1>9, Zenon DEF File
  <2> QED
    BY <1>5, <1>8, <2>1, Zenon
<1> QED
  BY <1>2, <1>9, Zenon

\* Every step of the additional strategy is a step of the prioritiser's
\* contract or none.
THEOREM AdditionalRefinesPrioritizer ==
  ASSUME CGAssumption
  PROVE  CgSpec => Contract!Init /\ [][Contract!Next]_Contract!vars
<1>1. CgInit => Contract!Init
  <2> SUFFICES ASSUME CgInit PROVE Contract!Init
    BY Zenon
  <2>1. CGInv
    BY CGStarts, Zenon
  <2>2. Len(names) \in Nat
    BY <2>1 DEF CGInv, CGTypes
  <2> QED
    BY <2>2, Zenon DEF Contract!Init, CgInit
<1>2. CGInv /\ [CgNext]_cg_vars => [Contract!Next]_Contract!vars
  <2> SUFFICES ASSUME CGInv, [CgNext]_cg_vars PROVE [Contract!Next]_Contract!vars
    BY Zenon
  <2>1. names' = names /\ stragety' = stragety
    BY Zenon DEF CgNext, total_stragety, additional_stragety, APFD, cg_vars, cg_input
  <2>2. Orderly' = Orderly
    BY <2>1, Zenon DEF Orderly, DistinctFiles
  <2>3. CASE ~ Orderly
    BY <2>2, <2>3, Zenon DEF Contract!vars
  <2>4. CASE Orderly /\ sorted_list' = sorted_list
    BY <2>1, <2>2, <2>4, Zenon DEF Contract!vars
  <2>5. CASE Orderly /\ additional_stragety /\ cg_test_cases # << >>
    <3> DEFINE x == test_idx_map(cg_test_cases[MaxTA])
    <3>1. Emits
      BY <2>5, Zenon DEF additional_stragety, Emits, Remaining, Without
    <3>2. x \in 0 .. Len(names) - 1 /\ \A i \in 1 .. Len(sorted_list) : sorted_list[i] # x
      BY <2>5, <3>1, EmitsNew, Zenon DEF Orderly
    <3>3. sorted_list' = Append(sorted_list, x)
      BY <3>1, Zenon DEF Emits
    <3>4. DOMAIN sorted_list = 1 .. Len(sorted_list)
      BY DEF CGInv, CGTypes
    <3> HIDE DEF x
    <3>5. x \in (0 .. Len(names) - 1) \ Contract!Emitted
      BY <2>5, <3>2, <3>4, Zenon DEF Contract!Emitted
    <3>6. Contract!Emit(x)
      BY <2>1, <2>2, <2>5, <3>3, <3>5, Zenon DEF Contract!Emit
    <3> QED
      BY <2>5, <3>2, <3>6, Zenon DEF Contract!Next
  <2>6. CASE Orderly /\ (total_stragety \/ APFD \/ UNCHANGED cg_vars
                         \/ (additional_stragety /\ cg_test_cases = << >>))
    BY <2>4, <2>6, Zenon DEF Orderly, total_stragety, APFD, cg_vars, additional_stragety
  <2> QED
    BY <2>3, <2>5, <2>6, Zenon DEF CgNext
<1>3. CgSpec => []CGInv
  BY CGInvariant, Zenon
<1> QED
  BY <1>1, <1>2, <1>3, PTL DEF CgSpec
=============================================================================
