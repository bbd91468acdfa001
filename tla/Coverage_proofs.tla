--------------------------- MODULE Coverage_proofs -------------------------
(***************************************************************************)
(* What repeated loads of load_coverage4checkout do to the coverage of a   *)
(* test, for any tests, contents of .info files and number of kills.       *)
(***************************************************************************)
EXTENDS CoverageStore, CollectCoverage, Lemmas

\* The inductive invariant: a cache that can be read is what the last load
\* had in memory.  After a kill the cache is torn, and nothing is loaded any
\* more.
IInv ==
  /\ raw \in [Test -> Coverage]
  /\ \A t \in Test : IsFiniteSet(raw[t].lines)
  /\ info \subseteq Test /\ IsFiniteSet(info)
  /\ loaded \in Seq(Test)
  /\ coverage_info \in [Range(loaded) -> Coverage]
  /\ \A t \in Range(loaded) : IsFiniteSet(coverage_info[t].lines)
  /\ cache \in {Torn, Whole(loaded, coverage_info)}

\* A torn cache is told from a whole one.
LEMMA CacheStates ==
  /\ Torn.torn = TRUE
  /\ \A names, cov : /\ Whole(names, cov).torn = FALSE
                     /\ Whole(names, cov).loaded = names
                     /\ Whole(names, cov).coverage_info = cov
  BY Zenon DEF Torn, Whole

\* glob lists files that are there.
LEMMA FoundInside ==
  ASSUME NEW S, IsFiniteSet(S), NEW found \in Listings(S)
  PROVE  found \in Seq(S) /\ Range(found) \subseteq S
<1>1. Cardinality(S) \in Nat
  BY FS_CardinalityType, Zenon
<1>2. found \in [1 .. Cardinality(S) -> S]
  BY Zenon DEF Listings, Bijection, Injection
<1>3. found \in Seq(S)
  BY <1>1, <1>2
<1> QED
  BY <1>2, <1>3, Zenon DEF Range

\* The names of the concatenation are those of its two parts.
LEMMA NamesOfBoth ==
  ASSUME NEW T, NEW a \in Seq(T), NEW b \in Seq(T)
  PROVE  Range(a \o b) = Range(a) \cup Range(b) /\ a \o b \in Seq(T)
<1>1. /\ a \o b \in Seq(T) /\ Len(a \o b) = Len(a) + Len(b)
      /\ DOMAIN a = 1 .. Len(a) /\ DOMAIN b = 1 .. Len(b)
      /\ DOMAIN (a \o b) = 1 .. Len(a) + Len(b)
      /\ Len(a) \in Nat /\ Len(b) \in Nat
      /\ \A i \in 1 .. Len(a) : (a \o b)[i] = a[i]
      /\ \A i \in 1 .. Len(b) : (a \o b)[Len(a) + i] = b[i]
  OBVIOUS
<1>2. Range(a) \subseteq Range(a \o b)
  BY <1>1 DEF Range
<1>3. Range(b) \subseteq Range(a \o b)
  <2>1. \A m, n \in Nat : \A i \in 1 .. n : m + i \in 1 .. m + n
    OBVIOUS
  <2>2. ASSUME NEW i \in 1 .. Len(b) PROVE b[i] \in Range(a \o b)
    <3>1. Len(a) + i \in DOMAIN (a \o b) /\ (a \o b)[Len(a) + i] = b[i]
      BY <1>1, <2>1, Zenon
    <3> QED
      BY <3>1, Zenon DEF Range
  <2> QED
    BY <1>1, <2>2, Zenon DEF Range
<1>4. ASSUME NEW i \in 1 .. Len(a) + Len(b)
      PROVE  (a \o b)[i] \in Range(a) \cup Range(b)
  <2>1. CASE i =< Len(a)
    BY <1>1, <2>1 DEF Range
  <2>2. CASE ~ (i =< Len(a))
    <3>1. i - Len(a) \in 1 .. Len(b) /\ Len(a) + (i - Len(a)) = i
      BY <1>1, <2>2
    <3> QED
      BY <1>1, <3>1, Zenon DEF Range
  <2> QED
    BY <2>1, <2>2, Zenon
<1>5. Range(a \o b) \subseteq Range(a) \cup Range(b)
  BY <1>1, <1>4, Zenon DEF Range
<1> QED
  BY <1>1, <1>2, <1>3, <1>5, Zenon

\* remove_common_coverage only takes lines away, and from no test the lines
\* that another test with a record of the file has not hit.
LEMMA RemovedIsCommon ==
  ASSUME NEW names \in Seq(Test), NEW cov \in [Range(names) -> Coverage]
  PROVE  /\ remove_common_coverage(names, cov) \in [Range(names) -> Coverage]
         /\ \A t \in Range(names) :
              remove_common_coverage(names, cov)[t].lines \subseteq cov[t].lines
         /\ \A s, t \in Range(names) : \A x \in cov[s].lines \ cov[t].lines :
              x[1] \in cov[t].files => x \in remove_common_coverage(names, cov)[s].lines
<1> DEFINE common == CommonCoverage(names, cov)
           left == remove_common_coverage(names, cov)
<1>1. \A s, t \in Range(names) : \A x \in cov[s].lines \ cov[t].lines :
        x[1] \in cov[t].files => x \notin common
  BY Zenon DEF CommonCoverage
<1>2. /\ DOMAIN left = Range(names)
      /\ \A t \in Range(names) : left[t] = [cov[t] EXCEPT !.lines = @ \ common]
  BY Zenon DEF remove_common_coverage
<1> HIDE DEF common, left
<1>3. ASSUME NEW t \in Range(names)
      PROVE  left[t] \in Coverage /\ left[t].lines = cov[t].lines \ common
  BY <1>2 DEF Coverage
<1>4. left = [t \in Range(names) |-> left[t]]
  BY Zenon DEF left, remove_common_coverage
<1>5. left \in [Range(names) -> Coverage]
  BY <1>3, <1>4, Zenon
<1>6. \A t \in Range(names) : left[t].lines \subseteq cov[t].lines
  BY <1>3, Zenon
<1>7. \A s, t \in Range(names) : \A x \in cov[s].lines \ cov[t].lines :
        x[1] \in cov[t].files => x \in left[s].lines
  BY <1>1, <1>3, Zenon
<1> QED
  BY <1>5, <1>6, <1>7, Zenon DEF left

\* What one load_coverage4checkout does: the tests loaded before stay and
\* their lines only shrink; a new test keeps what tells it from another new
\* one; the cache is what was loaded, or torn.
LEMMA LoadStep ==
  ASSUME IInv, load_coverage4checkout
  PROVE  /\ IInv'
         /\ \A t \in Range(loaded) : /\ t \in Range(loaded')
                                     /\ coverage_info'[t].lines \subseteq coverage_info[t].lines
         /\ \A s, t \in Range(loaded') \ Range(loaded) :
              \A x \in raw[s].lines \ raw[t].lines :
                x[1] \in raw[t].files => x \in coverage_info'[s].lines
<1>1. cache = Whole(loaded, coverage_info)
  BY CacheStates, Zenon DEF IInv, load_coverage4checkout, Unreadable
<1>2. cache.loaded = loaded /\ cache.coverage_info = coverage_info
  BY <1>1, CacheStates, Zenon
<1> DEFINE fresh == info \ Range(loaded)
<1>3. PICK found \in Listings(fresh) :
        LET new   == Range(found)
            names == loaded \o found
            read  == [t \in Range(names) |-> extract(coverage_info, new, t)]
            cov   == IF new = {} THEN read ELSE remove_common_coverage(names, read)
        IN  /\ loaded' = names
            /\ coverage_info' = cov
            /\ IF new = {} THEN pc' = "loaded" /\ UNCHANGED <<cache, kills>>
                           ELSE Save(names, cov)
  BY <1>2, Zenon DEF load_coverage4checkout
<1> DEFINE new   == Range(found)
           names == loaded \o found
           read  == [t \in Range(names) |-> extract(coverage_info, new, t)]
<1>4. found \in Seq(Test) /\ new \subseteq fresh /\ new \subseteq Test
  <2>1. IsFiniteSet(fresh) /\ fresh \subseteq Test
    BY FS_Difference, Zenon DEF IInv
  <2>2. found \in Seq(fresh) /\ Range(found) \subseteq fresh
    BY <2>1, FoundInside, Zenon
  <2> QED
    BY <2>1, <2>2
<1>5. names \in Seq(Test) /\ Range(names) = Range(loaded) \cup new
  BY <1>4, NamesOfBoth DEF IInv
<1>6. /\ \A t \in Range(loaded) : read[t] = coverage_info[t]
      /\ \A t \in new : read[t] = raw[t]
  BY <1>4, <1>5, Zenon DEF extract
<1>7. read \in [Range(names) -> Coverage]
  BY <1>4, <1>5, <1>6, Zenon DEF IInv, extract
<1>8. raw' = raw /\ info' = info
  BY Zenon DEF load_coverage4checkout
<1>9. CASE new = {}
  <2>1. Range(names) = Range(loaded) /\ loaded' = names /\ coverage_info' = read /\ cache' = cache
    BY <1>3, <1>5, <1>9, Zenon
  <2>2. read = coverage_info
    BY <1>6, <1>7, <2>1, Zenon DEF IInv
  <2>3. found = << >>
    BY <1>4, <1>9 DEF Range
  <2>4. loaded' = loaded
    BY <2>1, <2>3 DEF IInv
  <2> QED
    BY <1>8, <2>1, <2>2, <2>4, Zenon DEF IInv
<1>10. CASE new # {}
  <2>1. /\ loaded' = names /\ coverage_info' = remove_common_coverage(names, read)
        /\ Save(names, remove_common_coverage(names, read))
    BY <1>3, <1>10, Zenon
  <2>2. cache' \in {Torn, Whole(loaded', coverage_info')}
    BY <2>1, Zenon DEF Save
  <2> HIDE DEF read
  <2>3. /\ coverage_info' \in [Range(names) -> Coverage]
        /\ \A t \in Range(names) : coverage_info'[t].lines \subseteq read[t].lines
        /\ \A s, t \in Range(names) : \A x \in read[s].lines \ read[t].lines :
             x[1] \in read[t].files => x \in coverage_info'[s].lines
    BY <1>5, <1>7, <2>1, RemovedIsCommon, Zenon
  <2> HIDE DEF names, new
  <2>4. ASSUME NEW t \in Range(names) PROVE IsFiniteSet(coverage_info'[t].lines)
    <3>1. IsFiniteSet(read[t].lines)
      BY <1>4, <1>5, <1>6, Zenon DEF IInv
    <3>2. coverage_info'[t].lines \in SUBSET read[t].lines
      BY <2>3, Zenon
    <3> QED
      BY <3>1, <3>2, FS_Subset, Zenon
  <2>5. IInv'
    BY <1>5, <1>8, <2>1, <2>2, <2>3, <2>4, Zenon DEF IInv
  <2> QED
    BY <1>5, <1>6, <2>1, <2>3, <2>5, Zenon
<1> QED
  BY <1>9, <1>10, Zenon

\* The other steps leave what was loaded and the cache alone.
LEMMA OtherSteps ==
  ASSUME IInv, [Next]_vars, ~ load_coverage4checkout
  PROVE  IInv' /\ loaded' = loaded /\ coverage_info' = coverage_info
<1>1. /\ loaded' = loaded /\ coverage_info' = coverage_info /\ cache' = cache /\ raw' = raw
      /\ info' = info \/ \E t \in Test : info' = info \cup {t}
  BY Zenon DEF Next, vars, ParseInfo, LoadRaises, StartAgain, total_cov_generator,
         additional_cov_generator
<1>2. info' \subseteq Test /\ IsFiniteSet(info')
  <2>1. info \subseteq Test /\ IsFiniteSet(info)
    BY Zenon DEF IInv
  <2>2. ASSUME NEW t \in Test, info' = info \cup {t}
        PROVE  info' \subseteq Test /\ IsFiniteSet(info')
    <3>1. IsFiniteSet(info \cup {t})
      BY <2>1, FS_AddElement, Zenon
    <3> QED
      BY <2>1, <2>2, <3>1, Zenon
  <2> QED
    BY <1>1, <2>1, <2>2, Zenon
<1> QED
  BY <1>1, <1>2, Zenon DEF IInv

\* IInv is inductive.
LEMMA Inductive == (Init => IInv) /\ (IInv /\ [Next]_vars => IInv')
<1>1. ASSUME Init PROVE IInv
  <2>1. raw \in [Test -> Coverage] /\ (\A t \in Test : IsFiniteSet(raw[t].lines)) /\ loaded = << >> /\ coverage_info = << >> /\ info = {}
    BY <1>1, RawsAssumption, Zenon DEF Init
  <2>2. coverage_info \in [Range(loaded) -> Coverage] /\ Range(loaded) = {}
    BY <2>1 DEF Range
  <2> QED
    BY <1>1, <2>1, <2>2, FS_EmptySet DEF Init, IInv, NoCache
<1> QED
  BY <1>1, LoadStep, OtherSteps, Zenon

\* load_coverage4checkout never brings a removed line back and never loses a
\* test, whatever .info files appear in between and wherever it is killed.
THEOREM LinesNeverReturn == Spec => CoverageOnlyShrinks
<1>1. IInv /\ [Next]_vars =>
        [\A t \in Range(loaded) : /\ t \in Range(loaded')
                                  /\ coverage_info'[t].lines \subseteq coverage_info[t].lines]_vars
  BY LoadStep, OtherSteps, Zenon
<1> QED
  BY <1>1, Inductive, PTL DEF Spec, CoverageOnlyShrinks

\* Tests that are loaded together stay different where their .info files
\* differ: remove_common_coverage takes away only what they share.
THEOREM DifferencesSurvive == Spec => DifferencesKept
<1>1. IInv /\ [Next]_vars =>
        [\A s, t \in Range(loaded') \ Range(loaded) :
           \A x \in raw[s].lines \ raw[t].lines :
             x[1] \in raw[t].files => x \in coverage_info'[s].lines]_vars
  BY LoadStep, OtherSteps, Zenon
<1> QED
  BY <1>1, Inductive, PTL DEF Spec, DifferencesKept

-----------------------------------------------------------------------------
\* The greedy loop: base_cov is what the emitted tests cover; what the last
\* of them added is no less than what a candidate would have added in its
\* place; and total_list begins with a test that has the most lines.
Gain(t, i) == Cardinality(coverage_info[t].lines \ CoveredBy(i))

Increment(i) == Cardinality(CoveredBy(i)) - Cardinality(CoveredBy(i - 1))

GreedyShape ==
  /\ candidate \in Seq(Range(loaded)) /\ file_list \in Seq(Range(loaded))
  /\ \A i \in 0 .. Len(file_list) : IsFiniteSet(CoveredBy(i))
  /\ base_cov = CoveredBy(Len(file_list))
  /\ pc = "loaded" => file_list = << >>
  /\ file_list = << >> => candidate = loaded

LastWasBest ==
  file_list # << >> =>
    \A j \in 1 .. Len(candidate) :
      Gain(candidate[j], Len(file_list) - 1) =< Increment(Len(file_list))

FirstHasMost ==
  pc = "greedy" /\ loaded # << >> =>
    /\ total_list[1] \in Range(loaded)
    /\ \A t \in Range(loaded) : Hits(t) =< Hits(total_list[1])

GreedyInv == GreedyShape /\ LastWasBest /\ FirstHasMost /\ IncrementsDescend

\* What a union adds to a set.
LEMMA Added ==
  ASSUME NEW A, NEW B, IsFiniteSet(A), IsFiniteSet(B)
  PROVE  /\ IsFiniteSet(A \cup B) /\ IsFiniteSet(B \ A)
         /\ Cardinality(A) \in Nat /\ Cardinality(A \cup B) \in Nat /\ Cardinality(B \ A) \in Nat
         /\ Cardinality(A \cup B) - Cardinality(A) = Cardinality(B \ A)
<1>1. IsFiniteSet(B \ A) /\ IsFiniteSet(A \cup B)
  BY FS_Difference, FS_Union, Zenon
<1>2. A \cup (B \ A) = A \cup B /\ A \cap (B \ A) = {}
  BY Zenon
<1>3. Cardinality(A \cup B) = Cardinality(A) + Cardinality(B \ A) - Cardinality({})
  BY <1>1, <1>2, FS_Union
<1>4. Cardinality(A) \in Nat /\ Cardinality(B \ A) \in Nat /\ Cardinality({}) = 0
      /\ Cardinality(A \cup B) \in Nat
  BY <1>1, FS_CardinalityType, FS_EmptySet, Zenon
<1> QED
  BY <1>1, <1>3, <1>4

\* total_cov_generator: the first of the order has the most lines.
LEMMA TotalStep ==
  ASSUME IInv, GreedyShape, total_cov_generator
  PROVE  FirstHasMost'
<1> DEFINE n == Len(loaded)
           before(i) == {j \in 1 .. n : \/ Hits(loaded[j]) > Hits(loaded[i])
                                        \/ Hits(loaded[j]) = Hits(loaded[i]) /\ j =< i}
           rank(i) == Cardinality(before(i))
           first == CHOOSE i \in 1 .. n : rank(i) = 1
<1>1. SUFFICES ASSUME loaded # << >>
               PROVE  /\ total_list'[1] \in Range(loaded)
                      /\ \A t \in Range(loaded) : Hits(t) =< Hits(total_list'[1])
  BY Zenon DEF FirstHasMost, total_cov_generator, Hits
<1>2. /\ loaded \in Seq(Test) /\ n \in Nat \ {0} /\ DOMAIN loaded = 1 .. n /\ 1 \in 1 .. n
      /\ \A i \in 1 .. n : loaded[i] \in Range(loaded)
  BY <1>1 DEF IInv, Range
<1>3. \A t \in Range(loaded) : Hits(t) \in Nat
  BY FS_CardinalityType, Zenon DEF IInv, Hits
<1>4. total_list' = [r \in 1 .. n |-> loaded[CHOOSE i \in 1 .. n : rank(i) = r]]
  BY Zenon DEF total_cov_generator
<1>5. total_list'[1] = loaded[first]
  BY <1>2, <1>4, Zenon
<1>6. \E i \in 1 .. n : rank(i) = 1
  <2> DEFINE f == [i \in 1 .. n |-> Hits(loaded[i])]
  <2>1. f \in [1 .. n -> Nat]
    BY <1>2, <1>3, Zenon
  <2> HIDE DEF f
  <2>2. \E i \in 1 .. n : \A j \in 1 .. n : f[j] =< f[i]
    BY <1>2, <2>1, ListMaximum, Zenon
  <2> DEFINE top == {i \in 1 .. n : \A j \in 1 .. n : f[j] =< f[i]}
  <2>3. PICK x \in top : \A y \in top : x =< y
    <3>1. top \subseteq Nat /\ top # {}
      BY <2>2
    <3> HIDE DEF top
    <3> QED
      BY <3>1, Least, Zenon
  <2>4. x \in 1 .. n /\ f[x] \in Nat /\ \A j \in 1 .. n : f[j] \in Nat /\ f[j] =< f[x]
    BY <2>1, <2>3, Zenon
  <2>5. ASSUME NEW j \in 1 .. n, f[j] = f[x] PROVE x =< j
    BY <2>3, <2>4, <2>5, Zenon
  <2>6. \A j \in 1 .. n : Hits(loaded[j]) = f[j]
    BY Zenon DEF f
  <2>7. before(x) = {x}
    BY <1>2, <2>4, <2>5, <2>6
  <2> QED
    BY <2>4, <2>7, FS_Singleton, Zenon
<1>7. first \in 1 .. n /\ rank(first) = 1
  BY <1>6, Zenon
<1> HIDE DEF first
<1>8. before(first) = {first}
  <2>1. first \in before(first)
    BY <1>2, <1>7
  <2>2. IsFiniteSet(before(first))
    <3>1. IsFiniteSet(1 .. n)
      BY <1>2, FS_Interval
    <3>2. before(first) \in SUBSET (1 .. n)
      BY Zenon
    <3> HIDE DEF before
    <3> QED
      BY <3>1, <3>2, FS_Subset, Zenon
  <2>3. PICK x : before(first) = {x}
    BY <1>7, <2>2, FS_Singleton, Zenon
  <2> QED
    BY <2>1, <2>3, Zenon
<1>9. ASSUME NEW t \in Range(loaded) PROVE Hits(t) =< Hits(loaded[first])
  <2>1. PICK j \in 1 .. n : t = loaded[j]
    BY <1>2, Zenon DEF Range
  <2>2. ~ (Hits(t) > Hits(loaded[first]))
    <3>1. ASSUME Hits(t) > Hits(loaded[first]) PROVE FALSE
      <4>1. j = first
        BY <1>8, <2>1, <3>1, Zenon
      <4>2. Hits(t) \in Nat
        BY <1>3, Zenon
      <4> QED
        BY <2>1, <3>1, <4>1, <4>2
    <3> QED
      BY <3>1, Zenon
  <2>3. Hits(t) \in Nat /\ Hits(loaded[first]) \in Nat
    BY <1>2, <1>3, <1>7, Zenon
  <2> QED
    BY <2>2, <2>3
<1> QED
  BY <1>2, <1>5, <1>7, <1>9, Zenon

\* MaxCovIdx is the position of a candidate that adds the most.
LEMMA PickedIsBest ==
  ASSUME IInv, GreedyShape, candidate # << >>
  PROVE  /\ MaxCovIdx \in 1 .. Len(candidate)
         /\ \A j \in 1 .. Len(candidate) :
              get_additional_cov(base_cov, candidate[j])
                =< get_additional_cov(base_cov, candidate[MaxCovIdx])
<1> DEFINE n == Len(candidate)
           f == [i \in 1 .. n |-> get_additional_cov(base_cov, candidate[i])]
           best == {i \in DOMAIN candidate :
                      \A j \in DOMAIN candidate :
                        get_additional_cov(base_cov, candidate[j])
                          =< get_additional_cov(base_cov, candidate[i])}
<1>1. /\ n \in Nat \ {0} /\ DOMAIN candidate = 1 .. n
      /\ \A i \in 1 .. n : candidate[i] \in Range(loaded)
  BY DEF GreedyShape
<1>2. ASSUME NEW i \in 1 .. n PROVE get_additional_cov(base_cov, candidate[i]) \in Nat
  <2>1. IsFiniteSet(coverage_info[candidate[i]].lines)
    BY <1>1, Zenon DEF IInv
  <2>2. IsFiniteSet(coverage_info[candidate[i]].lines \ base_cov)
    BY <2>1, FS_Difference, Zenon
  <2> QED
    BY <2>2, FS_CardinalityType, Zenon DEF get_additional_cov
<1>3. PICK i \in 1 .. n : \A j \in 1 .. n : f[j] =< f[i]
  <2>1. f \in [1 .. n -> Nat]
    BY <1>2, Zenon
  <2> HIDE DEF f
  <2> QED
    BY <1>1, <2>1, ListMaximum, Zenon
<1>4. i \in best
  BY <1>1, <1>3, Zenon
<1>5. \E x \in best : \A y \in best : x =< y
  <2>1. best \subseteq Nat /\ best # {}
    BY <1>1, <1>4
  <2> HIDE DEF best
  <2> QED
    BY <2>1, Least, Zenon
<1>6. MaxCovIdx = Min(best)
  BY Zenon DEF MaxCovIdx
<1>7. MaxCovIdx \in best
  <2> HIDE DEF best
  <2> QED
    BY <1>5, <1>6, Zenon DEF Min
<1> QED
  BY <1>1, <1>7, Zenon

\* What a list keeps when one of its elements is taken out.
LEMMA PoppedInside ==
  ASSUME NEW S, candidate \in Seq(S), NEW i \in 1 .. Len(candidate)
  PROVE  Popped(i) \in Seq(S)
<1>1. i \in Nat /\ i =< Len(candidate) /\ Len(candidate) \in Nat
  OBVIOUS
<1>2. SubSeq(candidate, 1, i - 1) \in Seq(S) /\ SubSeq(candidate, i + 1, Len(candidate)) \in Seq(S)
  BY <1>1
<1> QED
  BY <1>2 DEF Popped

\* What the emitted tests cover after one more.
LEMMA CoveredNext ==
  ASSUME GreedyShape, NEW t, file_list' = Append(file_list, t), coverage_info' = coverage_info,
         NEW n \in Nat, n = Len(file_list)
  PROVE  /\ \A i \in 0 .. n : CoveredBy(i)' = CoveredBy(i)
         /\ CoveredBy(n + 1)' = CoveredBy(n) \cup coverage_info[t].lines
<1>1. /\ n \in Nat
      /\ \A j \in 1 .. n : file_list'[j] = file_list[j]
      /\ file_list'[n + 1] = t
  BY DEF GreedyShape
<1>2. ASSUME NEW i \in 0 .. n PROVE CoveredBy(i)' = CoveredBy(i)
  <2>1. \A j \in 1 .. i : file_list'[j] = file_list[j]
    BY <1>1
  <2>2. {coverage_info[file_list'[j]].lines : j \in 1 .. i}
          = {coverage_info[file_list[j]].lines : j \in 1 .. i}
    BY <2>1, Zenon
  <2> QED
    BY <2>2, Zenon DEF CoveredBy
<1>3. CoveredBy(n + 1)' = CoveredBy(n) \cup coverage_info[t].lines
  <2>1. 1 .. n + 1 = (1 .. n) \cup {n + 1}
    BY <1>1
  <2>2. {coverage_info[file_list'[j]].lines : j \in 1 .. n + 1}
          = {coverage_info[file_list[j]].lines : j \in 1 .. n} \cup {coverage_info[t].lines}
    BY <1>1, <2>1
  <2> QED
    BY <2>2 DEF CoveredBy
<1> QED
  BY <1>2, <1>3, Zenon

\* A round of the greedy loop.
LEMMA GreedyStep ==
  ASSUME IInv, GreedyInv, additional_cov_generator, candidate # << >>
  PROVE  GreedyInv'
<1>1. PICK i \in 1 .. Len(candidate), t \in Range(loaded) :
        /\ i = MaxCovIdx /\ t = candidate[i]
        /\ \A j \in 1 .. Len(candidate) :
             get_additional_cov(base_cov, candidate[j]) =< get_additional_cov(base_cov, t)
  BY PickedIsBest DEF GreedyInv, GreedyShape
<1>2. /\ pc = "greedy" /\ pc' = pc /\ loaded' = loaded /\ coverage_info' = coverage_info
      /\ total_list' = total_list /\ base_cov' = base_cov \cup coverage_info[t].lines
      /\ file_list' = Append(file_list, t) /\ candidate' = Popped(i)
  BY <1>1, Zenon DEF additional_cov_generator, combine_cov
<1>3. PICK n \in Nat : n = Len(file_list)
  BY DEF GreedyInv, GreedyShape
<1>4. /\ file_list' \in Seq(Range(loaded)) /\ Len(file_list') = n + 1 /\ file_list' # << >>
      /\ \A j \in 1 .. n : file_list'[j] = file_list[j]
      /\ file_list'[n + 1] = t
  BY <1>2, <1>3 DEF GreedyInv, GreedyShape
<1>5. /\ \A k \in 0 .. n : CoveredBy(k)' = CoveredBy(k)
      /\ CoveredBy(n + 1)' = CoveredBy(n) \cup coverage_info[t].lines
      /\ base_cov = CoveredBy(n)
      /\ \A k \in 0 .. n : IsFiniteSet(CoveredBy(k))
      /\ IsFiniteSet(CoveredBy(n)) /\ CoveredBy(n)' = CoveredBy(n)
  <2>1. n \in 0 .. n
    BY <1>3
  <2> QED
    BY <1>2, <1>3, <2>1, CoveredNext, Zenon DEF GreedyInv, GreedyShape
<1>6. IsFiniteSet(coverage_info[t].lines)
  BY Zenon DEF IInv
<1>7. /\ IsFiniteSet(CoveredBy(n + 1)')
      /\ Cardinality(CoveredBy(n)) \in Nat /\ Cardinality(CoveredBy(n + 1)') \in Nat
      /\ Cardinality(CoveredBy(n + 1)') - Cardinality(CoveredBy(n)) = Gain(t, n)
      /\ Gain(t, n) \in Nat
  <2> DEFINE A == CoveredBy(n)
             B == coverage_info[t].lines
  <2>1. IsFiniteSet(A) /\ IsFiniteSet(B) /\ CoveredBy(n + 1)' = A \cup B
    BY <1>5, <1>6, Zenon
  <2>2. Gain(t, n) = Cardinality(B \ A)
    BY Zenon DEF Gain
  <2> HIDE DEF A, B
  <2>3. /\ IsFiniteSet(A \cup B)
        /\ Cardinality(A) \in Nat /\ Cardinality(A \cup B) \in Nat /\ Cardinality(B \ A) \in Nat
        /\ Cardinality(A \cup B) - Cardinality(A) = Cardinality(B \ A)
    BY <2>1, Added, Zenon
  <2> QED
    BY <2>1, <2>2, <2>3, Zenon DEF A
<1>8. \A k \in 0 .. n + 1 : IsFiniteSet(CoveredBy(k)')
  <2>1. \A k \in 0 .. n + 1 : k \in 0 .. n \/ k = n + 1
    BY <1>3
  <2> QED
    BY <1>5, <1>7, <2>1, Zenon
<1>9. candidate' \in Seq(Range(loaded))
  BY <1>2, PoppedInside, Zenon DEF GreedyInv, GreedyShape
<1>10. GreedyShape'
  <2>1. base_cov' = CoveredBy(n + 1)'
    BY <1>2, <1>5, Zenon
  <2>2. \A k \in 0 .. Len(file_list') : IsFiniteSet(CoveredBy(k)')
    BY <1>4, <1>8, Zenon
  <2>3. base_cov' = CoveredBy(Len(file_list))'
    BY <1>4, <2>1, Zenon
  <2> QED
    BY <1>2, <1>4, <1>9, <2>2, <2>3, Zenon DEF GreedyShape
<1>11. LastWasBest'
  <2> DEFINE S == {c \in Range(loaded) : Gain(c, n) =< Gain(t, n)}
  <2>1. candidate \in Seq(S)
    <3>1. candidate \in Seq(Range(loaded))
      BY Zenon DEF GreedyInv, GreedyShape
    <3>2. \A c : get_additional_cov(base_cov, c) = Gain(c, n)
      BY <1>5, Zenon DEF Gain, get_additional_cov
    <3>3. \A j \in 1 .. Len(candidate) : candidate[j] \in S
      BY <1>1, <3>1, <3>2
    <3> HIDE DEF S
    <3> QED
      BY <3>1, <3>3
  <2>2. candidate' \in Seq(S)
    <3> HIDE DEF S
    <3> QED
      BY <1>2, <2>1, PoppedInside, Zenon
  <2>3. ASSUME NEW j \in 1 .. Len(candidate')
        PROVE  Gain(candidate'[j], n) =< Gain(t, n)
    BY <2>2
  <2>4. ASSUME NEW c PROVE Gain(c, n)' = Gain(c, n)
    BY <1>2, <1>5, <2>4, Zenon DEF Gain
  <2>5. Increment(n + 1)' = Gain(t, n)
    <3>1. n \in 0 .. n /\ (n + 1) - 1 = n
      BY <1>3
    <3> QED
      BY <1>5, <1>7, <3>1, Zenon DEF Increment
  <2>6. \A j \in 1 .. Len(candidate') : Gain(candidate[j], n)' =< Increment(n + 1)'
    BY <2>3, <2>4, <2>5, Zenon
  <2>7. Len(file_list') - 1 = n /\ Len(file_list') = n + 1
    BY <1>3, <1>4
  <2> QED
    BY <2>6, <2>7, Zenon DEF LastWasBest
<1>12. FirstHasMost'
  BY <1>2, Zenon DEF GreedyInv, FirstHasMost, Hits
<1>13. IncrementsDescend'
  <2>1. ASSUME NEW k \in 1 .. n
        PROVE  Cardinality(CoveredBy(k + 1)') - Cardinality(CoveredBy(k)')
                 =< Cardinality(CoveredBy(k)') - Cardinality(CoveredBy(k - 1)')
    <3>1. k \in 0 .. n /\ k - 1 \in 0 .. n /\ (k < n => k + 1 \in 0 .. n)
      BY <1>3
    <3>2. CASE k < n
      <4>1. k \in 1 .. Len(file_list) - 1
        BY <1>3, <3>2
      <4> QED
        BY <1>5, <3>1, <3>2, <4>1, Zenon DEF GreedyInv, IncrementsDescend
    <3>3. CASE k = n
      <4>1. file_list # << >> /\ Gain(t, n - 1) =< Increment(n)
        BY <1>1, <1>3, <3>3 DEF GreedyInv, GreedyShape, LastWasBest
      <4>2. /\ IsFiniteSet(coverage_info[t].lines \ CoveredBy(n - 1))
            /\ coverage_info[t].lines \ CoveredBy(n)
                 \in SUBSET (coverage_info[t].lines \ CoveredBy(n - 1))
        <5>1. CoveredBy(n - 1) \subseteq CoveredBy(n)
          BY <1>3 DEF CoveredBy
        <5> QED
          BY <1>6, <5>1, FS_Difference, Zenon
      <4>3. Gain(t, n) =< Gain(t, n - 1)
        BY <4>2, FS_Subset, Zenon DEF Gain
      <4>4. Gain(t, n - 1) \in Nat
        BY <4>2, FS_CardinalityType, Zenon DEF Gain
      <4>5. /\ Cardinality(CoveredBy(n)) \in Nat /\ Cardinality(CoveredBy(n - 1)) \in Nat
        BY <1>5, <3>1, <3>3, FS_CardinalityType, Zenon
      <4>6. Gain(t, n) =< Increment(n)
        BY <1>7, <4>1, <4>3, <4>4, <4>5 DEF Increment
      <4> QED
        BY <1>5, <1>7, <3>1, <3>3, <4>6, Zenon DEF Increment
    <3> QED
      BY <1>3, <3>2, <3>3
  <2>2. Hits(file_list'[1]) = Hits(total_list[1])
    <3>1. CASE n = 0
      <4>1. file_list = << >> /\ file_list'[1] = t
        <5>1. file_list \in Seq(Range(loaded)) /\ Len(file_list) = 0
          BY <1>3, <3>1, Zenon DEF GreedyInv, GreedyShape
        <5>2. file_list = << >> /\ n + 1 = 1
          BY <3>1, <5>1
        <5> QED
          BY <1>4, <5>2, Zenon
      <4>2. candidate = loaded /\ base_cov = {}
        <5>1. CoveredBy(0) = {}
          BY DEF CoveredBy
        <5> QED
          BY <1>5, <3>1, <4>1, <5>1, Zenon DEF GreedyInv, GreedyShape
      <4>3. ASSUME NEW c \in Range(loaded) PROVE Hits(c) =< Hits(t)
        <5>1. PICK j \in 1 .. Len(candidate) : c = candidate[j]
          BY <4>2 DEF IInv, Range
        <5>2. get_additional_cov({}, c) = Hits(c) /\ get_additional_cov({}, t) = Hits(t)
          BY Zenon DEF get_additional_cov, Hits
        <5> QED
          BY <1>1, <4>2, <5>1, <5>2, Zenon
      <4>4. /\ total_list[1] \in Range(loaded) /\ Hits(t) =< Hits(total_list[1])
        BY <1>2, <4>2, Zenon DEF GreedyInv, FirstHasMost
      <4>5. Hits(t) \in Nat /\ Hits(total_list[1]) \in Nat
        BY <4>4, FS_CardinalityType, Zenon DEF IInv, Hits
      <4> QED
        BY <4>1, <4>3, <4>4, <4>5
    <3>2. CASE n # 0
      <4>1. file_list # << >> /\ file_list'[1] = file_list[1]
        BY <1>3, <1>4, <3>2 DEF GreedyInv, GreedyShape
      <4> QED
        BY <4>1, Zenon DEF GreedyInv, IncrementsDescend
    <3> QED
      BY <3>1, <3>2, Zenon
  <2>3. Len(file_list') - 1 = n
    BY <1>3, <1>4
  <2> QED
    BY <1>2, <2>1, <2>2, <2>3, Zenon DEF IncrementsDescend, Hits
<1> QED
  BY <1>10, <1>11, <1>12, <1>13, Zenon DEF GreedyInv

\* Nothing has been ordered.
Unordered ==
  /\ file_list = << >> /\ base_cov = {} /\ candidate = loaded /\ pc # "greedy"
  /\ loaded \in Seq(Test)

\* The greedy part of the invariant, initially and after a load.
LEMMA GreedyEmpty == Unordered => GreedyInv
<1> SUFFICES ASSUME Unordered PROVE GreedyInv
  BY Zenon
<1> USE DEF Unordered
<1>1. CoveredBy(0) = {} /\ Len(file_list) = 0
  BY DEF CoveredBy
<1>2. loaded \in Seq(Range(loaded))
  <2>1. \A j \in 1 .. Len(loaded) : loaded[j] \in Range(loaded)
    BY DEF Range
  <2> QED
    BY <2>1
<1>3. \A i \in 0 .. Len(file_list) : IsFiniteSet(CoveredBy(i))
  <2>1. \A i \in 0 .. Len(file_list) : i = 0
    BY <1>1
  <2> QED
    BY <1>1, <2>1, FS_EmptySet, Zenon
<1>4. GreedyShape
  BY <1>1, <1>2, <1>3 DEF GreedyShape
<1> QED
  BY <1>1, <1>4 DEF GreedyInv, LastWasBest, FirstHasMost, IncrementsDescend

\* The invariant of both parts is inductive.
LEMMA GreedyInductive == (Init => IInv /\ GreedyInv) /\ (IInv /\ GreedyInv /\ [Next]_vars => GreedyInv')
<1>1. ASSUME Init PROVE IInv /\ GreedyInv
  <2>1. loaded \in Seq(Test)
    BY <1>1, Inductive, Zenon DEF IInv
  <2> QED
    BY <1>1, <2>1, Inductive, GreedyEmpty, Zenon DEF Init, Unordered
<1>2. ASSUME IInv, GreedyInv, [Next]_vars PROVE GreedyInv'
  <2>1. CASE load_coverage4checkout
    <3>1. /\ file_list' = << >> /\ base_cov' = {} /\ candidate' = loaded' /\ pc' # "greedy"
      BY <2>1, Zenon DEF load_coverage4checkout, Save
    <3>2. loaded' \in Seq(Test)
      BY <1>2, <2>1, LoadStep, Zenon DEF IInv
    <3>3. Unordered'
      BY <3>1, <3>2, Zenon DEF Unordered
    <3> QED
      BY <3>3, GreedyEmpty, PTL
  <2>2. CASE additional_cov_generator /\ candidate # << >>
    BY <1>2, <2>2, GreedyStep, Zenon
  <2>3. CASE total_cov_generator
    <3>1. /\ pc = "loaded" /\ pc' = "greedy" /\ UNCHANGED <<loaded, coverage_info, base_cov, candidate, file_list>>
      BY <2>3, Zenon DEF total_cov_generator
    <3>2. file_list = << >>
      BY <1>2, <3>1, Zenon DEF GreedyInv, GreedyShape
    <3>3. GreedyShape' /\ LastWasBest' /\ IncrementsDescend'
      BY <1>2, <3>1, <3>2
         DEF GreedyInv, GreedyShape, LastWasBest, IncrementsDescend, CoveredBy
    <3> QED
      BY <1>2, <2>3, <3>3, TotalStep, Zenon DEF GreedyInv
  <2>4. CASE UNCHANGED <<loaded, coverage_info, ordering>> /\ (pc' = pc \/ pc' \in {"idle", "raised"})
    <3>1. GreedyShape'
      BY <1>2, <2>4 DEF GreedyInv, GreedyShape, CoveredBy, ordering
    <3>2. LastWasBest' /\ IncrementsDescend' /\ FirstHasMost'
      BY <1>2, <2>4 DEF GreedyInv, LastWasBest, IncrementsDescend, FirstHasMost, Hits, Gain,
                        Increment, CoveredBy, ordering
    <3> QED
      BY <3>1, <3>2, Zenon DEF GreedyInv
  <2> QED
    BY <1>2, <2>1, <2>2, <2>3, <2>4, Zenon
       DEF Next, ParseInfo, LoadRaises, StartAgain, additional_cov_generator, ordering, vars
<1> QED
  BY <1>1, <1>2, Zenon

\* In the order of additional_cov_generator no test adds more lines than the
\* one before it, and the first one has as many lines as the first one of
\* total_cov_generator, for any tests and any coverage.
THEOREM GreedyDescends == Spec => []IncrementsDescend
<1>1. GreedyInv => IncrementsDescend
  BY Zenon DEF GreedyInv
<1> QED
  BY <1>1, Inductive, GreedyInductive, PTL DEF Spec

-----------------------------------------------------------------------------
(* parse_info: CollectCoverage *)

Full == budget = [kills |-> MaxScriptKills, fails |-> MaxFails]
InVersion(p) == c_pc[p] \in {"archive", "tar", "lcov"}
AllOff == \A p \in Process : c_pc[p] = "off"

\* The types, and that processes are started and killed together.
CollectTypes ==
  /\ archives \in Archives
  /\ DOMAIN info_files = Version
  /\ gcda \in [Version -> SUBSET TestName]
  /\ queue \in [Process -> Seq(Version)]
  /\ listing \in [Process -> Seq(TestName)]
  /\ c_pc \in [Process -> {"off", "version", "archive", "tar", "lcov", "joined"}]
  /\ budget \in [kills : Nat, fails : Nat]
  /\ budget.kills =< MaxScriptKills /\ budget.fails =< MaxFails
  /\ AllOff \/ \A p \in Process : c_pc[p] # "off"

\* No two processes have a version in common, so the tree of a process is its
\* own.
Apart ==
  \A p, q \in Process : p # q =>
    \A j \in 1 .. Len(queue[p]), k \in 1 .. Len(queue[q]) : queue[p][j] # queue[q][k]

\* Where a process is: what it has to do is of its version, and the tree has
\* no counters of another test when lcov reads it.
Place(p) ==
  /\ InVersion(p) => queue[p] # << >>
  /\ InVersion(p) => \A j \in 1 .. Len(listing[p]) : listing[p][j] \in archives[Tree(p)]
  /\ c_pc[p] \in {"tar", "lcov"} => listing[p] # << >>
  /\ c_pc[p] = "tar" => gcda[Tree(p)] = {}
  /\ c_pc[p] = "lcov" => gcda[Tree(p)] \subseteq {Archive(p)}
  /\ c_pc[p] = "lcov" /\ Full => gcda[Tree(p)] = {Archive(p)}
  /\ c_pc[p] = "joined" => queue[p] = << >>

\* The archive is still to be handled by some process.
Pending(v, t) ==
  \E p \in Process : \E j \in 1 .. Len(queue[p]) :
    /\ queue[p][j] = v
    /\ j = 1 /\ InVersion(p) => \E k \in 1 .. Len(listing[p]) : listing[p][k] = t

\* As long as nothing fails no archive is forgotten.
NothingLost ==
  Full => \A v \in Version : \A t \in archives[v] : HasInfo(v, t) \/ AllOff \/ Pending(v, t)

CollectInv ==
  /\ CollectTypes /\ Apart
  /\ \A p \in Process : Place(p)
  /\ InfoFromOwnArchive /\ NothingLost

\* The listing of a directory has all of its files, and each once.
LEMMA ListedAll ==
  ASSUME NEW S, IsFiniteSet(S), NEW list \in DirListings(S)
  PROVE  /\ list \in Seq(S) /\ \A x \in S : \E j \in 1 .. Len(list) : list[j] = x
         /\ \A j, k \in 1 .. Len(list) : j # k => list[j] # list[k]
<1>1. PICK n \in Nat : n = Cardinality(S)
  BY FS_CardinalityType, Zenon
<1>2. /\ list \in [1 .. n -> S] /\ \A x \in S : \E j \in 1 .. n : list[j] = x
      /\ \A j, k \in 1 .. n : list[j] = list[k] => j = k
  BY <1>1, Zenon DEF DirListings, Bijection, Injection, Surjection, IsInjective
<1>3. list \in Seq(S) /\ Len(list) = n
  BY <1>2
<1> QED
  BY <1>2, <1>3, Zenon

\* r has the elements of the list from f to l.
IsPart(r, list, f, l) ==
  /\ \A j \in 1 .. Len(r) : /\ f + j - 1 \in f .. l /\ f + j - 1 \in 1 .. Len(list)
                            /\ r[j] = list[f + j - 1]
  /\ \A x \in f .. l : x - f + 1 \in 1 .. Len(r) /\ r[x - f + 1] = list[x]

\* What SubSeq returns.
LEMMA PartOfList ==
  ASSUME NEW S, NEW list \in Seq(S), NEW f \in Nat \ {0}, NEW l \in Nat, l =< Len(list)
  PROVE  SubSeq(list, f, l) \in Seq(S) /\ IsPart(SubSeq(list, f, l), list, f, l)
<1> DEFINE r == SubSeq(list, f, l)
<1>1. /\ r \in Seq(S) /\ Len(r) = (IF f =< l THEN l - f + 1 ELSE 0)
      /\ \A j \in 1 .. l - f + 1 : r[j] = list[f + j - 1]
  OBVIOUS
<1> HIDE DEF r
<1>2. ASSUME NEW j \in 1 .. Len(r)
      PROVE  /\ f + j - 1 \in f .. l /\ f + j - 1 \in 1 .. Len(list)
             /\ r[j] = list[f + j - 1]
  <2>1. f =< l /\ j \in 1 .. l - f + 1
    BY <1>1
  <2>2. r[j] = list[f + j - 1]
    BY <1>1, <2>1, Zenon
  <2>3. Len(list) \in Nat
    OBVIOUS
  <2>4. f + j - 1 \in f .. l /\ f + j - 1 \in 1 .. Len(list)
    BY <2>1, <2>3
  <2> QED
    BY <2>2, <2>4, Zenon
<1>3. ASSUME NEW x \in f .. l
      PROVE  x - f + 1 \in 1 .. Len(r) /\ r[x - f + 1] = list[x]
  <2>1. f =< l /\ x - f + 1 \in 1 .. l - f + 1 /\ f + (x - f + 1) - 1 = x
    OBVIOUS
  <2>2. r[x - f + 1] = list[f + (x - f + 1) - 1]
    BY <1>1, <2>1, Zenon
  <2> QED
    BY <1>1, <2>1, <2>2, Zenon
<1> QED
  BY <1>1, <1>2, <1>3, Zenon DEF r, IsPart

\* The batches of the processes are disjoint parts of the list, and all of it.
LEMMA Batches ==
  ASSUME CollectAssumption, NEW list \in Seq(Version),
         \A j, k \in 1 .. Len(list) : j # k => list[j] # list[k]
  PROVE  /\ \A p \in Process : Batch(list, p) \in Seq(Version)
         /\ \A p, q \in Process : p # q =>
              \A j \in 1 .. Len(Batch(list, p)), k \in 1 .. Len(Batch(list, q)) :
                Batch(list, p)[j] # Batch(list, q)[k]
         /\ \A x \in 1 .. Len(list) : \E p \in Process :
              \E j \in 1 .. Len(Batch(list, p)) : Batch(list, p)[j] = list[x]
<1> DEFINE n == number_of_process
           b == Len(list) \div n
           first(p) == (p - 1) * b + 1
           last(p) == IF p = n THEN Len(list) ELSE p * b
<1>1. n \in Nat \ {0} /\ Len(list) \in Nat /\ Process = 1 .. n
  BY DEF CollectAssumption, Process
<1>2. b \in Nat /\ n * b =< Len(list)
  BY <1>1
<1>3. \A p \in Process : Batch(list, p) = SubSeq(list, first(p), last(p))
  BY Zenon DEF Batch
<1> HIDE DEF b, n
<1>4. ASSUME NEW p \in Process
      PROVE  /\ first(p) \in Nat \ {0} /\ last(p) \in Nat /\ last(p) =< Len(list)
             /\ p * b \in Nat /\ p * b =< last(p) /\ (p - 1) * b \in Nat
  <2>1. p \in Nat /\ p - 1 \in Nat /\ n - p \in Nat
    BY <1>1
  <2>2. (p - 1) * b \in Nat /\ p * b \in Nat /\ (n - p) * b \in Nat
    BY <1>2, <2>1
  <2>3. n * b = p * b + (n - p) * b /\ n * b \in Nat
    BY <1>1, <1>2, <2>1
  <2>4. p * b =< n * b
    BY <2>2, <2>3
  <2> QED
    BY <1>1, <1>2, <2>1, <2>2, <2>3, <2>4
<1>5. ASSUME NEW p \in Process, NEW q \in Process, p < q
      PROVE  last(p) < first(q)
  <2>1. p \in Nat /\ q \in Nat /\ (q - 1) - p \in Nat /\ p # n
    BY <1>1, <1>5
  <2>2. ((q - 1) - p) * b \in Nat
    BY <1>2, <2>1
  <2>3. (q - 1) * b = p * b + ((q - 1) - p) * b
    BY <1>2, <2>1
  <2>4. last(p) = p * b
    BY <2>1, Zenon
  <2>5. p * b \in Nat /\ (q - 1) * b \in Nat
    BY <1>4, Zenon
  <2> QED
    BY <2>2, <2>3, <2>4, <2>5
<1>7. ASSUME NEW x \in 1 .. Len(list) PROVE \E p \in Process : x \in first(p) .. last(p)
  <2>1. CASE x > (n - 1) * b
    <3>1. n \in Process /\ last(n) = Len(list) /\ (n - 1) * b \in Nat
      BY <1>1, <1>4
    <3> QED
      BY <2>1, <3>1, <1>1
  <2>2. CASE ~ (x > (n - 1) * b)
    <3>0. n - 1 \in Nat /\ (n - 1) * b \in Nat /\ x \in Nat \ {0}
      BY <1>1, <1>2
    <3>1. b # 0
      BY <3>0, <2>2, <1>2
    <3> DEFINE q == (x - 1) \div b
    <3>2. q \in Nat /\ q * b \in Nat /\ q * b =< x - 1 /\ x - 1 < q * b + b
      <4>1. x - 1 \in Nat /\ b \in Nat \ {0}
        BY <1>2, <3>1
      <4>2. /\ x - 1 = b * q + ((x - 1) % b) /\ (x - 1) % b \in 0 .. b - 1
            /\ q \in Nat
        BY <4>1
      <4> HIDE DEF q
      <4>0. q * b \in Nat /\ q * b = b * q /\ (x - 1) % b \in Nat
        BY <4>1, <4>2
      <4>3. PICK y, z \in Nat : y = q * b /\ z = (x - 1) % b
        BY <4>0, Zenon
      <4>4. x - 1 = y + z /\ z < b
        BY <4>0, <4>1, <4>2, <4>3
      <4> QED
        BY <4>1, <4>2, <4>3, <4>4
    <3> HIDE DEF q
    <3>3. q < n - 1
      <4> SUFFICES ASSUME q >= n - 1 PROVE FALSE
        BY <1>1, <3>2
      <4>1. (q - (n - 1)) * b \in Nat /\ q * b = (n - 1) * b + (q - (n - 1)) * b
        BY <1>1, <1>2, <3>2, <3>0
      <4> QED
        BY <2>2, <3>0, <3>2, <4>1
    <3>4. q + 1 \in Process /\ q + 1 # n /\ (q + 1) - 1 = q /\ (q + 1) * b = q * b + b
      BY <1>1, <1>2, <3>2, <3>3
    <3>5. x \in q * b + 1 .. q * b + b
      BY <1>2, <3>0, <3>2
    <3>6. first(q + 1) = q * b + 1 /\ last(q + 1) = q * b + b
      BY <3>4, Zenon
    <3> QED
      BY <3>4, <3>5, <3>6, Zenon
  <2> QED
    BY <2>1, <2>2, Zenon
<1> HIDE DEF first, last
<1>6. ASSUME NEW p \in Process
      PROVE  /\ Batch(list, p) \in Seq(Version)
             /\ \A j \in 1 .. Len(Batch(list, p)) :
                  /\ first(p) + j - 1 \in first(p) .. last(p)
                  /\ first(p) + j - 1 \in 1 .. Len(list)
                  /\ Batch(list, p)[j] = list[first(p) + j - 1]
             /\ \A x \in first(p) .. last(p) :
                  /\ x - first(p) + 1 \in 1 .. Len(Batch(list, p))
                  /\ Batch(list, p)[x - first(p) + 1] = list[x]
  <2>1. first(p) \in Nat \ {0} /\ last(p) \in Nat /\ last(p) =< Len(list)
    BY <1>4, Zenon
  <2>2. Batch(list, p) \in Seq(Version) /\ IsPart(Batch(list, p), list, first(p), last(p))
    BY <1>3, <2>1, PartOfList, Zenon
  <2> QED
    BY <2>2, Zenon DEF IsPart
<1>8. ASSUME NEW p \in Process, NEW q \in Process, p < q,
             NEW j \in 1 .. Len(Batch(list, p)), NEW k \in 1 .. Len(Batch(list, q))
      PROVE  Batch(list, p)[j] # Batch(list, q)[k]
  <2> DEFINE x == first(p) + j - 1
             y == first(q) + k - 1
  <2>1. x \in first(p) .. last(p) /\ x \in 1 .. Len(list) /\ Batch(list, p)[j] = list[x]
    BY <1>6, Zenon
  <2>2. y \in first(q) .. last(q) /\ y \in 1 .. Len(list) /\ Batch(list, q)[k] = list[y]
    BY <1>6, Zenon
  <2>3. first(p) \in Nat /\ last(p) \in Nat /\ first(q) \in Nat /\ last(q) \in Nat
    BY <1>4, Zenon
  <2>4. last(p) < first(q)
    BY <1>5, <1>8, Zenon
  <2> HIDE DEF x, y
  <2>5. x # y
    BY <2>1, <2>2, <2>3, <2>4
  <2> QED
    BY <2>1, <2>2, <2>5, Zenon
<1>9. \A p, q \in Process : p # q => p < q \/ q < p
  BY <1>1
<1>10. ASSUME NEW x \in 1 .. Len(list)
       PROVE  \E p \in Process : \E j \in 1 .. Len(Batch(list, p)) :
                Batch(list, p)[j] = list[x]
  <2>1. PICK p \in Process : x \in first(p) .. last(p)
    BY <1>7, Zenon
  <2> QED
    BY <1>6, <2>1, Zenon
<1>11. ASSUME NEW p \in Process, NEW q \in Process, p # q,
              NEW j \in 1 .. Len(Batch(list, p)), NEW k \in 1 .. Len(Batch(list, q))
       PROVE  Batch(list, p)[j] # Batch(list, q)[k]
  <2>1. CASE p < q
    BY <1>8, <2>1, Zenon
  <2>2. CASE q < p
    BY <1>8, <2>2, Zenon
  <2> QED
    BY <1>9, <1>11, <2>1, <2>2, Zenon
<1> QED
  BY <1>6, <1>10, <1>11, Zenon

-----------------------------------------------------------------------------
\* What a step of p leaves of the others.
OthersStand(p) ==
  /\ archives' = archives
  /\ \A q \in Process : q # p => c_pc'[q] = c_pc[q] /\ queue'[q] = queue[q] /\ listing'[q] = listing[q]

\* The tree of a process is no other's.
LEMMA OwnTree ==
  ASSUME CollectTypes, Apart, NEW p \in Process, NEW q \in Process, p # q,
         queue[p] # << >>, queue[q] # << >>
  PROVE  Tree(p) # Tree(q)
<1>1. queue[p] \in Seq(Version) /\ queue[q] \in Seq(Version)
  BY Zenon DEF CollectTypes
<1>2. 1 \in 1 .. Len(queue[p]) /\ 1 \in 1 .. Len(queue[q])
  BY <1>1
<1>3. Tree(p) = queue[p][1] /\ Tree(q) = queue[q][1]
  BY <1>1 DEF Tree
<1> QED
  BY <1>2, <1>3, Zenon DEF Apart

\* A process in a version has a tree, and archives of it.
LEMMA OwnArchive ==
  ASSUME CollectAssumption, CollectTypes, NEW p \in Process, Place(p), InVersion(p)
  PROVE  /\ Tree(p) \in Version
         /\ archives \in [Version -> SUBSET TestName]
         /\ listing[p] # << >> => Archive(p) \in archives[Tree(p)] /\ Archive(p) \in TestName
<1>1. /\ queue[p] \in Seq(Version) /\ queue[p] # << >> /\ listing[p] \in Seq(TestName)
      /\ archives \in [Version -> SUBSET TestName]
      /\ \A j \in 1 .. Len(listing[p]) : listing[p][j] \in archives[Tree(p)]
  BY Zenon DEF CollectTypes, Place, CollectAssumption
<1>2. Tree(p) \in Version
  BY <1>1 DEF Tree
<1>3. ASSUME listing[p] # << >> PROVE Archive(p) \in archives[Tree(p)] /\ Archive(p) \in TestName
  <2>1. 1 \in 1 .. Len(listing[p]) /\ Archive(p) = listing[p][1]
    BY <1>1, <1>3 DEF Archive
  <2> QED
    BY <1>1, <1>2, <2>1, Zenon
<1> QED
  BY <1>1, <1>2, <1>3, Zenon

\* The types after a step of one process.
LEMMA WorkTypes ==
  ASSUME CollectAssumption, CollectTypes, NEW p \in Process, Place(p), Work(p)
  PROVE  /\ CollectTypes' /\ OthersStand(p)
         /\ Full' => Full /\ ~ Fails
<1>1. /\ \A q \in Process : c_pc[q] # "off"
      /\ c_pc[p] # "off" /\ c_pc \in [Process -> {"off", "version", "archive", "tar", "lcov", "joined"}]
  BY Zenon DEF Work, EnterVersion, LeaveVersion, Join, Skip, RemoveGcda, Unpack, Lcov, CollectTypes, AllOff
<1>2. /\ archives' = archives
      /\ DOMAIN info_files' = DOMAIN info_files
      /\ \/ UNCHANGED budget
         \/ Fails
  BY Zenon DEF Work, EnterVersion, LeaveVersion, Join, Skip, RemoveGcda, Unpack, Lcov, Written
<1>3. /\ budget' \in [kills : Nat, fails : Nat]
      /\ budget'.kills =< MaxScriptKills /\ budget'.fails =< MaxFails
      /\ Fails => budget'.fails < MaxFails
  BY <1>2 DEF Fails, CollectTypes, CollectAssumption
<1>4. Full' => Full /\ ~ Fails
  BY <1>2, <1>3 DEF Full, CollectAssumption
<1>5. PICK label \in {"version", "archive", "tar", "lcov", "joined"} :
        c_pc' = [c_pc EXCEPT ![p] = label]
  BY <1>1, Zenon DEF Work, EnterVersion, LeaveVersion, Join, Skip, RemoveGcda, Unpack, Lcov, Goto
<1>6. /\ c_pc' \in [Process -> {"off", "version", "archive", "tar", "lcov", "joined"}]
      /\ \A q \in Process : c_pc'[q] # "off"
      /\ \A q \in Process : q # p => c_pc'[q] = c_pc[q]
  BY <1>1, <1>5, Zenon
<1>7. queue' = queue \/ (queue[p] # << >> /\ queue' = [queue EXCEPT ![p] = Tail(@)])
  BY Zenon DEF Work, EnterVersion, LeaveVersion, Join, Skip, RemoveGcda, Unpack, Lcov, Place, InVersion
<1>8. queue' \in [Process -> Seq(Version)] /\ \A q \in Process : q # p => queue'[q] = queue[q]
  <2>1. queue \in [Process -> Seq(Version)] /\ queue[p] \in Seq(Version)
    BY Zenon DEF CollectTypes
  <2>2. queue[p] # << >> => Tail(queue[p]) \in Seq(Version)
    BY <2>1
  <2> QED
    BY <1>7, <2>1, <2>2, Zenon
<1>9. \E list \in Seq(TestName) : listing' = [listing EXCEPT ![p] = list]
  <2>1. listing \in [Process -> Seq(TestName)] /\ listing[p] \in Seq(TestName)
    BY Zenon DEF CollectTypes
  <2>2. CASE EnterVersion(p)
    <3>1. PICK list \in DirListings(archives[Tree(p)]) : listing' = [listing EXCEPT ![p] = list]
      BY <2>2, Zenon DEF EnterVersion
    <3>2. queue[p] \in Seq(Version) /\ queue[p] # << >>
      BY <2>2, Zenon DEF EnterVersion, CollectTypes
    <3>3. Tree(p) \in Version
      BY <3>2 DEF Tree
    <3>4. archives[Tree(p)] \in SUBSET TestName /\ IsFiniteSet(archives[Tree(p)])
      BY <3>3 DEF CollectTypes, CollectAssumption
    <3>5. list \in Seq(archives[Tree(p)])
      BY <3>1, <3>4, ListedAll, Zenon
    <3>6. list \in Seq(TestName)
      BY <3>4, <3>5
    <3> QED
      BY <3>1, <3>6, Zenon
  <2>3. CASE Skip(p) \/ Lcov(p)
    <3>1. listing[p] # << >> /\ listing' = [listing EXCEPT ![p] = Tail(@)]
      BY <2>3, Zenon DEF Skip, Lcov, Place
    <3>2. Tail(listing[p]) \in Seq(TestName)
      BY <2>1, <3>1
    <3> QED
      BY <2>1, <3>1, <3>2, Zenon
  <2>4. CASE LeaveVersion(p) \/ Join(p) \/ RemoveGcda(p) \/ Unpack(p)
    <3>1. listing' = listing
      BY <2>4, Zenon DEF LeaveVersion, Join, RemoveGcda, Unpack
    <3>2. listing = [listing EXCEPT ![p] = listing[p]]
      BY <2>1, Zenon
    <3> QED
      BY <2>1, <3>1, <3>2, Zenon
  <2> QED
    BY <2>2, <2>3, <2>4, Zenon DEF Work
<1>10. listing' \in [Process -> Seq(TestName)] /\ \A q \in Process : q # p => listing'[q] = listing[q]
  BY <1>9 DEF CollectTypes
<1>11. gcda' \in [Version -> SUBSET TestName]
  <2>1. gcda \in [Version -> SUBSET TestName]
    BY Zenon DEF CollectTypes
  <2>2. CASE RemoveGcda(p)
    BY <2>1, <2>2, Zenon DEF RemoveGcda
  <2>3. CASE Unpack(p)
    <3>1. Archive(p) \in TestName
      BY <2>3, OwnArchive, Zenon DEF Unpack, InVersion, Place
    <3>2. gcda' = gcda \/ gcda' = [gcda EXCEPT ![Tree(p)] = @ \cup {Archive(p)}]
      BY <2>3, Zenon DEF Unpack
    <3> QED
      BY <2>1, <3>1, <3>2, Zenon
  <2>4. CASE gcda' = gcda
    BY <2>1, <2>4, Zenon
  <2> QED
    BY <2>2, <2>3, <2>4, Zenon DEF Work, EnterVersion, LeaveVersion, Join, Skip, Lcov
<1> QED
  BY <1>2, <1>3, <1>4, <1>6, <1>8, <1>10, <1>11, Zenon DEF CollectTypes, OthersStand, AllOff

\* What a step of p leaves outside its tree.
OthersTrees(p) ==
  /\ \A v \in Version : gcda'[v] # gcda[v] => InVersion(p) /\ v = Tree(p)
  /\ \A v \in Version : info_files'[v] # info_files[v] => InVersion(p) /\ v = Tree(p)
  /\ \A v \in Version : DOMAIN info_files[v] \subseteq DOMAIN info_files'[v]

\* Counters and files are written in the tree of the process only.
LEMMA WorkTrees ==
  ASSUME CollectTypes, NEW p \in Process, Work(p)
  PROVE  OthersTrees(p)
<1>1. DOMAIN info_files = Version /\ DOMAIN gcda = Version
  BY Zenon DEF CollectTypes
<1>2. CASE EnterVersion(p) \/ LeaveVersion(p) \/ Join(p) \/ Skip(p)
  BY <1>2, Zenon DEF EnterVersion, LeaveVersion, Join, Skip, OthersTrees
<1>3. CASE RemoveGcda(p)
  BY <1>1, <1>3, Zenon DEF RemoveGcda, OthersTrees, InVersion
<1>4. CASE Unpack(p)
  BY <1>1, <1>4, Zenon DEF Unpack, OthersTrees, InVersion
<1>5. CASE Lcov(p)
  <2>1. InVersion(p) /\ gcda' = gcda /\ (info_files' = info_files \/ info_files' = Written(Tree(p), Archive(p)))
    BY <1>5, Zenon DEF Lcov, InVersion
  <2>2. CASE info_files' = info_files
    BY <2>1, <2>2, Zenon DEF OthersTrees
  <2>3. CASE info_files' = Written(Tree(p), Archive(p))
    <3>1. \A v \in Version : v # Tree(p) => info_files'[v] = info_files[v]
      BY <1>1, <2>3, Zenon DEF Written
    <3>2. \A v \in Version : v = Tree(p) => DOMAIN info_files'[v] = DOMAIN info_files[v] \cup {Archive(p)}
      BY <1>1, <2>3, Zenon DEF Written
    <3> QED
      BY <2>1, <3>1, <3>2, Zenon DEF OthersTrees
  <2> QED
    BY <2>1, <2>2, <2>3, Zenon
<1> QED
  BY <1>2, <1>3, <1>4, <1>5, Zenon DEF Work

\* The queue of p after its step.
LEMMA WorkQueue ==
  ASSUME CollectTypes, NEW p \in Process, Place(p), Work(p)
  PROVE  \A j \in 1 .. Len(queue'[p]) : \E k \in 1 .. Len(queue[p]) : queue'[p][j] = queue[p][k]
<1>1. queue \in [Process -> Seq(Version)] /\ queue[p] \in Seq(Version)
  BY Zenon DEF CollectTypes
<1>2. queue' = queue \/ (queue[p] # << >> /\ queue' = [queue EXCEPT ![p] = Tail(@)])
  BY Zenon DEF Work, EnterVersion, LeaveVersion, Join, Skip, RemoveGcda, Unpack, Lcov, Place, InVersion
<1>3. CASE queue' = queue
  BY <1>3, Zenon
<1>4. CASE queue[p] # << >> /\ queue' = [queue EXCEPT ![p] = Tail(@)]
  <2>1. queue'[p] = Tail(queue[p])
    BY <1>1, <1>4, Zenon
  <2>2. ASSUME NEW j \in 1 .. Len(Tail(queue[p]))
        PROVE  j + 1 \in 1 .. Len(queue[p]) /\ Tail(queue[p])[j] = queue[p][j + 1]
    BY <1>1, <1>4
  <2> QED
    BY <2>1, <2>2, Zenon
<1> QED
  BY <1>2, <1>3, <1>4, Zenon

\* The versions stay apart.
LEMMA WorkApart ==
  ASSUME CollectTypes, Apart, NEW p \in Process, Place(p), Work(p), OthersStand(p)
  PROVE  Apart'
<1>1. ASSUME NEW q \in Process, NEW j \in 1 .. Len(queue'[q])
      PROVE  \E k \in 1 .. Len(queue[q]) : queue'[q][j] = queue[q][k]
  BY <1>1, WorkQueue, Zenon DEF OthersStand
<1> QED
  BY <1>1 DEF Apart

\* A step of p does not move the place of another process.
LEMMA WorkOthers ==
  ASSUME CollectTypes, Apart, NEW p \in Process, Place(p), Work(p), OthersStand(p), Full' => Full,
         NEW q \in Process, q # p, Place(q)
  PROVE  Place(q)'
<1>1. /\ c_pc'[q] = c_pc[q] /\ queue'[q] = queue[q] /\ listing'[q] = listing[q] /\ archives' = archives
      /\ Tree(q)' = Tree(q) /\ Archive(q)' = Archive(q) /\ InVersion(q)' = InVersion(q)
  BY Zenon DEF OthersStand, Tree, Archive, InVersion
<1>2. ASSUME InVersion(q) PROVE gcda'[Tree(q)] = gcda[Tree(q)]
  <2>1. queue[q] # << >> /\ queue[q] \in Seq(Version) /\ (InVersion(p) => queue[p] # << >>)
    BY <1>2, Zenon DEF Place, CollectTypes
  <2>2. Tree(q) \in Version
    BY <2>1 DEF Tree
  <2>3. InVersion(p) => Tree(p) # Tree(q)
    BY <2>1, OwnTree, Zenon
  <2> QED
    BY <2>2, <2>3, WorkTrees, Zenon DEF OthersTrees
<1>3. c_pc[q] \in {"tar", "lcov"} => InVersion(q)
  BY Zenon DEF InVersion
<1> QED
  BY <1>1, <1>2, <1>3, Zenon DEF Place

\* The place of p after its step.
LEMMA WorkOwn ==
  ASSUME CollectAssumption, CollectTypes, NEW p \in Process, Place(p), Work(p), OthersStand(p),
         Full' => Full /\ ~ Fails
  PROVE  Place(p)'
<1>1. /\ c_pc \in [Process -> {"off", "version", "archive", "tar", "lcov", "joined"}]
      /\ queue \in [Process -> Seq(Version)] /\ queue[p] \in Seq(Version)
      /\ listing \in [Process -> Seq(TestName)] /\ listing[p] \in Seq(TestName)
      /\ gcda \in [Version -> SUBSET TestName] /\ archives' = archives
  BY Zenon DEF CollectTypes, OthersStand
<1>2. CASE EnterVersion(p)
  <2>1. c_pc'[p] = "archive" /\ queue[p] # << >> /\ queue'[p] = queue[p] /\ Tree(p)' = Tree(p)
    BY <1>1, <1>2, Zenon DEF EnterVersion, Goto, Tree
  <2>2. PICK list \in DirListings(archives[Tree(p)]) : listing' = [listing EXCEPT ![p] = list]
    BY <1>2, Zenon DEF EnterVersion
  <2>3. Tree(p) \in Version
    <3>1. queue[p] # << >> => Head(queue[p]) \in Version
      BY <1>1
    <3> QED
      BY <2>1, <3>1, Zenon DEF Tree
  <2>4. IsFiniteSet(archives[Tree(p)])
    BY <2>3, Zenon DEF CollectTypes, CollectAssumption
  <2>5. list \in Seq(archives[Tree(p)]) /\ listing'[p] = list
    BY <1>1, <2>2, <2>4, ListedAll, Zenon
  <2>6. \A j \in 1 .. Len(list) : list[j] \in archives[Tree(p)]
    BY <2>5
  <2> QED
    BY <1>1, <2>1, <2>5, <2>6 DEF Place, InVersion
<1>3. CASE LeaveVersion(p)
  <2>1. c_pc'[p] = "version"
    BY <1>1, <1>3, Zenon DEF LeaveVersion, Goto
  <2> QED
    BY <2>1, Zenon DEF Place, InVersion
<1>4. CASE Join(p)
  <2>1. c_pc'[p] = "joined" /\ queue'[p] = << >>
    BY <1>1, <1>4, Zenon DEF Join, Goto
  <2> QED
    BY <2>1, Zenon DEF Place, InVersion
<1>5. CASE Skip(p) \/ Lcov(p)
  <2>1. /\ c_pc'[p] = "archive" /\ queue'[p] = queue[p] /\ queue[p] # << >> /\ Tree(p)' = Tree(p)
        /\ listing[p] # << >> /\ listing' = [listing EXCEPT ![p] = Tail(@)]
        /\ \A j \in 1 .. Len(listing[p]) : listing[p][j] \in archives[Tree(p)]
    BY <1>1, <1>5, Zenon DEF Skip, Lcov, Goto, Place, InVersion, Tree
  <2>2. listing'[p] = Tail(listing[p])
    BY <1>1, <2>1, Zenon
  <2>3. \A j \in 1 .. Len(Tail(listing[p])) :
          j + 1 \in 1 .. Len(listing[p]) /\ Tail(listing[p])[j] = listing[p][j + 1]
    BY <1>1, <2>1
  <2>4. \A j \in 1 .. Len(listing'[p]) : listing'[p][j] \in archives[Tree(p)]
    BY <2>1, <2>2, <2>3, Zenon
  <2> QED
    BY <1>1, <2>1, <2>4, Zenon DEF Place, InVersion
<1>6. CASE RemoveGcda(p)
  <2>1. /\ c_pc'[p] = "tar" /\ queue' = queue /\ listing' = listing /\ Tree(p)' = Tree(p)
        /\ InVersion(p) /\ listing[p] # << >>
    BY <1>1, <1>6, Zenon DEF RemoveGcda, Goto, Tree, InVersion
  <2>2. Tree(p) \in Version
    BY <2>1, OwnArchive, Zenon
  <2>3. gcda'[Tree(p)] = {}
    BY <1>1, <1>6, <2>2, Zenon DEF RemoveGcda
  <2> QED
    BY <1>1, <2>1, <2>3, Zenon DEF Place, InVersion
<1>7. CASE Unpack(p)
  <2>1. /\ c_pc'[p] = "lcov" /\ queue' = queue /\ listing' = listing /\ Tree(p)' = Tree(p)
        /\ Archive(p)' = Archive(p) /\ c_pc[p] = "tar" /\ InVersion(p) /\ gcda[Tree(p)] = {}
    BY <1>1, <1>7, Zenon DEF Unpack, Goto, Tree, Archive, InVersion, Place
  <2>2. Tree(p) \in Version
    BY <2>1, OwnArchive, Zenon
  <2>3. /\ gcda'[Tree(p)] \subseteq {Archive(p)}
        /\ ~ Fails => gcda'[Tree(p)] = {Archive(p)}
    BY <1>1, <1>7, <2>1, <2>2, Zenon DEF Unpack
  <2> QED
    BY <1>1, <2>1, <2>3, Zenon DEF Place, InVersion
<1> QED
  BY <1>2, <1>3, <1>4, <1>5, <1>6, <1>7 DEF Work

\* A file is written of its own test.
LEMMA WorkInfo ==
  ASSUME CollectAssumption, CollectTypes, NEW p \in Process, Place(p), Work(p), OthersStand(p),
         InfoFromOwnArchive
  PROVE  InfoFromOwnArchive'
<1>1. SUFFICES ASSUME NEW v \in Version, NEW t \in DOMAIN info_files'[v]
               PROVE  t \in archives[v] /\ info_files'[v][t] = {t}
  BY Zenon DEF InfoFromOwnArchive, OthersStand
<1>2. CASE info_files'[v] = info_files[v]
  BY <1>2, Zenon DEF InfoFromOwnArchive
<1>3. CASE info_files'[v] # info_files[v]
  <2>1. InVersion(p) /\ v = Tree(p)
    BY <1>3, WorkTrees, Zenon DEF OthersTrees
  <2>2. /\ c_pc[p] = "lcov" /\ gcda[v] # {} /\ info_files' = Written(Tree(p), Archive(p))
    BY <1>3, <2>1, Zenon DEF Work, EnterVersion, LeaveVersion, Join, Skip, RemoveGcda, Unpack, Lcov
  <2>3. listing[p] # << >> /\ gcda[v] = {Archive(p)}
    BY <2>1, <2>2, Zenon DEF Place
  <2>4. Archive(p) \in archives[v]
    BY <2>1, <2>3, OwnArchive, Zenon
  <2>5. info_files'[v] = [x \in DOMAIN info_files[v] \cup {Archive(p)} |->
                            IF x = Archive(p) THEN gcda[v] ELSE info_files[v][x]]
    BY <2>1, <2>2, Zenon DEF Written, CollectTypes
  <2> QED
    BY <2>3, <2>4, <2>5 DEF InfoFromOwnArchive
<1> QED
  BY <1>2, <1>3, Zenon

\* What the processes of collect.py have left to do is typed.
LEMMA CollectFields ==
  ASSUME CollectTypes, NEW p \in Process
  PROVE  /\ c_pc \in [Process -> {"off", "version", "archive", "tar", "lcov", "joined"}]
         /\ queue \in [Process -> Seq(Version)] /\ queue[p] \in Seq(Version)
         /\ listing \in [Process -> Seq(TestName)] /\ listing[p] \in Seq(TestName)
         /\ DOMAIN info_files = Version
<1>1. /\ c_pc \in [Process -> {"off", "version", "archive", "tar", "lcov", "joined"}]
      /\ queue \in [Process -> Seq(Version)]
      /\ listing \in [Process -> Seq(TestName)]
      /\ DOMAIN info_files = Version
  BY Zenon DEF CollectTypes
<1>2. queue[p] \in Seq(Version)
  BY <1>1, Zenon
<1>3. listing[p] \in Seq(TestName)
  BY <1>1, Zenon
<1> QED
  BY <1>1, <1>2, <1>3, Zenon

\* The tree a process works in is the first version of its queue.
LEMMA FirstIsTree ==
  ASSUME NEW p \in Process, queue[p] \in Seq(Version), NEW v,
         NEW j \in 1 .. Len(queue[p]), queue[p][j] = v
  PROVE  j \in Nat /\ (j = 1 => v = Tree(p))
<1>1. j \in Nat
  OBVIOUS
<1>2. queue[p] # << >> => Head(queue[p]) = queue[p][1]
  OBVIOUS
<1>3. queue[p] # << >>
  OBVIOUS
<1> QED
  BY <1>1, <1>2, <1>3, Zenon DEF Tree

\* What is left of a version to p: its first version in part, others whole.
LEMMA WorkPending ==
  ASSUME CollectAssumption, CollectTypes, NEW p \in Process, Place(p), Work(p), OthersStand(p),
         Full, ~ Fails,
         NEW v \in Version, NEW t \in archives[v], ~ HasInfo(v, t)',
         NEW j \in 1 .. Len(queue[p]), queue[p][j] = v,
         j = 1 /\ InVersion(p) => \E k \in 1 .. Len(listing[p]) : listing[p][k] = t
  PROVE  Pending(v, t)'
<1>1. /\ c_pc \in [Process -> {"off", "version", "archive", "tar", "lcov", "joined"}]
      /\ queue \in [Process -> Seq(Version)] /\ queue[p] \in Seq(Version)
      /\ listing \in [Process -> Seq(TestName)] /\ listing[p] \in Seq(TestName)
      /\ archives' = archives /\ j \in Nat
      /\ DOMAIN info_files = Version
  BY CollectFields, FirstIsTree, Zenon DEF OthersStand
<1>2. ~ HasInfo(v, t)
  BY WorkTrees, Zenon DEF OthersTrees, HasInfo
<1>3. j = 1 => v = Tree(p)
  BY <1>1, FirstIsTree, Zenon
<1>4. CASE EnterVersion(p)
  <2>1. PICK list \in DirListings(archives[Tree(p)]) : listing' = [listing EXCEPT ![p] = list]
    BY <1>4, Zenon DEF EnterVersion
  <2>2. queue'[p] = queue[p] /\ listing'[p] = list
    BY <1>1, <1>4, <2>1, Zenon DEF EnterVersion
  <2>3. ASSUME j = 1 PROVE \E k \in 1 .. Len(list) : list[k] = t
    <3>1. IsFiniteSet(archives[v]) /\ t \in archives[v] /\ list \in DirListings(archives[v])
      BY <1>3, <2>1, <2>3, Zenon DEF CollectTypes, CollectAssumption
    <3> QED
      BY <3>1, ListedAll
  <2> QED
    BY <1>1, <2>2, <2>3, Zenon DEF Pending
<1>5. CASE LeaveVersion(p)
  <2>1. InVersion(p) /\ listing[p] = << >> /\ queue[p] # << >> /\ c_pc'[p] = "version"
        /\ queue'[p] = Tail(queue[p])
    BY <1>1, <1>5, Zenon DEF LeaveVersion, InVersion, Place, Goto
  <2>2. j # 1
    BY <2>1
  <2>3. j - 1 \in 1 .. Len(queue'[p]) /\ queue'[p][j - 1] = v
    BY <1>1, <2>1, <2>2
  <2>4. ~ InVersion(p)'
    BY <2>1, Zenon DEF InVersion
  <2> QED
    BY <2>3, <2>4, Zenon DEF Pending
<1>6. CASE Join(p)
  <2>1. queue[p] = << >>
    BY <1>6, Zenon DEF Join
  <2> QED
    BY <2>1
<1>7. CASE Skip(p) \/ Lcov(p)
  <2>1. /\ queue'[p] = queue[p] /\ InVersion(p)
        /\ listing[p] # << >> /\ listing' = [listing EXCEPT ![p] = Tail(@)]
    BY <1>1, <1>7, Zenon DEF Skip, Lcov, Place, InVersion
  <2>2. listing'[p] = Tail(listing[p])
    BY <1>1, <2>1, Zenon
  <2>3. ASSUME j = 1 PROVE t # Archive(p)
    <3>1. CASE Skip(p)
      BY <1>2, <1>3, <2>3, <3>1 DEF Skip
    <3>2. CASE Lcov(p)
      <4>1. gcda[Tree(p)] = {Archive(p)}
        BY <3>2, Zenon DEF Lcov, Place
      <4>2. info_files' = Written(Tree(p), Archive(p))
        BY <3>2, <4>1, Zenon DEF Lcov
      <4>3. Archive(p) \in DOMAIN info_files'[v]
        BY <1>1, <1>3, <2>3, <4>2, Zenon DEF Written
      <4> QED
        BY <4>3, Zenon DEF HasInfo
    <3> QED
      BY <1>7, <3>1, <3>2, Zenon
  <2>4. ASSUME j = 1 PROVE \E k \in 1 .. Len(listing'[p]) : listing'[p][k] = t
    <3>1. PICK k \in 1 .. Len(listing[p]) : listing[p][k] = t
      BY <2>1, <2>4, Zenon
    <3>2. k # 1
      BY <1>1, <2>3, <2>4, <3>1 DEF Archive
    <3>3. k - 1 \in 1 .. Len(Tail(listing[p])) /\ Tail(listing[p])[k - 1] = t
      BY <1>1, <2>1, <3>1, <3>2
    <3> QED
      BY <2>2, <3>3, Zenon
  <2> QED
    BY <1>1, <2>1, <2>4, Zenon DEF Pending
<1>8. CASE RemoveGcda(p) \/ Unpack(p)
  <2>1. queue' = queue /\ listing' = listing /\ InVersion(p)
    BY <1>8, Zenon DEF RemoveGcda, Unpack, InVersion
  <2> QED
    BY <2>1, Zenon DEF Pending
<1> QED
  BY <1>4, <1>5, <1>6, <1>7, <1>8 DEF Work

\* Nothing is lost by a step of a process.
LEMMA WorkNothingLost ==
  ASSUME CollectAssumption, CollectTypes, NEW p \in Process, Place(p), Work(p), OthersStand(p),
         Full' => Full /\ ~ Fails, NothingLost
  PROVE  NothingLost'
<1>1. SUFFICES ASSUME Full', NEW v \in Version, NEW t \in archives[v], ~ HasInfo(v, t)'
               PROVE  Pending(v, t)'
  BY Zenon DEF NothingLost, OthersStand
<1>2. Full /\ ~ Fails /\ ~ HasInfo(v, t)
  BY <1>1, WorkTrees, Zenon DEF OthersTrees, HasInfo
<1>3. ~ AllOff
  BY Zenon DEF Work, EnterVersion, LeaveVersion, Join, Skip, RemoveGcda, Unpack, Lcov, AllOff
<1>4. PICK q \in Process : \E j \in 1 .. Len(queue[q]) :
        /\ queue[q][j] = v
        /\ j = 1 /\ InVersion(q) => \E k \in 1 .. Len(listing[q]) : listing[q][k] = t
  BY <1>2, <1>3 DEF NothingLost, Pending
<1>5. CASE q = p
  BY <1>1, <1>2, <1>4, <1>5, WorkPending, Zenon
<1>6. CASE q # p
  BY <1>4, <1>6 DEF Pending, OthersStand, InVersion
<1> QED
  BY <1>5, <1>6, Zenon

\* A step of a process preserves the invariant.
LEMMA WorkStep ==
  ASSUME CollectAssumption, CollectInv, NEW p \in Process, Work(p)
  PROVE  CollectInv'
<1>1. /\ CollectTypes /\ Apart /\ InfoFromOwnArchive /\ NothingLost
      /\ Place(p) /\ \A q \in Process : Place(q)
  BY Zenon DEF CollectInv
<1>2. CollectTypes' /\ OthersStand(p) /\ (Full' => Full /\ ~ Fails)
  BY <1>1, WorkTypes, Zenon
<1>3. Apart' /\ InfoFromOwnArchive' /\ NothingLost' /\ Place(p)'
  BY <1>1, <1>2, WorkApart, WorkInfo, WorkNothingLost, WorkOwn
<1>4. ASSUME NEW q \in Process PROVE Place(q)'
  BY <1>1, <1>2, <1>3, WorkOthers
<1> QED
  BY <1>2, <1>3, <1>4, Zenon DEF CollectInv

\* The script is started: every version with an archive to parse is in one
\* batch.
LEMMA StartStep ==
  ASSUME CollectAssumption, CollectInv, StartScript
  PROVE  CollectInv'
<1> DEFINE todo == {v \in Version : \E t \in archives[v] : ~ HasInfo(v, t)}
<1>1. PICK list \in DirListings(todo) : queue' = [p \in Process |-> Batch(list, p)]
  BY Zenon DEF StartScript
<1>2. /\ list \in Seq(todo) /\ \A x \in todo : \E j \in 1 .. Len(list) : list[j] = x
      /\ \A j, k \in 1 .. Len(list) : j # k => list[j] # list[k]
  <2>1. IsFiniteSet(todo)
    BY FS_Subset, Zenon DEF CollectAssumption
  <2> QED
    BY <2>1, ListedAll, Zenon
<1> HIDE DEF todo
<1>3. list \in Seq(Version)
  BY <1>2 DEF todo
<1>4. /\ \A p \in Process : Batch(list, p) \in Seq(Version)
      /\ \A p, q \in Process : p # q =>
           \A j \in 1 .. Len(Batch(list, p)), k \in 1 .. Len(Batch(list, q)) :
             Batch(list, p)[j] # Batch(list, q)[k]
      /\ \A x \in 1 .. Len(list) : \E p \in Process :
           \E j \in 1 .. Len(Batch(list, p)) : Batch(list, p)[j] = list[x]
  BY <1>2, <1>3, Batches, Zenon
<1>5. /\ c_pc' = [p \in Process |-> "version"]
      /\ archives' = archives /\ info_files' = info_files /\ gcda' = gcda /\ listing' = listing /\ budget' = budget
  BY Zenon DEF StartScript
<1>6. queue' \in [Process -> Seq(Version)]
  BY <1>1, <1>4, Zenon
<1>7. CollectTypes'
  BY <1>5, <1>6, Zenon DEF CollectInv, CollectTypes, AllOff
<1>8. Apart'
  BY <1>1, <1>4 DEF Apart
<1>9. ASSUME NEW p \in Process PROVE Place(p)' /\ ~ InVersion(p)'
  BY <1>5, Zenon DEF Place, InVersion
<1>10. InfoFromOwnArchive'
  BY <1>5, Zenon DEF CollectInv, InfoFromOwnArchive
<1>11. ASSUME NEW v \in Version, NEW t \in archives[v], ~ HasInfo(v, t)
       PROVE  Pending(v, t)'
  <2>1. v \in todo
    BY <1>11, Zenon DEF todo
  <2>2. PICK x \in 1 .. Len(list) : list[x] = v
    BY <1>2, <2>1, Zenon
  <2>3. PICK p \in Process : \E j \in 1 .. Len(Batch(list, p)) : Batch(list, p)[j] = v
    BY <1>4, <2>2, Zenon
  <2>4. \E j \in 1 .. Len(queue'[p]) : queue'[p][j] = v
    BY <1>1, <2>3, Zenon
  <2> QED
    BY <1>9, <2>4, Zenon DEF Pending
<1>12. NothingLost'
  <2>1. \A v \in Version : \A t : HasInfo(v, t)' = HasInfo(v, t)
    BY <1>5, Zenon DEF HasInfo
  <2> QED
    BY <1>5, <1>11, <2>1, Zenon DEF NothingLost
<1> QED
  BY <1>7, <1>8, <1>9, <1>10, <1>12 DEF CollectInv

\* The script is killed: a file that lcov had begun is of its own test.
LEMMA KillStep ==
  ASSUME CollectAssumption, CollectInv, Kill
  PROVE  CollectInv'
<1>1. CollectTypes /\ InfoFromOwnArchive /\ \A p \in Process : Place(p)
  BY Zenon DEF CollectInv
<1>2. PICK begun \in SUBSET {p \in Process : c_pc[p] = "lcov" /\ gcda[Tree(p)] # {}} :
        info_files' = [v \in Version |->
                         LET now == {Archive(p) : p \in {q \in begun : Tree(q) = v}}
                         IN  [t \in DOMAIN info_files[v] \cup now |->
                                IF t \in now THEN gcda[v] ELSE info_files[v][t]]]
  BY Zenon DEF Kill
<1> DEFINE now(v) == {Archive(p) : p \in {q \in begun : Tree(q) = v}}
<1>3. ASSUME NEW v \in Version, NEW t \in now(v)
      PROVE  t \in archives[v] /\ gcda[v] = {t}
  <2>1. PICK p \in begun : Tree(p) = v /\ t = Archive(p)
    BY Zenon
  <2>2. p \in Process /\ c_pc[p] = "lcov" /\ gcda[v] # {} /\ Place(p) /\ InVersion(p)
    BY <1>1, <2>1, Zenon DEF InVersion
  <2>3. listing[p] # << >> /\ gcda[v] = {t}
    BY <2>1, <2>2, Zenon DEF Place
  <2> QED
    BY <1>1, <2>1, <2>2, <2>3, OwnArchive
<1>4. ASSUME NEW v \in Version
      PROVE  info_files'[v] = [t \in DOMAIN info_files[v] \cup now(v) |->
                                 IF t \in now(v) THEN gcda[v] ELSE info_files[v][t]]
  BY <1>2, Zenon
<1> HIDE DEF now
<1>5. archives' = archives
  BY Zenon DEF Kill
<1>6. InfoFromOwnArchive'
  <2> SUFFICES ASSUME NEW v \in Version, NEW t \in DOMAIN info_files'[v]
               PROVE  t \in archives[v] /\ info_files'[v][t] = {t}
    BY <1>5, Zenon DEF InfoFromOwnArchive
  <2>1. t \in DOMAIN info_files[v] \cup now(v)
    BY <1>4, Zenon
  <2>2. info_files'[v][t] = IF t \in now(v) THEN gcda[v] ELSE info_files[v][t]
    BY <1>4, <2>1, Zenon
  <2>3. CASE t \in now(v)
    BY <1>3, <2>2, <2>3, Zenon
  <2>4. CASE t \notin now(v)
    BY <1>1, <2>1, <2>2, <2>4, Zenon DEF InfoFromOwnArchive
  <2> QED
    BY <2>3, <2>4, Zenon
<1>7. /\ c_pc' = [p \in Process |-> "off"] /\ queue' = [p \in Process |-> << >>]
      /\ listing' = [p \in Process |-> << >>] /\ gcda' = gcda
      /\ budget.kills > 0 /\ budget' = [budget EXCEPT !.kills = @ - 1]
  BY Zenon DEF Kill
<1>8. /\ budget' \in [kills : Nat, fails : Nat] /\ budget'.kills < MaxScriptKills
      /\ budget'.fails =< MaxFails
  <2>1. /\ budget \in [kills : Nat, fails : Nat] /\ MaxScriptKills \in Nat
        /\ budget.kills =< MaxScriptKills /\ budget.fails =< MaxFails
    BY <1>1, Zenon DEF CollectTypes, CollectAssumption
  <2>2. /\ budget.kills \in Nat /\ budget.fails \in Nat
        /\ budget' = [kills |-> budget.kills - 1, fails |-> budget.fails]
    BY <1>7, <2>1, Zenon
  <2>3. budget.kills - 1 \in Nat /\ budget.kills - 1 < MaxScriptKills
    BY <1>7, <2>1, <2>2
  <2> QED
    BY <2>1, <2>2, <2>3, Zenon
<1>9. DOMAIN info_files' = Version
  BY <1>2, Zenon
<1>10. CollectTypes'
  BY <1>1, <1>5, <1>7, <1>8, <1>9 DEF CollectTypes, AllOff, CollectAssumption
<1>11. Apart' /\ \A p \in Process : Place(p)'
  BY <1>7 DEF Apart, Place, InVersion
<1>12. NothingLost'
  BY <1>7, Zenon DEF NothingLost, AllOff
<1> QED
  BY <1>6, <1>10, <1>11, <1>12, Zenon DEF CollectInv

\* The invariant holds when nothing has been parsed.
LEMMA CollectStarts ==
  ASSUME CollectAssumption, CollectInit
  PROVE  CollectInv
<1>1. CollectTypes
  BY DEF CollectInit, CollectTypes, AllOff, CollectAssumption
<1>2. Apart /\ \A p \in Process : Place(p)
  BY DEF CollectInit, Apart, Place, InVersion
<1>3. InfoFromOwnArchive /\ NothingLost
  BY Zenon DEF CollectInit, InfoFromOwnArchive, NothingLost, NoInfo, AllOff
<1> QED
  BY <1>1, <1>2, <1>3, Zenon DEF CollectInv

\* The invariant is inductive.
LEMMA CollectSteps ==
  ASSUME CollectAssumption, CollectInv, [CollectNext]_collect_vars
  PROVE  CollectInv'
<1>1. CASE UNCHANGED collect_vars
  <2>1. CollectTypes' /\ Apart' /\ InfoFromOwnArchive'
    BY <1>1 DEF CollectInv, CollectTypes, Apart, InfoFromOwnArchive, AllOff, collect_vars
  <2>2. \A p \in Process : Place(p)'
    BY <1>1, Zenon DEF CollectInv, Place, InVersion, Tree, Archive, Full, collect_vars
  <2>3. NothingLost'
    BY <1>1 DEF CollectInv, NothingLost, Pending, InVersion, Full, AllOff, HasInfo, collect_vars
  <2> QED
    BY <2>1, <2>2, <2>3, Zenon DEF CollectInv
<1> QED
  BY <1>1, WorkStep, StartStep, KillStep, Zenon DEF CollectNext

\* An .info file shows the counters of its own test and of no other, with any
\* number of processes, however often commands fail and the script is killed.
THEOREM InfoIsOwn ==
  ASSUME CollectAssumption
  PROVE  CollectSpec => []InfoFromOwnArchive
<1>1. CollectInit => CollectInv
  BY CollectStarts, Zenon
<1>2. CollectInv /\ [CollectNext]_collect_vars => CollectInv'
  BY CollectSteps, Zenon
<1>3. CollectInv => InfoFromOwnArchive
  BY DEF CollectInv
<1> QED
  BY <1>1, <1>2, <1>3, PTL DEF CollectSpec

\* When nothing fails the joined processes have parsed every archive: the
\* batches leave no version out, for any number of versions and processes.
THEOREM NothingLeftOut ==
  ASSUME CollectAssumption
  PROVE  CollectSpec => []AllParsed
<1>1. CollectInit => CollectInv
  BY CollectStarts, Zenon
<1>2. CollectInv /\ [CollectNext]_collect_vars => CollectInv'
  BY CollectSteps, Zenon
<1>3. CollectInv => AllParsed
  <2> SUFFICES ASSUME CollectInv, Full, \A p \in Process : c_pc[p] = "joined",
                      NEW v \in Version, NEW t \in archives[v]
               PROVE  t \in DOMAIN info_files[v]
    BY Zenon DEF AllParsed, Full
  <2>1. \A p \in Process : queue[p] = << >>
    BY Zenon DEF CollectInv, Place
  <2>2. ~ Pending(v, t)
    BY <2>1 DEF Pending
  <2>3. 1 \in Process
    BY DEF Process, CollectAssumption
  <2>4. ~ AllOff
    BY <2>3, Zenon DEF AllOff
  <2> QED
    BY <2>2, <2>4, Zenon DEF CollectInv, NothingLost, HasInfo
<1> QED
  BY <1>1, <1>2, <1>3, PTL DEF CollectSpec
=============================================================================
