-------------------------- MODULE Approaches_proofs ------------------------
(***************************************************************************)
(* The two approaches that compare test cases with those emitted before:   *)
(* the hashes of FAST.py and the distances of ARP.py.  For any number of   *)
(* files, texts, hash functions, metric and sample size, each file is      *)
(* emitted once, in steps of the contract Prioritizer, and the next one is *)
(* what the approach promises: a file unlike the ones before it while      *)
(* there is one, the farthest of a sample.                                 *)
(***************************************************************************)
EXTENDS FAST, ARP, Lemmas

\* The insertion loop: what is in the index, and that no path came twice.
Indexed ==
  /\ idx \in 0 .. FastN
  /\ f_pc = "insert" => /\ lsh = {f_test_cases[c] : c \in 0 .. idx - 1}
                        /\ \A c, d \in 0 .. idx - 1 : f_test_cases[c] = f_test_cases[d] => c = d
  /\ f_pc = "raised" => ~ Distinct
  /\ f_pc \in {"loop", "done"} => Distinct

\* selected_set is what prioritized_list says in terms of paths.
Selected ==
  /\ f_prioritized_list \in Seq(FastCases)
  /\ selected_set = {f_test_cases[f_prioritized_list[i]] : i \in 1 .. Len(f_prioritized_list)}
  /\ \A i, j \in 1 .. Len(f_prioritized_list) :
       f_prioritized_list[i] = f_prioritized_list[j] => i = j
  /\ f_pc \in {"insert", "raised"} => f_prioritized_list = << >>
  /\ f_pc = "done" => Len(f_prioritized_list) = FastN

\* The inductive invariant.  That paths are distinct, which the index has
\* checked, makes a path that was not selected a position not emitted.
IInv ==
  /\ f_test_cases \in [FastCases -> Path]
  /\ f_pc \in {"insert", "loop", "done", "raised"}
  /\ Indexed /\ Selected

\* A round emits the position of a path that was not selected.
LEMMA PickIsNew ==
  ASSUME FastParameters, IInv, NEW candidate, Pick(candidate)
  PROVE  /\ idx_map(candidate) \in FastCases
         /\ f_test_cases[idx_map(candidate)] = candidate
         /\ \A i \in 1 .. Len(f_prioritized_list) : f_prioritized_list[i] # idx_map(candidate)
<1>1. candidate \in {f_test_cases[c] : c \in FastCases} \ selected_set
  BY Zenon DEF Pick, Select, Candidates
<1>2. PICK c \in FastCases : f_test_cases[c] = candidate
  BY <1>1, Zenon
<1>3. {d \in FastCases : f_test_cases[d] = candidate} = {c}
  BY <1>2, Zenon DEF IInv, Indexed, Distinct, Pick
<1>4. c \in Nat
  BY DEF FastParameters, FastCases
<1>5. idx_map(candidate) = c
  BY <1>3, <1>4 DEF idx_map, Max
<1> QED
  BY <1>1, <1>2, <1>5, Zenon DEF IInv, Selected

\* The call starts with nothing in the index.
LEMMA InitIInv == FastParameters /\ FastInit => IInv
  BY DEF FastParameters, FastInit, IInv, Indexed, Selected, FastCases

\* An insertion refuses exactly a path that came before.
LEMMA InsertIInv == ASSUME FastParameters, IInv, Insert PROVE IInv'
<1>1. /\ idx \in 0 .. FastN - 1 /\ FastN \in Nat
      /\ lsh = {f_test_cases[c] : c \in 0 .. idx - 1}
      /\ \A c, d \in 0 .. idx - 1 : f_test_cases[c] = f_test_cases[d] => c = d
      /\ f_test_cases' = f_test_cases /\ f_prioritized_list' = f_prioritized_list
      /\ selected_set' = selected_set /\ f_prioritized_list = << >>
      /\ f_pc = "insert"
  BY DEF FastParameters, IInv, Indexed, Selected, Insert, fast_input
<1>2. Selected' /\ f_test_cases' \in [FastCases -> Path]
  BY <1>1 DEF IInv, Selected, Insert
<1>3. CASE f_test_cases[idx] \in lsh
  <2>1. PICK c \in 0 .. idx - 1 : f_test_cases[c] = f_test_cases[idx]
    BY <1>1, <1>3, Zenon
  <2>2. c \in FastCases /\ idx \in FastCases /\ c # idx
    BY <1>1 DEF FastCases
  <2>3. ~ Distinct'
    BY <1>1, <2>1, <2>2, Zenon DEF Distinct
  <2> QED
    BY <1>1, <1>2, <1>3, <2>3, Zenon DEF IInv, Indexed, Insert
<1>4. CASE f_test_cases[idx] \notin lsh
  <2>1. /\ lsh' = lsh \cup {f_test_cases[idx]} /\ idx' = idx + 1 /\ f_pc' = "insert"
    BY <1>1, <1>4, Zenon DEF Insert
  <2>2. 0 .. idx' - 1 = (0 .. idx - 1) \cup {idx} /\ idx' \in 0 .. FastN
    BY <1>1, <2>1
  <2>3. lsh' = {f_test_cases'[c] : c \in 0 .. idx' - 1}
    BY <1>1, <2>1, <2>2
  <2>4. \A c, d \in 0 .. idx' - 1 : f_test_cases'[c] = f_test_cases'[d] => c = d
    BY <1>1, <1>4, <2>2, Zenon
  <2> QED
    BY <1>2, <2>1, <2>2, <2>3, <2>4, Zenon DEF IInv, Indexed
<1> QED
  BY <1>3, <1>4, Zenon

\* When all paths are in the index they are distinct.
LEMMA StartLoopIInv == ASSUME FastParameters, IInv, StartLoop PROVE IInv'
<1>1. /\ f_pc' = "loop" /\ idx' = FastN /\ idx = FastN /\ lsh' = lsh /\ f_test_cases' = f_test_cases
      /\ f_prioritized_list' = f_prioritized_list /\ selected_set' = selected_set
  BY Zenon DEF StartLoop, fast_input
<1>2. Distinct'
  BY <1>1, Zenon DEF IInv, Indexed, StartLoop, Distinct, FastCases
<1> QED
  BY <1>1, <1>2 DEF FastParameters, IInv, Indexed, Selected

\* A round adds one path and its position.
LEMMA PickIInv ==
  ASSUME FastParameters, IInv, NEW candidate, Pick(candidate) PROVE IInv'
<1> DEFINE c == idx_map(candidate)
<1>1. /\ c \in FastCases /\ f_test_cases[c] = candidate
      /\ \A i \in 1 .. Len(f_prioritized_list) : f_prioritized_list[i] # c
  BY PickIsNew, Zenon
<1>2. /\ f_prioritized_list' = Append(f_prioritized_list, c)
      /\ selected_set' = selected_set \cup {candidate}
      /\ f_test_cases' = f_test_cases /\ idx' = idx /\ f_pc' = "loop" /\ f_pc = "loop"
  BY Zenon DEF Pick, fast_input
<1> HIDE DEF c
<1>3. /\ f_prioritized_list' \in Seq(FastCases)
      /\ Len(f_prioritized_list') = Len(f_prioritized_list) + 1
      /\ \A i \in 1 .. Len(f_prioritized_list) : f_prioritized_list'[i] = f_prioritized_list[i]
      /\ f_prioritized_list'[Len(f_prioritized_list) + 1] = c
      /\ Len(f_prioritized_list) \in Nat
  BY <1>1, <1>2 DEF IInv, Selected
<1>4. 1 .. Len(f_prioritized_list') = (1 .. Len(f_prioritized_list)) \cup {Len(f_prioritized_list) + 1}
  BY <1>3
<1>5. selected_set' = {f_test_cases'[f_prioritized_list'[i]] : i \in 1 .. Len(f_prioritized_list')}
  BY <1>1, <1>2, <1>3, <1>4 DEF IInv, Selected
<1>6. \A i, j \in 1 .. Len(f_prioritized_list') :
         f_prioritized_list'[i] = f_prioritized_list'[j] => i = j
  BY <1>1, <1>3, <1>4 DEF IInv, Selected
<1>7. Indexed'
  BY <1>2, Zenon DEF IInv, Indexed, Distinct
<1> QED
  BY <1>2, <1>3, <1>5, <1>6, <1>7, Zenon DEF IInv, Selected

\* IInv is inductive.
LEMMA NextIInv == ASSUME FastParameters PROVE IInv /\ [FastNext]_fast_vars => IInv'
<1>1. ASSUME IInv, FastReturn PROVE IInv'
  BY <1>1 DEF FastReturn, fast_input, IInv, Indexed, Selected, Distinct
<1>2. ASSUME IInv, UNCHANGED fast_vars PROVE IInv'
  BY <1>2 DEF fast_vars, IInv, Indexed, Selected, Distinct
<1> QED
  BY <1>1, <1>2, InsertIInv, StartLoopIInv, PickIInv, Zenon DEF FastNext

\* The invariant holds throughout.
LEMMA FastInvariant ==
  ASSUME FastParameters
  PROVE  FastSpec => []IInv
<1>1. FastInit => IInv
  BY InitIInv, Zenon
<1>2. IInv /\ [FastNext]_fast_vars => IInv'
  BY NextIInv, Zenon
<1> QED
  BY <1>1, <1>2, PTL DEF FastSpec

\* FAST returns an order in which no position comes twice, and as many
\* positions as there are files; it raises instead only when a path is listed
\* twice.
THEOREM FastEmitsOnce ==
  ASSUME FastParameters
  PROVE  FastSpec => [](/\ \A i, j \in 1 .. Len(f_prioritized_list) :
                             f_prioritized_list[i] = f_prioritized_list[j] => i = j
                        /\ f_pc = "done" => Len(f_prioritized_list) = FastN
                        /\ f_pc = "raised" => ~ Distinct)
<1>1. FastInit => IInv
  BY InitIInv, Zenon
<1>2. IInv /\ [FastNext]_fast_vars => IInv'
  BY NextIInv, Zenon
<1>3. IInv => /\ \A i, j \in 1 .. Len(f_prioritized_list) :
                   f_prioritized_list[i] = f_prioritized_list[j] => i = j
              /\ f_pc = "done" => Len(f_prioritized_list) = FastN
              /\ f_pc = "raised" => ~ Distinct
  BY Zenon DEF IInv, Selected, Indexed
<1> QED
  BY <1>1, <1>2, <1>3, PTL DEF FastSpec

\* Every step of FAST is a step of the prioritiser's contract or none.
THEOREM FastRefinesPrioritizer ==
  ASSUME FastParameters
  PROVE  FastSpec => FastContract!Init /\ [][FastContract!Next]_FastContract!vars
<1>1. FastInit => IInv
  BY InitIInv, Zenon
<1>2. IInv /\ [FastNext]_fast_vars => IInv'
  BY NextIInv, Zenon
<1>3. FastInit => FastContract!Init
  BY Zenon DEF FastInit, FastContract!Init, FastParameters
<1>4. ASSUME IInv, [FastNext]_fast_vars PROVE [FastContract!Next]_FastContract!vars
  <2>1. CASE \E candidate \in Path : Pick(candidate)
    <3>1. PICK candidate \in Path : Pick(candidate)
      BY <2>1, Zenon
    <3>2. /\ idx_map(candidate) \in FastCases
          /\ \A i \in 1 .. Len(f_prioritized_list) : f_prioritized_list[i] # idx_map(candidate)
      BY <1>4, <3>1, PickIsNew, Zenon
    <3>3. Distinct /\ Distinct' /\ f_prioritized_list' = Append(f_prioritized_list, idx_map(candidate))
      BY <1>4, <3>1, Zenon DEF Pick, fast_input, IInv, Indexed, Distinct
    <3>4. DOMAIN f_prioritized_list = 1 .. Len(f_prioritized_list)
      BY <1>4 DEF IInv, Selected
    <3>5. FastContract!Emit(idx_map(candidate))
      BY <3>2, <3>3, <3>4, Zenon DEF FastContract!Emit, FastContract!Emitted, FastCases
    <3> QED
      BY <3>2, <3>3, <3>5, Zenon DEF FastContract!Next, FastCases
  <2>2. CASE Insert \/ StartLoop \/ FastReturn \/ UNCHANGED fast_vars
    <3>1. f_test_cases' = f_test_cases /\ f_prioritized_list' = f_prioritized_list
      BY <2>2, Zenon DEF Insert, StartLoop, FastReturn, fast_vars, fast_input
    <3> QED
      BY <3>1, Zenon DEF FastContract!vars, Distinct
  <2> QED
    BY <1>4, <2>1, <2>2, Zenon DEF FastNext
<1> QED
  BY <1>1, <1>2, <1>3, <1>4, PTL DEF FastSpec

-----------------------------------------------------------------------------
(* The signature and the texts *)

\* The least element of a set of natural numbers.
LEMMA MinIs ==
  ASSUME NEW X \in SUBSET Nat, X # {}
  PROVE  Min(X) \in X /\ \A x \in X : Min(X) =< x
<1>1. PICK x \in X : \A y \in X : x =< y
  BY Least, Zenon
<1> QED
  BY <1>1, Zenon DEF Min

\* The minimum of two minima is the minimum of the union.
LEMMA MinUnion ==
  ASSUME NEW X \in SUBSET Nat, X # {}, NEW Y \in SUBSET Nat, Y # {}
  PROVE  Min({Min(X), Min(Y)}) = Min(X \cup Y)
<1>1. /\ Min(X) \in X /\ \A x \in X : Min(X) =< x
      /\ Min(Y) \in Y /\ \A y \in Y : Min(Y) =< y
  BY MinIs, Zenon
<1> DEFINE Z == {Min(X), Min(Y)}
           U == X \cup Y
<1>2. /\ Z \in SUBSET Nat /\ Z # {} /\ U \in SUBSET Nat /\ U # {}
  BY <1>1, Zenon
<1>3. /\ Min(Z) \in Z /\ \A z \in Z : Min(Z) =< z
      /\ Min(U) \in U /\ \A u \in U : Min(U) =< u
  <2> HIDE DEF Z, U
  <2> QED
    BY <1>2, MinIs, Zenon
<1>4. PICK x, y, z, u \in Nat : x = Min(X) /\ y = Min(Y) /\ z = Min(Z) /\ u = Min(U)
  BY <1>1, <1>2, <1>3, Zenon
<1>5. z =< x /\ z =< y /\ (z = x \/ z = y)
  BY <1>3, <1>4, Zenon
<1>6. (\A v \in X : x =< v) /\ (\A v \in Y : y =< v) /\ x \in X /\ y \in Y
  BY <1>1, <1>4, Zenon
<1>7. u =< x /\ u =< y /\ (u \in X \/ u \in Y)
  BY <1>3, <1>4, <1>6, Zenon
<1>8. x =< u \/ y =< u
  BY <1>6, <1>7, Zenon
<1> HIDE DEF Z, U
<1>9. z = u
  BY <1>5, <1>7, <1>8
<1> QED
  BY <1>4, <1>9, Zenon DEF Z, U

Words == SUBSET (Token \cup {Nil})

\* The hash functions of the call, and what the texts are.
Hashing ==
  /\ text \in [Path -> SUBSET Token] /\ hash \in Hashes

\* The union of two signatures is that of both texts.
LEMMA UnionOfTexts ==
  ASSUME FastParameters, Hashing, NEW A \in Words, NEW B \in Words
  PROVE  union(MHSignature(A), MHSignature(B)) = MHSignature(A \cup B)
<1>1. MaxHash \in Nat
  BY FS_CardinalityType DEF FastParameters, MaxHash
<1>2. ASSUME NEW i \in 1 .. h
      PROVE  Min({MHSignature(A)[i], MHSignature(B)[i]}) = MHSignature(A \cup B)[i]
  <2> DEFINE X == {hash[i][t] : t \in A} \cup {MaxHash}
             Y == {hash[i][t] : t \in B} \cup {MaxHash}
             Z == {hash[i][t] : t \in A \cup B} \cup {MaxHash}
  <2>1. MHSignature(A)[i] = Min(X) /\ MHSignature(B)[i] = Min(Y)
        /\ MHSignature(A \cup B)[i] = Min(Z)
    BY Zenon DEF MHSignature
  <2>2. \A t \in Token \cup {Nil} : hash[i][t] \in Nat
    <3>1. hash[i] \in [Token \cup {Nil} -> 1 .. MaxHash - 1]
      BY Zenon DEF FastParameters, Hashing
    <3> QED
      BY <1>1, <3>1
  <2>3. X \in SUBSET Nat /\ X # {} /\ Y \in SUBSET Nat /\ Y # {}
    BY <1>1, <2>2, Zenon DEF Words
  <2>4. Z = X \cup Y
    BY Zenon
  <2> HIDE DEF X, Y, Z
  <2> QED
    BY <2>1, <2>3, <2>4, MinUnion, Zenon
<1> QED
  BY <1>2, Zenon DEF union, MHSignature

\* What SeenAt is defined to be.
WordsAt(i) == IF i = 1 THEN {Nil} ELSE SeenAt[i - 1] \cup TextAt(i - 1)
SomeSimilar(i, words) == \E c \in LeftAt(i) : Similar(words, f_test_cases[c])
SeenIs ==
  \A i \in 1 .. FastN : SeenAt[i] = IF SomeSimilar(i, WordsAt(i)) THEN WordsAt(i) ELSE {Nil}

\* The recursive function has the values its definition gives.
LEMMA SeenAtIs == FastParameters => SeenIs
<1> SUFFICES ASSUME FastParameters PROVE SeenIs
  BY Zenon
<1> DEFINE S == SUBSET ((UNION {TextAt(j) : j \in 1 .. FastN}) \cup {Nil})
           Step(i, words) == IF SomeSimilar(i, words) THEN words ELSE {Nil}
           hh == [x \in Nat \X S |->
                    IF x[1] + 1 \in 1 .. FastN THEN Step(x[1] + 2, x[2] \cup TextAt(x[1] + 1))
                    ELSE {Nil}]
           words(f, i) == IF i = 1 THEN {Nil} ELSE f[i - 1] \cup TextAt(i - 1)
           body(f) == [i \in 1 .. FastN |-> Step(i, words(f, i))]
           iter == CHOOSE f : f = body(f)
<1>1. FastN \in Nat
  BY Zenon DEF FastParameters
<1>2. SeenAt = iter
  BY Zenon DEF SeenAt, SomeSimilar
<1>3. {Nil} \in S /\ hh \in [Nat \X S -> S]
  <2>1. {Nil} \in S /\ \A j \in 1 .. FastN : TextAt(j) \in S
    BY Zenon
  <2>2. \A v, w \in S : v \cup w \in S
    BY Zenon
  <2>3. ASSUME NEW x \in Nat \X S PROVE hh[x] \in S
    <3>1. x[2] \in S
      BY Zenon
    <3> HIDE DEF S
    <3> QED
      BY <2>1, <2>2, <3>1, Zenon
  <2> HIDE DEF S
  <2> QED
    BY <2>1, <2>3, Zenon
<1>4. PICK g : Iterates(g, S, {Nil}, hh)
  <2> HIDE DEF S, hh
  <2> QED
    BY <1>3, Recursion, Zenon
<1> HIDE DEF Step
<1>5. /\ g \in [Nat -> S] /\ g[0] = {Nil}
      /\ \A n \in Nat : n + 1 \in 1 .. FastN => g[n + 1] = Step(n + 2, g[n] \cup TextAt(n + 1))
  <2> HIDE DEF S
  <2> QED
    BY <1>4, Zenon DEF Iterates
<1> HIDE DEF hh
<1> DEFINE c == [i \in 1 .. FastN |-> g[i - 1]]
<1>6. c = body(c)
  <2>1. ASSUME NEW i \in 1 .. FastN PROVE c[i] = Step(i, words(c, i))
    <3>1. CASE i = 1
      <4>1. words(c, i) = {Nil} /\ c[i] = {Nil}
        BY <1>5, <3>1
      <4>2. \A w : w = {Nil} => Step(i, w) = {Nil}
        BY Zenon DEF Step
      <4> HIDE DEF words, c
      <4> QED
        BY <4>1, <4>2, Zenon
    <3>2. CASE i # 1
      <4>1. PICK n \in Nat : n + 1 \in 1 .. FastN /\ n + 2 = i /\ i - 1 = n + 1 /\ (i - 1) - 1 = n
        <5>1. i - 2 \in Nat /\ (i - 2) + 1 \in 1 .. FastN /\ (i - 2) + 2 = i
              /\ i - 1 = (i - 2) + 1 /\ (i - 1) - 1 = i - 2 
          BY <1>1, <3>2
        <5> QED
          BY <5>1, Zenon
      <4>2. c[i] = g[n + 1] /\ c[i - 1] = g[n]
        BY <4>1, Zenon
      <4>3. words(c, i) = g[n] \cup TextAt(n + 1)
        BY <3>2, <4>1, <4>2, Zenon
      <4>4. g[n + 1] = Step(n + 2, g[n] \cup TextAt(n + 1))
        BY <1>5, <4>1, Zenon
      <4> HIDE DEF words, c
      <4> QED
        BY <4>1, <4>2, <4>3, <4>4, Zenon
    <3> QED
      BY <3>1, <3>2, Zenon
  <2> QED
    BY <2>1, Zenon
<1>7. iter = body(iter)
  <2> HIDE DEF body, c
  <2> QED
    BY <1>6, Zenon
<1> HIDE DEF iter
<1>8. \A i \in 1 .. FastN : iter[i] = Step(i, words(iter, i))
  <2> DEFINE bi == body(iter)
  <2>1. \A i \in 1 .. FastN : bi[i] = Step(i, words(iter, i))
    BY Zenon
  <2> HIDE DEF body
  <2> QED
    BY <1>7, <2>1, Zenon
<1> HIDE DEF body
<1> QED
  BY <1>2, <1>8, Zenon DEF SeenIs, WordsAt, Step

\* Appending to the order leaves what was seen before.
LEMMA SeenStays ==
  ASSUME FastParameters, SeenIs, SeenIs', UNCHANGED fast_input, NEW n \in Nat,
         \A i \in 1 .. n : f_prioritized_list'[i] = f_prioritized_list[i]
  PROVE  /\ \A i \in 1 .. n + 1 : LeftAt(i)' = LeftAt(i)
         /\ \A i \in 1 .. n : TextAt(i)' = TextAt(i)
         /\ \A w, x : Similar(w, x)' = Similar(w, x)
         /\ \A i \in 1 .. FastN : i =< n + 1 => SeenAt'[i] = SeenAt[i]
<1>1. ASSUME NEW i \in 1 .. n + 1 PROVE LeftAt(i)' = LeftAt(i)
  <2>1. \A j \in 1 .. i - 1 : f_prioritized_list'[j] = f_prioritized_list[j]
    OBVIOUS
  <2> QED
    BY <2>1, Zenon DEF LeftAt
<1>2. \A i \in 1 .. n : TextAt(i)' = TextAt(i)
  BY Zenon DEF TextAt, fast_input
<1>3. \A w, x : Similar(w, x)' = Similar(w, x)
  BY DEF Similar, InBucket, MHSignature, mh_map, fast_input
<1>4. ASSUME NEW i \in 1 .. n + 1, NEW w PROVE SomeSimilar(i, w)' = SomeSimilar(i, w)
  <2>1. f_test_cases' = f_test_cases
    BY Zenon DEF fast_input
  <2> QED
    BY <1>1, <1>3, <2>1, Zenon DEF SomeSimilar
<1> DEFINE T == {i \in Nat : i + 1 =< n + 1 /\ i + 1 =< FastN => SeenAt'[i + 1] = SeenAt[i + 1]}
<1>5. FastN \in Nat
  BY Zenon DEF FastParameters
<1>6. ASSUME NEW i \in 1 .. FastN, i =< n + 1, WordsAt(i)' = WordsAt(i)
      PROVE  SeenAt'[i] = SeenAt[i]
  <2>1. SeenAt[i] = IF SomeSimilar(i, WordsAt(i)) THEN WordsAt(i) ELSE {Nil}
    BY Zenon DEF SeenIs
  <2>2. SeenAt'[i] = IF SomeSimilar(i, WordsAt(i))' THEN WordsAt(i)' ELSE {Nil}
    BY Zenon DEF SeenIs
  <2>3. SomeSimilar(i, WordsAt(i))' = SomeSimilar(i, WordsAt(i))
    <3>1. PICK w : w = WordsAt(i)
      BY Zenon
    <3>2. SomeSimilar(i, w)' = SomeSimilar(i, w)
      BY <1>4, <1>5, <1>6
    <3> QED
      BY <1>6, <3>1, <3>2, Zenon
  <2> QED
    BY <1>6, <2>1, <2>2, <2>3, Zenon
<1>7. 0 \in T
  <2>1. WordsAt(1)' = WordsAt(1)
    BY Zenon DEF WordsAt
  <2> QED
    BY <1>5, <1>6, <2>1
<1>8. ASSUME NEW i \in Nat, i \in T PROVE i + 1 \in T
  <2> SUFFICES ASSUME (i + 1) + 1 =< n + 1, (i + 1) + 1 =< FastN
               PROVE  SeenAt'[(i + 1) + 1] = SeenAt[(i + 1) + 1]
    OBVIOUS
  <2>1. SeenAt'[i + 1] = SeenAt[i + 1]
    BY <1>5, <1>8
  <2>2. TextAt(i + 1)' = TextAt(i + 1)
    BY <1>2
  <2>3. ((i + 1) + 1) - 1 = i + 1 /\ (i + 1) + 1 # 1 /\ (i + 1) + 1 \in 1 .. FastN
    BY <1>5
  <2>4. WordsAt((i + 1) + 1)' = WordsAt((i + 1) + 1)
    BY <2>1, <2>2, <2>3, Zenon DEF WordsAt
  <2> QED
    BY <1>6, <2>3, <2>4, Zenon
<1>9. \A i \in Nat : i \in T
  <2> HIDE DEF T
  <2> QED
    BY <1>7, <1>8, NatInduces, Zenon
<1>10. ASSUME NEW i \in 1 .. FastN, i =< n + 1 PROVE SeenAt'[i] = SeenAt[i]
  <2>1. i - 1 \in Nat /\ (i - 1) + 1 = i
    BY <1>5
  <2>2. i - 1 \in T
    BY <1>9, <2>1, Zenon
  <2> QED
    BY <1>5, <1>10, <2>1, <2>2
<1> QED
  BY <1>1, <1>2, <1>3, <1>10, Zenon

\* No more positions are emitted than there are.
LEMMA EmittedAtMost ==
  ASSUME FastParameters, IInv
  PROVE  Len(f_prioritized_list) \in Nat /\ Len(f_prioritized_list) =< FastN
<1>1. PICK n \in Nat : n = Len(f_prioritized_list)
  BY DEF IInv, Selected
<1> DEFINE I == 1 .. n
<1>2. IsFiniteSet(I) /\ Cardinality(I) = n
  BY FS_Interval
<1>3. IsFiniteSet(FastCases) /\ Cardinality(FastCases) = FastN
  <2>1. FastN \in Nat \ {0}
    BY Zenon DEF FastParameters
  <2>2. /\ 0 \in Int /\ FastN - 1 \in Int
        /\ (IF 0 > FastN - 1 THEN 0 ELSE FastN - 1 - 0 + 1) = FastN
    BY <2>1
  <2>3. /\ IsFiniteSet(0 .. FastN - 1)
        /\ Cardinality(0 .. FastN - 1) = IF 0 > FastN - 1 THEN 0 ELSE FastN - 1 - 0 + 1
    BY <2>2, FS_Interval, Zenon
  <2> QED
    BY <2>2, <2>3 DEF FastCases
<1>4. f_prioritized_list \in [I -> FastCases] /\ DOMAIN f_prioritized_list = I
  BY <1>1 DEF IInv, Selected
<1>5. \A i, j \in I : f_prioritized_list[i] = f_prioritized_list[j] => i = j
  BY <1>1, Zenon DEF IInv, Selected
<1> HIDE DEF I
<1>6. f_prioritized_list \in Injection(I, FastCases)
  BY <1>4, <1>5, Zenon DEF Injection, IsInjective
<1> QED
  BY <1>1, <1>2, <1>3, <1>6, FS_Injection

\* The index has the files that are left, and the signature of the loop is
\* that of the texts seen.
Tracks ==
  /\ lsh = {f_test_cases[c] : c \in LeftAt(Len(f_prioritized_list) + 1)}
  /\ WordsAt(Len(f_prioritized_list) + 1) \in Words
  /\ Mv = MHSignature(WordsAt(Len(f_prioritized_list) + 1))

FirstNovel(i) ==
  Similar(SeenAt[i], f_test_cases[f_prioritized_list[i]]) =>
    \A c \in LeftAt(i) : Similar(SeenAt[i], f_test_cases[c])

Novel ==
  /\ Hashing
  /\ f_pc = "loop" => Tracks
  /\ \A i \in 1 .. Len(f_prioritized_list) : FirstNovel(i)

\* The choice of a round in terms of the texts.
LEMMA PickSeen ==
  ASSUME FastParameters, IInv, SeenIs, Hashing, Tracks, NEW candidate, Pick(candidate),
         NEW n \in Nat, n = Len(f_prioritized_list), n + 1 \in 1 .. FastN
  PROVE  /\ SeenAt[n + 1] \in Words
         /\ Mv' = MHSignature(SeenAt[n + 1] \cup text[candidate])
         /\ text[candidate] \in Words
         /\ Similar(SeenAt[n + 1], candidate) =>
              \A c \in LeftAt(n + 1) : Similar(SeenAt[n + 1], f_test_cases[c])
<1> DEFINE left == {f_test_cases[c] : c \in LeftAt(n + 1)}
           words == WordsAt(n + 1)
           seen == SeenAt[n + 1]
           from == IF query(Mv) = {} THEN Start ELSE Mv
<1>1. lsh = left /\ words \in Words /\ Mv = MHSignature(words)
  BY Zenon DEF Tracks
<1>2. \A w : query(MHSignature(w)) = {x \in left : Similar(w, x)}
  BY <1>1, Zenon DEF query, Similar
<1>3. query(Mv) = {} <=> ~ SomeSimilar(n + 1, words)
  <2>1. query(Mv) = {x \in left : Similar(words, x)}
    BY <1>1, <1>2, Zenon
  <2> HIDE DEF words
  <2> QED
    BY <2>1, Zenon DEF SomeSimilar
<1>4. seen = IF SomeSimilar(n + 1, words) THEN words ELSE {Nil}
  BY Zenon DEF SeenIs
<1>5. {Nil} \in Words /\ seen \in Words
  <2>1. {Nil} \in Words
    BY Zenon DEF Words
  <2> QED
    BY <1>1, <1>4, <2>1, Zenon
<1>6. from = MHSignature(seen)
  BY <1>1, <1>3, <1>4, Zenon DEF Start
<1>7. candidate \in Select(from, Candidates(query(from))) /\ Mv' = union(from, mh_map(candidate))
  BY Zenon DEF Pick
<1>8. {f_test_cases[c] : c \in FastCases} \ selected_set = left
  <2>1. Distinct /\ selected_set = {f_test_cases[f_prioritized_list[i]] : i \in 1 .. n}
        /\ \A i \in 1 .. n : f_prioritized_list[i] \in FastCases
    BY DEF IInv, Indexed, Selected, Pick
  <2>2. LeftAt(n + 1) = FastCases \ {f_prioritized_list[j] : j \in 1 .. n}
    <3>1. (n + 1) - 1 = n
      OBVIOUS
    <3> QED
      BY <3>1, Zenon DEF LeftAt
  <2> QED
    BY <2>1, <2>2 DEF Distinct
<1>9. candidate \in Candidates(query(from)) /\ candidate \in left
  BY <1>7, <1>8, Zenon DEF Select, Candidates
<1>10. candidate \in Path /\ text[candidate] \in Words
  <2>1. candidate \in Path
    BY <1>9, Zenon DEF IInv, LeftAt
  <2> QED
    BY <2>1, Zenon DEF Hashing, Words
<1>11. Mv' = MHSignature(seen \cup text[candidate])
  <2> HIDE DEF from, seen
  <2> QED
    BY <1>5, <1>6, <1>7, <1>10, UnionOfTexts DEF mh_map
<1>12. ASSUME Similar(seen, candidate)
       PROVE  \A c \in LeftAt(n + 1) : Similar(seen, f_test_cases[c])
  <2>1. query(from) = {x \in left : Similar(seen, x)}
    BY <1>2, <1>6, Zenon
  <2>2. candidate \in query(from)
    BY <1>9, <1>12, <2>1, Zenon
  <2>3. left \ query(from) = {}
    <3> HIDE DEF from, left
    <3> QED
      BY <1>8, <1>9, <2>2, Zenon DEF Candidates
  <2> HIDE DEF from, seen
  <2> QED
    BY <2>1, <2>3, Zenon
<1> QED
  BY <1>5, <1>10, <1>11, <1>12, Zenon

\* Nothing is emitted.
LEMMA NovelStarts ==
  ASSUME FastParameters, FastInit
  PROVE  Novel
<1>1. Len(f_prioritized_list) = 0 /\ f_pc = "insert" /\ Hashing
  BY Zenon DEF FastInit, Hashing
<1> QED
  BY <1>1 DEF Novel

\* The file taken is unlike what Mv stands for, if some file left is.
LEMMA NovelPick ==
  ASSUME FastParameters, IInv, SeenIs, SeenIs', Novel, NEW candidate, Pick(candidate)
  PROVE  Novel'
<1>1. PICK n \in Nat : n = Len(f_prioritized_list) /\ n + 1 \in 1 .. FastN
  <2>1. Len(f_prioritized_list) \in Nat /\ Len(f_prioritized_list) =< FastN
        /\ Len(f_prioritized_list) # FastN /\ FastN \in Nat
    BY EmittedAtMost, Zenon DEF Pick, FastParameters
  <2> QED
    BY <2>1
<1> DEFINE x == idx_map(candidate)
<1>2. Hashing /\ Tracks /\ f_pc = "loop" /\ f_pc' = "loop" /\ UNCHANGED fast_input
  BY Zenon DEF Novel, Pick
<1>3. x \in FastCases /\ f_test_cases[x] = candidate
  BY PickIsNew, Zenon
<1>4. f_prioritized_list' = Append(f_prioritized_list, x) /\ lsh' = lsh \ {candidate}
  BY Zenon DEF Pick
<1> HIDE DEF x
<1>5. /\ Len(f_prioritized_list') = n + 1 /\ f_prioritized_list'[n + 1] = x
      /\ \A i \in 1 .. n : f_prioritized_list'[i] = f_prioritized_list[i]
  BY <1>1, <1>3, <1>4 DEF IInv, Selected
<1>6. /\ SeenAt[n + 1] \in Words
      /\ Mv' = MHSignature(SeenAt[n + 1] \cup text[candidate])
      /\ text[candidate] \in Words
      /\ Similar(SeenAt[n + 1], candidate) =>
           \A c \in LeftAt(n + 1) : Similar(SeenAt[n + 1], f_test_cases[c])
  BY <1>1, <1>2, PickSeen, Zenon
<1>7. /\ \A i \in 1 .. n + 1 : LeftAt(i)' = LeftAt(i)
      /\ \A w, y : Similar(w, y)' = Similar(w, y)
      /\ \A i \in 1 .. FastN : i =< n + 1 => SeenAt'[i] = SeenAt[i]
  BY <1>2, <1>5, SeenStays, Zenon
<1>8. f_test_cases' = f_test_cases /\ text' = text /\ hash' = hash
  BY <1>2, Zenon DEF fast_input
<1>9. ASSUME NEW i \in 1 .. n + 1 PROVE FirstNovel(i)'
  <2>1. LeftAt(i)' = LeftAt(i) /\ SeenAt'[i] = SeenAt[i]
    <3>1. FastN \in Nat
      BY Zenon DEF FastParameters
    <3>2. i \in 1 .. FastN /\ i =< n + 1
      BY <1>1, <3>1
    <3> QED
      BY <1>7, <3>2, Zenon
  <2>2. PICK w : w = SeenAt[i]
    BY Zenon
  <2>3. PICK y : y = f_test_cases[f_prioritized_list'[i]]
    BY Zenon
  <2>4. Similar(w, y) => \A c \in LeftAt(i) : Similar(w, f_test_cases[c])
    <3>1. CASE i = n + 1
      BY <1>3, <1>5, <1>6, <2>2, <2>3, <3>1
    <3>2. CASE i \in 1 .. n
      <4>1. FirstNovel(i)
        BY <1>1, <3>2, Zenon DEF Novel
      <4> QED
        BY <1>5, <2>2, <2>3, <3>2, <4>1, Zenon DEF FirstNovel
    <3> QED
      BY <3>1, <3>2
  <2>5. /\ \A c : Similar(w, f_test_cases[c])' = Similar(w, f_test_cases[c])
        /\ Similar(w, y)' = Similar(w, y)
    BY <1>7, <1>8, Zenon
  <2> QED
    BY <1>8, <2>1, <2>2, <2>3, <2>4, <2>5, Zenon DEF FirstNovel
<1>10. (\A i \in 1 .. Len(f_prioritized_list) : FirstNovel(i))'
  BY <1>5, <1>9, Zenon
<1>11. Hashing'
  BY <1>2, <1>8, Zenon DEF Hashing
<1>12. WordsAt(n + 2)' = SeenAt[n + 1] \cup text[candidate]
  <2>1. (n + 2) - 1 = n + 1 /\ n + 2 # 1
    OBVIOUS
  <2>2. SeenAt'[n + 1] = SeenAt[n + 1]
    BY <1>1, <1>7
  <2>3. TextAt(n + 1)' = text[candidate]
    BY <1>3, <1>5, <1>8, Zenon DEF TextAt
  <2> QED
    BY <2>1, <2>2, <2>3, Zenon DEF WordsAt
<1>13. lsh' = {f_test_cases'[c] : c \in LeftAt(n + 2)'}
  <2>1. Distinct
    BY Zenon DEF IInv, Indexed, Pick
  <2>2. LeftAt(n + 2)' = LeftAt(n + 1) \ {x}
    <3>1. (n + 2) - 1 = n + 1 /\ (n + 1) - 1 = n
      OBVIOUS
    <3>2. {f_prioritized_list'[j] : j \in 1 .. n + 1} = {f_prioritized_list[j] : j \in 1 .. n} \cup {x}
      BY <1>5
    <3> QED
      BY <3>1, <3>2, Zenon DEF LeftAt
  <2>3. lsh = {f_test_cases[c] : c \in LeftAt(n + 1)}
    BY <1>1, <1>2, Zenon DEF Tracks
  <2>4. \A c \in LeftAt(n + 1) : c \in FastCases
    BY Zenon DEF LeftAt
  <2> QED
    BY <1>3, <1>4, <1>8, <2>1, <2>2, <2>3, <2>4 DEF Distinct
<1>14. Tracks'
  <2>1. Len(f_prioritized_list') + 1 = n + 2
    BY <1>5
  <2>2. \A w : MHSignature(w)' = MHSignature(w)
    BY <1>8, Zenon DEF MHSignature
  <2>3. WordsAt(n + 2)' \in Words /\ Mv' = MHSignature(WordsAt(n + 2))'
    <3>1. SeenAt[n + 1] \cup text[candidate] \in Words
      BY <1>6, Zenon DEF Words
    <3>2. PICK w : w = SeenAt[n + 1] \cup text[candidate]
      BY Zenon
    <3>3. MHSignature(w)' = MHSignature(w)
      BY <2>2, Zenon
    <3> QED
      BY <1>6, <1>12, <3>1, <3>2, <3>3, Zenon
  <2> QED
    BY <1>13, <2>1, <2>3, Zenon DEF Tracks
<1> QED
  BY <1>2, <1>10, <1>11, <1>14, Zenon DEF Novel

\* Every step keeps it.
LEMMA NovelStep ==
  ASSUME FastParameters, IInv, SeenIs, SeenIs', Novel, [FastNext]_fast_vars
  PROVE  Novel'
<1>1. ASSUME NEW candidate \in Path, Pick(candidate) PROVE Novel'
  BY <1>1, NovelPick, Zenon
<1>2. ASSUME UNCHANGED fast_input, UNCHANGED f_prioritized_list
      PROVE  /\ Hashing' /\ (\A i \in 1 .. Len(f_prioritized_list) : FirstNovel(i))'
             /\ \A i \in Nat \ {0} : i =< Len(f_prioritized_list) + 1 =>
                  LeftAt(i)' = LeftAt(i) /\ WordsAt(i)' = WordsAt(i)
             /\ \A w : MHSignature(w)' = MHSignature(w)
  <2>1. f_test_cases' = f_test_cases /\ text' = text /\ hash' = hash
    BY <1>2, Zenon DEF fast_input
  <2>2. SeenAt' = SeenAt
    BY <1>2, <2>1 DEF SeenAt, LeftAt, TextAt, Similar, InBucket, MHSignature, mh_map
  <2>3. Hashing'
    BY <2>1, Zenon DEF Novel, Hashing
  <2>4. \A i : FirstNovel(i)' = FirstNovel(i)
    BY <1>2, <2>1, <2>2 DEF FirstNovel, LeftAt, Similar, InBucket, MHSignature, mh_map
  <2>5. \A i : LeftAt(i)' = LeftAt(i) /\ WordsAt(i)' = WordsAt(i)
    BY <1>2, <2>1, <2>2, Zenon DEF WordsAt, LeftAt, TextAt
  <2>6. \A w : MHSignature(w)' = MHSignature(w)
    BY <2>1, Zenon DEF MHSignature
  <2> QED
    BY <1>2, <2>3, <2>4, <2>5, <2>6, Zenon DEF Novel
<1>3. CASE Insert
  <2>1. UNCHANGED fast_input /\ UNCHANGED f_prioritized_list /\ f_pc' # "loop"
    BY <1>3, Zenon DEF Insert
  <2> QED
    BY <1>2, <2>1, Zenon DEF Novel
<1>4. CASE StartLoop
  <2>1. /\ UNCHANGED fast_input /\ UNCHANGED f_prioritized_list /\ f_pc = "insert" /\ idx = FastN
        /\ Mv' = Start /\ lsh' = lsh
    BY <1>4, Zenon DEF StartLoop
  <2>2. Len(f_prioritized_list) = 0 /\ lsh = {f_test_cases[c] : c \in 0 .. FastN - 1} /\ FastN \in Nat
    BY <2>1, Zenon DEF IInv, Indexed, Selected, FastParameters
  <2>3. LeftAt(1) = FastCases /\ WordsAt(1) = {Nil}
    BY DEF LeftAt, WordsAt
  <2>4. LeftAt(1)' = LeftAt(1) /\ WordsAt(1)' = {Nil} /\ f_test_cases' = f_test_cases
    <3>1. 1 \in Nat \ {0} /\ 1 =< Len(f_prioritized_list) + 1
      BY <2>2
    <3>2. LeftAt(1)' = LeftAt(1) /\ WordsAt(1)' = WordsAt(1)
      BY <1>2, <2>1, <3>1, Zenon
    <3> QED
      BY <2>1, <2>3, <3>2 DEF fast_input
  <2>5. Mv' = MHSignature({Nil})'
    <3>1. MHSignature({Nil})' = MHSignature({Nil})
      BY <1>2, <2>1, Zenon
    <3> QED
      BY <2>1, <3>1, Zenon DEF Start
  <2>6. Len(f_prioritized_list') + 1 = 1
    BY <2>1, <2>2
  <2>7. Tracks'
    <3>1. lsh' = {f_test_cases'[c] : c \in LeftAt(1)'}
      BY <2>1, <2>2, <2>3, <2>4, Zenon DEF FastCases
    <3>2. WordsAt(1)' \in Words
      BY <2>4 DEF Words
    <3>3. Mv' = MHSignature(WordsAt(1))'
      BY <2>4, <2>5, Zenon DEF MHSignature
    <3> QED
      BY <2>6, <3>1, <3>2, <3>3 DEF Tracks, Words
  <2> QED
    BY <1>2, <2>1, <2>7, Zenon DEF Novel
<1>5. CASE FastReturn
  <2>1. UNCHANGED fast_input /\ UNCHANGED f_prioritized_list /\ f_pc' # "loop"
    BY <1>5, Zenon DEF FastReturn
  <2> QED
    BY <1>2, <2>1, Zenon DEF Novel
<1>6. CASE UNCHANGED fast_vars
  <2>1. /\ UNCHANGED fast_input /\ UNCHANGED f_prioritized_list
        /\ f_pc' = f_pc /\ lsh' = lsh /\ Mv' = Mv /\ f_test_cases' = f_test_cases
    BY <1>6, Zenon DEF fast_vars, fast_input
  <2>2. PICK n \in Nat : n = Len(f_prioritized_list)
    BY DEF IInv, Selected
  <2>3. LeftAt(n + 1)' = LeftAt(n + 1) /\ WordsAt(n + 1)' = WordsAt(n + 1)
    BY <1>2, <2>1, <2>2
  <2>4. PICK w : w = WordsAt(n + 1)
    BY Zenon
  <2>5. MHSignature(w)' = MHSignature(w)
    BY <1>2, <2>1, Zenon
  <2>6. f_pc = "loop" => Tracks'
    BY <2>1, <2>2, <2>3, <2>4, <2>5 DEF Novel, Tracks
  <2> QED
    BY <1>2, <2>1, <2>6, Zenon DEF Novel
<1> QED
  BY <1>1, <1>3, <1>4, <1>5, <1>6, Zenon DEF FastNext

\* The choice of every round of FAST, made from one signature, is the one that
\* the texts emitted so far would give: a file that hashes like them is emitted
\* only when all files that are left do.
THEOREM FastEmitsNovelty ==
  ASSUME FastParameters
  PROVE  FastSpec => []FastNoveltyFirst
<1>1. SeenIs
  BY SeenAtIs, Zenon
<1>2. FastInit => Novel
  BY NovelStarts, Zenon
<1>3. IInv /\ SeenIs /\ SeenIs' /\ Novel /\ [FastNext]_fast_vars => Novel'
  BY NovelStep, Zenon
<1>4. IInv /\ Novel => FastNoveltyFirst
  <2> SUFFICES ASSUME IInv, Novel PROVE FastNoveltyFirst
    BY Zenon
  <2>1. DOMAIN f_prioritized_list = 1 .. Len(f_prioritized_list)
    BY DEF IInv, Selected
  <2> QED
    BY <2>1, Zenon DEF Novel, FirstNovel, FastNoveltyFirst
<1>5. FastSpec => []IInv
  BY FastInvariant, Zenon
<1> QED
  BY <1>1, <1>2, <1>3, <1>4, <1>5, PTL DEF FastSpec

-----------------------------------------------------------------------------
(* Distance-based prioritisation, ARP *)

\* The inductive invariant: Partition is inductive together with the types.
\* The counter must be tied to the set for the loop to stop exactly when the
\* set is empty.
ArpInv == TypeOK /\ Partition

\* The positions of a checkout form a finite set.
LEMMA ArpCases ==
  ASSUME Parameters
  PROVE  IsFiniteSet(Cases) /\ Cardinality(Cases) = N
  BY FS_Interval DEF Cases, Parameters

\* A sample of random.sample(idx_list, k) is a part of idx_list.
LEMMA SampleInside ==
  ASSUME NEW c, PickNext(c)
  PROVE  c \in idx_list
  BY Zenon DEF PickNext, kSubset, Farthest

\* Init establishes the invariant.
LEMMA ArpStarts ==
  ASSUME Parameters, Init
  PROVE  ArpInv
<1>1. TypeOK
  BY DEF Init, TypeOK, Parameters
<1>2. Partition
  BY DEF Init, Partition
<1> QED
  BY <1>1, <1>2, Zenon DEF ArpInv

\* Moving a position from idx_list to the end of prioritized_list preserves
\* the split of the positions, and the size of idx_list drops by one.
LEMMA MoveOne ==
  ASSUME Parameters, TypeOK, Partition, NEW c \in idx_list,
         prioritized_list' = Append(prioritized_list, c),
         idx_list' = idx_list \ {c}
  PROVE  /\ prioritized_list' \in Seq(Cases)
         /\ idx_list' \subseteq Cases
         /\ \A i, j \in DOMAIN prioritized_list' :
               prioritized_list'[i] = prioritized_list'[j] => i = j
         /\ idx_list' = Cases \ {prioritized_list'[i] : i \in DOMAIN prioritized_list'}
         /\ Cardinality(idx_list) \in Nat \ {0}
         /\ Cardinality(idx_list') = Cardinality(idx_list) - 1
<1>1. c \in Cases /\ c \notin {prioritized_list[i] : i \in DOMAIN prioritized_list}
  BY Zenon DEF TypeOK, Partition
<1>2. /\ prioritized_list' \in Seq(Cases)
      /\ Len(prioritized_list') = Len(prioritized_list) + 1
      /\ \A i \in 1 .. Len(prioritized_list) : prioritized_list'[i] = prioritized_list[i]
      /\ prioritized_list'[Len(prioritized_list) + 1] = c
      /\ DOMAIN prioritized_list = 1 .. Len(prioritized_list)
      /\ DOMAIN prioritized_list' = 1 .. Len(prioritized_list')
      /\ Len(prioritized_list) \in Nat
  BY <1>1 DEF TypeOK
<1>3. \A i, j \in DOMAIN prioritized_list' :
         prioritized_list'[i] = prioritized_list'[j] => i = j
  BY <1>1, <1>2 DEF Partition
<1>4. {prioritized_list'[i] : i \in DOMAIN prioritized_list'}
        = {prioritized_list[i] : i \in DOMAIN prioritized_list} \cup {c}
  BY <1>2
<1>5. idx_list' = Cases \ {prioritized_list'[i] : i \in DOMAIN prioritized_list'}
  BY <1>4, Zenon DEF Partition
<1>6. IsFiniteSet(idx_list)
  BY ArpCases, FS_Subset, Zenon DEF TypeOK
<1>7. /\ Cardinality(idx_list) \in Nat
      /\ Cardinality(idx_list') = Cardinality(idx_list) - 1
  BY <1>6, FS_RemoveElement, FS_CardinalityType, Zenon
<1>8. Cardinality(idx_list) # 0
  BY <1>6, FS_EmptySet, Zenon
<1> QED
  BY <1>2, <1>3, <1>5, <1>7, <1>8 DEF TypeOK

\* Every step of the function preserves the invariant.
LEMMA ArpStep ==
  ASSUME Parameters, ArpInv, [Next]_vars
  PROVE  ArpInv'
<1> USE DEF ArpInv
<1>1. ASSUME NEW c \in Cases, ChooseFirst(c) PROVE ArpInv'
  <2>1. c \in idx_list /\ prioritized_list' = Append(prioritized_list, c)
          /\ idx_list' = idx_list \ {c}
    BY <1>1, Zenon DEF ChooseFirst
  <2>2. idx_list_len' \in Nat
    <3>1. Cardinality(idx_list') = Cardinality(idx_list) - 1
            /\ Cardinality(idx_list) \in Nat \ {0}
      BY <2>1, MoveOne, Zenon
    <3> QED
      BY <1>1, <3>1 DEF ChooseFirst
  <2>4. TypeOK'
    BY <1>1, <2>1, <2>2, MoveOne, Zenon DEF TypeOK, ChooseFirst
  <2>3. Partition'
    BY <1>1, <2>1, MoveOne, Zenon DEF Partition, ChooseFirst
  <2> QED
    BY <2>3, <2>4, Zenon
<1>2. ASSUME NEW c \in Cases, PickNext(c) PROVE ArpInv'
  <2>1. c \in idx_list /\ prioritized_list' = Append(prioritized_list, c)
          /\ idx_list' = idx_list \ {c}
    BY <1>2, SampleInside, Zenon DEF PickNext
  <2>2. idx_list_len = Cardinality(idx_list) /\ idx_list_len' = idx_list_len - 1
    BY <1>2, Zenon DEF PickNext, Partition
  <2>3. k' \in Nat
    BY <1>2, Zenon DEF PickNext, ShrunkK, TypeOK
  <2>4. TypeOK'
    BY <1>2, <2>1, <2>2, <2>3, MoveOne DEF TypeOK, PickNext
  <2>5. Partition'
    BY <1>2, <2>1, <2>2, MoveOne, Zenon DEF Partition, PickNext
  <2> QED
    BY <2>4, <2>5, Zenon
<1>3. CASE Return
  BY <1>3, Zenon DEF Return, TypeOK, Partition
<1>4. CASE UNCHANGED vars
  BY <1>4 DEF vars, TypeOK, Partition
<1> QED
  BY <1>1, <1>2, <1>3, <1>4, Zenon DEF Next

\* The invariant holds throughout.
LEMMA ArpInvariant ==
  ASSUME Parameters
  PROVE  Spec => []ArpInv
<1>1. Init => ArpInv
  BY ArpStarts, Zenon
<1>2. ArpInv /\ [Next]_vars => ArpInv'
  BY ArpStep, Zenon
<1> QED
  BY <1>1, <1>2, PTL DEF Spec

\* Type correctness of ARP, for every list of test cases and every sample size.
THEOREM ArpTypes ==
  ASSUME Parameters
  PROVE  Spec => []TypeOK
<1>1. ArpInv => TypeOK
  BY Zenon DEF ArpInv
<1> QED
  BY <1>1, ArpInvariant, PTL

\* ARP never loses or repeats a position, and its counter is exact.
THEOREM ArpPartition ==
  ASSUME Parameters
  PROVE  Spec => []Partition
<1>1. ArpInv => Partition
  BY Zenon DEF ArpInv
<1> QED
  BY <1>1, ArpInvariant, PTL

\* The steps of ARP are steps of the abstract prioritiser (or leave the order
\* alone): the safety part of ImplementsPrioritizer.
THEOREM ArpRefinesPrioritizer ==
  ASSUME Parameters
  PROVE  Spec => P!Init /\ [][P!Next]_P!vars
<1>1. Init => P!Init
  BY Zenon DEF Init, P!Init, Parameters
<1>2. ArpInv /\ [Next]_vars => [P!Next]_P!vars
  <2> SUFFICES ASSUME ArpInv, [Next]_vars PROVE [P!Next]_P!vars
    BY Zenon
  <2> USE DEF ArpInv
  <2>1. ASSUME NEW c \in Cases, ChooseFirst(c) \/ PickNext(c) PROVE P!Next
    <3>1. c \in idx_list /\ prioritized_list' = Append(prioritized_list, c)
      BY <2>1, SampleInside, Zenon DEF ChooseFirst, PickNext
    <3>2. c \in Cases \ P!Emitted
      BY <3>1, Zenon DEF Partition, P!Emitted
    <3>3. P!Emit(c)
      BY <3>1, <3>2, Zenon DEF P!Emit, Cases
    <3> QED
      BY <3>3, Zenon DEF P!Next, Cases
  <2>2. CASE Return
    BY <2>2, Zenon DEF Return, P!vars
  <2>3. CASE UNCHANGED vars
    BY <2>3, Zenon DEF vars, P!vars
  <2> QED
    BY <2>1, <2>2, <2>3, Zenon DEF Next
<1> QED
  BY <1>1, <1>2, ArpInvariant, PTL DEF Spec

-----------------------------------------------------------------------------
(* The farthest of a sample *)

\* The cases after position j that were no farther than the one there.
Nearer(j) ==
  {c \in Cases \ {prioritized_list[i] : i \in 1 .. j} :
     NeighbourAt(j, c) =< NeighbourAt(j, prioritized_list[j])}

Smaller(a, b) == IF a < b THEN a ELSE b

\* The size of the samples: it shrinks only when fewer cases are left.
Sampling ==
  /\ Len(prioritized_list) + Cardinality(idx_list) = N
  /\ k = K \/ (pc # "start" /\ k > idx_list_len)
  /\ pc = "start" => prioritized_list = << >>
  /\ \A j \in 2 .. Len(prioritized_list) :
       Cardinality(Nearer(j)) >= Smaller(K, N - (j - 1)) - 1

\* The least element of two.
LEMMA MinOfTwo ==
  ASSUME NEW a \in Nat, NEW b \in Nat
  PROVE  Min({a, b}) = Smaller(a, b)
<1> DEFINE m == Smaller(a, b)
<1>1. m \in {a, b} /\ \A x \in {a, b} : m =< x
  BY DEF Smaller
<1>2. \A y \in {a, b} : (\A x \in {a, b} : y =< x) => y = m
  BY DEF Smaller
<1> HIDE DEF m
<1>3. Min({a, b}) = m
  BY <1>1, <1>2, Zenon DEF Min
<1> QED
  BY <1>3, Zenon DEF m

\* What was chosen before does not depend on what is chosen later.
LEMMA NearerStays ==
  ASSUME NEW c, prioritized_list' = Append(prioritized_list, c), TypeOK, c \in Cases,
         UNCHANGED <<test_cases, distance_global_map>>,
         NEW j \in 1 .. Len(prioritized_list)
  PROVE  Nearer(j)' = Nearer(j)
<1>1. PICK n \in Nat : n = Len(prioritized_list)
  BY DEF TypeOK
<1>2. \A i \in 1 .. j : prioritized_list'[i] = prioritized_list[i]
  BY <1>1 DEF TypeOK
<1>3. j \in 1 .. j /\ \A i \in 1 .. j - 1 : i \in 1 .. j
  BY <1>1
<1>4. \A d : \A i \in 1 .. j - 1 :
        Distance(prioritized_list[i], d)' = Distance(prioritized_list[i], d)
  BY <1>2, <1>3, Zenon DEF Distance
<1>5. \A d : NeighbourAt(j, d)' = NeighbourAt(j, d)
  <2> SUFFICES ASSUME NEW d PROVE NeighbourAt(j, d)' = NeighbourAt(j, d)
    BY Zenon
  <2>1. {Distance(prioritized_list[i], d) : i \in 1 .. j - 1}'
          = {Distance(prioritized_list[i], d) : i \in 1 .. j - 1}
    BY <1>4, Zenon
  <2> QED
    BY <2>1, Zenon DEF NeighbourAt
<1>6. {prioritized_list'[i] : i \in 1 .. j} = {prioritized_list[i] : i \in 1 .. j}
  BY <1>2, Zenon
<1>7. NeighbourAt(j, prioritized_list[j])' = NeighbourAt(j, prioritized_list[j])
  <2>1. prioritized_list'[j] = prioritized_list[j]
    BY <1>2, <1>3, Zenon
  <2> QED
    BY <2>1, <1>5, Zenon
<1> QED
  BY <1>5, <1>6, <1>7, Zenon DEF Nearer

\* The case chosen is farther than the rest of its sample.
LEMMA PickBeats ==
  ASSUME Parameters, TypeOK, Partition, Sampling, NEW c, PickNext(c),
         NEW n \in Nat, n = Len(prioritized_list)
  PROVE  /\ Cardinality(Nearer(n + 1)') >= Smaller(K, N - n) - 1
         /\ k' = K \/ k' = idx_list_len
<1> DEFINE L == idx_list_len
<1>1. PICK S \in kSubset(k', idx_list) : c \in Farthest(S)
  BY Zenon DEF PickNext
<1>2. /\ S \subseteq idx_list /\ Cardinality(S) = k' /\ c \in S
      /\ \A d \in S : Neighbour(c) >= Neighbour(d)
  BY <1>1, Zenon DEF kSubset, Farthest
<1>3. idx_list \subseteq Cases /\ IsFiniteSet(idx_list) /\ c \in Cases
  BY <1>2, ArpCases, FS_Subset DEF TypeOK
<1>4. L = Cardinality(idx_list) /\ L = N - n /\ L \in Nat /\ n \in Nat /\ N \in Nat
  BY DEF PickNext, Partition, Sampling, Parameters, TypeOK
<1>5. K \in Nat \ {0} /\ k \in Nat /\ k' = IF L < k THEN L ELSE k
  BY Zenon DEF PickNext, ShrunkK, Parameters, TypeOK
<1>6. k = K \/ k > L
  BY Zenon DEF Sampling, PickNext
<1>7. k' >= Smaller(K, N - n) /\ (k' = K \/ k' = L) /\ k' \in Nat
  BY <1>4, <1>5, <1>6 DEF Smaller
<1>8. /\ prioritized_list' = Append(prioritized_list, c)
      /\ test_cases' = test_cases /\ distance_global_map' = distance_global_map
  BY Zenon DEF PickNext
<1>9. /\ DOMAIN prioritized_list = 1 .. n /\ prioritized_list'[n + 1] = c
      /\ \A i \in 1 .. n : prioritized_list'[i] = prioritized_list[i]
  BY <1>3, <1>8 DEF TypeOK
<1>10. ASSUME NEW d PROVE NeighbourAt(n + 1, d)' = Neighbour(d)
  <2>1. (n + 1) - 1 = n
    OBVIOUS
  <2>2. \A i \in 1 .. n : Distance(prioritized_list[i], d)' = Distance(prioritized_list[i], d)
    BY <1>8, <1>9, Zenon DEF Distance
  <2>3. {Distance(prioritized_list[i], d) : i \in 1 .. n}'
          = {Distance(prioritized_list[i], d) : i \in DOMAIN prioritized_list}
    BY <1>9, <2>2
  <2> QED
    BY <2>1, <2>3, Zenon DEF NeighbourAt, Neighbour
<1>11. NeighbourAt(n + 1, prioritized_list[n + 1])' = Neighbour(c)
  BY <1>9, <1>10, Zenon
<1>12. Cases \ {prioritized_list'[i] : i \in 1 .. n + 1} = idx_list \ {c}
  <2>1. {prioritized_list'[i] : i \in 1 .. n + 1} = {prioritized_list[i] : i \in 1 .. n} \cup {c}
    BY <1>9
  <2>2. idx_list = Cases \ {prioritized_list[i] : i \in 1 .. n}
    BY <1>9, Zenon DEF Partition
  <2> QED
    BY <2>1, <2>2, Zenon
<1>13. Nearer(n + 1)' = {d \in idx_list \ {c} : Neighbour(d) =< Neighbour(c)}
  BY <1>10, <1>11, <1>12, Zenon DEF Nearer
<1>14. S \ {c} \subseteq Nearer(n + 1)'
  BY <1>2, <1>13, Zenon
<1>15. IsFiniteSet(S) /\ Cardinality(S \ {c}) = k' - 1 /\ IsFiniteSet(S \ {c})
  <2>1. IsFiniteSet(S)
    BY <1>2, <1>3, FS_Subset
  <2> QED
    BY <1>2, <2>1, FS_RemoveElement
<1>16. PICK T : T = Nearer(n + 1)'
  BY Zenon
<1>17. IsFiniteSet(T) /\ Cardinality(T) \in Nat
  <2>1. T \in SUBSET idx_list
    BY <1>13, <1>16, Zenon
  <2> QED
    BY <1>3, <2>1, FS_Subset, FS_CardinalityType
<1>18. Cardinality(T) >= k' - 1
  <2>1. S \ {c} \in SUBSET T
    BY <1>14, <1>16, Zenon
  <2>2. Cardinality(S \ {c}) =< Cardinality(T)
    BY <1>17, <2>1, FS_Subset, Zenon
  <2> QED
    BY <1>15, <1>17, <1>7, <2>2
<1>19. Smaller(K, N - n) \in Nat
  BY <1>4, <1>5, Zenon DEF Smaller
<1> QED
  BY <1>7, <1>16, <1>17, <1>18, <1>19

\* Nothing is emitted and the sample size is as given.
LEMMA SamplingStarts ==
  ASSUME Parameters, Init
  PROVE  Sampling
<1>1. Len(prioritized_list) = 0 /\ idx_list = Cases /\ k = K
  BY Zenon DEF Init
<1>2. Cardinality(Cases) = N /\ N \in Nat
  BY ArpCases, Zenon DEF Parameters
<1> QED
  BY <1>1, <1>2 DEF Sampling, Init

\* Every step keeps it.
LEMMA SamplingStep ==
  ASSUME Parameters, ArpInv, Sampling, [Next]_vars
  PROVE  Sampling'
<1> USE DEF ArpInv
<1>1. PICK n \in Nat : n = Len(prioritized_list)
  BY DEF TypeOK
<1>2. ASSUME NEW c \in idx_list, prioritized_list' = Append(prioritized_list, c),
             idx_list' = idx_list \ {c}, UNCHANGED <<test_cases, distance_global_map>>
      PROVE  /\ Len(prioritized_list') = n + 1
             /\ Len(prioritized_list') + Cardinality(idx_list') = N
             /\ \A j \in 2 .. n : Cardinality(Nearer(j)') >= Smaller(K, N - (j - 1)) - 1
  <2>1. c \in Cases /\ Len(prioritized_list') = n + 1
    BY <1>1, <1>2 DEF TypeOK
  <2>2. Cardinality(idx_list) \in Nat \ {0} /\ Cardinality(idx_list') = Cardinality(idx_list) - 1
    BY <1>2, MoveOne, Zenon
  <2>3. Len(prioritized_list') + Cardinality(idx_list') = N
    <3>1. n + Cardinality(idx_list) = N
      BY <1>1, Zenon DEF Sampling
    <3> QED
      BY <2>1, <2>2, <3>1
  <2>4. ASSUME NEW j \in 2 .. n PROVE Nearer(j)' = Nearer(j)
    <3>1. j \in 1 .. Len(prioritized_list)
      BY <1>1
    <3> QED
      BY <1>2, <2>1, <3>1, NearerStays
  <2> QED
    BY <1>1, <2>1, <2>3, <2>4 DEF Sampling
<1>3. ASSUME NEW c \in Cases, ChooseFirst(c) PROVE Sampling'
  <2>1. c \in idx_list /\ prioritized_list' = Append(prioritized_list, c)
          /\ idx_list' = idx_list \ {c} /\ UNCHANGED <<test_cases, distance_global_map, k>>
          /\ pc' = "loop" /\ pc = "start"
    BY <1>3, Zenon DEF ChooseFirst
  <2>2. n = 0 /\ k' = K
    BY <1>1, <2>1, Zenon DEF Sampling
  <2>3. Len(prioritized_list') = 1 /\ Len(prioritized_list') + Cardinality(idx_list') = N
    <3>1. Len(prioritized_list') = n + 1 /\ Len(prioritized_list') + Cardinality(idx_list') = N
      BY <1>2, <2>1, Zenon
    <3> QED
      BY <2>2, <3>1
  <2> QED
    BY <2>1, <2>2, <2>3 DEF Sampling
<1>4. ASSUME NEW c \in Cases, PickNext(c) PROVE Sampling'
  <2>1. c \in idx_list /\ prioritized_list' = Append(prioritized_list, c)
          /\ idx_list' = idx_list \ {c} /\ UNCHANGED <<test_cases, distance_global_map>>
          /\ pc' = "loop" /\ idx_list_len' = idx_list_len - 1 /\ idx_list_len \in Nat
    BY <1>4, SampleInside, Zenon DEF PickNext, TypeOK
  <2>2. /\ Len(prioritized_list') = n + 1
        /\ Len(prioritized_list') + Cardinality(idx_list') = N
        /\ \A j \in 2 .. n : Cardinality(Nearer(j)') >= Smaller(K, N - (j - 1)) - 1
    BY <1>2, <2>1, Zenon
  <2>3. /\ Cardinality(Nearer(n + 1)') >= Smaller(K, N - n) - 1
        /\ k' = K \/ k' = idx_list_len
    BY <1>1, <1>4, PickBeats
  <2>4. ASSUME NEW j \in 2 .. n + 1
        PROVE  Cardinality(Nearer(j)') >= Smaller(K, N - (j - 1)) - 1
    <3>1. CASE j = n + 1
      <4>1. (n + 1) - 1 = n
        OBVIOUS
      <4> QED
        BY <2>3, <3>1, <4>1
    <3>2. CASE j \in 2 .. n
      BY <2>2, <3>2, Zenon
    <3> QED
      BY <3>1, <3>2
  <2>5. k' = K \/ k' > idx_list_len'
    BY <2>1, <2>3
  <2> QED
    BY <2>1, <2>2, <2>4, <2>5 DEF Sampling
<1>5. ASSUME UNCHANGED <<test_cases, distance_global_map, prioritized_list, idx_list, idx_list_len, k>>,
             pc' = pc \/ pc' = "done"
      PROVE  Sampling'
  <2>1. \A j : Nearer(j)' = Nearer(j)
    BY <1>5 DEF Nearer, NeighbourAt, Distance
  <2> QED
    BY <1>5, <2>1, Zenon DEF Sampling
<1>6. CASE Return
  BY <1>5, <1>6, Zenon DEF Return
<1>7. CASE UNCHANGED vars
  BY <1>5, <1>7, Zenon DEF vars
<1> QED
  BY <1>3, <1>4, <1>6, <1>7, Zenon DEF Next

\* Each case ARP emits after the first one was the farthest of a sample of
\* min(K, remaining) cases, whatever the distances are.
THEOREM FarthestOfSample ==
  ASSUME Parameters
  PROVE  Spec => []PickBeatsSample
<1>1. Init => Sampling
  BY SamplingStarts, Zenon
<1>2. ArpInv /\ Sampling /\ [Next]_vars => Sampling'
  BY SamplingStep, Zenon
<1>3. ArpInv /\ Sampling => PickBeatsSample
  <2> SUFFICES ASSUME ArpInv, Sampling, NEW j \in 2 .. Len(prioritized_list)
               PROVE  Cardinality(Nearer(j)) >= Min({K, N - (j - 1)}) - 1
    BY Zenon DEF PickBeatsSample, Nearer
  <2>1. IsFiniteSet(idx_list) /\ Cardinality(idx_list) \in Nat
    BY ArpCases, FS_Subset, FS_CardinalityType, Zenon DEF ArpInv, TypeOK
  <2>2. Len(prioritized_list) \in Nat /\ N \in Nat /\ K \in Nat
    BY DEF ArpInv, TypeOK, Parameters
  <2>3. N - (j - 1) \in Nat
    BY <2>1, <2>2 DEF Sampling
  <2> QED
    BY <2>2, <2>3, MinOfTwo, Zenon DEF Sampling
<1>4. Spec => []ArpInv
  BY ArpInvariant, Zenon
<1> QED
  BY <1>1, <1>2, <1>3, <1>4, PTL DEF Spec
============================================================================
