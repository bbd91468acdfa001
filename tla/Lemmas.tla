------------------------------- MODULE Lemmas -------------------------------
(***************************************************************************)
(* Facts about numbers, finite sets and recursive functions that the       *)
(* proofs of several components rest on.  Induction is stated with sets    *)
(* instead of predicates: to show P of all numbers, apply NatInduces to    *)
(* {n \in Nat : P(n)}.                                                     *)
(***************************************************************************)
EXTENDS Naturals, FiniteSets, Functions, TLAPS, WellFoundedInduction, FiniteSetTheorems

\* Every set of natural numbers that is not empty has a least element.
LEMMA Least ==
  ASSUME NEW T, T \subseteq Nat, T # {}
  PROVE  \E x \in T : \A y \in T : x =< y
<1> DEFINE R == {ss \in Nat \X Nat : ss[1] < ss[2]}
<1>1. IsWellFoundedOn(R, Nat)
  BY NatLessThanWellFounded, Zenon DEF OpToRel
<1>2. PICK x \in T : \A y \in T : ~ (<<y, x>> \in R)
  <2> HIDE DEF R
  <2> QED
    BY <1>1, WFMin, Zenon
<1>3. \A y \in T : ~ (y < x)
  BY <1>2, Zenon
<1> QED
  BY <1>3

\* Every set of natural numbers that is bounded and not empty has a greatest
\* element.
LEMMA Greatest ==
  ASSUME NEW T, T \subseteq Nat, T # {}, NEW b \in Nat, \A y \in T : y =< b
  PROVE  \E x \in T : \A y \in T : y =< x
<1> DEFINE U == {n \in Nat : \A y \in T : y =< n}
<1>1. PICK u \in U : \A v \in U : u =< v
  <2>1. b \in U
    BY Zenon
  <2> HIDE DEF U
  <2>2. U \subseteq Nat
    BY Zenon DEF U
  <2> QED
    BY <2>1, <2>2, Least, Zenon
<1>2. u \in T
  <2> SUFFICES ASSUME u \notin T PROVE FALSE
    BY Zenon
  <2>0. u \in Nat /\ T \subseteq Nat /\ \A y \in T : y =< u
    BY <1>1, Zenon
  <2>1. \A y \in T : y < u
    BY <2>0
  <2>2. PICK y \in T : y < u
    BY <2>1, Zenon
  <2>3. u - 1 \in Nat /\ u - 1 < u
    BY <2>0, <2>2
  <2>4. \A z \in T : z =< u - 1
    BY <2>0, <2>1, <2>3
  <2>5. u - 1 \in U
    BY <2>3, <2>4, Zenon
  <2> QED
    BY <2>3, <2>5, <1>1
<1> QED
  BY <1>1, <1>2, Zenon

\* Induction.
LEMMA NatInduces ==
  ASSUME NEW T, 0 \in T, \A n \in Nat : n \in T => n + 1 \in T
  PROVE  \A n \in Nat : n \in T
<1> SUFFICES ASSUME NEW m \in Nat, m \notin T PROVE FALSE
  BY Zenon
<1> DEFINE U == {n \in Nat : n \notin T}
<1>1. PICK u \in U : \A v \in U : u =< v
  <2>1. U \subseteq Nat /\ m \in U
    BY Zenon
  <2> HIDE DEF U
  <2> QED
    BY <2>1, Least, Zenon
<1>2. u # 0 /\ u - 1 \in Nat /\ (u - 1) + 1 = u
  BY <1>1
<1>3. u - 1 \in T
  BY <1>1, <1>2
<1> QED
  BY <1>1, <1>2, <1>3, Zenon

\* g starts with e, and h takes each of its values to the next.
Iterates(g, S, e, h) ==
  /\ g \in [Nat -> S] /\ g[0] = e
  /\ \A n \in Nat : g[n + 1] = h[<<n, g[n]>>]

\* Where it starts, and what takes a value to the next, determine a function.
LEMMA Recursion ==
  ASSUME NEW S, NEW e \in S, NEW h \in [Nat \X S -> S]
  PROVE  \E g : Iterates(g, S, e, h)
<1> DEFINE Upto(n) == {g \in [0 .. n -> S] :
                         g[0] = e /\ \A i \in 0 .. n - 1 : g[i + 1] = h[<<i, g[i]>>]}
           Any == {n \in Nat : Upto(n) # {}}
           Same == {i \in Nat : \A n, m \in Nat : \A f \in Upto(n), g \in Upto(m) :
                                  i =< n /\ i =< m => f[i] = g[i]}
<1>1. 0 \in Any
  <2>1. [x \in 0 .. 0 |-> e] \in Upto(0)
    OBVIOUS
  <2> QED
    BY <2>1, Zenon
<1>2. ASSUME NEW n \in Nat, n \in Any PROVE n + 1 \in Any
  <2>1. PICK g \in Upto(n) : TRUE
    BY <1>2, Zenon
  <2> DEFINE f == [x \in 0 .. n + 1 |-> IF x = n + 1 THEN h[<<n, g[n]>>] ELSE g[x]]
  <2>2. h[<<n, g[n]>>] \in S
    BY <2>1
  <2>3. f \in [0 .. n + 1 -> S]
    BY <2>1, <2>2
  <2>4. f[0] = e /\ f[n + 1] = h[<<n, g[n]>>] /\ \A x \in 0 .. n : f[x] = g[x]
    BY <2>1
  <2>5. ASSUME NEW i \in 0 .. (n + 1) - 1 PROVE f[i + 1] = h[<<i, f[i]>>]
    <3> HIDE DEF f
    <3>1. CASE i = n
      BY <3>1, <2>4
    <3>2. CASE i # n
      BY <3>2, <2>1, <2>4
    <3> QED
      BY <3>1, <3>2, Zenon
  <2> HIDE DEF f
  <2>6. f \in Upto(n + 1)
    BY <2>3, <2>4, <2>5, Zenon
  <2> QED
    BY <2>6
<1>3. \A n \in Nat : n \in Any
  <2> HIDE DEF Any
  <2> QED
    BY <1>1, <1>2, NatInduces, Zenon
<1>4. 0 \in Same
  BY Zenon
<1>5. ASSUME NEW i \in Nat, i \in Same PROVE i + 1 \in Same
  <2>1. ASSUME NEW n \in Nat, NEW m \in Nat, NEW f \in Upto(n), NEW g \in Upto(m),
                i + 1 =< n, i + 1 =< m
         PROVE  f[i + 1] = g[i + 1]
    <3>1. f[i] = g[i]
      <4> HIDE DEF Upto
      <4> QED
        BY <1>5, <2>1
    <3>2. i \in 0 .. n - 1 /\ i \in 0 .. m - 1
      BY <2>1
    <3>3. f[i + 1] = h[<<i, f[i]>>] /\ g[i + 1] = h[<<i, g[i]>>]
      BY <3>2, Zenon
    <3> QED
      BY <3>1, <3>3, Zenon
  <2> HIDE DEF Upto
  <2> QED
    BY <2>1
<1>6. \A i \in Nat : i \in Same
  <2> HIDE DEF Same
  <2> QED
    BY <1>4, <1>5, NatInduces, Zenon
<1> DEFINE some(n) == CHOOSE g \in Upto(n) : TRUE
           fcn == [n \in Nat |-> some(n)[n]]
<1>7. \A n \in Nat : some(n) \in Upto(n)
  <2> HIDE DEF Upto
  <2> QED
    BY <1>3, Zenon
<1>8. fcn \in [Nat -> S]
  <2> HIDE DEF some
  <2> QED
    BY <1>7
<1>9. fcn[0] = e
  <2> HIDE DEF some
  <2>1. some(0) \in Upto(0)
    BY <1>7, Zenon
  <2> QED
    BY <2>1, Zenon
<1>10. ASSUME NEW n \in Nat PROVE fcn[n + 1] = h[<<n, fcn[n]>>]
  <2> HIDE DEF some
  <2>1. some(n) \in Upto(n) /\ some(n + 1) \in Upto(n + 1)
    BY <1>7
  <2>2. some(n)[n] = some(n + 1)[n]
    <3> HIDE DEF Upto
    <3>1. n \in Same /\ n =< n + 1 /\ n + 1 \in Nat
      BY <1>6
    <3> QED
      BY <3>1, <2>1
  <2>3. some(n + 1)[n + 1] = h[<<n, some(n + 1)[n]>>]
    BY <2>1
  <2> QED
    BY <2>2, <2>3
<1> QED
  <2> HIDE DEF fcn
  <2>1. Iterates(fcn, S, e, h)
    BY <1>8, <1>9, <1>10, Zenon DEF Iterates
  <2> QED
    BY <2>1, Zenon
-----------------------------------------------------------------------------
\* Induction over the parts of a finite set.
LEMMA FiniteInduces ==
  ASSUME NEW S, IsFiniteSet(S), NEW T, {} \in T,
         \A s \in SUBSET S : \A x \in S \ s : s \in T => s \cup {x} \in T
  PROVE  \A s \in SUBSET S : s \in T
<1> DEFINE U == {n \in Nat : \A s \in SUBSET S : Cardinality(s) = n => s \in T}
<1>1. 0 \in U
  <2>1. ASSUME NEW s \in SUBSET S, Cardinality(s) = 0 PROVE s \in T
    <3>1. s = {}
      BY <2>1, FS_Subset, FS_EmptySet, Zenon
    <3> QED
      BY <3>1, Zenon
  <2> QED
    BY <2>1, Zenon
<1>2. ASSUME NEW n \in Nat, n \in U PROVE n + 1 \in U
  <2>1. ASSUME NEW s \in SUBSET S, Cardinality(s) = n + 1 PROVE s \in T
    <3>1. IsFiniteSet(s)
      BY FS_Subset, Zenon
    <3>2. s # {}
      <4>1. Cardinality({}) = 0 /\ n + 1 # 0
        BY FS_EmptySet
      <4> QED
        BY <2>1, <4>1, Zenon
    <3>3. PICK x \in s : TRUE
      BY <3>2, Zenon
    <3>4. Cardinality(s \ {x}) = n
      <4>1. Cardinality(s \ {x}) = Cardinality(s) - 1
        BY <3>1, <3>3, FS_RemoveElement, Zenon
      <4> QED
        BY <2>1, <4>1
    <3>5. s \ {x} \in T
      BY <1>2, <3>4, Zenon
    <3>6. (s \ {x}) \cup {x} = s /\ s \ {x} \in SUBSET S /\ x \in S \ (s \ {x})
      BY <3>3, Zenon
    <3> QED
      BY <3>5, <3>6, Zenon
  <2> QED
    BY <2>1
<1>3. \A n \in Nat : n \in U
  <2> HIDE DEF U
  <2> QED
    BY <1>1, <1>2, NatInduces, Zenon
<1>4. ASSUME NEW s \in SUBSET S PROVE s \in T
  <2>1. Cardinality(s) \in Nat
    BY FS_Subset, FS_CardinalityType, Zenon
  <2> QED
    BY <1>3, <2>1, Zenon
<1> QED
  BY <1>4, Zenon

\* The sum of w over each part of S, one element after the other.
IsSum(g, S, w) ==
  /\ DOMAIN g = SUBSET S
  /\ \A s \in SUBSET S :
       g[s] = IF s = {} THEN 0
              ELSE w[CHOOSE x \in s : TRUE] + g[s \ {CHOOSE x \in s : TRUE}]

\* Such a function exists.
LEMMA SumExists ==
  ASSUME NEW S, IsFiniteSet(S), NEW w
  PROVE  \E g : IsSum(g, S, w)
<1> DEFINE Of(s) == CHOOSE x \in s : TRUE
           Small(n) == {s \in SUBSET S : Cardinality(s) =< n}
           Right(g, s) == g[s] = IF s = {} THEN 0 ELSE w[Of(s)] + g[s \ {Of(s)}]
           T == {n \in Nat : \E g : DOMAIN g = Small(n) /\ \A s \in Small(n) : Right(g, s)}
<1>1. \A s \in SUBSET S : IsFiniteSet(s) /\ Cardinality(s) \in Nat
  BY FS_Subset, FS_CardinalityType, Zenon
<1>2. \A s \in SUBSET S : s # {} => Of(s) \in s
  BY Zenon
<1>3. \A s \in SUBSET S : s # {} => Cardinality(s \ {Of(s)}) = Cardinality(s) - 1
  <2> HIDE DEF Of
  <2> QED
    BY <1>1, <1>2, FS_RemoveElement, Zenon
<1> HIDE DEF Of
<1>4. 0 \in T
  <2> DEFINE g == [s \in Small(0) |-> 0]
  <2>1. \A s \in Small(0) : s = {}
    BY <1>1, FS_EmptySet
  <2>2. DOMAIN g = Small(0) /\ \A s \in Small(0) : Right(g, s)
    BY <2>1, Zenon
  <2> QED
    BY <2>2, Zenon
<1>5. ASSUME NEW n \in Nat, n \in T PROVE n + 1 \in T
  <2>1. PICK g : DOMAIN g = Small(n) /\ \A s \in Small(n) : Right(g, s)
    BY <1>5, Zenon
  <2> DEFINE f == [s \in Small(n + 1) |->
                     IF s \in Small(n) THEN g[s] ELSE w[Of(s)] + g[s \ {Of(s)}]]
  <2>2. \A s \in Small(n) : s \in Small(n + 1) /\ f[s] = g[s]
    BY <1>1
  <2>3. \A s \in Small(n + 1) : s # {} => s \ {Of(s)} \in Small(n)
    BY <1>1, <1>3
  <2>4. \A s \in Small(n + 1) \ Small(n) : s # {} /\ f[s] = w[Of(s)] + g[s \ {Of(s)}]
    BY <1>1, FS_EmptySet
  <2>5. \A s \in Small(n) : Right(g, s)
    BY <2>1, Zenon
  <2> HIDE DEF f, Small
  <2>6. ASSUME NEW s \in Small(n + 1) PROVE Right(f, s)
    <3>1. CASE s \in Small(n)
      BY <3>1, <2>2, <2>3, <2>5, Zenon
    <3>2. CASE s \notin Small(n)
      BY <3>2, <2>2, <2>3, <2>4, Zenon
    <3> QED
      BY <3>1, <3>2, Zenon
  <2>7. DOMAIN f = Small(n + 1)
    BY Zenon DEF f
  <2> QED
    BY <2>6, <2>7
<1>6. \A n \in Nat : n \in T
  <2> HIDE DEF T
  <2> QED
    BY <1>4, <1>5, NatInduces, Zenon
<1>7. Cardinality(S) \in T
  BY <1>1, <1>6, Zenon
<1>8. Small(Cardinality(S)) = SUBSET S
  BY <1>1, FS_Subset, Zenon
<1>9. PICK g : DOMAIN g = SUBSET S /\ \A s \in SUBSET S : Right(g, s)
  <2> HIDE DEF Small, Right
  <2> QED
    BY <1>7, <1>8, Zenon
<1>10. IsSum(g, S, w)
  BY <1>9, Zenon DEF IsSum, Of
<1> QED
  BY <1>10, Zenon

\* The sum of w over S is what such a function says of S.
LEMMA SumValue ==
  ASSUME NEW S, IsFiniteSet(S), NEW w
  PROVE  \E g : IsSum(g, S, w) /\ SumFunctionOnSet(w, S) = g[S]
<1> DEFINE body(f) == [s \in SUBSET S |->
                         IF s = {} THEN 0
                         ELSE w[CHOOSE x \in s : TRUE] + f[s \ {CHOOSE x \in s : TRUE}]]
           iter == CHOOSE f : f = body(f)
<1>1. SumFunctionOnSet(w, S) = iter[S]
  BY Zenon DEF SumFunctionOnSet, FoldFunctionOnSet, MapThenFoldSet
<1>2. PICK h : IsSum(h, S, w)
  BY SumExists, Zenon
<1> DEFINE g == [s \in SUBSET S |-> h[s]]
<1>3. g = body(g)
  BY <1>2, Zenon DEF IsSum
<1> HIDE DEF g
<1>4. iter = body(iter)
  <2> HIDE DEF body
  <2> QED
    BY <1>3, Zenon
<1>5. IsSum(iter, S, w)
  <2> HIDE DEF iter
  <2>1. DOMAIN iter = SUBSET S
    BY <1>4, Zenon
  <2> QED
    BY <1>4, <2>1, Zenon DEF IsSum
<1> QED
  <2> HIDE DEF iter
  <2> QED
    BY <1>1, <1>5, Zenon

\* The same, whichever element is taken off first.
AddsUp(g, S, w) ==
  /\ \A s \in SUBSET S : g[s] \in Nat
  /\ \A s \in SUBSET S : \A x \in s : g[s] = g[s \ {x}] + w[x]

\* Which element is taken off first makes no difference.
LEMMA SumCommutes ==
  ASSUME NEW S, IsFiniteSet(S), NEW w, \A x \in S : w[x] \in Nat,
         NEW g, IsSum(g, S, w)
  PROVE  AddsUp(g, S, w)
<1> DEFINE Of(s) == CHOOSE x \in s : TRUE
           Sized(n) == {s \in SUBSET S : Cardinality(s) = n}
           T == {n \in Nat : \A s \in Sized(n) :
                    \A x \in s : g[s] = g[s \ {x}] + w[x]}
<1>1. \A s \in SUBSET S : IsFiniteSet(s) /\ Cardinality(s) \in Nat
  BY FS_Subset, FS_CardinalityType, Zenon
<1>2. \A s \in SUBSET S : s # {} => Of(s) \in s
  BY Zenon
<1>3. \A s \in SUBSET S : \A x \in s : Cardinality(s \ {x}) = Cardinality(s) - 1
  BY <1>1, FS_RemoveElement, Zenon
<1>4. g[{}] = 0 /\ \A s \in SUBSET S : s # {} => g[s] = w[Of(s)] + g[s \ {Of(s)}]
  BY Zenon DEF IsSum
<1> HIDE DEF Of
<1>0. \A s \in Sized(0) : s = {}
  BY <1>1, FS_EmptySet, Zenon
<1>n. ASSUME NEW n \in Nat, NEW s \in Sized(n + 1) PROVE s # {}
  <2>1. Cardinality({}) = 0 /\ n + 1 # 0
    BY FS_EmptySet
  <2> QED
    BY <2>1, Zenon
<1>t. \A s \in SUBSET S : g[s] \in Nat
  <2> DEFINE N == {n \in Nat : \A s \in Sized(n) : g[s] \in Nat}
  <2>1. 0 \in N
    BY <1>0, <1>4
  <2>2. ASSUME NEW n \in Nat, n \in N PROVE n + 1 \in N
    <3>1. SUFFICES ASSUME NEW s \in Sized(n + 1) PROVE g[s] \in Nat
      OBVIOUS
    <3>2. Of(s) \in s /\ g[s] = w[Of(s)] + g[s \ {Of(s)}]
      BY <1>2, <1>4, <1>n, Zenon
    <3>3. s \ {Of(s)} \in Sized(n)
      BY <1>3, <3>2
    <3>4. g[s \ {Of(s)}] \in Nat /\ w[Of(s)] \in Nat
      BY <2>2, <3>2, <3>3, Zenon
    <3> QED
      BY <3>2, <3>4
  <2>3. \A n \in Nat : n \in N
    <3> HIDE DEF N
    <3> QED
      BY <2>1, <2>2, NatInduces, Zenon
  <2> QED
    BY <1>1, <2>3, Zenon
<1>5. 0 \in T
  <2>1. SUFFICES ASSUME NEW s \in Sized(0)
        PROVE  \A x \in s : g[s] = g[s \ {x}] + w[x]
    BY Zenon
  <2> QED
    BY <1>0, Zenon
<1>6. ASSUME NEW n \in Nat, n \in T PROVE n + 1 \in T
  <2>1. SUFFICES ASSUME NEW s \in Sized(n + 1)
        PROVE  \A x \in s : g[s] = g[s \ {x}] + w[x]
    OBVIOUS
  <2>2. \A x \in s : s \ {x} \in Sized(n)
    BY <1>3
  <2>3. \A x \in s : \A y \in s \ {x} : g[s \ {x}] = g[(s \ {x}) \ {y}] + w[y]
    BY <2>2, <1>6, Zenon
  <2>4. s # {}
    BY <1>n, Zenon
  <2> DEFINE y == Of(s)
  <2>5. y \in s /\ g[s] = w[y] + g[s \ {y}]
    BY <1>2, <1>4, <2>4, Zenon
  <2> HIDE DEF y
  <2>7. ASSUME NEW x \in s PROVE g[s] = g[s \ {x}] + w[x]
    <3>1. CASE x = y
      <4>1. w[y] \in Nat /\ g[s \ {y}] \in Nat
        BY <1>t, <2>5, Zenon
      <4> QED
        BY <3>1, <4>1, <2>5
    <3>2. CASE x # y
      <4> DEFINE r == (s \ {x}) \ {y}
      <4>1. r = (s \ {y}) \ {x}
        BY Zenon
      <4>2. g[s \ {x}] = g[r] + w[y]
        BY <2>3, <2>5, <3>2, Zenon
      <4>3. g[s \ {y}] = g[r] + w[x]
        BY <2>3, <2>5, <3>2, <4>1, Zenon
      <4>4. r \in SUBSET S /\ w[x] \in Nat /\ w[y] \in Nat
        BY <2>5, Zenon
      <4>5. g[s \ {x}] \in Nat /\ g[s \ {y}] \in Nat /\ g[r] \in Nat
        BY <1>t, Zenon
      <4> HIDE DEF r
      <4> QED
        BY <4>2, <4>3, <4>4, <4>5, <2>5
    <3> QED
      BY <3>1, <3>2, Zenon
  <2> QED
    BY <2>7, Zenon
<1>7. \A n \in Nat : n \in T
  <2> HIDE DEF T
  <2> QED
    BY <1>5, <1>6, NatInduces, Zenon
<1> QED
  BY <1>1, <1>t, <1>7, Zenon DEF AddsUp

\* Two functions that add w up agree on what both are about.
LEMMA SumUnique ==
  ASSUME NEW S, IsFiniteSet(S), NEW w, \A x \in S : w[x] \in Nat,
         NEW R, R \subseteq S,
         NEW f, IsSum(f, R, w), NEW g, IsSum(g, S, w)
  PROVE  \A s \in SUBSET R : f[s] = g[s]
<1> DEFINE T == {s \in SUBSET R : f[s] = g[s]}
<1>1. IsFiniteSet(R)
  BY FS_Subset, Zenon
<1>5. AddsUp(f, R, w) /\ AddsUp(g, S, w)
  <2>1. \A y \in R : w[y] \in Nat
    BY Zenon
  <2> QED
    BY <1>1, <2>1, SumCommutes, Zenon
<1>2. {} \in T
  BY Zenon DEF IsSum
<1>3. ASSUME NEW s \in SUBSET R, NEW x \in R \ s, s \in T PROVE s \cup {x} \in T
  <2>1. (s \cup {x}) \ {x} = s
    BY Zenon
  <2> DEFINE sx == s \cup {x}
  <2>2. sx \in SUBSET R /\ x \in sx /\ sx \in SUBSET S /\ sx \ {x} = s
    BY <2>1, Zenon
  <2> HIDE DEF sx
  <2>3. f[sx] = f[s] + w[x]
    BY <1>5, <2>2, Zenon DEF AddsUp
  <2>4. g[sx] = g[s] + w[x]
    BY <1>5, <2>2, Zenon DEF AddsUp
  <2>5. f[sx] = g[sx]
    BY <1>3, <2>3, <2>4, Zenon
  <2> QED
    BY <2>2, <2>5, Zenon DEF sx
<1> HIDE DEF T
<1>4. \A s \in SUBSET R : s \in T
  BY <1>1, <1>2, <1>3, FiniteInduces, Zenon
<1> QED
  BY <1>4, Zenon DEF T

\* Nothing adds up to zero.
LEMMA SumEmpty ==
  ASSUME NEW w
  PROVE  SumFunctionOnSet(w, {}) = 0
<1>1. IsFiniteSet({})
  BY FS_EmptySet, Zenon
<1>2. PICK g : IsSum(g, {}, w) /\ SumFunctionOnSet(w, {}) = g[{}]
  BY <1>1, SumValue, Zenon
<1> QED
  BY <1>2, Zenon DEF IsSum

\* A sum of natural numbers is one.
LEMMA SumType ==
  ASSUME NEW S, IsFiniteSet(S), NEW w, \A x \in S : w[x] \in Nat
  PROVE  SumFunctionOnSet(w, S) \in Nat
<1>1. PICK g : IsSum(g, S, w) /\ SumFunctionOnSet(w, S) = g[S]
  BY SumValue, Zenon
<1> QED
  BY <1>1, SumCommutes DEF AddsUp

\* One more element adds its value.
LEMMA SumAdd ==
  ASSUME NEW S, IsFiniteSet(S), NEW x, x \notin S,
         NEW w, \A y \in S \cup {x} : w[y] \in Nat
  PROVE  SumFunctionOnSet(w, S \cup {x}) = SumFunctionOnSet(w, S) + w[x]
<1> DEFINE sx == S \cup {x}
<1>1. IsFiniteSet(sx)
  BY FS_AddElement, Zenon
<1>2. S \subseteq sx /\ x \in sx /\ sx \ {x} = S /\ \A y \in sx : w[y] \in Nat
  BY Zenon
<1> HIDE DEF sx
<1>3. PICK f : IsSum(f, S, w) /\ SumFunctionOnSet(w, S) = f[S]
  BY SumValue, Zenon
<1>4. PICK g : IsSum(g, sx, w) /\ SumFunctionOnSet(w, sx) = g[sx]
  BY <1>1, SumValue, Zenon
<1>5. f[S] = g[S]
  <2>1. \A s \in SUBSET S : f[s] = g[s]
    BY <1>1, <1>2, <1>3, <1>4, SumUnique
  <2> QED
    BY <2>1, Zenon
<1>6. g[sx] = g[sx \ {x}] + w[x]
  BY <1>1, <1>2, <1>4, SumCommutes DEF AddsUp
<1> QED
  BY <1>2, <1>3, <1>4, <1>5, <1>6, Zenon DEF sx

\* No element is more than the sum.
LEMMA SumAtLeast ==
  ASSUME NEW S, IsFiniteSet(S), NEW w, \A y \in S : w[y] \in Nat, NEW x \in S
  PROVE  w[x] =< SumFunctionOnSet(w, S)
<1> DEFINE r == S \ {x}
<1>1. IsFiniteSet(r)
  BY FS_RemoveElement, Zenon
<1>2. S = r \cup {x} /\ x \notin r
  BY Zenon
<1> HIDE DEF r
<1>3. SumFunctionOnSet(w, S) = SumFunctionOnSet(w, r) + w[x]
  BY <1>1, <1>2, SumAdd, Zenon
<1>4. SumFunctionOnSet(w, r) \in Nat /\ w[x] \in Nat
  BY <1>1, <1>2, SumType, Zenon
<1> QED
  BY <1>3, <1>4

\* A sum is positive iff one of its summands is.
LEMMA SumPositive ==
  ASSUME NEW S, IsFiniteSet(S), NEW w, \A y \in S : w[y] \in Nat
  PROVE  SumFunctionOnSet(w, S) > 0 <=> \E x \in S : w[x] > 0
<1>1. SumFunctionOnSet(w, S) \in Nat
  BY SumType, Zenon
<1>2. ASSUME NEW x \in S, w[x] > 0 PROVE SumFunctionOnSet(w, S) > 0
  <2>1. w[x] =< SumFunctionOnSet(w, S) /\ w[x] \in Nat
    BY SumAtLeast, Zenon
  <2> QED
    BY <1>1, <1>2, <2>1
<1>3. ASSUME \A x \in S : w[x] = 0 PROVE SumFunctionOnSet(w, S) = 0
  <2> DEFINE T == {s \in SUBSET S : SumFunctionOnSet(w, s) = 0}
  <2>1. {} \in T
    BY SumEmpty, Zenon
  <2>2. ASSUME NEW s \in SUBSET S, NEW x \in S \ s, s \in T PROVE s \cup {x} \in T
    <3>1. IsFiniteSet(s) /\ x \notin s /\ \A y \in s \cup {x} : w[y] \in Nat
      BY FS_Subset, Zenon
    <3>2. SumFunctionOnSet(w, s \cup {x}) = SumFunctionOnSet(w, s) + w[x]
      BY <3>1, SumAdd, Zenon
    <3>3. w[x] = 0 /\ SumFunctionOnSet(w, s) = 0
      BY <1>3, <2>2, Zenon
    <3> QED
      BY <3>2, <3>3
  <2> HIDE DEF T
  <2>3. \A s \in SUBSET S : s \in T
    BY <2>1, <2>2, FiniteInduces, Zenon
  <2> QED
    BY <2>3, Zenon DEF T
<1>4. CASE \E x \in S : w[x] > 0
  BY <1>2, <1>4, Zenon
<1>5. CASE ~ \E x \in S : w[x] > 0
  <2>1. \A x \in S : w[x] = 0
    BY <1>5
  <2>2. SumFunctionOnSet(w, S) = 0
    BY <1>3, <2>1, Zenon
  <2> QED
    BY <1>5, <2>2
<1> QED
  BY <1>4, <1>5, Zenon

\* A list of numbers has a greatest one.
LEMMA ListMaximum ==
  ASSUME NEW n \in Nat \ {0}, NEW f \in [1 .. n -> Nat]
  PROVE  \E i \in 1 .. n : \A j \in 1 .. n : f[j] =< f[i]
<1> DEFINE T == {k \in Nat : k + 1 =< n => \E i \in 1 .. k + 1 : \A j \in 1 .. k + 1 : f[j] =< f[i]}
<1>1. 0 \in T
  <2>1. f[1] \in Nat /\ \A j \in 1 .. 0 + 1 : j = 1
    OBVIOUS
  <2> QED
    BY <2>1
<1>2. ASSUME NEW k \in Nat, k \in T PROVE k + 1 \in T
  <2>1. SUFFICES ASSUME k + 2 =< n
                 PROVE  \E i \in 1 .. k + 2 : \A j \in 1 .. k + 2 : f[j] =< f[i]
    BY <1>2
  <2>2. PICK i \in 1 .. k + 1 : \A j \in 1 .. k + 1 : f[j] =< f[i]
    BY <1>2, <2>1
  <2>3. \A j \in 1 .. k + 2 : f[j] \in Nat /\ (j \in 1 .. k + 1 \/ j = k + 2)
    BY <2>1
  <2>4. i \in 1 .. k + 2 /\ k + 2 \in 1 .. k + 2 /\ f[i] \in Nat /\ f[k + 2] \in Nat
    BY <2>3
  <2>5. CASE f[k + 2] =< f[i]
    BY <2>2, <2>3, <2>4, <2>5, Zenon
  <2>6. CASE f[i] =< f[k + 2]
    <3>1. ASSUME NEW j \in 1 .. k + 2 PROVE f[j] =< f[k + 2]
      BY <2>2, <2>3, <2>4, <2>6
    <3> QED
      BY <2>4, <3>1, Zenon
  <2> QED
    BY <2>4, <2>5, <2>6
<1> HIDE DEF T
<1>3. \A k \in Nat : k \in T
  BY <1>1, <1>2, NatInduces, Zenon
<1>4. n - 1 \in Nat /\ (n - 1) + 1 = n
  OBVIOUS
<1>5. n - 1 \in T
  BY <1>3, <1>4, Zenon
<1> QED
  BY <1>4, <1>5 DEF T
=============================================================================
