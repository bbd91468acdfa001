----------------------------- MODULE CGStrategy ----------------------------
(***************************************************************************)
(* Prioritisation by call graphs, liebes/tcp_approach/cg_based.py: the     *)
(* total and the additional strategy on one checkout, and the APFD value   *)
(* (liebes/EHelper.py) of the order they return.                           *)
(*                                                                         *)
(* The list of test cases comes from the log of the analysis, where a file *)
(* is listed twice when two builds of the checkout ran it.  The methods    *)
(* related to a file are the kernel functions that its system calls reach; *)
(* CallGraph models how they are found.                                    *)
(***************************************************************************)
EXTENDS Integers, Sequences, FiniteSets, FiniteSetsExt, Functions

CONSTANTS
  FilePath,   \* file paths of tests
  Method,     \* kernel functions
  MaxTests    \* bound: test cases of a checkout

\* The kernel has finitely many functions.
CGAssumption == IsFiniteSet(Method) /\ MaxTests \in Nat

VARIABLES
  names,          \* the list of test cases as logged
  fails,          \* the positions of the list that failed
  stragety,       \* "total" or "additional"
  TA_tmp,         \* file -> related methods
  cg_test_cases,  \* the list that the additional strategy consumes
  slide_set,      \* methods covered since the last reset
  sorted_list,    \* the positions emitted, counted from 0 as in the code
  apfd,           \* the value, as a fraction <<numerator, denominator>>
  cg_pc

cg_vars == <<names, fails, stragety, TA_tmp, cg_test_cases, slide_set, sorted_list, apfd, cg_pc>>
cg_input == <<names, fails, stragety, TA_tmp>>

\* do_exp and its variants: for every logged failure, the positions of the
\* list with that name.
FaultCount ==
  Cardinality({pair \in fails \X DOMAIN names : names[pair[1]] = names[pair[2]]})
IsFault(position) == \E p \in fails : names[p] = names[position + 1]

\* A checkout may have no fault: do_exp4 does not leave it out, as do_exp,
\* do_exp2 and do_exp3 do.
CgInit ==
  /\ \E n \in 0 .. MaxTests : names \in [1 .. n -> FilePath]
  /\ fails \in SUBSET DOMAIN names
  /\ stragety \in {"total", "additional"}
  /\ TA_tmp \in [FilePath -> SUBSET Method]
  /\ cg_test_cases = names
  /\ slide_set = {}
  /\ sorted_list = << >>
  /\ apfd = <<0, 1>>
  /\ cg_pc = "prioritise"

-----------------------------------------------------------------------------
Size(p) == Cardinality(TA_tmp[names[p + 1]])

\* sorted(..., reverse=True) keeps positions of equal size in their order.
Before(p, q) == Size(p) > Size(q) \/ (Size(p) = Size(q) /\ p < q)

total_stragety ==
  /\ cg_pc = "prioritise" /\ stragety = "total"
  /\ LET positions == 0 .. Len(names) - 1
         rank(p) == 1 + Cardinality({q \in positions : Before(q, p)})
     IN  sorted_list' = [r \in 1 .. Len(names) |-> CHOOSE p \in positions : rank(p) = r]
  /\ cg_pc' = "measure"
  /\ UNCHANGED <<cg_input, cg_test_cases, slide_set, apfd>>

\* test_idx_map: a later position of the same name overwrites an earlier one.
test_idx_map(name) == Max({p \in DOMAIN names : names[p] = name}) - 1

Gain(name) == Cardinality(TA_tmp[name] \ slide_set)

\* Mutant: the comparison of the commented-out version, which remembers the
\* size of the whole set.
MaxTA_Stale ==
  Min({i \in DOMAIN cg_test_cases :
         \A j \in DOMAIN cg_test_cases :
           Cardinality(TA_tmp[cg_test_cases[j]]) =< Cardinality(TA_tmp[cg_test_cases[i]])})

\* The first test of the list with the most methods not covered yet.
MaxTA ==
  Min({i \in DOMAIN cg_test_cases :
         \A j \in DOMAIN cg_test_cases : Gain(cg_test_cases[j]) =< Gain(cg_test_cases[i])})

\* When nothing adds a method, the set starts again from nothing.
Slide(name) == IF Gain(name) = 0 THEN {} ELSE slide_set \cup TA_tmp[name]

\* Mutant: the chosen test stays in the list, the last one goes.
Remaining_Last(i) == SubSeq(cg_test_cases, 1, Len(cg_test_cases) - 1)

\* test_cases.remove(max_TA_test)
Remaining(i) == SubSeq(cg_test_cases, 1, i - 1) \o SubSeq(cg_test_cases, i + 1, Len(cg_test_cases))

additional_stragety ==
  /\ cg_pc = "prioritise" /\ stragety = "additional"
  /\ IF cg_test_cases = << >>
     THEN cg_pc' = "measure" /\ UNCHANGED <<cg_test_cases, slide_set, sorted_list>>
     ELSE LET i    == MaxTA
              name == cg_test_cases[i]
          IN  /\ slide_set' = Slide(name)
              /\ sorted_list' = Append(sorted_list, test_idx_map(name))
              /\ cg_test_cases' = Remaining(i)
              /\ UNCHANGED cg_pc
  /\ UNCHANGED <<cg_input, apfd>>

-----------------------------------------------------------------------------
\* Mutant: positions counted from 0 in the sum.
Detected_FromZero(i) == IF IsFault(sorted_list[i]) THEN i - 1 ELSE 0

Detected(i) == IF IsFault(sorted_list[i]) THEN i ELSE 0

\* 1 - sum / (faults * n) + 1 / (2 * n), over the denominator 2 * faults * n;
\* 0.5 when there is nothing to find or nothing to run.
APFD ==
  /\ cg_pc = "measure"
  /\ LET n   == Len(sorted_list)
         sum == SumFunction([i \in 1 .. n |-> Detected(i)])
     IN  apfd' = IF FaultCount = 0 \/ n = 0 THEN <<1, 2>>
                 ELSE <<2 * FaultCount * n - 2 * sum + FaultCount, 2 * FaultCount * n>>
  /\ cg_pc' = "done"
  /\ UNCHANGED <<cg_input, cg_test_cases, slide_set, sorted_list>>

CgNext == total_stragety \/ additional_stragety \/ APFD

CgSpec == CgInit /\ [][CgNext]_cg_vars

-----------------------------------------------------------------------------
DistinctFiles == \A p, q \in DOMAIN names : names[p] = names[q] => p = q
Count(s, x) == Cardinality({i \in DOMAIN s : s[i] = x})
Measured == cg_pc \in {"measure", "done"}

\* When files are listed twice, the additional strategy repeats the last
\* position of the file, but emits every file as often as it is listed.
EveryFileAsListed ==
  Measured =>
    \A f \in FilePath : Count(names, f) = Count([i \in DOMAIN sorted_list |->
                                                   names[sorted_list[i] + 1]], f)

\* What position i of the order adds to the positions before it, counted
\* from the last position that added nothing.
Related(i) == TA_tmp[names[sorted_list[i] + 1]]
CoveredUpTo[i \in 0 .. MaxTests] ==
  IF i = 0 \/ i \notin DOMAIN sorted_list THEN {}
  ELSE IF Related(i) \subseteq CoveredUpTo[i - 1] THEN {}
  ELSE CoveredUpTo[i - 1] \cup Related(i)
Gains(i, n) == Cardinality(Related(n) \ CoveredUpTo[i - 1])

\* At no position of the order of the additional strategy would a test that
\* comes later have added more methods.  In particular the count starts again
\* only when nothing that is left adds any.
NothingLaterAddsMore ==
  stragety = "additional" =>
    \A n \in DOMAIN sorted_list : \A i \in 1 .. n : Gains(i, n) =< Gains(i, i)

\* The value lies between that of the worst and that of the best order of so
\* many faults, f / 2n and 1 - f / 2n; without a fault these are 0 and 1.
ApfdInRange ==
  cg_pc = "done" /\ DistinctFiles =>
    LET f == Cardinality(fails)
        n == Len(names)
    IN  /\ f * apfd[2] =< 2 * n * apfd[1]
        /\ 2 * n * apfd[1] =< (2 * n - f) * apfd[2]
=============================================================================
