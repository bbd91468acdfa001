----------------------------- MODULE Data_proofs ---------------------------
(***************************************************************************)
(* The data of an experiment: the test cases that the loops of analysis.py *)
(* leave, and the results that TCResult reads from the log of a test.      *)
(***************************************************************************)
EXTENDS CaseLoops, TCResult, Lemmas

-----------------------------------------------------------------------------
(***************************************************************************)
(* The loops that decide which test cases there are, CaseLoops.  Each loop *)
(* has an inductive invariant of its own, over its own variables; a step   *)
(* of the other loop leaves them alone.  FilterInv says what case_status   *)
(* holds: the files whose last test failed.  CombineInv says where the     *)
(* tests that stay come from: from the tests visited so far, so that the   *)
(* test of a step cannot be among them.                                    *)
(***************************************************************************)
FilterTypes == InputOK /\ FilterOK

CombineTypes == InputOK /\ CombineOK

-----------------------------------------------------------------------------
(* filter_fail_cases_in_last_version                                       *)

\* case_status[f] is True iff the last test of f so far failed; every kept
\* failure either is still remembered or was followed by a non-failure.
FilterInv ==
  /\ FilterTypes
  /\ \A f \in Path : f \in acc.failing <=>
       \E m \in 1 .. filter_pos - 1 :
         /\ tests[m].file_path = f
         /\ is_failed(tests[m])
         /\ \A k \in m + 1 .. filter_pos - 1 : tests[k].file_path # f
  /\ acc.kept = {tests[n].id : n \in {m \in 1 .. filter_pos - 1 : ~ Repeated(m)}}
  /\ \A m \in 1 .. filter_pos - 1 : is_failed(tests[m]) =>
       \/ tests[m].file_path \in acc.failing
       \/ \E k \in m + 1 .. filter_pos - 1 : /\ tests[k].file_path = tests[m].file_path
                                             /\ ~ is_failed(tests[k])
  /\ EpisodesSeparated

\* What the types say of a test that the filter visits.
LEMMA FilterInputs ==
  ASSUME FilterTypes
  PROVE  /\ Len(tests) \in Nat
         /\ \A n \in 1 .. Len(tests) : /\ tests[n] \in Test
                                       /\ tests[n].id \in Nat
                                       /\ tests[n].file_path \in Path
         /\ \A m, n \in 1 .. Len(tests) : tests[m].id = tests[n].id => m = n
<1>1. tests \in Seq(Test) /\ \A m, n \in 1 .. Len(tests) : tests[m].id = tests[n].id => m = n
  BY Zenon DEF FilterTypes, InputOK, FilterOK
<1>2. \A n \in 1 .. Len(tests) : tests[n] \in Test
  BY <1>1
<1>3. \A t \in Test : t.id \in Nat /\ t.file_path \in Path
  BY Zenon DEF Test
<1> QED
  BY <1>1, <1>2, <1>3

\* Before the first test.
LEMMA InitFilter ==
  ASSUME InputsAssumption, LoopInit
  PROVE  FilterInv
<1>1. Len(tests) \in Nat
  BY DEF InputsAssumption, LoopInit
<1>2. FilterTypes
  BY <1>1 DEF InputsAssumption, LoopInit, FilterTypes, InputOK, FilterOK
<1>3. 1 .. filter_pos - 1 = {}
  BY DEF LoopInit
<1> QED
  BY <1>2, <1>3, Zenon DEF LoopInit, FilterInv, EpisodesSeparated

\* The test of the step repeats a failure iff case_status says so.
LEMMA RepeatedIffRemembered ==
  ASSUME FilterInv, filter_one_test
  PROVE  Repeated(filter_pos) <=> is_failed(tests[filter_pos]) /\ tests[filter_pos].file_path \in acc.failing
<1>1. filter_pos \in 1 .. Len(tests) /\ tests[filter_pos].file_path \in Path
  BY FilterInputs DEF FilterInv, filter_one_test, FilterTypes, InputOK, FilterOK
<1>2. tests[filter_pos].file_path \in acc.failing <=>
        \E m \in 1 .. filter_pos - 1 :
          /\ tests[m].file_path = tests[filter_pos].file_path
          /\ is_failed(tests[m])
          /\ \A k \in m + 1 .. filter_pos - 1 : tests[k].file_path # tests[filter_pos].file_path
  BY <1>1, Zenon DEF FilterInv
<1> QED
  BY <1>2, Zenon DEF Repeated, FailedJustBefore

\* One step of the loop keeps the invariant.
LEMMA StepFilter == FilterInv /\ filter_one_test => FilterInv'
<1> SUFFICES ASSUME FilterInv, filter_one_test PROVE FilterInv'
  BY Zenon
<1> DEFINE t == tests[filter_pos]
           ft == t.file_path
           bad == is_failed(t)
<1>1. /\ filter_pos \in 1 .. Len(tests) /\ filter_pos \in Nat /\ Len(tests) \in Nat
      /\ ft \in Path /\ t.id \in Nat
      /\ filter_pos' = filter_pos + 1 /\ tests' = tests
      /\ 1 .. filter_pos' - 1 = (1 .. filter_pos - 1) \cup {filter_pos}
  BY FilterInputs DEF FilterInv, filter_one_test, FilterTypes, InputOK, FilterOK
<1>2. /\ acc.failing \subseteq Path /\ acc.kept \subseteq Nat
      /\ acc'.failing = (IF bad THEN acc.failing \cup {ft} ELSE acc.failing \ {ft})
      /\ acc'.kept = (IF bad /\ ft \in acc.failing THEN acc.kept ELSE acc.kept \cup {t.id})
      /\ acc' = [failing |-> acc'.failing, kept |-> acc'.kept]
  BY Zenon DEF FilterInv, filter_one_test, FilterTypes, InputOK, FilterOK, FailStep
<1>3. \A n \in 1 .. filter_pos : Repeated(n)' = Repeated(n)
  BY <1>1, Zenon DEF Repeated, FailedJustBefore
<1>4. Repeated(filter_pos) <=> bad /\ ft \in acc.failing
  BY RepeatedIffRemembered, Zenon
<1> HIDE DEF ft, bad, t
<1>5. FilterTypes'
  <2>1. acc'.failing \subseteq Path /\ acc'.kept \subseteq Nat
    BY <1>1, <1>2, Zenon
  <2>2. acc' \in [failing : SUBSET Path, kept : SUBSET Nat]
    BY <1>2, <2>1, Zenon
  <2>3. filter_pos' \in 1 .. Len(tests') + 1
    BY <1>1
  <2>4. /\ tests' \in Seq(Test)
        /\ \A m, n \in 1 .. Len(tests') : tests'[m].id = tests'[n].id => m = n
    BY <1>1, Zenon DEF FilterInv, FilterTypes, InputOK, FilterOK
  <2> QED
    BY <2>2, <2>3, <2>4, Zenon DEF FilterTypes, InputOK, FilterOK
<1>6. (\A f \in Path : f \in acc.failing <=>
        \E m \in 1 .. filter_pos - 1 :
          /\ tests[m].file_path = f
          /\ is_failed(tests[m])
          /\ \A k \in m + 1 .. filter_pos - 1 : tests[k].file_path # f)'
  <2> SUFFICES ASSUME NEW f \in Path
               PROVE  f \in acc'.failing <=>
                        \E m \in 1 .. filter_pos :
                          /\ tests[m].file_path = f
                          /\ is_failed(tests[m])
                          /\ \A k \in m + 1 .. filter_pos : tests[k].file_path # f
    BY <1>1
  <2>1. CASE f = ft
    <3>1. \A m \in 1 .. filter_pos - 1 : filter_pos \in m + 1 .. filter_pos
      BY <1>1
    <3>2. (\E m \in 1 .. filter_pos : /\ tests[m].file_path = f
                                      /\ is_failed(tests[m])
                                      /\ \A k \in m + 1 .. filter_pos : tests[k].file_path # f) <=> bad
      BY <1>1, <2>1, <3>1 DEF ft, bad, t
    <3> QED
      BY <1>2, <2>1, <3>2, Zenon
  <2>2. CASE f # ft
    <3>1. f \in acc'.failing <=> f \in acc.failing
      BY <1>2, <2>2, Zenon
    <3>2. f \in acc.failing <=>
            \E m \in 1 .. filter_pos - 1 :
              /\ tests[m].file_path = f
              /\ is_failed(tests[m])
              /\ \A k \in m + 1 .. filter_pos - 1 : tests[k].file_path # f
      BY Zenon DEF FilterInv
    <3>3. \A m \in 1 .. filter_pos - 1 : m + 1 .. filter_pos = (m + 1 .. filter_pos - 1) \cup {filter_pos}
      BY <1>1
    <3>4. tests[filter_pos].file_path # f /\ 1 .. filter_pos = (1 .. filter_pos - 1) \cup {filter_pos}
      BY <1>1, <2>2 DEF ft, t
    <3>5. \A m \in 1 .. filter_pos - 1 :
            (\A k \in m + 1 .. filter_pos : tests[k].file_path # f)
              <=> (\A k \in m + 1 .. filter_pos - 1 : tests[k].file_path # f)
      BY <3>3, <3>4, Zenon
    <3> QED
      BY <3>1, <3>2, <3>4, <3>5, Zenon
  <2> QED
    BY <2>1, <2>2, Zenon
<1>7. (acc.kept = {tests[n].id : n \in {m \in 1 .. filter_pos - 1 : ~ Repeated(m)}})'
  <2>1. acc.kept = {tests[n].id : n \in {m \in 1 .. filter_pos - 1 : ~ Repeated(m)}}
    BY Zenon DEF FilterInv
  <2>2. {tests[n].id : n \in {m \in 1 .. filter_pos - 1 : ~ Repeated(m)}}'
          = {tests[n].id : n \in {m \in 1 .. filter_pos : ~ Repeated(m)}}
    BY <1>1, <1>3
  <2>3. acc'.kept = {tests[n].id : n \in {m \in 1 .. filter_pos : ~ Repeated(m)}}
    <3>1. CASE Repeated(filter_pos)
      <4>1. {m \in 1 .. filter_pos : ~ Repeated(m)} = {m \in 1 .. filter_pos - 1 : ~ Repeated(m)}
        BY <1>1, <3>1
      <4> QED
        BY <1>2, <1>4, <2>1, <3>1, <4>1, Zenon
    <3>2. CASE ~ Repeated(filter_pos)
      <4>1. {m \in 1 .. filter_pos : ~ Repeated(m)} = {m \in 1 .. filter_pos - 1 : ~ Repeated(m)} \cup {filter_pos}
        BY <1>1, <3>2
      <4> QED
        BY <1>2, <1>4, <2>1, <3>2, <4>1, Zenon DEF t
    <3> QED
      BY <3>1, <3>2, Zenon
  <2> QED
    BY <2>2, <2>3, Zenon
<1>8. (\A m \in 1 .. filter_pos - 1 : is_failed(tests[m]) =>
         \/ tests[m].file_path \in acc.failing
         \/ \E k \in m + 1 .. filter_pos - 1 : /\ tests[k].file_path = tests[m].file_path
                                               /\ ~ is_failed(tests[k]))'
  <2> SUFFICES ASSUME NEW m \in 1 .. filter_pos, is_failed(tests[m]),
                      tests[m].file_path \notin acc'.failing
               PROVE  \E k \in m + 1 .. filter_pos : /\ tests[k].file_path = tests[m].file_path
                                                     /\ ~ is_failed(tests[k])
    BY <1>1, SMTT(60)
  <2>1. m # filter_pos
    BY <1>2, Zenon DEF ft, bad, t
  <2>2. m \in 1 .. filter_pos - 1 /\ filter_pos \in m + 1 .. filter_pos /\ m + 1 .. filter_pos - 1 \subseteq m + 1 .. filter_pos
    BY <1>1, <2>1
  <2>3. CASE tests[m].file_path \in acc.failing
    <3>1. ~ bad /\ tests[m].file_path = ft
      BY <1>2, <2>3, Zenon
    <3> QED
      BY <2>2, <3>1, Zenon DEF ft, bad, t
  <2>4. CASE tests[m].file_path \notin acc.failing
    BY <2>2, <2>4, Zenon DEF FilterInv
  <2> QED
    BY <2>3, <2>4, Zenon
<1>9. EpisodesSeparated'
  <2> SUFFICES ASSUME NEW m \in 1 .. filter_pos, NEW n \in 1 .. filter_pos, m < n,
                      tests[m].file_path = tests[n].file_path,
                      is_failed(tests[m]), is_failed(tests[n]),
                      tests[m].id \in acc'.kept, tests[n].id \in acc'.kept
               PROVE  \E k \in m + 1 .. n - 1 :
                        /\ tests[k].file_path = tests[n].file_path
                        /\ ~ is_failed(tests[k])
                        /\ tests[k].id \in acc'.kept
    BY <1>1 DEF EpisodesSeparated
  <2>1. m \in 1 .. filter_pos - 1
    BY <1>1
  <2>2. \A k \in 1 .. filter_pos - 1 : tests[k].id \in acc'.kept <=> tests[k].id \in acc.kept
    <3> SUFFICES ASSUME NEW k \in 1 .. filter_pos - 1 PROVE tests[k].id # t.id
      BY <1>2, Zenon
    <3>1. k \in 1 .. Len(tests) /\ k # filter_pos
      BY <1>1
    <3> QED
      BY <1>1, <3>1, FilterInputs, Zenon DEF FilterInv, t
  <2>3. CASE n \in 1 .. filter_pos - 1
    <3>1. PICK k \in m + 1 .. n - 1 : /\ tests[k].file_path = tests[n].file_path
                                      /\ ~ is_failed(tests[k])
                                      /\ tests[k].id \in acc.kept
      BY <2>1, <2>2, <2>3 DEF FilterInv, EpisodesSeparated
    <3>2. k \in 1 .. filter_pos - 1
      BY <1>1, <2>1, <2>3, SMTT(60)
    <3> QED
      BY <2>2, <3>1, <3>2, Zenon
  <2>4. CASE n = filter_pos
    <3>1. bad /\ tests[m].file_path = ft
      BY <2>4, Zenon DEF bad, ft, t
    <3>2. ft \notin acc.failing
      <4>1. t.id \notin acc.kept
        <5> SUFFICES ASSUME t.id \in acc.kept PROVE FALSE
          BY Zenon
        <5>1. PICK k \in 1 .. filter_pos - 1 : t.id = tests[k].id
          BY DEF FilterInv
        <5>2. k \in 1 .. Len(tests) /\ k # filter_pos
          BY <1>1
        <5> QED
          BY <1>1, <5>1, <5>2, FilterInputs, Zenon DEF FilterInv, t
      <4> QED
        BY <1>2, <2>4, <3>1, <4>1, Zenon DEF t
    <3>3. PICK k \in m + 1 .. filter_pos - 1 : /\ tests[k].file_path = tests[m].file_path
                                               /\ ~ is_failed(tests[k])
      BY <2>1, <3>1, <3>2, Zenon DEF FilterInv
    <3>4. k \in 1 .. filter_pos - 1
      BY <1>1, <2>1
    <3>5. ~ Repeated(k)
      BY <3>3, Zenon DEF Repeated
    <3>6. tests[k].id \in acc.kept
      BY <3>4, <3>5 DEF FilterInv
    <3>7. k \in m + 1 .. n - 1 /\ tests[k].file_path = tests[n].file_path
      BY <2>4, <3>3, Zenon
    <3> QED
      BY <2>2, <3>3, <3>4, <3>6, <3>7, Zenon
  <2>5. n \in 1 .. filter_pos - 1 \/ n = filter_pos
    BY <1>1
  <2> QED
    BY <2>3, <2>4, <2>5, Zenon
<1> QED
  BY <1>5, <1>6, <1>7, <1>8, <1>9, Zenon DEF FilterInv

\* A step of the other loop leaves the invariant alone.
LEMMA FilterInvariant ==
  ASSUME InputsAssumption
  PROVE  LoopSpec => []FilterInv
<1>1. FilterInv /\ UNCHANGED <<tests, filter_pos, acc>> => FilterInv'
  <2> SUFFICES ASSUME FilterInv, UNCHANGED <<tests, filter_pos, acc>> PROVE FilterInv'
    BY Zenon
  <2>1. tests' = tests /\ filter_pos' = filter_pos /\ acc' = acc
    BY Zenon
  <2>2. FilterTypes'
    BY <2>1, Zenon DEF FilterInv, FilterTypes, InputOK, FilterOK
  <2>3. EpisodesSeparated'
    BY <2>1 DEF FilterInv, EpisodesSeparated
  <2>4. \A n : Repeated(n)' = Repeated(n)
    BY <2>1, Zenon DEF Repeated, FailedJustBefore
  <2>5. (acc.kept = {tests[n].id : n \in {m \in 1 .. filter_pos - 1 : ~ Repeated(m)}})'
    BY <2>1, <2>4 DEF FilterInv
  <2> QED
    BY <2>1, <2>2, <2>3, <2>5 DEF FilterInv
<1>2. [LoopNext]_loop_vars => filter_one_test \/ UNCHANGED <<tests, filter_pos, acc>>
  BY Zenon DEF LoopNext, loop_vars, combine_one_test
<1>3. (LoopInit => FilterInv) /\ (FilterInv /\ filter_one_test => FilterInv')
  BY InitFilter, StepFilter, Zenon
<1> QED
  BY <1>1, <1>2, <1>3, PTL DEF LoopSpec

\* For data of any size, filter_fail_cases_in_last_version drops exactly the
\* failures that repeat the failure of the preceding test of their file.
THEOREM DropsRepeatedFailures ==
  ASSUME InputsAssumption
  PROVE  LoopSpec => []FailuresAreNew
<1>1. FilterInv => FailuresAreNew
  <2> SUFFICES ASSUME FilterInv, NEW n \in 1 .. filter_pos - 1
               PROVE  tests[n].id \in acc.kept <=> ~ Repeated(n)
    BY Zenon DEF FailuresAreNew
  <2>1. 1 .. filter_pos - 1 \subseteq 1 .. Len(tests)
    BY FilterInputs DEF FilterInv, FilterTypes, InputOK, FilterOK
  <2>2. \A m \in 1 .. filter_pos - 1 : tests[m].id = tests[n].id => m = n
    BY <2>1, FilterInputs, Zenon DEF FilterInv
  <2> QED
    BY <2>2 DEF FilterInv
<1>2. LoopSpec => []FilterInv
  BY FilterInvariant, Zenon
<1> QED
  BY <1>1, <1>2, PTL

\* For data of any size, two failures of a file that survive
\* filter_fail_cases_in_last_version are separated by a surviving test of
\* that file that did not fail.
THEOREM OneFailurePerEpisode ==
  ASSUME InputsAssumption
  PROVE  LoopSpec => []EpisodesSeparated
<1>1. FilterInv => EpisodesSeparated
  BY Zenon DEF FilterInv
<1>2. LoopSpec => []FilterInv
  BY FilterInvariant, Zenon
<1> QED
  BY <1>1, <1>2, PTL

-----------------------------------------------------------------------------
(* _combine_same_test_file_case                                            *)

CombineInv ==
  /\ CombineTypes
  /\ combined = [status_m |-> combined.status_m, first |-> combined.first]
  /\ combined.first \subseteq {tests[n].id : n \in 1 .. combine_pos - 1}
  /\ FirstKept
  /\ MergedStatus

\* What the types say of a test of the build.
LEMMA CombineInputs ==
  ASSUME CombineTypes
  PROVE  /\ Len(tests) \in Nat
         /\ \A n \in 1 .. Len(tests) : /\ tests[n].id \in Nat
                                       /\ tests[n].file_path \in File \cup {None}
                                       /\ tests[n].status \in 0 .. 3
         /\ \A m, n \in 1 .. Len(tests) : tests[m].id = tests[n].id => m = n
<1>1. tests \in Seq(Test) /\ \A m, n \in 1 .. Len(tests) : tests[m].id = tests[n].id => m = n
  BY Zenon DEF CombineTypes, InputOK, CombineOK
<1>2. \A n \in 1 .. Len(tests) : tests[n] \in Test
  BY <1>1
<1>3. \A t \in Test : t.id \in Nat /\ t.file_path \in File \cup {None} /\ t.status \in 0 .. 3
  BY Zenon DEF Test, Path
<1> QED
  BY <1>1, <1>2, <1>3

\* Merging takes the best of the two statuses (merge_status).
LEMMA MergeTakesBest ==
  ASSUME NEW s \in 0 .. 3, NEW o \in 0 .. 3
  PROVE  /\ merge_status(s, o) \in 0 .. 3
         /\ merge_status(s, o) = 0 <=> s = 0 \/ o = 0
         /\ merge_status(s, o) \in {1, 2} <=> s # 0 /\ o # 0 /\ (s \in {1, 2} \/ o \in {1, 2})
<1>1. (s \in {0, 10} <=> s = 0) /\ (o \in {0, 10} <=> o = 0)
  OBVIOUS
<1>2. CASE s = 0 \/ o = 0
  BY <1>1, <1>2 DEF merge_status
<1>3. CASE s # 0 /\ o # 0
  BY <1>1, <1>3 DEF merge_status
<1> QED
  BY <1>2, <1>3, Zenon

\* Before the first test.
LEMMA InitCombine ==
  ASSUME InputsAssumption, LoopInit
  PROVE  CombineInv
<1>1. Len(tests) \in Nat
  BY DEF InputsAssumption, LoopInit
<1>2. combined.status_m = << >> /\ combined.first = {} /\ DOMAIN combined.status_m = {}
  BY DEF LoopInit
<1>3. combined.status_m \in [DOMAIN combined.status_m -> 0 .. 3]
  BY <1>2
<1>4. CombineTypes
  BY <1>1, <1>2, <1>3 DEF InputsAssumption, LoopInit, CombineTypes, InputOK, CombineOK
<1>5. 1 .. combine_pos - 1 = {}
  BY DEF LoopInit
<1>6. MergedStatus
  BY <1>2, <1>5, Zenon DEF MergedStatus, Visited
<1> QED
  BY <1>2, <1>4, <1>5, <1>6, Zenon DEF LoopInit, CombineInv, FirstKept

\* The three outcomes of the loop's body.
LEMMA StepCases ==
  ASSUME CombineInv, combine_one_test
  PROVE  LET t == tests[combine_pos]
             f == t.file_path
         IN  \/ f = None /\ combined' = combined
             \/ /\ f \in DOMAIN combined.status_m
                /\ combined'.first = combined.first
                /\ DOMAIN combined'.status_m = DOMAIN combined.status_m
                /\ combined'.status_m = [g \in DOMAIN combined.status_m |->
                     IF g = f THEN merge_status(combined.status_m[g], t.status) ELSE combined.status_m[g]]
                /\ combined' = [status_m |-> combined'.status_m, first |-> combined'.first]
             \/ /\ f \in File \ DOMAIN combined.status_m
                /\ combined'.first = combined.first \cup {t.id}
                /\ DOMAIN combined'.status_m = DOMAIN combined.status_m \cup {f}
                /\ combined'.status_m = [g \in DOMAIN combined.status_m \cup {f} |->
                     IF g = f THEN t.status ELSE combined.status_m[g]]
                /\ combined' = [status_m |-> combined'.status_m, first |-> combined'.first]
<1> DEFINE t == tests[combine_pos]
           f == t.file_path
<1>1. combine_pos \in 1 .. Len(tests) /\ f \in File \cup {None}
  BY CombineInputs DEF CombineInv, combine_one_test, CombineTypes, InputOK, CombineOK
<1>2. /\ combined.status_m \in [DOMAIN combined.status_m -> 0 .. 3]
      /\ combined = [status_m |-> combined.status_m, first |-> combined.first]
      /\ DOMAIN combined.status_m \subseteq File
  BY Zenon DEF CombineInv, CombineTypes, InputOK, CombineOK
<1>3. combined' = CombineStep(combined, t)
  BY Zenon DEF combine_one_test
<1> HIDE DEF t
<1>4. CASE f = None
  BY <1>3, <1>4, Zenon DEF CombineStep, t
<1>5. CASE f # None /\ f \in DOMAIN combined.status_m
  <2>1. combined' = [combined EXCEPT !.status_m[f] = merge_status(@, t.status)]
    BY <1>3, <1>5, Zenon DEF CombineStep
  <2>2. /\ combined'.first = combined.first
        /\ combined'.status_m = [combined.status_m EXCEPT ![f] = merge_status(@, t.status)]
        /\ combined' = [status_m |-> combined'.status_m, first |-> combined'.first]
    BY <1>2, <2>1, Zenon
  <2>3. combined'.status_m = [g \in DOMAIN combined.status_m |->
          IF g = f THEN merge_status(combined.status_m[g], t.status) ELSE combined.status_m[g]]
    BY <1>2, <2>2, Zenon
  <2> QED
    BY <1>5, <2>2, <2>3, Zenon DEF t
<1>6. CASE f # None /\ f \notin DOMAIN combined.status_m
  BY <1>1, <1>3, <1>6, Zenon DEF CombineStep, t
<1> QED
  BY <1>4, <1>5, <1>6, Zenon

\* One step of the loop keeps the invariant.
LEMMA StepCombine ==
  ASSUME InputsAssumption, CombineInv, combine_one_test
  PROVE  CombineInv'
<1> DEFINE t == tests[combine_pos]
           f == t.file_path
           sm == combined.status_m
           isNone == f = None /\ combined' = combined
           isMerge == /\ f \in DOMAIN sm
                      /\ combined'.first = combined.first
                      /\ DOMAIN combined'.status_m = DOMAIN sm
                      /\ combined'.status_m = [g \in DOMAIN sm |->
                           IF g = f THEN merge_status(sm[g], t.status) ELSE sm[g]]
                      /\ combined' = [status_m |-> combined'.status_m, first |-> combined'.first]
           isNew == /\ f \in File \ DOMAIN sm
                    /\ combined'.first = combined.first \cup {t.id}
                    /\ DOMAIN combined'.status_m = DOMAIN sm \cup {f}
                    /\ combined'.status_m = [g \in DOMAIN sm \cup {f} |->
                         IF g = f THEN t.status ELSE sm[g]]
                    /\ combined' = [status_m |-> combined'.status_m, first |-> combined'.first]
<1>0. isNone \/ isMerge \/ isNew
  BY StepCases, Zenon
<1>1. /\ combine_pos \in 1 .. Len(tests) /\ combine_pos \in Nat /\ Len(tests) \in Nat
      /\ f \in File \cup {None} /\ t.id \in Nat /\ t.status \in 0 .. 3
      /\ combine_pos' = combine_pos + 1 /\ tests' = tests
      /\ 1 .. combine_pos' - 1 = (1 .. combine_pos - 1) \cup {combine_pos}
  BY CombineInputs DEF CombineInv, combine_one_test, CombineTypes, InputOK, CombineOK
<1>2. /\ sm \in [DOMAIN sm -> 0 .. 3] /\ DOMAIN sm \subseteq File
      /\ combined.first \subseteq Nat /\ None \notin File
      /\ combined.first \subseteq {tests[n].id : n \in 1 .. combine_pos - 1}
      /\ combined = [status_m |-> sm, first |-> combined.first]
  BY Zenon DEF InputsAssumption, CombineInv, CombineTypes, InputOK, CombineOK
<1>3. t.id \notin combined.first
  BY <1>1, <1>2, CombineInputs, SMTT(60) DEF CombineInv
<1>4. \A g : Visited(g)' = IF g = f THEN Visited(g) \cup {combine_pos} ELSE Visited(g)
  BY <1>1, Zenon DEF Visited
<1>5. DOMAIN sm = {g \in File : Visited(g) # {}}
  BY Zenon DEF CombineInv, MergedStatus
<1>6. combined'.first = combined.first \/ combined'.first = combined.first \cup {t.id}
  BY <1>0, Zenon
<1>7. combined' = [status_m |-> combined'.status_m, first |-> combined'.first]
  BY <1>0, <1>2, Zenon
<1>8. CombineTypes'
  <2>1. combined'.status_m \in [DOMAIN combined'.status_m -> 0 .. 3] /\ DOMAIN combined'.status_m \subseteq File
    <3>1. CASE isNone
      BY <1>2, <3>1, Zenon
    <3>2. CASE isMerge
      <4>1. merge_status(sm[f], t.status) \in 0 .. 3
        BY <1>1, <1>2, <3>2, MergeTakesBest, Zenon
      <4> QED
        BY <1>1, <1>2, <3>2, <4>1
    <3>3. CASE isNew
      BY <1>1, <1>2, <3>3
    <3> QED
      BY <1>0, <3>1, <3>2, <3>3, Zenon
  <2>2. combined'.first \subseteq Nat
    BY <1>1, <1>2, <1>6, Zenon
  <2>3. combine_pos' \in 1 .. Len(tests') + 1
    BY <1>1
  <2>4. /\ tests' \in Seq(Test)
        /\ \A m, n \in 1 .. Len(tests') : tests'[m].id = tests'[n].id => m = n
    BY <1>1, Zenon DEF CombineInv, CombineTypes, InputOK, CombineOK
  <2> QED
    BY <2>1, <2>2, <2>3, <2>4, Zenon DEF CombineTypes, InputOK, CombineOK
<1>9. (combined.first \subseteq {tests[n].id : n \in 1 .. combine_pos - 1})'
  BY <1>1, <1>2, <1>6
<1>10. FirstKept'
  <2>1. t.id \in combined'.first <=> isNew
    BY <1>0, <1>2, <1>3, Zenon
  <2>2. f # None /\ (\A m \in 1 .. combine_pos - 1 : tests[m].file_path # f) <=> f \in File \ DOMAIN sm
    BY <1>1, <1>2, <1>5, Zenon DEF Visited
  <2>3. isNew <=> f \in File \ DOMAIN sm
    BY <1>0, <1>2, Zenon
  <2>4. \A n \in 1 .. combine_pos - 1 : tests[n].id \in combined'.first <=> tests[n].id \in combined.first
    <3>1. \A n \in 1 .. combine_pos - 1 : tests[n].id # t.id
      <4>1. \A m, n \in 1 .. Len(tests) : tests[m].id = tests[n].id => m = n
        BY CombineInputs, Zenon DEF CombineInv
      <4>2. \A n \in 1 .. combine_pos - 1 : n \in 1 .. Len(tests) /\ n # combine_pos
        BY <1>1
      <4> QED
        BY <1>1, <4>1, <4>2, Zenon
    <3> QED
      BY <1>6, <3>1, Zenon
  <2>5. \A n \in 1 .. combine_pos - 1 :
          tests[n].id \in combined'.first <=>
            /\ tests[n].file_path # None
            /\ \A m \in 1 .. n - 1 : tests[m].file_path # tests[n].file_path
    BY <2>4, Zenon DEF CombineInv, FirstKept
  <2>6. tests[combine_pos].id \in combined'.first <=>
            /\ tests[combine_pos].file_path # None
            /\ \A m \in 1 .. combine_pos - 1 : tests[m].file_path # tests[combine_pos].file_path
    BY <2>1, <2>2, <2>3, Zenon
  <2> QED
    BY <1>1, <2>5, <2>6, Zenon DEF FirstKept
<1>11. MergedStatus'
  <2>1. DOMAIN combined'.status_m = {g \in File : Visited(g)' # {}}
    BY <1>0, <1>1, <1>2, <1>4, <1>5, Zenon
  <2>2. ASSUME NEW g \in DOMAIN combined'.status_m
        PROVE  LET somePass == \E n \in Visited(g)' : is_pass(tests[n])
                   someFail == \E n \in Visited(g)' : is_failed(tests[n])
               IN  /\ combined'.status_m[g] = 0 <=> somePass
                   /\ combined'.status_m[g] \in {1, 2} <=> ~ somePass /\ someFail
    <3> DEFINE oldPass == \E n \in Visited(g) : is_pass(tests[n])
               oldFail == \E n \in Visited(g) : is_failed(tests[n])
    <3>1. g \in DOMAIN sm => /\ sm[g] \in 0 .. 3
                             /\ sm[g] = 0 <=> oldPass
                             /\ sm[g] \in {1, 2} <=> ~ oldPass /\ oldFail
      BY <1>2, Zenon DEF CombineInv, MergedStatus
    <3>2. is_pass(t) <=> t.status = 0
      BY <1>1 DEF is_pass
    <3>3. is_failed(t) <=> t.status \in {1, 2}
      BY Zenon DEF is_failed
    <3>4. CASE g # f
      <4>1. g \in DOMAIN sm /\ combined'.status_m[g] = sm[g] /\ Visited(g)' = Visited(g)
        BY <1>0, <1>4, <3>4, Zenon
      <4> QED
        BY <3>1, <4>1, Zenon
    <3>5. CASE g = f
      <4>1. Visited(g)' = Visited(g) \cup {combine_pos}
        BY <1>4, <3>5, Zenon
      <4>2. /\ (\E n \in Visited(g)' : is_pass(tests[n])) <=> oldPass \/ is_pass(t)
            /\ (\E n \in Visited(g)' : is_failed(tests[n])) <=> oldFail \/ is_failed(t)
        BY <4>1, Zenon
      <4>3. CASE isMerge
        <5>1. combined'.status_m[g] = merge_status(sm[g], t.status) /\ g \in DOMAIN sm
          BY <3>5, <4>3, Zenon
        <5> HIDE DEF oldPass, oldFail
        <5>2. /\ combined'.status_m[g] = 0 <=> sm[g] = 0 \/ t.status = 0
              /\ combined'.status_m[g] \in {1, 2} <=>
                   sm[g] # 0 /\ t.status # 0 /\ (sm[g] \in {1, 2} \/ t.status \in {1, 2})
          BY <1>1, <3>1, <5>1, MergeTakesBest
        <5> QED
          BY <3>1, <3>2, <3>3, <4>2, <5>1, <5>2, Zenon
      <4>4. CASE isNew
        <5>1. combined'.status_m[g] = t.status
          BY <3>5, <4>4, Zenon
        <5>2. Visited(g) = {}
          BY <1>5, <3>5, <4>4, Zenon
        <5> QED
          BY <3>2, <3>3, <4>2, <5>1, <5>2
      <4>5. ~ isNone
        BY <1>2, <3>5, Zenon
      <4> QED
        BY <1>0, <4>3, <4>4, <4>5, Zenon
    <3> QED
      BY <3>4, <3>5, Zenon
  <2> QED
    BY <1>1, <2>1, <2>2, Zenon DEF MergedStatus
<1> QED
  BY <1>7, <1>8, <1>9, <1>10, <1>11, Zenon DEF CombineInv

\* A step of the other loop leaves the invariant alone.
LEMMA CombineInvariant ==
  ASSUME InputsAssumption
  PROVE  LoopSpec => []CombineInv
<1>1. CombineInv /\ UNCHANGED <<tests, combine_pos, combined>> => CombineInv'
  <2> SUFFICES ASSUME CombineInv, UNCHANGED <<tests, combine_pos, combined>> PROVE CombineInv'
    BY Zenon
  <2>1. tests' = tests /\ combine_pos' = combine_pos /\ combined' = combined
    BY Zenon
  <2>2. CombineTypes'
    BY <2>1, Zenon DEF CombineInv, CombineTypes, InputOK, CombineOK
  <2>3. FirstKept'
    BY <2>1, Zenon DEF CombineInv, FirstKept
  <2>4. MergedStatus'
    BY <2>1 DEF CombineInv, MergedStatus, Visited
  <2> QED
    BY <2>1, <2>2, <2>3, <2>4, Zenon DEF CombineInv
<1>2. [LoopNext]_loop_vars => combine_one_test \/ UNCHANGED <<tests, combine_pos, combined>>
  BY Zenon DEF LoopNext, loop_vars, filter_one_test
<1>3. (LoopInit => CombineInv) /\ (CombineInv /\ combine_one_test => CombineInv')
  BY InitCombine, StepCombine, Zenon
<1> QED
  BY <1>1, <1>2, <1>3, PTL DEF LoopSpec

\* The combination keeps exactly the first test of every file, for a build
\* of any number of tests.
THEOREM KeepsFirstOfFile ==
  ASSUME InputsAssumption
  PROVE  LoopSpec => []FirstKept
<1>1. CombineInv => FirstKept
  BY Zenon DEF CombineInv
<1>2. LoopSpec => []CombineInv
  BY CombineInvariant, Zenon
<1> QED
  BY <1>1, <1>2, PTL

\* The merged status does not depend on the order of the results: pass if
\* any passed, else failed if any failed.
THEOREM MergeIsBestResult ==
  ASSUME InputsAssumption
  PROVE  LoopSpec => []MergedStatus
<1>1. CombineInv => MergedStatus
  BY Zenon DEF CombineInv
<1>2. LoopSpec => []CombineInv
  BY CombineInvariant, Zenon
<1> QED
  BY <1>1, <1>2, PTL

\* The dictionaries and the lists of both loops keep their types; status_m
\* has entries for files only, whatever the data holds.
THEOREM LoopTypes ==
  ASSUME InputsAssumption
  PROVE  LoopSpec => []TypeOK
<1>1. FilterInv /\ CombineInv => TypeOK
  BY Zenon DEF FilterInv, CombineInv, FilterTypes, CombineTypes, TypeOK
<1>2. (LoopSpec => []FilterInv) /\ (LoopSpec => []CombineInv)
  BY FilterInvariant, CombineInvariant, Zenon
<1> QED
  BY <1>1, <1>2, PTL

-----------------------------------------------------------------------------
(***************************************************************************)
(* The logs of reproduced tests, TCResult.  The property only speaks of    *)
(* the log and of the counts at the end, so the invariant says what the    *)
(* loop holds in between: Extracting, the lines since the last start while *)
(* no marker followed; BlocksOfTests, that the blocks cut so far are those *)
(* of the tests that finished so far, each of them, and as many.  An end   *)
(* without a start would read the block of an earlier test (or raise), so  *)
(* the second part is claimed of logs whose ends are matched.  What a      *)
(* block counts is compared with what the log shows in CountTells.         *)
(***************************************************************************)
\* The test that a log shows from line s to line e, without the line s.
Block(s, e) == SubSeq(log_content, s + 1, e)

\* No marker lies strictly between two lines.
NoMarker(a, b) == \A k \in a .. b : k \in DOMAIN log_content =>
                    log_content[k].word \notin {"test_start", "test_end"}

\* The finished tests that end before the next line.
FinishedSoFar == {run \in Finished : run[2] < line_no}

LogTypes ==
  /\ log_content \in Seq(LogLine)
  /\ line_no \in 1 .. Len(log_content) + 1
  /\ start_extracted \in BOOLEAN
  /\ extracted_content \in [bound : BOOLEAN, lines : Seq(LogLine)]
  /\ sub_blocks \in Seq(Seq(LogLine))
  /\ log_pc \in {"lines", "raised", "done"}

\* After the start of a test, and until the next marker, extracted_content
\* holds the lines since.
Extracting ==
  \A s \in 1 .. line_no - 1 :
    log_content[s].word = "test_start" /\ NoMarker(s + 1, line_no - 1) =>
      start_extracted /\ extracted_content = Content(Block(s, line_no - 1))

\* The blocks are those of the finished tests, as many as there are.
BlocksOfTests ==
  /\ log_pc # "raised"
  /\ Len(sub_blocks) = Cardinality(FinishedSoFar)
  /\ \A run \in FinishedSoFar : \E b \in DOMAIN sub_blocks : sub_blocks[b] = Block(run[1], run[2])
  /\ \A b \in DOMAIN sub_blocks : \E run \in FinishedSoFar : sub_blocks[b] = Block(run[1], run[2])

LogInv ==
  /\ LogTypes
  /\ log_pc = "lines" => Extracting
  /\ EndsMatched => BlocksOfTests
  /\ log_pc = "done" => /\ line_no = Len(log_content) + 1
                        /\ items = [b \in DOMAIN sub_blocks |-> create_sub_result(sub_blocks[b])]

\* The two ends of a finished test.
LEMMA FinishedIs ==
  ASSUME LogTypes
  PROVE  /\ IsFiniteSet(Finished)
         /\ \A s, e : <<s, e>> \in Finished <=>
              /\ s \in 1 .. Len(log_content) /\ e \in 1 .. Len(log_content) /\ s < e
              /\ log_content[s].word = "test_start" /\ log_content[e].word = "test_end"
              /\ NoMarker(s + 1, e - 1)
         /\ \A run \in Finished : run = <<run[1], run[2]>>
<1> DEFINE L == Len(log_content)
<1>1. L \in Nat /\ DOMAIN log_content = 1 .. L
  BY DEF LogTypes
<1> HIDE DEF L
<1>2. IsFiniteSet(Finished)
  <2>1. IsFiniteSet((1 .. L) \X (1 .. L))
    <3>1. IsFiniteSet(1 .. L)
      BY <1>1, FS_Interval
    <3> QED
      BY <3>1, FS_Product, Zenon
  <2>2. Finished \subseteq (1 .. L) \X (1 .. L)
    BY <1>1, Zenon DEF Finished, Markers
  <2> QED
    BY <2>1, <2>2, FS_Subset, Zenon
<1>3. ASSUME NEW s, NEW e
      PROVE  <<s, e>> \in Finished <=>
               /\ s \in 1 .. L /\ e \in 1 .. L /\ s < e
               /\ log_content[s].word = "test_start" /\ log_content[e].word = "test_end"
               /\ NoMarker(s + 1, e - 1)
  <2>1. <<s, e>> \in Finished <=>
          /\ s \in Markers({"test_start"}) /\ e \in Markers({"test_end"}) /\ s < e
          /\ Markers({"test_start", "test_end"}) \cap (s + 1 .. e - 1) = {}
    BY Zenon DEF Finished
  <2>2. /\ s \in Markers({"test_start"}) <=> s \in 1 .. L /\ log_content[s].word = "test_start"
        /\ e \in Markers({"test_end"}) <=> e \in 1 .. L /\ log_content[e].word = "test_end"
    BY <1>1, Zenon DEF Markers
  <2>3. Markers({"test_start", "test_end"}) \cap (s + 1 .. e - 1) = {} <=> NoMarker(s + 1, e - 1)
    BY Zenon DEF Markers, NoMarker
  <2> QED
    BY <2>1, <2>2, <2>3, Zenon
<1>4. \A run \in Finished : run = <<run[1], run[2]>>
  BY DEF Finished
<1> QED
  BY <1>2, <1>3, <1>4, Zenon DEF L

\* A test that ends has one start.
LEMMA OneStart ==
  ASSUME LogTypes, NEW r, NEW s, NEW e, <<r, e>> \in Finished, <<s, e>> \in Finished
  PROVE  r = s
<1>1. /\ r \in 1 .. e - 1 /\ s \in 1 .. e - 1 /\ r \in DOMAIN log_content /\ s \in DOMAIN log_content
      /\ log_content[r].word = "test_start" /\ log_content[s].word = "test_start"
      /\ NoMarker(r + 1, e - 1) /\ NoMarker(s + 1, e - 1)
  BY FinishedIs DEF LogTypes
<1>2. e \in Nat
  BY FinishedIs DEF LogTypes
<1>3. ~ (r < s) /\ ~ (s < r)
  BY <1>1, <1>2 DEF NoMarker
<1> QED
  BY <1>1, <1>2, <1>3

\* The invariant holds before the first line.
LEMMA LogStarts ==
  ASSUME LogsAssumption, LogInit
  PROVE  LogInv
<1>1. LogTypes
  <2>1. log_content \in Seq(LogLine)
    BY Zenon DEF LogsAssumption, LogInit
  <2>2. << >> \in Seq(LogLine) /\ << >> \in Seq(Seq(LogLine)) /\ Len(log_content) \in Nat
    BY <2>1
  <2>3. extracted_content \in [bound : BOOLEAN, lines : Seq(LogLine)]
    BY <2>2, Zenon DEF LogInit, Unbound
  <2>4. line_no \in 1 .. Len(log_content) + 1
    BY <2>2 DEF LogInit
  <2> QED
    BY <2>1, <2>2, <2>3, <2>4, Zenon DEF LogInit, LogTypes
<1>2. Extracting
  BY DEF LogInit, Extracting
<1>3. FinishedSoFar = {}
  <2>1. \A run \in Finished : ~ (run[2] < 1)
    BY <1>1 DEF Finished, Markers, LogTypes
  <2> QED
    BY <2>1, Zenon DEF FinishedSoFar, LogInit
<1>4. BlocksOfTests
  BY <1>3, FS_EmptySet DEF BlocksOfTests, LogInit
<1> QED
  BY <1>1, <1>2, <1>4, Zenon DEF LogInv, LogInit

\* A piece of a sequence grows at its end.
LEMMA PieceGrows ==
  ASSUME NEW S, NEW q \in Seq(S), NEW a \in Nat \ {0}, NEW b \in Nat, a =< b, b =< Len(q)
  PROVE  Append(SubSeq(q, a, b - 1), q[b]) = SubSeq(q, a, b)
<1>1. /\ SubSeq(q, a, b - 1) \in Seq(S) /\ Len(SubSeq(q, a, b - 1)) = b - a
      /\ \A k \in 1 .. b - a : SubSeq(q, a, b - 1)[k] = q[a + k - 1]
  OBVIOUS
<1>2. /\ SubSeq(q, a, b) \in Seq(S) /\ Len(SubSeq(q, a, b)) = b - a + 1
      /\ \A k \in 1 .. b - a + 1 : SubSeq(q, a, b)[k] = q[a + k - 1]
  OBVIOUS
<1>3. q[b] \in S
  OBVIOUS
<1> DEFINE one == SubSeq(q, a, b - 1)
           two == SubSeq(q, a, b)
<1> HIDE DEF one, two
<1>4. Append(one, q[b]) = two
  <2>1. Append(one, q[b]) \in Seq(S) /\ Len(Append(one, q[b])) = Len(two)
    BY <1>1, <1>2, <1>3 DEF one, two
  <2>2. ASSUME NEW k \in 1 .. Len(two) PROVE Append(one, q[b])[k] = two[k]
    BY <1>1, <1>2, <1>3 DEF one, two
  <2>3. two \in Seq(S)
    BY <1>2, Zenon DEF two
  <2> QED
    BY <2>1, <2>2, <2>3
<1> QED
  BY <1>4, Zenon DEF one, two

\* What extracted_content is after a line of a test that runs.
LEMMA ExtractedLine ==
  ASSUME LogTypes, Extracting, line_no =< Len(log_content),
         NEW s \in 1 .. line_no - 1, log_content[s].word = "test_start",
         NoMarker(s + 1, line_no - 1), Line.word # "test_start"
  PROVE  start_extracted /\ Extracted = Content(Block(s, line_no))
<1>1. start_extracted /\ extracted_content = Content(Block(s, line_no - 1))
  BY Zenon DEF Extracting
<1>2. Extracted = Content(Append(Block(s, line_no - 1), Line))
  BY <1>1, Zenon DEF Extracted, Content
<1>3. Append(Block(s, line_no - 1), Line) = Block(s, line_no)
  <2>1. log_content \in Seq(LogLine) /\ s + 1 \in Nat \ {0} /\ line_no \in Nat
    BY DEF LogTypes
  <2>2. s + 1 =< line_no
    BY <2>1
  <2> QED
    BY <2>1, <2>2, PieceGrows, Zenon DEF Block, Line
<1> QED
  BY <1>1, <1>2, <1>3, Zenon

\* A line preserves the invariant.
LEMMA ReadLineKeeps ==
  ASSUME LogInv, ReadLine
  PROVE  LogInv'
<1> USE DEF LogInv
<1>1. /\ Len(log_content) \in Nat /\ line_no \in 1 .. Len(log_content) /\ line_no' = line_no + 1
      /\ log_content' = log_content /\ Line \in LogLine /\ log_pc = "lines"
  BY DEF LogTypes, ReadLine, Line
<1>2. Extracted \in [bound : BOOLEAN, lines : Seq(LogLine)]
  <2>1. /\ extracted_content \in [bound : BOOLEAN, lines : Seq(LogLine)]
        /\ extracted_content.lines \in Seq(LogLine)
    BY Zenon DEF LogTypes
  <2>2. << >> \in Seq(LogLine) /\ Append(extracted_content.lines, Line) \in Seq(LogLine)
    BY <1>1, <2>1
  <2> QED
    BY <2>1, <2>2, Zenon DEF Extracted, Content
<1>3. LogTypes'
  <2>1. log_pc' \in {"lines", "raised", "done"} /\ start_extracted' \in BOOLEAN
    BY <1>1, Zenon DEF ReadLine, LogTypes
  <2>2. extracted_content' = Extracted
    BY Zenon DEF ReadLine
  <2>3. sub_blocks' \in Seq(Seq(LogLine))
    <3>1. sub_blocks \in Seq(Seq(LogLine)) /\ extracted_content'.lines \in Seq(LogLine)
      BY <1>2, <2>2, Zenon DEF LogTypes
    <3>2. sub_blocks' = sub_blocks \/ sub_blocks' = Append(sub_blocks, extracted_content'.lines)
      BY Zenon DEF ReadLine
    <3> QED
      BY <3>1, <3>2
  <2>4. line_no' \in 1 .. Len(log_content) + 1
    BY <1>1
  <2> QED
    BY <1>1, <1>2, <2>1, <2>2, <2>3, <2>4, Zenon DEF LogTypes
<1>4. Extracting'
  <2>1. \A a, b : NoMarker(a, b)' <=> NoMarker(a, b)
    BY <1>1, Zenon DEF NoMarker
  <2> SUFFICES ASSUME NEW s \in 1 .. line_no, log_content[s].word = "test_start",
                      NoMarker(s + 1, line_no)
               PROVE  start_extracted' /\ extracted_content' = Content(Block(s, line_no))
    BY <1>1, <2>1 DEF Extracting, Block, Content
  <2>2. CASE s = line_no
    <3>1. Line.word = "test_start" /\ Block(s, line_no) = << >>
      BY <1>1, <2>2 DEF Line, Block, LogTypes
    <3>2. extracted_content' = Content(<< >>)
      BY <3>1, Zenon DEF ReadLine, Extracted
    <3>3. start_extracted'
      BY <3>1, Zenon DEF ReadLine
    <3> QED
      BY <3>1, <3>2, <3>3, Zenon
  <2>3. CASE s # line_no
    <3>1. s \in 1 .. line_no - 1 /\ line_no \in s + 1 .. line_no /\ line_no \in DOMAIN log_content
      BY <1>1, <2>3 DEF LogTypes
    <3>2. NoMarker(s + 1, line_no - 1) /\ Line.word \notin {"test_start", "test_end"}
      BY <1>1, <3>1 DEF NoMarker, Line
    <3>3. start_extracted /\ Extracted = Content(Block(s, line_no))
      BY <1>1, <3>1, <3>2, ExtractedLine
    <3> QED
      BY <3>2, <3>3, Zenon DEF ReadLine
  <2> QED
    BY <2>2, <2>3, Zenon
<1>5. ASSUME EndsMatched PROVE BlocksOfTests'
  <2>1. Finished' = Finished /\ \A a, b : Block(a, b)' = Block(a, b)
    BY <1>1 DEF Finished, Markers, Block
  <2>2. /\ BlocksOfTests /\ IsFiniteSet(Finished)
        /\ \A run \in Finished : run = <<run[1], run[2]>> /\ run[2] \in Nat
                                 /\ log_content[run[2]].word = "test_end"
    BY <1>5, FinishedIs DEF LogTypes
  <2>3. FinishedSoFar' = {run \in Finished : run[2] < line_no + 1}
    BY <1>1, <2>1, Zenon DEF FinishedSoFar
  <2>4. CASE Line.word # "test_end"
    <3>1. sub_blocks' = sub_blocks /\ log_pc' = log_pc
      BY <2>4, Zenon DEF ReadLine
    <3>2. FinishedSoFar' = FinishedSoFar
      BY <1>1, <2>2, <2>3, <2>4 DEF FinishedSoFar, Line
    <3> QED
      BY <2>1, <2>2, <3>1, <3>2, Zenon DEF BlocksOfTests
  <2>5. CASE Line.word = "test_end"
    <3>1. PICK s \in DOMAIN log_content : <<s, line_no>> \in Finished
      <4>1. line_no \in Markers({"test_end"})
        BY <1>1, <2>5 DEF Markers, Line, LogTypes
      <4> QED
        BY <1>5, <4>1, Zenon DEF EndsMatched
    <3>2. /\ s \in 1 .. line_no - 1 /\ log_content[s].word = "test_start"
          /\ NoMarker(s + 1, line_no - 1)
      BY <1>1, <3>1, FinishedIs
    <3>3. extracted_content' = Content(Block(s, line_no))
      BY <1>1, <2>5, <3>2, ExtractedLine, Zenon DEF ReadLine
    <3>4. sub_blocks' = Append(sub_blocks, Block(s, line_no)) /\ log_pc' = log_pc
      BY <2>5, <3>3 DEF ReadLine, Content
    <3>5. FinishedSoFar' = FinishedSoFar \cup {<<s, line_no>>} /\ <<s, line_no>> \notin FinishedSoFar
      <4>1. ASSUME NEW run \in Finished, run[2] = line_no PROVE run = <<s, line_no>>
        BY <2>2, <3>1, <4>1, OneStart
      <4>2. \A run \in Finished : run[2] < line_no + 1 <=> run[2] < line_no \/ run[2] = line_no
        BY <1>1, <2>2
      <4> QED
        BY <1>1, <2>3, <3>1, <4>1, <4>2 DEF FinishedSoFar
    <3>6. IsFiniteSet(FinishedSoFar)
      BY <2>2, FS_Subset, Zenon DEF FinishedSoFar
    <3>7. Cardinality(FinishedSoFar') = Cardinality(FinishedSoFar) + 1
      BY <3>5, <3>6, FS_AddElement, Zenon
    <3>8. /\ Len(sub_blocks') = Len(sub_blocks) + 1
          /\ DOMAIN sub_blocks' = DOMAIN sub_blocks \cup {Len(sub_blocks) + 1}
          /\ \A b \in DOMAIN sub_blocks : sub_blocks'[b] = sub_blocks[b]
          /\ sub_blocks'[Len(sub_blocks) + 1] = Block(s, line_no)
      <4>1. sub_blocks \in Seq(Seq(LogLine)) /\ Len(sub_blocks) \in Nat
        BY DEF LogTypes
      <4>2. Block(s, line_no) \in Seq(LogLine)
        BY <1>1, <3>2 DEF Block, LogTypes
      <4> QED
        BY <3>4, <4>1, <4>2
    <3>9. ASSUME NEW run \in FinishedSoFar'
          PROVE  \E b \in DOMAIN sub_blocks' : sub_blocks'[b] = Block(run[1], run[2])
      BY <2>2, <3>5, <3>8 DEF BlocksOfTests
    <3>10. ASSUME NEW b \in DOMAIN sub_blocks'
           PROVE  \E run \in FinishedSoFar' : sub_blocks'[b] = Block(run[1], run[2])
      <4>1. CASE b \in DOMAIN sub_blocks
        <5>1. PICK run \in FinishedSoFar : sub_blocks[b] = Block(run[1], run[2])
          BY <2>2, <4>1, Zenon DEF BlocksOfTests
        <5> QED
          BY <3>5, <3>8, <4>1, <5>1, Zenon
      <4>2. CASE b = Len(sub_blocks) + 1
        BY <3>5, <3>8, <4>2
      <4> QED
        BY <3>8, <4>1, <4>2, Zenon
    <3> QED
      BY <2>1, <2>2, <3>4, <3>7, <3>8, <3>9, <3>10, Zenon DEF BlocksOfTests
  <2> QED
    BY <2>4, <2>5, Zenon
<1>6. EndsMatched' <=> EndsMatched
  BY <1>1 DEF EndsMatched, Finished, Markers
<1>7. log_pc' # "done"
  BY <1>1, Zenon DEF ReadLine
<1> QED
  BY <1>3, <1>4, <1>5, <1>6, <1>7, Zenon

\* The counting of the blocks preserves the invariant.
LEMMA ReturnKeeps ==
  ASSUME LogInv, Return
  PROVE  LogInv'
<1>1. /\ log_pc' = "done"
      /\ UNCHANGED <<log_content, line_no, start_extracted, extracted_content, sub_blocks>>
      /\ line_no > Len(log_content)
  BY Zenon DEF Return
<1>2. LogTypes' /\ line_no' = Len(log_content') + 1
  BY <1>1 DEF LogInv, LogTypes
<1>3. EndsMatched' => BlocksOfTests'
  <2>1. Finished' = Finished /\ \A a, b : Block(a, b)' = Block(a, b)
    BY <1>1 DEF Finished, Markers, Block
  <2>2. FinishedSoFar' = FinishedSoFar
    BY <1>1, <2>1, Zenon DEF FinishedSoFar
  <2>3. EndsMatched' <=> EndsMatched
    BY <1>1, <2>1, Zenon DEF EndsMatched, Markers
  <2> QED
    BY <1>1, <2>1, <2>2, <2>3, Zenon DEF LogInv, BlocksOfTests
<1>4. items' = [b \in DOMAIN sub_blocks' |-> create_sub_result(sub_blocks'[b])]
  BY <1>1, Zenon DEF Return
<1> QED
  BY <1>1, <1>2, <1>3, <1>4 DEF LogInv

\* The greatest number of a set of positions.
LEMMA MaxOfPositions ==
  ASSUME NEW T, NEW n \in Nat, T \subseteq 1 .. n, T # {}
  PROVE  Max(T) \in T /\ \A y \in T : y =< Max(T)
<1>1. T \subseteq Nat /\ \A y \in T : y =< n
  OBVIOUS
<1>2. \E x \in T : \A y \in T : x >= y
  <2>1. PICK x \in T : \A y \in T : y =< x
    BY <1>1, Greatest, Zenon
  <2> QED
    BY <1>1, <2>1, Zenon
<1>3. Max(T) \in T /\ \A y \in T : Max(T) >= y
  BY <1>2, Zenon DEF Max
<1> QED
  BY <1>1, <1>3, Zenon

\* The counts of a block are numbers.
LEMMA CountType ==
  ASSUME NEW block \in Seq(LogLine), NEW word, NEW result
  PROVE  Count(block, word, result) \in Nat
<1> DEFINE n == Len(block)
<1>1. n \in Nat /\ DOMAIN block = 1 .. n
  OBVIOUS
<1> HIDE DEF n
<1>2. \A words : With(block, words) \subseteq 1 .. n
  BY <1>1, Zenon DEF With
<1>3. Cardinality(With(block, {result})) \in Nat
  <2>1. IsFiniteSet(1 .. n)
    BY <1>1, FS_Interval
  <2> QED
    BY <1>2, <2>1, FS_Subset, FS_CardinalityType, Zenon
<1>4. ASSUME With(block, {word}) # {} PROVE block[Max(With(block, {word}))].count \in Nat
  <2>1. Max(With(block, {word})) \in With(block, {word})
    BY <1>1, <1>2, <1>4, MaxOfPositions, Zenon
  <2>2. Max(With(block, {word})) \in 1 .. n
    BY <1>2, <2>1, Zenon
  <2>3. block[Max(With(block, {word}))] \in LogLine
    BY <2>2 DEF n
  <2> QED
    BY <2>3, Zenon DEF LogLine
<1> QED
  BY <1>3, <1>4, Zenon DEF Count

\* What the property says of one finished test.
FailureShown(s, e) ==
  \/ /\ {k \in s .. e : log_content[k].word \in Summary} = {}
     /\ Says(s, e, "TFAIL") # {}
  \/ \E k \in Says(s, e, "failed") :
       log_content[k].count > 0 /\ \A x \in Says(s, e, "failed") : x =< k

\* The count of failures of the block of a finished test tells whether the
\* log shows a failure.
LEMMA CountTells ==
  ASSUME LogTypes, NEW s, NEW e, <<s, e>> \in Finished
  PROVE  create_sub_result(Block(s, e)).fail_cnt > 0 <=> FailureShown(s, e)
<1> DEFINE B == Block(s, e)
           In(words) == {k \in s .. e : log_content[k].word \in words}
           Cut == With(B, {"failed"})
<1>1. /\ s \in Nat \ {0} /\ e \in Nat /\ s < e /\ e =< Len(log_content)
      /\ log_content[s].word = "test_start" /\ log_content \in Seq(LogLine)
  BY FinishedIs DEF LogTypes
<1>2. /\ B \in Seq(LogLine) /\ DOMAIN B = 1 .. e - s
      /\ \A k \in 1 .. e - s : B[k] = log_content[s + k]
  BY <1>1 DEF Block
<1>3. create_sub_result(B).fail_cnt = Count(B, "failed", "TFAIL")
  BY Zenon DEF create_sub_result
<1> HIDE DEF B
<1>4. \A words : With(B, words) = {k \in 1 .. e - s : log_content[s + k].word \in words}
  BY <1>2, Zenon DEF With
<1>5. \A words : \A k \in With(B, words) : s + k \in In(words)
  BY <1>1, <1>4
<1>6. ASSUME NEW words, "test_start" \notin words, NEW k \in In(words) PROVE k - s \in With(B, words)
  <2>1. k # s
    BY <1>1, <1>6, Zenon
  <2>2. k - s \in 1 .. e - s /\ s + (k - s) = k
    BY <1>1, <2>1
  <2> QED
    BY <1>4, <2>2, Zenon
<1>7. "test_start" \notin Summary /\ "test_start" \notin {"failed"} /\ "test_start" \notin {"TFAIL"}
      /\ "failed" \in Summary
  BY Zenon DEF Summary
<1>8. /\ With(B, Summary) = {} <=> In(Summary) = {}
      /\ With(B, {"failed"}) = {} <=> In({"failed"}) = {}
      /\ With(B, {"TFAIL"}) = {} <=> In({"TFAIL"}) = {}
  BY <1>5, <1>6, <1>7, Zenon
<1>9. Says(s, e, "failed") = In({"failed"}) /\ Says(s, e, "TFAIL") = In({"TFAIL"})
  BY Zenon DEF Says
<1>10. In({"failed"}) \subseteq In(Summary)
  BY <1>7, Zenon
<1>11. FailureShown(s, e) <=>
         \/ In(Summary) = {} /\ In({"TFAIL"}) # {}
         \/ \E k \in In({"failed"}) : log_content[k].count > 0 /\ \A x \in In({"failed"}) : x =< k
  BY <1>9, Zenon DEF FailureShown
<1>12. In({"failed"}) \subseteq s .. e
  BY Zenon
<1> HIDE DEF In
<1>13. CASE With(B, Summary) = {}
  <2>1. Count(B, "failed", "TFAIL") = Cardinality(With(B, {"TFAIL"}))
    BY <1>13, Zenon DEF Count
  <2>2. IsFiniteSet(With(B, {"TFAIL"}))
    <3>1. With(B, {"TFAIL"}) \subseteq 1 .. e - s
      BY <1>4, Zenon
    <3>2. IsFiniteSet(1 .. e - s)
      BY <1>1, FS_Interval
    <3> QED
      BY <3>1, <3>2, FS_Subset, Zenon
  <2>3. Cardinality(With(B, {"TFAIL"})) > 0 <=> With(B, {"TFAIL"}) # {}
    <3>1. Cardinality(With(B, {"TFAIL"})) \in Nat
      BY <2>2, FS_CardinalityType, Zenon
    <3>2. Cardinality(With(B, {"TFAIL"})) = 0 <=> With(B, {"TFAIL"}) = {}
      BY <2>2, FS_EmptySet, Zenon
    <3> QED
      BY <3>1, <3>2
  <2>4. In(Summary) = {} /\ In({"failed"}) = {}
    BY <1>8, <1>10, <1>13, Zenon
  <2>5. FailureShown(s, e) <=> In({"TFAIL"}) # {}
    BY <1>11, <2>4, Zenon
  <2> QED
    BY <1>3, <1>8, <2>1, <2>3, <2>5 DEF B
<1>14. CASE With(B, Summary) # {} /\ Cut = {}
  <2>1. Count(B, "failed", "TFAIL") = 0
    BY <1>14, Zenon DEF Count
  <2>2. ~ FailureShown(s, e)
    BY <1>8, <1>11, <1>14, Zenon
  <2>3. ~ (0 > 0)
    OBVIOUS
  <2> QED
    BY <1>3, <2>1, <2>2, <2>3 DEF B
<1>15. CASE With(B, Summary) # {} /\ Cut # {}
  <2> DEFINE m == Max(Cut)
  <2>1. Cut \subseteq 1 .. e - s /\ e - s \in Nat
    BY <1>1, <1>4
  <2>2. Count(B, "failed", "TFAIL") = B[m].count
    BY <1>15, Zenon DEF Count
  <2>3. m \in Cut /\ \A y \in Cut : y =< m
    <3> HIDE DEF Cut
    <3> QED
      BY <1>15, <2>1, MaxOfPositions, Zenon
  <2> HIDE DEF m
  <2>4. B[m] = log_content[s + m] /\ m \in 1 .. e - s
    BY <1>2, <2>1, <2>3, Zenon
  <2>5. s + m \in In({"failed"})
    BY <1>5, <2>3, Zenon
  <2>6. \A x \in In({"failed"}) : x =< s + m
    <3>1. ASSUME NEW x \in In({"failed"}) PROVE x =< s + m
      <4>1. x - s \in Cut
        BY <1>6, <1>7, Zenon
      <4>2. x - s =< m /\ x \in Int
        BY <1>1, <1>12, <2>3, <4>1
      <4> QED
        BY <1>1, <2>4, <4>2
    <3> QED
      BY <3>1, Zenon
  <2>7. \A k \in In({"failed"}) : (\A x \in In({"failed"}) : x =< k) => k = s + m
    <3>1. ASSUME NEW k \in In({"failed"}), \A x \in In({"failed"}) : x =< k PROVE k = s + m
      <4>1. s + m =< k /\ k =< s + m /\ k \in Int /\ s + m \in Int
        BY <1>1, <1>12, <2>4, <2>5, <2>6, <3>1
      <4> QED
        BY <4>1
    <3> QED
      BY <3>1, Zenon
  <2>8. In(Summary) # {}
    BY <1>8, <1>15, Zenon
  <2>9. FailureShown(s, e) <=> log_content[s + m].count > 0
    BY <1>11, <2>5, <2>6, <2>7, <2>8
  <2> QED
    BY <1>3, <2>2, <2>4, <2>9 DEF B
<1> QED
  BY <1>13, <1>14, <1>15, Zenon

\* The invariant implies the property.
LEMMA FailuresTold ==
  ASSUME LogInv
  PROVE  FailuresOfFinishedTests
<1> SUFFICES ASSUME log_pc = "done", EndsMatched
             PROVE  /\ Len(items) = Cardinality(Finished)
                    /\ total_failed_cnt > 0 <=> \E run \in Finished : FailureShown(run[1], run[2])
  BY Zenon DEF FailuresOfFinishedTests, FailureShown
<1> DEFINE n == Len(sub_blocks)
<1>1. /\ LogTypes /\ BlocksOfTests /\ line_no = Len(log_content) + 1
      /\ n \in Nat /\ DOMAIN sub_blocks = 1 .. n
      /\ \A b \in 1 .. n : sub_blocks[b] \in Seq(LogLine)
      /\ items = [b \in 1 .. n |-> create_sub_result(sub_blocks[b])]
  BY DEF LogInv, LogTypes
<1>2. FinishedSoFar = Finished
  <2>1. \A run \in Finished : run[2] < line_no
    BY <1>1 DEF Finished, Markers, LogTypes
  <2> QED
    BY <2>1, Zenon DEF FinishedSoFar
<1>3. Len(items) = n /\ DOMAIN items = 1 .. n
  BY <1>1
<1> DEFINE cnt == [b \in DOMAIN items |-> items[b].fail_cnt]
<1>4. \A b \in 1 .. n : cnt[b] = create_sub_result(sub_blocks[b]).fail_cnt /\ cnt[b] \in Nat
  <2>1. \A b \in 1 .. n : cnt[b] = create_sub_result(sub_blocks[b]).fail_cnt
    BY <1>1, <1>3, Zenon
  <2>2. \A b \in 1 .. n : create_sub_result(sub_blocks[b]).fail_cnt \in Nat
    BY <1>1, CountType, Zenon DEF create_sub_result
  <2> QED
    BY <2>1, <2>2, Zenon
<1>5. total_failed_cnt = SumFunctionOnSet(cnt, 1 .. n)
  BY <1>3, Zenon DEF total_failed_cnt, SumFunction
<1> HIDE DEF n, cnt
<1>6. total_failed_cnt > 0 <=> \E b \in 1 .. n : cnt[b] > 0
  <2>1. IsFiniteSet(1 .. n)
    BY <1>1, FS_Interval
  <2> QED
    BY <1>4, <1>5, <2>1, SumPositive, Zenon
<1>7. \A run \in Finished : create_sub_result(Block(run[1], run[2])).fail_cnt > 0
                              <=> FailureShown(run[1], run[2])
  BY <1>1, FinishedIs, CountTells
<1>8. ASSUME NEW b \in 1 .. n, cnt[b] > 0 PROVE \E run \in Finished : FailureShown(run[1], run[2])
  <2>1. PICK run \in Finished : sub_blocks[b] = Block(run[1], run[2])
    BY <1>1, <1>2, Zenon DEF BlocksOfTests
  <2> QED
    BY <1>4, <1>7, <1>8, <2>1, Zenon
<1>9. ASSUME NEW run \in Finished, FailureShown(run[1], run[2]) PROVE \E b \in 1 .. n : cnt[b] > 0
  <2>1. PICK b \in 1 .. n : sub_blocks[b] = Block(run[1], run[2])
    BY <1>1, <1>2, Zenon DEF BlocksOfTests
  <2> QED
    BY <1>4, <1>7, <1>9, <2>1, Zenon
<1>10. Len(items) = Cardinality(Finished)
  BY <1>1, <1>2, <1>3, Zenon DEF BlocksOfTests, n
<1> QED
  BY <1>6, <1>8, <1>9, <1>10

\* TCResult counts a failure iff a finished test of the log shows one, and as
\* many results as tests finished, whatever the log of matched ends.
THEOREM FailuresCounted ==
  ASSUME LogsAssumption
  PROVE  LogSpec => []FailuresOfFinishedTests
<1>1. LogInit => LogInv
  BY LogStarts, Zenon
<1>2. LogInv /\ [LogNext]_log_vars => LogInv'
  <2> SUFFICES ASSUME LogInv, [LogNext]_log_vars PROVE LogInv'
    BY Zenon
  <2>1. CASE UNCHANGED log_vars
    <3>1. /\ LogTypes' <=> LogTypes
          /\ line_no' = line_no /\ log_content' = log_content /\ log_pc' = log_pc
          /\ sub_blocks' = sub_blocks /\ items' = items
      BY <2>1, Zenon DEF log_vars, LogTypes
    <3>2. Finished' = Finished /\ \A a, b : Block(a, b)' = Block(a, b) /\ (NoMarker(a, b)' <=> NoMarker(a, b))
      BY <3>1 DEF Finished, Markers, Block, NoMarker
    <3>3. FinishedSoFar' = FinishedSoFar
      BY <3>1, <3>2, Zenon DEF FinishedSoFar
    <3>4. EndsMatched' <=> EndsMatched
      BY <3>1, <3>2, Zenon DEF EndsMatched, Markers
    <3>5. BlocksOfTests' <=> BlocksOfTests
      BY <3>1, <3>2, <3>3, Zenon DEF BlocksOfTests
    <3>6. Extracting => Extracting'
      <4>1. start_extracted' = start_extracted /\ extracted_content' = extracted_content
        BY <2>1, Zenon DEF log_vars
      <4> QED
        BY <3>1, <3>2, <4>1, Zenon DEF Extracting, Content
    <3> QED
      BY <3>1, <3>4, <3>5, <3>6, Zenon DEF LogInv
  <2> QED
    BY <2>1, ReadLineKeeps, ReturnKeeps, Zenon DEF LogNext
<1>3. LogInv => FailuresOfFinishedTests
  BY FailuresTold, Zenon
<1> QED
  BY <1>1, <1>2, <1>3, PTL DEF LogSpec
============================================================================
