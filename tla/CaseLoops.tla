----------------------------- MODULE CaseLoops -----------------------------
(***************************************************************************)
(* The two loops of liebes/analysis.py that remember earlier tests, one    *)
(* test per step, over data of any size: filter_fail_cases_in_last_version *)
(* and, on one build, _combine_same_test_file_case.  The nested for loops  *)
(* visit the tests in one order, given here as a sequence (the test runs   *)
(* of a build share one dictionary status_m, and all versions share one    *)
(* case_status).  A behaviour is one run of one of the two.                *)
(***************************************************************************)
EXTENDS TestStatus, Naturals, Sequences

CONSTANTS
  File,    \* file paths
  Inputs   \* the sequences of tests a loop is run on

Path == File \cup {None}

Test == [id : Nat, file_path : Path, status : 0 .. 3]

\* No test object occurs twice.
InputsAssumption ==
  /\ None \notin File
  /\ Inputs \subseteq Seq(Test)
  /\ \A s \in Inputs : \A m, n \in 1 .. Len(s) : s[m].id = s[n].id => m = n

VARIABLES
  tests,        \* the tests in the order the loops visit them
  loop,         \* the loop that runs
  filter_pos,   \* the next test of filter_fail_cases_in_last_version
  acc,          \* its case_status and the tests that stay
  combine_pos,  \* the next test of _combine_same_test_file_case
  combined      \* its status_m and the tests that stay

loop_vars == <<tests, loop, filter_pos, acc, combine_pos, combined>>

LoopInit ==
  /\ tests \in Inputs
  /\ loop \in {"filter", "combine"}
  /\ filter_pos = 1
  /\ acc = [failing |-> {}, kept |-> {}]
  /\ combine_pos = 1
  /\ combined = [status_m |-> << >>, first |-> {}]

\* The body of the loop for one test.
filter_one_test ==
  /\ loop = "filter"
  /\ filter_pos <= Len(tests)
  /\ acc' = FailStep(acc, tests[filter_pos])
  /\ filter_pos' = filter_pos + 1
  /\ UNCHANGED <<tests, loop, combine_pos, combined>>

\* The body of the loop for one test.
combine_one_test ==
  /\ loop = "combine"
  /\ combine_pos <= Len(tests)
  /\ combined' = CombineStep(combined, tests[combine_pos])
  /\ combine_pos' = combine_pos + 1
  /\ UNCHANGED <<tests, loop, filter_pos, acc>>

LoopNext == filter_one_test \/ combine_one_test

LoopSpec == LoopInit /\ [][LoopNext]_loop_vars

-----------------------------------------------------------------------------
\* Types of the input and of the two loops.
InputOK ==
  /\ tests \in Seq(Test)
  /\ \A m, n \in 1 .. Len(tests) : tests[m].id = tests[n].id => m = n

FilterOK ==
  /\ filter_pos \in 1 .. Len(tests) + 1
  /\ acc \in [failing : SUBSET Path, kept : SUBSET Nat]

CombineOK ==
  /\ combine_pos \in 1 .. Len(tests) + 1
  /\ DOMAIN combined.status_m \subseteq File
  /\ combined.status_m \in [DOMAIN combined.status_m -> 0 .. 3]
  /\ combined.first \subseteq Nat

\* Types of filter_fail_cases_in_last_version and of
\* _combine_same_test_file_case: status_m has entries for files only.
TypeOK == InputOK /\ FilterOK /\ CombineOK

\* Test m, of the file of test n, failed and no test of that file lies
\* between them.
FailedJustBefore(m, n) ==
  /\ tests[m].file_path = tests[n].file_path
  /\ is_failed(tests[m])
  /\ \A k \in m + 1 .. n - 1 : tests[k].file_path # tests[n].file_path

Repeated(n) == is_failed(tests[n]) /\ \E m \in 1 .. n - 1 : FailedJustBefore(m, n)

\* The filter drops exactly the failures that repeat the failure of the
\* preceding test of the same file.
FailuresAreNew ==
  \A n \in 1 .. filter_pos - 1 : tests[n].id \in acc.kept <=> ~ Repeated(n)

\* What is left is one failure per episode: between two failures of a file
\* that the filter keeps, it keeps a test of that file that did not fail.
EpisodesSeparated ==
  \A m, n \in 1 .. filter_pos - 1 :
    /\ m < n
    /\ tests[m].file_path = tests[n].file_path
    /\ is_failed(tests[m]) /\ is_failed(tests[n])
    /\ {tests[m].id, tests[n].id} \subseteq acc.kept
    => \E k \in m + 1 .. n - 1 :
         /\ tests[k].file_path = tests[n].file_path
         /\ ~ is_failed(tests[k])
         /\ tests[k].id \in acc.kept
\* The tests of file f that were visited.
Visited(f) == {n \in 1 .. combine_pos - 1 : tests[n].file_path = f}

\* The loop keeps the first test of every file and drops all others, a test
\* without file included.
FirstKept ==
  \A n \in 1 .. combine_pos - 1 :
    tests[n].id \in combined.first <=>
      /\ tests[n].file_path # None
      /\ \A m \in 1 .. n - 1 : tests[m].file_path # tests[n].file_path

\* Whatever order the results come in, the test that stays for a file has
\* passed iff some test of the file passed, has failed iff none passed and
\* some failed, and there is an entry for every file that was visited.
MergedStatus ==
  /\ DOMAIN combined.status_m = {f \in File : Visited(f) # {}}
  /\ \A f \in DOMAIN combined.status_m :
       LET somePass == \E n \in Visited(f) : is_pass(tests[n])
           someFail == \E n \in Visited(f) : is_failed(tests[n])
       IN  /\ combined.status_m[f] = 0 <=> somePass
           /\ combined.status_m[f] \in {1, 2} <=> ~ somePass /\ someFail
=============================================================================
