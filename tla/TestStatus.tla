---------------------------- MODULE TestStatus -----------------------------
(***************************************************************************)
(* The status of a test (liebes/CiObjects.py, class Test) and what one     *)
(* test does to the dictionaries of the two loops of liebes/analysis.py    *)
(* that carry a memory from test to test: case_status of                   *)
(* filter_fail_cases_in_last_version and status_m of                       *)
(* _combine_same_test_file_case.                                           *)
(*                                                                         *)
(* A status is 0 (pass), 1 (fail), 2 (regressed) or 3 (unknown); the code  *)
(* also takes 10 for a pass.                                               *)
(***************************************************************************)
CONSTANT None   \* the file_path of a test without file

is_pass(t) == t.status \in {0, 10}
is_unknown(t) == t.status = 3
is_failed(t) == t.status \in {1, 2}

\* Mutant: a failure wins over a pass.
merge_status_FailWins(s, other) ==
  IF s \in {1, 2} \/ other \in {1, 2} THEN 1
  ELSE IF s \in {0, 10} \/ other \in {0, 10} THEN 0 ELSE 3

merge_status(s, other) ==
  IF s \in {0, 10} \/ other \in {0, 10} THEN 0
  ELSE IF s \in {1, 2} \/ other \in {1, 2} THEN 1 ELSE 3

-----------------------------------------------------------------------------
\* Mutant: a passing test does not clear the remembered failure.
FailStep_NeverCleared(acc, t) ==
  [failing |-> IF is_failed(t) THEN acc.failing \cup {t.file_path} ELSE acc.failing,
   kept    |-> IF is_failed(t) /\ t.file_path \in acc.failing
               THEN acc.kept ELSE acc.kept \cup {t.id}]

\* case_status (the files whose entry is True) remembers whether the last
\* test of a file failed; a failure right after a failure is dropped.
FailStep(acc, t) ==
  LET failing == t.file_path \in acc.failing
  IN  [failing |-> IF is_failed(t) THEN acc.failing \cup {t.file_path}
                                   ELSE acc.failing \ {t.file_path},
       kept    |-> IF is_failed(t) /\ failing THEN acc.kept ELSE acc.kept \cup {t.id}]

\* Mutant: the last test of a file, not the merged one, gives the status.
CombineStep_Overwrites(acc, t) ==
  IF t.file_path = None THEN acc
  ELSE [status_m |-> [f \in DOMAIN acc.status_m \cup {t.file_path} |->
                        IF f = t.file_path THEN t.status ELSE acc.status_m[f]],
        first |-> IF t.file_path \in DOMAIN acc.status_m THEN acc.first
                                                         ELSE acc.first \cup {t.id}]

\* Mutant: the branch for a file that was met goes on into the other one.
CombineStep_NoContinue(acc, t) ==
  IF t.file_path = None THEN acc
  ELSE [status_m |-> [f \in DOMAIN acc.status_m \cup {t.file_path} |->
                        IF f = t.file_path THEN t.status ELSE acc.status_m[f]],
        first |-> acc.first \cup {t.id}]

\* status_m maps a file to its first test (here: to the status that test has
\* by now), which stays; the later ones are merged into it.
CombineStep(acc, t) ==
  IF t.file_path = None THEN acc
  ELSE IF t.file_path \in DOMAIN acc.status_m
  THEN [acc EXCEPT !.status_m[t.file_path] = merge_status(@, t.status)]
  ELSE [status_m |-> [f \in DOMAIN acc.status_m \cup {t.file_path} |->
                        IF f = t.file_path THEN t.status ELSE acc.status_m[f]],
        first |-> acc.first \cup {t.id}]
=============================================================================
