---------------------------- MODULE CIAnalysis -----------------------------
(***************************************************************************)
(* The data pipeline: liebes/analysis.py (CIAnalysis) over the objects of  *)
(* liebes/CiObjects.py.  A script loads checkouts from the database and    *)
(* calls filter_job with one job name after the other.  Most jobs run in   *)
(* threads: ci_objs is cut into chunks, each chunk is handled by a thread  *)
(* that changes its checkouts in place, and the results are gathered in    *)
(* the order of the chunks.  Chunks share no object but the status map.    *)
(*                                                                         *)
(* A checkout is [id, date, builds], a build [build_name, kconfig, label,  *)
(* testruns], a test run a sequence of tests.  A test is [id, path,        *)
(* file_path, is_path, status, known]: is_path says that file_path holds a *)
(* Path object instead of a string.                                        *)
(***************************************************************************)
EXTENDS TestStatus, Naturals, Sequences, FiniteSets, SequencesExt

CONSTANTS
  Databases,      \* contents of the database: sequences of checkouts
  Plans,          \* sequences of job names a script runs
  minimal_testcases,
  execution_number_per_thread,
  OnDisk,         \* paths of existing files
  CFile, ShFile,  \* paths that end in .c, in .sh
  Mapping,        \* has_mapping: test path -> file path or None
  NameLength,     \* build name -> its length
  FailLog         \* test id -> words in the lines about it in its fail log

BoundsAssumption ==
  /\ minimal_testcases \in Nat \ {0}
  /\ execution_number_per_thread \in Nat \ {0}

VARIABLES
  ci_objs,
  test_case_status_map,  \* None until it is first needed
  db,             \* what was loaded
  plan, next,     \* the script: its jobs and the next one
  todo,           \* chunks no thread has handled yet
  failed_chunks,  \* chunks whose thread raised
  before,         \* ci_objs when the last job was called
  ci_pc           \* "idle", "threads" or "raised"

ci_vars == <<ci_objs, test_case_status_map, db, plan, next, todo, failed_chunks,
             before, ci_pc>>

Job == plan[next]
LastJob == IF next > 1 THEN plan[next - 1] ELSE "none"
Done == {plan[i] : i \in 1 .. next - 1}

ThreadJobs == {"LOG_FILTER", "FILTER_UNKNOWN_CASE", "FILTER_CASE_BY_TYPE",
               "FILTER_NOFILE_CASE", "COMBINE_SAME_CASE", "FILTER_ALLFAIL_CASE",
               "COMBINE_SAME_CONFIG", "FIND_GOOD_CONFIG", "FILTER_NO_C_CASE",
               "FILTER_NO_SH_CASE"}

-----------------------------------------------------------------------------
(* CiObjects: tests, builds, checkouts.                                    *)

\* Test.__init__: the status word of the database, a "TP" failure passes.
StatusOf(word) == CASE word = "pass" -> 0 [] word = "fail" -> 1
                    [] word = "regressed" -> 2 [] OTHER -> 3

NewTest(t) ==
  [id |-> t.id, path |-> t.path, file_path |-> t.file_path, is_path |-> FALSE,
   known |-> t.known,
   status |-> IF StatusOf(t.word) \in {1, 2} /\ t.TP THEN 0 ELSE StatusOf(t.word)]

NewBuild(b) ==
  [build_name |-> b.build_name, kconfig |-> b.kconfig, label |-> b.build_name,
   testruns |-> [r \in DOMAIN b.testruns |->
                   [i \in DOMAIN b.testruns[r] |-> NewTest(b.testruns[r][i])]]]

NewCheckout(c) ==
  [id |-> c.id, date |-> c.date,
   builds |-> [i \in DOMAIN c.builds |-> NewBuild(c.builds[i])]]

\* get_all_testcases of a build, of a checkout, of a list of checkouts.
BuildTests(b) == FlattenSeq(b.testruns)
CheckoutTests(c) == FlattenSeq([i \in DOMAIN c.builds |-> BuildTests(c.builds[i])])
AllTests(cs) == FlattenSeq([i \in DOMAIN cs |-> CheckoutTests(cs[i])])

\* sorted(s, key=...).
StableSort(s, key(_)) ==
  LET order == SetToSortSeq(DOMAIN s, LAMBDA i, j :
                 key(s[i]) < key(s[j]) \/ (key(s[i]) = key(s[j]) /\ i < j))
  IN  [n \in DOMAIN s |-> s[order[n]]]

\* Rewrites every test run of a checkout, of a build.
MapRuns(c, F(_)) ==
  [c EXCEPT !.builds = [i \in DOMAIN c.builds |->
     [c.builds[i] EXCEPT !.testruns =
        [r \in DOMAIN c.builds[i].testruns |-> F(c.builds[i].testruns[r])]]]]

-----------------------------------------------------------------------------
(* The jobs, as functions of one checkout.                                 *)

filter_unknown_test_cases(c) ==
  MapRuns(c, LAMBDA run : SelectSeq(run, LAMBDA t : ~ is_unknown(t)))

filter_no_c_cases(c) ==
  MapRuns(c, LAMBDA run : SelectSeq(run, LAMBDA t : t.file_path \in CFile))

filter_no_sh_cases(c) ==
  MapRuns(c, LAMBDA run : SelectSeq(run, LAMBDA t : t.file_path \in ShFile))

\* map_test: a test without file gets the mapped one, as a Path object.
map_test(t) ==
  IF t.file_path = None /\ Mapping[t.path] \in OnDisk
  THEN [t EXCEPT !.file_path = Mapping[t.path], !.is_path = TRUE]
  ELSE t

filter_no_file_test_cases(c) ==
  MapRuns(c, LAMBDA run :
    SelectSeq([i \in DOMAIN run |-> map_test(run[i])],
              LAMBDA t : t.file_path \in OnDisk))

filter_always_failed_test_cases(c, status_map) ==
  MapRuns(c, LAMBDA run :
    SelectSeq(run, LAMBDA t : ~ t.known /\ status_map[t.path]))

\* check_log_info: what the lines of the log say about a failed test.
check_log_info(words) ==
  /\ "result=pass" \notin words
  /\ "result=fail" \in words
  /\ \/ "tfail" \in words
     \/ words \cap {"tinfo", "tpass", "tbrok", "twarn"} = {}

filter_log(c) ==
  MapRuns(c, LAMBDA run :
    SelectSeq(run, LAMBDA t : is_failed(t) => check_log_info(FailLog[t.id])))

\* combine_same_test_file_case on one build: status_m maps a file to its
\* first test, which absorbs the status of the later ones.
CombineBuild(b) ==
  LET acc == FoldLeft(CombineStep, [status_m |-> << >>, first |-> {}], BuildTests(b))
      temp(run) == SelectSeq(run, LAMBDA t : t.id \in acc.first)
      merged(run) == [i \in DOMAIN run |->
                        [run[i] EXCEPT !.status = acc.status_m[run[i].file_path]]]
  IN  [b EXCEPT !.testruns = [r \in DOMAIN b.testruns |-> merged(temp(b.testruns[r]))]]

combine_same_test_file_case(c) ==
  [c EXCEPT !.builds = [i \in DOMAIN c.builds |-> CombineBuild(c.builds[i])]]

\* tuple(sorted(config.split())).
ConfigKey(b) ==
  [w \in ToSet(b.kconfig) |->
     Cardinality({i \in DOMAIN b.kconfig : b.kconfig[i] = w})]

\* Builds of one group: the one with the shortest name (the first of them)
\* takes the test runs of the others, in the order of the name lengths.
MergeGroup(v) ==
  LET sorted == StableSort(v, LAMBDA b : NameLength[b.build_name])
  IN  [sorted[1] EXCEPT !.testruns = FlattenSeq([i \in DOMAIN sorted |-> sorted[i].testruns])]

GroupsByConfig(builds) ==
  LET firsts == SelectSeq([i \in DOMAIN builds |-> i],
                  LAMBDA i : \A j \in 1 .. i - 1 : ConfigKey(builds[j]) # ConfigKey(builds[i]))
  IN  [g \in DOMAIN firsts |->
         SelectSeq(builds, LAMBDA b : ConfigKey(b) = ConfigKey(builds[firsts[g]]))]

\* Mutant: the cases of the merged builds are not combined.
combine_same_config_NoCombine(c) ==
  LET groups == GroupsByConfig(c.builds)
  IN  [c EXCEPT !.builds = [g \in DOMAIN groups |-> MergeGroup(groups[g])]]

combine_same_config(c) ==
  LET groups == GroupsByConfig(c.builds)
  IN  combine_same_test_file_case(
        [c EXCEPT !.builds = [g \in DOMAIN groups |-> MergeGroup(groups[g])]])

\* What makes a thread raise: a Path object has no strip and no endswith and
\* None has no endswith, a Build has no attribute tests, a failed test may
\* be missing in failed_tests.json.
Raises(job, c, status_map) ==
  LET tests == ToSet(CheckoutTests(c))
  IN  CASE job \in {"COMBINE_SAME_CASE", "COMBINE_SAME_CONFIG"} ->
             \E t \in tests : t.is_path
        [] job \in {"FILTER_NO_C_CASE", "FILTER_NO_SH_CASE"} ->
             \E t \in tests : t.is_path \/ t.file_path = None
        [] job = "FILTER_CASE_BY_TYPE" ->
             \E i \in DOMAIN c.builds : c.builds[i].testruns # << >>
        [] job = "LOG_FILTER" ->
             \E t \in tests : is_failed(t) /\ t.id \notin DOMAIN FailLog
        [] job = "FILTER_ALLFAIL_CASE" ->
             \E t \in tests : ~ t.known /\ t.path \notin DOMAIN status_map
        [] OTHER -> FALSE

\* What a thread does to a checkout.
job_func(job, c, status_map) ==
  CASE job = "LOG_FILTER"          -> filter_log(c)
    [] job = "FILTER_UNKNOWN_CASE" -> filter_unknown_test_cases(c)
    [] job = "FILTER_NOFILE_CASE"  -> filter_no_file_test_cases(c)
    [] job = "COMBINE_SAME_CASE"   -> combine_same_test_file_case(c)
    [] job = "FILTER_ALLFAIL_CASE" -> filter_always_failed_test_cases(c, status_map)
    [] job = "COMBINE_SAME_CONFIG" -> combine_same_config(c)
    [] job = "FILTER_NO_C_CASE"    -> filter_no_c_cases(c)
    [] job = "FILTER_NO_SH_CASE"   -> filter_no_sh_cases(c)
    [] OTHER                       -> c

-----------------------------------------------------------------------------
(* The jobs of the main thread, as functions of ci_objs.                   *)

reorder(cs) == StableSort(cs, LAMBDA c : c.date)

filter_branches_and_builds_with_few_testcases(cs) ==
  LET trimmed(c) == [c EXCEPT !.builds =
        SelectSeq(c.builds, LAMBDA b : Len(BuildTests(b)) > minimal_testcases)]
  IN  SelectSeq([i \in DOMAIN cs |-> trimmed(cs[i])],
                LAMBDA c : Len(CheckoutTests(c)) >= minimal_testcases)

filter_fail_cases_in_last_version(cs) ==
  LET kept == FoldLeft(FailStep, [failing |-> {}, kept |-> {}], AllTests(cs)).kept
  IN  [i \in DOMAIN cs |->
         MapRuns(cs[i], LAMBDA run : SelectSeq(run, LAMBDA t : t.id \in kept))]

\* choose_one_build: per config the number of builds and of tests; the config
\* with the most tests per build (the first of them) is selected by the name
\* of its first build.
AllBuilds(cs) == FlattenSeq([i \in DOMAIN cs |-> cs[i].builds])

k_name(builds, b) ==
  builds[SelectInSeq(builds, LAMBDA x : ConfigKey(x) = ConfigKey(b))].build_name

count_in_each_version(builds, i) ==
  Cardinality({j \in DOMAIN builds : ConfigKey(builds[j]) = ConfigKey(builds[i])})

total_test_cases(builds, i) ==
  Len(FlattenSeq([j \in DOMAIN builds |->
        IF ConfigKey(builds[j]) = ConfigKey(builds[i])
        THEN BuildTests(builds[j]) ELSE << >>]))

\* Mutant: the configuration with the most tests in total is the best.
Denser_Total(builds, i, j) == total_test_cases(builds, i) > total_test_cases(builds, j)

\* total_test_cases[k] / v, compared.
Denser(builds, i, j) ==
  total_test_cases(builds, i) * count_in_each_version(builds, j)
    > total_test_cases(builds, j) * count_in_each_version(builds, i)

choose_one_build(cs) ==
  LET builds   == AllBuilds(cs)
      best     == CHOOSE i \in DOMAIN builds :
                    /\ \A j \in DOMAIN builds : ~ Denser(builds, j, i)
                    /\ \A j \in 1 .. i - 1 : Denser(builds, i, j)
      named(b) == [b EXCEPT !.label = k_name(builds, b)]
  IN  [i \in DOMAIN cs |->
         [cs[i] EXCEPT !.builds =
            SelectSeq([n \in DOMAIN cs[i].builds |-> named(cs[i].builds[n])],
                      LAMBDA b : b.label = k_name(builds, builds[best]))]]

-----------------------------------------------------------------------------
\* Load: the scripts wrap every row of the query in a Checkout.
CiInit ==
  /\ db \in Databases
  /\ plan \in Plans
  /\ ci_objs = [i \in DOMAIN db |-> NewCheckout(db[i])]
  /\ test_case_status_map = None
  /\ next = 1
  /\ todo = {}
  /\ failed_chunks = {}
  /\ before = << >>
  /\ ci_pc = "idle"

\* Mutant: computed anew at every use.
CurrentMap_Uncached ==
  LET tests == ToSet(AllTests(ci_objs))
  IN  [p \in {t.path : t \in tests} |-> \E t \in tests : t.path = p /\ is_pass(t)]

\* The property test_case_status_map: computed once, then cached.
CurrentMap ==
  LET tests == ToSet(AllTests(ci_objs))
  IN  IF test_case_status_map # None THEN test_case_status_map
      ELSE [p \in {t.path : t \in tests} |->
              \E t \in tests : t.path = p /\ is_pass(t)]

\* Mutant: the slices overlap.
Chunk_Overlap(i) ==
  {n \in DOMAIN ci_objs : /\ n > (i - 1) * execution_number_per_thread
                          /\ n <= i * execution_number_per_thread + 1}

\* ci_objs[i:i + execution_number_per_thread], as positions.
Chunk(i) ==
  {n \in DOMAIN ci_objs : /\ n > (i - 1) * execution_number_per_thread
                          /\ n <= i * execution_number_per_thread}

StartJob ==
  /\ ci_pc = "idle"
  /\ next <= Len(plan)
  /\ Job \in ThreadJobs
  /\ test_case_status_map' = IF Job = "FILTER_ALLFAIL_CASE" THEN CurrentMap
                                                            ELSE test_case_status_map
  /\ todo' = {i \in DOMAIN ci_objs : Chunk(i) # {}}
  /\ failed_chunks' = {}
  /\ before' = ci_objs
  /\ ci_pc' = "threads"
  /\ UNCHANGED <<ci_objs, db, plan, next>>

\* A thread handles a chunk.
RunChunk(i) ==
  /\ ci_pc = "threads"
  /\ i \in todo
  /\ todo' = todo \ {i}
  /\ test_case_status_map' = IF Job = "FILTER_ALLFAIL_CASE" THEN CurrentMap
                                                            ELSE test_case_status_map
  /\ IF \E n \in Chunk(i) : Raises(Job, ci_objs[n], CurrentMap)
     THEN /\ failed_chunks' = failed_chunks \cup {i}
          /\ UNCHANGED ci_objs
     ELSE /\ ci_objs' = [n \in DOMAIN ci_objs |->
                           IF n \in Chunk(i) THEN job_func(Job, ci_objs[n], CurrentMap)
                                             ELSE ci_objs[n]]
          /\ UNCHANGED failed_chunks
  /\ UNCHANGED <<db, plan, next, before, ci_pc>>

\* The results of the first n chunks, one after the other.
Joined(n) ==
  FlattenSeq([i \in 1 .. n |->
    LET order == SetToSortSeq(Chunk(i), <)
    IN  [m \in DOMAIN order |-> ci_objs[order[m]]]])

\* All threads are done: the lists are joined, an exception instead of a
\* list ends the script with what was joined so far.
Gather ==
  /\ ci_pc = "threads"
  /\ todo = {}
  /\ IF failed_chunks = {}
     THEN /\ ci_objs' = reorder(Joined(Cardinality({i \in DOMAIN ci_objs : Chunk(i) # {}})))
          /\ next' = next + 1
          /\ ci_pc' = "idle"
     ELSE /\ ci_objs' = Joined(Min(failed_chunks) - 1)
          /\ ci_pc' = "raised"
          /\ UNCHANGED next
  /\ UNCHANGED <<test_case_status_map, db, plan, todo, failed_chunks, before>>

\* The jobs and statements of the main thread.  choose_one_build reads
\* l[0], which raises if there is no build at all.
MainJob ==
  /\ ci_pc = "idle"
  /\ next <= Len(plan)
  /\ Job \notin ThreadJobs
  /\ IF Job = "CHOOSE_ONE_BUILD" /\ AllBuilds(ci_objs) = << >>
     THEN /\ ci_pc' = "raised"
          /\ UNCHANGED <<ci_objs, next>>
     ELSE /\ ci_objs' =
               CASE Job = "reorder"    -> reorder(ci_objs)
                 [] Job = "ci_objs[1:]" -> IF ci_objs = << >> THEN << >> ELSE Tail(ci_objs)
                 [] Job = "FILTER_SMALL_BRANCH" ->
                      filter_branches_and_builds_with_few_testcases(ci_objs)
                 [] Job = "FILTER_FAIL_CASES_IN_LAST_VERSION" ->
                      filter_fail_cases_in_last_version(ci_objs)
                 [] Job = "CHOOSE_ONE_BUILD" -> choose_one_build(ci_objs)
          /\ next' = next + 1
          /\ UNCHANGED ci_pc
  /\ before' = ci_objs
  /\ UNCHANGED <<test_case_status_map, db, plan, todo, failed_chunks>>

CiNext ==
  \/ StartJob
  \/ \E i \in todo : RunChunk(i)
  \/ Gather
  \/ MainJob

CiSpec == CiInit /\ [][CiNext]_ci_vars

-----------------------------------------------------------------------------
\* The checkouts are in the order of their commit dates.
Chronological ==
  ci_pc = "idle" /\ Done \cap (ThreadJobs \cup {"reorder"}) # {} =>
    \A i, j \in DOMAIN ci_objs : i < j => ci_objs[i].date <= ci_objs[j].date

\* No test is duplicated or in another checkout than it was loaded for.
KeptOnce ==
  /\ LET all == AllTests(ci_objs)
     IN  \A i, j \in DOMAIN all : all[i].id = all[j].id => i = j
  /\ \A c \in ToSet(ci_objs) : \E d \in ToSet(db) :
       /\ d.id = c.id
       /\ {t.id : t \in ToSet(CheckoutTests(c))} \subseteq
            {t.id : t \in ToSet(CheckoutTests(d))}

\* After FILTER_SMALL_BRANCH every checkout that is left has a build.
NoEmptyCheckout ==
  ci_pc = "idle" /\ LastJob = "FILTER_SMALL_BRANCH" =>
    \A c \in ToSet(ci_objs) : c.builds # << >>

\* What every job of filter_job relies on from the ones before it, whatever
\* order the threads finish in and the database delivered: the checkouts are
\* in the order of their dates, no test was duplicated or moved to another
\* checkout, and none is left empty where few tests were filtered.
DataInShape == Chronological /\ KeptOnce /\ NoEmptyCheckout

\* The tests that were loaded for a file of a checkout, from builds that
\* satisfy a condition.
Loaded(c, file, InBuild(_)) ==
  LET d == CHOOSE x \in ToSet(db) : x.id = c.id
  IN  {NewTest(t) : t \in
         {u \in UNION {ToSet(BuildTests(b)) : b \in {x \in ToSet(d.builds) : InBuild(x)}} :
            u.file_path = file}}

\* Through all merging of cases and of builds, the status of a test means
\* what the database says: a test that passes (fails) stands for a loaded
\* test of its file and configuration that passed (failed), and once the
\* cases of a file are combined, one pass in its build makes it pass.
StatusFaithful ==
  \A c \in ToSet(ci_objs) : \A b \in ToSet(c.builds) : \A t \in ToSet(BuildTests(b)) :
    LET same == Loaded(c, t.file_path, LAMBDA x : ConfigKey(x) = ConfigKey(b))
        own  == Loaded(c, t.file_path,
                       LAMBDA x : \E u \in ToSet(BuildTests(x)) : u.id = t.id)
    IN  ~ t.is_path =>
          /\ is_pass(t)   => \E u \in same : is_pass(u)
          /\ is_failed(t) => \E u \in same : is_failed(u)
          /\ "COMBINE_SAME_CASE" \in Done /\ (\E u \in own : is_pass(u)) => is_pass(t)

\* After COMBINE_SAME_CASE a build holds one test per file, also after
\* COMBINE_SAME_CONFIG has joined builds and FILTER_NOFILE_CASE has mapped
\* tests to files.
OneCasePerFile ==
  ci_pc = "idle" /\ "COMBINE_SAME_CASE" \in Done =>
    \A b \in ToSet(AllBuilds(ci_objs)) :
      LET all == BuildTests(b)
      IN  \A i, j \in DOMAIN all : all[i].file_path = all[j].file_path => i = j

\* FILTER_ALLFAIL_CASE keeps a test iff it has no known issue and its path
\* passed somewhere in the data the job started from: the threads do not
\* see each other's deletions through the cached status map.
AllFailExact ==
  ci_pc = "idle" /\ LastJob = "FILTER_ALLFAIL_CASE" =>
    LET old  == ToSet(AllTests(before))
        kept == {t.id : t \in ToSet(AllTests(ci_objs))}
    IN  \A t \in old : t.id \in kept <=>
          /\ ~ t.known
          /\ \E u \in old : u.path = t.path /\ is_pass(u)

\* CHOOSE_ONE_BUILD, which selects by a name, keeps every build of some
\* configuration with the most tests per build.
DensestConfigKept ==
  ci_pc = "idle" /\ LastJob = "CHOOSE_ONE_BUILD" =>
    LET builds  == AllBuilds(before)
        of(b)   == {i \in DOMAIN builds : ConfigKey(builds[i]) = ConfigKey(b)}
        tests(b) == Len(FlattenSeq([i \in DOMAIN builds |->
                      IF i \in of(b) THEN BuildTests(builds[i]) ELSE << >>]))
    IN  \E b \in ToSet(builds) :
          /\ \A x \in ToSet(builds) :
               tests(b) * Cardinality(of(x)) >= tests(x) * Cardinality(of(b))
          /\ \A i \in DOMAIN before : \A x \in ToSet(before[i].builds) :
               ConfigKey(x) = ConfigKey(b) =>
                 \E y \in ToSet(ci_objs[i].builds) :
                   [y EXCEPT !.label = x.label] = x

\* What the comment in filter_fail_cases_in_last_version presumes ("only one
\* build is considered for each version"): after CHOOSE_ONE_BUILD a checkout
\* has at most one build.
OneBuildPerVersion ==
  ci_pc = "idle" /\ "CHOOSE_ONE_BUILD" \in Done =>
    \A c \in ToSet(ci_objs) : Len(c.builds) <= 1
=============================================================================
