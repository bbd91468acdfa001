------------------------------ MODULE CIData -------------------------------
(* Small databases and the job sequences of the scripts for CIAnalysis.    *)
EXTENDS TestStatus, Naturals, Sequences

CONSTANTS f, g, h   \* test files: f.c and g.sh exist, h.c does not

T(path, file, word) ==
  [path |-> path, file_path |-> file, word |-> word, TP |-> FALSE, known |-> FALSE]

\* Test runs of a build: merged results, results in several runs, unknown
\* results, tests without file, true positives and known issues.
Contents ==
  { << <<T("pf", f, "pass"), T("pg", g, "fail")>> >>,
    << <<T("pf", f, "fail")>>, <<T("pf2", f, "pass"), T("pg", g, "regressed")>> >>,
    << <<T("pf", f, "fail"), T("pg", g, "incomplete"), T("pf2", f, "fail")>> >>,
    << <<T("pn", None, "fail"), T("pg", g, "pass"), T("ph", h, "pass"),
         T("pf", f, "pass")>> >>,
    << <<[T("pf", f, "fail") EXCEPT !.TP = TRUE],
         [T("pg", g, "pass") EXCEPT !.known = TRUE]>>, << >> >> }

Build(name, config, content) ==
  [build_name |-> name, kconfig |-> config, testruns |-> content]

Heads == {<<"x", <<"p", "q">> >>, <<"xx", <<"q", "p">> >>, <<"x", <<"p">> >>}

\* Builds of one checkout have different names.
OneBuild == {<<Build(k[1], k[2], c)>> : k \in Heads, c \in Contents}
TwoBuilds == {bs \in {x \o y : x \in OneBuild, y \in OneBuild} :
                bs[1].build_name # bs[2].build_name}

\* A database: dates and builds of its checkouts; a test is identified by
\* its place.
Database(dates, builds) ==
  [c \in DOMAIN dates |->
     [id |-> c, date |-> dates[c],
      builds |-> [b \in DOMAIN builds[c] |->
        [builds[c][b] EXCEPT !.testruns =
           [r \in DOMAIN @ |-> [i \in DOMAIN @[r] |->
              [id |-> <<c, b, r, i>>, path |-> @[r][i].path,
               file_path |-> @[r][i].file_path, word |-> @[r][i].word,
               TP |-> @[r][i].TP, known |-> @[r][i].known]]]]]]]

MCDatabases ==
  {Database(<<2, 1>>, <<x, y>>) : x \in TwoBuilds, y \in OneBuild}
    \cup {Database(<<3, 1, 2>>, <<x, y, z>>) :
            x, y, z \in {bs \in OneBuild : bs[1].kconfig = <<"p">>}}

MCPlans ==
  { \* get_default_data, history_main, prepare_linuxs
    <<"reorder", "COMBINE_SAME_CASE", "FILTER_SMALL_BRANCH", "COMBINE_SAME_CONFIG",
      "CHOOSE_ONE_BUILD", "FILTER_SMALL_BRANCH", "FILTER_FAIL_CASES_IN_LAST_VERSION",
      "FILTER_NOFILE_CASE", "ci_objs[1:]", "FILTER_SMALL_BRANCH",
      "FILTER_FAIL_CASES_IN_LAST_VERSION">>,
    \* ir_model_test
    <<"FILTER_NOFILE_CASE", "COMBINE_SAME_CASE", "FILTER_ALLFAIL_CASE",
      "FILTER_NO_C_CASE">>,
    \* the remaining jobs
    <<"FILTER_UNKNOWN_CASE", "FILTER_ALLFAIL_CASE", "LOG_FILTER", "FIND_GOOD_CONFIG",
      "FILTER_NO_SH_CASE", "FILTER_CASE_BY_TYPE">> }

MCMapping == [p \in {"pf", "pf2", "pg", "ph", "pn"} |-> IF p = "pn" THEN g ELSE None]
MCNameLength == [n \in {"x", "xx"} |-> IF n = "x" THEN 1 ELSE 2]
MCFailLog ==
  [id \in {<<c, b, 1, i>> : c \in 1 .. 3, b \in 1 .. 2, i \in 1 .. 4} |->
     CASE id[4] = 1 -> {"result=fail", "tfail"}
       [] id[4] = 2 -> {"result=fail", "tbrok"}
       [] OTHER     -> {"result=pass"}]
=============================================================================
