------------------------------ MODULE History ------------------------------
(***************************************************************************)
(* History-based prioritisation: HistoryInformationManager.extract         *)
(* (liebes/tcp_approach/information_achieve.py) and the loop of            *)
(* history_main.py that ranks the tests of a version by what the history   *)
(* says of an earlier version.                                             *)
(*                                                                         *)
(* A version maps every file to the result get_case_by_file_path finds.    *)
(* The time of a version is its number.  The lists of the manager have an  *)
(* entry for the time before the first version, at index 0 in the code and *)
(* 1 here.  rocket_value is scaled by ten; where RocketOrder compares two  *)
(* of them rounding does not matter, since they are sums of the same terms *)
(* or differ by 0.1 at least.                                              *)
(*                                                                         *)
(* exd_value is a double between 0 and 1, and its arithmetic rounds.  Only *)
(* the order of the values matters, so the doubles are given by their rank *)
(* 0 .. Top and the two operations by what they do to it; rounding keeps   *)
(* the order but may make different values equal.                          *)
(***************************************************************************)
EXTENDS Integers, Sequences, FiniteSets, FiniteSetsExt, Functions

CONSTANTS
  FilePath,      \* file paths
  None,          \* no time
  MaxVersions,   \* bound: versions of the data set
  history,       \* command line: how many versions to go back
  Top,           \* rank of 1.0 among the doubles from 0.0 on
  Fade,          \* Fade[x]: x * (1 - alpha), rounded
  AddAlpha       \* AddAlpha[x]: alpha + x, rounded

Result == {"absent", "pass", "fail"}

Double == 0 .. Top

\* Rounded arithmetic is monotone, and x * (1 - alpha) stays below alpha, as
\* alpha is 0.9.
HistoryAssumption ==
  /\ history \in Nat /\ MaxVersions \in Nat
  /\ Top \in Nat /\ Fade \in [Double -> Double] /\ AddAlpha \in [Double -> Double]
  /\ \A x, y \in Double : x =< y => Fade[x] =< Fade[y] /\ AddAlpha[x] =< AddAlpha[y]
  /\ \A x, y \in Double : Fade[x] < AddAlpha[Fade[y]]

VARIABLES
  versions,            \* ci_objs: the results of every version
  last_failure_time, last_executed_time,
  failed_count, executed_count,
  exd_value, rocket_value,
  i,                   \* the next version of extract, then of the ranking
  his_arr,             \* what a file of the version is ranked by
  faults_arr,          \* the files counted as faults, with multiplicity
  h_pc                 \* "extract" or "rank"

history_vars == <<versions, last_failure_time, last_executed_time, failed_count,
                  executed_count, exd_value, rocket_value, i, his_arr, faults_arr, h_pc>>

\* Files with a test in some version: the keys of the maps.
Keys == {k \in FilePath : \E v \in DOMAIN versions : versions[v][k] # "absent"}
Failed(v, k) == versions[v][k] = "fail"
LastEntry(s) == s[Len(s)]

\* init_map
HistoryInit ==
  /\ versions \in UNION {[1 .. n -> [FilePath -> Result]] : n \in 1 .. MaxVersions}
  /\ last_failure_time = [k \in Keys |-> <<None>>]
  /\ last_executed_time = [k \in Keys |-> <<None>>]
  /\ failed_count = [k \in Keys |-> <<0>>]
  /\ executed_count = [k \in Keys |-> <<0>>]
  /\ exd_value = [k \in Keys |-> <<0>>]
  /\ rocket_value = [k \in Keys |-> <<0>>]
  /\ i = 1
  /\ his_arr = << >> /\ faults_arr = << >>
  /\ h_pc = "extract"

-----------------------------------------------------------------------------
\* Every list of m gets the value of its file.
Appended(m, values) == [k \in Keys |-> Append(m[k], values[k])]

\* Mutant: a test that was not executed counts as executed.
ExecutedNow_Always(k) == LastEntry(executed_count[k]) + 1

ExecutedNow(k) == LastEntry(executed_count[k]) + IF versions[i][k] = "absent" THEN 0 ELSE 1

\* Mutant: a version without a failure leaves the value as it is.
ExdNow_Stays(k) ==
  IF Failed(i, k) THEN AddAlpha[Fade[LastEntry(exd_value[k])]] ELSE LastEntry(exd_value[k])

\* alpha * 1 + previous * (1 - alpha), or previous * (1 - alpha) alone.
ExdNow(k) ==
  LET faded == Fade[LastEntry(exd_value[k])]
  IN  IF Failed(i, k) THEN AddAlpha[faded] ELSE faded

\* Mutant: the weight 0.2 depends on the distance of the version.
RocketWeight_Distance(j) == IF i - j = 1 THEN 7 ELSE IF i - j = 2 THEN 2 ELSE 1

\* Weight of version j + 1 when version i is entered.
RocketWeight(j) == IF i - j = 1 THEN 7 ELSE IF i = 2 THEN 2 ELSE 1

RocketNow(k) ==
  SumFunction([j \in 0 .. i - 1 |-> IF Failed(j + 1, k) THEN RocketWeight(j) ELSE 0])

\* extract, the body of the loop for version i.
extract ==
  /\ h_pc = "extract" /\ i =< Len(versions)
  /\ executed_count' = Appended(executed_count, [k \in Keys |-> ExecutedNow(k)])
  /\ last_executed_time' = Appended(last_executed_time, [k \in Keys |->
       IF versions[i][k] = "absent" THEN LastEntry(last_executed_time[k]) ELSE i])
  /\ last_failure_time' = Appended(last_failure_time, [k \in Keys |->
       IF Failed(i, k) THEN i ELSE LastEntry(last_failure_time[k])])
  /\ failed_count' = Appended(failed_count, [k \in Keys |->
       LastEntry(failed_count[k]) + IF Failed(i, k) THEN 1 ELSE 0])
  /\ exd_value' = Appended(exd_value, [k \in Keys |-> ExdNow(k)])
  /\ rocket_value' = Appended(rocket_value, [k \in Keys |-> RocketNow(k)])
  /\ i' = i + 1
  /\ UNCHANGED <<versions, his_arr, faults_arr, h_pc>>

\* history_main.py takes the lists from the file that an earlier run over the
\* same versions has saved.
StartRanking ==
  /\ h_pc = "extract" /\ i > Len(versions)
  /\ h_pc' = "rank" /\ i' = 1
  /\ UNCHANGED <<versions, last_failure_time, last_executed_time, failed_count,
                 executed_count, exd_value, rocket_value, his_arr, faults_arr>>

-----------------------------------------------------------------------------
\* Mutant: one entry too far.
HisIndex_Later == (i - 1) - history + 2

\* his_index = i - history in the code, whose indices start at 0.
HisIndex == (i - 1) - history + 1

Faults == {k \in FilePath : Failed(i, k)}

\* Days since, of a time that may be missing.
Since(time) == IF time = None THEN 0 ELSE i - time

\* The columns; the failure rate is a fraction, 0 for what never ran.
Ranked(k) ==
  LET h == HisIndex
  IN  [failed_count |-> failed_count[k][h],
       time_since_last_failure |-> Since(last_failure_time[k][h]),
       failed_rate |-> IF executed_count[k][h] = 0 THEN <<0, 1>>
                       ELSE <<failed_count[k][h], executed_count[k][h]>>,
       exd |-> exd_value[k][h],
       rocket |-> rocket_value[k][h],
       time_since_last_execute |-> Since(last_executed_time[k][h])]

\* history_main leaves out the first versions and those without a fault.
\* The faults are collected before the loop and once more inside it.
Rank ==
  /\ h_pc = "rank" /\ i =< Len(versions)
  /\ IF i - 1 = 0 \/ i - 1 =< history \/ Faults = {}
     THEN UNCHANGED <<his_arr, faults_arr>>
     ELSE /\ his_arr' = [k \in {f \in FilePath : versions[i][f] # "absent"} |-> Ranked(k)]
          /\ faults_arr' = [k \in Faults |-> 2]
  /\ i' = i + 1
  /\ UNCHANGED <<versions, last_failure_time, last_executed_time, failed_count,
                 executed_count, exd_value, rocket_value, h_pc>>

HistoryNext == extract \/ StartRanking \/ Rank

HistorySpec == HistoryInit /\ [][HistoryNext]_history_vars

-----------------------------------------------------------------------------
Entries == IF h_pc = "extract" THEN i ELSE Len(versions) + 1
FailsUpTo(n, k) == {v \in 1 .. n : Failed(v, k)}
RunsUpTo(n, k) == {v \in 1 .. n : versions[v][k] # "absent"}
LatestOf(S) == IF S = {} THEN None ELSE Max(S)

\* Entry n + 1 says of the first n versions how often and when a file was
\* run and failed; a version without the file, whose count is first added
\* and then taken back, leaves no trace.
HistoryExact ==
  \A k \in Keys : \A n \in 0 .. Entries - 1 :
    /\ failed_count[k][n + 1] = Cardinality(FailsUpTo(n, k))
    /\ executed_count[k][n + 1] = Cardinality(RunsUpTo(n, k))
    /\ last_failure_time[k][n + 1] = LatestOf(FailsUpTo(n, k))
    /\ last_executed_time[k][n + 1] = LatestOf(RunsUpTo(n, k))

\* exd_value never orders two files against their latest difference: the one
\* with the greater value failed in the last version in which only one of the
\* two failed.  A difference in the last version always shows; an older one
\* may be lost by rounding, and the values are then equal.
ExdByRecency ==
  \A a, b \in Keys : \A n \in 1 .. Entries - 1 :
    LET differ == {v \in 1 .. n : Failed(v, a) # Failed(v, b)}
    IN  /\ exd_value[a][n + 1] > exd_value[b][n + 1] => differ # {} /\ Failed(Max(differ), a)
        /\ Failed(n, a) /\ ~ Failed(n, b) => exd_value[a][n + 1] > exd_value[b][n + 1]

\* rocket_value puts a file that failed in the last version before one that
\* did not, in the first seven versions, when older failures cannot weigh as
\* much.  Files alike in the last version are ordered by the number of their
\* failures alone: as the code tests i == 2, the version before the last has
\* no weight of its own from the third version on.
RocketOrder ==
  \A a, b \in Keys : \A n \in 1 .. Entries - 1 :
    /\ n =< 7 /\ Failed(n, a) /\ ~ Failed(n, b) =>
         rocket_value[a][n + 1] > rocket_value[b][n + 1]
    /\ (Failed(n, a) <=> Failed(n, b)) =>
         (rocket_value[a][n + 1] > rocket_value[b][n + 1] <=>
            failed_count[a][n + 1] > failed_count[b][n + 1])

\* Ranking a version never looks at its own results or at later ones: the
\* numbers are those of the versions before it, less the last history ones.
NoPeeking ==
  [][\A k \in DOMAIN his_arr' :
       his_arr' # his_arr =>
         /\ his_arr'[k].failed_count = Cardinality(FailsUpTo(i - 1 - history, k))
         /\ his_arr'[k].failed_rate[1] =< his_arr'[k].failed_rate[2]
         /\ his_arr'[k].time_since_last_execute # 0 =>
              his_arr'[k].time_since_last_execute > history]_history_vars
=============================================================================
